------------------------------ MODULE Signals ------------------------------
(***************************************************************************)
(* Signals of one user process (kernel/process.c): they become pending     *)
(* when somebody sends them, and are delivered when a system call of the   *)
(* process returns, by exchanging the frame through which it returns.      *)
(* Signal 9 and what signals do to the scheduler are in Process.           *)
(*                                                                         *)
(* A frame says in which image the process goes on and where: in its main  *)
(* program or in the handler of a signal, behind which system call, with   *)
(* how many signals on the stack and with which result in eax.  A handler  *)
(* is the number of the image it was registered in, 0 for none.            *)
(*                                                                         *)
(* A process that blocks when nothing is ready keeps the CPU: the          *)
(* scheduler takes it for idle, and so do the calls it makes then, of      *)
(* which those without a space or a PCB of their own fail.  Preemption     *)
(* that changes none of this is left out, and yield is in Process.         *)
(***************************************************************************)
EXTENDS Integers, Sequences, FiniteSetsExt

CONSTANTS
  SignalNumbers,  \* bound: the signals that are used
  MaxImages,      \* bound: images a process goes through
  MaxSignalCalls  \* bound: system calls and signals from elsewhere

ASSUME SignalsAssumption == SignalNumbers \subseteq Nat \ {0}

VARIABLES
  pcb,      \* pending_signals, signal_mask, signal_handlers, signal_active
            \* and signal_saved_frame
  frame,    \* the registers with which the process goes on
  image,    \* the image in its address space
  mode,     \* "runs", also when it waits for the CPU; "blocked" without the CPU;
            \* "idle": blocked, and running on; "called": ready, and still so
  entered,  \* history: the frames that handlers have interrupted
  signal_calls

signalVars == <<pcb, frame, image, mode, entered, signal_calls>>

Main == 0
Etimedout == -110
Start(n) == [image |-> n, code |-> Main, call |-> 0, stack |-> 0, eax |-> 0]

(* The PCB as new_pcb leaves it. *)
SignalsInit ==
  /\ pcb = [pending |-> {}, mask |-> {}, handlers |-> [s \in SignalNumbers |-> 0],
            active |-> FALSE, saved |-> Start(0)]
  /\ frame = Start(1) /\ image = 1 /\ mode = "runs"
  /\ entered = <<>> /\ signal_calls = 0

-----------------------------------------------------------------------------
(* Mutant: a handler may be interrupted by another. *)
MayDeliverAlways(p) == TRUE
MayDeliver(p) == ~p.active

(* process_deliver_signal: signals without a handler are dropped, and all  *)
(* of them if the stack has no room; the first one left gets its handler.  *)
process_deliver_signal(p, r, room) ==
  LET open == p.pending \ p.mask
      caught == {s \in open : p.handlers[s] # 0}
      first == Min(caught)
  IN  IF ~MayDeliver(p) THEN [pcb |-> p, frame |-> r, delivered |-> FALSE]
      ELSE IF caught = {} \/ ~room
      THEN [pcb |-> [p EXCEPT !.pending = @ \ open], frame |-> r, delivered |-> FALSE]
      ELSE [pcb |-> [p EXCEPT !.pending = @ \ {s \in open : s <= first},
                              !.saved = r, !.active = TRUE],
            frame |-> [image |-> p.handlers[first], code |-> first, call |-> 0,
                       stack |-> r.stack + 1, eax |-> first],
            delivered |-> TRUE]

SignalStep == signal_calls < MaxSignalCalls /\ signal_calls' = signal_calls + 1
Returned(eax) == [frame EXCEPT !.call = signal_calls + 1, !.eax = eax]

(* syscall_from_interrupt after a call that left p in the PCB. *)
Returns(p, eax, room) ==
  LET d == process_deliver_signal(p, Returned(eax), room)
  IN  /\ mode = "runs" /\ SignalStep
      /\ pcb' = d.pcb /\ frame' = d.frame
      /\ entered' = IF d.delivered THEN Append(entered, Returned(eax)) ELSE entered

sigaction_sys(s, handler, mask, room) ==
  /\ Returns([pcb EXCEPT !.handlers[s] = handler, !.mask = mask], 0, room)
  /\ UNCHANGED <<image, mode>>
kill_self(s, room) ==
  /\ Returns([pcb EXCEPT !.pending = @ \cup {s}], 0, room)
  /\ UNCHANGED <<image, mode>>
any_other_call(eax, room) == Returns(pcb, eax, room) /\ UNCHANGED <<image, mode>>
(* The process blocks in the frame of the handler, if there is one; with   *)
(* nothing ready, scheduler_block_current returns that frame.              *)
futex_wait_sys(room) ==
  /\ Returns(pcb, 0, room)
  /\ mode' \in {"blocked", "idle"}
  /\ UNCHANGED image

(* process_signal_return; without a handler the call does nothing. *)
sigreturn_sys ==
  /\ mode = "runs" /\ SignalStep
  /\ IF pcb.active
     THEN /\ frame' = pcb.saved /\ pcb' = [pcb EXCEPT !.active = FALSE]
          /\ entered' = SubSeq(entered, 1, Len(entered) - 1)
     ELSE frame' = Returned(0) /\ UNCHANGED <<pcb, entered>>
  /\ UNCHANGED <<image, mode>>

(* exec: a signal is delivered first, and then the frame is overwritten.   *)
(* Handlers, mask and signal_active stay.                                  *)
ee(room) ==
  /\ mode = "runs" /\ SignalStep /\ image < MaxImages
  /\ image' = image + 1
  /\ LET d == process_deliver_signal(pcb, Returned(0), room)
     IN  /\ pcb' = d.pcb
         /\ frame' = [Start(image + 1) EXCEPT !.eax = d.frame.eax]
  /\ entered' = <<>>
  /\ UNCHANGED mode

(* Calls while the scheduler takes the process for idle, which has no      *)
(* signals to deliver and no handler to leave: sigaction, exec and another *)
(* wait fail, sigreturn does nothing.  A signal to itself, by its pid,     *)
(* makes it ready.                                                         *)
AsIdle == mode \in {"idle", "called"}
CallAsIdle(eax) ==
  /\ AsIdle /\ SignalStep
  /\ frame' = Returned(eax)
  /\ UNCHANGED <<pcb, image, mode, entered>>
KillAsIdle(s) ==
  /\ AsIdle /\ SignalStep
  /\ pcb' = [pcb EXCEPT !.pending = @ \cup {s}]
  /\ frame' = Returned(0) /\ mode' = "called"
  /\ UNCHANGED <<image, entered>>

-----------------------------------------------------------------------------
(* What others do, while the process is off the CPU: a signal ends a wait; *)
(* so do a wake and a timeout, which leave the result in the frame.        *)
process_send_signal(s) ==
  /\ ~AsIdle /\ SignalStep
  /\ pcb' = [pcb EXCEPT !.pending = @ \cup {s}]
  /\ mode' = "runs"
  /\ UNCHANGED <<frame, image, entered>>
(* A timeout comes with a tick, and so also to a process that runs on: the *)
(* frame of that tick is at the place where the wait left its own.         *)
Woken(eax) ==
  /\ mode = "blocked" \/ (mode = "idle" /\ eax = Etimedout)
  /\ mode' = "runs"
  /\ frame' = [frame EXCEPT !.eax = eax]
  /\ UNCHANGED <<pcb, image, entered, signal_calls>>
(* A tick takes the CPU from the process that runs on as idle. *)
Replaced ==
  /\ AsIdle
  /\ mode' = IF mode = "idle" THEN "blocked" ELSE "runs"
  /\ UNCHANGED <<pcb, frame, image, entered, signal_calls>>

SignalNext ==
  \/ \E s \in SignalNumbers, room \in BOOLEAN :
       \/ \E h \in {0, image}, m \in SUBSET SignalNumbers : sigaction_sys(s, h, m, room)
       \/ kill_self(s, room)
  \/ \E eax \in {0, -1}, room \in BOOLEAN : any_other_call(eax, room)
  \/ \E room \in BOOLEAN : futex_wait_sys(room) \/ ee(room)
  \/ sigreturn_sys
  \/ \E eax \in {0, -1} : CallAsIdle(eax)
  \/ \E s \in SignalNumbers : KillAsIdle(s) \/ process_send_signal(s)
  \/ \E eax \in {0, Etimedout} : Woken(eax)
  \/ Replaced

-----------------------------------------------------------------------------
(* A handler is never interrupted by another, and signal_saved_frame is    *)
(* the frame that it interrupted, whatever is sent, masked, waited for and *)
(* registered meanwhile, also by a process that has blocked and runs on:   *)
(* the first sigreturn that the scheduler does not take for idle's brings  *)
(* the process back to where it was, with the result of the call, and up   *)
(* to it the process is in that handler.  Only after an exec may           *)
(* signal_active be set with no handler running.                           *)
HandlersReturn ==
  /\ entered # <<>> => pcb.active /\ entered = <<pcb.saved>>
  /\ image = 1 => /\ pcb.active <=> entered # <<>>
                  /\ frame.code # Main <=> entered # <<>>
                  /\ frame.stack = Len(entered)
=============================================================================
