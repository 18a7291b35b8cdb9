------------------------------ MODULE IsrFrame ------------------------------
(***************************************************************************)
(* The trap frame: from the interrupt through the stub in arch/x86/isr.S,  *)
(* isr_common and interrupt_dispatch (arch/x86/isr.c) back to the          *)
(* interrupted code, or to the code of another process.                    *)
(*                                                                         *)
(* A stack is the sequence of the words pushed on it, the last word pushed *)
(* at the end.  A frame is where esp points after pusha; registers_t reads *)
(* it upwards from there.  Which process runs next is Process's business:  *)
(* here a tick or a system call may switch to any of them.                 *)
(***************************************************************************)
EXTENDS Integers, Sequences, SequencesExt

CONSTANTS
  Users,    \* processes in ring 3
  Workers,  \* kernel workers, in ring 0
  Vectors,  \* interrupts, exceptions and the system call that occur
  MaxNest   \* page faults that a handler may take, one inside another

Procs == Users \cup Workers

ASSUME FrameAssumption ==
  /\ Users # {}
  /\ Users \cap Workers = {}
  /\ Vectors \subseteq (0 .. 47) \cup {128}
  /\ MaxNest \in Nat

VARIABLES
  regs,             \* the registers of the CPU
  run,              \* the process they belong to
  esp0,             \* the process whose kernel stack the TSS names
  stk,              \* the process on whose kernel stack the kernel is
  mem,              \* the kernel stacks
  interrupt_frame,  \* where the frame of a process starts, 0 for none
  at,               \* "code", "stub", "handler", "leave" or "down"
  ret,              \* the frame that interrupt_dispatch returned
  snap              \* what each process saw when it was last interrupted

vars == <<regs, run, esp0, stk, mem, interrupt_frame, at, ret, snap>>

-----------------------------------------------------------------------------
(* Registers and words.                                                    *)

Gpr == {"edi", "esi", "ebp", "ebx", "edx", "ecx", "eax"}
Regs == Gpr \cup {"esp", "eip", "cs", "eflags", "ss"}

UserCs == <<"cs", 3>>
KernelCs == <<"cs", 0>>
Num(k) == <<"num", k>>

(* The registers of p, which runs its own code, at one of its instructions. *)
CodeRegs(p, i) ==
  [r \in Regs |-> CASE r = "cs" -> IF p \in Users THEN UserCs ELSE KernelCs
                    [] r \in {"esp", "ss"} /\ p \in Workers -> <<r, "kernel">>
                    [] OTHER -> <<r, p, i>>]

(* The registers of a handler. *)
KernelRegs == [r \in Regs |-> IF r = "cs" THEN KernelCs ELSE <<r, "kernel">>]

(* registers_t, from the lowest address up. *)
Layout == <<"edi", "esi", "ebp", "esp", "ebx", "edx", "ecx", "eax",
            "int_no", "err_code", "eip", "cs", "eflags", "useresp", "ss">>

OffsetOf(f) == (CHOOSE i \in DOMAIN Layout : Layout[i] = f) - 1

(* The position in a stack of a field of the frame at position n. *)
Field(words, n, f) == words[n - OffsetOf(f)]

-----------------------------------------------------------------------------
(* The CPU, as the code uses it.                                           *)

(* The exceptions with an error code. *)
HasErrorCode(v) == v \in {8, 10, 11, 12, 13, 14, 17}
ErrorCode(v) == IF HasErrorCode(v) THEN <<"error", v>> ELSE Num(0)

(* What an interrupt pushes; ring 3 pushes its stack first. *)
CpuPushes(v) ==
  (IF regs["cs"] = UserCs THEN <<regs["ss"], regs["esp"]>> ELSE <<>>)
    \o <<regs["eflags"], regs["cs"], regs["eip"]>>
    \o (IF HasErrorCode(v) THEN <<ErrorCode(v)>> ELSE <<>>)

Pusha ==
  [i \in 1 .. 8 |-> regs[<<"eax", "ecx", "edx", "ebx", "esp", "ebp", "esi", "edi">>[i]]]

-----------------------------------------------------------------------------
(* The stubs.                                                              *)

(* A stub pushes the vector, below a 0 where the CPU pushes no error code. *)
PlainStub(v) == <<Num(0), Num(v)>>
ErrorStub(v) == <<Num(v)>>

(* Mutant: the stub of the page fault pushes an error code of its own. *)
ExceptionStubPadded(v) ==
  IF v \in {8} \cup (10 .. 13) \cup {17} THEN ErrorStub(v) ELSE PlainStub(v)

(* isr0 to isr31; some leave the error code to the CPU. *)
ExceptionStub(v) ==
  IF v \in {8} \cup (10 .. 14) \cup {17} THEN ErrorStub(v) ELSE PlainStub(v)

(* irq0 to irq15. *)
IrqStub(v) == PlainStub(v)

(* isr128 *)
SyscallStub == PlainStub(128)

Stub(v) ==
  CASE v < 32 -> ExceptionStub(v)
    [] v \in 32 .. 47 -> IrqStub(v)
    [] v = 128 -> SyscallStub

-----------------------------------------------------------------------------
(* frame_for: user processes have the first frame in the PCB, workers at   *)
(* the top of the kernel stack, with the entry point for context_switch in *)
(* the word below.                                                         *)

FirstRegs(p) ==
  [r \in Regs |-> IF r \in Gpr THEN Num(0) ELSE CodeRegs(p, 0)[r]]

FirstFrame(p) ==
  LET rg == FirstRegs(p)
  IN  <<rg["ss"], rg["esp"], rg["eflags"], rg["cs"], rg["eip"], Num(0), Num(0)>>
        \o [i \in 1 .. 8 |-> Num(0)]

(* The areas of memory that hold frames: kernel stacks, and initial_frame. *)
InitialArea(p) == IF p \in Users THEN <<"initial_frame", p>> ELSE p
Areas == Procs \cup {InitialArea(p) : p \in Procs}

FirstStack(p) == IF p \in Users THEN <<>> ELSE Append(FirstFrame(p), FirstRegs(p)["eip"])

NoFrame == [area |-> 0, top |-> 0]

(* Mutant: every process is started from its first frame. *)
FrameOfStart(p) == [area |-> InitialArea(p), top |-> 15]

(* The frame through which p is resumed. *)
FrameOf(p) ==
  IF interrupt_frame[p] # NoFrame THEN interrupt_frame[p]
  ELSE [area |-> InitialArea(p), top |-> 15]

-----------------------------------------------------------------------------
Snapshot(v, rg, depth) == [vector |-> v, regs |-> rg, depth |-> depth]

(* process_enter_user starts the first process; the others have a frame. *)
Init ==
  /\ run \in Users
  /\ regs = CodeRegs(run, 0)
  /\ esp0 = run
  /\ stk = run
  /\ mem = [a \in Areas |-> IF a \in Procs THEN FirstStack(a) ELSE FirstFrame(a[2])]
  /\ interrupt_frame = [p \in Procs |-> NoFrame]
  /\ at = "code"
  /\ ret = NoFrame
  /\ snap = [p \in Procs |->
       IF p = run THEN <<>>
       ELSE <<Snapshot(0, FirstRegs(p), IF p \in Workers THEN 2 ELSE 0)>>]

(* The process goes on with its work. *)
Compute ==
  /\ at = "code"
  /\ \E i \in 0 .. 1 : regs' = CodeRegs(run, i)
  /\ UNCHANGED <<run, esp0, stk, mem, interrupt_frame, at, ret, snap>>

(***************************************************************************)
(* The CPU takes an interrupt: in the code of a process, or a page fault   *)
(* in a handler.                                                           *)
(***************************************************************************)
Trap(v) ==
  LET user == regs["cs"] = UserCs
      base == IF user THEN <<>> ELSE mem[stk]
      s == IF user THEN esp0 ELSE stk
  IN  /\ \/ at = "code" /\ (v = 128 => run \in Users)
         \/ at = "handler" /\ v = 14 /\ Len(snap[run]) <= MaxNest
      /\ stk' = s
      /\ mem' = [mem EXCEPT ![s] = base \o CpuPushes(v)]
      /\ snap' = [snap EXCEPT ![run] = Append(@, Snapshot(v, regs, Len(base)))]
      /\ at' = "stub"
      /\ UNCHANGED <<regs, run, esp0, interrupt_frame, ret>>

(***************************************************************************)
(* The stub, and isr_common up to the call.  One word stands for what the  *)
(* call and the handler push.                                              *)
(***************************************************************************)
Enter ==
  /\ at = "stub"
  /\ mem' = [mem EXCEPT ![stk] = @ \o Stub(Last(snap[run]).vector) \o Pusha
                                   \o <<<<"call">>>>]
  /\ regs' = KernelRegs
  /\ at' = "handler"
  /\ UNCHANGED <<run, esp0, stk, interrupt_frame, ret, snap>>

-----------------------------------------------------------------------------
(* interrupt_dispatch, by the vector in the frame r.                       *)

r == [area |-> stk, top |-> Len(mem[stk]) - 1]
InFrame(f) == Field(mem[stk], r.top, f)
Handles(V) == at = "handler" /\ \E v \in V : InFrame("int_no") = Num(v)

LeaveThrough(f) ==
  /\ ret' = f
  /\ at' = "leave"

(* Any exception but a page fault is a panic, and so may a page fault be. *)
Panic ==
  /\ Handles(0 .. 31)
  /\ at' = "down"
  /\ UNCHANGED <<regs, run, esp0, stk, mem, interrupt_frame, ret, snap>>

PageFault ==
  /\ Handles({14})
  /\ LeaveThrough(r)
  /\ UNCHANGED <<regs, run, esp0, stk, mem, interrupt_frame, snap>>

Irq ==
  /\ Handles(33 .. 47)
  /\ LeaveThrough(r)
  /\ UNCHANGED <<regs, run, esp0, stk, mem, interrupt_frame, snap>>

(* The next trap from ring 3 uses the kernel stack of n. *)
tss_set_kernel_stack(n) == esp0' = n

(***************************************************************************)
(* Both switches of the scheduler: back to the process that trapped, or to *)
(* any other.  A process that runs as idle has its frame recorded in the   *)
(* idle PCB, not in its own.                                               *)
(***************************************************************************)
Switch ==
  \E n \in Procs, asIdle \in BOOLEAN :
    /\ asIdle => run \in Users /\ interrupt_frame[run] # NoFrame
    /\ interrupt_frame' = IF asIdle THEN interrupt_frame
                          ELSE [interrupt_frame EXCEPT ![run] = r]
    /\ LeaveThrough(IF n = run THEN r ELSE FrameOf(n))
    /\ run' = n
    /\ tss_set_kernel_stack(n)
    /\ UNCHANGED stk

Tick ==
  /\ Handles({32})
  /\ Switch
  /\ UNCHANGED <<regs, mem, snap>>

(* A system call leaves its result in the frame. *)
Syscall ==
  LET result == <<"result", run>>
  IN  /\ Handles({128})
      /\ mem' = [mem EXCEPT ![stk][r.top - OffsetOf("eax")] = result]
      /\ snap' = [snap EXCEPT ![run][Len(snap[run])].regs["eax"] = result]
      /\ Switch
      /\ UNCHANGED regs

(***************************************************************************)
(* The rest of isr_common: mov esp,eax, popa, add esp,8 and iretd, which   *)
(* takes the stack from the frame when it returns to ring 3.               *)
(***************************************************************************)
Leave ==
  LET words == mem[ret.area]
      F(f) == Field(words, ret.top, f)
      user == F("cs") = UserCs
  IN  /\ at = "leave"
      /\ regs' = [x \in Regs |->
           CASE x = "esp" -> IF user THEN F("useresp") ELSE <<x, "kernel">>
             [] x = "ss" -> IF user THEN F("ss") ELSE <<x, "kernel">>
             [] OTHER -> F(x)]
      /\ mem' = IF user THEN mem
                ELSE [mem EXCEPT ![ret.area] = SubSeq(@, 1, ret.top - 13)]
      /\ stk' = IF user THEN stk ELSE ret.area
      /\ snap' = [snap EXCEPT ![run] = Front(@)]
      /\ at' = IF Len(snap[run]) > 1 THEN "handler" ELSE "code"
      /\ ret' = NoFrame
      /\ UNCHANGED <<run, esp0, interrupt_frame>>

Next ==
  \/ Compute
  \/ \E v \in Vectors : Trap(v)
  \/ Enter
  \/ Panic \/ PageFault \/ Irq \/ Tick \/ Syscall
  \/ Leave

Spec == Init /\ [][Next]_vars

-----------------------------------------------------------------------------
(* Properties.                                                             *)

(***************************************************************************)
(* Types; and a saved frame is always the topmost of the kernel stack of   *)
(* its own process: interrupt_frame stays right for a process that traps   *)
(* again while the scheduler takes it for idle.                            *)
(***************************************************************************)
TypeOK ==
  /\ DOMAIN regs = Regs
  /\ run \in Procs /\ esp0 \in Procs /\ stk \in Procs
  /\ DOMAIN mem = Areas
  /\ \A p \in Procs : interrupt_frame[p] \in {NoFrame, [area |-> p, top |-> 15]}
  /\ at \in {"code", "stub", "handler", "leave", "down"}

(***************************************************************************)
(* registers_t tells a handler the truth: the vector, the error code or 0, *)
(* and every register of the code that was interrupted, whichever stub     *)
(* built the frame.  Stack and stack segment are there only for ring 3.    *)
(***************************************************************************)
FrameTellsTrap ==
  at = "handler" =>
    LET s == Last(snap[run])
    IN  /\ InFrame("int_no") = Num(s.vector)
        /\ InFrame("err_code") = ErrorCode(s.vector)
        /\ \A x \in Gpr \cup {"eip", "cs", "eflags"} : InFrame(x) = s.regs[x]
        /\ s.regs["cs"] = UserCs => /\ InFrame("useresp") = s.regs["esp"]
                                    /\ InFrame("ss") = s.regs["ss"]

(***************************************************************************)
(* A process, or a handler that took a page fault, goes on with exactly    *)
(* the registers it was interrupted with (but for the result of a system   *)
(* call), however many switches lie between; code in ring 0 also finds its *)
(* stack at the same depth.                                                *)
(***************************************************************************)
ResumesWhereInterrupted ==
  [][at = "leave" =>
       LET s == Last(snap[run])
       IN  /\ regs' = s.regs
           /\ s.regs["cs"] = KernelCs => Len(mem'[run]) = s.depth]_vars
=============================================================================
