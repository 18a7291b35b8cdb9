------------------------------ MODULE Process ------------------------------
(***************************************************************************)
(* The process table (kernel/process.c), the round-robin scheduler         *)
(* (scheduler/round_robin.c) and the system calls that change either       *)
(* (kernel/syscall.c).                                                     *)
(*                                                                         *)
(* Every gate of the IDT is an interrupt gate, so a system call and the    *)
(* timer interrupt run with interrupts off on the only CPU: one action is  *)
(* one whole handler, from the trap to the iretd.                          *)
(*                                                                         *)
(* The kernel's idea of who runs is `current`; who really runs is `cpu`.   *)
(* The two part company: when a process blocks or exits and nothing is     *)
(* ready, the scheduler makes the idle PCB current and returns to the      *)
(* frame of the process that trapped, which goes on executing as pid 0.    *)
(*                                                                         *)
(* The intrusive list ready_head/next is the sequence `ready`; ReadyList   *)
(* models the list itself.                                                 *)
(***************************************************************************)
EXTENDS Integers, Sequences, FiniteSets

CONSTANTS
  N,           \* MAX_PROCESSES, the number of PCB slots
  NumWorkers,  \* kernel workers queued by run_preemption_test
  GenMax,      \* largest generation of a slot (0x00ffffff)
  Keys,        \* user addresses used as futex words
  NoKey,       \* futex_key = 0
  MaxTimeout,  \* longest futex timeout, in timer ticks
  Calls,       \* the system calls that user programs make
  Idle         \* the scheduler's idle PCB, which is in no slot

Slots == 0 .. N - 1
Procs == Slots \cup {Idle}
CallNames == {"fork", "exit", "wait", "kill", "signal", "futex_wait",
              "futex_wake", "yield", "sleep", "other"}

(* pid_t keeps the slot in its low byte, hence the bound on N. *)
ASSUME ConstantsAssumption ==
  /\ N \in 1 .. 255
  /\ NumWorkers \in Nat
  /\ NumWorkers + 1 < N
  /\ GenMax \in Nat \ {0}
  /\ MaxTimeout \in Nat
  /\ NoKey \notin Keys
  /\ Idle \notin Slots
  /\ Calls \subseteq CallNames

VARIABLES
  allocated, generation, state, parent_pid, wait_for_pid, user_mode,
  futex_key,
  futex_left,      \* ticks until futex_deadline; 0 is no deadline
  interrupt_frame, \* whether interrupt_frame # 0
  context,         \* where the latest registers of a process are
  ready,           \* the list at ready_head
  current,         \* the scheduler's current PCB
  cpu,             \* the slot whose code executes
  machine          \* "down" after a panic, a hang or a wild jump

vars == <<allocated, generation, state, parent_pid, wait_for_pid, user_mode,
          futex_key, futex_left, interrupt_frame, context, ready, current,
          cpu, machine>>

States == {"ready", "running", "blocked", "zombie"}

(***************************************************************************)
(* The registers of a process are on the CPU ("run"), in the trap frame at *)
(* the top of its kernel stack ("irq"), below context_switch in its kernel *)
(* stack ("yield"), or still to be loaded from the frame frame_for built   *)
(* ("start").  A process forked by idle has none of these ("none"): no     *)
(* entry point, and the stack pointer 0 of the idle PCB.                   *)
(***************************************************************************)
Contexts == {"run", "irq", "yield", "start", "none"}

PidOf(g, s) == g * 256 + s + 1
Pid(s) == PidOf(generation[s], s)
CurrentPid == IF current = Idle THEN 0 ELSE Pid(current)
(* Mutant: the generation is not masked to its width. *)
NextGenerationUnmasked(g) == g + 1
NextGeneration(g) == IF g = GenMax THEN 1 ELSE g + 1

TypeOK ==
  /\ allocated \in [Slots -> BOOLEAN]
  /\ generation \in [Slots -> 0 .. GenMax]
  /\ state \in [Procs -> States]
  /\ parent_pid \in [Slots -> Nat]
  /\ wait_for_pid \in [Slots -> Nat]
  /\ user_mode \in [Slots -> BOOLEAN]
  /\ futex_key \in [Slots -> Keys \cup {NoKey}]
  /\ futex_left \in [Slots -> 0 .. MaxTimeout]
  /\ interrupt_frame \in [Slots -> BOOLEAN]
  /\ context \in [Slots -> Contexts]
  /\ ready \in Seq(Slots)
  /\ current \in Procs
  /\ cpu \in Slots
  /\ machine \in {"up", "down"}

(***************************************************************************)
(* kmain queues the workers, makes init current, and uses the next slot    *)
(* twice in process_pid_selftest; disk_exec_smoke queues a third program   *)
(* there when the disk has one.                                            *)
(***************************************************************************)
InitSlot == NumWorkers
DiskSlot == NumWorkers + 1

Init ==
  \E disk \in BOOLEAN :
    LET tested == NextGeneration(NextGeneration(0))
        live == IF disk THEN 0 .. DiskSlot ELSE 0 .. InitSlot
    IN  /\ allocated = [s \in Slots |-> s \in live]
        /\ generation = [s \in Slots |->
             CASE s <= InitSlot -> 1
               [] s = DiskSlot -> IF disk THEN NextGeneration(tested) ELSE tested
               [] OTHER -> 0]
        /\ state = [p \in Procs |->
             IF p \in {InitSlot, Idle} THEN "running" ELSE "ready"]
        /\ parent_pid = [s \in Slots |-> 0]
        /\ wait_for_pid = [s \in Slots |-> 0]
        /\ user_mode = [s \in Slots |-> s \in live /\ s >= InitSlot]
        /\ futex_key = [s \in Slots |-> NoKey]
        /\ futex_left = [s \in Slots |-> 0]
        /\ interrupt_frame = [s \in Slots |-> FALSE]
        /\ context = [s \in Slots |-> IF s = InitSlot THEN "run" ELSE "start"]
        /\ ready = [i \in 1 .. NumWorkers |-> i - 1]
                     \o (IF disk THEN <<DiskSlot>> ELSE <<>>)
        /\ current = InitSlot
        /\ cpu = InitSlot
        /\ machine = "up"

-----------------------------------------------------------------------------
(* The ready list.                                                         *)

(* Writing p->next = 0 drops whatever the list holds behind p. *)
CutAfter(q, p) ==
  IF \E i \in DOMAIN q : q[i] = p
  THEN SubSeq(q, 1, CHOOSE i \in DOMAIN q : q[i] = p)
  ELSE q

(* A loop over the table visits the slots in ascending order. *)
InSlotOrder(W) ==
  {s \in [1 .. Cardinality(W) -> W] :
     \A i, j \in DOMAIN s : i < j => s[i] < s[j]}

(***************************************************************************)
(* enqueue each process of W in turn; st is the state it reads.  The set   *)
(* has one element, the new list.  (Were a member of W queued already, the *)
(* code would tie the list into a loop: NoDuplicates says it never is.)    *)
(***************************************************************************)
Enqueue(q, st, W) ==
  LET added == {p \in W : /\ allocated[p]
                          /\ st[p] # "zombie"
                          /\ context[p] # "none"}
  IN  {q \o s : s \in InSlotOrder(added)}

(* Mutant: the last runnable process is taken. *)
NextReadyLast(q, al, st, k) ==
  LET Runnable(i) == al[q[i]] /\ st[q[i]] = "ready"
  IN  \/ /\ k = 0
         /\ \A i \in DOMAIN q : ~Runnable(i)
      \/ /\ k \in DOMAIN q
         /\ Runnable(k)
         /\ \A i \in k + 1 .. Len(q) : ~Runnable(i)

(***************************************************************************)
(* next_ready pops entries until one is allocated and ready: k is its      *)
(* position, or 0 when the list runs out and the answer is idle.           *)
(***************************************************************************)
NextReady(q, al, st, k) ==
  LET Runnable(i) == al[q[i]] /\ st[q[i]] = "ready"
  IN  \/ /\ k = 0
         /\ \A i \in DOMAIN q : ~Runnable(i)
      \/ /\ k \in DOMAIN q
         /\ Runnable(k)
         /\ \A i \in 1 .. k - 1 : ~Runnable(i)

(* Mutant: ready_head is not moved past the process taken. *)
PoppedKeepsHead(q, k) == IF k = 0 THEN <<>> ELSE SubSeq(q, k, Len(q))

Popped(q, k) == IF k = 0 THEN <<>> ELSE SubSeq(q, k + 1, Len(q))

-----------------------------------------------------------------------------
(* Switching.                                                              *)

(* Mutant: interrupt_frame is not set. *)
SaveFrameNot(fr) == fr

SaveFrame(fr) ==
  IF current = Idle THEN fr ELSE [fr EXCEPT ![current] = TRUE]

(***************************************************************************)
(* activate(n), then iretd through n's interrupt frame, or through its     *)
(* initial frame when it has none.                                         *)
(***************************************************************************)
IretTo(n, st, fr, cx) ==
  /\ state' = [st EXCEPT ![n] = "running"]
  /\ interrupt_frame' = fr
  /\ context' = [cx EXCEPT ![cpu] = "irq", ![n] = "run"]
  /\ current' = n
  /\ cpu' = n
  /\ machine' = IF cx[n] = "none" THEN "down" ELSE machine

(* scheduler_block_current, when the current process is blocked or dead. *)
SwitchFromCurrent(st, q, fr, cx) ==
  \E k \in 0 .. Len(q) :
    /\ NextReady(q, allocated', st, k)
    /\ ready' = Popped(q, k)
    /\ \/ /\ k = 0
          /\ state' = st
          /\ interrupt_frame' = SaveFrame(fr)
          /\ context' = cx
          /\ current' = Idle
          /\ UNCHANGED <<cpu, machine>>
       \/ /\ k # 0
          /\ IretTo(q[k], st, SaveFrame(fr), cx)

(***************************************************************************)
(* The end of syscall_from_interrupt; st, q, fr and cx are what the call   *)
(* itself leaves in state, ready, interrupt_frame and context.             *)
(***************************************************************************)
SyscallReturn(st, q, fr, cx) ==
  IF st[current] \in {"blocked", "zombie"}
  THEN SwitchFromCurrent(st, q, fr, cx)
  ELSE /\ state' = st
       /\ ready' = q
       /\ interrupt_frame' = fr
       /\ context' = cx
       /\ UNCHANGED <<current, cpu, machine>>

(* User code traps; a kernel worker makes no system calls. *)
Syscall(name) ==
  /\ machine = "up"
  /\ name \in Calls
  /\ user_mode[cpu]

(* The machine stops here: what it leaves behind is of no interest. *)
GoDown ==
  /\ machine' = "down"
  /\ UNCHANGED <<allocated, generation, state, parent_pid, wait_for_pid,
                 user_mode, futex_key, futex_left, interrupt_frame, context,
                 ready, current, cpu>>

-----------------------------------------------------------------------------
(* process_exit_with_status: t is the slot that exits and pid its pid.     *)

(***************************************************************************)
(* The second loop looks for processes whose parent is pid and that wait   *)
(* for pid: children of the process that exits, not its parent.            *)
(***************************************************************************)
ExitWoken(t, pid) ==
  {j \in Slots \ {t} : /\ allocated[j]
                       /\ parent_pid[j] = pid
                       /\ state[j] = "blocked"
                       /\ wait_for_pid[j] = pid}

ExitState(t, pid) ==
  [p \in Procs |-> IF p = t THEN "zombie"
                   ELSE IF p \in ExitWoken(t, pid) THEN "ready"
                   ELSE state[p]]

(* The first loop orphans the zombie children only. *)
ExitParents(par, t, pid) ==
  [j \in Slots |-> IF /\ allocated[j]
                      /\ par[j] = pid
                      /\ state[j] = "zombie" \/ j = t
                   THEN 0 ELSE par[j]]

ExitWaits(wait, t, pid) ==
  [j \in Slots |-> IF j \in ExitWoken(t, pid) THEN 0 ELSE wait[j]]

ExitTable(t) ==
  /\ parent_pid' = ExitParents(parent_pid, t, Pid(t))
  /\ wait_for_pid' = ExitWaits(wait_for_pid, t, Pid(t))
  /\ UNCHANGED <<allocated, generation, user_mode, futex_key, futex_left>>

(* SYS_KILL with signal 9, of any process that has a slot. *)
Kill(t) ==
  /\ Syscall("kill")
  /\ allocated[t]
  /\ ExitTable(t)
  /\ \E q \in Enqueue(ready, ExitState(t, Pid(t)), ExitWoken(t, Pid(t))) :
       SyscallReturn(ExitState(t, Pid(t)), q, interrupt_frame, context)

(* SYS_EXIT.  No slot has the pid of idle: exit as idle fails. *)
Exit ==
  /\ Syscall("exit")
  /\ current # Idle
  /\ ExitTable(current)
  /\ \E q \in Enqueue(ready, ExitState(current, Pid(current)),
                      ExitWoken(current, Pid(current))) :
       SyscallReturn(ExitState(current, Pid(current)), q, interrupt_frame,
                     context)

(***************************************************************************)
(* The end of worker_body.  It runs with interrupts on, but a worker has   *)
(* neither children nor waiters, so only the change of state is seen.  The *)
(* worker halts on the CPU until the next tick.                            *)
(***************************************************************************)
WorkerExit ==
  /\ machine = "up"
  /\ ~user_mode[cpu]
  /\ state[cpu] # "zombie"
  /\ ExitTable(cpu)
  /\ state' = ExitState(cpu, Pid(cpu))
  /\ \E q \in Enqueue(ready, ExitState(cpu, Pid(cpu)), ExitWoken(cpu, Pid(cpu))) :
       ready' = q
  /\ UNCHANGED <<interrupt_frame, context, current, cpu, machine>>

-----------------------------------------------------------------------------
(* process_fork                                                            *)

FreeSlot(s) == ~allocated[s] /\ \A r \in Slots : r < s => allocated[r]

(* new_pcb claims the slot, but vmm_create_address_space fails. *)
ForkWithoutSpace(s) ==
  /\ generation' = [generation EXCEPT ![s] = NextGeneration(@)]
  /\ user_mode' = [user_mode EXCEPT ![s] = FALSE]
  /\ UNCHANGED <<allocated, parent_pid, wait_for_pid, futex_key, futex_left>>
  /\ SyscallReturn([state EXCEPT ![s] = "ready"], CutAfter(ready, s),
                   interrupt_frame, context)

(***************************************************************************)
(* The child is ready but never given to scheduler_add.  When the clone of *)
(* the address space fails, process_exit makes it a zombie.                *)
(***************************************************************************)
ForkChild(s, cloned) ==
  LET gen == NextGeneration(generation[s])
      pid == PidOf(gen, s)
      par == [parent_pid EXCEPT ![s] = CurrentPid]
      wait == [wait_for_pid EXCEPT ![s] = 0]
      woken == IF cloned THEN {} ELSE ExitWoken(s, pid)
      st == IF cloned THEN [state EXCEPT ![s] = "ready"] ELSE ExitState(s, pid)
      frames == [interrupt_frame EXCEPT ![s] = FALSE]
      built == IF current = Idle \/ ~cloned THEN "none" ELSE "start"
  IN  /\ generation' = [generation EXCEPT ![s] = gen]
      /\ allocated' = [allocated EXCEPT ![s] = TRUE]
      /\ parent_pid' = IF cloned THEN par ELSE ExitParents(par, s, pid)
      /\ wait_for_pid' = IF cloned THEN wait ELSE ExitWaits(wait, s, pid)
      /\ user_mode' = [user_mode EXCEPT ![s] = current # Idle]
      /\ futex_key' = [futex_key EXCEPT ![s] = NoKey]
      /\ futex_left' = [futex_left EXCEPT ![s] = 0]
      /\ \E q \in Enqueue(CutAfter(ready, s), st, woken) :
           SyscallReturn(st, q, frames, [context EXCEPT ![s] = built])

Fork(s) ==
  /\ Syscall("fork")
  /\ FreeSlot(s)
  /\ \/ ForkWithoutSpace(s)
     \/ ForkChild(s, TRUE)
     \/ current # Idle /\ ForkChild(s, FALSE)

-----------------------------------------------------------------------------
(* process_wait                                                            *)

(* Mutant: the parent of the child is not compared. *)
WaitFindsAny(c) == allocated[c]

(* The child that wait finds by its pid and by the pid of the caller. *)
WaitFinds(c) == allocated[c] /\ parent_pid[c] = CurrentPid

(***************************************************************************)
(* A zombie child is reaped and its slot freed.  A zombie that reaps       *)
(* itself, as idle, returns to user mode without an address space.         *)
(***************************************************************************)
WaitReap(c) ==
  /\ Syscall("wait")
  /\ WaitFinds(c)
  /\ state[c] = "zombie"
  /\ IF c = cpu THEN GoDown
     ELSE /\ allocated' = [allocated EXCEPT ![c] = FALSE]
          /\ parent_pid' = [parent_pid EXCEPT ![c] = 0]
          /\ UNCHANGED <<generation, wait_for_pid, user_mode, futex_key,
                         futex_left>>
          /\ SyscallReturn([state EXCEPT ![c] = "ready"], CutAfter(ready, c),
                           [interrupt_frame EXCEPT ![c] = FALSE], context)

(* Any other child is waited for. *)
WaitBlock(c) ==
  /\ Syscall("wait")
  /\ WaitFinds(c)
  /\ state[c] # "zombie"
  /\ wait_for_pid' = IF current = Idle THEN wait_for_pid
                     ELSE [wait_for_pid EXCEPT ![current] = Pid(c)]
  /\ UNCHANGED <<allocated, generation, parent_pid, user_mode, futex_key,
                 futex_left>>
  /\ SyscallReturn([state EXCEPT ![current] = "blocked"], ready,
                   interrupt_frame, context)

-----------------------------------------------------------------------------
(* Signals other than 9, and futexes.                                      *)

(* Make the processes of W ready and queue them, in slot order. *)
Wake(W) ==
  LET st == [p \in Procs |-> IF p \in W THEN "ready" ELSE state[p]]
  IN  /\ futex_key' = [p \in Slots |-> IF p \in W THEN NoKey ELSE futex_key[p]]
      /\ futex_left' = [p \in Slots |-> IF p \in W THEN 0 ELSE futex_left[p]]
      /\ UNCHANGED <<allocated, generation, parent_pid, wait_for_pid, user_mode>>
      /\ \E q \in Enqueue(ready, st, W) :
           SyscallReturn(st, q, interrupt_frame, context)

(* Mutant: a process that is ready is made ready again. *)
SignalReady(t) ==
  /\ Syscall("signal")
  /\ allocated[t]
  /\ state[t] # "zombie"
  /\ Wake(IF state[t] \in {"blocked", "ready"} THEN {t} ELSE {})

(* process_send_signal interrupts whatever the process is blocked in. *)
Signal(t) ==
  /\ Syscall("signal")
  /\ allocated[t]
  /\ state[t] # "zombie"
  /\ Wake(IF state[t] = "blocked" THEN {t} ELSE {})

(* The word holds the expected value; ticks = 0 is a wait with no timeout. *)
FutexWait(key, ticks) ==
  /\ Syscall("futex_wait")
  /\ current # Idle
  /\ futex_key' = [futex_key EXCEPT ![current] = key]
  /\ futex_left' = [futex_left EXCEPT ![current] = ticks]
  /\ UNCHANGED <<allocated, generation, parent_pid, wait_for_pid, user_mode>>
  /\ SyscallReturn([state EXCEPT ![current] = "blocked"], ready,
                   interrupt_frame, context)

Waiters(key) == {p \in Slots : state[p] = "blocked" /\ futex_key[p] = key}

(* The first count waiters in slot order, or all of them when count = 0. *)
FutexWoken(key, count) ==
  {W \in SUBSET Waiters(key) :
     /\ \A p \in W, r \in Waiters(key) \ W : p < r
     /\ IF count = 0 THEN W = Waiters(key)
        ELSE \/ Cardinality(W) = count
             \/ W = Waiters(key) /\ Cardinality(W) <= count}

(* Waiters are found by address alone, in whatever address space. *)
FutexWake(key, count) ==
  /\ Syscall("futex_wake")
  /\ current # Idle
  /\ \E W \in FutexWoken(key, count) : Wake(W)

-----------------------------------------------------------------------------
(* Other calls, and the timer.                                             *)

(* A call that leaves the process table alone, or that fails. *)
OtherCall ==
  /\ Syscall("other")
  /\ UNCHANGED <<allocated, generation, parent_pid, wait_for_pid, user_mode,
                 futex_key, futex_left>>
  /\ SyscallReturn(state, ready, interrupt_frame, context)

(* ksleep_ms halts inside the interrupt gate: no interrupt ends the hlt. *)
Sleep == Syscall("sleep") /\ GoDown

(* Mutant: the state of the process preempted stays running. *)
PreemptedRuns(st) == st

(* The running process goes back to the end of the queue. *)
Preempted(st) ==
  IF current # Idle /\ st[current] = "running"
  THEN [st EXCEPT ![current] = "ready"] ELSE st

Requeued(st) == IF current # Idle /\ st[current] = "running" THEN {current} ELSE {}

(* Mutant: the process that executes is taken for the one that is current. *)
ExpiredElsewhere ==
  {p \in Slots : /\ allocated[p]
                 /\ state[p] = "blocked"
                 /\ futex_key[p] # NoKey
                 /\ futex_left[p] = 1
                 /\ p # cpu}

(* process_poll_timeouts *)
Expired ==
  {p \in Slots : /\ allocated[p]
                 /\ state[p] = "blocked"
                 /\ futex_key[p] # NoKey
                 /\ futex_left[p] = 1}

Polled ==
  [p \in Procs |-> IF p \notin Expired THEN state[p]
                   ELSE IF p = current THEN "running" ELSE "ready"]

(***************************************************************************)
(* The switch of scheduler_timer_tick, to entry k of q or to no entry.     *)
(* When the only runnable process is the current one, next_ready hands it  *)
(* back and it stays "ready".                                              *)
(***************************************************************************)
TickTo(q, k, st) ==
  /\ NextReady(q, allocated, st, k)
  /\ ready' = Popped(q, k)
  /\ \/ /\ k # 0
        /\ q[k] # current
        /\ IretTo(q[k], st, SaveFrame(interrupt_frame), context)
     \/ /\ k # 0
        /\ q[k] = current
        /\ state' = st
        /\ interrupt_frame' = SaveFrame(interrupt_frame)
        /\ UNCHANGED <<context, current, cpu, machine>>
     \/ /\ k = 0
        /\ LET on == current # Idle /\ st[current] = "ready"
           IN  /\ state' = IF on THEN [st EXCEPT ![current] = "running"] ELSE st
               /\ current' = IF on THEN current ELSE Idle
        /\ interrupt_frame' = SaveFrame(interrupt_frame)
        /\ UNCHANGED <<context, cpu, machine>>

(* IRQ0: scheduler_timer_tick. *)
TimerTick ==
  /\ machine = "up"
  /\ futex_key' = [p \in Slots |-> IF p \in Expired THEN NoKey ELSE futex_key[p]]
  /\ futex_left' = [p \in Slots |->
                      IF state[p] = "blocked" /\ futex_left[p] > 0
                      THEN futex_left[p] - 1 ELSE futex_left[p]]
  /\ UNCHANGED <<allocated, generation, parent_pid, wait_for_pid, user_mode>>
  /\ \E polled \in Enqueue(ready, Polled, Expired \ {current}) :
     \E q \in Enqueue(polled, Preempted(Polled), Requeued(Polled)) :
     \E k \in 0 .. Len(q) : TickTo(q, k, Preempted(Polled))

(***************************************************************************)
(* SYS_YIELD: rr_tick and context_switch, which resumes a process only     *)
(* where context_switch left it, or starts a worker.  With no other        *)
(* context to load (idle has none) the ret goes astray.                    *)
(***************************************************************************)
Resumable(n) == context[n] = "yield" \/ (context[n] = "start" /\ ~user_mode[n])

YieldTo(q, k, st) ==
  LET back == IF k = 0 THEN current = Idle ELSE q[k] = current
  IN  /\ NextReady(q, allocated, st, k)
      /\ \/ /\ back
            /\ state' = st
            /\ ready' = Popped(q, k)
            /\ UNCHANGED <<allocated, generation, parent_pid, wait_for_pid,
                           user_mode, futex_key, futex_left,
                           interrupt_frame, context, current, cpu, machine>>
         \/ /\ ~back
            /\ k # 0
            /\ Resumable(q[k])
            /\ state' = [st EXCEPT ![q[k]] = "running"]
            /\ ready' = Popped(q, k)
            /\ context' = [context EXCEPT
                 ![cpu] = IF current = Idle THEN "irq" ELSE "yield",
                 ![q[k]] = "run"]
            /\ current' = q[k]
            /\ cpu' = q[k]
            /\ UNCHANGED <<allocated, generation, parent_pid, wait_for_pid,
                           user_mode, futex_key, futex_left,
                           interrupt_frame, machine>>
         \/ /\ ~back
            /\ k # 0 => ~Resumable(q[k])
            /\ GoDown

Yield ==
  /\ Syscall("yield")
  /\ \E q \in Enqueue(ready, Preempted(state), Requeued(state)) :
     \E k \in 0 .. Len(q) : YieldTo(q, k, Preempted(state))

Next ==
  \/ TimerTick
  \/ WorkerExit
  \/ Exit
  \/ OtherCall
  \/ Sleep
  \/ Yield
  \/ \E s \in Slots : Kill(s) \/ Fork(s) \/ WaitReap(s) \/ WaitBlock(s) \/ Signal(s)
  \/ \E key \in Keys :
       \/ \E ticks \in 0 .. MaxTimeout : FutexWait(key, ticks)
       \/ \E count \in 0 .. 1 : FutexWake(key, count)

Spec == Init /\ [][Next]_vars

(* IRQ0 keeps coming: user code and workers run with interrupts on. *)
FairSpec == Spec /\ WF_vars(TimerTick)

-----------------------------------------------------------------------------
(* Properties.                                                             *)

(***************************************************************************)
(* No process is in the ready list twice.  enqueue clears p->next and      *)
(* walks to the tail: queueing a process that is queued would lose the     *)
(* processes behind it and tie the list into a loop that enqueue never     *)
(* leaves.                                                                 *)
(***************************************************************************)
NoDuplicates ==
  \A i, j \in DOMAIN ready : ready[i] = ready[j] => i = j

(***************************************************************************)
(* Neither the current process nor a blocked one is in the ready list, so  *)
(* the wakeups of exit, signals, futexes and timeouts and the preemption   *)
(* by the timer only queue a process that is not queued.                   *)
(***************************************************************************)
QueuedIsWaitingToRun ==
  \A i \in DOMAIN ready : ready[i] # current /\ state[ready[i]] # "blocked"

(***************************************************************************)
(* The process that scheduler_current names is the one on the CPU, it has  *)
(* a slot, and no other is marked running.  (When idle is current, any     *)
(* process may be on the CPU.)                                             *)
(***************************************************************************)
CurrentIsOnCpu ==
  /\ machine = "up" /\ current # Idle => cpu = current /\ allocated[current]
  /\ \A p \in Slots : state[p] = "running" => p = current

(***************************************************************************)
(* A process blocked in process_wait waits for a child of its own that     *)
(* still has its slot and its pid: neither an exit, a fork that reuses     *)
(* slots nor another reaper takes the child away while it waits.           *)
(***************************************************************************)
WaitTargetExists ==
  \A p \in Slots :
    state[p] = "blocked" /\ futex_key[p] = NoKey =>
      \E c \in Slots : /\ allocated[c]
                       /\ Pid(c) = wait_for_pid[p]
                       /\ parent_pid[c] = Pid(p)

(***************************************************************************)
(* interrupt_frame tells the timer path the truth about every process      *)
(* that did not leave the CPU through SYS_YIELD: set when it was           *)
(* interrupted, clear when it has never run.  So a process that is         *)
(* dispatched neither restarts from its entry point nor resumes a frame of *)
(* the previous owner of its slot.                                         *)
(***************************************************************************)
FrameMatchesContext ==
  machine = "up" =>
    \A p \in Slots :
      allocated[p] => /\ context[p] = "irq" => interrupt_frame[p]
                      /\ context[p] = "start" => ~interrupt_frame[p]

(***************************************************************************)
(* A process in the ready list gets the CPU (round robin, quantum of one   *)
(* tick) unless the machine stops first, whatever the programs do with any *)
(* call but kill: a killed process that is reaped while it is queued takes *)
(* the rest of the list with it.                                           *)
(***************************************************************************)
QueuedRuns ==
  \A p \in Slots :
    (\E i \in DOMAIN ready : ready[i] = p) ~> (cpu = p \/ machine = "down")

(***************************************************************************)
(* A futex wait with a timeout ends: process_poll_timeouts, a wake or a    *)
(* signal unblocks the process, unless the machine stops first.            *)
(***************************************************************************)
TimedWaitEnds ==
  \A p \in Slots :
    (state[p] = "blocked" /\ futex_left[p] > 0)
      ~> (state[p] # "blocked" \/ machine = "down")

(***************************************************************************)
(* A process blocked in process_wait does not wait for a zombie: the exit  *)
(* of the child wakes it.                                                  *)
(***************************************************************************)
ExitWakesParent ==
  \A p, c \in Slots :
    ~ /\ state[p] = "blocked" /\ futex_key[p] = NoKey
      /\ allocated[c] /\ Pid(c) = wait_for_pid[p]
      /\ state[c] = "zombie"

(***************************************************************************)
(* A process that has run and is ready is either queued or current.        *)
(***************************************************************************)
ReadyIsNotLost ==
  machine = "up" =>
    \A p \in Slots :
      allocated[p] /\ state[p] = "ready" /\ context[p] # "start" /\ context[p] # "none"
        => p = current \/ \E i \in DOMAIN ready : ready[i] = p

(***************************************************************************)
(* A blocked or dead process does not execute.                             *)
(***************************************************************************)
BlockedDoesNotRun ==
  machine = "up" /\ user_mode[cpu] => state[cpu] \notin {"blocked", "zombie"}
=============================================================================
