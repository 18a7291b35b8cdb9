--------------------------- MODULE ProcessProofs ---------------------------
(***************************************************************************)
(* Proofs about Process, for every number of slots, workers, generations,  *)
(* futex keys and timeouts, and for every set of system calls in use.      *)
(***************************************************************************)
EXTENDS Process, FiniteSetTheorems, TLAPS

-----------------------------------------------------------------------------
(* Facts about the ready list.                                             *)

Distinct(q) == \A i, j \in DOMAIN q : q[i] = q[j] => i = j

(* What must hold of a list q when the states are st and c is current. *)
GoodQueue(q, st, c) ==
  /\ q \in Seq(Slots)
  /\ Distinct(q)
  /\ \A i \in DOMAIN q : q[i] # c /\ st[q[i]] # "blocked"

(* Cutting the list behind an entry, as a write of p->next = 0 does, leaves
   a prefix of the list. *)
LEMMA CutAfterIsPrefix ==
  ASSUME NEW q \in Seq(Slots), NEW p
  PROVE  /\ CutAfter(q, p) \in Seq(Slots)
         /\ Len(CutAfter(q, p)) <= Len(q)
         /\ \A i \in DOMAIN CutAfter(q, p) : i \in DOMAIN q /\ CutAfter(q, p)[i] = q[i]
<1>1. CASE \E i \in DOMAIN q : q[i] = p
  <2> DEFINE k == CHOOSE i \in DOMAIN q : q[i] = p
  <2>1. k \in 1 .. Len(q)
    BY <1>1
  <2>2. CutAfter(q, p) = SubSeq(q, 1, k)
    BY <1>1, Zenon DEF CutAfter
  <2> HIDE DEF k
  <2> QED
    BY <2>1, <2>2
<1>2. CASE ~ \E i \in DOMAIN q : q[i] = p
  BY <1>2 DEF CutAfter
<1> QED
  BY <1>1, <1>2, Zenon

(* The loops of process.c visit every slot of W once. *)
LEMMA InSlotOrderIsDistinct ==
  ASSUME NEW W \in SUBSET Slots, NEW s \in InSlotOrder(W)
  PROVE  s \in Seq(W) /\ Distinct(s)
<1>0. 0 \in Int /\ N - 1 \in Int
  BY ConstantsAssumption
<1>1. IsFiniteSet(W)
  <2>1. IsFiniteSet(Slots)
    BY <1>0, FS_Interval, Zenon DEF Slots
  <2> QED
    BY <2>1, FS_Subset, Zenon
<1>2. Cardinality(W) \in Nat
  BY <1>1, FS_CardinalityType, Zenon
<1>3. s \in [1 .. Cardinality(W) -> W]
  BY Zenon DEF InSlotOrder
<1>4. s \in Seq(W)
  BY <1>2, <1>3
<1>5. ASSUME NEW i \in DOMAIN s, NEW j \in DOMAIN s, s[i] = s[j]
      PROVE  i = j
  <2>0. \A p \in W : p \in Int
    BY <1>0 DEF Slots
  <2>1. i \in Int /\ j \in Int /\ s[i] \in Int /\ s[j] \in Int
    BY <1>2, <1>3, <2>0
  <2>2. i < j => s[i] < s[j]
    BY Zenon DEF InSlotOrder
  <2>3. j < i => s[j] < s[i]
    BY Zenon DEF InSlotOrder
  <2> QED
    BY <1>5, <2>1, <2>2, <2>3
<1> QED
  BY <1>4, <1>5, Zenon DEF Distinct

(* enqueue: processes that are not in the list, not current and not blocked
   any more may be appended to it. *)
LEMMA EnqueueIsGood ==
  ASSUME NEW q, NEW st, NEW c, GoodQueue(q, st, c),
         NEW W \in SUBSET Slots,
         \A p \in W : st[p] # "blocked" /\ p # c /\ \A i \in DOMAIN q : q[i] # p,
         NEW r \in Enqueue(q, st, W)
  PROVE  GoodQueue(r, st, c)
<1> DEFINE added == {p \in W : allocated[p] /\ st[p] # "zombie" /\ context[p] # "none"}
<1>1. PICK s \in InSlotOrder(added) : r = q \o s
  BY Zenon DEF Enqueue
<1>2. s \in Seq(added) /\ Distinct(s)
  BY InSlotOrderIsDistinct, Zenon
<1>3. q \in Seq(Slots) /\ s \in Seq(Slots) /\ \A i \in DOMAIN s : s[i] \in W
  BY <1>2 DEF GoodQueue
<1> HIDE DEF added
<1>4. /\ r \in Seq(Slots)
      /\ Len(r) = Len(q) + Len(s)
      /\ \A i \in 1 .. Len(q) : r[i] = q[i]
      /\ \A i \in Len(q) + 1 .. Len(r) : i - Len(q) \in DOMAIN s /\ r[i] = s[i - Len(q)]
  BY <1>1, <1>3
<1>5. ASSUME NEW i \in DOMAIN r, NEW j \in DOMAIN r, r[i] = r[j]
      PROVE  i = j
  <2>1. i \in 1 .. Len(r) /\ j \in 1 .. Len(r) /\ Len(q) \in Nat /\ Len(s) \in Nat
    BY <1>3, <1>4
  <2>2. CASE i <= Len(q) /\ j <= Len(q)
    <3>1. /\ i \in 1 .. Len(q) /\ j \in 1 .. Len(q)
          /\ i \in DOMAIN q /\ j \in DOMAIN q
      BY <1>3, <2>1, <2>2
    <3>2. q[i] = q[j]
      BY <1>4, <1>5, <3>1, Zenon
    <3> QED
      BY <3>1, <3>2, Zenon DEF GoodQueue, Distinct
  <2>3. CASE i > Len(q) /\ j > Len(q)
    <3>1. i \in Len(q) + 1 .. Len(r) /\ j \in Len(q) + 1 .. Len(r)
      BY <2>1, <2>3
    <3>2. /\ i - Len(q) \in DOMAIN s /\ j - Len(q) \in DOMAIN s
          /\ s[i - Len(q)] = s[j - Len(q)]
      BY <1>4, <1>5, <3>1, Zenon
    <3>3. i - Len(q) = j - Len(q)
      BY <1>2, <3>2, Zenon DEF Distinct
    <3> QED
      BY <2>1, <3>3
  <2>0. \A a \in 1 .. Len(q), b \in Len(q) + 1 .. Len(r) : r[a] # r[b]
    <3> TAKE a \in 1 .. Len(q), b \in Len(q) + 1 .. Len(r)
    <3>1. r[a] = q[a] /\ a \in DOMAIN q
      BY <1>3, <1>4
    <3>2. r[b] \in W
      BY <1>3, <1>4, Zenon
    <3> QED
      BY <3>1, <3>2, Zenon
  <2>4. CASE i <= Len(q) /\ j > Len(q)
    BY <2>0, <1>5, <2>1, <2>4
  <2>5. CASE i > Len(q) /\ j <= Len(q)
    BY <2>0, <1>5, <2>1, <2>5
  <2> QED
    BY <2>1, <2>2, <2>3, <2>4, <2>5
<1>6. ASSUME NEW i \in DOMAIN r
      PROVE  r[i] # c /\ st[r[i]] # "blocked"
  <2>1. i \in 1 .. Len(r) /\ Len(q) \in Nat /\ Len(s) \in Nat
    BY <1>3, <1>4
  <2>2. CASE i <= Len(q)
    BY <1>3, <1>4, <2>1, <2>2 DEF GoodQueue
  <2>3. CASE i > Len(q)
    BY <1>3, <1>4, <2>1, <2>3
  <2> QED
    BY <2>1, <2>2, <2>3
<1> QED
  BY <1>4, <1>5, <1>6, Zenon DEF GoodQueue, Distinct

(* next_ready returns an allocated and ready process of the list, or idle. *)
LEMMA NextReadyTakes ==
  ASSUME NEW q \in Seq(Slots), NEW al, NEW st, NEW k, NextReady(q, al, st, k), k # 0
  PROVE  k \in 1 .. Len(q) /\ al[q[k]] /\ st[q[k]] = "ready"
<1>1. k \in DOMAIN q /\ al[q[k]] /\ st[q[k]] = "ready"
  BY Zenon DEF NextReady
<1> QED
  BY <1>1

(* next_ready: what is left of a good list is good for the process popped. *)
LEMMA PoppedIsGood ==
  ASSUME NEW q, NEW st, NEW c, GoodQueue(q, st, c), NEW k \in 1 .. Len(q)
  PROVE  /\ GoodQueue(Popped(q, k), st, c)
         /\ GoodQueue(Popped(q, k), [st EXCEPT ![q[k]] = "running"], q[k])
         /\ q[k] \in Slots
         /\ q[k] # c
<1>1. q \in Seq(Slots) /\ Len(q) \in Nat
  BY DEF GoodQueue
<1>2. /\ Popped(q, k) \in Seq(Slots)
      /\ \A i \in DOMAIN Popped(q, k) : i + k \in DOMAIN q /\ Popped(q, k)[i] = q[i + k]
      /\ DOMAIN Popped(q, k) \subseteq Nat \ {0}
  BY <1>1 DEF Popped
<1>3. Distinct(Popped(q, k))
  BY <1>1, <1>2 DEF Distinct, GoodQueue
<1>4. \A i \in DOMAIN Popped(q, k) :
        /\ Popped(q, k)[i] # c
        /\ st[Popped(q, k)[i]] # "blocked"
        /\ Popped(q, k)[i] # q[k]
  BY <1>1, <1>2 DEF GoodQueue, Distinct
<1> QED
  BY <1>1, <1>2, <1>3, <1>4 DEF GoodQueue

-----------------------------------------------------------------------------
(* The inductive invariant.                                                *)

(* The current process is not blocked between two handlers. *)
CurrentNotBlocked == current # Idle => state[current] # "blocked"

(* Only an allocated slot holds a blocked process, and it has had a pid. *)
PidsInUse ==
  \A p \in Slots : /\ state[p] = "blocked" => allocated[p]
                   /\ allocated[p] => generation[p] # 0

(* The process on the CPU has a slot; one that runs as idle left a frame. *)
CpuInv ==
  machine = "up" => /\ allocated[cpu]
                    /\ context[cpu] = "run"
                    /\ current = Idle => interrupt_frame[cpu]

Inv ==
  /\ TypeOK
  /\ NoDuplicates
  /\ QueuedIsWaitingToRun
  /\ CurrentIsOnCpu
  /\ CurrentNotBlocked
  /\ PidsInUse
  /\ CpuInv
  /\ FrameMatchesContext
  /\ WaitTargetExists

(* A pid determines its slot and generation, and is not the pid of idle. *)
LEMMA PidInjective ==
  ASSUME NEW a \in Slots, NEW b \in Slots, NEW g \in Nat, NEW h \in Nat
  PROVE  /\ PidOf(g, a) = PidOf(h, b) => a = b /\ g = h
         /\ PidOf(g, a) \in Nat
         /\ PidOf(g, a) # 0
<1>1. N \in 1 .. 255
  BY ConstantsAssumption, Zenon
<1> QED
  BY <1>1 DEF PidOf, Slots

(* The part of Inv that a switch decides, as a predicate of what a handler
   leaves in the frames and the contexts before it returns. *)
FramesOK(al, fr, cx) ==
  /\ al[cpu]
  /\ cx[cpu] = "run"
  /\ current = Idle => fr[cpu]
  /\ \A p \in Slots : al[p] => /\ cx[p] = "irq" => fr[p]
                               /\ cx[p] = "start" => ~fr[p]

SwitchOK ==
  /\ state' \in [Procs -> States]
  /\ interrupt_frame' \in [Slots -> BOOLEAN]
  /\ context' \in [Slots -> Contexts]
  /\ current' \in Procs
  /\ cpu' \in Slots
  /\ machine' \in {"up", "down"}
  /\ GoodQueue(ready', state', current')
  /\ CurrentIsOnCpu'
  /\ CurrentNotBlocked'
  /\ CpuInv'
  /\ FrameMatchesContext'

(* activate and iretd establish the invariant for the process dispatched. *)
LEMMA IretIsSound ==
  ASSUME current \in Procs, cpu \in Slots, machine = "up",
         current # Idle => cpu = current,
         allocated' \in [Slots -> BOOLEAN],
         NEW st \in [Procs -> States], NEW q,
         NEW fr \in [Slots -> BOOLEAN], NEW cx \in [Slots -> Contexts],
         NEW k \in 1 .. Len(q), NEW c,
         GoodQueue(q, st, c),
         FramesOK(allocated', fr, cx),
         \A p \in Slots : st[p] # "running",
         allocated'[q[k]],
         ready' = Popped(q, k),
         IretTo(q[k], st, SaveFrame(fr), cx)
  PROVE  SwitchOK /\ \A p \in Slots : state'[p] = "blocked" => st[p] = "blocked"
<1> DEFINE n == q[k]
<1>0. q[k] \in Slots /\ GoodQueue(Popped(q, k), [st EXCEPT ![q[k]] = "running"], q[k])
  BY PoppedIsGood, Zenon
<1>1. /\ n \in Slots /\ n # Idle
      /\ GoodQueue(Popped(q, k), [st EXCEPT ![n] = "running"], n)
  BY <1>0, ConstantsAssumption, Zenon
<1>2. SaveFrame(fr) \in [Slots -> BOOLEAN]
  BY Zenon DEF SaveFrame
<1>3. SaveFrame(fr)[cpu] = TRUE
  BY Zenon DEF SaveFrame, FramesOK
<1>4. \A p \in Slots : p # cpu => SaveFrame(fr)[p] = fr[p]
  BY Zenon DEF SaveFrame, FramesOK
<1> HIDE DEF n
<1>5. /\ state' = [st EXCEPT ![n] = "running"]
      /\ interrupt_frame' = SaveFrame(fr)
      /\ context' = [cx EXCEPT ![cpu] = "irq", ![n] = "run"]
      /\ current' = n /\ cpu' = n
      /\ machine' \in {"up", "down"}
  BY Zenon DEF IretTo, n
<1>6. state' \in [Procs -> States] /\ context' \in [Slots -> Contexts]
  BY <1>1, <1>5, Zenon DEF States, Contexts, Procs
<1>7. CurrentIsOnCpu' /\ CurrentNotBlocked'
  BY <1>1, <1>5, Zenon DEF CurrentIsOnCpu, CurrentNotBlocked, Procs, n
<1>8. CpuInv'
  BY <1>1, <1>5, Zenon DEF CpuInv, n
<1>9. FrameMatchesContext'
  BY <1>1, <1>2, <1>3, <1>4, <1>5, Zenon DEF FrameMatchesContext, FramesOK
<1>10. \A p \in Slots : state'[p] = "blocked" => st[p] = "blocked"
  BY <1>1, <1>5, Zenon DEF Procs
<1> QED
  BY <1>1, <1>2, <1>5, <1>6, <1>7, <1>8, <1>9, <1>10, Zenon DEF SwitchOK, Procs, n

(* The end of a system call keeps the invariant, whether it returns to the
   caller, switches to another process or leaves the caller running as
   idle. *)
LEMMA ReturnIsSound ==
  ASSUME current \in Procs, cpu \in Slots, machine = "up",
         current # Idle => cpu = current /\ allocated'[current],
         allocated' \in [Slots -> BOOLEAN],
         NEW st \in [Procs -> States], NEW q,
         NEW fr \in [Slots -> BOOLEAN], NEW cx \in [Slots -> Contexts],
         GoodQueue(q, st, current),
         FramesOK(allocated', fr, cx),
         \A p \in Slots : st[p] = "running" => p = current,
         SyscallReturn(st, q, fr, cx)
  PROVE  SwitchOK /\ \A p \in Slots : state'[p] = "blocked" => st[p] = "blocked"
<1>1. CASE st[current] \notin {"blocked", "zombie"}
  <2>1. /\ state' = st /\ ready' = q /\ interrupt_frame' = fr /\ context' = cx
        /\ current' = current /\ cpu' = cpu /\ machine' = machine
    BY <1>1, Zenon DEF SyscallReturn
  <2> QED
    BY <1>1, <2>1, Zenon DEF SwitchOK, CurrentIsOnCpu, CurrentNotBlocked, CpuInv,
       FrameMatchesContext, FramesOK
<1>2. CASE st[current] \in {"blocked", "zombie"}
  <2>1. SwitchFromCurrent(st, q, fr, cx)
    BY <1>2, Zenon DEF SyscallReturn
  <2>2. PICK k \in 0 .. Len(q) :
          /\ NextReady(q, allocated', st, k)
          /\ ready' = Popped(q, k)
          /\ \/ /\ k = 0
                /\ state' = st
                /\ interrupt_frame' = SaveFrame(fr)
                /\ context' = cx
                /\ current' = Idle
                /\ UNCHANGED <<cpu, machine>>
             \/ /\ k # 0
                /\ IretTo(q[k], st, SaveFrame(fr), cx)
    BY <2>1, Zenon DEF SwitchFromCurrent
  <2>3. \A p \in Slots : st[p] # "running"
    BY <1>2, Zenon
  <2>4. CASE k = 0
    <3>1. /\ state' = st /\ interrupt_frame' = SaveFrame(fr) /\ context' = cx
          /\ current' = Idle /\ cpu' = cpu /\ machine' = machine
          /\ ready' = <<>>
      BY <2>2, <2>4, Zenon DEF Popped
    <3>2. /\ SaveFrame(fr) \in [Slots -> BOOLEAN]
          /\ SaveFrame(fr)[cpu] = TRUE
          /\ \A p \in Slots : p # cpu => SaveFrame(fr)[p] = fr[p]
      BY Zenon DEF SaveFrame, FramesOK
    <3>3. GoodQueue(ready', state', current')
      BY <3>1 DEF GoodQueue, Distinct
    <3> QED
      BY <2>3, <3>1, <3>2, <3>3, ConstantsAssumption, Zenon DEF SwitchOK, CurrentIsOnCpu,
         CurrentNotBlocked, CpuInv, FrameMatchesContext, FramesOK, Procs
  <2>5. CASE k # 0
    <3>1. k \in 1 .. Len(q) /\ q \in Seq(Slots)
      BY <2>5 DEF GoodQueue
    <3>2. allocated'[q[k]]
      BY <2>2, <2>5, <3>1, Zenon DEF NextReady
    <3> QED
      BY <2>2, <2>3, <2>5, <3>1, <3>2, IretIsSound, Zenon
  <2> QED
    BY <2>4, <2>5, Zenon
<1> QED
  BY <1>1, <1>2, Zenon

(* What Inv says of the state a handler starts from. *)
LEMMA InvAtTrap ==
  ASSUME Inv, machine = "up"
  PROVE  /\ GoodQueue(ready, state, current)
         /\ FramesOK(allocated, interrupt_frame, context)
         /\ current # Idle => cpu = current /\ allocated[current]
         /\ \A p \in Slots : state[p] = "running" => p = current
         /\ \A p \in Slots : state[p] = "blocked" => p # current
  BY ConstantsAssumption
     DEF Inv, TypeOK, NoDuplicates, QueuedIsWaitingToRun, CurrentIsOnCpu,
         CurrentNotBlocked, CpuInv, FrameMatchesContext, GoodQueue, Distinct,
         FramesOK, Procs

(* The rest of Inv, which the switch at the end of a handler leaves alone. *)
TablesOK ==
  /\ allocated \in [Slots -> BOOLEAN]
  /\ generation \in [Slots -> 0 .. GenMax]
  /\ parent_pid \in [Slots -> Nat]
  /\ wait_for_pid \in [Slots -> Nat]
  /\ user_mode \in [Slots -> BOOLEAN]
  /\ futex_key \in [Slots -> Keys \cup {NoKey}]
  /\ futex_left \in [Slots -> 0 .. MaxTimeout]

(* The scheduler's part of the invariant and the table's make up the whole. *)
LEMMA InvAfterSwitch ==
  ASSUME SwitchOK, TablesOK', PidsInUse', WaitTargetExists'
  PROVE  Inv'
  BY Zenon DEF Inv, TypeOK, NoDuplicates, QueuedIsWaitingToRun, SwitchOK, TablesOK,
     GoodQueue, Distinct

(* No two slots have the same pid, and none has the pid 0 of idle. *)
LEMMA PidsAreUnique ==
  ASSUME TypeOK
  PROVE  /\ \A p \in Slots : Pid(p) \in Nat /\ Pid(p) # 0
         /\ \A p, r \in Slots : Pid(p) = Pid(r) => p = r
<1>1. \A p \in Slots : generation[p] \in Nat
  BY ConstantsAssumption DEF TypeOK
<1>2. \A p \in Slots : Pid(p) \in Nat /\ Pid(p) # 0
  BY <1>1, PidInjective, Zenon DEF Pid
<1>3. ASSUME NEW p \in Slots, NEW r \in Slots, Pid(p) = Pid(r)
      PROVE  p = r
  BY <1>1, <1>3, PidInjective, Zenon DEF Pid
<1> QED
  BY <1>2, <1>3, Zenon

(* A process that stays blocked in wait keeps its target, if the step leaves
   the slots, pids and parents of its children alone. *)
LEMMA TargetsStay ==
  ASSUME WaitTargetExists,
         \A p \in Slots : state'[p] = "blocked" /\ futex_key'[p] = NoKey =>
           /\ state[p] = "blocked" /\ futex_key[p] = NoKey
           /\ generation'[p] = generation[p]
           /\ wait_for_pid'[p] = wait_for_pid[p]
           /\ \A c \in Slots : allocated[c] /\ parent_pid[c] = Pid(p) =>
                /\ allocated'[c]
                /\ generation'[c] = generation[c]
                /\ parent_pid'[c] = parent_pid[c]
  PROVE  WaitTargetExists'
<1> SUFFICES ASSUME NEW p \in Slots, state'[p] = "blocked", futex_key'[p] = NoKey
             PROVE  \E c \in Slots : /\ allocated'[c]
                                     /\ Pid(c)' = wait_for_pid'[p]
                                     /\ parent_pid'[c] = Pid(p)'
  BY Zenon DEF WaitTargetExists
<1>1. PICK c \in Slots : allocated[c] /\ Pid(c) = wait_for_pid[p] /\ parent_pid[c] = Pid(p)
  BY Zenon DEF WaitTargetExists
<1>2. Pid(c)' = Pid(c) /\ Pid(p)' = Pid(p)
  BY <1>1, Zenon DEF Pid
<1> QED
  BY <1>1, <1>2, Zenon

(* A handler that goes down leaves the tables as they are. *)
LEMMA GoDownKeepsInv ==
  ASSUME Inv, GoDown
  PROVE  Inv'
  BY DEF Inv, GoDown, TypeOK, NoDuplicates, QueuedIsWaitingToRun, CurrentIsOnCpu,
     CurrentNotBlocked, PidsInUse, CpuInv, FrameMatchesContext, WaitTargetExists,
     Pid, PidOf

-----------------------------------------------------------------------------
(* One lemma for each action.                                              *)

(* process_exit_with_status, of a slot t that has pid `pid': whom it wakes,
   and that what is left of the table is sound. *)
LEMMA ExitIsSound ==
  ASSUME Inv, machine = "up", NEW t \in Slots, NEW pid
  PROVE  /\ ExitState(t, pid) \in [Procs -> States]
         /\ ExitWoken(t, pid) \in SUBSET Slots
         /\ GoodQueue(ready, ExitState(t, pid), current)
         /\ \A p \in Slots : ExitState(t, pid)[p] = "running" => p = current
         /\ \A p \in ExitWoken(t, pid) :
              /\ ExitState(t, pid)[p] # "blocked"
              /\ p # current
              /\ \A i \in DOMAIN ready : ready[i] # p
         /\ \A p \in Slots :
              ExitState(t, pid)[p] = "blocked" =>
                /\ state[p] = "blocked"
                /\ p # t
                /\ p \notin ExitWoken(t, pid)
<1> DEFINE st == ExitState(t, pid)
<1>1. /\ state \in [Procs -> States]
      /\ Slots \subseteq Procs
  BY Zenon DEF Inv, TypeOK, Procs
<1>2. ExitWoken(t, pid) \in SUBSET Slots /\ \A p \in ExitWoken(t, pid) : p # t /\ state[p] = "blocked"
  BY Zenon DEF ExitWoken
<1>3. /\ st \in [Procs -> States]
      /\ st[t] = "zombie"
      /\ \A p \in ExitWoken(t, pid) : st[p] = "ready"
      /\ \A p \in Slots : p # t /\ p \notin ExitWoken(t, pid) => st[p] = state[p]
  BY <1>1, <1>2, Zenon DEF ExitState, States
<1> HIDE DEF st
<1>4. /\ GoodQueue(ready, state, current)
      /\ \A p \in Slots : state[p] = "running" => p = current
      /\ \A p \in Slots : state[p] = "blocked" => p # current
  BY InvAtTrap, Zenon
<1>5. \A p \in Slots : st[p] = "blocked" =>
        state[p] = "blocked" /\ p # t /\ p \notin ExitWoken(t, pid)
  BY <1>2, <1>3, Zenon
<1>6. GoodQueue(ready, st, current)
  BY <1>4, <1>5 DEF GoodQueue
<1>7. \A p \in Slots : st[p] = "running" => p = current
  BY <1>2, <1>3, <1>4, Zenon
<1>8. \A p \in ExitWoken(t, pid) :
        st[p] # "blocked" /\ p # current /\ \A i \in DOMAIN ready : ready[i] # p
  BY <1>2, <1>3, <1>4, Zenon DEF GoodQueue
<1> QED
  BY <1>2, <1>3, <1>5, <1>6, <1>7, <1>8, Zenon DEF st

(* After an exit of t, a process still blocked in wait has its child. *)
LEMMA ExitKeepsTargets ==
  ASSUME Inv, machine = "up", NEW t \in Slots, allocated[t], ExitTable(t), SwitchOK,
         \A p \in Slots : state'[p] = "blocked" => ExitState(t, Pid(t))[p] = "blocked"
  PROVE  Inv'
<1>1. /\ \A p \in Slots : Pid(p) \in Nat /\ Pid(p) # 0
      /\ \A p, r \in Slots : Pid(p) = Pid(r) => p = r
  BY PidsAreUnique, Zenon DEF Inv
<1>2. \A p \in Slots : state'[p] = "blocked" =>
        state[p] = "blocked" /\ p # t /\ p \notin ExitWoken(t, Pid(t))
  BY ExitIsSound, Zenon
<1>3. /\ UNCHANGED <<allocated, generation, user_mode, futex_key, futex_left>>
      /\ parent_pid' = ExitParents(parent_pid, t, Pid(t))
      /\ wait_for_pid' = ExitWaits(wait_for_pid, t, Pid(t))
  BY Zenon DEF ExitTable
<1>4. TablesOK'
  BY <1>3, Zenon DEF Inv, TypeOK, TablesOK, ExitParents, ExitWaits
<1>5. PidsInUse'
  BY <1>2, <1>3, Zenon DEF Inv, PidsInUse
<1>6. WaitTargetExists'
  <2>1. \A p \in Slots : state'[p] = "blocked" => wait_for_pid'[p] = wait_for_pid[p]
    BY <1>2, <1>3, Zenon DEF ExitWaits
  <2>2. \A p, c \in Slots :
          state'[p] = "blocked" /\ parent_pid[c] = Pid(p) => parent_pid'[c] = parent_pid[c]
    BY <1>1, <1>2, <1>3, Zenon DEF ExitParents
  <2> QED
    BY <1>2, <1>3, <2>1, <2>2, TargetsStay, Zenon DEF Inv
<1> QED
  BY <1>4, <1>5, <1>6, InvAfterSwitch, Zenon

(* SYS_KILL and SYS_EXIT: process_exit_with_status and the return. *)
LEMMA ExitKeepsInv ==
  ASSUME Inv, machine = "up", NEW t \in Slots, allocated[t], ExitTable(t),
         NEW q \in Enqueue(ready, ExitState(t, Pid(t)), ExitWoken(t, Pid(t))),
         SyscallReturn(ExitState(t, Pid(t)), q, interrupt_frame, context)
  PROVE  Inv'
<1> DEFINE st == ExitState(t, Pid(t))
<1>1. /\ current \in Procs /\ cpu \in Slots
      /\ interrupt_frame \in [Slots -> BOOLEAN] /\ context \in [Slots -> Contexts]
      /\ allocated \in [Slots -> BOOLEAN] /\ allocated' = allocated
  BY Zenon DEF Inv, TypeOK, ExitTable
<1>2. GoodQueue(q, st, current)
  BY ExitIsSound, EnqueueIsGood, Zenon
<1>3. /\ FramesOK(allocated', interrupt_frame, context)
      /\ current # Idle => cpu = current /\ allocated'[current]
  BY <1>1, InvAtTrap, Zenon
<1>4. st \in [Procs -> States] /\ \A p \in Slots : st[p] = "running" => p = current
  BY ExitIsSound, Zenon
<1> HIDE DEF st
<1>5. SyscallReturn(st, q, interrupt_frame, context)
  BY Zenon DEF st
<1>6. SwitchOK /\ \A p \in Slots : state'[p] = "blocked" => st[p] = "blocked"
  BY <1>1, <1>2, <1>3, <1>4, <1>5, ReturnIsSound, Zenon
<1> QED
  BY <1>6, ExitKeepsTargets, Zenon DEF st

(* worker_body ends in process_exit without a switch. *)
LEMMA WorkerExitKeepsInv ==
  ASSUME Inv, WorkerExit
  PROVE  Inv'
<1> DEFINE st == ExitState(cpu, Pid(cpu))
<1>1. /\ machine = "up" /\ cpu \in Slots /\ allocated[cpu] /\ ExitTable(cpu)
      /\ UNCHANGED <<allocated, interrupt_frame, context, current, cpu, machine>>
      /\ state' = st
  BY Zenon DEF WorkerExit, ExitTable, Inv, TypeOK, CpuInv
<1>2. PICK q \in Enqueue(ready, st, ExitWoken(cpu, Pid(cpu))) : ready' = q
  BY Zenon DEF WorkerExit
<1>3. GoodQueue(q, st, current)
  BY <1>1, ExitIsSound, EnqueueIsGood, Zenon
<1>4. /\ st \in [Procs -> States]
      /\ \A p \in Slots : st[p] = "running" => p = current
      /\ \A p \in Slots : st[p] = "blocked" => state[p] = "blocked"
  BY <1>1, ExitIsSound, Zenon
<1>5. \A p \in Slots : state[p] = "blocked" => p # current
  BY <1>1, InvAtTrap, Zenon
<1> HIDE DEF st
<1>6. SwitchOK
  BY <1>1, <1>2, <1>3, <1>4, <1>5, Zenon DEF SwitchOK, Inv, TypeOK, CurrentIsOnCpu,
     CurrentNotBlocked, CpuInv, FrameMatchesContext, Procs
<1> QED
  BY <1>1, <1>6, ExitKeepsTargets, Zenon DEF st

(* A call that changes neither parents, pids nor slots, and that ends no
   wait for a child. *)
LEMMA QuietCallKeepsInv ==
  ASSUME Inv, machine = "up",
         UNCHANGED <<allocated, generation, parent_pid, wait_for_pid, user_mode>>,
         futex_key' \in [Slots -> Keys \cup {NoKey}],
         futex_left' \in [Slots -> 0 .. MaxTimeout],
         SwitchOK,
         \A p \in Slots : state'[p] = "blocked" =>
            /\ allocated[p]
            /\ futex_key'[p] = NoKey => state[p] = "blocked" /\ futex_key[p] = NoKey
  PROVE  Inv'
<1>1. TablesOK'
  BY Zenon DEF Inv, TypeOK, TablesOK
<1>2. PidsInUse'
  BY Zenon DEF Inv, PidsInUse
<1>3. WaitTargetExists'
  BY TargetsStay, Zenon DEF Inv
<1> QED
  BY <1>1, <1>2, <1>3, InvAfterSwitch, Zenon

(* Signals and futex wakes: only blocked processes are woken. *)
LEMMA WakeKeepsInv ==
  ASSUME Inv, machine = "up", NEW W \in SUBSET Slots,
         \A p \in W : state[p] = "blocked",
         Wake(W)
  PROVE  Inv'
<1> DEFINE st == [p \in Procs |-> IF p \in W THEN "ready" ELSE state[p]]
<1>1. PICK q \in Enqueue(ready, st, W) :
        SyscallReturn(st, q, interrupt_frame, context)
  BY Zenon DEF Wake
<1>2. /\ UNCHANGED <<allocated, generation, parent_pid, wait_for_pid, user_mode>>
      /\ futex_key' = [p \in Slots |-> IF p \in W THEN NoKey ELSE futex_key[p]]
      /\ futex_left' = [p \in Slots |-> IF p \in W THEN 0 ELSE futex_left[p]]
  BY Zenon DEF Wake
<1>3. /\ GoodQueue(ready, state, current)
      /\ FramesOK(allocated, interrupt_frame, context)
      /\ current # Idle => cpu = current /\ allocated[current]
      /\ \A p \in Slots : state[p] = "running" => p = current
      /\ \A p \in Slots : state[p] = "blocked" => p # current
  BY InvAtTrap, Zenon
<1>4. /\ st \in [Procs -> States]
      /\ \A p \in W : st[p] = "ready"
      /\ \A p \in Slots : p \notin W => st[p] = state[p]
  BY Zenon DEF Inv, TypeOK, Procs, States
<1> HIDE DEF st
<1>5. GoodQueue(ready, st, current)
  BY <1>3, <1>4 DEF GoodQueue
<1>6. \A p \in W : st[p] # "blocked" /\ p # current /\ \A i \in DOMAIN ready : ready[i] # p
  BY <1>3, <1>4, Zenon DEF GoodQueue
<1>7. GoodQueue(q, st, current)
  BY <1>5, <1>6, EnqueueIsGood, Zenon
<1>8. \A p \in Slots : st[p] = "running" => p = current
  BY <1>3, <1>4, Zenon
<1>9. /\ current \in Procs /\ cpu \in Slots
      /\ interrupt_frame \in [Slots -> BOOLEAN] /\ context \in [Slots -> Contexts]
      /\ allocated' \in [Slots -> BOOLEAN]
  BY <1>2, Zenon DEF Inv, TypeOK
<1>10. SwitchOK /\ \A p \in Slots : state'[p] = "blocked" => st[p] = "blocked"
  BY <1>1, <1>2, <1>3, <1>4, <1>7, <1>8, <1>9, ReturnIsSound, Zenon
<1>11. /\ futex_key' \in [Slots -> Keys \cup {NoKey}]
       /\ futex_left' \in [Slots -> 0 .. MaxTimeout]
  BY <1>2, ConstantsAssumption, SMTT(30) DEF Inv, TypeOK
<1>12. \A p \in Slots : state'[p] = "blocked" => /\ state[p] = "blocked"
                                                /\ allocated[p]
                                                /\ futex_key'[p] = futex_key[p]
  BY <1>2, <1>4, <1>10, Zenon DEF Inv, PidsInUse
<1> QED
  BY <1>2, <1>10, <1>11, <1>12, QuietCallKeepsInv, Zenon

(* A call that leaves the states alone, or blocks the current process. *)
LEMMA BlockIsSound ==
  ASSUME Inv, machine = "up", allocated' = allocated,
         NEW st, st = state \/ st = [state EXCEPT ![current] = "blocked"],
         SyscallReturn(st, ready, interrupt_frame, context)
  PROVE  /\ SwitchOK
         /\ \A p \in Slots : state'[p] = "blocked" =>
              /\ allocated[p]
              /\ state[p] = "blocked" \/ (p = current /\ st # state)
<1>1. /\ GoodQueue(ready, state, current)
      /\ FramesOK(allocated, interrupt_frame, context)
      /\ current # Idle => cpu = current /\ allocated[current]
      /\ \A p \in Slots : state[p] = "running" => p = current
      /\ \A p \in Slots : state[p] = "blocked" => p # current
  BY InvAtTrap, Zenon
<1>2. /\ current \in Procs /\ cpu \in Slots
      /\ state \in [Procs -> States]
      /\ interrupt_frame \in [Slots -> BOOLEAN] /\ context \in [Slots -> Contexts]
      /\ allocated \in [Slots -> BOOLEAN]
  BY Zenon DEF Inv, TypeOK
<1>3. /\ st \in [Procs -> States]
      /\ \A p \in Procs : p # current => st[p] = state[p]
      /\ st = state \/ st[current] = "blocked"
  BY <1>2, Zenon DEF States
<1>4. GoodQueue(ready, st, current)
  BY <1>1, <1>3 DEF GoodQueue, Procs
<1>5. \A p \in Slots : st[p] = "running" => p = current
  BY <1>1, <1>3, Zenon DEF Procs
<1>6. SwitchOK /\ \A p \in Slots : state'[p] = "blocked" => st[p] = "blocked"
  BY <1>1, <1>2, <1>3, <1>4, <1>5, ReturnIsSound, Zenon
<1>7. \A p \in Slots : st[p] = "blocked" => state[p] = "blocked" \/ (p = current /\ st # state)
  BY <1>1, <1>3, Zenon DEF Procs
<1>8. \A p \in Slots : st[p] = "blocked" => allocated[p]
  BY <1>1, <1>7, ConstantsAssumption, Zenon DEF Inv, PidsInUse
<1> QED
  BY <1>6, <1>7, <1>8, Zenon

(* A call that leaves the table alone keeps the invariant. *)
LEMMA OtherCallKeepsInv ==
  ASSUME Inv, OtherCall
  PROVE  Inv'
<1>1. /\ machine = "up"
      /\ UNCHANGED <<allocated, generation, parent_pid, wait_for_pid, user_mode,
                     futex_key, futex_left>>
      /\ SyscallReturn(state, ready, interrupt_frame, context)
  BY Zenon DEF OtherCall, Syscall
<1>2. SwitchOK /\ \A p \in Slots : state'[p] = "blocked" => allocated[p] /\ state[p] = "blocked"
  BY <1>1, BlockIsSound, Zenon
<1> QED
  BY <1>1, <1>2, QuietCallKeepsInv, Zenon DEF Inv, TypeOK

(* SYS_FUTEX_WAIT blocks the caller under a key, so it waits for no child. *)
LEMMA FutexWaitKeepsInv ==
  ASSUME Inv, NEW key \in Keys, NEW ticks \in 0 .. MaxTimeout, FutexWait(key, ticks)
  PROVE  Inv'
<1>1. /\ machine = "up"
      /\ current # Idle
      /\ futex_key' = [futex_key EXCEPT ![current] = key]
      /\ futex_left' = [futex_left EXCEPT ![current] = ticks]
      /\ UNCHANGED <<allocated, generation, parent_pid, wait_for_pid, user_mode>>
      /\ SyscallReturn([state EXCEPT ![current] = "blocked"], ready, interrupt_frame, context)
  BY Zenon DEF FutexWait, Syscall
<1>2. /\ SwitchOK
      /\ \A p \in Slots : state'[p] = "blocked" =>
           allocated[p] /\ (state[p] = "blocked" \/ p = current)
  BY <1>1, BlockIsSound, Zenon
<1>3. /\ futex_key' \in [Slots -> Keys \cup {NoKey}]
      /\ futex_left' \in [Slots -> 0 .. MaxTimeout]
  BY <1>1, Zenon DEF Inv, TypeOK
<1>4. \A p \in Slots : futex_key'[p] = NoKey => p # current /\ futex_key[p] = NoKey
  BY <1>1, ConstantsAssumption, Zenon DEF Inv, TypeOK
<1> QED
  BY <1>1, <1>2, <1>3, <1>4, QuietCallKeepsInv, Zenon

(* process_wait for a child that lives: the child is the caller's. *)
LEMMA WaitBlockKeepsInv ==
  ASSUME Inv, NEW c \in Slots, WaitBlock(c)
  PROVE  Inv'
<1>1. /\ machine = "up"
      /\ allocated[c] /\ parent_pid[c] = CurrentPid
      /\ wait_for_pid' = IF current = Idle THEN wait_for_pid
                         ELSE [wait_for_pid EXCEPT ![current] = Pid(c)]
      /\ UNCHANGED <<allocated, generation, parent_pid, user_mode, futex_key, futex_left>>
      /\ SyscallReturn([state EXCEPT ![current] = "blocked"], ready, interrupt_frame, context)
  BY Zenon DEF WaitBlock, WaitFinds, Syscall
<1>2. /\ SwitchOK
      /\ \A p \in Slots : state'[p] = "blocked" =>
           allocated[p] /\ (state[p] = "blocked" \/ p = current)
  BY <1>1, BlockIsSound, Zenon
<1>3. \A p \in Slots : Pid(p) \in Nat
  BY PidsAreUnique, Zenon DEF Inv
<1>4. TablesOK'
  BY <1>1, <1>3, Zenon DEF Inv, TypeOK, TablesOK
<1>5. PidsInUse'
  BY <1>1, <1>2, Zenon DEF Inv, PidsInUse
<1>6. ASSUME NEW p \in Slots, state'[p] = "blocked", futex_key'[p] = NoKey
      PROVE  \E d \in Slots : allocated'[d] /\ Pid(d)' = wait_for_pid'[p] /\ parent_pid'[d] = Pid(p)'
  <2>1. \A d \in Slots : Pid(d)' = Pid(d)
    BY <1>1, Zenon DEF Pid
  <2>2. CASE p = current
    <3>1. wait_for_pid'[p] = Pid(c) /\ CurrentPid = Pid(p)
      BY <1>1, <2>2, ConstantsAssumption, Zenon DEF Inv, TypeOK, CurrentPid
    <3> QED
      BY <1>1, <2>1, <3>1, Zenon
  <2>3. CASE p # current
    <3>1. wait_for_pid'[p] = wait_for_pid[p]
      BY <1>1, <2>3, Zenon DEF Inv, TypeOK
    <3>2. state[p] = "blocked" /\ futex_key[p] = NoKey
      BY <1>1, <1>2, <1>6, <2>3, Zenon
    <3>3. PICK d \in Slots : allocated[d] /\ Pid(d) = wait_for_pid[p] /\ parent_pid[d] = Pid(p)
      BY <3>2, Zenon DEF Inv, WaitTargetExists
    <3> QED
      BY <1>1, <2>1, <3>1, <3>3, Zenon
  <2> QED
    BY <2>2, <2>3, Zenon
<1>7. WaitTargetExists'
  BY <1>6, Zenon DEF WaitTargetExists
<1> QED
  BY <1>2, <1>4, <1>5, <1>7, InvAfterSwitch, Zenon

(* Clearing the link of a slot keeps a good list good. *)
LEMMA CutAfterIsGood ==
  ASSUME NEW q, NEW st, NEW c, GoodQueue(q, st, c), NEW p
  PROVE  /\ GoodQueue(CutAfter(q, p), st, c)
         /\ \A r : (\A i \in DOMAIN q : q[i] # r)
                   => \A i \in DOMAIN CutAfter(q, p) : CutAfter(q, p)[i] # r
<1>1. q \in Seq(Slots)
  BY Zenon DEF GoodQueue
<1>2. /\ CutAfter(q, p) \in Seq(Slots)
      /\ \A i \in DOMAIN CutAfter(q, p) : i \in DOMAIN q /\ CutAfter(q, p)[i] = q[i]
  BY <1>1, CutAfterIsPrefix, Zenon
<1> QED
  BY <1>2, Zenon DEF GoodQueue, Distinct

(* The slot that a fork takes or a wait frees is neither current nor on the
   CPU, and making it ready disturbs nothing else. *)
LEMMA ReadySlotIsSound ==
  ASSUME Inv, machine = "up", NEW s \in Slots, s # current
  PROVE  LET st == [state EXCEPT ![s] = "ready"]
         IN  /\ st \in [Procs -> States]
             /\ GoodQueue(CutAfter(ready, s), st, current)
             /\ \A p \in Slots : st[p] = "running" => p = current
             /\ \A p \in Slots : st[p] = "blocked" => state[p] = "blocked" /\ p # s
<1> DEFINE st == [state EXCEPT ![s] = "ready"]
<1>1. st \in [Procs -> States] /\ st[s] = "ready" /\ \A p \in Slots : p # s => st[p] = state[p]
  BY Zenon DEF Inv, TypeOK, Procs, States
<1> HIDE DEF st
<1>2. /\ GoodQueue(ready, state, current)
      /\ \A p \in Slots : state[p] = "running" => p = current
  BY InvAtTrap, Zenon
<1>3. GoodQueue(ready, st, current)
  BY <1>1, <1>2 DEF GoodQueue
<1>4. GoodQueue(CutAfter(ready, s), st, current)
  BY <1>3, CutAfterIsGood, Zenon
<1> QED
  BY <1>1, <1>2, <1>4, Zenon DEF st

(* Reaping: the child was the caller's, so nobody else waits for it. *)
LEMMA WaitReapKeepsInv ==
  ASSUME Inv, NEW c \in Slots, WaitReap(c)
  PROVE  Inv'
<1>1. CASE c = cpu
  BY <1>1, GoDownKeepsInv, Zenon DEF WaitReap
<1>2. CASE c # cpu
  <2> DEFINE st == [state EXCEPT ![c] = "ready"]
             fr == [interrupt_frame EXCEPT ![c] = FALSE]
  <2>1. /\ machine = "up" /\ allocated[c] /\ parent_pid[c] = CurrentPid /\ state[c] = "zombie"
        /\ allocated' = [allocated EXCEPT ![c] = FALSE]
        /\ parent_pid' = [parent_pid EXCEPT ![c] = 0]
        /\ UNCHANGED <<generation, wait_for_pid, user_mode, futex_key, futex_left>>
        /\ SyscallReturn(st, CutAfter(ready, c), fr, context)
    BY <1>2, Zenon DEF WaitReap, WaitFinds, Syscall
  <2>2. /\ FramesOK(allocated, interrupt_frame, context)
        /\ current # Idle => cpu = current /\ allocated[current]
        /\ \A p \in Slots : state[p] = "blocked" => p # current
    BY <2>1, InvAtTrap, Zenon
  <2>3. c # current
    BY <1>2, <2>2, ConstantsAssumption, Zenon
  <2>4. /\ st \in [Procs -> States]
        /\ GoodQueue(CutAfter(ready, c), st, current)
        /\ \A p \in Slots : st[p] = "running" => p = current
        /\ \A p \in Slots : st[p] = "blocked" => state[p] = "blocked" /\ p # c
    BY <2>1, <2>3, ReadySlotIsSound, Zenon
  <2>5. /\ fr \in [Slots -> BOOLEAN] /\ context \in [Slots -> Contexts]
        /\ current \in Procs /\ cpu \in Slots
        /\ allocated' \in [Slots -> BOOLEAN]
    BY <2>1, Zenon DEF Inv, TypeOK
  <2>6. FramesOK(allocated', fr, context)
    BY <1>2, <2>1, <2>2, Zenon DEF Inv, TypeOK, FramesOK
  <2>7. current # Idle => cpu = current /\ allocated'[current]
    BY <2>1, <2>2, <2>3, Zenon DEF Inv, TypeOK, Procs
  <2> HIDE DEF st, fr
  <2>8. SwitchOK /\ \A p \in Slots : state'[p] = "blocked" => st[p] = "blocked"
    BY <2>1, <2>4, <2>5, <2>6, <2>7, ReturnIsSound, Zenon
  <2>9. TablesOK'
    BY <2>1, Zenon DEF Inv, TypeOK, TablesOK
  <2>10. PidsInUse'
    BY <2>1, <2>4, <2>8, Zenon DEF Inv, TypeOK, PidsInUse
  <2>11. \A p \in Slots : state[p] = "blocked" => Pid(p) # CurrentPid
    BY <2>2, PidsAreUnique, Zenon DEF Inv, TypeOK, CurrentPid, Procs
  <2>12. \A p, d \in Slots :
           state[p] = "blocked" /\ allocated[d] /\ parent_pid[d] = Pid(p) =>
             allocated'[d] /\ parent_pid'[d] = parent_pid[d]
    BY <2>1, <2>11, Zenon DEF Inv, TypeOK
  <2>13. WaitTargetExists'
    BY <2>1, <2>4, <2>8, <2>12, TargetsStay, Zenon DEF Inv
  <2> QED
    BY <2>8, <2>9, <2>10, <2>13, InvAfterSwitch, Zenon
<1> QED
  BY <1>1, <1>2, Zenon

(* A free slot is neither current nor on the CPU; nobody blocked is in it. *)
LEMMA FreeSlotIsUnused ==
  ASSUME Inv, machine = "up", NEW s \in Slots, FreeSlot(s)
  PROVE  s # current /\ s # cpu /\ ~allocated[s] /\ state[s] # "blocked"
<1>1. current # Idle => allocated[current]
  BY InvAtTrap, Zenon
<1> QED
  BY <1>1, ConstantsAssumption, Zenon DEF FreeSlot, Inv, TypeOK, CpuInv, PidsInUse

(* new_pcb keeps the generation within its width and above 0. *)
LEMMA NextGenerationType ==
  ASSUME NEW g \in 0 .. GenMax
  PROVE  NextGeneration(g) \in 1 .. GenMax
  BY ConstantsAssumption DEF NextGeneration

(* new_pcb took the slot and gave it back: only its generation moved on. *)
LEMMA ForkWithoutSpaceKeepsInv ==
  ASSUME Inv, machine = "up", NEW s \in Slots, FreeSlot(s), ForkWithoutSpace(s)
  PROVE  Inv'
<1> DEFINE st == [state EXCEPT ![s] = "ready"]
<1>1. /\ generation' = [generation EXCEPT ![s] = NextGeneration(generation[s])]
      /\ user_mode' = [user_mode EXCEPT ![s] = FALSE]
      /\ UNCHANGED <<allocated, parent_pid, wait_for_pid, futex_key, futex_left>>
      /\ SyscallReturn(st, CutAfter(ready, s), interrupt_frame, context)
  BY Zenon DEF ForkWithoutSpace
<1>2. s # current /\ s # cpu /\ ~allocated[s]
  BY FreeSlotIsUnused, Zenon
<1>3. /\ st \in [Procs -> States]
      /\ GoodQueue(CutAfter(ready, s), st, current)
      /\ \A p \in Slots : st[p] = "running" => p = current
      /\ \A p \in Slots : st[p] = "blocked" => state[p] = "blocked" /\ p # s
  BY <1>2, ReadySlotIsSound, Zenon
<1>4. /\ FramesOK(allocated', interrupt_frame, context)
      /\ current # Idle => cpu = current /\ allocated'[current]
  BY <1>1, InvAtTrap, Zenon
<1>5. /\ interrupt_frame \in [Slots -> BOOLEAN] /\ context \in [Slots -> Contexts]
      /\ current \in Procs /\ cpu \in Slots
      /\ allocated' \in [Slots -> BOOLEAN]
  BY <1>1, Zenon DEF Inv, TypeOK
<1> HIDE DEF st
<1>6. SwitchOK /\ \A p \in Slots : state'[p] = "blocked" => st[p] = "blocked"
  BY <1>1, <1>3, <1>4, <1>5, ReturnIsSound, Zenon
<1>7. /\ generation' \in [Slots -> 0 .. GenMax]
      /\ \A p \in Slots : p # s => generation'[p] = generation[p]
  BY <1>1, NextGenerationType, SMTT(30) DEF Inv, TypeOK
<1>8. TablesOK'
  BY <1>1, <1>7, Zenon DEF Inv, TypeOK, TablesOK
<1>9. PidsInUse'
  BY <1>1, <1>2, <1>3, <1>6, <1>7, Zenon DEF Inv, PidsInUse
<1>10. WaitTargetExists'
  BY <1>1, <1>2, <1>3, <1>6, <1>7, TargetsStay, Zenon DEF Inv
<1> QED
  BY <1>6, <1>8, <1>9, <1>10, InvAfterSwitch, Zenon

(* A fork that gets its slot; the exit of a child that could not be cloned
   disturbs no other process. *)
LEMMA ForkChildKeepsInv ==
  ASSUME Inv, machine = "up", NEW s \in Slots, FreeSlot(s),
         NEW cloned \in BOOLEAN, ForkChild(s, cloned)
  PROVE  Inv'
<1> DEFINE gen == NextGeneration(generation[s])
           pid == PidOf(gen, s)
           par == [parent_pid EXCEPT ![s] = CurrentPid]
           wait == [wait_for_pid EXCEPT ![s] = 0]
           woken == IF cloned THEN {} ELSE ExitWoken(s, pid)
           st == IF cloned THEN [state EXCEPT ![s] = "ready"] ELSE ExitState(s, pid)
           fr == [interrupt_frame EXCEPT ![s] = FALSE]
           built == IF current = Idle \/ ~cloned THEN "none" ELSE "start"
           cx == [context EXCEPT ![s] = built]
<1>1. /\ generation' = [generation EXCEPT ![s] = gen]
      /\ allocated' = [allocated EXCEPT ![s] = TRUE]
      /\ parent_pid' = IF cloned THEN par ELSE ExitParents(par, s, pid)
      /\ wait_for_pid' = IF cloned THEN wait ELSE ExitWaits(wait, s, pid)
      /\ user_mode' = [user_mode EXCEPT ![s] = current # Idle]
      /\ futex_key' = [futex_key EXCEPT ![s] = NoKey]
      /\ futex_left' = [futex_left EXCEPT ![s] = 0]
  BY Zenon DEF ForkChild
<1>2. PICK q \in Enqueue(CutAfter(ready, s), st, woken) : SyscallReturn(st, q, fr, cx)
  BY Zenon DEF ForkChild
<1>3. s # current /\ s # cpu /\ ~allocated[s]
  BY FreeSlotIsUnused, Zenon
<1>4. /\ woken \in SUBSET Slots
      /\ st \in [Procs -> States]
      /\ \A p \in Slots : st[p] = "running" => p = current
      /\ \A p \in Slots : st[p] = "blocked" => state[p] = "blocked" /\ p # s /\ p \notin woken
      /\ GoodQueue(CutAfter(ready, s), st, current)
      /\ \A p \in woken : /\ st[p] # "blocked" /\ p # current
                          /\ \A i \in DOMAIN CutAfter(ready, s) : CutAfter(ready, s)[i] # p
  <2>1. CASE cloned
    BY <1>3, <2>1, ReadySlotIsSound, Zenon
  <2>2. CASE ~cloned
    <3>1. st = ExitState(s, pid) /\ woken = ExitWoken(s, pid)
      BY <2>2, Zenon
    <3> HIDE DEF pid, st, woken
    <3>2. /\ ExitState(s, pid) \in [Procs -> States]
          /\ ExitWoken(s, pid) \in SUBSET Slots
          /\ GoodQueue(ready, ExitState(s, pid), current)
          /\ \A p \in Slots : ExitState(s, pid)[p] = "running" => p = current
          /\ \A p \in ExitWoken(s, pid) : /\ ExitState(s, pid)[p] # "blocked"
                                          /\ p # current
                                          /\ \A i \in DOMAIN ready : ready[i] # p
          /\ \A p \in Slots : ExitState(s, pid)[p] = "blocked" =>
                state[p] = "blocked" /\ p # s /\ p \notin ExitWoken(s, pid)
      BY ExitIsSound
    <3>3. GoodQueue(CutAfter(ready, s), st, current)
      BY <3>1, <3>2, CutAfterIsGood, Zenon
    <3>4. \A r : (\A i \in DOMAIN ready : ready[i] # r)
                  => \A i \in DOMAIN CutAfter(ready, s) : CutAfter(ready, s)[i] # r
      <4>1. GoodQueue(ready, ExitState(s, pid), current)
        BY <3>2, Zenon
      <4> QED
        BY <4>1, CutAfterIsGood, Zenon
    <3>5. \A p \in woken : \A i \in DOMAIN CutAfter(ready, s) : CutAfter(ready, s)[i] # p
      BY <3>1, <3>2, <3>4, Zenon
    <3> QED
      BY <3>1, <3>2, <3>3, <3>5, Zenon
  <2> QED
    BY <2>1, <2>2, Zenon
<1>5. GoodQueue(q, st, current)
  <2> HIDE DEF st, woken
  <2> QED
    BY <1>2, <1>4, EnqueueIsGood, Zenon
<1>6. gen \in 1 .. GenMax
  BY NextGenerationType, Zenon DEF Inv, TypeOK
<1>7. /\ generation' \in [Slots -> 0 .. GenMax] /\ generation'[s] # 0
      /\ \A p \in Slots : p # s => generation'[p] = generation[p]
  BY <1>1, <1>6 DEF Inv, TypeOK
<1>8. /\ fr \in [Slots -> BOOLEAN] /\ cx \in [Slots -> Contexts]
      /\ current \in Procs /\ cpu \in Slots
      /\ allocated' \in [Slots -> BOOLEAN]
  BY <1>1, Zenon DEF Inv, TypeOK, Contexts
<1>9. /\ FramesOK(allocated', fr, cx)
      /\ current # Idle => cpu = current /\ allocated'[current]
  <2>1. /\ FramesOK(allocated, interrupt_frame, context)
        /\ current # Idle => cpu = current /\ allocated[current]
    BY InvAtTrap, Zenon
  <2> QED
    BY <1>1, <1>3, <2>1, Zenon DEF Inv, TypeOK, FramesOK, Procs
<1>10. /\ CurrentPid \in Nat
       /\ \A p \in Slots : Pid(p) = pid => p = s
  <2>1. \A p \in Slots : generation[p] \in Nat
    BY ConstantsAssumption DEF Inv, TypeOK
  <2>2. gen \in Nat
    BY <1>6, ConstantsAssumption
  <2>3. CurrentPid \in Nat
    BY PidsAreUnique, Zenon DEF Inv, TypeOK, CurrentPid, Procs
  <2> HIDE DEF gen
  <2> QED
    BY <2>1, <2>2, <2>3, PidInjective, Zenon DEF Pid
<1> HIDE DEF st, fr, cx, gen, pid
<1>11. SwitchOK /\ \A p \in Slots : state'[p] = "blocked" => st[p] = "blocked"
  BY <1>2, <1>4, <1>5, <1>8, <1>9, ReturnIsSound, Zenon
<1>12. TablesOK'
  <2>1. par \in [Slots -> Nat] /\ wait \in [Slots -> Nat]
    BY <1>10, Zenon DEF Inv, TypeOK
  <2> HIDE DEF par, wait
  <2>2. parent_pid' \in [Slots -> Nat] /\ wait_for_pid' \in [Slots -> Nat]
    BY <1>1, <2>1, Zenon DEF ExitParents, ExitWaits
  <2>3. user_mode' \in [Slots -> BOOLEAN]
    BY <1>1, Zenon DEF Inv, TypeOK
  <2>4. futex_key' \in [Slots -> Keys \cup {NoKey}]
    BY <1>1, Zenon DEF Inv, TypeOK
  <2>5. futex_left' \in [Slots -> 0 .. MaxTimeout]
    <3>1. 0 \in 0 .. MaxTimeout
      BY ConstantsAssumption
    <3> QED
      BY <1>1, <3>1, Zenon DEF Inv, TypeOK
  <2> QED
    BY <1>7, <1>8, <2>2, <2>3, <2>4, <2>5, Zenon DEF TablesOK
<1>13. PidsInUse'
  BY <1>1, <1>4, <1>7, <1>8, <1>11, Zenon DEF Inv, TypeOK, PidsInUse
<1>14. \A p \in Slots : st[p] = "blocked" => wait_for_pid'[p] = wait_for_pid[p]
  BY <1>1, <1>4, Zenon DEF Inv, TypeOK, ExitWaits
<1>15. \A p, c \in Slots : st[p] = "blocked" /\ c # s /\ parent_pid[c] = Pid(p) =>
         parent_pid'[c] = parent_pid[c]
  BY <1>1, <1>4, <1>10, Zenon DEF Inv, TypeOK, ExitParents
<1>16. WaitTargetExists'
  <2>1. \A p \in Slots : p # s => futex_key'[p] = futex_key[p] /\ allocated'[p] = allocated[p]
    BY <1>1, Zenon DEF Inv, TypeOK
  <2>2. \A c \in Slots : allocated[c] => c # s
    BY <1>3, Zenon
  <2>3. WaitTargetExists
    BY Zenon DEF Inv
  <2>4. ASSUME NEW p \in Slots, state'[p] = "blocked", futex_key'[p] = NoKey
        PROVE  /\ state[p] = "blocked" /\ futex_key[p] = NoKey
               /\ generation'[p] = generation[p]
               /\ wait_for_pid'[p] = wait_for_pid[p]
               /\ \A c \in Slots : allocated[c] /\ parent_pid[c] = Pid(p) =>
                    /\ allocated'[c]
                    /\ generation'[c] = generation[c]
                    /\ parent_pid'[c] = parent_pid[c]
    <3>1. st[p] = "blocked" /\ state[p] = "blocked" /\ p # s
      BY <1>4, <1>11, <2>4, Zenon
    <3> QED
      BY <1>7, <1>14, <1>15, <2>1, <2>2, <2>4, <3>1, Zenon
  <2> QED
    BY <2>3, <2>4, TargetsStay, Zenon
<1> QED
  BY <1>11, <1>12, <1>13, <1>16, InvAfterSwitch, Zenon

(* The tick: timed-out waiters are queued first, then the process that was
   interrupted, then the next one is taken from the list. *)
LEMMA TimerTickKeepsInv ==
  ASSUME Inv, TimerTick
  PROVE  Inv'
<1> DEFINE st == Preempted(Polled)
<1>1. /\ machine = "up"
      /\ futex_key' = [p \in Slots |-> IF p \in Expired THEN NoKey ELSE futex_key[p]]
      /\ futex_left' = [p \in Slots |->
                          IF state[p] = "blocked" /\ futex_left[p] > 0
                          THEN futex_left[p] - 1 ELSE futex_left[p]]
      /\ UNCHANGED <<allocated, generation, parent_pid, wait_for_pid, user_mode>>
  BY Zenon DEF TimerTick
<1>2. PICK polled \in Enqueue(ready, Polled, Expired \ {current}) :
      \E q \in Enqueue(polled, st, Requeued(Polled)) : \E k \in 0 .. Len(q) : TickTo(q, k, st)
  BY Zenon DEF TimerTick
<1>3. PICK q \in Enqueue(polled, st, Requeued(Polled)) : \E k \in 0 .. Len(q) : TickTo(q, k, st)
  BY <1>2, Zenon
<1>4. PICK k \in 0 .. Len(q) : TickTo(q, k, st)
  BY <1>3, Zenon
<1>5. /\ GoodQueue(ready, state, current)
      /\ FramesOK(allocated, interrupt_frame, context)
      /\ current # Idle => cpu = current /\ allocated[current]
      /\ \A p \in Slots : state[p] = "running" => p = current
      /\ \A p \in Slots : state[p] = "blocked" => p # current
  BY <1>1, InvAtTrap, Zenon
<1>6. /\ current \in Procs /\ cpu \in Slots
      /\ state \in [Procs -> States]
      /\ interrupt_frame \in [Slots -> BOOLEAN] /\ context \in [Slots -> Contexts]
      /\ allocated \in [Slots -> BOOLEAN]
      /\ Slots \subseteq Procs
  BY Zenon DEF Inv, TypeOK, Procs
<1>7. Expired \in SUBSET Slots /\ \A p \in Expired : state[p] = "blocked" /\ p # current
  BY <1>5, Zenon DEF Expired
<1>8. /\ Polled \in [Procs -> States]
      /\ \A p \in Procs : Polled[p] = "blocked" => state[p] = "blocked" /\ p \notin Expired
      /\ \A p \in Slots : Polled[p] = "running" => p = current
      /\ \A p \in Expired : Polled[p] = "ready"
  BY <1>5, <1>6, <1>7, Zenon DEF Polled, States
<1>9. GoodQueue(polled, Polled, current)
  <2>1. GoodQueue(ready, Polled, current)
    BY <1>5, <1>6, <1>8 DEF GoodQueue
  <2>2. \A p \in Expired \ {current} :
          Polled[p] # "blocked" /\ p # current /\ \A i \in DOMAIN ready : ready[i] # p
    BY <1>5, <1>7, <1>8, Zenon DEF GoodQueue
  <2>3. Expired \ {current} \in SUBSET Slots
    BY <1>7, Zenon
  <2> QED
    BY <1>2, <2>1, <2>2, <2>3, EnqueueIsGood, Zenon
<1>10. /\ st \in [Procs -> States]
       /\ \A p \in Procs : st[p] = "blocked" => Polled[p] = "blocked"
       /\ \A p \in Slots : st[p] # "running"
  BY <1>6, <1>8, ConstantsAssumption DEF Preempted, States
<1>11. /\ Requeued(Polled) \in SUBSET Slots
       /\ \A p \in Requeued(Polled) : p = current /\ Polled[p] = "running"
  BY <1>6, Zenon DEF Requeued, Procs
<1> HIDE DEF st
<1>12. GoodQueue(q, st, Idle)
  <2>1. GoodQueue(polled, st, Idle)
    BY <1>6, <1>9, <1>10, ConstantsAssumption DEF GoodQueue
  <2>2. \A p \in Requeued(Polled) :
          st[p] # "blocked" /\ p # Idle /\ \A i \in DOMAIN polled : polled[i] # p
    BY <1>6, <1>9, <1>10, <1>11, ConstantsAssumption, Zenon DEF GoodQueue
  <2> QED
    BY <1>3, <1>11, <2>1, <2>2, EnqueueIsGood, Zenon
<1>13. /\ SaveFrame(interrupt_frame) \in [Slots -> BOOLEAN]
       /\ SaveFrame(interrupt_frame)[cpu] = TRUE
       /\ \A p \in Slots : p # cpu => SaveFrame(interrupt_frame)[p] = interrupt_frame[p]
  BY <1>5, <1>6, Zenon DEF SaveFrame, FramesOK
<1>14. SwitchOK /\ \A p \in Slots : state'[p] = "blocked" => st[p] = "blocked"
  <2>0. /\ ready' = Popped(q, k)
        /\ k # 0 => k \in 1 .. Len(q) /\ allocated[q[k]] /\ st[q[k]] = "ready"
    <3>1. NextReady(q, allocated, st, k) /\ ready' = Popped(q, k)
      BY <1>4, Zenon DEF TickTo
    <3>2. q \in Seq(Slots)
      BY <1>12, Zenon DEF GoodQueue
    <3> QED
      BY <3>1, <3>2, NextReadyTakes, Zenon
  <2>1. CASE k # 0 /\ q[k] # current
    <3>1. IretTo(q[k], st, SaveFrame(interrupt_frame), context)
      BY <1>4, <2>1, Zenon DEF TickTo
    <3>2. k \in 1 .. Len(q) /\ allocated'[q[k]]
      BY <1>1, <2>0, <2>1, Zenon
    <3>3. ready' = Popped(q, k)
      BY <2>0, Zenon
    <3> QED
      BY <1>1, <1>5, <1>6, <1>10, <1>12, <3>1, <3>2, <3>3, IretIsSound, Zenon
  <2>2. CASE k # 0 /\ q[k] = current
    <3>0. /\ state' = st /\ interrupt_frame' = SaveFrame(interrupt_frame)
          /\ UNCHANGED <<context, current, cpu, machine>>
      BY <1>4, <2>2, Zenon DEF TickTo
    <3>1. /\ state' = st /\ interrupt_frame' = SaveFrame(interrupt_frame)
          /\ UNCHANGED <<context, current, cpu, machine>>
          /\ k \in 1 .. Len(q) /\ ready' = Popped(q, k)
          /\ st[current] = "ready"
      BY <2>0, <2>2, <3>0, Zenon
    <3>2. /\ GoodQueue(Popped(q, k), st, Idle)
          /\ GoodQueue(Popped(q, k), [st EXCEPT ![q[k]] = "running"], q[k])
      BY <1>12, <3>1, PoppedIsGood, Zenon
    <3>3. GoodQueue(ready', state', current')
      BY <2>2, <3>1, <3>2, Zenon DEF GoodQueue
    <3> QED
      BY <1>1, <1>5, <1>6, <1>10, <1>13, <3>1, <3>3, Zenon DEF SwitchOK, CurrentIsOnCpu,
         CurrentNotBlocked, CpuInv, FrameMatchesContext, FramesOK
  <2>3. CASE k = 0
    <3> DEFINE on == current # Idle /\ st[current] = "ready"
    <3>1. /\ state' = IF on THEN [st EXCEPT ![current] = "running"] ELSE st
          /\ current' = IF on THEN current ELSE Idle
          /\ interrupt_frame' = SaveFrame(interrupt_frame)
          /\ UNCHANGED <<context, cpu, machine>>
          /\ ready' = <<>>
      BY <1>4, <2>3, Zenon DEF TickTo, Popped
    <3>2. GoodQueue(ready', state', current')
      BY <3>1 DEF GoodQueue, Distinct
    <3>3. /\ state' \in [Procs -> States]
          /\ \A p \in Slots : state'[p] = "blocked" => st[p] = "blocked"
          /\ \A p \in Slots : state'[p] = "running" => p = current'
          /\ current' # Idle => current' = current /\ state'[current'] = "running"
          /\ current' \in Procs
      BY <1>6, <1>10, <3>1, Zenon DEF States, Procs
    <3> HIDE DEF on
    <3>4. CpuInv' /\ FrameMatchesContext'
      BY <1>1, <1>5, <1>6, <1>13, <3>1, Zenon DEF CpuInv, FrameMatchesContext, FramesOK
    <3>5. CurrentIsOnCpu' /\ CurrentNotBlocked'
      BY <1>1, <1>5, <3>1, <3>3, Zenon DEF CurrentIsOnCpu, CurrentNotBlocked
    <3> QED
      BY <1>1, <1>6, <1>13, <3>1, <3>2, <3>3, <3>4, <3>5, Zenon DEF SwitchOK
  <2> QED
    BY <2>1, <2>2, <2>3, Zenon
<1>15. /\ futex_key' \in [Slots -> Keys \cup {NoKey}]
       /\ futex_left' \in [Slots -> 0 .. MaxTimeout]
  <2>1. futex_key' \in [Slots -> Keys \cup {NoKey}]
    BY <1>1, Zenon DEF Inv, TypeOK
  <2>2. futex_left \in [Slots -> 0 .. MaxTimeout] /\ MaxTimeout \in Nat
    BY ConstantsAssumption, Zenon DEF Inv, TypeOK
  <2>3. futex_left' \in [Slots -> 0 .. MaxTimeout]
    <3> SUFFICES ASSUME NEW p \in Slots
                 PROVE  (IF state[p] = "blocked" /\ futex_left[p] > 0
                         THEN futex_left[p] - 1 ELSE futex_left[p]) \in 0 .. MaxTimeout
      BY <1>1, Zenon
    <3>1. futex_left[p] \in 0 .. MaxTimeout
      BY <2>2, Zenon
    <3> QED
      BY <2>2, <3>1
  <2> QED
    BY <2>1, <2>3, Zenon
<1>16. \A p \in Slots : state'[p] = "blocked" => state[p] = "blocked" /\ futex_key'[p] = futex_key[p]
  BY <1>1, <1>6, <1>8, <1>10, <1>14, Zenon
<1>17. \A p \in Slots : state[p] = "blocked" => allocated[p]
  BY Zenon DEF Inv, PidsInUse
<1> QED
  BY <1>1, <1>14, <1>15, <1>16, <1>17, QuietCallKeepsInv, Zenon

(* SYS_YIELD: as a tick without timeouts, but it leaves no interrupt frame. *)
LEMMA YieldKeepsInv ==
  ASSUME Inv, Yield
  PROVE  Inv'
<1> DEFINE st == Preempted(state)
<1>1. machine = "up"
  BY Zenon DEF Yield, Syscall
<1>2. PICK q \in Enqueue(ready, st, Requeued(state)) : \E k \in 0 .. Len(q) : YieldTo(q, k, st)
  BY Zenon DEF Yield
<1>3. PICK k \in 0 .. Len(q) : YieldTo(q, k, st)
  BY <1>2, Zenon
<1>4. CASE GoDown
  BY <1>4, GoDownKeepsInv, Zenon
<1>5. CASE ~GoDown
  <2>1. /\ GoodQueue(ready, state, current)
        /\ FramesOK(allocated, interrupt_frame, context)
        /\ current # Idle => cpu = current /\ allocated[current]
        /\ \A p \in Slots : state[p] = "running" => p = current
        /\ \A p \in Slots : state[p] = "blocked" => p # current
    BY <1>1, InvAtTrap, Zenon
  <2>2. /\ current \in Procs /\ cpu \in Slots
        /\ state \in [Procs -> States]
        /\ interrupt_frame \in [Slots -> BOOLEAN] /\ context \in [Slots -> Contexts]
        /\ allocated \in [Slots -> BOOLEAN]
        /\ Slots \subseteq Procs
    BY Zenon DEF Inv, TypeOK, Procs
  <2>3. /\ st \in [Procs -> States]
        /\ \A p \in Procs : st[p] = "blocked" => state[p] = "blocked"
        /\ \A p \in Slots : st[p] # "running"
    BY <2>1, <2>2, ConstantsAssumption DEF Preempted, States
  <2>4. Requeued(state) \in SUBSET Slots /\ \A p \in Requeued(state) : p = current /\ state[p] = "running"
    BY <2>2, Zenon DEF Requeued, Procs
  <2> HIDE DEF st
  <2>5. GoodQueue(q, st, Idle)
    <3>1. GoodQueue(ready, st, Idle)
      BY <2>1, <2>2, <2>3, ConstantsAssumption DEF GoodQueue
    <3>2. \A p \in Requeued(state) :
            st[p] # "blocked" /\ p # Idle /\ \A i \in DOMAIN ready : ready[i] # p
      BY <2>1, <2>2, <2>3, <2>4, ConstantsAssumption, Zenon DEF GoodQueue
    <3> QED
      BY <1>2, <2>4, <3>1, <3>2, EnqueueIsGood, Zenon
  <2> DEFINE back == IF k = 0 THEN current = Idle ELSE q[k] = current
  <2>6. NextReady(q, allocated, st, k) /\ ready' = Popped(q, k)
    BY <1>3, <1>5, Zenon DEF YieldTo
  <2>7. UNCHANGED <<allocated, generation, parent_pid, wait_for_pid, user_mode,
                    futex_key, futex_left, interrupt_frame, machine>>
    BY <1>3, <1>5, Zenon DEF YieldTo
  <2>8. k # 0 => /\ k \in 1 .. Len(q)
                 /\ GoodQueue(Popped(q, k), st, Idle)
                 /\ GoodQueue(Popped(q, k), [st EXCEPT ![q[k]] = "running"], q[k])
                 /\ q[k] \in Slots /\ q[k] # Idle /\ allocated[q[k]] /\ st[q[k]] = "ready"
    <3> SUFFICES ASSUME k # 0 PROVE /\ k \in 1 .. Len(q)
                 /\ GoodQueue(Popped(q, k), st, Idle)
                 /\ GoodQueue(Popped(q, k), [st EXCEPT ![q[k]] = "running"], q[k])
                 /\ q[k] \in Slots /\ q[k] # Idle /\ allocated[q[k]] /\ st[q[k]] = "ready"
      BY Zenon
    <3>0. q \in Seq(Slots)
      BY <2>5, Zenon DEF GoodQueue
    <3>1. k \in 1 .. Len(q) /\ allocated[q[k]] /\ st[q[k]] = "ready"
      BY <2>6, <3>0, NextReadyTakes, Zenon
    <3> QED
      BY <2>5, <3>1, PoppedIsGood, Zenon
  <2>9. SwitchOK /\ \A p \in Slots : state'[p] = "blocked" => st[p] = "blocked"
    <3>1. CASE back
      <4>1. state' = st /\ UNCHANGED <<context, current, cpu>>
        BY <1>3, <1>5, <3>1, Zenon DEF YieldTo
      <4>2. GoodQueue(ready', state', current')
        <5>1. CASE k = 0
          BY <2>6, <5>1 DEF Popped, GoodQueue, Distinct
        <5>2. CASE k # 0
          BY <2>6, <2>8, <3>1, <4>1, <5>2, Zenon DEF GoodQueue
        <5> QED
          BY <5>1, <5>2, Zenon
      <4>3. current # Idle => st[current] = "ready"
        BY <2>8, <3>1, Zenon
      <4> QED
        BY <1>1, <2>1, <2>2, <2>3, <2>7, <4>1, <4>2, <4>3, Zenon DEF SwitchOK, CurrentIsOnCpu,
           CurrentNotBlocked, CpuInv, FrameMatchesContext, FramesOK
    <3>2. CASE ~back
      <4> DEFINE n == q[k]
      <4>1. /\ k # 0
            /\ state' = [st EXCEPT ![n] = "running"]
            /\ context' = [context EXCEPT
                 ![cpu] = IF current = Idle THEN "irq" ELSE "yield", ![n] = "run"]
            /\ current' = n /\ cpu' = n
        BY <1>3, <1>5, <3>2, Zenon DEF YieldTo
      <4>2. /\ n \in Slots /\ n # Idle /\ allocated[n]
            /\ GoodQueue(ready', state', current')
        BY <2>6, <2>8, <4>1, Zenon
      <4> HIDE DEF n
      <4>3. /\ state' \in [Procs -> States] /\ context' \in [Slots -> Contexts]
            /\ \A p \in Slots : state'[p] = "blocked" => st[p] = "blocked"
            /\ \A p \in Slots : state'[p] = "running" => p = n
            /\ state'[n] = "running"
        BY <2>2, <2>3, <4>1, <4>2, Zenon DEF States, Contexts
      <4>4. FrameMatchesContext'
        BY <1>1, <2>1, <2>2, <2>7, <4>1, <4>2, Zenon DEF FrameMatchesContext, FramesOK
      <4>5. CpuInv' /\ CurrentIsOnCpu' /\ CurrentNotBlocked'
        BY <2>2, <2>7, <4>1, <4>2, <4>3, Zenon DEF CpuInv, CurrentIsOnCpu, CurrentNotBlocked
      <4> QED
        BY <1>1, <2>2, <2>7, <4>1, <4>2, <4>3, <4>4, <4>5, Zenon DEF SwitchOK
    <3> QED
      BY <3>1, <3>2, Zenon
  <2>10. \A p \in Slots : state'[p] = "blocked" => state[p] = "blocked" /\ allocated[p]
    BY <2>2, <2>3, <2>9, Zenon DEF Inv, PidsInUse
  <2> QED
    BY <1>1, <2>7, <2>9, <2>10, QuietCallKeepsInv, Zenon DEF Inv, TypeOK
<1> QED
  BY <1>4, <1>5, Zenon

-----------------------------------------------------------------------------
(* The theorems.                                                           *)

(* kmain leaves a state in which the invariant holds. *)
LEMMA InitInv == Init => Inv
<1> SUFFICES ASSUME Init PROVE Inv
  BY Zenon
<1> DEFINE tested == NextGeneration(NextGeneration(0))
           live(disk) == IF disk THEN 0 .. DiskSlot ELSE 0 .. InitSlot
           gen(disk, s) == CASE s <= InitSlot -> 1
                             [] s = DiskSlot -> IF disk THEN NextGeneration(tested) ELSE tested
                             [] OTHER -> 0
<1>1. PICK disk \in BOOLEAN :
        /\ allocated = [s \in Slots |-> s \in live(disk)]
        /\ generation = [s \in Slots |-> gen(disk, s)]
        /\ ready = [i \in 1 .. NumWorkers |-> i - 1]
                     \o (IF disk THEN <<DiskSlot>> ELSE <<>>)
        /\ user_mode = [s \in Slots |-> s \in live(disk) /\ s >= InitSlot]
  BY Zenon DEF Init
<1>2. /\ state = [p \in Procs |-> IF p \in {InitSlot, Idle} THEN "running" ELSE "ready"]
      /\ parent_pid = [s \in Slots |-> 0]
      /\ wait_for_pid = [s \in Slots |-> 0]
      /\ futex_key = [s \in Slots |-> NoKey]
      /\ futex_left = [s \in Slots |-> 0]
      /\ interrupt_frame = [s \in Slots |-> FALSE]
      /\ context = [s \in Slots |-> IF s = InitSlot THEN "run" ELSE "start"]
      /\ current = InitSlot /\ cpu = InitSlot /\ machine = "up"
  BY Zenon DEF Init
<1>3. /\ InitSlot \in Slots /\ DiskSlot \in Slots /\ InitSlot # Idle
      /\ DiskSlot = InitSlot + 1 /\ InitSlot = NumWorkers /\ NumWorkers \in Nat
  BY ConstantsAssumption DEF InitSlot, DiskSlot, Slots
<1>4. NextGeneration(0) \in 1 .. GenMax
  BY NextGenerationType, ConstantsAssumption
<1>5. NextGeneration(NextGeneration(0)) \in 1 .. GenMax
  BY <1>4, NextGenerationType, ConstantsAssumption
<1>6. NextGeneration(NextGeneration(NextGeneration(0))) \in 1 .. GenMax
  BY <1>5, NextGenerationType, ConstantsAssumption
<1>7. /\ generation \in [Slots -> 0 .. GenMax]
      /\ \A p \in Slots : allocated[p] => generation[p] # 0
  <2>1. \A s \in Slots : s \in Nat
    BY ConstantsAssumption DEF Slots
  <2>2. 1 \in 0 .. GenMax /\ 0 \in 0 .. GenMax
    BY ConstantsAssumption
  <2>3. \A s \in Slots : gen(disk, s) \in 0 .. GenMax
    BY <1>3, <1>5, <1>6, <2>1, <2>2, SMTT(30)
  <2>4. \A s \in Slots : s \in live(disk) => gen(disk, s) # 0
    BY <1>3, <1>5, <1>6, <2>1
  <2> HIDE DEF live, gen
  <2>5. \A s \in Slots : allocated[s] <=> s \in live(disk)
    BY <1>1, Zenon
  <2>6. \A s \in Slots : generation[s] = gen(disk, s)
    BY <1>1, Zenon
  <2> QED
    BY <1>1, <2>3, <2>4, <2>5, <2>6, Zenon
<1>8. /\ allocated \in [Slots -> BOOLEAN] /\ allocated[InitSlot]
      /\ user_mode \in [Slots -> BOOLEAN]
  <2>1. InitSlot \in live(disk)
    BY <1>3
  <2> HIDE DEF live
  <2>0. \A s \in Slots : /\ (s \in live(disk)) \in BOOLEAN
                         /\ (s \in live(disk) /\ s >= InitSlot) \in BOOLEAN
    OBVIOUS
  <2>2. allocated \in [Slots -> BOOLEAN] /\ user_mode \in [Slots -> BOOLEAN]
    <3>1. allocated \in [Slots -> BOOLEAN]
      BY <1>1, <2>0, Zenon
    <3>2. user_mode \in [Slots -> BOOLEAN]
      BY <1>1, <2>0, Zenon
    <3> QED
      BY <3>1, <3>2, Zenon
  <2>3. allocated[InitSlot]
    BY <1>1, <1>3, <2>1, Zenon
  <2> QED
    BY <2>2, <2>3, Zenon
<1>9. /\ ready \in Seq(Slots)
      /\ NoDuplicates
      /\ \A i \in DOMAIN ready : ready[i] # InitSlot
  <2> DEFINE w == [i \in 1 .. NumWorkers |-> i - 1]
             d == IF disk THEN <<DiskSlot>> ELSE <<>>
  <2>1. w \in Seq(Slots) /\ Len(w) = NumWorkers /\ \A i \in 1 .. NumWorkers : w[i] = i - 1
    BY <1>3, ConstantsAssumption DEF Slots
  <2>2. d \in Seq(Slots) /\ Len(d) <= 1 /\ \A i \in DOMAIN d : d[i] = DiskSlot
    BY <1>3
  <2>3. ready = w \o d
    BY <1>1, Zenon
  <2> HIDE DEF w, d
  <2>4. /\ ready \in Seq(Slots)
        /\ DOMAIN ready \subseteq 1 .. NumWorkers + 1
        /\ \A i \in DOMAIN ready : ready[i] = IF i <= NumWorkers THEN i - 1 ELSE DiskSlot
    BY <1>3, <2>1, <2>2, <2>3
  <2> QED
    BY <1>3, <2>4 DEF NoDuplicates
<1>10. 0 \in 0 .. MaxTimeout
  BY ConstantsAssumption
<1>11. TypeOK
  BY <1>2, <1>3, <1>7, <1>8, <1>9, <1>10, Zenon DEF TypeOK, Procs, States, Contexts
<1>12. /\ \A p \in Slots : state[p] = IF p = InitSlot THEN "running" ELSE "ready"
       /\ \A p \in Slots : context[p] = IF p = InitSlot THEN "run" ELSE "start"
       /\ \A p \in Slots : interrupt_frame[p] = FALSE
  BY <1>2, ConstantsAssumption, Zenon DEF Procs
<1>13. QueuedIsWaitingToRun
  <2>1. \A i \in DOMAIN ready : ready[i] \in Slots
    BY <1>9
  <2> QED
    BY <1>2, <1>9, <1>12, <2>1 DEF QueuedIsWaitingToRun
<1>14. CurrentIsOnCpu /\ CurrentNotBlocked /\ PidsInUse /\ CpuInv
  BY <1>2, <1>3, <1>7, <1>8, <1>12, SMTT(30) DEF CurrentIsOnCpu, CurrentNotBlocked, PidsInUse, CpuInv
<1>15. FrameMatchesContext /\ WaitTargetExists
  BY <1>12, Zenon DEF FrameMatchesContext, WaitTargetExists
<1> QED
  BY <1>9, <1>11, <1>13, <1>14, <1>15, Zenon DEF Inv

(* Every handler keeps the invariant. *)
LEMMA NextInv == Inv /\ [Next]_vars => Inv'
<1> SUFFICES ASSUME Inv, [Next]_vars PROVE Inv'
  BY Zenon
<1>1. CASE TimerTick
  BY <1>1, TimerTickKeepsInv, Zenon
<1>2. CASE WorkerExit
  BY <1>2, WorkerExitKeepsInv, Zenon
<1>3. CASE Exit
  <2>1. machine = "up" /\ current \in Slots /\ allocated[current]
    BY <1>3, InvAtTrap, Zenon DEF Exit, Syscall, Inv, TypeOK, Procs
  <2> QED
    BY <1>3, <2>1, ExitKeepsInv, Zenon DEF Exit
<1>4. CASE OtherCall
  BY <1>4, OtherCallKeepsInv, Zenon
<1>5. CASE Sleep
  BY <1>5, GoDownKeepsInv, Zenon DEF Sleep
<1>6. CASE Yield
  BY <1>6, YieldKeepsInv, Zenon
<1>7. ASSUME NEW s \in Slots, Kill(s)
      PROVE  Inv'
  BY <1>7, ExitKeepsInv, Zenon DEF Kill, Syscall
<1>8. ASSUME NEW s \in Slots, Fork(s)
      PROVE  Inv'
  BY <1>8, ForkWithoutSpaceKeepsInv, ForkChildKeepsInv, Zenon DEF Fork, Syscall
<1>9. ASSUME NEW s \in Slots, WaitReap(s) \/ WaitBlock(s)
      PROVE  Inv'
  BY <1>9, WaitReapKeepsInv, WaitBlockKeepsInv, Zenon
<1>10. ASSUME NEW s \in Slots, Signal(s)
       PROVE  Inv'
  <2>1. /\ machine = "up"
        /\ Wake(IF state[s] = "blocked" THEN {s} ELSE {})
    BY <1>10, Zenon DEF Signal, Syscall
  <2>2. CASE state[s] = "blocked"
    BY <2>1, <2>2, WakeKeepsInv, Zenon
  <2>3. CASE state[s] # "blocked"
    BY <2>1, <2>3, WakeKeepsInv, Zenon
  <2> QED
    BY <2>2, <2>3, Zenon
<1>11. ASSUME NEW key \in Keys, NEW ticks \in 0 .. MaxTimeout, FutexWait(key, ticks)
       PROVE  Inv'
  BY <1>11, FutexWaitKeepsInv, Zenon
<1>12. ASSUME NEW key \in Keys, NEW count \in 0 .. 1, FutexWake(key, count)
       PROVE  Inv'
  <2>1. PICK W \in FutexWoken(key, count) : Wake(W)
    BY <1>12, Zenon DEF FutexWake
  <2>2. W \in SUBSET Slots /\ \A p \in W : state[p] = "blocked"
    BY Zenon DEF FutexWoken, Waiters
  <2> QED
    BY <1>12, <2>1, <2>2, WakeKeepsInv, Zenon DEF FutexWake, Syscall
<1>13. CASE UNCHANGED vars
  BY <1>13, Zenon DEF vars, Inv, TypeOK, NoDuplicates, QueuedIsWaitingToRun, CurrentIsOnCpu,
     CurrentNotBlocked, PidsInUse, CpuInv, FrameMatchesContext, WaitTargetExists, Pid
<1> QED
  BY <1>1, <1>2, <1>3, <1>4, <1>5, <1>6, <1>7, <1>8, <1>9, <1>10, <1>11, <1>12, <1>13, Zenon
     DEF Next

(* Inv holds in every state of the kernel. *)
THEOREM Invariance == Spec => []Inv
  BY InitInv, NextInv, PTL DEF Spec

(* Type correctness: the table, the list and the scheduler's pointers stay
   in their types, and the machine only ever runs slots. *)
THEOREM TypeCorrect == Spec => []TypeOK
<1>1. Inv => TypeOK
  BY Zenon DEF Inv
<1> QED
  BY <1>1, Invariance, PTL

(* enqueue in round_robin.c is never called for a process that is in the
   list: the list has no loop. *)
THEOREM ReadyListSound == Spec => []NoDuplicates
<1>1. Inv => NoDuplicates
  BY Zenon DEF Inv
<1> QED
  BY <1>1, Invariance, PTL

(* The list that enqueue builds never holds the current process nor a blocked
   one, so that next_ready takes one that may run. *)
THEOREM QueuedSound == Spec => []QueuedIsWaitingToRun
<1>1. Inv => QueuedIsWaitingToRun
  BY Zenon DEF Inv
<1> QED
  BY <1>1, Invariance, PTL

(* scheduler_current names the process on the CPU, and no other process is
   marked running. *)
THEOREM CurrentSound == Spec => []CurrentIsOnCpu
<1>1. Inv => CurrentIsOnCpu
  BY Zenon DEF Inv
<1> QED
  BY <1>1, Invariance, PTL

(* scheduler_timer_tick resumes an interrupted process from its own frame
   and starts a new one from its entry point. *)
THEOREM FramesSound == Spec => []FrameMatchesContext
<1>1. Inv => FrameMatchesContext
  BY Zenon DEF Inv
<1> QED
  BY <1>1, Invariance, PTL

(* The child that process_wait blocks on stays in the table, with its pid
   and its parent, for as long as the caller is blocked. *)
THEOREM WaitSound == Spec => []WaitTargetExists
<1>1. Inv => WaitTargetExists
  BY Zenon DEF Inv
<1> QED
  BY <1>1, Invariance, PTL
=============================================================================
