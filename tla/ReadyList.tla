----------------------------- MODULE ReadyList -----------------------------
(***************************************************************************)
(* The list behind Process's sequence `ready`: ready_head and the next     *)
(* pointers inside the PCBs (scheduler/round_robin.c), with the writes of  *)
(* next in kernel/process.c.  enqueue and next_ready are loops, one action *)
(* per turn; nothing else runs meanwhile (interrupts are off).             *)
(***************************************************************************)
EXTENDS Integers, Sequences, FiniteSets

CONSTANTS
  Procs,  \* the PCBs
  Null

ASSUME ListAssumption == Null \notin Procs /\ IsFiniteSet(Procs)

VARIABLES
  ready_head, next,
  runnable,  \* allocated and in state PROCESS_READY
  pc,        \* "idle", "enqueue" or "next_ready"
  p,         \* the argument of enqueue
  q          \* the cursor of enqueue

vars == <<ready_head, next, runnable, pc, p, q>>

TypeOK ==
  /\ ready_head \in Procs \cup {Null}
  /\ next \in [Procs -> Procs \cup {Null}]
  /\ runnable \in [Procs -> BOOLEAN]
  /\ pc \in {"idle", "enqueue", "next_ready"}
  /\ IF pc = "enqueue" THEN p \in Procs /\ q \in Procs
     ELSE p = Null /\ q = Null

(* rr_init *)
Init ==
  /\ ready_head = Null
  /\ next = [x \in Procs |-> Null]
  /\ runnable \in [Procs -> BOOLEAN]
  /\ pc = "idle"
  /\ p = Null
  /\ q = Null

-----------------------------------------------------------------------------
(* The list as a sequence.                                                 *)

(* s lists the processes from ready_head on, in the order of the links. *)
Represents(s) ==
  /\ ready_head = IF s = <<>> THEN Null ELSE s[1]
  /\ \A i \in DOMAIN s : next[s[i]] = IF i = Len(s) THEN Null ELSE s[i + 1]

Lists == UNION {[1 .. n -> Procs] : n \in 0 .. Cardinality(Procs)}

List == CHOOSE s \in Lists : Represents(s)
InList(x) == \E i \in DOMAIN List : List[i] = x

-----------------------------------------------------------------------------
(* Mutant: the process may be in the list. *)
EnqueueStartAny(x) ==
  /\ pc = "idle"
  /\ next' = [next EXCEPT ![x] = Null]
  /\ \/ /\ ready_head = Null
        /\ ready_head' = x
        /\ UNCHANGED <<pc, p, q>>
     \/ /\ ready_head # Null
        /\ pc' = "enqueue"
        /\ p' = x
        /\ q' = ready_head
        /\ UNCHANGED ready_head
  /\ UNCHANGED runnable

(* Mutant: the process is put in front. *)
EnqueueStartFront(x) ==
  /\ pc = "idle"
  /\ ~InList(x)
  /\ next' = [next EXCEPT ![x] = ready_head]
  /\ ready_head' = x
  /\ UNCHANGED <<runnable, pc, p, q>>

(***************************************************************************)
(* enqueue up to the loop.  Its callers only pass a process that is not in *)
(* the list: theorem ReadyListSound of ProcessProofs.                      *)
(***************************************************************************)
EnqueueStart(x) ==
  /\ pc = "idle"
  /\ ~InList(x)
  /\ next' = [next EXCEPT ![x] = Null]
  /\ \/ /\ ready_head = Null
        /\ ready_head' = x
        /\ UNCHANGED <<pc, p, q>>
     \/ /\ ready_head # Null
        /\ pc' = "enqueue"
        /\ p' = x
        /\ q' = ready_head
        /\ UNCHANGED ready_head
  /\ UNCHANGED runnable

(* One turn of the loop, or the link behind it. *)
EnqueueWalk ==
  /\ pc = "enqueue"
  /\ \/ /\ next[q] # Null
        /\ q' = next[q]
        /\ UNCHANGED <<next, pc, p>>
     \/ /\ next[q] = Null
        /\ next' = [next EXCEPT ![q] = p]
        /\ pc' = "idle"
        /\ p' = Null
        /\ q' = Null
  /\ UNCHANGED <<ready_head, runnable>>

NextReadyStart ==
  /\ pc = "idle"
  /\ pc' = "next_ready"
  /\ UNCHANGED <<ready_head, next, runnable, p, q>>

(* Mutant: a process that is not runnable stays at the head. *)
NextReadyPopStuck ==
  /\ pc = "next_ready"
  /\ \/ /\ ready_head = Null
        /\ pc' = "idle"
        /\ UNCHANGED <<ready_head, next>>
     \/ /\ ready_head # Null
        /\ runnable[ready_head]
        /\ ready_head' = next[ready_head]
        /\ next' = [next EXCEPT ![ready_head] = Null]
        /\ pc' = "idle"
     \/ /\ ready_head # Null
        /\ ~runnable[ready_head]
        /\ UNCHANGED <<ready_head, next, pc>>
  /\ UNCHANGED <<runnable, p, q>>

(* One turn of next_ready; an empty list yields idle. *)
NextReadyPop ==
  /\ pc = "next_ready"
  /\ \/ /\ ready_head = Null
        /\ pc' = "idle"
        /\ UNCHANGED <<ready_head, next>>
     \/ /\ ready_head # Null
        /\ ready_head' = next[ready_head]
        /\ next' = [next EXCEPT ![ready_head] = Null]
        /\ pc' = IF runnable[ready_head] THEN "idle" ELSE "next_ready"
  /\ UNCHANGED <<runnable, p, q>>

(* new_pcb and the reaping in process_wait write next, queued or not. *)
ClearNext(x) ==
  /\ pc = "idle"
  /\ next' = [next EXCEPT ![x] = Null]
  /\ UNCHANGED <<ready_head, runnable, pc, p, q>>

(* Processes become and cease to be runnable outside the list. *)
ChangeState(x) ==
  /\ pc = "idle"
  /\ runnable' = [runnable EXCEPT ![x] = ~@]
  /\ UNCHANGED <<ready_head, next, pc, p, q>>

Next ==
  \/ \E x \in Procs : EnqueueStart(x) \/ ClearNext(x) \/ ChangeState(x)
  \/ EnqueueWalk
  \/ NextReadyStart
  \/ NextReadyPop

(* A loop that has begun goes on: nothing can interrupt it. *)
Spec == Init /\ [][Next]_vars /\ WF_vars(EnqueueWalk) /\ WF_vars(NextReadyPop)

-----------------------------------------------------------------------------
(***************************************************************************)
(* The links from ready_head lead to an end: no sequence of enqueues, pops *)
(* and writes of next (slots freed or reused while they are queued) ties   *)
(* the list into a loop.                                                   *)
(***************************************************************************)
IsList == \E s \in Lists : Represents(s)

(***************************************************************************)
(* The list is a queue: every turn of enqueue, next_ready and the writes   *)
(* of next appends a process, takes the first or cuts the tail off.        *)
(***************************************************************************)
Queue == INSTANCE ReadyQueue WITH queue <- List

ListIsQueue == Queue!Spec

(* enqueue and next_ready return: no list makes their loops endless. *)
LoopsEnd == pc # "idle" ~> pc = "idle"
=============================================================================
