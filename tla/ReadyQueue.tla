----------------------------- MODULE ReadyQueue -----------------------------
(***************************************************************************)
(* What the scheduler promises of its ready list: a first-in first-out     *)
(* queue of processes, in which nobody stands twice.                       *)
(***************************************************************************)
EXTENDS Integers, Sequences

CONSTANT Procs

VARIABLE queue

Queued(p) == \E i \in DOMAIN queue : queue[i] = p

Init == queue = <<>>

(* A process joins at the end. *)
Join(p) ==
  /\ ~Queued(p)
  /\ queue' = Append(queue, p)

(* The first one leaves. *)
Leave ==
  /\ queue # <<>>
  /\ queue' = Tail(queue)

(* Everybody behind the k-th is lost. *)
Cut(k) == queue' = SubSeq(queue, 1, k)

Next ==
  \/ \E p \in Procs : Join(p)
  \/ Leave
  \/ \E k \in DOMAIN queue : Cut(k)

Spec == Init /\ [][Next]_queue
=============================================================================
