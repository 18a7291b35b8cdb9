--------------------------- MODULE PrivateMemory ---------------------------
(***************************************************************************)
(* What the virtual memory manager promises a process: its memory changes  *)
(* only by what it does itself, and a forked child starts with a copy of   *)
(* its parent's.  Sharing, copy-on-write and page frames do not appear.    *)
(***************************************************************************)
EXTENDS Integers

CONSTANTS
  Procs,    \* process slots
  VPages,   \* user pages
  Stack,    \* the page of the stack, whose first content is not specified
  Programs, \* what the pages of each executable hold, the stack excepted
  Contents, \* what a page can hold
  Data,     \* what a process can store
  Absent    \* a page that is not mapped

VARIABLES
  memory,   \* memory[p][v]: what process p finds at page v
  running   \* the process on the CPU

Blank == [v \in VPages |-> Absent]

Started(program, x) == [v \in VPages |-> IF v = Stack THEN x ELSE program[v]]

Init ==
  /\ running \in Procs
  /\ \E program \in Programs, x \in Contents :
       memory = [p \in Procs |-> IF p = running THEN Started(program, x)
                                ELSE Blank]

(* A store by the running process, or by the kernel on its behalf. *)
Write(v, x) ==
  /\ memory[running][v] # Absent
  /\ memory' = [memory EXCEPT ![running][v] = x]
  /\ UNCHANGED running

(* fork: the child gets what the parent has now. *)
Fork(c) ==
  /\ c # running /\ memory[c] = Blank
  /\ memory' = [memory EXCEPT ![c] = memory[running]]
  /\ UNCHANGED running

(* munmap drops some of the running process's pages. *)
Unmap(gone) ==
  /\ memory' = [memory EXCEPT ![running] =
                  [v \in VPages |-> IF v \in gone THEN Absent ELSE @[v]]]
  /\ UNCHANGED running

(* exec: the running process gets a new image, nobody else notices. *)
Replace(program, x) ==
  /\ memory' = [memory EXCEPT ![running] = Started(program, x)]
  /\ UNCHANGED running

(* wait: the memory of an exited process goes away. *)
Discard(z) ==
  /\ z # running
  /\ memory' = [memory EXCEPT ![z] = Blank]
  /\ UNCHANGED running

Switch(q) ==
  /\ running' = q
  /\ UNCHANGED memory

Next ==
  \/ \E v \in VPages, x \in Data : Write(v, x)
  \/ \E c \in Procs : Fork(c) \/ Discard(c) \/ Switch(c)
  \/ \E gone \in SUBSET VPages : Unmap(gone)
  \/ \E program \in Programs, x \in Contents : Replace(program, x)

Spec == Init /\ [][Next]_<<memory, running>>
=============================================================================
