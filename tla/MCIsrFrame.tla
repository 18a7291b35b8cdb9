---------------------------- MODULE MCIsrFrame ----------------------------
(* A small instance of IsrFrame: exceptions with and without an error code,
   the timer, the keyboard and the system call. *)
EXTENDS IsrFrame

SomeVectors == {0, 13, 14, 32, 33, 128}
=============================================================================
