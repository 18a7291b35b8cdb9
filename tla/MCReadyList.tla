---------------------------- MODULE MCReadyList ----------------------------
(* ReadyList with four PCBs: a list with a head, a tail, something between
   and somebody outside. *)
EXTENDS ReadyList
=============================================================================
