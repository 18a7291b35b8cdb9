------------------------------ MODULE SeqFold ------------------------------
(***************************************************************************)
(* FoldLeft, the one operator of the community module SequencesExt that    *)
(* this project needs, over MapThenFoldSet as there: a loop over an array  *)
(* from its first element on.  It stands alone because the prover carries  *)
(* every definition of an extended module into every obligation.           *)
(***************************************************************************)
EXTENDS Sequences, FiniteSetsExt

FoldLeft(op(_, _), base, seq) ==
  LET turn(element, so_far) == op(so_far, element)
      element(i) == seq[i]
  IN  MapThenFoldSet(turn, base, element, Max, DOMAIN seq)
=============================================================================
