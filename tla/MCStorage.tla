----------------------------- MODULE MCStorage -----------------------------
(* Storage with two journal slots and one or two sectors to write. *)
EXTENDS Storage

MCBlank == Whole(0)
=============================================================================
