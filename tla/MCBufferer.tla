----------------------------- MODULE MCBufferer -----------------------------
(* Instance of Bufferer for model checking. *)
EXTENDS Bufferer
=============================================================================
