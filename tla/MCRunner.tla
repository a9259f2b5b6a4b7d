------------------------------ MODULE MCRunner ------------------------------
(* Instance of Runner for model checking. *)
EXTENDS Runner
=============================================================================
