------------------------------- MODULE MCJob -------------------------------
(* Instances of Job for model checking. *)
EXTENDS Job
=============================================================================
