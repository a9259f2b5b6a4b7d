----------------------------- MODULE MCSidecar -----------------------------
(* Instances of Sidecar for model checking. *)
EXTENDS Sidecar
=============================================================================
