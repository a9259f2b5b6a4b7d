----------------------------- MODULE LogStream -----------------------------
(***************************************************************************)
(* What the log of a job promises: lines are accepted in some order, each  *)
(* at most once, and what was delivered to the server is at any time a     *)
(* beginning of what was accepted.                                         *)
(***************************************************************************)
EXTENDS Integers, Sequences

CONSTANT Lines

VARIABLES
    log,       \* the lines accepted so far
    delivered  \* the lines handed over to the server

vars == <<log, delivered>>

Init == log = <<>> /\ delivered = <<>>

Accept(line) ==
    /\ \A i \in 1 .. Len(log) : log[i] # line
    /\ log' = Append(log, line)
    /\ UNCHANGED delivered

Deliver ==
    /\ \E n \in Len(delivered) + 1 .. Len(log) :
          delivered' = SubSeq(log, 1, n)
    /\ UNCHANGED log

Next == (\E line \in Lines : Accept(line)) \/ Deliver

Spec == Init /\ [][Next]_vars

(* no accepted line is withheld for ever *)
FairSpec == Spec /\ WF_vars(Deliver)
=============================================================================
