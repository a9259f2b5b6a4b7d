---------------------------- MODULE RunnerProofs ----------------------------
(***************************************************************************)
(* Proofs about module Runner, for any number of lives and of mishaps.     *)
(***************************************************************************)
EXTENDS Runner, TLAPS

(* the life has a token, and startScheduler is on its way *)
Begun == {"probe", "list", "remove", "start"}

(* the scheduler has been started *)
Up == {"beat", "notify", "select", "cancel", "shutdown", "workers"}

(* Where the token is.  A registration is paid for by a mishap unless its  *)
(* token is in the file or in hand, and a token in hand of a runner that   *)
(* cannot store it is paid for already: the disk broke after TestWrite.    *)
TokenInv ==
    /\ file <= issued /\ token <= issued
    /\ main \in {"test", "register", "truncate", "write"} => file < 1
    /\ InHand => answer \in 1 .. issued
    /\ main \in Begun \cup Up =>
           \/ configured /\ token = Given
           \/ ~configured /\ token = file /\ token > 0
    /\ main \in {"test", "register", "truncate", "write"} => ~configured

CountInv ==
    /\ issued <= mishaps + 1
    /\ file < 1 /\ ~InHand => issued <= mishaps
    /\ InHand /\ ~writable => issued <= mishaps
    /\ main = "register" /\ ~writable => issued + 1 <= mishaps

(* What runs, and since when.                                              *)
StageInv ==
    /\ scheduler = "working" => main \in Up
    /\ beat # "none" => main \in Up \ {"beat"}

(* The containers of earlier lives: seen by CleanupList, then removed or   *)
(* spared.                                                                 *)
CleanInv ==
    /\ main \in {"start"} \cup Up => listed = {}
    /\ main \in {"remove", "start"} \cup Up =>
           \A l \in 1 .. life - 1 : box[l] = "running" => l \in listed \cup spared

IInv == TypeOK /\ TokenInv /\ CountInv /\ StageInv /\ CleanInv /\ VersionKnown

LEMMA NoFileIsNoToken == NoFile \in Int /\ NoFile < 0 /\ NoFile \notin Nat
BY DEF NoFile

LEMMA GivenIsNoToken == Given \in Int /\ Given < 0
BY DEF Given

LEMMA EarlierLives ==
    ASSUME life \in 0 .. MaxLives
    PROVE  \A l \in 1 .. life - 1 : l \in Lives /\ l # life
BY RunnerAssumption DEF Lives

LEMMA InitialStates == Init => IInv
<1> SUFFICES ASSUME Init PROVE IInv
  OBVIOUS
<1> USE NoFileIsNoToken, GivenIsNoToken DEF Init
<1>1. TypeOK
  <2>1. life \in 0 .. MaxLives /\ known \in 0 .. MaxLives
    BY RunnerAssumption
  <2>2. box \in [Lives -> {"none", "created", "running"}]
    OBVIOUS
  <2> QED
    BY <2>1, <2>2 DEF TypeOK
<1>2. TokenInv /\ CountInv
  BY DEF TokenInv, CountInv, InHand, Begun, Up
<1>3. StageInv /\ CleanInv /\ VersionKnown
  BY DEF StageInv, CleanInv, VersionKnown, Up
<1> QED
  BY <1>1, <1>2, <1>3 DEF IInv

(* Death leaves everything in memory in its first state.                   *)
LEMMA DeathKeepsTypes ==
    ASSUME TypeOK, Die, UNCHANGED <<life, file, configured, issued, box, known>>,
           writable' \in BOOLEAN, mishaps' \in Nat
    PROVE  TypeOK'
<1>1. /\ main' = "down" /\ scheduler' = "none" /\ beat' = "none"
      /\ hung' \in BOOLEAN
      /\ token' \in Nat \cup {Given} /\ answer' \in Nat
      /\ listed' \in SUBSET Lives /\ spared' \in SUBSET Lives
      /\ withVersion' \in BOOLEAN /\ closed' \in BOOLEAN
      /\ ctxDone' \in BOOLEAN
  BY DEF Die
<1> QED
  BY <1>1 DEF TypeOK

LEMMA InductiveStep == IInv /\ [Next]_vars => IInv'
<1> SUFFICES ASSUME IInv, [Next]_vars PROVE IInv'
  OBVIOUS
<1> USE RunnerAssumption, NoFileIsNoToken, GivenIsNoToken, EarlierLives
    DEF IInv, TypeOK, TokenInv, CountInv, StageInv, CleanInv, VersionKnown,
        InHand, Begun, Up, disk, register, docker, work, beats,
        stop, Mishap
<1>1. CASE LoadConfig
  <2>1. TypeOK'
    <3>1. CASE Die
      BY <1>1, <3>1, DeathKeepsTypes DEF LoadConfig
    <3>2. CASE ~Die
      BY <1>1, <3>2 DEF LoadConfig
    <3> QED
      BY <3>1, <3>2
  <2>2. TokenInv' /\ CountInv'
    BY <1>1 DEF LoadConfig, Die
  <2>3. StageInv' /\ CleanInv' /\ VersionKnown'
    BY <1>1 DEF LoadConfig, Die
  <2> QED
    BY <2>1, <2>2, <2>3
<1>2. CASE TestWrite
  <2>1. TypeOK'
    <3>1. CASE writable
      BY <1>2, <3>1 DEF TestWrite
    <3>2. CASE ~writable
      BY <1>2, <3>2, DeathKeepsTypes DEF TestWrite
    <3> QED
      BY <3>1, <3>2
  <2>2. TokenInv' /\ CountInv'
    BY <1>2 DEF TestWrite, Die
  <2>3. StageInv' /\ CleanInv' /\ VersionKnown'
    BY <1>2 DEF TestWrite, Die
  <2> QED
    BY <2>1, <2>2, <2>3
<1>3. CASE Truncate
  <2>1. TypeOK'
    <3>1. CASE writable
      BY <1>3, <3>1 DEF Truncate
    <3>2. CASE ~writable
      BY <1>3, <3>2, DeathKeepsTypes DEF Truncate
    <3> QED
      BY <3>1, <3>2
  <2>2. TokenInv' /\ CountInv'
    BY <1>3 DEF Truncate, Die
  <2>3. StageInv' /\ CleanInv' /\ VersionKnown'
    BY <1>3 DEF Truncate, Die
  <2> QED
    BY <2>1, <2>2, <2>3
<1>4. CASE WriteToken
  <2>1. TypeOK'
    <3>1. CASE writable
      BY <1>4, <3>1 DEF WriteToken
    <3>2. CASE ~writable
      BY <1>4, <3>2, DeathKeepsTypes DEF WriteToken
    <3> QED
      BY <3>1, <3>2
  <2>2. TokenInv' /\ CountInv'
    BY <1>4 DEF WriteToken, Die
  <2>3. StageInv' /\ CleanInv' /\ VersionKnown'
    BY <1>4 DEF WriteToken, Die
  <2> QED
    BY <2>1, <2>2, <2>3
<1>5. CASE Probe
  <2>1. TypeOK'
    <3>1. CASE Die
      BY <1>5, <3>1, DeathKeepsTypes DEF Probe
    <3>2. CASE ~Die
      BY <1>5, <3>2 DEF Probe
    <3> QED
      BY <3>1, <3>2
  <2>2. TokenInv' /\ CountInv'
    BY <1>5 DEF Probe, Die
  <2>3. StageInv' /\ CleanInv' /\ VersionKnown'
    BY <1>5 DEF Probe, Die
  <2> QED
    BY <2>1, <2>2, <2>3
<1>6. CASE CleanupList
  <2>1. TypeOK'
    <3>1. CASE Die
      BY <1>6, <3>1, DeathKeepsTypes DEF CleanupList
    <3>2. CASE ~Die
      BY <1>6, <3>2 DEF CleanupList
    <3> QED
      BY <3>1, <3>2
  <2>2. TokenInv' /\ CountInv'
    BY <1>6 DEF CleanupList, Die
  <2>3. StageInv' /\ CleanInv' /\ VersionKnown'
    BY <1>6 DEF CleanupList, Die
  <2> QED
    BY <2>1, <2>2, <2>3
<1>7. CASE CleanupRemove
  BY <1>7 DEF CleanupRemove
<1>8. CASE CleanupDone
  BY <1>8 DEF CleanupDone
<1>9. CASE StartScheduler
  BY <1>9 DEF StartScheduler
<1>10. CASE StartHeartbeats
  BY <1>10 DEF StartHeartbeats
<1>11. CASE Register
  BY <1>11 DEF Register
<1>12. CASE Notify
  BY <1>12 DEF Notify
<1>13. CASE SelectClosed
  BY <1>13 DEF SelectClosed
<1>14. CASE Cancel
  BY <1>14 DEF Cancel
<1>15. CASE ShutdownScheduler
  BY <1>15 DEF ShutdownScheduler
<1>16. CASE WaitWorkers
  <2>1. TypeOK'
    BY <1>16 DEF WaitWorkers, Die
  <2>2. TokenInv' /\ CountInv'
    BY <1>16 DEF WaitWorkers, Die
  <2>3. StageInv' /\ CleanInv' /\ VersionKnown'
    BY <1>16 DEF WaitWorkers, Die
  <2> QED
    BY <2>1, <2>2, <2>3
<1>17. CASE BeatTop
  BY <1>17 DEF BeatTop
<1>18. CASE BeatSend
  <2>1. TypeOK'
    <3>1. /\ beat' = "sleep"
          /\ withVersion' \in BOOLEAN /\ known' \in 0 .. MaxLives
      BY <1>18 DEF BeatSend
    <3>2. UNCHANGED <<life, main, disk, register, docker, work, stop>>
      BY <1>18 DEF BeatSend
    <3> QED
      BY <3>1, <3>2
  <2>2. TokenInv' /\ CountInv'
    BY <1>18 DEF BeatSend
  <2>3. StageInv' /\ CleanInv' /\ VersionKnown'
    BY <1>18 DEF BeatSend
  <2> QED
    BY <2>1, <2>2, <2>3
<1>19. CASE BeatSleep
  BY <1>19 DEF BeatSleep
<1>20. CASE CreateBox
  <2>1. TypeOK'
    <3>1. box' \in [Lives -> {"none", "created", "running"}]
      BY <1>20 DEF CreateBox
    <3>2. UNCHANGED <<life, main, disk, register, listed, spared, work, beats,
                      stop>>
      BY <1>20 DEF CreateBox
    <3> HIDE DEF Lives
    <3> QED
      BY <3>1, <3>2
  <2>2. TokenInv' /\ CountInv'
    BY <1>20 DEF CreateBox
  <2>3. StageInv' /\ CleanInv' /\ VersionKnown'
    BY <1>20 DEF CreateBox
  <2> QED
    BY <2>1, <2>2, <2>3
<1>21. CASE StartBox
  <2>1. TypeOK'
    <3>1. box' \in [Lives -> {"none", "created", "running"}]
      BY <1>21 DEF StartBox
    <3>2. UNCHANGED <<life, main, disk, register, listed, spared, work, beats,
                      stop>>
      BY <1>21 DEF StartBox
    <3> HIDE DEF Lives
    <3> QED
      BY <3>1, <3>2
  <2>2. TokenInv' /\ CountInv'
    BY <1>21 DEF StartBox
  <2>3. StageInv' /\ CleanInv' /\ VersionKnown'
    BY <1>21 DEF StartBox
  <2> QED
    BY <2>1, <2>2, <2>3
<1>22. CASE DestroyBox
  <2>1. TypeOK'
    <3>1. box' \in [Lives -> {"none", "created", "running"}]
      BY <1>22 DEF DestroyBox
    <3>2. UNCHANGED <<life, main, disk, register, listed, spared, work, beats,
                      stop>>
      BY <1>22 DEF DestroyBox
    <3> HIDE DEF Lives
    <3> QED
      BY <3>1, <3>2
  <2>2. TokenInv' /\ CountInv'
    BY <1>22 DEF DestroyBox
  <2>3. StageInv' /\ CleanInv' /\ VersionKnown'
    BY <1>22 DEF DestroyBox
  <2> QED
    BY <2>1, <2>2, <2>3
<1>23. CASE Crash
  <2>1. TypeOK'
    <3>1. mishaps' \in Nat
      BY <1>23 DEF Crash
    <3> QED
      BY <1>23, <3>1, DeathKeepsTypes DEF Crash
  <2>2. TokenInv' /\ CountInv'
    BY <1>23 DEF Crash, Die
  <2>3. StageInv' /\ CleanInv' /\ VersionKnown'
    BY <1>23 DEF Crash, Die
  <2> QED
    BY <2>1, <2>2, <2>3
<1>24. CASE Boot
  BY <1>24 DEF Boot
<1>25. CASE DiskBreaks
  <2>1. TypeOK'
    <3>1. mishaps' = mishaps \/ mishaps' = mishaps + 1
      BY <1>25 DEF DiskBreaks
    <3>2. mishaps' \in Nat
      BY <3>1
    <3>3. writable' \in BOOLEAN
      BY <1>25 DEF DiskBreaks
    <3> QED
      BY <1>25, <3>2, <3>3 DEF DiskBreaks
  <2>2. TokenInv' /\ CountInv'
    BY <1>25 DEF DiskBreaks
  <2>3. StageInv' /\ CleanInv' /\ VersionKnown'
    BY <1>25 DEF DiskBreaks
  <2> QED
    BY <2>1, <2>2, <2>3
<1>26. CASE DiskRepaired
  BY <1>26 DEF DiskRepaired
<1>27. CASE CloseChannel
  BY <1>27 DEF CloseChannel
<1>28. CASE SelectSignal
  BY <1>28 DEF SelectSignal
<1>29. CASE ShutdownHangs
  BY <1>29 DEF ShutdownHangs
<1>30. CASE UNCHANGED vars
  BY <1>30 DEF vars
<1> QED
  BY <1>1, <1>2, <1>3, <1>4, <1>5, <1>6, <1>7, <1>8, <1>9, <1>10, <1>11,
     <1>12, <1>13, <1>14, <1>15, <1>16, <1>17, <1>18, <1>19, <1>20, <1>21,
     <1>22, <1>23, <1>24, <1>25, <1>26, <1>27, <1>28, <1>29, <1>30
  DEF Next, Start, Cleanup, Run, Heartbeats, Jobs, Outside

LEMMA Invariance == Spec => []IInv
BY InitialStates, InductiveStep, PTL DEF Spec

(* Every variable of the runner keeps its type through all lives.          *)
THEOREM TypeCorrect == Spec => []TypeOK
BY Invariance, PTL DEF IInv

(* No life ever registers the runner while a token is in the file, and a   *)
(* registration is lost by a mishap only: register.go and Snake.Start.     *)
THEOREM RegistersOnce == Spec => []RegisteredOnce
<1>1. IInv => RegisteredOnce
  BY DEF IInv, CountInv, RegisteredOnce
<1> QED
  BY <1>1, Invariance, PTL

(* Scheduler and heartbeats of every life use the configured token or the  *)
(* one in the file, which the server has issued.                           *)
THEOREM IsAuthenticated == Spec => []Authenticated
<1>1. IInv => Authenticated
  BY DEF IInv, TypeOK, TokenInv, StageInv, Authenticated, Up
<1> QED
  BY <1>1, Invariance, PTL

(* No scheduler works beside a running container of an earlier life that   *)
(* Docker.Cleanup has not tried to remove.                                 *)
THEOREM StartsClean == Spec => []CleanStart
<1>1. IInv => CleanStart
  BY DEF IInv, StageInv, CleanInv, CleanStart
<1> QED
  BY <1>1, Invariance, PTL

(* The handshake of heartbeat.go ends only when the server has the version *)
(* of this life.                                                           *)
THEOREM VersionIsKnown == Spec => []VersionKnown
BY Invariance, PTL DEF IInv
=============================================================================
