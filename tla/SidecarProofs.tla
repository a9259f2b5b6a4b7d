--------------------------- MODULE SidecarProofs ---------------------------
(***************************************************************************)
(* Proofs about module Sidecar, for either mode and every order of the     *)
(* owner, the goroutine of the ssh-agent and the ssh-agent itself.         *)
(***************************************************************************)
EXTENDS Sidecar, FiniteSetTheorems, TLAPS

Flags ==
    /\ ctxDone \in BOOLEAN /\ reference \in BOOLEAN /\ sshAgent \in BOOLEAN
    /\ baseDir \in BOOLEAN /\ tempDir \in BOOLEAN
    /\ started \in BOOLEAN /\ failed \in BOOLEAN

Places ==
    /\ mode \in Modes
    /\ owner \in {"create", "mkdir", "agent", "await", "setup", "served",
                  "failed", "destroy", "kill", "wait",
                  "remove", "gone", "crashed"}
    /\ container \in {"none", "created", "running", "removed"}
    /\ agent \in {"none", "new", "starting", "running", "listed", "ended",
                  "deleted", "done"}
    /\ process \in {"none", "alive", "dead"}
    /\ processes = {} \/ processes = {"ssh-agent"}
    /\ reference => container \in {"running", "removed"} \/ tempDir
    /\ owner = "create" => ~reference

Listed == listed \in 0 .. 1

LEMMA FlagsKept == Flags /\ [Next]_vars => Flags'
<1> SUFFICES ASSUME Flags, [Next]_vars PROVE Flags'
  OBVIOUS
<1> USE DEF given, ownerVars, hostVars, agentVars, Flags
<1>1. CASE Cancel
  BY <1>1 DEF Cancel
<1>2. CASE CreateContainer
  <2>1. baseDir' \in {TRUE, baseDir} /\ reference' \in {TRUE, reference}
    BY <1>2 DEF CreateContainer
  <2> QED
    BY <1>2, <2>1 DEF CreateContainer
<1>3. CASE CreateBox
  BY <1>3 DEF CreateBox
<1>4. CASE MakeDirs
  BY <1>4 DEF MakeDirs
<1>5. CASE StartAgent
  BY <1>5 DEF StartAgent
<1>6. CASE AwaitAgent
  BY <1>6 DEF AwaitAgent
<1>7. CASE SetUp
  BY <1>7 DEF SetUp
<1>8. CASE DestroyNothing
  BY <1>8 DEF DestroyNothing
<1>9. CASE RemoveHostDir
  BY <1>9 DEF RemoveHostDir
<1>10. CASE RemoveContainer
  BY <1>10 DEF RemoveContainer
<1>11. CASE WaitAgentDocker
  BY <1>11 DEF WaitAgentDocker
<1>12. CASE ListSize
  BY <1>12 DEF ListSize
<1>13. CASE KillListed
  BY <1>13 DEF KillListed
<1>14. CASE WaitAgentShell
  BY <1>14 DEF WaitAgentShell
<1>15. CASE RemoveBaseDir
  BY <1>15 DEF RemoveBaseDir
<1>16. CASE AgentBegin
  BY <1>16 DEF AgentBegin
<1>17. CASE AgentStart
  BY <1>17 DEF AgentStart
<1>18. CASE AgentPut
  BY <1>18 DEF AgentPut
<1>19. CASE AgentEnds
  BY <1>19 DEF AgentEnds
<1>20. CASE AgentDelete
  BY <1>20 DEF AgentDelete
<1>21. CASE AgentDone
  BY <1>21 DEF AgentDone
<1>22. CASE AgentSpeaks
  BY <1>22 DEF AgentSpeaks
<1>23. CASE AgentCrashes
  BY <1>23 DEF AgentCrashes
<1>24. CASE AgentLost
  BY <1>24 DEF AgentLost
<1>25. CASE UNCHANGED vars
  BY <1>25 DEF vars
<1> QED
  BY <1>1, <1>2, <1>3, <1>4, <1>5, <1>6, <1>7, <1>8, <1>9, <1>10, <1>11,
     <1>12, <1>13, <1>14, <1>15, <1>16, <1>17, <1>18, <1>19, <1>20,
     <1>21, <1>22, <1>23, <1>24, <1>25
  DEF Next, Serve, Destroy, Agent, Over

LEMMA PlacesKept == Flags /\ Places /\ [Next]_vars => Places'
<1> SUFFICES ASSUME Flags, Places, [Next]_vars PROVE Places'
  OBVIOUS
<1> USE DEF given, ownerVars, hostVars, agentVars, Flags, Places
<1>1. CASE Cancel
  BY <1>1 DEF Cancel
<1>2. CASE CreateContainer
  <2>1. \/ container' = "running" /\ owner' = "mkdir"
        \/ /\ container' \in {"none", "created", "running"}
           /\ owner' = "failed" /\ reference' = reference
    BY <1>2 DEF CreateContainer
  <2>2. UNCHANGED <<mode, agent, process, processes, tempDir>>
    BY <1>2 DEF CreateContainer
  <2>3. ~reference
    BY <1>2 DEF CreateContainer
  <2> QED
    BY <2>1, <2>2, <2>3
<1>3. CASE CreateBox
  BY <1>3 DEF CreateBox
<1>4. CASE MakeDirs
  BY <1>4 DEF MakeDirs
<1>5. CASE StartAgent
  BY <1>5 DEF StartAgent
<1>6. CASE AwaitAgent
  BY <1>6 DEF AwaitAgent
<1>7. CASE SetUp
  BY <1>7 DEF SetUp
<1>8. CASE DestroyNothing
  BY <1>8 DEF DestroyNothing
<1>9. CASE RemoveHostDir
  BY <1>9 DEF RemoveHostDir
<1>10. CASE RemoveContainer
  BY <1>10 DEF RemoveContainer
<1>11. CASE WaitAgentDocker
  BY <1>11 DEF WaitAgentDocker
<1>12. CASE ListSize
  BY <1>12 DEF ListSize
<1>13. CASE KillListed
  BY <1>13 DEF KillListed
<1>14. CASE WaitAgentShell
  BY <1>14 DEF WaitAgentShell
<1>15. CASE RemoveBaseDir
  BY <1>15 DEF RemoveBaseDir
<1>16. CASE AgentBegin
  BY <1>16 DEF AgentBegin
<1>17. CASE AgentStart
  BY <1>17 DEF AgentStart
<1>18. CASE AgentPut
  BY <1>18 DEF AgentPut
<1>19. CASE AgentEnds
  BY <1>19 DEF AgentEnds
<1>20. CASE AgentDelete
  BY <1>20 DEF AgentDelete
<1>21. CASE AgentDone
  BY <1>21 DEF AgentDone
<1>22. CASE AgentSpeaks
  BY <1>22 DEF AgentSpeaks
<1>23. CASE AgentCrashes
  BY <1>23 DEF AgentCrashes
<1>24. CASE AgentLost
  BY <1>24 DEF AgentLost
<1>25. CASE UNCHANGED vars
  BY <1>25 DEF vars
<1> QED
  BY <1>1, <1>2, <1>3, <1>4, <1>5, <1>6, <1>7, <1>8, <1>9, <1>10, <1>11,
     <1>12, <1>13, <1>14, <1>15, <1>16, <1>17, <1>18, <1>19, <1>20,
     <1>21, <1>22, <1>23, <1>24, <1>25
  DEF Next, Serve, Destroy, Agent, Over

LEMMA ListedKept == Places /\ Listed /\ [Next]_vars => Listed'
<1> SUFFICES ASSUME Places, Listed, [Next]_vars PROVE Listed'
  OBVIOUS
<1> USE DEF given, ownerVars, hostVars, agentVars, Listed
<1>1. CASE Cancel
  BY <1>1 DEF Cancel
<1>2. CASE CreateContainer
  BY <1>2 DEF CreateContainer
<1>3. CASE CreateBox
  BY <1>3 DEF CreateBox
<1>4. CASE MakeDirs
  BY <1>4 DEF MakeDirs
<1>5. CASE StartAgent
  BY <1>5 DEF StartAgent
<1>6. CASE AwaitAgent
  BY <1>6 DEF AwaitAgent
<1>7. CASE SetUp
  BY <1>7 DEF SetUp
<1>8. CASE DestroyNothing
  BY <1>8 DEF DestroyNothing
<1>9. CASE RemoveHostDir
  BY <1>9 DEF RemoveHostDir
<1>10. CASE RemoveContainer
  BY <1>10 DEF RemoveContainer
<1>11. CASE WaitAgentDocker
  BY <1>11 DEF WaitAgentDocker
<1>12. CASE ListSize
  <2>1. Cardinality(processes) \in 0 .. 1
    <3>1. Cardinality({}) = 0 /\ Cardinality({"ssh-agent"}) = 1
      BY FS_EmptySet, FS_Singleton
    <3>2. CASE processes = {}
      BY <3>1, <3>2
    <3>3. CASE processes = {"ssh-agent"}
      BY <3>1, <3>3
    <3> QED
      BY <3>2, <3>3 DEF Places
  <2> QED
    BY <1>12, <2>1 DEF ListSize
<1>13. CASE KillListed
  BY <1>13 DEF KillListed
<1>14. CASE WaitAgentShell
  BY <1>14 DEF WaitAgentShell
<1>15. CASE RemoveBaseDir
  BY <1>15 DEF RemoveBaseDir
<1>16. CASE AgentBegin
  BY <1>16 DEF AgentBegin
<1>17. CASE AgentStart
  BY <1>17 DEF AgentStart
<1>18. CASE AgentPut
  BY <1>18 DEF AgentPut
<1>19. CASE AgentEnds
  BY <1>19 DEF AgentEnds
<1>20. CASE AgentDelete
  BY <1>20 DEF AgentDelete
<1>21. CASE AgentDone
  BY <1>21 DEF AgentDone
<1>22. CASE AgentSpeaks
  BY <1>22 DEF AgentSpeaks
<1>23. CASE AgentCrashes
  BY <1>23 DEF AgentCrashes
<1>24. CASE AgentLost
  BY <1>24 DEF AgentLost
<1>25. CASE UNCHANGED vars
  BY <1>25 DEF vars
<1> QED
  BY <1>1, <1>2, <1>3, <1>4, <1>5, <1>6, <1>7, <1>8, <1>9, <1>10, <1>11,
     <1>12, <1>13, <1>14, <1>15, <1>16, <1>17, <1>18, <1>19, <1>20,
     <1>21, <1>22, <1>23, <1>24, <1>25
  DEF Next, Serve, Destroy, Agent, Over

LEMMA TypeInvariance == Spec => [](Flags /\ Places /\ Listed)
<1>1. Init => Flags /\ Places
  BY DEF Init, Flags, Places
<1>2. Init => Listed
  BY DEF Init, Listed
<1> QED
  BY <1>1, <1>2, FlagsKept, PlacesKept, ListedKept, PTL DEF Spec

(* Every variable of a sidecar keeps its type, and there is something to   *)
(* destroy when the field container is set.                                *)
THEOREM TypeCorrect == Spec => []TypeOK
<1>1. Flags /\ Places /\ Listed => TypeOK
  <2> SUFFICES ASSUME Flags, Places, Listed PROVE TypeOK
    OBVIOUS
  <2>1. processes \in SUBSET {"ssh-agent"}
    BY DEF Places
  <2> QED
    BY <2>1 DEF Flags, Places, Listed, TypeOK
<1> QED
  BY <1>1, TypeInvariance, PTL

-----------------------------------------------------------------------------
(* The ssh-agent.                                                          *)

(* The process lives inside the goroutine that executes it, except that    *)
(* Exec of docker may give up on it, and inside the container.             *)
AgentInv ==
    /\ agent \in {"none", "new", "starting"} => process = "none"
    /\ mode = "shell" /\ agent \in {"ended", "deleted", "done"} => process # "alive"
    /\ container = "removed" => process # "alive"
    /\ owner \in {"create", "mkdir", "agent"} => agent = "none"
    /\ owner = "await" => agent # "none"
    /\ ~reference => agent = "none"
    /\ owner \in {"mkdir", "agent", "await"} => reference
    /\ ~sshAgent => agent = "none" \/ owner = "await"
    /\ mode = "docker" /\ owner = "wait" => container = "removed"
    /\ owner = "remove" => mode = "shell" /\ agent \in {"none", "done"}
    /\ mode = "shell" => container # "removed"
    /\ mode = "docker" => processes = {}
    /\ processes # {} => agent \in {"listed", "ended"}
    /\ container = "removed" => owner \in {"wait", "gone", "crashed"}
    /\ owner = "kill" => mode = "shell"
    /\ owner = "destroy" => mode = "docker"
    /\ AgentReaped

LEMMA AgentInductive == Flags /\ Places /\ AgentInv /\ [Next]_vars => AgentInv'
<1> SUFFICES ASSUME Flags, Places, AgentInv, [Next]_vars PROVE AgentInv'
  OBVIOUS
<1>a. mode = "docker" \/ mode = "shell"
  BY SidecarAssumption DEF Places
<1> USE <1>a DEF given, ownerVars, hostVars, agentVars, Flags, Places, AgentInv, AgentReaped,
               OverForOwner
<1>1. CASE Cancel
  BY <1>1 DEF Cancel
<1>2. CASE CreateContainer
  BY <1>2 DEF CreateContainer
<1>3. CASE CreateBox
  BY <1>3 DEF CreateBox
<1>4. CASE MakeDirs
  BY <1>4 DEF MakeDirs
<1>5. CASE StartAgent
  BY <1>5 DEF StartAgent
<1>6. CASE AwaitAgent
  BY <1>6 DEF AwaitAgent
<1>7. CASE SetUp
  BY <1>7 DEF SetUp
<1>8. CASE DestroyNothing
  BY <1>8 DEF DestroyNothing
<1>9. CASE RemoveHostDir
  BY <1>9 DEF RemoveHostDir
<1>10. CASE RemoveContainer
  BY <1>10 DEF RemoveContainer
<1>11. CASE WaitAgentDocker
  BY <1>11 DEF WaitAgentDocker
<1>12. CASE ListSize
  BY <1>12 DEF ListSize
<1>13. CASE KillListed
  BY <1>13 DEF KillListed
<1>14. CASE WaitAgentShell
  BY <1>14 DEF WaitAgentShell
<1>15. CASE RemoveBaseDir
  BY <1>15 DEF RemoveBaseDir
<1>16. CASE AgentBegin
  BY <1>16 DEF AgentBegin
<1>17. CASE AgentStart
  BY <1>17 DEF AgentStart
<1>18. CASE AgentPut
  BY <1>18 DEF AgentPut
<1>19. CASE AgentEnds
  BY <1>19 DEF AgentEnds
<1>20. CASE AgentDelete
  BY <1>20 DEF AgentDelete
<1>21. CASE AgentDone
  BY <1>21 DEF AgentDone
<1>22. CASE AgentSpeaks
  BY <1>22 DEF AgentSpeaks
<1>23. CASE AgentCrashes
  BY <1>23 DEF AgentCrashes
<1>24. CASE AgentLost
  BY <1>24 DEF AgentLost
<1>25. CASE UNCHANGED vars
  BY <1>25 DEF vars
<1> QED
  BY <1>1, <1>2, <1>3, <1>4, <1>5, <1>6, <1>7, <1>8, <1>9, <1>10, <1>11,
     <1>12, <1>13, <1>14, <1>15, <1>16, <1>17, <1>18, <1>19, <1>20,
     <1>21, <1>22, <1>23, <1>24, <1>25
  DEF Next, Serve, Destroy, Agent, Over

(* Destroy leaves no ssh-agent behind, and no goroutine that executes one, *)
(* wherever Serve has given up.                                            *)
THEOREM AgentIsReaped == Spec => []AgentReaped
<1>1. Init => AgentInv
  BY DEF Init, AgentInv, AgentReaped
<1>2. AgentInv => AgentReaped
  BY DEF AgentInv
<1> QED
  BY <1>1, <1>2, TypeInvariance, AgentInductive, PTL DEF Spec
-----------------------------------------------------------------------------
(* What a call of the owner can be stuck in.                               *)

(* Where a goroutine stands, it need not wait for another one; and what    *)
(* the ssh-agent does in any case: its first line, and its end when the    *)
(* context it was started with is done.                                    *)
OwnerCanMove ==
    \/ owner \in {"create", "mkdir", "agent", "setup", "destroy", "kill",
                  "remove"}
    \/ owner = "await" /\ (ctxDone \/ started \/ failed)
    \/ owner = "wait" /\ (~sshAgent \/ agent = "done")

AgentCanMove ==
    \/ agent \in {"new", "starting", "ended", "deleted"}
    \/ agent = "running" /\ mode = "shell"
    \/ /\ process = "dead"
       /\ agent = IF mode = "shell" THEN "listed" ELSE "running"

ProcessMoves ==
    /\ process = "alive"
    /\ \/ agent \in {"running", "listed"} /\ owner = "await" /\ ~started
       \/ mode = "shell" /\ ctxDone

(* Serve and Destroy are not held up by an ssh-agent that gives no answer, *)
(* except in mode shell by one that Destroy has not killed, as long as     *)
(* nobody cancels the pipeline.                                            *)
StuckOnlyIfMissed ==
    owner \notin {"served", "failed", "gone", "crashed"} =>
        \/ OwnerCanMove \/ AgentCanMove \/ ProcessMoves
        \/ /\ mode = "shell" /\ owner = "wait" /\ ~ctxDone
           /\ agent = "listed" /\ process = "alive"

(* A goroutine that has ended before the owner has heard from it has left  *)
(* an error, unless the context is done.                                   *)
AnswerInv ==
    /\ owner = "await" /\ agent = "done" => failed \/ ctxDone
    /\ agent \in {"running", "listed"} => process # "none"
    /\ agent = "listed" => mode = "shell"
    /\ sshAgent => agent # "none"

LEMMA AnswerInductive ==
    Flags /\ Places /\ AgentInv /\ AnswerInv /\ [Next]_vars => AnswerInv'
<1> SUFFICES ASSUME Flags, Places, AgentInv, AnswerInv, [Next]_vars
             PROVE  AnswerInv'
  OBVIOUS
<1> USE DEF given, ownerVars, hostVars, agentVars, Flags, Places, AnswerInv,
            OverForOwner
<1>1. CASE Cancel
  BY <1>1 DEF Cancel
<1>2. CASE Serve
  <2>1. CASE AwaitAgent
    BY <2>1 DEF AwaitAgent, AgentInv
  <2>2. CASE StartAgent
    BY <2>2 DEF StartAgent, AgentInv
  <2>3. CASE CreateContainer \/ CreateBox \/ MakeDirs \/ SetUp
    <3>1. UNCHANGED <<mode, ctxDone, sshAgent, agentVars>> /\ owner' # "await"
      BY <2>3 DEF CreateContainer, CreateBox, MakeDirs, SetUp
    <3> QED
      BY <3>1
  <2> QED
    BY <1>2, <2>1, <2>2, <2>3 DEF Serve
<1>3. CASE Destroy
  <2>1. /\ UNCHANGED <<mode, sshAgent, agent>> /\ owner' # "await"
        /\ process # "none" => process' # "none"
    <3>1. CASE DestroyNothing \/ RemoveHostDir \/ WaitAgentDocker
      BY <3>1 DEF DestroyNothing, RemoveHostDir, WaitAgentDocker
    <3>2. CASE RemoveContainer
      BY <3>2 DEF RemoveContainer
    <3>3. CASE ListSize \/ WaitAgentShell \/ RemoveBaseDir
      BY <3>3 DEF ListSize, WaitAgentShell, RemoveBaseDir
    <3>4. CASE KillListed
      BY <3>4 DEF KillListed, AgentInv
    <3> QED
      BY <1>3, <3>1, <3>2, <3>3, <3>4 DEF Destroy
  <2> QED
    BY <2>1
<1>4. CASE Agent
  BY <1>4 DEF Agent, AgentBegin, AgentStart, AgentPut, AgentEnds,
              AgentDelete, AgentDone
<1>5. CASE AgentSpeaks
  BY <1>5 DEF AgentSpeaks
<1>6. CASE AgentCrashes
  BY <1>6 DEF AgentCrashes
<1>7. CASE AgentLost
  BY <1>7 DEF AgentLost
<1>8. CASE UNCHANGED vars
  BY <1>8 DEF vars
<1> QED
  BY <1>1, <1>2, <1>3, <1>4, <1>5, <1>6, <1>7, <1>8 DEF Next, Over

(* The select of startSshAgent and the wait of Destroy get their answer,   *)
(* however far the ssh-agent has got and whoever has ended it, unless      *)
(* List has missed it and the context is not done.                         *)
THEOREM CallsAreAnswered == Spec => []StuckOnlyIfMissed
<1>1. Init => AgentInv /\ AnswerInv
  BY DEF Init, AgentInv, AnswerInv, AgentReaped
<1>2. Flags /\ Places /\ AgentInv /\ AnswerInv => StuckOnlyIfMissed
  <2> SUFFICES ASSUME Flags, Places, AgentInv, AnswerInv,
                      owner \in {"await", "wait"}, ~OwnerCanMove,
                      ~AgentCanMove, ~ProcessMoves
               PROVE  /\ mode = "shell" /\ owner = "wait" /\ ~ctxDone
                      /\ agent = "listed" /\ process = "alive"
    BY DEF StuckOnlyIfMissed, OwnerCanMove, Flags, Places
  <2>1. mode = "docker" \/ mode = "shell"
    BY SidecarAssumption DEF Places
  <2>2. agent \in {"running", "listed"}
    <3>1. agent # "none"
      BY DEF OwnerCanMove, AgentInv, AnswerInv
    <3>2. agent # "done"
      BY DEF OwnerCanMove, AnswerInv
    <3> QED
      BY <3>1, <3>2 DEF Flags, Places, AgentCanMove
  <2>3. process = "alive"
    BY <2>1, <2>2 DEF Flags, Places, AgentCanMove, AnswerInv
  <2>4. owner = "wait"
    BY <2>2, <2>3 DEF ProcessMoves, OwnerCanMove
  <2>5. mode = "shell"
    BY <2>1, <2>3, <2>4 DEF AgentInv
  <2> QED
    BY <2>2, <2>3, <2>4, <2>5 DEF AgentCanMove, ProcessMoves
<1> QED
  BY <1>1, <1>2, TypeInvariance, AgentInductive, AnswerInductive, PTL DEF Spec
=============================================================================
