--------------------------- MODULE PipelineProofs ---------------------------
(***************************************************************************)
(* Proofs about module Pipeline, for every list of jobs and any number of  *)
(* updates that fail.                                                      *)
(***************************************************************************)
EXTENDS Pipeline, WellFoundedInduction, TLAPS

-----------------------------------------------------------------------------
(* Type correctness.                                                       *)

LocalTypes ==
    /\ stage \in Layouts
    /\ parentDone \in BOOLEAN /\ ctxDone \in BOOLEAN
    /\ main \in {"register", "prepare", "spawn", "wait", "finish", "fail",
                 "destroy", "done"}
    /\ current \in Jobs
    /\ once \in Jobs \cup {0} /\ onceFail \in BOOLEAN
    /\ pos \in Jobs \cup {0}
    /\ cond \in 0 .. 2
    /\ config \in {"zero", "partial", "whole"}
    /\ sidecar \in {"none", "built", "served", "destroyed"}

(* a job reports what processJob has returned *)
JobTypes ==
    /\ job \in [Jobs -> {"none", "begin", "serve", "read", "signal", "wait",
                         "lookup", "commands", "report", "once", "fail",
                         "done"}]
    /\ outcome \in [Jobs -> {"none", "SUCCESS", "FAILED", "CANCELED"}]
    /\ err \in [Jobs -> {"none", "canceled", "other"}]
    /\ \A j \in Jobs : job[j] = "report" => outcome[j] # "none"

Statuses == Final \cup {"PENDING", "RUNNING"}

ServerTypes ==
    /\ report \in [Jobs \cup {0} -> Statuses]
    /\ lost \in SUBSET (Jobs \cup {0})
    /\ faults \in 0 .. MaxFaults

TypeInv == LocalTypes /\ JobTypes /\ ServerTypes

LEMMA JobsAreNumbers ==
    ASSUME stage \in Layouts
    PROVE  Jobs \subseteq Nat \ {0} /\ 1 \in Jobs
BY PipelineAssumption DEF Jobs

(* The list of jobs is given once and for all.                             *)
LEMMA ListIsFixed ==
    ASSUME [Next]_vars
    PROVE  stage' = stage /\ Jobs' = Jobs
<1>1. stage' = stage
  BY DEF Next, Run, Fail, Returned, Prompt, Slow, EndParent, Cancel, Register,
         PrepareVariables, Spawn, EndStage, Finish, Destroy, FailJob,
         FailPipeline, Begin, Serve, ReadConfig, Signal, Wait, Lookup,
         Commands, Report, OnceDo, vars
<1> QED
  BY <1>1 DEF Jobs

LEMMA PutKeepsTypes ==
    \A target \in Jobs \cup {0}, status \in Statuses, ok \in BOOLEAN :
        ServerTypes /\ Jobs' = Jobs /\ Put(target, status, ok) => ServerTypes'
<1> SUFFICES ASSUME NEW target \in Jobs \cup {0}, NEW status \in Statuses,
                    NEW ok \in BOOLEAN, ServerTypes, Jobs' = Jobs,
                    Put(target, status, ok)
             PROVE  ServerTypes'
  OBVIOUS
<1>1. report' = report \/ report' = [report EXCEPT ![target] = status]
  BY DEF Put
<1>2. report' \in [Jobs \cup {0} -> Statuses]
  BY <1>1 DEF ServerTypes
<1>3. CASE ok
  BY <1>2, <1>3 DEF Put, ServerTypes
<1>4. CASE ~ok
  <2>1. faults' \in 0 .. MaxFaults
    BY <1>4, PipelineAssumption DEF Put, ServerTypes
  <2>2. lost' \in SUBSET (Jobs \cup {0})
    BY <1>4 DEF Put, ServerTypes
  <2> QED
    BY <1>2, <2>1, <2>2 DEF ServerTypes
<1> QED
  BY <1>3, <1>4

LEMMA TypeInductive == TypeInv /\ [Next]_vars => TypeInv'
<1> SUFFICES ASSUME LocalTypes, JobTypes, ServerTypes, [Next]_vars
             PROVE  LocalTypes' /\ JobTypes' /\ ServerTypes'
  BY DEF TypeInv
<1>a. stage' = stage /\ Jobs' = Jobs
  BY ListIsFixed
<1>b. Jobs \subseteq Nat \ {0} /\ 1 \in Jobs
  BY JobsAreNumbers DEF LocalTypes
<1>c. {"RUNNING", "SUCCESS", "FAILED", "SKIPPED", "CANCELED"} \subseteq Statuses
  BY DEF Statuses, Final
<1> USE <1>a, <1>b DEF contexts, jobVars, failVars, fileVars, server
<1>1. CASE EndParent
  <2>1. LocalTypes'
    BY <1>1 DEF EndParent, LocalTypes
  <2>2. JobTypes'
    BY <1>1 DEF EndParent, JobTypes
  <2>3. ServerTypes'
    BY <1>1 DEF EndParent, ServerTypes
  <2> QED
    BY <2>1, <2>2, <2>3
<1>2. CASE Cancel
  <2>1. LocalTypes'
    BY <1>2 DEF Cancel, LocalTypes
  <2>2. JobTypes'
    BY <1>2 DEF Cancel, JobTypes
  <2>3. ServerTypes'
    BY <1>2 DEF Cancel, ServerTypes
  <2> QED
    BY <2>1, <2>2, <2>3
<1>3. CASE Register
  <2>1. LocalTypes'
    BY <1>3 DEF Register, LocalTypes, FailAll
  <2>2. JobTypes'
    BY <1>3 DEF Register, JobTypes
  <2>3. \E ok \in BOOLEAN : Put(0, "RUNNING", ok)
    BY <1>3 DEF Register
  <2>4. ServerTypes'
    BY <1>c, <2>3, PutKeepsTypes
  <2> QED
    BY <2>1, <2>2, <2>4
<1>4. CASE PrepareVariables
  <2>1. LocalTypes'
    BY <1>4 DEF PrepareVariables, LocalTypes, FailAll
  <2>2. JobTypes'
    BY <1>4 DEF PrepareVariables, JobTypes
  <2>3. ServerTypes'
    BY <1>4 DEF PrepareVariables, ServerTypes
  <2> QED
    BY <2>1, <2>2, <2>3
<1>5. CASE Spawn
  <2>1. LocalTypes'
    BY <1>5 DEF Spawn, LocalTypes
  <2>2. JobTypes'
    BY <1>5 DEF Spawn, JobTypes
  <2>3. ServerTypes'
    BY <1>5 DEF Spawn, ServerTypes
  <2> QED
    BY <2>1, <2>2, <2>3
<1>6. CASE EndStage
  <2>1. LocalTypes'
    BY <1>6 DEF EndStage, LocalTypes, LaterLeaders, Leaders
  <2>2. JobTypes'
    BY <1>6 DEF EndStage, JobTypes
  <2>3. ServerTypes'
    BY <1>6 DEF EndStage, ServerTypes
  <2> QED
    BY <2>1, <2>2, <2>3
<1>7. CASE Finish
  <2>1. LocalTypes'
    BY <1>7 DEF Finish, LocalTypes, FailAll
  <2>2. JobTypes'
    BY <1>7 DEF Finish, JobTypes
  <2>3. \E ok \in BOOLEAN : Put(0, "SUCCESS", ok)
    BY <1>7 DEF Finish
  <2>4. ServerTypes'
    BY <1>c, <2>3, PutKeepsTypes
  <2> QED
    BY <2>1, <2>2, <2>4
<1>8. CASE Destroy
  <2>1. LocalTypes'
    BY <1>8 DEF Destroy, LocalTypes
  <2>2. JobTypes'
    BY <1>8 DEF Destroy, JobTypes
  <2>3. ServerTypes'
    BY <1>8 DEF Destroy, ServerTypes
  <2> QED
    BY <2>1, <2>2, <2>3
<1>9. CASE FailJob
  <2>1. LocalTypes'
    BY <1>9 DEF FailJob, LocalTypes, PendingTargets, FailTargets
  <2>2. JobTypes'
    BY <1>9 DEF FailJob, JobTypes
  <2>3. \E j \in Jobs, ok \in BOOLEAN, status \in {"FAILED", "SKIPPED"} :
            Put(j, status, ok)
    BY <1>9 DEF FailJob, PendingTargets, FailTargets
  <2>4. ServerTypes'
    BY <1>c, <2>3, PutKeepsTypes
  <2> QED
    BY <2>1, <2>2, <2>4
<1>10. CASE FailPipeline
  <2>1. LocalTypes'
    BY <1>10 DEF FailPipeline, LocalTypes
  <2>2. JobTypes'
    BY <1>10 DEF FailPipeline, JobTypes
  <2>3. \E ok \in BOOLEAN : Put(0, "FAILED", ok)
    BY <1>10 DEF FailPipeline
  <2>4. ServerTypes'
    BY <1>c, <2>3, PutKeepsTypes
  <2> QED
    BY <2>1, <2>2, <2>4
<1>11. ASSUME NEW j \in Jobs, Begin(j)
      PROVE  LocalTypes' /\ JobTypes' /\ ServerTypes'
  <2>1. LocalTypes'
    BY <1>11 DEF Begin, LocalTypes
  <2>2. JobTypes'
    BY <1>11 DEF Begin, JobTypes, Goto, End, Errors
  <2>3. \E ok \in BOOLEAN : Put(j, "RUNNING", ok)
    BY <1>11 DEF Begin
  <2>4. ServerTypes'
    BY <1>c, <2>3, PutKeepsTypes
  <2> QED
    BY <2>1, <2>2, <2>4
<1>12. ASSUME NEW j \in Jobs, Serve(j)
      PROVE  LocalTypes' /\ JobTypes' /\ ServerTypes'
  <2>1. LocalTypes'
    BY <1>12 DEF Serve, LocalTypes
  <2>2. JobTypes'
    BY <1>12 DEF Serve, JobTypes, Goto, End, Errors
  <2>3. ServerTypes'
    BY <1>12 DEF Serve, ServerTypes
  <2> QED
    BY <2>1, <2>2, <2>3
<1>13. ASSUME NEW j \in Jobs, ReadConfig(j)
      PROVE  LocalTypes' /\ JobTypes' /\ ServerTypes'
  <2>1. LocalTypes'
    BY <1>13 DEF ReadConfig, LocalTypes
  <2>2. JobTypes'
    BY <1>13 DEF ReadConfig, JobTypes, Goto, End, Errors
  <2>3. ServerTypes'
    BY <1>13 DEF ReadConfig, ServerTypes
  <2> QED
    BY <2>1, <2>2, <2>3
<1>14. ASSUME NEW j \in Jobs, Signal(j)
      PROVE  LocalTypes' /\ JobTypes' /\ ServerTypes'
  <2>1. LocalTypes'
    BY <1>14 DEF Signal, LocalTypes
  <2>2. JobTypes'
    BY <1>14 DEF Signal, JobTypes, Goto, End, Errors
  <2>3. ServerTypes'
    BY <1>14 DEF Signal, ServerTypes
  <2> QED
    BY <2>1, <2>2, <2>3
<1>15. ASSUME NEW j \in Jobs, Wait(j)
      PROVE  LocalTypes' /\ JobTypes' /\ ServerTypes'
  <2>1. LocalTypes'
    BY <1>15 DEF Wait, LocalTypes
  <2>2. JobTypes'
    BY <1>15 DEF Wait, JobTypes, Goto, End, Errors
  <2>3. ServerTypes'
    BY <1>15 DEF Wait, ServerTypes
  <2> QED
    BY <2>1, <2>2, <2>3
<1>16. ASSUME NEW j \in Jobs, Lookup(j)
      PROVE  LocalTypes' /\ JobTypes' /\ ServerTypes'
  <2>1. LocalTypes'
    BY <1>16 DEF Lookup, LocalTypes
  <2>2. JobTypes'
    BY <1>16 DEF Lookup, JobTypes, Goto, End, Errors
  <2>3. ServerTypes'
    BY <1>16 DEF Lookup, ServerTypes
  <2> QED
    BY <2>1, <2>2, <2>3
<1>17. ASSUME NEW j \in Jobs, Commands(j)
      PROVE  LocalTypes' /\ JobTypes' /\ ServerTypes'
  <2>1. LocalTypes'
    BY <1>17 DEF Commands, LocalTypes
  <2>2. JobTypes'
    BY <1>17 DEF Commands, JobTypes, Goto, End, Errors
  <2>3. ServerTypes'
    BY <1>17 DEF Commands, ServerTypes
  <2> QED
    BY <2>1, <2>2, <2>3
<1>18. ASSUME NEW j \in Jobs, Report(j)
      PROVE  LocalTypes' /\ JobTypes' /\ ServerTypes'
  <2>1. LocalTypes'
    BY <1>18 DEF Report, LocalTypes
  <2>2. JobTypes'
    BY <1>18 DEF Report, JobTypes, Goto, End, Errors
  <2>3. \E ok \in BOOLEAN : Put(j, outcome[j], ok)
    BY <1>18 DEF Report
  <2>4. outcome[j] \in Statuses
    BY <1>18, <1>c DEF Report, JobTypes
  <2>5. ServerTypes'
    BY <2>3, <2>4, PutKeepsTypes
  <2> QED
    BY <2>1, <2>2, <2>5
<1>19. ASSUME NEW j \in Jobs, OnceDo(j)
      PROVE  LocalTypes' /\ JobTypes' /\ ServerTypes'
  <2>1. LocalTypes'
    BY <1>19 DEF OnceDo, LocalTypes
  <2>2. JobTypes'
    BY <1>19 DEF OnceDo, JobTypes, Goto, End, Errors
  <2>3. ServerTypes'
    BY <1>19 DEF OnceDo, ServerTypes
  <2> QED
    BY <2>1, <2>2, <2>3
<1>20. CASE UNCHANGED vars
  BY <1>20 DEF vars, LocalTypes, JobTypes, ServerTypes
<1> QED
  BY <1>1, <1>2, <1>3, <1>4, <1>5, <1>6, <1>7, <1>8, <1>9, <1>10, <1>11,
     <1>12, <1>13, <1>14, <1>15, <1>16, <1>17, <1>18, <1>19, <1>20
  DEF Next, Run, Fail, Prompt, Slow, Returned

LEMMA InitialTypes == Init => TypeInv
<1> SUFFICES ASSUME Init PROVE TypeInv
  OBVIOUS
<1>1. current \in Jobs
  BY PipelineAssumption DEF Init, Jobs
<1>2. LocalTypes
  <2>1. stage \in Layouts /\ parentDone \in BOOLEAN /\ ctxDone \in BOOLEAN
    BY DEF Init
  <2>2. /\ once \in Jobs \cup {0} /\ onceFail \in BOOLEAN
        /\ pos \in Jobs \cup {0}
    BY DEF Init
  <2>4. cond \in 0 .. 2
    BY DEF Init
  <2>3. /\ main = "register" /\ config = "zero" /\ sidecar = "none"
    BY DEF Init
  <2> QED
    BY <1>1, <2>1, <2>2, <2>3, <2>4 DEF LocalTypes
<1>3. JobTypes
  BY DEF Init, JobTypes
<1>4. ServerTypes
  BY PipelineAssumption DEF Init, ServerTypes, Statuses
<1> QED
  BY <1>2, <1>3, <1>4 DEF TypeInv

LEMMA TypeInvariance == Spec => []TypeInv
BY InitialTypes, TypeInductive, PTL DEF Spec

(* Every variable of the pipeline keeps its type.                          *)
THEOREM TypeCorrect == Spec => []TypeOK
<1>1. TypeInv => TypeOK
  BY DEF TypeInv, LocalTypes, JobTypes, ServerTypes, Statuses, TypeOK
<1> QED
  BY <1>1, TypeInvariance, PTL

-----------------------------------------------------------------------------
(* The order of the stages.                                                *)

LEMMA LeastNumber ==
    ASSUME NEW T, T \subseteq Nat, T # {}
    PROVE  \E x \in T : \A y \in T : x <= y
<1>1. \A a, b \in Nat : a < b => <<a, b>> \in OpToRel(<, Nat)
  BY Zenon DEF OpToRel
<1>2. \E x \in T : \A y \in T : <<y, x>> \notin OpToRel(<, Nat)
  BY NatLessThanWellFounded, WFMin, Zenon
<1>3. PICK x \in T : \A y \in T : <<y, x>> \notin OpToRel(<, Nat)
  BY <1>2, Zenon
<1>4. \A y \in T : ~ (y < x)
  BY <1>1, <1>3, Zenon
<1> QED
  BY <1>4

(* Every job has one leader, and the first job of the list is one.         *)
LeadersFit ==
    /\ Jobs \subseteq Nat \ {0} /\ Leaders \subseteq Jobs
    /\ \A l \in Leaders : l \in Jobs /\ l \in Nat \ {0}
    /\ \A j \in Jobs : /\ LeaderOf(j) \in Leaders
                       /\ LeaderOf(j) \in Nat \ {0}
                       /\ stage[LeaderOf(j)] = stage[j]
    /\ \A l \in Leaders, j \in Jobs : stage[l] = stage[j] => LeaderOf(j) = l
    /\ 1 \in Leaders

LEMMA LeadersExist ==
    ASSUME stage \in Layouts
    PROVE  LeadersFit
<1>1. Jobs \subseteq Nat \ {0} /\ 1 \in Jobs /\ Leaders \subseteq Jobs
  BY JobsAreNumbers DEF Leaders
<1>2. \A k, l \in Leaders : stage[k] = stage[l] => k = l
  BY <1>1, PipelineAssumption DEF Leaders, Jobs
<1>3. ASSUME NEW j \in Jobs
      PROVE  \E l \in Leaders : stage[l] = stage[j]
  <2>1. StageOf(j) \subseteq Nat /\ j \in StageOf(j)
    BY <1>1 DEF StageOf
  <2>2. PICK l \in StageOf(j) : \A i \in StageOf(j) : l <= i
    BY <2>1, LeastNumber
  <2>3. l \in Leaders
    BY <1>1, <2>2 DEF Leaders, StageOf, Jobs
  <2> QED
    BY <2>2, <2>3 DEF StageOf
<1>4. \A j \in Jobs : LeaderOf(j) \in Leaders /\ stage[LeaderOf(j)] = stage[j]
  <2> SUFFICES ASSUME NEW j \in Jobs
               PROVE  LeaderOf(j) \in Leaders /\ stage[LeaderOf(j)] = stage[j]
    OBVIOUS
  <2>1. PICK l \in Leaders : stage[l] = stage[j]
    BY <1>3
  <2> QED
    BY <2>1 DEF LeaderOf
<1>5. 1 \in Leaders
  BY <1>1 DEF Leaders
<1>6. \A l \in Leaders, j \in Jobs : stage[l] = stage[j] => LeaderOf(j) = l
  BY <1>2, <1>4
<1> QED
  BY <1>1, <1>4, <1>5, <1>6 DEF LeadersFit

(* Which stage is executed, and how far it is.                             *)
OrderInv ==
    /\ current \in Leaders
    /\ \A j \in Jobs :
          /\ job[j] # "none" => LeaderOf(j) <= current
          /\ LeaderOf(j) < current => job[j] = "done" /\ outcome[j] = "SUCCESS"
    /\ main \in {"register", "prepare", "spawn"} =>
           \A j \in Jobs : LeaderOf(j) = current => job[j] = "none"
    /\ main # "wait" => \A j \in Jobs : job[j] \in {"none", "done"}
    /\ main = "finish" =>
           \A j \in Jobs : job[j] = "done" /\ outcome[j] = "SUCCESS"

(* Who has failed: a job that ends without once.Do was successful.         *)
OnceInv ==
    /\ \A j \in Jobs :
          /\ job[j] = "report" /\ err[j] = "none" => outcome[j] = "SUCCESS"
          /\ job[j] = "done" /\ once = 0 => outcome[j] = "SUCCESS"
          /\ job[j] = "fail" => once = j
    /\ once # 0 =>
          /\ job[once] \in {"fail", "done"}
          /\ stage[once] = stage[current]
          /\ main \in {"wait", "destroy", "done"}
    /\ onceFail => once # 0 \/ main \in {"destroy", "done"}
    /\ onceFail /\ once # 0 => job[once] = "done"
    /\ once = 0 /\ main # "fail" => pos = 0 \/ main \in {"destroy", "done"}

LEMMA OrderInductive ==
    TypeInv /\ OrderInv /\ OnceInv /\ [Next]_vars => OrderInv' /\ OnceInv'
<1> SUFFICES ASSUME LocalTypes, JobTypes, OrderInv, OnceInv, [Next]_vars
             PROVE  OrderInv' /\ OnceInv'
  BY DEF TypeInv
<1>a. /\ stage' = stage /\ Jobs' = Jobs /\ Leaders' = Leaders
      /\ \A j : LeaderOf(j)' = LeaderOf(j)
  BY ListIsFixed DEF Leaders, LeaderOf
<1>b. LeadersFit
  BY LeadersExist DEF LocalTypes
<1> USE <1>a, <1>b
    DEF contexts, jobVars, failVars, fileVars, server, LocalTypes, JobTypes,
        LeadersFit, OrderInv, OnceInv
<1>1. CASE EndParent
  BY <1>1 DEF EndParent
<1>2. CASE Cancel
  BY <1>2 DEF Cancel
<1>3. CASE Register
  BY <1>3 DEF Register, FailAll
<1>4. CASE PrepareVariables
  BY <1>4 DEF PrepareVariables, FailAll
<1>5. CASE Spawn
  BY <1>5 DEF Spawn, StageOf
<1>6. CASE EndStage
  <2>1. \A j \in Jobs : LeaderOf(j) = current => job[j] = "done"
    BY <1>6 DEF EndStage, StageOf
  <2>2. CASE once # 0
    BY <1>6, <2>1, <2>2 DEF EndStage
  <2>3. CASE once = 0 /\ LaterLeaders = {}
    <3>1. \A j \in Jobs : ~ (LeaderOf(j) > current)
      BY <2>3 DEF LaterLeaders
    <3>2. \A j \in Jobs : job[j] = "done" /\ outcome[j] = "SUCCESS"
      BY <2>1, <2>3, <3>1
    <3> QED
      BY <1>6, <2>3, <3>2 DEF EndStage
  <2>4. CASE once = 0 /\ LaterLeaders # {}
    <3>1. /\ main' = "spawn" /\ main = "wait" /\ current' \in LaterLeaders
          /\ \A j \in LaterLeaders : current' <= j
          /\ UNCHANGED <<job, outcome, err, once, onceFail, pos>>
      BY <1>6, <2>4 DEF EndStage
    <3>2. current' \in Leaders /\ current' > current
      BY <3>1 DEF LaterLeaders
    <3>3. \A j \in Jobs : LeaderOf(j) < current' => LeaderOf(j) <= current
      BY <3>1, <3>2 DEF LaterLeaders
    <3>4. \A j \in Jobs : LeaderOf(j) <= current =>
                             job[j] = "done" /\ outcome[j] = "SUCCESS"
      BY <2>1, <2>4
    <3>5. \A j \in Jobs : job[j] \in {"none", "done"}
      BY <3>4
    <3> QED
      BY <2>4, <3>1, <3>2, <3>3, <3>4, <3>5
  <2> QED
    BY <2>2, <2>3, <2>4
<1>7. CASE Finish
  BY <1>7 DEF Finish, FailAll
<1>8. CASE Destroy
  BY <1>8 DEF Destroy
<1>9. CASE FailJob
  BY <1>9 DEF FailJob, PendingTargets, FailTargets, Failing
<1>10. CASE FailPipeline
  BY <1>10 DEF FailPipeline, Failing
<1>11. ASSUME NEW j \in Jobs, Begin(j) PROVE OrderInv' /\ OnceInv'
  BY <1>11 DEF Begin, Goto, End
<1>12. ASSUME NEW j \in Jobs, Serve(j) PROVE OrderInv' /\ OnceInv'
  BY <1>12 DEF Serve, Goto, End
<1>13. ASSUME NEW j \in Jobs, ReadConfig(j) PROVE OrderInv' /\ OnceInv'
  BY <1>13 DEF ReadConfig, Goto, End
<1>14. ASSUME NEW j \in Jobs, Signal(j) PROVE OrderInv' /\ OnceInv'
  BY <1>14 DEF Signal, Goto, End
<1>15. ASSUME NEW j \in Jobs, Wait(j) PROVE OrderInv' /\ OnceInv'
  BY <1>15 DEF Wait, Goto, End
<1>16. ASSUME NEW j \in Jobs, Lookup(j) PROVE OrderInv' /\ OnceInv'
  BY <1>16 DEF Lookup, Goto, End
<1>17. ASSUME NEW j \in Jobs, Commands(j) PROVE OrderInv' /\ OnceInv'
  BY <1>17 DEF Commands, Goto, End
<1>18. ASSUME NEW j \in Jobs, Report(j) PROVE OrderInv' /\ OnceInv'
  BY <1>18 DEF Report, Goto, End
<1>19. ASSUME NEW j \in Jobs, OnceDo(j) PROVE OrderInv' /\ OnceInv'
  BY <1>19 DEF OnceDo, Goto, End
<1>20. CASE UNCHANGED vars
  BY <1>20 DEF vars
<1> QED
  BY <1>1, <1>2, <1>3, <1>4, <1>5, <1>6, <1>7, <1>8, <1>9, <1>10, <1>11,
     <1>12, <1>13, <1>14, <1>15, <1>16, <1>17, <1>18, <1>19, <1>20
  DEF Next, Run, Fail, Prompt, Slow, Returned

LEMMA OrderInvariance == Spec => [](OrderInv /\ OnceInv)
<1>1. Init => OrderInv /\ OnceInv
  <2> SUFFICES ASSUME Init PROVE OrderInv /\ OnceInv
    OBVIOUS
  <2>1. LeadersFit
    BY LeadersExist DEF Init
  <2>2. \A j \in Jobs : LeaderOf(j) >= 1
    BY <2>1 DEF LeadersFit
  <2> QED
    BY <2>1, <2>2 DEF Init, OrderInv, OnceInv, LeadersFit
<1> QED
  BY <1>1, TypeInvariance, OrderInductive, PTL DEF Spec

(* runJobs never starts a job before all jobs of all earlier stages have   *)
(* succeeded, however task.Jobs mixes the stages.                          *)
THEOREM StagesInOrder == Spec => []StageOrder
<1>1. TypeInv /\ OrderInv => StageOrder
  <2> SUFFICES ASSUME TypeInv, OrderInv, NEW i \in Jobs, NEW j \in Jobs,
                      LeaderOf(i) < LeaderOf(j), job[j] # "none"
               PROVE  job[i] = "done" /\ outcome[i] = "SUCCESS"
    BY DEF StageOrder
  <2>1. LeadersFit
    BY LeadersExist DEF TypeInv, LocalTypes
  <2> QED
    BY <2>1 DEF OrderInv, LeadersFit
<1> QED
  BY <1>1, TypeInvariance, OrderInvariance, PTL

-----------------------------------------------------------------------------
(* The repository and the file.                                            *)

(* Only the first job touches sidecar, config and cond, and the others do  *)
(* not get past Wait before it has done so.                                *)
Awaiting == {"none", "begin", "serve", "read", "signal"}

RepoInv ==
    /\ \A j \in Jobs :
          /\ job[j] \in {"serve", "read", "signal"} => j = 1
          /\ job[j] \in {"lookup", "commands"} => cond # 0
          /\ job[j] = "commands" => config # "zero"
    /\ cond # 0 => job[1] \notin Awaiting
    /\ job[1] \in {"none", "begin", "serve"} => config = "zero" /\ sidecar = "none"
    /\ job[1] = "read" => sidecar = "served"
    /\ config # "zero" => sidecar \in {"served", "destroyed"}
    /\ sidecar = "destroyed" => main = "done"

LEMMA RepoInductive ==
    TypeInv /\ OrderInv /\ RepoInv /\ [Next]_vars => RepoInv'
<1> SUFFICES ASSUME LocalTypes, JobTypes, OrderInv, RepoInv, [Next]_vars
             PROVE  RepoInv'
  BY DEF TypeInv
<1>a. stage' = stage /\ Jobs' = Jobs
  BY ListIsFixed
<1>b. LeadersFit
  BY LeadersExist DEF LocalTypes
<1>c. Jobs \subseteq Nat \ {0} /\ 1 \in Jobs
  BY <1>b DEF LeadersFit
<1> USE <1>a, <1>c
    DEF contexts, jobVars, failVars, fileVars, server, LocalTypes, JobTypes,
        RepoInv, Awaiting
<1>1. CASE EndParent
  BY <1>1 DEF EndParent
<1>2. CASE Cancel
  BY <1>2 DEF Cancel
<1>3. CASE Register
  BY <1>3 DEF Register, FailAll
<1>4. CASE PrepareVariables
  BY <1>4 DEF PrepareVariables, FailAll
<1>5. CASE Spawn
  <2>1. \A j \in StageOf(current) : job[j] = "none"
    BY <1>5, <1>b DEF Spawn, OrderInv, StageOf, LeadersFit
  <2> QED
    BY <1>5, <2>1 DEF Spawn
<1>6. CASE EndStage
  BY <1>6 DEF EndStage
<1>7. CASE Finish
  BY <1>7 DEF Finish, FailAll
<1>8. CASE Destroy
  <2>1. \A j \in Jobs : job[j] \in {"none", "done"}
    BY <1>8 DEF Destroy, OrderInv
  <2> QED
    BY <1>8, <2>1 DEF Destroy
<1>9. CASE FailJob
  BY <1>9 DEF FailJob
<1>10. CASE FailPipeline
  BY <1>10 DEF FailPipeline
<1>11. ASSUME NEW j \in Jobs, Begin(j) PROVE RepoInv'
  BY <1>11 DEF Begin, Goto, End
<1>12. ASSUME NEW j \in Jobs, Serve(j) PROVE RepoInv'
  BY <1>12 DEF Serve, Goto, End
<1>13. ASSUME NEW j \in Jobs, ReadConfig(j) PROVE RepoInv'
  BY <1>13 DEF ReadConfig, Goto, End
<1>14. ASSUME NEW j \in Jobs, Signal(j) PROVE RepoInv'
  BY <1>14 DEF Signal, Goto, End
<1>15. ASSUME NEW j \in Jobs, Wait(j) PROVE RepoInv'
  BY <1>15 DEF Wait, Goto, End
<1>16. ASSUME NEW j \in Jobs, Lookup(j) PROVE RepoInv'
  BY <1>16 DEF Lookup, Goto, End
<1>17. ASSUME NEW j \in Jobs, Commands(j) PROVE RepoInv'
  BY <1>17 DEF Commands, Goto, End
<1>18. ASSUME NEW j \in Jobs, Report(j) PROVE RepoInv'
  BY <1>18 DEF Report, Goto, End
<1>19. ASSUME NEW j \in Jobs, OnceDo(j) PROVE RepoInv'
  BY <1>19 DEF OnceDo, Goto, End
<1>20. CASE UNCHANGED vars
  BY <1>20 DEF vars
<1> QED
  BY <1>1, <1>2, <1>3, <1>4, <1>5, <1>6, <1>7, <1>8, <1>9, <1>10, <1>11,
     <1>12, <1>13, <1>14, <1>15, <1>16, <1>17, <1>18, <1>19, <1>20
  DEF Next, Run, Fail, Prompt, Slow, Returned

LEMMA RepoInvariance == Spec => []RepoInv
<1>1. Init => RepoInv
  <2> SUFFICES ASSUME Init PROVE RepoInv
    OBVIOUS
  <2>1. 1 \in Jobs
    BY JobsAreNumbers DEF Init
  <2> QED
    BY <2>1 DEF Init, RepoInv, Awaiting
<1> QED
  BY <1>1, TypeInvariance, OrderInvariance, RepoInductive, PTL DEF Spec

(* No commands before the sidecar has cloned the repository or after       *)
(* destroy, although the jobs only wait for either signal.                 *)
THEOREM SidecarOutlives == Spec => []SidecarOutlivesJobs
<1>1. OrderInv /\ RepoInv => SidecarOutlivesJobs
  BY DEF OrderInv, RepoInv, SidecarOutlivesJobs
<1> QED
  BY <1>1, OrderInvariance, RepoInvariance, PTL

(* process.config is not written any more when a job has taken its part    *)
(* from it: the condition orders the two without a lock.                   *)
THEOREM ConfigIsStable == Spec => ConfigStable
<1>1. TypeInv /\ RepoInv /\ [Next]_vars
      => [(\E j \in Jobs : job[j] \in {"lookup", "commands"}) =>
              config' = config]_vars
  <2> SUFFICES ASSUME TypeInv, RepoInv, Next, NEW k \in Jobs,
                      job[k] \in {"lookup", "commands"}
               PROVE  config' = config
    OBVIOUS
  <2>1. job[1] # "read"
    BY DEF RepoInv, Awaiting
  <2>2. ASSUME NEW j \in Jobs, ReadConfig(j) PROVE FALSE
    BY <2>1, <2>2 DEF ReadConfig, RepoInv
  <2> QED
    BY <2>2
    DEF Next, Run, Fail, Returned, Prompt, Slow, EndParent, Cancel, Register,
        PrepareVariables, Spawn, EndStage, Finish, Destroy, FailJob,
        FailPipeline, Begin, Serve, Signal, Wait, Lookup, Commands, Report,
        OnceDo, vars, fileVars
<1> QED
  BY <1>1, TypeInvariance, RepoInvariance, PTL DEF Spec, ConfigStable

-----------------------------------------------------------------------------
(* What the server knows.                                                  *)

Targets == Jobs \cup {0}

(* the server has the end of it, or an update has failed *)
Reported(t) == report[t] \in Final \/ t \in lost

(* the jobs of the later stages when a job has failed *)
Later == {j \in Jobs : j > once /\ stage[j] # stage[once]}

ReportedInv ==
    /\ \A j \in Jobs : job[j] \in {"once", "fail", "done"} => Reported(j)
    /\ main = "fail" => \A j \in Jobs : j <= pos => Reported(j)
    /\ once # 0 /\ job[once] = "fail" =>
           \A j \in Later : j <= pos => Reported(j)
    /\ once # 0 /\ job[once] = "done" =>
           Reported(0) /\ \A j \in Later : Reported(j)
    /\ main \in {"destroy", "done"} /\ Contiguous => \A t \in Targets : Reported(t)

TruthInv ==
    /\ report[0] = "SUCCESS" => \A j \in Jobs : outcome[j] = "SUCCESS" /\ job[j] = "done"
    /\ Contiguous =>
           \A j \in Jobs : report[j] = "SKIPPED" => job[j] = "none" /\ once # 0

(* An update changes what it is about and nothing else, and if it fails    *)
(* that is remembered.                                                     *)
LEMMA PutReports ==
    ASSUME ServerTypes, NEW t \in Targets, NEW status \in Statuses,
           NEW ok \in BOOLEAN, Put(t, status, ok)
    PROVE  /\ \A u \in Targets \ {t} : report'[u] = report[u]
           /\ report'[t] \in {report[t], status}
           /\ ok => report'[t] = status
           /\ ~ok => t \in lost'
           /\ lost \subseteq lost'
BY DEF ServerTypes, Put, Targets

(* In a list of contiguous stages whatever belongs to a later stage stands *)
(* behind the failed job, and whatever stands behind belongs to it or to   *)
(* the same stage.                                                         *)
LEMMA LaterStages ==
    ASSUME LocalTypes, OrderInv, OnceInv, once # 0, Contiguous
    PROVE  \A j \in Jobs : j \in Later <=> LeaderOf(j) > current
<1>1. LeadersFit
  BY LeadersExist DEF LocalTypes
<1>2. once \in Jobs /\ LeaderOf(once) = current
  BY <1>1 DEF LocalTypes, OnceInv, OrderInv, LeadersFit
<1>3. ASSUME NEW j \in Jobs, j \in Later PROVE LeaderOf(j) > current
  <2>1. LeaderOf(j) >= current
    BY <1>1, <1>2, <1>3 DEF Contiguous, Later, LeadersFit
  <2>2. LeaderOf(j) # current
    BY <1>1, <1>2, <1>3 DEF Later, LeadersFit
  <2> QED
    BY <1>1, <1>2, <2>1, <2>2 DEF LeadersFit
<1>4. ASSUME NEW j \in Jobs, LeaderOf(j) > current PROVE j \in Later
  <2>1. stage[j] # stage[once] /\ j # once
    BY <1>1, <1>2, <1>4 DEF LeadersFit
  <2>2. ~ (j < once)
    BY <1>1, <1>2, <1>4 DEF Contiguous, LeadersFit
  <2> QED
    BY <1>1, <1>2, <2>1, <2>2 DEF Later, LeadersFit
<1> QED
  BY <1>3, <1>4

LEMMA ReportedInductive ==
    TypeInv /\ OrderInv /\ OnceInv /\ ReportedInv /\ [Next]_vars => ReportedInv'
<1> SUFFICES ASSUME TypeInv, LocalTypes, JobTypes, ServerTypes, OrderInv,
                    OnceInv, ReportedInv, [Next]_vars
             PROVE  ReportedInv'
  BY DEF TypeInv
<1>a. /\ stage' = stage /\ Jobs' = Jobs /\ Targets' = Targets
      /\ Contiguous' = Contiguous
  BY ListIsFixed DEF Targets, Contiguous, LeaderOf, Leaders
<1>b. LeadersFit
  BY LeadersExist DEF LocalTypes
<1>c. /\ Jobs \subseteq Nat \ {0} /\ Jobs \subseteq Targets /\ 0 \in Targets
      /\ 0 \notin Jobs
  BY <1>b DEF LeadersFit, Targets
<1>d. /\ {"RUNNING", "SUCCESS", "FAILED", "SKIPPED", "CANCELED"} \subseteq Statuses
      /\ {"SUCCESS", "FAILED", "SKIPPED", "CANCELED"} = Final
  BY DEF Statuses, Final
<1>e. ASSUME NEW t \in Targets, NEW status \in Statuses, NEW ok \in BOOLEAN,
             Put(t, status, ok)
      PROVE  /\ \A u \in Targets \ {t} : Reported(u) => Reported(u)'
             /\ status \in Final \/ ~ok => Reported(t)'
  BY <1>e, PutReports DEF Reported
<1>f. \A j \in Jobs : job[j] \notin {"none", "done"} =>
          main = "wait" /\ LeaderOf(j) = current
  BY <1>b DEF OrderInv, LeadersFit
<1>g. once # 0 => \A j \in Later : LeaderOf(j) # current
  BY <1>b DEF OnceInv, Later, LeadersFit, OrderInv, LocalTypes
<1>h. ASSUME UNCHANGED <<report, lost>>
      PROVE  \A t \in Targets : Reported(t)' = Reported(t)
  BY <1>h DEF Reported
<1>i. once' = once => Later' = Later
  BY <1>a DEF Later
<1>j. Later \subseteq Jobs
  BY DEF Later
<1>k. ASSUME NEW j \in Jobs, NEW at, job[j] \notin {"fail", "done"},
             job' = [job EXCEPT ![j] = at], UNCHANGED <<main, once, pos>>,
             \A t \in Targets : Reported(t) => Reported(t)',
             at \in {"once", "fail", "done"} => Reported(j)'
      PROVE  ReportedInv'
  <2>1. once # 0 => once \in Jobs /\ once # j /\ job'[once] = job[once]
    BY <1>k DEF OnceInv, LocalTypes, JobTypes
  <2>2. \A i \in Jobs : i # j => job'[i] = job[i]
    BY <1>k DEF JobTypes
  <2>3. job'[j] = at
    BY <1>k DEF JobTypes
  <2>4. ASSUME NEW i \in Jobs, job'[i] \in {"once", "fail", "done"}
        PROVE  Reported(i)'
    BY <1>c, <1>k, <2>2, <2>3, <2>4 DEF ReportedInv
  <2>5. Later' = Later
    BY <1>i, <1>k
  <2> QED
    BY <1>a, <1>c, <1>j, <1>k, <2>1, <2>4, <2>5 DEF ReportedInv
<1> USE <1>a, <1>c DEF contexts, jobVars, failVars, fileVars, server
<1>1. CASE EndParent
  BY <1>1, <1>h, <1>i, <1>j DEF EndParent, ReportedInv
<1>2. CASE Cancel
  BY <1>2, <1>h, <1>i, <1>j DEF Cancel, ReportedInv
<1>3. CASE Register
  <2>1. PICK ok \in BOOLEAN :
            /\ Put(0, "RUNNING", ok)
            /\ main' = IF ok THEN "prepare" ELSE FailAll
    BY <1>3 DEF Register
  <2>2. once = 0 /\ pos = 0 /\ ~onceFail
    BY <1>3 DEF Register, OnceInv
  <2>3. \A j \in Jobs : Reported(j) => Reported(j)'
    BY <1>d, <1>e, <2>1
  <2> QED
    BY <1>3, <2>1, <2>2, <2>3 DEF Register, FailAll, ReportedInv
<1>4. CASE PrepareVariables
  <2>1. once = 0 /\ pos = 0 /\ ~onceFail
    BY <1>4 DEF PrepareVariables, OnceInv
  <2> QED
    BY <1>4, <1>h, <2>1 DEF PrepareVariables, FailAll, ReportedInv
<1>5. CASE Spawn
  <2>1. once = 0
    BY <1>5 DEF Spawn, OnceInv
  <2> QED
    BY <1>5, <1>h, <2>1 DEF Spawn, ReportedInv, JobTypes
<1>6. CASE EndStage
  <2>1. CASE once = 0
    BY <1>6, <1>h, <2>1 DEF EndStage, ReportedInv
  <2>2. CASE once # 0
    <3>1. \A j \in Jobs : LeaderOf(j) = current => job[j] = "done"
      BY <1>6, <1>b DEF EndStage, StageOf, LeadersFit
    <3>2. LeaderOf(once) = current /\ once \in Jobs
      BY <1>b, <2>2 DEF OnceInv, OrderInv, LocalTypes, LeadersFit
    <3>3. Reported(0) /\ \A j \in Later : Reported(j)
      BY <2>2, <3>1, <3>2 DEF ReportedInv
    <3>4. \A j \in Jobs : LeaderOf(j) <= current => job[j] = "done"
      BY <1>b, <3>1 DEF OrderInv, LeadersFit
    <3>5. ASSUME Contiguous, NEW j \in Jobs
          PROVE  j \in Later \/ LeaderOf(j) <= current
      <4>1. j \in Later <=> LeaderOf(j) > current
        BY <2>2, <3>5, LaterStages
      <4>2. LeaderOf(j) \in Nat /\ current \in Nat
        BY <1>b DEF LeadersFit, LocalTypes
      <4> QED
        BY <4>1, <4>2
    <3>6. Contiguous => \A t \in Targets : Reported(t)
      BY <3>3, <3>4, <3>5 DEF ReportedInv, Targets
    <3> QED
      BY <1>6, <1>h, <1>i, <1>j, <2>2, <3>6 DEF EndStage, ReportedInv
  <2> QED
    BY <2>1, <2>2
<1>7. CASE Finish
  <2>1. PICK ok \in BOOLEAN :
            /\ Put(0, "SUCCESS", ok)
            /\ main' = IF ok THEN "destroy" ELSE FailAll
    BY <1>7 DEF Finish
  <2>2. once = 0 /\ pos = 0 /\ ~onceFail /\ \A j \in Jobs : job[j] = "done"
    BY <1>7 DEF Finish, OnceInv, OrderInv
  <2>3. Reported(0)' /\ \A j \in Jobs : Reported(j) => Reported(j)'
    BY <1>d, <1>e, <2>1
  <2> QED
    BY <1>7, <2>1, <2>2, <2>3 DEF Finish, FailAll, ReportedInv, Targets
<1>8. CASE Destroy
  BY <1>8, <1>h, <1>i, <1>j DEF Destroy, ReportedInv
<1>9. CASE FailJob
  <2>1. PICK j \in PendingTargets, ok \in BOOLEAN :
            /\ \A i \in PendingTargets : j <= i
            /\ Put(j, IF main = "fail" THEN "FAILED" ELSE "SKIPPED", ok)
            /\ pos' = j
    BY <1>9 DEF FailJob
  <2>2. j \in FailTargets /\ j \in Jobs
    BY <2>1 DEF PendingTargets, FailTargets
  <2>3. \A t \in Targets : t = j \/ Reported(t) => Reported(t)'
    BY <1>d, <1>e, <2>1, <2>2
  <2>4. ASSUME NEW i \in FailTargets, i <= j, i \in Nat, pos \in Nat
        PROVE  i = j \/ i <= pos
    BY <2>1, <2>2, <2>4 DEF PendingTargets
  <2>5. pos \in Nat
    BY DEF LocalTypes
  <2>6. CASE main = "fail"
    <3>1. \A i \in Jobs : i <= j => Reported(i)'
      BY <2>3, <2>4, <2>5, <2>6 DEF FailTargets, ReportedInv
    <3> QED
      BY <1>9, <2>1, <2>3, <2>6, <3>1 DEF FailJob, ReportedInv, OnceInv
  <2>7. CASE main # "fail"
    <3>1. FailTargets = Later /\ once # 0 /\ job[once] = "fail"
      BY <1>9, <2>7 DEF FailJob, Failing, FailTargets, Later, OnceInv
    <3>2. \A i \in Later : i <= j => Reported(i)'
      BY <1>j, <2>3, <2>4, <2>5, <3>1 DEF ReportedInv
    <3>3. main \notin {"destroy", "done"} /\ once \in Jobs
      BY <1>f, <3>1 DEF LocalTypes
    <3> QED
      BY <1>9, <1>i, <1>j, <2>1, <2>3, <2>7, <3>1, <3>2, <3>3
      DEF FailJob, ReportedInv
  <2> QED
    BY <2>6, <2>7
<1>10. CASE FailPipeline
  <2>1. \E ok \in BOOLEAN : Put(0, "FAILED", ok)
    BY <1>10 DEF FailPipeline
  <2>2. Reported(0)' /\ \A j \in Jobs : Reported(j) => Reported(j)'
    BY <1>d, <1>e, <2>1
  <2>3. pos \in Nat
    BY DEF LocalTypes
  <2>4. \A j \in FailTargets : j \in Nat /\ j <= pos
    BY <1>10, <2>3 DEF FailPipeline, PendingTargets, FailTargets
  <2>5. CASE main = "fail"
    <3>1. \A t \in Targets : Reported(t)'
      BY <2>2, <2>4, <2>5 DEF FailTargets, ReportedInv, Targets
    <3> QED
      BY <1>10, <1>i, <1>j, <2>5, <3>1 DEF FailPipeline, ReportedInv
  <2>6. CASE main # "fail"
    <3>1. FailTargets = Later /\ once # 0 /\ job[once] = "fail"
      BY <1>10, <2>6 DEF FailPipeline, Failing, FailTargets, Later, OnceInv
    <3>2. \A j \in Later : Reported(j)'
      BY <1>j, <2>2, <2>4, <3>1 DEF ReportedInv
    <3>3. main \notin {"fail", "destroy", "done"} /\ once \in Jobs
      BY <1>f, <3>1 DEF LocalTypes
    <3>4. \A j \in Jobs : job'[j] \in {"once", "fail", "done"} =>
                             job[j] \in {"once", "fail", "done"}
      BY <1>10 DEF FailPipeline, JobTypes
    <3>5. job'[once] = "done" /\ once' = once
      BY <1>10, <3>1, <3>3 DEF FailPipeline, JobTypes
    <3> QED
      BY <1>10, <1>i, <1>j, <2>2, <2>6, <3>2, <3>3, <3>4, <3>5
      DEF FailPipeline, ReportedInv
  <2> QED
    BY <2>5, <2>6
<1>11. ASSUME NEW j \in Jobs, Begin(j) PROVE ReportedInv'
  <2>1. PICK ok \in BOOLEAN :
            /\ Put(j, "RUNNING", ok)
            /\ job' = [job EXCEPT ![j] =
                          IF ok THEN IF j = 1 THEN "serve" ELSE "wait" ELSE "once"]
    BY <1>11 DEF Begin, Goto
  <2>2. /\ main = "wait" /\ LeaderOf(j) = current
        /\ job[j] = "begin" /\ once # j
    BY <1>11, <1>f DEF Begin, OnceInv
  <2>3. /\ \A t \in Targets \ {j} : Reported(t) => Reported(t)'
        /\ ~ok => Reported(j)'
    BY <1>d, <1>e, <2>1
  <2>4. once # 0 => j \notin Later
    BY <1>g, <2>2
  <2> QED
    BY <1>11, <1>i, <1>j, <2>1, <2>2, <2>3, <2>4
    DEF Begin, ReportedInv, JobTypes, LocalTypes
<1>12. ASSUME NEW j \in Jobs, Serve(j) PROVE ReportedInv'
  BY <1>12, <1>h, <1>k DEF Serve, Goto
<1>13. ASSUME NEW j \in Jobs, ReadConfig(j) PROVE ReportedInv'
  BY <1>13, <1>h, <1>k DEF ReadConfig, Goto
<1>14. ASSUME NEW j \in Jobs, Signal(j) PROVE ReportedInv'
  BY <1>14, <1>h, <1>k DEF Signal, Goto
<1>15. ASSUME NEW j \in Jobs, Wait(j) PROVE ReportedInv'
  BY <1>15, <1>h, <1>k DEF Wait, Goto
<1>16. ASSUME NEW j \in Jobs, Lookup(j) PROVE ReportedInv'
  BY <1>16, <1>h, <1>k DEF Lookup, Goto
<1>17. ASSUME NEW j \in Jobs, Commands(j) PROVE ReportedInv'
  BY <1>17, <1>h, <1>k DEF Commands, Goto
<1>18. ASSUME NEW j \in Jobs, Report(j) PROVE ReportedInv'
  <2>1. PICK ok \in BOOLEAN : Put(j, outcome[j], ok)
    BY <1>18 DEF Report
  <2>2. outcome[j] \in Final /\ outcome[j] \in Statuses
    BY <1>18, <1>d DEF Report, JobTypes
  <2>3. \A t \in Targets : t = j \/ Reported(t) => Reported(t)'
    BY <1>e, <2>1, <2>2
  <2> QED
    BY <1>18, <1>k, <2>3 DEF Report, Goto
<1>19. ASSUME NEW j \in Jobs, OnceDo(j) PROVE ReportedInv'
  <2>1. main = "wait"
    BY <1>19, <1>f DEF OnceDo
  <2>2. CASE once = 0
    <3>1. /\ once' = j /\ pos' = 0 /\ job' = [job EXCEPT ![j] = "fail"]
          /\ main' = main
      BY <1>19, <2>1, <2>2 DEF OnceDo, OnceInv, Goto
    <3>2. Reported(j)
      BY <1>19 DEF OnceDo, ReportedInv
    <3>3. Later' \subseteq Jobs
      BY DEF Later
    <3> QED
      BY <1>19, <1>h, <2>1, <3>1, <3>2, <3>3 DEF OnceDo, ReportedInv, JobTypes
  <2>3. CASE once # 0
    BY <1>19, <1>h, <1>i, <1>j, <2>1, <2>3 DEF OnceDo, Goto, ReportedInv, JobTypes
  <2> QED
    BY <2>2, <2>3
<1>20. CASE UNCHANGED vars
  BY <1>20, <1>h, <1>i, <1>j DEF vars, ReportedInv
<1> QED
  BY <1>1, <1>2, <1>3, <1>4, <1>5, <1>6, <1>7, <1>8, <1>9, <1>10, <1>11,
     <1>12, <1>13, <1>14, <1>15, <1>16, <1>17, <1>18, <1>19, <1>20
  DEF Next, Run, Fail, Prompt, Slow, Returned

LEMMA ReportedInvariance == Spec => []ReportedInv
<1>1. Init => ReportedInv
  BY DEF Init, ReportedInv
<1> QED
  BY <1>1, TypeInvariance, OrderInvariance, ReportedInductive, PTL DEF Spec

LEMMA TruthInductive ==
    TypeInv /\ OrderInv /\ OnceInv /\ TruthInv /\ [Next]_vars => TruthInv'
<1> SUFFICES ASSUME TypeInv, LocalTypes, JobTypes, ServerTypes, OrderInv,
                    OnceInv, TruthInv, [Next]_vars
             PROVE  TruthInv'
  BY DEF TypeInv
<1>a. /\ stage' = stage /\ Jobs' = Jobs /\ Contiguous' = Contiguous
  BY ListIsFixed DEF Contiguous, LeaderOf, Leaders
<1>b. LeadersFit
  BY LeadersExist DEF LocalTypes
<1>c. /\ Jobs \subseteq Nat \ {0} /\ Jobs \subseteq Targets /\ 0 \in Targets
      /\ 0 \notin Jobs
  BY <1>b DEF LeadersFit, Targets
<1>d. {"RUNNING", "SUCCESS", "FAILED", "SKIPPED", "CANCELED"} \subseteq Statuses
  BY DEF Statuses, Final
<1>e. ASSUME NEW t \in Targets, NEW status \in Statuses, NEW ok \in BOOLEAN,
             Put(t, status, ok)
      PROVE  /\ \A u \in Targets \ {t} : report'[u] = report[u]
             /\ report'[t] \in {report[t], status}
  BY <1>e, PutReports
<1>k. ASSUME NEW j \in Jobs, NEW at, job[j] \notin {"none", "done"},
             job' = [job EXCEPT ![j] = at], once # 0 => once' # 0,
             \A i \in Jobs \ {j} : outcome'[i] = outcome[i],
             report'[0] = report[0],
             \A i \in Jobs : report'[i] = "SKIPPED" => report[i] = "SKIPPED"
      PROVE  TruthInv'
  <2>1. report[0] # "SUCCESS"
    BY <1>k DEF TruthInv
  <2>2. Contiguous => report[j] # "SKIPPED"
    BY <1>k DEF TruthInv
  <2>3. \A i \in Jobs : i # j => job'[i] = job[i]
    BY <1>k DEF JobTypes
  <2> QED
    BY <1>a, <1>k, <2>1, <2>2, <2>3 DEF TruthInv
<1>l. ASSUME NEW status \in Statuses \ {"SUCCESS"}, NEW ok \in BOOLEAN,
             Put(0, status, ok), UNCHANGED <<job, outcome, once>>
      PROVE  TruthInv'
  <2>1. report'[0] \in {report[0], status}
    BY <1>c, <1>e, <1>l
  <2>2. \A j \in Jobs : report'[j] = report[j]
    BY <1>c, <1>e, <1>l
  <2> QED
    BY <1>a, <1>l, <2>1, <2>2 DEF TruthInv
<1> USE <1>a, <1>c DEF contexts, jobVars, failVars, fileVars, server
<1>1. CASE EndParent
  BY <1>1 DEF EndParent, TruthInv
<1>2. CASE Cancel
  BY <1>2 DEF Cancel, TruthInv
<1>3. CASE Register
  BY <1>3, <1>d, <1>l DEF Register
<1>4. CASE PrepareVariables
  BY <1>4 DEF PrepareVariables, TruthInv
<1>5. CASE Spawn
  <2>1. once = 0 /\ current \in Jobs /\ StageOf(current) \subseteq Jobs
    BY <1>5 DEF Spawn, OnceInv, LocalTypes, StageOf
  <2>2. LeaderOf(current) = current
    BY <2>1, <1>b DEF OrderInv, LeadersFit
  <2>3. job[current] = "none"
    BY <1>5, <2>1, <2>2 DEF Spawn, OrderInv
  <2>4. report[0] # "SUCCESS"
    BY <2>1, <2>3 DEF TruthInv
  <2> QED
    BY <1>5, <2>1, <2>4 DEF Spawn, TruthInv
<1>6. CASE EndStage
  BY <1>6 DEF EndStage, TruthInv
<1>7. CASE Finish
  <2>1. PICK ok \in BOOLEAN : Put(0, "SUCCESS", ok)
    BY <1>7 DEF Finish
  <2>2. \A j \in Jobs : report'[j] = report[j]
    BY <1>d, <1>e, <2>1
  <2>3. \A j \in Jobs : outcome[j] = "SUCCESS" /\ job[j] = "done"
    BY <1>7 DEF Finish, OrderInv
  <2> QED
    BY <1>7, <2>2, <2>3 DEF Finish, TruthInv
<1>8. CASE Destroy
  BY <1>8 DEF Destroy, TruthInv
<1>9. CASE FailJob
  <2>1. PICK j \in PendingTargets, ok \in BOOLEAN :
            Put(j, IF main = "fail" THEN "FAILED" ELSE "SKIPPED", ok)
    BY <1>9 DEF FailJob
  <2>2. j \in FailTargets /\ j \in Jobs
    BY <2>1 DEF PendingTargets, FailTargets
  <2>3. /\ \A i \in Jobs \ {j} : report'[i] = report[i]
        /\ report'[0] = report[0]
        /\ report'[j] \in {report[j], IF main = "fail" THEN "FAILED" ELSE "SKIPPED"}
    BY <1>d, <1>e, <2>1, <2>2
  <2>4. ASSUME Contiguous, main # "fail"
        PROVE  job[j] = "none" /\ once # 0
    <3>1. j \in Later /\ once # 0
      BY <1>9, <2>2, <2>4 DEF FailJob, Failing, FailTargets, Later, OnceInv
    <3>2. LeaderOf(j) > current
      BY <2>2, <2>4, <3>1, LaterStages
    <3>3. LeaderOf(j) \in Nat /\ current \in Nat
      BY <1>b, <2>2 DEF LeadersFit, LocalTypes
    <3> QED
      BY <2>2, <3>1, <3>2, <3>3 DEF OrderInv
  <2> QED
    BY <1>9, <2>2, <2>3, <2>4 DEF FailJob, TruthInv
<1>10. CASE FailPipeline
  <2>1. PICK ok \in BOOLEAN : Put(0, "FAILED", ok)
    BY <1>10 DEF FailPipeline
  <2>2. /\ \A j \in Jobs : report'[j] = report[j]
        /\ report'[0] \in {report[0], "FAILED"}
    BY <1>d, <1>e, <2>1
  <2>3. \A j \in Jobs : job[j] \in {"none", "done"} => job'[j] = job[j]
    BY <1>10 DEF FailPipeline
  <2>4. outcome' = outcome /\ once' = once
    BY <1>10 DEF FailPipeline
  <2> QED
    BY <2>2, <2>3, <2>4 DEF TruthInv
<1>11. ASSUME NEW j \in Jobs, Begin(j) PROVE TruthInv'
  <2>1. PICK ok \in BOOLEAN :
            /\ Put(j, "RUNNING", ok)
            /\ job' = [job EXCEPT ![j] =
                          IF ok THEN IF j = 1 THEN "serve" ELSE "wait" ELSE "once"]
    BY <1>11 DEF Begin, Goto
  <2>2. /\ report'[0] = report[0]
        /\ \A i \in Jobs : report'[i] = "SKIPPED" => report[i] = "SKIPPED"
    BY <1>d, <1>e, <2>1
  <2>3. \A i \in Jobs \ {j} : outcome'[i] = outcome[i]
    BY <1>11 DEF Begin, End, JobTypes
  <2> QED
    BY <1>11, <1>k, <2>1, <2>2, <2>3 DEF Begin
<1>12. ASSUME NEW j \in Jobs, Serve(j) PROVE TruthInv'
  BY <1>12, <1>k DEF Serve, Goto
<1>13. ASSUME NEW j \in Jobs, ReadConfig(j) PROVE TruthInv'
  <2>1. \A i \in Jobs \ {j} : outcome'[i] = outcome[i]
    BY <1>13 DEF ReadConfig, End, JobTypes
  <2> QED
    BY <1>13, <1>k, <2>1 DEF ReadConfig, Goto
<1>14. ASSUME NEW j \in Jobs, Signal(j) PROVE TruthInv'
  <2>1. \A i \in Jobs \ {j} : outcome'[i] = outcome[i]
    BY <1>14 DEF Signal, JobTypes
  <2> QED
    BY <1>14, <1>k, <2>1 DEF Signal, Goto
<1>15. ASSUME NEW j \in Jobs, Wait(j) PROVE TruthInv'
  BY <1>15, <1>k DEF Wait, Goto
<1>16. ASSUME NEW j \in Jobs, Lookup(j) PROVE TruthInv'
  <2>1. \A i \in Jobs \ {j} : outcome'[i] = outcome[i]
    BY <1>16 DEF Lookup, End, JobTypes
  <2> QED
    BY <1>16, <1>k, <2>1 DEF Lookup, Goto
<1>17. ASSUME NEW j \in Jobs, Commands(j) PROVE TruthInv'
  <2>1. \A i \in Jobs \ {j} : outcome'[i] = outcome[i]
    BY <1>17 DEF Commands, End, JobTypes
  <2> QED
    BY <1>17, <1>k, <2>1 DEF Commands, Goto
<1>18. ASSUME NEW j \in Jobs, Report(j) PROVE TruthInv'
  <2>1. PICK ok \in BOOLEAN : Put(j, outcome[j], ok)
    BY <1>18 DEF Report
  <2>2. outcome[j] \in {"SUCCESS", "FAILED", "CANCELED"}
    BY <1>18 DEF Report, JobTypes
  <2>3. /\ report'[0] = report[0]
        /\ \A i \in Jobs : report'[i] = "SKIPPED" => report[i] = "SKIPPED"
    BY <1>d, <1>e, <2>1, <2>2
  <2> QED
    BY <1>18, <1>k, <2>3 DEF Report, Goto
<1>19. ASSUME NEW j \in Jobs, OnceDo(j) PROVE TruthInv'
  <2>1. once # 0 => once' # 0
    BY <1>19 DEF OnceDo
  <2> QED
    BY <1>19, <1>k, <2>1 DEF OnceDo, Goto
<1>20. CASE UNCHANGED vars
  BY <1>20 DEF vars, TruthInv
<1> QED
  BY <1>1, <1>2, <1>3, <1>4, <1>5, <1>6, <1>7, <1>8, <1>9, <1>10, <1>11,
     <1>12, <1>13, <1>14, <1>15, <1>16, <1>17, <1>18, <1>19, <1>20
  DEF Next, Run, Fail, Prompt, Slow, Returned

(* When Run has returned, the server knows the end of the pipeline and of  *)
(* every job whose updates went through, and nothing it was told is false, *)
(* whichever of the goroutines failed first and wherever process.fail      *)
(* stands while the others keep reporting.                                 *)
THEOREM ServerIsInformed == Spec => []ServerInformed
<1>1. Init => TruthInv
  BY DEF Init, TruthInv, Targets, Jobs
<1>2. Spec => []TruthInv
  BY <1>1, TypeInvariance, OrderInvariance, TruthInductive, PTL DEF Spec
<1>3. ReportedInv /\ TruthInv => ServerInformed
  BY DEF ReportedInv, TruthInv, ServerInformed, FinalReport, TruthfulReports,
         Reported, Targets
<1> QED
  BY <1>2, <1>3, ReportedInvariance, PTL

-----------------------------------------------------------------------------
(* No final status is revised.                                             *)

Over == {"fail", "destroy", "done"}

(* Where the server has a final status, nobody is left to send another:    *)
(* the job is past Report, or process.fail has already passed it.          *)
FinalInv ==
    /\ report[0] \in Final =>
           main \in Over \/ (once # 0 /\ job[once] = "done")
    /\ Contiguous =>
           \A j \in Jobs : report[j] \in Final =>
               \/ job[j] \in {"once", "fail", "done"}
               \/ job[j] = "none" /\ (main \in Over \/ (once # 0 /\ j <= pos))

(* The targets process.fail of a job has still to update have not heard of *)
(* their end.                                                              *)
LEMMA PendingNotFinal ==
    ASSUME TypeInv, OrderInv, OnceInv, FinalInv, Failing, main # "fail",
           Contiguous, NEW j \in PendingTargets
    PROVE  j \in Jobs /\ report[j] \notin Final
<1>1. LeadersFit
  BY LeadersExist DEF TypeInv, LocalTypes
<1>a. 0 \notin Jobs
  BY <1>1 DEF LeadersFit
<1>b. once # 0 /\ job[once] = "fail"
  BY <1>a DEF Failing, OnceInv
<1>2. j \in Later /\ j \in Jobs /\ once # 0 /\ job[once] = "fail" /\ j > pos
  BY <1>b DEF PendingTargets, FailTargets, Later
<1>3. LeaderOf(j) > current
  BY <1>2, LaterStages DEF TypeInv
<1>4. LeaderOf(j) \in Nat /\ current \in Nat /\ j \in Nat /\ pos \in Nat
  BY <1>1, <1>2 DEF LeadersFit, TypeInv, LocalTypes
<1>5. job[j] = "none"
  BY <1>2, <1>3, <1>4 DEF OrderInv
<1>6. main = "wait" \/ main \in {"destroy", "done"}
  BY <1>2 DEF OnceInv
<1>7. main = "wait"
  BY <1>2, <1>6 DEF OrderInv, TypeInv, LocalTypes
<1> QED
  BY <1>2, <1>4, <1>5, <1>7 DEF FinalInv, Over

LEMMA FinalInductive ==
    TypeInv /\ OrderInv /\ OnceInv /\ FinalInv /\ [Next]_vars => FinalInv'
<1> SUFFICES ASSUME TypeInv, LocalTypes, JobTypes, ServerTypes, OrderInv,
                    OnceInv, FinalInv, [Next]_vars
             PROVE  FinalInv'
  BY DEF TypeInv
<1>a. /\ stage' = stage /\ Jobs' = Jobs /\ Contiguous' = Contiguous
  BY ListIsFixed DEF Contiguous, LeaderOf, Leaders
<1>b. LeadersFit
  BY LeadersExist DEF LocalTypes
<1>c. /\ Jobs \subseteq Nat \ {0} /\ Jobs \subseteq Targets /\ 0 \in Targets
      /\ 0 \notin Jobs
  BY <1>b DEF LeadersFit, Targets
<1>d. {"RUNNING", "SUCCESS", "FAILED", "SKIPPED", "CANCELED"} \subseteq Statuses
      /\ "RUNNING" \notin Final
  BY DEF Statuses, Final
<1>e. ASSUME NEW t \in Targets, NEW status \in Statuses, NEW ok \in BOOLEAN,
             Put(t, status, ok)
      PROVE  /\ \A u \in Targets \ {t} : report'[u] = report[u]
             /\ report'[t] \in {report[t], status}
  BY <1>e, PutReports
<1>f. \A j \in Jobs : job[j] \notin {"none", "done"} => main = "wait"
  BY DEF OrderInv
<1>k. ASSUME NEW j \in Jobs, NEW at,
             job[j] \notin {"none", "once", "fail", "done"},
             job' = [job EXCEPT ![j] = at], UNCHANGED <<main, once, pos>>,
             \A i \in Jobs \ {j} : report'[i] = report[i],
             report'[0] = report[0],
             report'[j] \in Final => at \in {"once", "done"}
                                     \/ report'[j] = report[j]
      PROVE  FinalInv'
  <2>1. once # 0 => job'[once] = job[once]
    BY <1>k DEF OnceInv, LocalTypes, JobTypes
  <2>2. \A i \in Jobs : i # j => job'[i] = job[i]
    BY <1>k DEF JobTypes
  <2>3. job'[j] = at
    BY <1>k DEF JobTypes
  <2>4. Contiguous => report[j] \notin Final
    BY <1>k DEF FinalInv
  <2> QED
    BY <1>a, <1>k, <2>1, <2>2, <2>3, <2>4 DEF FinalInv
<1> USE <1>a, <1>c DEF contexts, jobVars, failVars, fileVars, server
<1>1. CASE EndParent
  BY <1>1 DEF EndParent, FinalInv
<1>2. CASE Cancel
  BY <1>2 DEF Cancel, FinalInv
<1>3. CASE Register
  <2>1. PICK ok \in BOOLEAN : Put(0, "RUNNING", ok)
    BY <1>3 DEF Register
  <2>2. /\ \A j \in Jobs : report'[j] = report[j]
        /\ report'[0] \in {report[0], "RUNNING"}
    BY <1>d, <1>e, <2>1
  <2>3. once = 0 /\ main = "register" /\ once' = once /\ job' = job
    BY <1>3 DEF Register, OnceInv
  <2> QED
    BY <1>d, <2>2, <2>3 DEF FinalInv, Over
<1>4. CASE PrepareVariables
  <2>1. once = 0
    BY <1>4 DEF PrepareVariables, OnceInv
  <2> QED
    BY <1>4, <2>1 DEF PrepareVariables, FinalInv, Over
<1>5. CASE Spawn
  <2>1. once = 0 /\ main = "spawn"
    BY <1>5 DEF Spawn, OnceInv
  <2>2. \A j \in StageOf(current) : j \in Jobs /\ job[j] = "none"
    BY <1>5, <1>b DEF Spawn, OrderInv, StageOf, LeadersFit
  <2>3. \A j \in Jobs : Contiguous /\ report[j] \in Final =>
            job[j] \in {"once", "fail", "done"}
    BY <2>1 DEF FinalInv, Over
  <2>4. \A j \in Jobs : job[j] # "none" => job'[j] = job[j]
    BY <1>5, <2>2 DEF Spawn
  <2> QED
    BY <1>5, <2>1, <2>3, <2>4 DEF Spawn, FinalInv, Over
<1>6. CASE EndStage
  <2>1. main = "wait" /\ UNCHANGED <<job, once, pos, report>>
    BY <1>6 DEF EndStage
  <2> QED
    BY <2>1 DEF FinalInv, Over
<1>7. CASE Finish
  <2>1. PICK ok \in BOOLEAN : Put(0, "SUCCESS", ok)
    BY <1>7 DEF Finish
  <2>2. \A j \in Jobs : report'[j] = report[j]
    BY <1>d, <1>e, <2>1
  <2>3. main = "finish" /\ main' \in Over /\ job' = job
    BY <1>7 DEF Finish, FailAll, Over
  <2>4. Contiguous => \A j \in Jobs : report[j] \in Final =>
                          job[j] \in {"once", "fail", "done", "none"}
    BY DEF FinalInv
  <2> QED
    BY <2>2, <2>3, <2>4 DEF FinalInv
<1>8. CASE Destroy
  BY <1>8 DEF Destroy, FinalInv, Over
<1>9. CASE FailJob
  <2>1. PICK j \in PendingTargets, ok \in BOOLEAN :
            /\ \A i \in PendingTargets : j <= i
            /\ Put(j, IF main = "fail" THEN "FAILED" ELSE "SKIPPED", ok)
            /\ pos' = j
    BY <1>9 DEF FailJob
  <2>2. j \in FailTargets /\ j \in Jobs /\ j > pos
    BY <2>1 DEF PendingTargets, FailTargets
  <2>3. /\ \A i \in Jobs \ {j} : report'[i] = report[i]
        /\ report'[0] = report[0]
    BY <1>d, <1>e, <2>1, <2>2
  <2>4. \A i \in Jobs : i <= pos => i <= j
    BY <2>2 DEF LocalTypes
  <2>5. UNCHANGED <<job, once, main>>
    BY <1>9 DEF FailJob
  <2>6. CASE main = "fail"
    <3>1. \A i \in Jobs : job[i] \in {"none", "done"}
      BY <2>6 DEF OrderInv
    <3>2. main' \in Over /\ job' = job
      BY <2>5, <2>6 DEF Over
    <3> QED
      BY <3>1, <3>2 DEF FinalInv
  <2>7. ASSUME main # "fail", Contiguous
        PROVE  job[j] = "none" /\ once # 0
    <3>1. j \in Later /\ once # 0
      BY <1>9, <2>2, <2>7 DEF FailJob, Failing, FailTargets, Later, OnceInv
    <3>2. LeaderOf(j) > current
      BY <2>2, <2>7, <3>1, LaterStages
    <3>3. LeaderOf(j) \in Nat /\ current \in Nat
      BY <1>b, <2>2 DEF LeadersFit, LocalTypes
    <3> QED
      BY <2>2, <3>1, <3>2, <3>3 DEF OrderInv
  <2>8. CASE main # "fail"
    BY <2>1, <2>2, <2>3, <2>4, <2>5, <2>7, <2>8 DEF FinalInv
  <2> QED
    BY <2>6, <2>8
<1>10. CASE FailPipeline
  <2>1. PICK ok \in BOOLEAN : Put(0, "FAILED", ok)
    BY <1>10 DEF FailPipeline
  <2>2. \A j \in Jobs : report'[j] = report[j]
    BY <1>d, <1>e, <2>1
  <2>3. \A j \in Jobs : /\ job[j] # "fail" => job'[j] = job[j]
                        /\ job[j] = "fail" => job'[j] = "done"
    BY <1>10 DEF FailPipeline
  <2>4. UNCHANGED <<once, pos>> /\ (main' = main \/ main' \in Over)
    BY <1>10 DEF FailPipeline, Over
  <2>5. main' \in Over \/ (once' # 0 /\ job'[once'] = "done")
    <3>1. CASE main = "fail"
      <4>1. main' = "destroy"
        BY <1>10, <3>1 DEF FailPipeline
      <4> QED
        BY <4>1 DEF Over
    <3>2. CASE main # "fail"
      <4>1. once \in Jobs /\ job[once] = "fail"
        BY <1>10, <3>2 DEF FailPipeline, Failing, OnceInv
      <4> QED
        BY <2>3, <2>4, <4>1
    <3> QED
      BY <3>1, <3>2
  <2>6. main \in Over => main' \in Over
    BY <1>10 DEF FailPipeline, Over
  <2> QED
    BY <2>2, <2>3, <2>4, <2>5, <2>6 DEF FinalInv
<1>11. ASSUME NEW j \in Jobs, Begin(j) PROVE FinalInv'
  <2>1. PICK ok \in BOOLEAN :
            /\ Put(j, "RUNNING", ok)
            /\ job' = [job EXCEPT ![j] =
                          IF ok THEN IF j = 1 THEN "serve" ELSE "wait" ELSE "once"]
    BY <1>11 DEF Begin, Goto
  <2>2. /\ report'[0] = report[0]
        /\ \A i \in Jobs \ {j} : report'[i] = report[i]
        /\ report'[j] \in {report[j], "RUNNING"}
    BY <1>d, <1>e, <2>1
  <2> QED
    BY <1>11, <1>d, <1>k, <2>1, <2>2 DEF Begin
<1>12. ASSUME NEW j \in Jobs, Serve(j) PROVE FinalInv'
  BY <1>12, <1>k DEF Serve, Goto
<1>13. ASSUME NEW j \in Jobs, ReadConfig(j) PROVE FinalInv'
  BY <1>13, <1>k DEF ReadConfig, Goto
<1>14. ASSUME NEW j \in Jobs, Signal(j) PROVE FinalInv'
  BY <1>14, <1>k DEF Signal, Goto
<1>15. ASSUME NEW j \in Jobs, Wait(j) PROVE FinalInv'
  BY <1>15, <1>k DEF Wait, Goto
<1>16. ASSUME NEW j \in Jobs, Lookup(j) PROVE FinalInv'
  BY <1>16, <1>k DEF Lookup, Goto
<1>17. ASSUME NEW j \in Jobs, Commands(j) PROVE FinalInv'
  BY <1>17, <1>k DEF Commands, Goto
<1>18. ASSUME NEW j \in Jobs, Report(j) PROVE FinalInv'
  <2>1. PICK ok \in BOOLEAN : Put(j, outcome[j], ok)
    BY <1>18 DEF Report
  <2>2. outcome[j] \in Statuses
    BY <1>18, <1>d DEF Report, JobTypes
  <2>3. /\ report'[0] = report[0]
        /\ \A i \in Jobs \ {j} : report'[i] = report[i]
    BY <1>e, <2>1, <2>2
  <2> QED
    BY <1>18, <1>k, <2>3 DEF Report, Goto
<1>19. ASSUME NEW j \in Jobs, OnceDo(j) PROVE FinalInv'
  <2>1. main = "wait" /\ main' = main /\ report' = report /\ job[j] = "once"
    BY <1>19, <1>f DEF OnceDo
  <2>2. \A i \in Jobs : i # j => job'[i] = job[i]
    BY <1>19 DEF OnceDo, Goto, JobTypes
  <2>3. job'[j] \in {"fail", "done"}
    BY <1>19 DEF OnceDo, Goto, JobTypes
  <2>4. CASE once = 0
    BY <2>1, <2>2, <2>3, <2>4 DEF FinalInv, Over
  <2>5. CASE once # 0
    <3>1. UNCHANGED <<once, pos>> /\ job[once] = "done" /\ once \in Jobs
      BY <1>19, <2>5 DEF OnceDo, LocalTypes
    <3> QED
      BY <2>1, <2>2, <2>3, <2>5, <3>1 DEF FinalInv, Over
  <2> QED
    BY <2>4, <2>5
<1>20. CASE UNCHANGED vars
  BY <1>20 DEF vars, FinalInv
<1> QED
  BY <1>1, <1>2, <1>3, <1>4, <1>5, <1>6, <1>7, <1>8, <1>9, <1>10, <1>11,
     <1>12, <1>13, <1>14, <1>15, <1>16, <1>17, <1>18, <1>19, <1>20
  DEF Next, Run, Fail, Prompt, Slow, Returned

(* A final status is not taken back: neither by a goroutine that reports   *)
(* after process.fail nor by process.fail after a job has reported.        *)
THEOREM FinalIsFinal == Spec => FinalStays
<1>1. Init => FinalInv
  BY DEF Init, FinalInv, Final, Jobs
<1>2. Spec => []FinalInv
  BY <1>1, TypeInvariance, OrderInvariance, FinalInductive, PTL DEF Spec
<1>3. TypeInv /\ OrderInv /\ OnceInv /\ FinalInv /\ [Next]_vars
      => [Contiguous /\ main # "fail" =>
             \A t \in Jobs \cup {0} : report[t] \in Final =>
                 report'[t] = report[t]]_vars
  <2> SUFFICES ASSUME TypeInv, LocalTypes, JobTypes, ServerTypes, OrderInv,
                      OnceInv, FinalInv, Next, Contiguous, main # "fail",
                      NEW t \in Targets, report[t] \in Final
               PROVE  report'[t] = report[t]
    BY DEF Targets, TypeInv
  <2>0. LeadersFit
    BY LeadersExist DEF LocalTypes
  <2>1. /\ Jobs \subseteq Targets /\ 0 \in Targets /\ 0 \notin Jobs
        /\ {"RUNNING", "SUCCESS", "FAILED", "SKIPPED", "CANCELED"} \subseteq Statuses
    BY <2>0 DEF LeadersFit, Targets, Statuses, Final
  <2>2. ASSUME NEW u \in Targets, NEW status \in Statuses, NEW ok \in BOOLEAN,
               Put(u, status, ok), report[u] \notin Final
        PROVE  report'[t] = report[t]
    BY <2>2, PutReports
  <2>3. CASE Register
    <3>1. report[0] \notin Final
      BY <2>3 DEF Register, FinalInv, OnceInv, Over
    <3> QED
      BY <2>1, <2>2, <2>3, <3>1 DEF Register
  <2>4. CASE Finish
    <3>1. report[0] \notin Final
      BY <2>4 DEF Finish, FinalInv, OnceInv, Over
    <3> QED
      BY <2>1, <2>2, <2>4, <3>1 DEF Finish
  <2>5. CASE FailJob
    <3>1. PICK j \in PendingTargets, ok \in BOOLEAN : Put(j, "SKIPPED", ok)
      BY <2>5 DEF FailJob
    <3>2. j \in Jobs /\ report[j] \notin Final
      BY <2>5, PendingNotFinal DEF FailJob
    <3> QED
      BY <2>1, <2>2, <3>1, <3>2
  <2>6. CASE FailPipeline
    <3>1. once # 0 /\ job[once] = "fail"
      BY <2>0, <2>6 DEF FailPipeline, Failing, OnceInv, LeadersFit
    <3>2. main = "wait"
      BY <3>1 DEF OnceInv, OrderInv, LocalTypes
    <3>3. report[0] \notin Final
      BY <3>1, <3>2 DEF FinalInv, Over
    <3> QED
      BY <2>1, <2>2, <2>6, <3>3 DEF FailPipeline
  <2>7. ASSUME NEW j \in Jobs, Begin(j) PROVE report'[t] = report[t]
    <3>1. report[j] \notin Final
      BY <2>7 DEF Begin, FinalInv
    <3> QED
      BY <2>1, <2>2, <2>7, <3>1 DEF Begin
  <2>8. ASSUME NEW j \in Jobs, Report(j) PROVE report'[t] = report[t]
    <3>1. report[j] \notin Final
      BY <2>8 DEF Report, FinalInv
    <3>2. outcome[j] \in Statuses
      BY <2>1, <2>8 DEF Report, JobTypes
    <3> QED
      BY <2>1, <2>2, <2>8, <3>1, <3>2 DEF Report
  <2>9. CASE report' = report
    BY <2>9
  <2> QED
    BY <2>3, <2>4, <2>5, <2>6, <2>7, <2>8, <2>9
    DEF Next, Run, Fail, Returned, Prompt, Slow, EndParent, Cancel,
        PrepareVariables, Spawn, EndStage, Destroy, Serve, ReadConfig, Signal,
        Wait, Lookup, Commands, OnceDo, vars, server
<1> QED
  BY <1>2, <1>3, TypeInvariance, OrderInvariance, PTL DEF Spec, FinalStays
-----------------------------------------------------------------------------
(* What a canceled pipeline can be stuck in.                               *)

(* Where a goroutine stands, it need not wait for another one.  What runs  *)
(* under the context of the pipeline need not end before that is done.     *)
MainCanMove ==
    \/ main \in {"register", "prepare", "spawn", "finish", "fail", "destroy"}
    \/ main = "wait" /\ \A j \in StageOf(current) : job[j] = "done"

JobCanMove(j) ==
    \/ job[j] \in {"begin", "signal", "lookup", "report", "fail"}
    \/ job[j] \in {"serve", "read", "commands"} /\ ctxDone
    \/ job[j] = "wait" /\ cond # 0
    \/ job[j] = "once" /\ (once = 0 \/ job[once] = "done")

(* The only thing that may keep a canceled pipeline from its end is that   *)
(* its first job was given up before it had signaled the condition, while  *)
(* others of its stage wait for that.                                      *)
StuckOnlyIfAbandoned ==
    ctxDone /\ main # "done" =>
        \/ MainCanMove \/ \E j \in Jobs : JobCanMove(j)
        \/ /\ Abandoned /\ current = 1
           /\ \A j \in StageOf(1) : job[j] \in {"wait", "done"}

(* While the stage is awaited all its jobs have been started; the first    *)
(* job of the list does not wait for itself, and was not successful        *)
(* without the signal.                                                     *)
SpawnInv ==
    /\ main = "wait" => \A j \in StageOf(current) : job[j] # "none"
    /\ job[1] # "wait"
    /\ outcome[1] = "SUCCESS" => cond # 0

LEMMA SpawnInductive ==
    TypeInv /\ RepoInv /\ SpawnInv /\ [Next]_vars => SpawnInv'
<1> SUFFICES ASSUME LocalTypes, JobTypes, RepoInv, SpawnInv, [Next]_vars
             PROVE  SpawnInv'
  BY DEF TypeInv
<1>a. stage' = stage /\ Jobs' = Jobs /\ \A j : StageOf(j)' = StageOf(j)
  BY ListIsFixed DEF StageOf
<1>b. 1 \in Jobs /\ Jobs \subseteq Nat /\ \A j : StageOf(j) \subseteq Jobs
  BY JobsAreNumbers DEF LocalTypes, StageOf
<1> USE <1>a, <1>b DEF JobTypes, SpawnInv, jobVars, contexts, server, fileVars,
        failVars
<1>1. CASE Spawn
  BY <1>1 DEF Spawn
<1>2. CASE \/ EndParent \/ Cancel \/ Register \/ PrepareVariables \/ EndStage
           \/ Finish \/ Destroy \/ FailJob \/ UNCHANGED vars
  <2>1. /\ UNCHANGED <<job, outcome, cond>>
        /\ main' = "wait" => main = "wait" /\ current' = current
    BY <1>2 DEF EndParent, Cancel, Register, PrepareVariables, EndStage,
                Finish, Destroy, FailJob, FailAll, vars
  <2> QED
    BY <2>1
<1>3. CASE FailPipeline
  BY <1>3 DEF FailPipeline
<1>4. ASSUME NEW j \in Jobs, Prompt(j) \/ Slow(j) PROVE SpawnInv'
  <2>1. /\ UNCHANGED <<main, current>>
        /\ \E at : Goto(j, at) /\ at # "none" /\ (j = 1 => at # "wait")
    BY <1>4 DEF Prompt, Slow, Begin, Signal, Wait, Lookup, Report, OnceDo,
                Serve, ReadConfig, Commands
  <2>2. cond' = cond \/ cond' # 0
    BY <1>4 DEF Prompt, Slow, Begin, Signal, Wait, Lookup, Report, OnceDo,
                Serve, ReadConfig, Commands
  <2>3. outcome'[1] = "SUCCESS" => outcome[1] = "SUCCESS" \/ cond # 0
    <3>1. CASE Commands(j)
      BY <3>1 DEF Commands, RepoInv, End
    <3>2. CASE ~Commands(j)
      <4>1. outcome' = outcome \/ outcome' = [outcome EXCEPT ![j] = "FAILED"]
        BY <1>4, <3>2 DEF Prompt, Slow, Begin, Signal, Wait, Lookup, Report,
                          OnceDo, Serve, ReadConfig, End
      <4> QED
        BY <4>1
    <3> QED
      BY <3>1, <3>2
  <2> QED
    BY <2>1, <2>2, <2>3 DEF Goto
<1> QED
  BY <1>1, <1>2, <1>3, <1>4 DEF Next, Run, Fail, Returned

(* Jobs wait for the condition, for once.Do and for each other's end, Run  *)
(* for the jobs: only the missing signal of the first job, as in the run   *)
(* pipeline_lost, closes a circle.                                         *)
THEOREM OnlyTheSignalIsMissed == Spec => []StuckOnlyIfAbandoned
<1>1. Init => SpawnInv
  BY JobsAreNumbers DEF Init, SpawnInv
<1>2. TypeInv /\ OrderInv /\ OnceInv /\ RepoInv /\ SpawnInv
      => StuckOnlyIfAbandoned
  <2> SUFFICES ASSUME LocalTypes, JobTypes, OrderInv, OnceInv, RepoInv,
                      SpawnInv, ctxDone, main # "done", ~MainCanMove,
                      ~ \E j \in Jobs : JobCanMove(j)
               PROVE  /\ Abandoned /\ current = 1
                      /\ \A j \in StageOf(1) : job[j] \in {"wait", "done"}
    BY DEF StuckOnlyIfAbandoned, TypeInv
  <2>1. LeadersFit
    BY LeadersExist DEF LocalTypes
  <2>2. main = "wait"
    BY DEF LocalTypes, MainCanMove
  <2>3. \A j \in Jobs : job[j] \in {"none", "wait", "once", "done"}
    BY DEF JobTypes, JobCanMove
  <2>4. \A j \in Jobs : job[j] # "once"
    <3> SUFFICES ASSUME NEW j \in Jobs, job[j] = "once" PROVE FALSE
      OBVIOUS
    <3>1. once \in Jobs /\ job[once] # "done"
      BY DEF JobCanMove, LocalTypes
    <3>2. job[once] = "fail"
      BY <3>1, <2>1 DEF OnceInv, LeadersFit
    <3> QED
      BY <3>1, <3>2 DEF JobCanMove
  <2>5. \A j \in StageOf(current) : j \in Jobs /\ job[j] \in {"wait", "done"}
    BY <2>2, <2>3, <2>4 DEF SpawnInv, StageOf
  <2>6. PICK j \in StageOf(current) : job[j] = "wait"
    BY <2>2, <2>5 DEF MainCanMove
  <2>7. cond = 0
    BY <2>5, <2>6 DEF JobCanMove
  <2>8. current = 1
    <3> SUFFICES ASSUME current # 1 PROVE FALSE
      OBVIOUS
    <3>1. LeaderOf(1) = 1 /\ 1 < current
      BY <2>1 DEF LeadersFit, OrderInv
    <3>2. outcome[1] = "SUCCESS"
      BY <2>1, <3>1 DEF LeadersFit, OrderInv
    <3> QED
      BY <2>7, <3>2 DEF SpawnInv
  <2>9. job[1] = "done"
    BY <2>1, <2>5, <2>8 DEF SpawnInv, LeadersFit, StageOf
  <2> QED
    BY <2>5, <2>7, <2>8, <2>9 DEF Abandoned
<1> QED
  BY <1>1, <1>2, TypeInvariance, OrderInvariance, RepoInvariance,
     SpawnInductive, PTL DEF Spec
=============================================================================
