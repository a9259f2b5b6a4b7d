------------------------------ MODULE Pipeline ------------------------------
(***************************************************************************)
(* One pipeline: pipeline.Process of internal/pipeline/pipeline.go with    *)
(* the condition variable of internal/signal/condition.go.                 *)
(*                                                                         *)
(* Goroutines: the one that executes Process.Run ("main") and one per job  *)
(* of the stage that is being executed.  They share the parsed             *)
(* configuration, the sidecar, the condition on which jobs wait for the    *)
(* configuration, and two sync.Once.  They report to the server with HTTP  *)
(* requests; a request may fail before or after the server has obeyed it.  *)
(*                                                                         *)
(* Jobs are numbered in the order of task.Jobs.  What a job does inside    *)
(* job.Process.Run and what the sidecar does inside Serve is abstracted to *)
(* its outcome.                                                            *)
(***************************************************************************)
EXTENDS Integers, Sequences, FiniteSets

CONSTANTS
    Layouts,    \* the lists of jobs considered: for each job its stage
    MaxFaults,  \* bound: status updates that fail in one behaviour
    Panics      \* may the file make the YAML decoder panic?

ASSUME PipelineAssumption ==
    /\ \A layout \in Layouts : layout \in Seq(Nat) /\ Len(layout) > 0
    /\ MaxFaults \in Nat
    /\ Panics \in BOOLEAN

VARIABLES
    stage,       \* task.Jobs: for each job its stage
    parentDone,  \* is the scheduler's context done?
    ctxDone,     \* is the context of this pipeline done?
    main,        \* where Process.Run stands
    current,     \* the first job of the stage that is being executed
    job,         \* for each job where its goroutine stands
    outcome,     \* the status processJob has returned
    err,         \* the error a job has ended with
    once,        \* the job that won once.Do in runJobs, 0: none yet
    onceFail,    \* has process.fail been executed?
    pos,         \* the last job that process.fail has updated
    cond,        \* configCond.ok: 0 unknown, 1 satisfied, 2 unsatisfied
    config,      \* process.config: zero, a partial or the whole file
    sidecar,     \* process.sidecar
    report,      \* the server's view: of each job, and of the pipeline at 0
    lost,        \* the targets of updates that have failed
    faults       \* the number of updates that have failed

contexts == <<parentDone, ctxDone>>
jobVars  == <<job, outcome, err>>
failVars == <<once, onceFail, pos>>
fileVars == <<cond, config, sidecar>>
server   == <<report, lost, faults>>
vars == <<stage, contexts, main, current, jobVars, failVars, fileVars,
          server>>

Jobs == 1 .. Len(stage)
Final == {"SUCCESS", "FAILED", "CANCELED", "SKIPPED"}

(* The leaders are the jobs that open a stage in splitJobs; the stages are *)
(* executed in the order of their leaders.                                 *)
Leaders == {j \in Jobs : \A i \in 1 .. j - 1 : stage[i] # stage[j]}
StageOf(j) == {i \in Jobs : stage[i] = stage[j]}
LeaderOf(j) == CHOOSE i \in Leaders : stage[i] = stage[j]

-----------------------------------------------------------------------------

TypeOK ==
    /\ stage \in Layouts
    /\ parentDone \in BOOLEAN /\ ctxDone \in BOOLEAN
    /\ main \in {"register", "prepare", "spawn", "wait", "finish", "fail",
                 "destroy", "done"}
    /\ current \in Jobs
    /\ job \in [Jobs -> {"none", "begin", "serve", "read", "signal", "wait",
                         "lookup", "commands", "report", "once", "fail",
                         "done"}]
    /\ outcome \in [Jobs -> {"none", "SUCCESS", "FAILED", "CANCELED"}]
    /\ err \in [Jobs -> {"none", "canceled", "other"}]
    /\ once \in Jobs \cup {0} /\ onceFail \in BOOLEAN
    /\ pos \in Jobs \cup {0}
    /\ cond \in 0 .. 2
    /\ config \in {"zero", "partial", "whole"}
    /\ sidecar \in {"none", "built", "served", "destroyed"}
    /\ report \in [Jobs \cup {0} -> Final \cup {"PENDING", "RUNNING"}]
    /\ lost \in SUBSET (Jobs \cup {0})
    /\ faults \in 0 .. MaxFaults

Init ==
    /\ stage \in Layouts
    /\ parentDone = FALSE /\ ctxDone = FALSE
    /\ main = "register" /\ current = 1
    /\ job = [j \in Jobs |-> "none"]
    /\ outcome = [j \in Jobs |-> "none"]
    /\ err = [j \in Jobs |-> "none"]
    /\ once = 0 /\ onceFail = FALSE /\ pos = 0
    /\ cond = 0 /\ config = "zero" /\ sidecar = "none"
    /\ report = [t \in Jobs \cup {0} |-> "PENDING"]
    /\ lost = {} /\ faults = 0

-----------------------------------------------------------------------------
(* UpdatePipeline (target 0) and updateJob.  When the request fails the    *)
(* caller cannot tell whether the server has obeyed.                       *)

Put(target, status, ok) ==
    /\ \/ report' = [report EXCEPT ![target] = status]
       \/ ~ok /\ UNCHANGED report
    /\ IF ok THEN UNCHANGED <<lost, faults>>
       ELSE /\ faults < MaxFaults
            /\ faults' = faults + 1
            /\ lost' = lost \cup {target}

-----------------------------------------------------------------------------
(* The contexts, done from outside: cancelPipeline ends that of the        *)
(* pipeline, the shutdown of the runner first that of the scheduler.       *)

EndParent ==
    /\ ~parentDone /\ parentDone' = TRUE
    /\ UNCHANGED <<stage, ctxDone, main, current, jobVars, failVars, fileVars, server>>

Cancel ==
    /\ ~ctxDone /\ ctxDone' = TRUE
    /\ UNCHANGED <<stage, parentDone, main, current, jobVars, failVars,
                   fileVars, server>>

-----------------------------------------------------------------------------
(* Process.Run and runJobs.                                                *)

(* entering process.fail(FAIL_ALL_JOBS) *)
FailAll == IF onceFail THEN "destroy" ELSE "fail"

Register ==
    /\ main = "register"
    /\ \E ok \in BOOLEAN :
          /\ Put(0, "RUNNING", ok)
          /\ main' = IF ok THEN "prepare" ELSE FailAll
    /\ UNCHANGED <<stage, contexts, current, jobVars, failVars, fileVars>>

(* The registry credentials of the task may be malformed (JobSetup).       *)
PrepareVariables ==
    /\ main = "prepare"
    /\ main' \in {"spawn", FailAll}
    /\ UNCHANGED <<stage, contexts, current, jobVars, failVars, fileVars,
                   server>>

Spawn ==
    /\ main = "spawn" /\ main' = "wait"
    /\ job' = [j \in Jobs |-> IF j \in StageOf(current) THEN "begin"
                              ELSE job[j]]
    /\ UNCHANGED <<stage, contexts, current, outcome, err, failVars, fileVars, server>>

LaterLeaders == {j \in Leaders : j > current}

(* mutant: a failed stage does not end the pipeline *)
EndStageIgnoringError ==
    /\ main = "wait"
    /\ \A j \in StageOf(current) : job[j] = "done"
    /\ IF LaterLeaders = {} THEN main' = "finish" /\ UNCHANGED current
       ELSE /\ main' = "spawn"
            /\ current' \in LaterLeaders
            /\ \A j \in LaterLeaders : current' <= j
    /\ UNCHANGED <<stage, contexts, jobVars, failVars, fileVars, server>>

(* mutant: a failure ends the stage without workers.Wait() *)
EndStageEarly ==
    /\ main = "wait"
    /\ once # 0 \/ \A j \in StageOf(current) : job[j] = "done"
    /\ IF once # 0 THEN main' = "destroy" /\ UNCHANGED current
       ELSE IF LaterLeaders = {} THEN main' = "finish" /\ UNCHANGED current
       ELSE /\ main' = "spawn"
            /\ current' \in LaterLeaders
            /\ \A j \in LaterLeaders : current' <= j
    /\ UNCHANGED <<stage, contexts, jobVars, failVars, fileVars, server>>

(* workers.Wait(), the test of resultErr, and the next stage *)
EndStage ==
    /\ main = "wait"
    /\ \A j \in StageOf(current) : job[j] = "done"
    /\ IF once # 0 THEN main' = "destroy" /\ UNCHANGED current
       ELSE IF LaterLeaders = {} THEN main' = "finish" /\ UNCHANGED current
       ELSE /\ main' = "spawn"
            /\ current' \in LaterLeaders
            /\ \A j \in LaterLeaders : current' <= j
    /\ UNCHANGED <<stage, contexts, jobVars, failVars, fileVars, server>>

Finish ==
    /\ main = "finish"
    /\ \E ok \in BOOLEAN :
          /\ Put(0, "SUCCESS", ok)
          /\ main' = IF ok THEN "destroy" ELSE FailAll
    /\ UNCHANGED <<stage, contexts, current, jobVars, failVars, fileVars>>

(* the deferred process.destroy *)
Destroy ==
    /\ main = "destroy" /\ main' = "done"
    /\ sidecar' = IF sidecar = "none" THEN "none" ELSE "destroyed"
    /\ UNCHANGED <<stage, contexts, current, jobVars, failVars, cond, config, server>>

-----------------------------------------------------------------------------
(* process.fail, executed either by Run for all jobs or by the job that    *)
(* won once.Do: one update after the other, then that of the pipeline.     *)

Failing == main = "fail" \/ \E j \in Jobs : job[j] = "fail"

(* mutant: one job too late *)
FailTargetsAfterNext ==
    IF main = "fail" THEN Jobs
    ELSE {j \in Jobs : j > once + 1 /\ stage[j] # stage[once]}

(* mutant: the rest of the failed stage is skipped, too *)
FailTargetsAnyStage ==
    IF main = "fail" THEN Jobs ELSE {j \in Jobs : j > once}

FailTargets ==
    IF main = "fail" THEN Jobs
    ELSE {j \in Jobs : j > once /\ stage[j] # stage[once]}

PendingTargets == {j \in FailTargets : j > pos}

FailJob ==
    /\ Failing
    /\ \E j \in PendingTargets, ok \in BOOLEAN :
          /\ \A i \in PendingTargets : j <= i
          /\ Put(j, IF main = "fail" THEN "FAILED" ELSE "SKIPPED", ok)
          /\ pos' = j
    /\ UNCHANGED <<stage, contexts, main, current, jobVars, once, onceFail,
                   fileVars>>

(* mutant: only the jobs are updated *)
FailPipelineUnreported ==
    /\ Failing /\ PendingTargets = {}
    /\ onceFail' = TRUE
    /\ main' = IF main = "fail" THEN "destroy" ELSE main
    /\ job' = [j \in Jobs |-> IF job[j] = "fail" THEN "done" ELSE job[j]]
    /\ UNCHANGED <<stage, contexts, current, outcome, err, once, pos,
                   fileVars, server>>

FailPipeline ==
    /\ Failing /\ PendingTargets = {}
    /\ \E ok \in BOOLEAN : Put(0, "FAILED", ok)
    /\ onceFail' = TRUE
    /\ main' = IF main = "fail" THEN "destroy" ELSE main
    /\ job' = [j \in Jobs |-> IF job[j] = "fail" THEN "done" ELSE job[j]]
    /\ UNCHANGED <<stage, contexts, current, outcome, err, once, pos,
                   fileVars>>

Fail == FailJob \/ FailPipeline

-----------------------------------------------------------------------------
(* A job: runJob, processJob, readConfig.                                  *)

Goto(j, at) == job' = [job EXCEPT ![j] = at]

End(j, status, error) ==
    /\ outcome' = [outcome EXCEPT ![j] = status]
    /\ err' = [err EXCEPT ![j] = error]

(* mutant: every job sets up the sidecar *)
BeginAlwaysServing(j) ==
    /\ job[j] = "begin"
    /\ \E ok \in BOOLEAN :
          /\ Put(j, "RUNNING", ok)
          /\ IF ok THEN Goto(j, "serve") /\ UNCHANGED <<outcome, err>>
             ELSE Goto(j, "once") /\ End(j, "FAILED", "other")
    /\ UNCHANGED <<stage, contexts, main, current, failVars, fileVars>>

(* a job whose RUNNING update fails is given up before processJob *)
Begin(j) ==
    /\ job[j] = "begin"
    /\ \E ok \in BOOLEAN :
          /\ Put(j, "RUNNING", ok)
          /\ IF ok THEN /\ Goto(j, IF j = 1 THEN "serve" ELSE "wait")
                        /\ UNCHANGED <<outcome, err>>
             ELSE Goto(j, "once") /\ End(j, "FAILED", "other")
    /\ UNCHANGED <<stage, contexts, main, current, failVars, fileVars>>

(* the errors a step under the context of the pipeline can end with *)
Errors == IF ctxDone THEN {"canceled", "other"} ELSE {"other"}

(* The first job of the list builds the sidecar and lets it clone the      *)
(* repository ...                                                          *)
Serve(j) ==
    /\ job[j] = "serve"
    /\ \/ sidecar' = "served" /\ Goto(j, "read") /\ UNCHANGED err
       \/ /\ sidecar' = "built" /\ Goto(j, "signal")
          /\ \E e \in Errors : err' = [err EXCEPT ![j] = e]
    /\ UNCHANGED <<stage, contexts, main, current, outcome, failVars, cond,
                   config, server>>

(* ... and reads the configuration.  Unmarshal returns what it has         *)
(* collected so far along with an error, and that is stored.  A panic is   *)
(* recovered in processJob, which does not touch the condition.            *)
ReadConfig(j) ==
    /\ job[j] = "read"
    /\ \/ config' = "whole" /\ Goto(j, "signal") /\ UNCHANGED <<outcome, err>>
       \/ /\ config' \in {"zero", "partial"} /\ Goto(j, "signal")
          /\ err' = [err EXCEPT ![j] = "other"] /\ UNCHANGED outcome
       \/ /\ ctxDone /\ Goto(j, "signal")
          /\ err' = [err EXCEPT ![j] = "canceled"]
          /\ UNCHANGED <<config, outcome>>
       \/ /\ Panics /\ Goto(j, "report") /\ End(j, "FAILED", "other")
          /\ UNCHANGED config
    /\ UNCHANGED <<stage, contexts, main, current, failVars, cond, sidecar, server>>

(* Satisfy, or Unsatisfy and the return of FAILED *)
Signal(j) ==
    /\ job[j] = "signal"
    /\ IF err[j] = "none"
       THEN cond' = 1 /\ Goto(j, "lookup") /\ UNCHANGED outcome
       ELSE /\ cond' = 2 /\ Goto(j, "report")
            /\ outcome' = [outcome EXCEPT ![j] = "FAILED"]
    /\ UNCHANGED <<stage, contexts, main, current, err, failVars, config,
                   sidecar, server>>

(* mutant: only a success wakes the others up *)
WaitSuccessOnly(j) ==
    /\ job[j] = "wait" /\ cond = 1
    /\ Goto(j, "lookup")
    /\ UNCHANGED <<stage, contexts, main, current, outcome, err, failVars,
                   fileVars, server>>

(* every other job waits for either signal and ignores which it was *)
Wait(j) ==
    /\ job[j] = "wait" /\ cond # 0
    /\ Goto(j, "lookup")
    /\ UNCHANGED <<stage, contexts, main, current, outcome, err, failVars,
                   fileVars, server>>

(* job.Process.Run first looks its job up in the configuration *)
Lookup(j) ==
    /\ job[j] = "lookup"
    /\ \/ /\ config # "zero" /\ Goto(j, "commands")
          /\ UNCHANGED <<outcome, err>>
       \/ Goto(j, "report") /\ End(j, "FAILED", "other")
    /\ UNCHANGED <<stage, contexts, main, current, failVars, fileVars,
                   server>>

(* mutant: a recovered panic leaves the status at its zero value *)
CommandsWithoutStatus(j) ==
    /\ job[j] = "commands" /\ Goto(j, "report")
    /\ \/ End(j, "SUCCESS", "none")
       \/ UNCHANGED <<outcome, err>>
    /\ UNCHANGED <<stage, contexts, main, current, failVars, fileVars,
                   server>>

(* The rest of job.Process.Run, or a recovered panic.  A cancellation is   *)
(* reported as FAILED when the whole runner is being terminated.           *)
Commands(j) ==
    /\ job[j] = "commands" /\ Goto(j, "report")
    /\ \/ End(j, "SUCCESS", "none")
       \/ End(j, "FAILED", "other")
       \/ ctxDone /\ End(j, IF parentDone THEN "FAILED" ELSE "CANCELED",
                         "canceled")
    /\ UNCHANGED <<stage, contexts, main, current, failVars, fileVars,
                   server>>

(* a failure of this update is only logged *)
Report(j) ==
    /\ job[j] = "report"
    /\ \E ok \in BOOLEAN : Put(j, outcome[j], ok)
    /\ Goto(j, IF err[j] = "none" THEN "done" ELSE "once")
    /\ UNCHANGED <<stage, contexts, main, current, outcome, err, failVars,
                   fileVars>>

(* once.Do: the first job with an error calls process.fail, another one    *)
(* waits until that call is over                                           *)
OnceDo(j) ==
    /\ job[j] = "once"
    /\ \/ /\ once = 0 /\ once' = j
          /\ pos' = 0
          /\ Goto(j, IF onceFail THEN "done" ELSE "fail")
       \/ /\ once # 0 /\ job[once] = "done"
          /\ Goto(j, "done")
          /\ UNCHANGED <<once, pos>>
    /\ UNCHANGED <<stage, contexts, main, current, outcome, err, onceFail,
                   fileVars, server>>

-----------------------------------------------------------------------------

Run == Register \/ PrepareVariables \/ Spawn \/ EndStage \/ Finish \/ Destroy

Prompt(j) ==
    \/ Begin(j) \/ Signal(j) \/ Wait(j) \/ Lookup(j) \/ Report(j) \/ OnceDo(j)

(* steps that may take as long as they like, unless the context is done *)
Slow(j) == Serve(j) \/ ReadConfig(j) \/ Commands(j)

(* Process.Run has returned *)
Returned == main = "done" /\ UNCHANGED vars

Next ==
    \/ main # "done" /\ (EndParent \/ Cancel)
    \/ Run \/ Fail \/ Returned
    \/ \E j \in Jobs : Prompt(j) \/ Slow(j)

Spec == Init /\ [][Next]_vars

(* Goroutines are scheduled and requests are answered or fail; what runs   *)
(* under the context of the pipeline need not end before that is done.     *)
JobNumbers == 1 .. 4

Fairness ==
    /\ WF_vars(Run) /\ WF_vars(Fail)
    /\ \A j \in JobNumbers :
          /\ WF_vars(j \in Jobs /\ Prompt(j))
          /\ WF_vars(ctxDone /\ j \in Jobs /\ Slow(j))

FairSpec == Spec /\ Fairness

-----------------------------------------------------------------------------
(* Properties.                                                             *)

(* The stages occupy consecutive parts of the list of jobs.                *)
Contiguous == \A i, j \in Jobs : i < j =>
                 LeaderOf(i) <= LeaderOf(j)

(* No job is started before every job of every earlier stage has           *)
(* succeeded, in whatever order the list mentions the stages.              *)
StageOrder ==
    \A i, j \in Jobs :
        LeaderOf(i) < LeaderOf(j) /\ job[j] # "none" =>
            job[i] = "done" /\ outcome[i] = "SUCCESS"

(* While a job executes its commands nobody rewrites the configuration it  *)
(* is taken from.                                                          *)
ConfigStable ==
    [][(\E j \in Jobs : job[j] \in {"lookup", "commands"}) =>
           config' = config]_vars

(* A job executes commands only in a repository that is completely set up  *)
(* and not yet torn down.                                                  *)
SidecarOutlivesJobs ==
    \A j \in Jobs : job[j] = "commands" => sidecar = "served"

(* When Run has returned, the server has been told how the pipeline and    *)
(* each of its jobs ended, except where an update has failed.              *)
FinalReport ==
    main = "done" /\ Contiguous =>
        \A t \in Jobs \cup {0} : report[t] \in Final \/ t \in lost

(* A final status the server was told is not revised, unless the SUCCESS   *)
(* of the pipeline could not be reported.                                  *)
FinalStays ==
    [][Contiguous /\ main # "fail" =>
           \A t \in Jobs \cup {0} : report[t] \in Final =>
               report'[t] = report[t]]_vars

(* What the server is told is true: the pipeline is successful only when   *)
(* all its jobs were, and a job reported as skipped never was started.     *)
TruthfulReports ==
    /\ report[0] = "SUCCESS" => \A j \in Jobs : outcome[j] = "SUCCESS"
    /\ Contiguous => \A j \in Jobs : report[j] = "SKIPPED" => job[j] = "none"

(* The server is told everything, and nothing but the truth.               *)
ServerInformed == FinalReport /\ TruthfulReports

(* A pipeline whose context is done comes to its end.                      *)
CancelStops == ctxDone ~> main = "done"

(* the first job has gone without a word to those who wait for the file *)
Abandoned == cond = 0 /\ job[1] \in {"report", "once", "fail", "done"}

(* A pipeline whose context is done comes to its end, whatever updates     *)
(* fail, unless the first job has been given up before its signal.         *)
CancelStopsUnlessAbandoned == ctxDone ~> main = "done" \/ Abandoned

(* The failure of a job is reported for the whole pipeline unless that     *)
(* update fails, and does not wait for jobs of the same stage that keep    *)
(* running.                                                                *)
FailureReported == once # 0 ~> report[0] = "FAILED" \/ 0 \in lost

(* No job executes commands when the configuration could not be read.      *)
CommandsNeedConfig == \A j \in Jobs : job[j] = "commands" => cond = 1
=============================================================================
