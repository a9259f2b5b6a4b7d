----------------------------- MODULE Scheduler -----------------------------
(***************************************************************************)
(* The task scheduler of snake-runner (cmd/snake-runner/scheduler.go), the *)
(* ssh key factory that feeds it (internal/sshkey), and the part of the    *)
(* main goroutine that stops it (main.go, snake.go).                       *)
(*                                                                         *)
(* Goroutines: the scheduler loop, the key factory, the main goroutine,    *)
(* and one goroutine per pipeline.  A started pipeline is a "run": runs    *)
(* are numbered in the order they are started, and two runs may carry the  *)
(* same pipeline id when the server hands an id out twice (Reissue).       *)
(* What a run does inside process.Run is the subject of module Pipeline;   *)
(* here it only takes time and returns.                                    *)
(***************************************************************************)
EXTENDS Integers, Sequences, FiniteSets

CONSTANTS
    Ids,          \* pipeline ids the server knows
    MaxParallel,  \* runnerConfig.MaxParallelPipelines
    MaxRuns,      \* bound: runs started in one behaviour
    MaxKeys,      \* bound: ssh keys generated in one behaviour
    Reissue       \* may the server hand out an id that a run already carries?

ASSUME SchedulerAssumption ==
    /\ MaxParallel \in Nat \ {0}
    /\ MaxRuns \in Nat
    /\ MaxKeys \in Nat
    /\ Reissue \in BOOLEAN

Runs == 1 .. MaxRuns
Keys == 1 .. MaxKeys
NoRun == 0
NoKey == 0

VARIABLES
    ctx,           \* has scheduler.context been canceled?
    loop,          \* where the scheduler loop stands
    alive,         \* scheduler.alive
    sshKey,        \* scheduler.sshKey
    query,         \* does the current /gate/task request ask for a pipeline?
    reported,      \* the running pipelines that request reports
    factory,       \* where the key factory stands
    queue,         \* the factory's channel of keys
    lastKey,       \* the number of keys generated so far
    pipelinesMap,  \* scheduler.pipelinesMap: ids reported to the server
    cancels,       \* scheduler.cancels: for each id the run to be canceled
    pipelines,     \* scheduler.pipelines, the atomic counter
    group,         \* the count of scheduler.pipelinesGroup
    born,          \* the number of runs created so far
    run,           \* for each run, where its goroutine stands
    idOf, keyOf,   \* the pipeline id and the ssh key a run was created with
    canceled,      \* has the context of a run been canceled?
    todo,          \* ids still to be passed to cancelPipeline
    step,          \* where the running cancelPipeline call stands
    target,        \* the run whose cancel function that call has loaded
    main,          \* where the main goroutine stands
    terminated,    \* how often Terminate has closed snake.terminated
    bound,         \* history: pipelines the server gave each ssh key access to
    stuck          \* runs whose process.Run will never return

request     == <<query, reported>>
loopVars    == <<loop, alive, sshKey, request>>
factoryVars == <<factory, queue, lastKey>>
mapVars     == <<pipelinesMap, cancels>>
runVars     == <<born, run, idOf, keyOf, canceled>>
frameVars   == <<todo, step, target>>
vars == <<ctx, loopVars, factoryVars, mapVars, pipelines, group, runVars,
          frameVars, main, terminated, bound, stuck>>

-----------------------------------------------------------------------------

TypeOK ==
    /\ ctx \in BOOLEAN /\ alive \in BOOLEAN
    /\ loop \in {"off", "top", "key", "count", "ask", "poll", "sleep",
                 "store", "cancels", "add", "launch", "cancel", "terminate",
                 "done"}
    /\ sshKey \in Keys \cup {NoKey}
    /\ query \in BOOLEAN /\ reported \in SUBSET Ids
    /\ factory \in {"top", "generate", "send", "done"}
    /\ queue \in Seq(Keys)
    /\ lastKey \in 0 .. MaxKeys
    /\ pipelinesMap \in SUBSET Ids
    /\ cancels \in [Ids -> 0 .. born]
    /\ pipelines \in Int /\ group \in Int
    /\ born \in 0 .. MaxRuns
    /\ run \in [Runs -> {"none", "starting", "running", "returned", "left",
                         "uncounted", "forgotten", "gone"}]
    /\ idOf \in Seq(Ids) /\ Len(idOf) = born
    /\ keyOf \in Seq(Keys) /\ Len(keyOf) = born
    /\ canceled \in [Runs -> BOOLEAN]
    /\ todo \in SUBSET Ids
    /\ step \in {"load", "call", "func", "id"}
    /\ target \in 0 .. born
    /\ main \in {"select", "stop", "loop", "range", "cancel", "group",
                 "routines", "down"}
    /\ terminated \in Nat
    /\ bound \in [Keys -> SUBSET Ids]
    /\ stuck \in SUBSET Runs

Init ==
    /\ ctx = FALSE /\ alive = FALSE
    /\ loop = "off" /\ sshKey = NoKey
    /\ query = FALSE /\ reported = {}
    /\ factory = "top" /\ queue = <<>> /\ lastKey = 0
    /\ pipelinesMap = {} /\ cancels = [id \in Ids |-> NoRun]
    /\ pipelines = 0 /\ group = 0
    /\ born = 0 /\ run = [r \in Runs |-> "none"]
    /\ idOf = <<>> /\ keyOf = <<>>
    /\ canceled = [r \in Runs |-> FALSE]
    /\ todo = {} /\ step = "load" /\ target = NoRun
    /\ main = "select" /\ terminated = 0
    /\ bound = [k \in Keys |-> {}]
    /\ stuck = {}

-----------------------------------------------------------------------------
(* The ssh key factory: Factory.Run.                                       *)

FactoryTop ==
    /\ factory = "top"
    /\ \/ ctx /\ factory' = "done"
       \/ ~ctx /\ lastKey < MaxKeys /\ factory' = "generate"
    /\ UNCHANGED <<ctx, loopVars, queue, lastKey, mapVars, pipelines, group,
                   runVars, frameVars, main, terminated, bound, stuck>>

(* mutant: the error of a failed attempt does not end the attempt *)
GenerateIgnoringError ==
    /\ factory = "generate" /\ factory' = "send"
    /\ lastKey' \in {lastKey, lastKey + 1}
    /\ UNCHANGED <<ctx, loopVars, queue, mapVars, pipelines, group, runVars,
                   frameVars, main, terminated, bound, stuck>>

(* a failed attempt sleeps a second and starts over *)
Generate ==
    /\ factory = "generate"
    /\ \/ lastKey' = lastKey + 1 /\ factory' = "send"
       \/ UNCHANGED lastKey /\ factory' = "top"
    /\ UNCHANGED <<ctx, loopVars, queue, mapVars, pipelines, group, runVars,
                   frameVars, main, terminated, bound, stuck>>

(* select: the context is done, or the key fits into the channel, whose    *)
(* capacity is MaxParallelPipelines                                        *)
FactorySend ==
    /\ factory = "send"
    /\ \/ ctx /\ factory' = "done" /\ UNCHANGED queue
       \/ /\ Len(queue) < MaxParallel
          /\ queue' = Append(queue, lastKey)
          /\ factory' = "top"
    /\ UNCHANGED <<ctx, loopVars, lastKey, mapVars, pipelines, group, runVars,
                   frameVars, main, terminated, bound, stuck>>

Factory == FactoryTop \/ Generate \/ FactorySend

-----------------------------------------------------------------------------
(* The scheduler loop: loop and getAndServe.                               *)

(* loopWork.Add(1) runs inside the goroutine: until this step happened,    *)
(* loopWork.Wait does not wait for the loop                                *)
LoopStart ==
    /\ loop = "off" /\ loop' = "top"
    /\ UNCHANGED <<ctx, alive, sshKey, request, factoryVars, mapVars,
                   pipelines, group, runVars, frameVars, main, terminated,
                   bound, stuck>>

(* mutant: the loop does not look at its context *)
LoopTopUnchecked ==
    /\ loop = "top" /\ loop' = "key"
    /\ UNCHANGED <<ctx, alive, sshKey, request, factoryVars, mapVars,
                   pipelines, group, runVars, frameVars, main, terminated,
                   bound, stuck>>

LoopTop ==
    /\ loop = "top"
    /\ loop' = IF ctx THEN "done" ELSE "key"
    /\ UNCHANGED <<ctx, alive, sshKey, request, factoryVars, mapVars,
                   pipelines, group, runVars, frameVars, main, terminated,
                   bound, stuck>>

(* mutant: a plain receive instead of the select with the context *)
TakeKeyUninterrupted ==
    /\ loop = "key" /\ loop' = "count"
    /\ \/ sshKey # NoKey /\ UNCHANGED <<sshKey, queue>>
       \/ /\ sshKey = NoKey /\ queue # <<>>
          /\ sshKey' = Head(queue) /\ queue' = Tail(queue)
    /\ UNCHANGED <<ctx, alive, request, factory, lastKey, mapVars, pipelines,
                   group, runVars, frameVars, main, terminated, bound, stuck>>

(* a key left over from an idle poll is used again; otherwise the loop     *)
(* waits for the factory or for the end of the context                     *)
TakeKey ==
    /\ loop = "key"
    /\ \/ /\ sshKey # NoKey /\ loop' = "count"
          /\ UNCHANGED <<sshKey, queue, alive>>
       \/ /\ sshKey = NoKey /\ queue # <<>>
          /\ sshKey' = Head(queue) /\ queue' = Tail(queue)
          /\ loop' = "count"
          /\ UNCHANGED alive
       \/ /\ sshKey = NoKey /\ ctx
          /\ loop' = "top" /\ alive' = TRUE
          /\ UNCHANGED <<sshKey, queue>>
    /\ UNCHANGED <<ctx, request, factory, lastKey, mapVars, pipelines, group,
                   runVars, frameVars, main, terminated, bound, stuck>>

(* mutant: one too many *)
LoadCountInclusive ==
    /\ loop = "count" /\ loop' = "ask"
    /\ query' = (pipelines <= MaxParallel)
    /\ UNCHANGED <<ctx, alive, sshKey, reported, factoryVars, mapVars,
                   pipelines, group, runVars, frameVars, main, terminated,
                   bound, stuck>>

LoadCount ==
    /\ loop = "count" /\ loop' = "ask"
    /\ query' = (pipelines < MaxParallel)
    /\ UNCHANGED <<ctx, alive, sshKey, reported, factoryVars, mapVars,
                   pipelines, group, runVars, frameVars, main, terminated,
                   bound, stuck>>

Ask ==
    /\ loop = "ask" /\ loop' = "poll"
    /\ reported' = pipelinesMap
    /\ UNCHANGED <<ctx, alive, sshKey, query, factoryVars, mapVars, pipelines,
                   group, runVars, frameVars, main, terminated, bound, stuck>>

(* The server gives out a pipeline only when it was asked for one, and     *)
(* never one that the request reports as running.  Unless Reissue, an id   *)
(* is delivered once.                                                      *)
Issuable(id) ==
    /\ query
    /\ id \notin reported
    /\ Reissue \/ \A r \in 1 .. born : idOf[r] # id

(* nothing to do: keep the key and sleep *)
PollNothing ==
    /\ loop = "poll" /\ loop' = "sleep" /\ alive' = TRUE
    /\ UNCHANGED <<ctx, sshKey, request, factoryVars, mapVars, pipelines,
                   group, runVars, frameVars, main, terminated, bound, stuck>>

(* mutant: the key survives a failed request *)
PollErrorKeepingKey ==
    /\ loop = "poll" /\ loop' = "sleep" /\ alive' = TRUE
    /\ \/ UNCHANGED bound
       \/ \E id \in Ids :
             /\ Issuable(id)
             /\ bound' = [bound EXCEPT ![sshKey] = @ \cup {id}]
    /\ UNCHANGED <<ctx, sshKey, request, factoryVars, mapVars, pipelines,
                   group, runVars, frameVars, main, terminated, stuck>>

(* the request or its answer got lost, or the answer is unreadable: the    *)
(* server may have assigned a pipeline to the key all the same, so the     *)
(* key is given up                                                         *)
PollError ==
    /\ loop = "poll" /\ loop' = "sleep" /\ alive' = TRUE
    /\ sshKey' = NoKey
    /\ \/ UNCHANGED bound
       \/ \E id \in Ids :
             /\ Issuable(id)
             /\ bound' = [bound EXCEPT ![sshKey] = @ \cup {id}]
    /\ UNCHANGED <<ctx, request, factoryVars, mapVars, pipelines, group,
                   runVars, frameVars, main, terminated, stuck>>

(* a pipeline_run task: NewProcess gets a copy of the current key *)
PollRun ==
    /\ loop = "poll" /\ loop' = "store"
    /\ born < MaxRuns
    /\ \E id \in Ids :
          /\ Issuable(id)
          /\ bound' = [bound EXCEPT ![sshKey] = @ \cup {id}]
          /\ idOf' = Append(idOf, id)
    /\ keyOf' = Append(keyOf, sshKey)
    /\ born' = born + 1
    /\ run' = [run EXCEPT ![born + 1] = "starting"]
    /\ UNCHANGED <<ctx, alive, sshKey, request, factoryVars, mapVars,
                   pipelines, group, canceled, frameVars, main, terminated,
                   stuck>>

(* a pipeline_cancel task: the loop calls cancelPipeline for every id *)
PollCancel ==
    /\ loop = "poll" /\ loop' = "cancel"
    /\ todo' \in SUBSET Ids
    /\ UNCHANGED <<ctx, alive, sshKey, request, factoryVars, mapVars,
                   pipelines, group, runVars, step, target, main, terminated,
                   bound, stuck>>

(* mutant: the loop goes on polling after it has called Terminate *)
PollTerminateWithoutBlocking ==
    /\ loop = "poll" /\ loop' = "top"
    /\ alive' = TRUE /\ sshKey' = NoKey
    /\ \/ ~alive /\ ctx' = TRUE /\ UNCHANGED terminated
       \/ alive /\ terminated' = terminated + 1 /\ UNCHANGED ctx
    /\ UNCHANGED <<request, factoryVars, mapVars, pipelines, group, runVars,
                   frameVars, main, bound, stuck>>

(* a runner_terminate task: the very first answer suspends the runner,     *)
(* a later one closes snake.terminated and blocks the loop until shutdown  *)
PollTerminate ==
    /\ loop = "poll"
    /\ \/ /\ ~alive
          /\ ctx' = TRUE /\ loop' = "top"
          /\ alive' = TRUE /\ sshKey' = NoKey
          /\ UNCHANGED terminated
       \/ /\ alive
          /\ terminated' = terminated + 1 /\ loop' = "terminate"
          /\ UNCHANGED <<ctx, alive, sshKey>>
    /\ UNCHANGED <<request, factoryVars, mapVars, pipelines, group, runVars,
                   frameVars, main, bound, stuck>>

(* mutant: a served task does not count as the first answer *)
EndServeUnnoticed == loop' = "top" /\ UNCHANGED alive /\ sshKey' = NoKey

(* getAndServe returns after a served task: the key is dropped and the     *)
(* loop starts over without sleeping                                       *)
EndServe == loop' = "top" /\ alive' = TRUE /\ sshKey' = NoKey

LeaveTerminate ==
    /\ loop = "terminate" /\ ctx
    /\ EndServe
    /\ UNCHANGED <<ctx, request, factoryVars, mapVars, pipelines, group,
                   runVars, frameVars, main, terminated, bound, stuck>>

Sleep ==
    /\ loop = "sleep"
    /\ \/ ctx /\ loop' = "done"
       \/ loop' = "top"
    /\ UNCHANGED <<ctx, alive, sshKey, request, factoryVars, mapVars,
                   pipelines, group, runVars, frameVars, main, terminated,
                   bound, stuck>>

-----------------------------------------------------------------------------
(* startPipeline: the maps, the counter and the wait group are updated one *)
(* after the other, then the goroutine starts.                             *)

StoreId ==
    /\ loop = "store" /\ loop' = "cancels"
    /\ pipelinesMap' = pipelinesMap \cup {idOf[born]}
    /\ UNCHANGED <<ctx, alive, sshKey, request, factoryVars, cancels,
                   pipelines, group, runVars, frameVars, main, terminated,
                   bound, stuck>>

StoreCancel ==
    /\ loop = "cancels" /\ loop' = "add"
    /\ cancels' = [cancels EXCEPT ![idOf[born]] = born]
    /\ UNCHANGED <<ctx, alive, sshKey, request, factoryVars, pipelinesMap,
                   pipelines, group, runVars, frameVars, main, terminated,
                   bound, stuck>>

AddPipeline ==
    /\ loop = "add" /\ loop' = "launch"
    /\ pipelines' = pipelines + 1
    /\ UNCHANGED <<ctx, alive, sshKey, request, factoryVars, mapVars, group,
                   runVars, frameVars, main, terminated, bound, stuck>>

(* mutant: the run is not added to pipelinesGroup *)
LaunchUngrouped ==
    /\ loop = "launch"
    /\ run' = [run EXCEPT ![born] = "running"]
    /\ EndServe
    /\ UNCHANGED <<ctx, request, factoryVars, mapVars, pipelines, group, born,
                   idOf, keyOf, canceled, frameVars, main, terminated, bound,
                   stuck>>

Launch ==
    /\ loop = "launch"
    /\ group' = group + 1
    /\ run' = [run EXCEPT ![born] = "running"]
    /\ EndServe
    /\ UNCHANGED <<ctx, request, factoryVars, mapVars, pipelines, born, idOf,
                   keyOf, canceled, frameVars, main, terminated, bound, stuck>>

-----------------------------------------------------------------------------
(* cancelPipeline, called by the loop for a pipeline_cancel task and by    *)
(* the main goroutine during shutdown.                                     *)

Canceling == loop = "cancel" \/ main = "cancel"

CancelLoad ==
    /\ Canceling /\ step = "load"
    /\ \E id \in todo :
          \/ /\ cancels[id] = NoRun
             /\ todo' = todo \ {id}
             /\ UNCHANGED <<step, target>>
          \/ /\ cancels[id] # NoRun
             /\ target' = cancels[id] /\ step' = "call"
             /\ UNCHANGED todo
    /\ UNCHANGED <<ctx, loopVars, factoryVars, mapVars, pipelines, group,
                   runVars, main, terminated, bound, stuck>>

(* mutant: the cancel function is forgotten without being called *)
CancelCallOmitted ==
    /\ Canceling /\ step = "call" /\ step' = "func"
    /\ UNCHANGED <<ctx, loopVars, factoryVars, mapVars, pipelines, group,
                   runVars, todo, target, main, terminated, bound, stuck>>

CancelCall ==
    /\ Canceling /\ step = "call" /\ step' = "func"
    /\ canceled' = [canceled EXCEPT ![target] = TRUE]
    /\ UNCHANGED <<ctx, loopVars, factoryVars, mapVars, pipelines, group,
                   born, run, idOf, keyOf, todo, target, main, terminated,
                   bound, stuck>>

CancelDropFunc ==
    /\ Canceling /\ step = "func" /\ step' = "id"
    /\ cancels' = [cancels EXCEPT ![idOf[target]] = NoRun]
    /\ UNCHANGED <<ctx, loopVars, factoryVars, pipelinesMap, pipelines, group,
                   runVars, todo, target, main, terminated, bound, stuck>>

CancelDropId ==
    /\ Canceling /\ step = "id" /\ step' = "load"
    /\ pipelinesMap' = pipelinesMap \ {idOf[target]}
    /\ todo' = todo \ {idOf[target]}
    /\ target' = NoRun
    /\ UNCHANGED <<ctx, loopVars, factoryVars, cancels, pipelines, group,
                   runVars, main, terminated, bound, stuck>>

(* the loop has canceled every id of the task *)
LoopCanceled ==
    /\ loop = "cancel" /\ step = "load" /\ todo = {}
    /\ EndServe
    /\ UNCHANGED <<ctx, request, factoryVars, mapVars, pipelines, group,
                   runVars, frameVars, main, terminated, bound, stuck>>

CancelPipeline == CancelLoad \/ CancelCall \/ CancelDropFunc \/ CancelDropId

Poll == PollNothing \/ PollError \/ PollRun \/ PollCancel \/ PollTerminate

Loop ==
    \/ LoopStart \/ LoopTop \/ TakeKey \/ LoadCount \/ Ask
    \/ Poll \/ LeaveTerminate \/ Sleep
    \/ StoreId \/ StoreCancel \/ AddPipeline \/ Launch \/ LoopCanceled

-----------------------------------------------------------------------------
(* A pipeline goroutine: process.Run returns, then the deferred calls run  *)
(* in reverse order.  The maps are cleared by id, whoever put the entry    *)
(* there.                                                                  *)

RunReturn(r) ==
    /\ run[r] = "running" /\ r \notin stuck
    /\ run' = [run EXCEPT ![r] = "returned"]
    /\ UNCHANGED <<ctx, loopVars, factoryVars, mapVars, pipelines, group,
                   born, idOf, keyOf, canceled, frameVars, main, terminated,
                   bound, stuck>>

(* The jobs of the first stage wait for a first job that has been given up *)
(* (pipeline.go:306), or a request of the pipeline is never answered: no   *)
(* cancellation ends that.                                                 *)
RunSticks(r) ==
    /\ run[r] = "running" /\ r \notin stuck
    /\ stuck' = stuck \cup {r}
    /\ UNCHANGED <<ctx, loopVars, factoryVars, mapVars, pipelines, group,
                   runVars, frameVars, main, terminated, bound>>

RunDone(r) ==
    /\ run[r] = "returned"
    /\ run' = [run EXCEPT ![r] = "left"]
    /\ group' = group - 1
    /\ UNCHANGED <<ctx, loopVars, factoryVars, mapVars, pipelines, born, idOf,
                   keyOf, canceled, frameVars, main, terminated, bound, stuck>>

RunUncount(r) ==
    /\ run[r] = "left"
    /\ run' = [run EXCEPT ![r] = "uncounted"]
    /\ pipelines' = pipelines - 1
    /\ UNCHANGED <<ctx, loopVars, factoryVars, mapVars, group, born, idOf,
                   keyOf, canceled, frameVars, main, terminated, bound, stuck>>

(* mutant: the deferred function captures the id of the latest task *)
RunDropLatestCancel(r) ==
    /\ run[r] = "uncounted"
    /\ run' = [run EXCEPT ![r] = "forgotten"]
    /\ cancels' = [cancels EXCEPT ![idOf[born]] = NoRun]
    /\ UNCHANGED <<ctx, loopVars, factoryVars, pipelinesMap, pipelines, group,
                   born, idOf, keyOf, canceled, frameVars, main, terminated,
                   bound, stuck>>

RunDropCancel(r) ==
    /\ run[r] = "uncounted"
    /\ run' = [run EXCEPT ![r] = "forgotten"]
    /\ cancels' = [cancels EXCEPT ![idOf[r]] = NoRun]
    /\ UNCHANGED <<ctx, loopVars, factoryVars, pipelinesMap, pipelines, group,
                   born, idOf, keyOf, canceled, frameVars, main, terminated,
                   bound, stuck>>

(* mutant: the deferred function captures the id of the latest task *)
RunDropLatestId(r) ==
    /\ run[r] = "forgotten"
    /\ run' = [run EXCEPT ![r] = "gone"]
    /\ pipelinesMap' = pipelinesMap \ {idOf[born]}
    /\ UNCHANGED <<ctx, loopVars, factoryVars, cancels, pipelines, group,
                   born, idOf, keyOf, canceled, frameVars, main, terminated,
                   bound, stuck>>

RunDropId(r) ==
    /\ run[r] = "forgotten"
    /\ run' = [run EXCEPT ![r] = "gone"]
    /\ pipelinesMap' = pipelinesMap \ {idOf[r]}
    /\ UNCHANGED <<ctx, loopVars, factoryVars, cancels, pipelines, group,
                   born, idOf, keyOf, canceled, frameVars, main, terminated,
                   bound, stuck>>

RunEpilogue(r) ==
    RunDone(r) \/ RunUncount(r) \/ RunDropCancel(r) \/ RunDropId(r)

-----------------------------------------------------------------------------
(* The main goroutine: the select of run() in main.go, then                *)
(* Snake.Shutdown and Scheduler.shutdown.                                  *)

(* a signal, the end of the system service, or the channel that Terminate  *)
(* closes                                                                  *)
Interrupt ==
    /\ main = "select" /\ main' = "stop"
    /\ UNCHANGED <<ctx, loopVars, factoryVars, mapVars, pipelines, group,
                   runVars, frameVars, terminated, bound, stuck>>

(* mutant: the context is not canceled *)
StopContextForgotten ==
    /\ main = "stop" /\ main' = "loop"
    /\ UNCHANGED <<ctx, loopVars, factoryVars, mapVars, pipelines, group,
                   runVars, frameVars, terminated, bound, stuck>>

StopContext ==
    /\ main = "stop" /\ main' = "loop"
    /\ ctx' = TRUE
    /\ UNCHANGED <<loopVars, factoryVars, mapVars, pipelines, group, runVars,
                   frameVars, terminated, bound, stuck>>

(* mutant: shutdown does not wait for the loop *)
WaitLoopSkipped ==
    /\ main = "loop" /\ main' = "range"
    /\ UNCHANGED <<ctx, loopVars, factoryVars, mapVars, pipelines, group,
                   runVars, frameVars, terminated, bound, stuck>>

(* loopWork.Wait: the loop has ended, or has not yet registered itself *)
WaitLoop ==
    /\ main = "loop" /\ main' = "range"
    /\ loop \in {"off", "done"}
    /\ UNCHANGED <<ctx, loopVars, factoryVars, mapVars, pipelines, group,
                   runVars, frameVars, terminated, bound, stuck>>

RangePipelines ==
    /\ main = "range" /\ main' = "cancel"
    /\ todo' = pipelinesMap
    /\ UNCHANGED <<ctx, loopVars, factoryVars, mapVars, pipelines, group,
                   runVars, step, target, terminated, bound, stuck>>

ShutdownCanceled ==
    /\ main = "cancel" /\ main' = "group"
    /\ step = "load" /\ todo = {}
    /\ UNCHANGED <<ctx, loopVars, factoryVars, mapVars, pipelines, group,
                   runVars, frameVars, terminated, bound, stuck>>

WaitGroup ==
    /\ main = "group" /\ main' = "routines"
    /\ group = 0
    /\ UNCHANGED <<ctx, loopVars, factoryVars, mapVars, pipelines, group,
                   runVars, frameVars, terminated, bound, stuck>>

WaitRoutines ==
    /\ main = "routines" /\ main' = "down"
    /\ loop = "done" /\ factory = "done"
    /\ UNCHANGED <<ctx, loopVars, factoryVars, mapVars, pipelines, group,
                   runVars, frameVars, terminated, bound, stuck>>

Shutdown ==
    \/ StopContext \/ WaitLoop \/ RangePipelines \/ ShutdownCanceled
    \/ WaitGroup \/ WaitRoutines

(* the process is over: nothing moves any more *)
Down == main = "down" /\ UNCHANGED vars

(* pipelinesGroup.Wait, with a canceled pipeline that will never return    *)
Hang ==
    /\ main = "group" /\ \E r \in stuck : canceled[r]
    /\ UNCHANGED vars

Next ==
    \/ /\ main # "down"
       /\ \/ Factory \/ Loop \/ CancelPipeline
          \/ \E r \in Runs : RunReturn(r) \/ RunSticks(r) \/ RunEpilogue(r)
          \/ Interrupt \/ Shutdown
    \/ Down \/ Hang

Spec == Init /\ [][Next]_vars

(* Every goroutine keeps running and timers fire.  Signals need not come,  *)
(* the request for a task, that has no timeout, need not be answered, and  *)
(* a run need not return unless its context is canceled, and not even then *)
(* when it sticks.                                                         *)
Fairness ==
    /\ WF_vars(Factory) /\ WF_vars(CancelPipeline)
    /\ WF_vars(loop # "poll" /\ Loop)
    /\ WF_vars(terminated > 0 /\ Interrupt) /\ WF_vars(Shutdown)
    /\ \A r \in Runs : /\ WF_vars(canceled[r] /\ RunReturn(r))
                       /\ WF_vars(RunEpilogue(r))

FairSpec == Spec /\ Fairness

-----------------------------------------------------------------------------
(* Properties.                                                             *)

Live == {r \in Runs : run[r] \in {"running", "returned"}}

(* No more pipelines run at a time than max_parallel_pipelines, although   *)
(* the counter is read long before the answer arrives, and although a      *)
(* finished pipeline is counted a while longer.                            *)
ParallelLimit == Cardinality(Live) <= MaxParallel

(* Nothing the server may have handed out ties one ssh key to two          *)
(* pipelines: a key is given up as soon as a request carrying it has       *)
(* failed or has brought a task.                                           *)
KeyPerPipeline ==
    /\ \A k \in Keys : \A i, j \in bound[k] : i = j
    /\ \A r \in 1 .. born : idOf[r] \in bound[keyOf[r]]

(* A pipeline that runs and was not canceled can be canceled: its id leads *)
(* to its own cancel function.                                             *)
Cancelable ==
    \A r \in 1 .. born :
        run[r] = "running" /\ ~canceled[r] => cancels[idOf[r]] = r

(* A pipeline that runs and was not canceled is reported to the server.    *)
Reported ==
    \A r \in 1 .. born :
        run[r] = "running" /\ ~canceled[r] => idOf[r] \in pipelinesMap

(* The two maps lose no running pipeline, in whatever order epilogues,     *)
(* cancel tasks, starts and shutdown write to them.                        *)
Tracked == Cancelable /\ Reported

(* When shutdown starts waiting for the pipelines, each of them has been   *)
(* told to stop: none was missed by the snapshot of pipelinesMap.          *)
ShutdownReachesAll ==
    main \in {"group", "routines", "down"} =>
        \A r \in Runs : run[r] \in {"starting", "running"} => canceled[r]

(* Once shutdown has taken its snapshot of pipelinesMap no pipeline is     *)
(* created any more, even if the loop goroutine only starts now.           *)
NoLateStart ==
    [][(main \in {"cancel", "group", "routines"}) => born' = born]_vars

(* When shutdown is over, no pipeline is inside process.Run.               *)
DownMeansIdle ==
    main = "down" => \A r \in Runs : run[r] \notin {"starting", "running"}

(* The pipelines inside process.Run are a pool with max_parallel_pipelines *)
(* places, which shutdown closes step by step.                             *)
Pool == INSTANCE PipelinePool WITH
    Limit <- MaxParallel,
    live  <- {r \in Runs : run[r] = "running"},
    ended <- {r \in Runs : run[r] \notin {"none", "starting", "running"}},
    told  <- {r \in Runs : canceled[r]},
    phase <- IF main = "cancel" THEN "closing"
             ELSE IF main = "group" THEN "waiting"
             ELSE IF main \in {"routines", "down"} THEN "down" ELSE "open"

(* Starts, cancellations, returns and shutdown, spread over maps, counters *)
(* and wait groups, together do what PipelinePool says.                    *)
IsPool == Pool!Spec

(* Terminate closes snake.terminated at most once: a second close panics.  *)
TerminateOnce == terminated <= 1

(* A runner suspended by its first answer has never started a pipeline.    *)
SuspendedIsIdle == ctx /\ main \in {"select", "stop"} => born = 0

(* A terminate task means one of two things, depending on the answers      *)
(* before it, and neither goes wrong.                                      *)
TerminateSound == TerminateOnce /\ SuspendedIsIdle

(* A shutdown, however it was requested, comes to its end, unless it waits *)
(* for a pipeline that is stuck, or for the loop that waits for an answer  *)
(* of the server.                                                          *)
ShutdownCompletes ==
    \/ main # "select" ~> main = "down" \/ (main = "group" /\ stuck # {})
    \/ <>[](main = "loop" /\ loop = "poll")

(* A runner_terminate task to a working runner brings the process down,    *)
(* unless a pipeline is stuck.                                             *)
TerminateHonoured ==
    terminated > 0 ~> main = "down" \/ (main = "group" /\ stuck # {})

(* Whoever asks the runner to stop is obeyed in the end: nothing but a     *)
(* pipeline that never returns or a server that never answers stands in    *)
(* the way.                                                                *)
StopsWhenAsked == ShutdownCompletes /\ TerminateHonoured

(* A pipeline whose cancellation was requested stops, unless it is stuck.  *)
CancelHonoured ==
    \A r \in Runs :
        (run[r] = "running" /\ loop = "cancel" /\ idOf[r] \in todo)
            ~> run[r] # "running" \/ (canceled[r] /\ r \in stuck)
=============================================================================
