# A formal model of snake-runner

snake-runner is the agent of a continuous integration server.  It registers
with the server, polls it for tasks, runs pipelines of jobs in containers or in
the shell of the host, and reports statuses and logs back.  This directory
holds TLA+ modules that model it, configurations for the model checker TLC,
and proofs checked by TLAPS.  Paths below are relative to the repository.

## 1. Inventory

| Component | Source | State | Operations | Module |
|---|---|---|---|---|
| main goroutine, Snake | `cmd/snake-runner/main.go`, `snake.go` | reasons to stop, context, workers | run, Start, Shutdown, Terminate | `Runner`, `Scheduler` |
| registration | `register.go`, `internal/runner/config.go` | token file, token | LoadConfig, mustRegister, writeAccessToken | `Runner` |
| heartbeats | `heartbeat.go` | first-beat flag | startHeartbeats | `Runner` |
| task scheduler | `scheduler.go` | context, maps of running pipelines and cancel functions, counter, wait groups, current ssh key, `alive` | loop, getAndServe, startPipeline, cancelPipeline, shutdown | `Scheduler`, `PipelinePool` |
| ssh key factory | `internal/sshkey` | a bounded queue of keys | Run, Get | `Scheduler` |
| concurrent maps | `internal/safemap` | a map and a lock | Load, Store, Delete, Range | `Scheduler` |
| pipeline process | `internal/pipeline/pipeline.go` | sidecar, configuration, status, two `sync.Once` | Run, runJobs, runJob, processJob, readConfig, fail, destroy | `Pipeline`, `JobSetup` |
| condition | `internal/signal` | `ok` and a condition variable | Satisfy, Unsatisfy, Wait | `Pipeline` |
| job process | `internal/job/process.go` | shell, container, chain of log writers | Run, execShell, detectShell, Destroy, getImage, credentials | `Job`, `JobSetup` |
| log buffer | `internal/bufferer` | pipe, buffer, three mutexes, two wait groups | Write, Close, Run | `Bufferer`, `LogStream` |
| sidecars, ssh-agent | `internal/sidecar` | container or directories, ssh-agent | Serve, Destroy, ReadFile | `Sidecar` |
| docker executor | `internal/executor/docker` | containers, images | Create, Exec, Destroy, Cleanup, Prepare, PullImage | `Sidecar`, `Job`, `Runner`, `Images` (part) |
| shell executor, process set | `internal/executor/shell`, `internal/set` | box of processes | Create, Exec, Destroy | `Sidecar`, `Job` (part) |
| configuration file | `internal/config`, `internal/mapslice` | none (pure) | Unmarshal, New, Find | `ConfigFile` |
| environment | `internal/env` | none (pure) | Build | `Environment` |
| masker | `internal/masker` | the replacer | New, Write | `Masker`, `JobSetup` |
| API client | `internal/api` | none | one request each | requests in `Pipeline`, `Scheduler`, `Runner` |
| tasks | `internal/tasks` | none | Unmarshal | `Scheduler` |
| probes, service, actions | `cmd/snake-runner` | a channel | probe, stop | `Runner` (part) |

How they interact: the main goroutine makes sure that there is a token, removes
the containers of earlier lives, starts the scheduler loop (with the key
factory) and the heartbeats, and waits for a reason to stop.  The loop takes a
key from the factory, asks the server for a task and starts one goroutine per
pipeline, which executes `pipeline.Process.Run`.  This starts one goroutine per
job of the current stage.  The first job sets up the sidecar (a goroutine of
its own executes `ssh-agent`), reads the configuration file and signals the
condition that the other jobs wait for.  Each job pulls its image, builds its
environment, and writes its output through a masker into a `Bufferer`, whose
goroutine pushes it to the server.  Cancellation flows the other way: a cancel
task or shutdown ends the context of a pipeline, and everything below is
expected to notice.

What is hard: maps, counter and wait group are updated one after the other
while others read them; a request may fail after the server has obeyed; the
program may die between two steps of a registration; the loop may register
itself too late for the shutdown that waits for it; jobs share a configuration
with only a condition variable between them; channels are closed while others
may send; a canceled command is left behind with its output still coming; the
teardown has to cope with every half of a setup; and parts of the input are
processed in the random order of Go's maps.  `PROJECT.json` lists these hazards
at their lines, each with the properties that would catch it going wrong.

## 2. The modules

### Runner

The life of the program around its scheduler.  `main` is the main goroutine
from `LoadConfig` to the return of `Shutdown`, `beat` the goroutine of the
heartbeats.  A *life* is one execution; it may end at any step (`Crash`), and
`Boot` is the service manager's restart.  The token file, the containers and
the server's knowledge survive.  Writing the token is two steps, since the file
is emptied first; `DiskBreaks` makes it unwritable at any time, and the test
write before the registration (`TestWrite`) is what notices.  `mishaps` counts
what may cost a second registration.  The operator may also configure a token,
in the file or as `SNAKE_ACCESS_TOKEN` (`configured`, which each `Boot` may
change): it is taken as it is, without the token file, and a token file that
exists and cannot be read ends the process (`LoadConfig`).  The scheduler is
only a flag here and the container of one job per life, which is what `Cleanup`
of the next life meets. Its shutdown either returns or waits for ever
(`ShutdownHangs`), for a pipeline that sticks or a loop without an answer: both
are in `Scheduler`.

### Scheduler and PipelinePool

One module for four kinds of goroutines, because they meet in the same
variables.  `loop`, `factory`, `main` and `run[r]` are program counters; the
other variables carry the names of the fields.  A *run* is a started pipeline.
Runs are numbered, since a server may hand out the same id twice (`Reissue`),
and the maps are keyed by id: `cancels[id]` is the run whose cancel function is
stored.  `cancelPipeline` is called by the loop and, after the loop has ended,
by shutdown, so that one frame `<<todo, step, target>>` serves both.  The
variable `bound` is history: the ids that the server may have tied to each key.

A run that sticks (`RunSticks`) never returns, whatever is canceled.  That is
what the run `pipeline_lost` shows of `Pipeline`, and what a request without an
answer does; `Hang` is the shutdown that waits for it (`scheduler.go:303`).

The server is external: it answers a poll with nothing, an error (before or
after it has assigned a pipeline), or one of three tasks.  It gives a pipeline
only when asked for one and never one the request lists as running.

`PipelinePool` is what the scheduler promises of its pipelines, without ids,
maps, counters or wait groups: at most `Limit` at a time, each runs once and not
after it was told to stop, and the pool closes in order: nobody is let in any
more, everybody inside is told to stop, everybody is awaited.  `Scheduler` is
shown to implement it.  `live` is who is inside `process.Run`, `told` whose
cancel function was called, and `phase` how far `shutdown` is in `main`.

### Pipeline

One pipeline.  `main` is `Process.Run`, `job[j]` the goroutine of job `j`,
`report` what the server believes of each job and, at 0, of the pipeline.
`Put` is a status update: when it fails, the server may or may not have obeyed.
`stage` is chosen from `Layouts`; the operators `Leaders`, `StageOf` and
`LaterLeaders` are `splitJobs`.  What a job and the sidecar do inside is
abstracted to the outcome.  `Panics` allows the YAML decoder to panic (a scalar
expected where `mapslice.go:54-58` finds something else).

### Job

The inside of what `Pipeline` abstracts to the outcome of a job: `owner` is the
goroutine of `job.Process.Run` up to the deferred end of `processJob`, `exec[c]`
the goroutine that `execShell` starts for command `c`, `process[c]` the command
itself.  `exec[c] = "done"` means that the channel of `execShell` holds
`status[c]`.  On the host `Exec` waits for the process and for its output.  In
docker it goes by the output alone: when that has ended (`OutputOver`), because
the process has or because it has closed its output and goes on (`quiet`,
`Silence`), the exit code is asked for, and that of a process which still runs
reads as 0 (`Outcome`).  A container that was created and could not be started
is `forgotten`: `Create` returns no container along with the error, so nobody
removes it.  The log is a chain: `rest` is the incomplete line that the mask
writer (the library `lineflushwriter`, external: it flushes whole lines, `Close`
completes the last one and closes the writer behind) holds back, `direct` what
has reached the `Bufferer`.  `written` is history: what the mask writer has
accepted.  Three things an abandoned command may do are in the model and
excepted by `ExecsEnd`: stay in a container that cannot be removed, leave
orphans behind that keep its output open, and wait for a lock that the panic of
`ExecCmdSet.List` has left taken (`locked`).

### Bufferer and LogStream

Line by line translation of `Write`, `Close` and `Run` with the three mutexes,
two wait groups and two channels.  `LogStream` is the abstract promise: the
delivered log is always a beginning of the accepted one, nothing accepted is
withheld for ever.  `Bufferer` is shown to implement it with
`log <- accepted, delivered <- flushed`.  `Run` may register itself at any time:
a `Close` that comes first returns without a flush (its state `missed`), which
`CloseFlushes` excepts and `IsLogStream` does not.

### Sidecar

`Serve`, `Destroy` and the goroutine of `startSshAgent`, in two modes.  The
context is looked at before a process starts, in a step of its own.  Docker
containers, processes and directories are the outside world: an exec in a
removed container fails, a removed container takes its processes along, a
process started with `CommandContext` dies with the context, the ssh-agent may
end by itself at any time, and an exec in a container may give up on a process
that goes on (`AgentLost`).  Each command of the owner may fail.  `List` of the
process set is two steps, since it reads the length before it takes the lock.

### JobSetup, with ConfigFile, Environment, Masker and Images

What becomes of the *data* of one job, where `Pipeline` and `Job` follow its
control.  The four pure modules translate one package each:

- `ConfigFile`: what `Unmarshal` asks of an abstract YAML document (scalars,
  sequences, mappings), the decoding of one job into a record that may have
  values already, `MapSlice` and its `Find`.  The YAML syntax itself is
  external.
- `Environment`: the layers of variables and `os.Expand`.  A text is a sequence
  of atoms, and a name in it is a reference.  `task.Env` is a map, so every
  order of its pairs is a result.
- `Masker`: which secrets are chosen, their order, and `strings.Replacer`, which
  is deterministic: at each position the first secret that matches.
- `Images`: image references, tags, and the choice of credentials.

`JobSetup` composes them along the code: the credentials of the environment and
the pipeline are looked up (`PrepareVariables`), then the first job reads the
file, a job is looked up and its environment built, its image is
expanded, searched, pulled and searched again, and its output is written in
portions of any size through line buffer and masker.  `Unmarshal` is taken step
by step, with its locals `raw`, `job` and `parsed`: the document, image and
stages (`ReadHeading`), one iteration of the loop over the jobs for each name
that is left, in any order (`DecodeJob`), and the variables of the pipeline
(`DecodeVariables`).  Each of them may return with an error and with what is
there so far, which `readConfig` stores; a panic stores nothing.

The properties compare the result with reference definitions that say what is
meant and not how it is computed: wherever the loop over the jobs has ended, a
job of the configuration is one of the file and has what its own node says and
nothing else, exactly the files that are well formed are accepted, and then as a
whole, and only the jobs that waited go on with a part (`JobsAsWritten`); a
variable has the value of
the last layer that sets it, and a reference in it the final value of what it
refers to, unless that is set again later (`LayersInOrder`); stars stand in the
log only where a secret is, and each occurrence of a secret is starred from its
beginning, to its end unless an earlier occurrence runs into it
(`Masker!Hides`); the image that is run is there, and what is sent to a registry
are credentials for this registry, those of the runner only when the task has
none (`PulledAsMeant`).

### MC modules and mutants

`MC...` modules instantiate a module for TLC; `MCJobSetup` has the families of
scenarios.  Operators with a comment `mutant:` are variants of the next
definition with a plausible bug.  The specifications do not use them:
substituting one for the definition it precedes breaks the property that
`PROJECT.json` names, which shows that the property depends on the code that
the definition stands for.

## 3. The runs

| Run | Instance | Shows |
|---|---|---|
| `scheduler` | 2 ids, 1 in parallel, 2 runs, 3 keys | limit, key discipline, maps, shutdown snapshot, terminate, refinement of `PipelinePool`; shutdown ends, terminate and cancel are honoured, unless a pipeline sticks or a poll is never answered |
| `pipeline_safe` | 5 layouts of 3 jobs, 2 failing updates, panics | order of stages, life of the repository, stable, true and complete reports; a canceled pipeline ends unless its first job was given up, failures are reported |
| `job` | 2 commands with 2 chunks of output, both modes | commands in sequence as far as the executor can tell, ordered and complete log, a started container given back, a canceled job and what it leaves behind end |
| `bufferer` | 2 writers with 2 lines, 2 closers, pipe of 1, flush at 2, Run starts at any time | no panic, no loss, no reordering, Close flushes, refinement of `LogStream`, Write and Close return |
| `sidecar` | one pipeline, both modes | Serve and Destroy end, the ssh-agent is reaped |
| `runner` | 3 lives, 2 mishaps | no registration wasted, the token in use is on disk, no container of an earlier life in the way, version handshake, a stop is honoured unless an answer or a pipeline never comes |
| `inputs` | some 33,000 scenarios in four families | parsing, environment, masking, and pulling against reference definitions |
| five more | see section 4 | disagreements |

Bounds.  One pipeline at a time with a second one waiting is the least that
makes the limit matter, and the second one overlaps the epilogue of the first;
a third key lets one be lost to an error.  The safety properties of this run
are proved for all values, so that the instance has to be large enough only for
liveness.  Three jobs give every shape of two stages, one and three stages, and
a list that mixes two.  Two failing updates allow one in a job and another in
the report of its failure.  Two commands show one left behind while the next
could start, two chunks an incomplete line that another completes.  A pipe of
one line is full at once, a flush size of two makes both the flush by size and
the flush by ticker happen.  Three lives let a token be lost, a registration be
repeated and its token be found again; a container left in the first may be
spared by the cleanup of the second and met by that of the third.  The
scenarios of `inputs` give each part every input of a small set: files with up
to four names whose nodes are of every kind, references in every layer of
variables, secrets that overlap, contain each other or have several lines in
every text of up to four characters, references with and without registry,
port, tag and variables with credentials at every level.  The bounds appear in
the guards as `MaxRuns`, `MaxKeys`, `MaxFaults`, `MaxWrites`, `MaxOutput`,
`MaxLives` and `MaxLost`.

Deadlock is checked for the scheduler, the job and the sidecar.  It is not for
the buffer, the runner and the setup of a job, which stop when everything that
the bound allows has happened, and not for the pipeline with failing updates or
panics, which really may stop (next section).

Fairness.  Every goroutine is scheduled (weak fairness of its steps), and timers
fire.  Signals, tasks, writes, closes, crashes, restarts and successful
registrations need not happen.  A command need not end by itself, only once its
context is done.  No cancellation ends everything, and the HTTP clients have no
timeout; what may wait without end is therefore an action or a step without
fairness, and each liveness property names it as its exception:

- A canceled run returns *or sticks* (`RunSticks`); `CancelHonoured`,
  `ShutdownCompletes` and `TerminateHonoured` except a canceled run that sticks.
  `CancelStopsUnlessAbandoned` says of `Pipeline` that a first job given up
  before the signal is the only reason for that, as long as its requests are
  answered.
- The poll of the loop need not be answered (no fairness of `Loop` in "poll"):
  `ShutdownCompletes` excepts a shutdown that waits for it.
- `StopHonoured` excepts a runner that is `Held` for ever: in a registration
  that is refused or not answered (`mustRegister` looks at no context, so that
  such a runner can only be killed), in a request to docker, in the shutdown of
  a scheduler that hangs, and in a heartbeat without an answer.

In `Pipeline`, `Job` and `Sidecar` requests to the server and to docker are
assumed to be answered or to fail.

## 4. Disagreements found

Each is a run with the expectation `violation`.

| Run | What happens |
|---|---|
| `pipeline_lost` | When the RUNNING update of the first job fails, nobody signals the condition; the other jobs of its stage, the pipeline and the shutdown wait for ever. |
| `pipeline_config` | Jobs go on with a partly parsed file after it could not be read. |
| `inputs_auth` | Credentials that the file has are not used: those of the pipeline level are looked up before the file is read (`pipeline.go:84`), those of the job level are missed when they are its first variable (`mapslice.go:61`). |
| `sidecar_nil` | `CloudSidecar.Destroy` waits on a nil wait group when Serve failed before the ssh-agent. |
| `sidecar_list` | `Shell.Destroy` panics when the process set changes while it is listed. |

Some more follow from the models without a run of their own.  A panic that
`runJob` recovers while the first job reads the configuration (`Panics`) leaves
its siblings waiting like `pipeline_lost`.  `ShellSidecar` never removes its
temporary directory (`shell_sidecar.go:60`): no action of `Sidecar` resets
`tempDir`.  A cancellation during `readConfig` is reported as FAILED, not as
CANCELED (`pipeline.go:298`).  In shell mode a canceled command may leave
orphans that keep its `Exec` waiting (`CommandContext` kills only the shell,
`shell.go:115`), and when `List` panics inside its lock (`set_gen.go:150`),
`Exec` waits in `Delete` for ever.  The incomplete last line of the sidecar's
output is lost when the first job sets up its own mask writer
(`process.go:117`).  Names at the top level of the file that are not stages or
image, `variables` and `shell` among them, become jobs (`ConfigFile!JobNames`).
A reference with a port and no tag does not get the tag `latest`
(`Images!Tag`), and the pull then finds another reference than the one asked
for.  A variable of the task that refers to another one has a value that
depends on the order of a map (`LayersInOrder` leaves it open).  Of two secrets
that overlap in the log, the tail of the right one stays visible
(`SecretsMasked` says so).  `Exec` of docker ignores `info.Running`
(`docker.go:300`): a command that closes its output and goes on counts as
successful, and the next one starts beside it (`CommandsInSequence` says so).  A
container whose start fails is never removed by its job (`docker.go:233`,
`ContainerReleased`).

With `Reissue` the invariants `Tracked` and `ShutdownReachesAll` do not hold:
the deferred deletions of an old run remove the entries of a new one with the
same id.  Whether a server hands out an id while its earlier run is ending
cannot be told from this repository, so this is a stated assumption and not a
finding.

## 5. The proofs

Every safety and action property of the passing runs, and the safety half of
both refinements, is a theorem, for every value of the constants, from the named
assumption on the constants in each module.  The proofs use the specification
without fairness.  Each proof module names its inductive invariants and has one
step for each action.  A property is seldom inductive as it stands; what had to
be added is the argument.

**Scheduler** (`SchedulerAssumption`: any ids, any bounds)

- `IInv` is the inductive invariant.  `TypeOK` alone is not inductive:
  `cancels[id]` and `target` must stay below `born`, a key must be in hand when
  the server answers (`KeyInv`), a run being started must be the latest one and
  exist only while the loop is inside `startPipeline` (`RunInv`),
  `cancelPipeline` must be executed by one goroutine at a time (`FrameInv`),
  and behind `loopWork.Wait` the loop has nothing left but to notice that its
  context is done (`MainInv`).  From it follow `TypeCorrect` and
  `NoPipelineAfterSnapshot`; the latter does not need the loop to be registered
  in `loopWork`: the context is done before the wait.
- Under `Reissue = FALSE`, `CancelInv` adds that ids are unique and follows the
  entries of both maps from `startPipeline` to the epilogue, and shutdown's
  snapshot from `Range` to the last cancellation.  It gives
  `ShutdownMissesNone` and `RunsStayTracked`.
- `TerminateInv` relates `alive`, `terminated` and the context; it gives
  `TerminateIsSound`.
- The keys: each is followed from the factory through the queue and the hand of
  the loop to the server.  `PlaceInv`: a key is in one place at a time;
  `FreshInv`: no pipeline is bound to it before the request that carries it.
  With these `KeyPerPipeline` is inductive and gives `OneKeyOnePipeline`.
- The counters.  `LimitInv`: the counter equals the number of runs that have
  not left it, plus one while a run is about to be launched; and since only the
  loop increments it, a value below the limit read before the request stays an
  upper bound until the loop itself changes it.  `GroupInv` does the same for
  the wait group.  They give `LimitHolds` and `DownIsIdle`.
- The refinement of `PipelinePool`, under `Reissue = FALSE`.  Most steps leave
  the pool as it is (`MostStepsAreStill`); `StepsOfThePool` maps each of the
  others to a step.  What the guards of the abstract steps ask for comes from
  the invariants above: room for `Start` from `LimitInv` and an open pool from
  `MainInv`, since the limit was checked before the request and before a
  shutdown that may have begun meanwhile; `live \subseteq told` for `Await` from
  `CancelInv`; an empty pool for `Leave` from `GroupInv`.  `ToldInv` adds that
  no run is told to stop before it has started.  `ImplementsPool` is the result.

- `ShutdownNeverStalls`, under `Reissue = FALSE`: while shutdown waits for the
  loop, for the pipelines or for the key factory, one of them can go on without
  waiting for another, unless a canceled pipeline sticks.  `CancelInv` and
  `GroupInv` are what it takes: a pipeline need not return before it is
  canceled; behind the snapshot every pipeline is, and whoever is counted in
  the wait group is one of them.

All but `ShutdownMissesNone`, `RunsStayTracked`, `ImplementsPool` and
`ShutdownNeverStalls` hold with `Reissue` as well: they are what remains when a
server hands an id out again while its earlier run is still clearing the maps.

**Pipeline** (any lists of jobs, any number of failing updates, with and
without panics)

- `OrderInv` says which stage is executed and how far it is; with `OnceInv`,
  which says who has failed, it gives `StagesInOrder`.  It rests on two facts
  about lists: each stage has a first job (`LeadersExist`, by well-founded
  induction on the numbers), and in a contiguous list what belongs to a later
  stage stands behind (`LaterStages`).
- `RepoInv`: only the first job touches sidecar, configuration and condition,
  and nobody gets past `Wait` before it has.  It gives `SidecarOutlives` and
  `ConfigIsStable`: the condition variable is enough although there is no lock.
- `ReportedInv` follows each status update and `process.fail` through the list;
  `TruthInv` says that SUCCESS and SKIPPED are true.  They give
  `ServerIsInformed`.
- `FinalInv`: where the server has a final status, nobody is left to send
  another.  It gives `FinalIsFinal`.
- `SpawnInv`: all jobs of the awaited stage have been started, and the first
  job of the list neither waits for the condition nor succeeds without the
  signal. With `OrderInv`, `OnceInv` and `RepoInv` it gives
  `OnlyTheSignalIsMissed`: what the run `pipeline_lost` shows is the only way
  to get stuck.

**Job** (any number of commands and chunks)

- `SeqInv`: the last command started is the only one that may not be over.  It
  is needed for the types as well, and says where a success comes from: from the
  process, or in docker from the end of its output.  It gives
  `CommandsAreInSequence`.
- `CloseInv`: a container runs only between Create and the deferred Destroy.
- `LogInv`: the incomplete line is output of the last command, and its prompt
  is in the log, so that whatever gets flushed later is in order.  `FlowInv`:
  what has reached the buffer and the incomplete line are together what was
  accepted, except that a verdict may come in between once Run is over.  They
  give `LogIsFaithful`.
- `LeftInv`: only a cancellation makes the owner leave a goroutine behind, and
  nothing survives the container it runs in, and commands and success need a
  container that was started.  It gives `ContainerIsReleased`, and
  `NothingIsLeftWaiting` with the exceptions that `NothingLingers` has.

**Bufferer** (any writers, closers, sizes)

- `LockInv` (one Close at a time in its critical section) and `SendInv` (who
  enters Write after the wait for the writers finds `done` closed) give
  `NeverPanics`.
- `FlowInv`, the equation `accepted = flushed \o (buffer \o pipe)`, with
  `FinishInv` and `EarlyInv` gives `ClosingFlushes`.
- `OnceInv` adds that no line is accepted twice.  `ImplementsStream` then maps
  every step to a step or a stutter of `LogStream`.
- `MutexInv`: each inner mutex is held only during the wait it covers.  With
  the invariants above it gives `NeverDeadlocks`: whoever waits, for a mutex, a
  wait group or room in the pipe, waits for somebody who can go on.

**Sidecar**: `AgentInv` relates the process to the goroutine that executes it
and to the container it lives in; it gives `AgentIsReaped`.  `AnswerInv` adds
that a goroutine that ended while it was awaited has left an error unless the
context is done, and gives `CallsAreAnswered`: whatever Serve and Destroy wait
for comes, except in mode shell from an ssh-agent that `List` has missed, as
long as nobody cancels the pipeline (so `DestroyEnds` is about mode docker, and
`CanceledDestroyEnds` about both).  The module's
`TypeOK` is proved too (`TypeCorrect`); the run `sidecar` does not list it.

**Runner** (any number of lives and mishaps): `TokenInv` says where the token
is: configured, in hand or in the file.  `CountInv` is the bookkeeping behind
`RegistersOnce`: a registration is paid for by a mishap unless its token is in
the file or in hand, and a token in hand of a runner that cannot store it has
been paid for when the disk broke. `StageInv` and `CleanInv` order the cleanup
before the scheduler.  They give `IsAuthenticated` and `StartsClean`;
`VersionIsKnown` follows with them.

**Masker** (any text, any set of secrets): `MaskHides` says that `Mask` fulfils
the reference definition `Hides`.  `Mask` is a recursive function from the end
of the text to its beginning, and the provers have no induction over data.  The
proof takes the set of positions from which `Mask` does not do what it should,
and the greatest of them (`GreatestOf`, from the well-foundedness of `<`):
behind it all is well, and that makes it well there.  `FirstIsLongest` says
which secret the replacer takes where several match.  `HidesConcat` puts two
masked texts together when no secret reaches across.

**JobSetup** (`EnvironmentAssumption`, `ImagesAssumption`: the environment of
the runner and the default image are texts).  The theorems are about
`Start(scenario) /\ [][Next]_all`, one behaviour for each scenario, and have as
hypotheses that the scenario has the shape that decoding gives it: `NodesFit`
(a set of nodes of which each is a scalar, a sequence of nodes or a sequence of
pairs of a name and a node) and `ScenarioFits` (the file is one of them, the
environment of the task is a finite map from names to texts, docker keeps
normalized references).  Each disjunct of the initial predicate of `MCJobSetup`
is a `Start` of a scenario that fulfils both, and the invariants below were
model-checked on all its scenarios before they were proved.  The literals of
the model are strings, but no prover knows it; `Atoms` in `MaskerProofs`
therefore lists those in use beside `STRING`.

- `ConfigInv` with `LoopInv`, the invariant of the loop: `parsed` has the jobs
  decoded so far, each as it is written, and the names of the file are those and
  the ones in `raw`; so that the loop has missed none when `raw` is empty, and
  whatever it is left with, by an error, is right as far as it goes.  It gives
  `JobsAreAsWritten`, which has no hypotheses.  That the job of the loop is new
  each time is `DecodedAsWritten`.
- `SetupInv`: from the lookup of the job on, the variables are one of the
  results of `Build` for the configuration and the task, and are kept.  With
  the lemmas about `SetVar` and about the order in which a map is read it gives
  `LayersAreInOrder`.
- `LogInv` follows the output from the portions written through the line
  buffer: what has been logged hides the secrets of the complete lines.  With
  `MaskHides`, and since no secret contains a line break, it gives
  `SecretsAreMasked`.
- `PullInv` follows the image from its expansion over the two searches to the
  pull, and the credentials from their level to the registry.  It gives
  `ImagesArePulledAsMeant`.

These proofs corrected the model.  The `CASE` expressions of `ConfigFile`
had overlapping conditions, where the code has a chain of `if`: TLA+ leaves the
choice open, TLC takes the first, and what TLC had checked was not what the
module said.  `LayersInOrder` forgot that a reference to one of the runner's own
names is expanded before these are set.

Five of the theorems are the part of the liveness properties that is safety:
`ShutdownNeverStalls`, `OnlyTheSignalIsMissed`, `NothingIsLeftWaiting`,
`NeverDeadlocks`, `CallsAreAnswered`.  Each says that in every reachable state
in which something is still to come, the guard of some goroutine holds that is
not a wait for another one, or names the exception.  The guards are those of
the actions under fairness (the operators named `...CanMove`).  So no circle of
waits exists for any value of the constants; what is left to TLC is that the
steps lead to the end, which needs the fairness and a measure.

Only model-checked: all liveness (`StopsWhenAsked`, `CancelHonoured`,
`CancelStopsUnlessAbandoned`, `FailureReported`, `NothingLingers`, both
`CallsReturn`, `StopHonoured`, and the fairness of `IsLogStream`), since TLAPS
does not prove properties that rest on fairness.

## 6. Not modelled, and the plan

Not modelled, since nothing of interest can go wrong in a model of it: wording
of logs and errors, HTTP and JSON, YAML syntax, the generation of keys, the
installation of the system service, the defaults of the runner's configuration,
`audit`, `syncdo`.

Known gaps, each too close to a library, a daemon or the operating system, or
not yet done:

- `Bufferer.Write` keeps the slice of its caller in the pipe
  (`bufferer.go:96`): a caller that reuses its buffer would change a line that
  is waiting.  With secrets to mask the replacer hands over copies; without, it
  depends on the library `lineflushwriter`, which is not in this repository.
- `Pipeline.processJob` copies `process.config` once before the wait
  (`pipeline.go:274`), without a lock and while the first job may be writing it;
  the copy is replaced after the wait (`pipeline.go:310`) before anything reads
  it, and is not modelled.
- The debug log of the runner itself masks single portions
  (`process.go:307`): a secret cut in two stays readable there.
- Containers created but not started survive a crash, since `Cleanup` lists
  running ones (`docker.go:233`); `CleanStart` is about running ones.  Two
  runners on one daemon would remove each other's containers (`docker.go:332`).
- The masker is built from the environment of the job; a secret that only the
  command computes is not one (`masker.go:28`).
- Image digests; images removed by others between Prepare and Create; the
  alphabet of base64 in `encodeAuth` (`docker.go:391`).
- The directories of the pipelines of a crashed runner stay
  (`shell_sidecar.go`); `MkdirAll` with 0o664 (`register.go:65`) gives a
  directory that only root can enter.
- `ReadFile` of the cloud sidecar joins the chunks of the output with line
  breaks (`cloud_sidecar.go:309`).

Next, in this order:

1. `Job` composed with `Bufferer` (its `direct` as the abstract log stream) and
   shown to implement what `Pipeline` assumes of a job.
2. An abstract pipeline lifecycle that both `Scheduler` (a run) and `Pipeline`
   implement, so that the fairness assumed of runs is discharged by refinement.
3. `Box`: the shell executor with several commands and the process set.
4. `Docker`: several containers per life, created-only ones, two runners.
