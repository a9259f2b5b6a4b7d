-------------------------------- MODULE Job --------------------------------
(***************************************************************************)
(* One job of a pipeline: internal/job/process.go on top of the executor   *)
(* for containers (mode docker) or the one for the host (mode shell), and  *)
(* the end of processJob in internal/pipeline/pipeline.go, that recovers   *)
(* from panics and closes the writers.                                     *)
(*                                                                         *)
(* The owner is the goroutine of the job.  For each command of the job it  *)
(* starts a goroutine that calls Exec, and leaves it behind when the       *)
(* context is done.  The processes of the commands are the outside world.  *)
(*                                                                         *)
(* The output goes to the mask writer, that holds a line back until it is  *)
(* complete, and from there to the direct writer, whose buffer is the      *)
(* subject of module Bufferer.                                             *)
(***************************************************************************)
EXTENDS Integers, FiniteSets, Sequences

CONSTANTS
    Modes,      \* the modes the runner may be configured for
    Count,      \* the number of commands of the job
    MaxOutput   \* bound: the chunks of output of one command

ASSUME JobAssumption ==
    /\ Modes \subseteq {"docker", "shell"}
    /\ Count \in Nat /\ MaxOutput \in Nat

VARIABLES
    mode,       \* the mode of this runner, which never changes
    ctxDone,    \* is the context of the pipeline done?
    owner,      \* where the owner stands
    command,    \* the number of the last command it has started
    result,     \* what Run returns: "none" while there is no result
    container,  \* the container or box of the job
    listed,     \* shell: the size List has read before it took the lock
    locked,     \* shell: has a panic left the lock of the set taken?
    exec,       \* exec[c]: where the goroutine of command c stands
    status,     \* status[c]: what Exec returns for command c
    process,    \* process[c]: the process of command c
    said,       \* said[c]: how many chunks it has printed
    quiet,      \* quiet[c]: docker: has its output ended before it has?
    chunk,      \* chunk[c]: the chunk on its way to the mask writer
    mask,       \* the mask writer: is there one, is it closed?
    rest,       \* the incomplete line that it holds back
    written,    \* what it has accepted
    direct,     \* what the direct writer has accepted
    directOpen  \* is the direct writer open?

Commands == 1 .. Count

ownerVars == <<owner, command, result, container, listed, locked>>
execVars  == <<exec, status, process, said, quiet, chunk>>
logVars   == <<mask, rest, written, direct, directOpen>>
vars == <<mode, ctxDone, ownerVars, execVars, logVars>>

Prompt(c) == <<c, "prompt">>
Output(c) == <<c, "output">>
Error     == <<0, "error">>      \* by errorRemote, through the mask writer
Verdict   == <<0, "verdict">>    \* by ErrorfDirect, around it
Line      == (0 .. Count) \X {"prompt", "output", "error", "verdict"}

-----------------------------------------------------------------------------

TypeOK ==
    /\ mode \in Modes /\ ctxDone \in BOOLEAN
    /\ owner \in {"lookup", "prepare", "create", "detect", "run", "select",
                  "release", "kill", "close", "closeDirect", "done"}
    /\ command \in 0 .. Count
    /\ result \in {"none", "ok", "failed", "canceled"}
    /\ container \in {"none", "forgotten", "running", "removed", "kept"}
    /\ listed \in 0 .. 1 /\ locked \in BOOLEAN
    /\ exec \in [Commands -> {"none", "new", "starting", "running", "listed",
                              "ended", "replying", "done"}]
    /\ status \in [Commands -> {"none", "ok", "failed", "canceled"}]
    /\ process \in [Commands -> {"none", "alive", "orphaned", "ok", "failed"}]
    /\ said \in [Commands -> 0 .. MaxOutput]
    /\ quiet \in [Commands -> BOOLEAN]
    /\ chunk \in [Commands -> {"none", "sent", "checked"}]
    /\ mask \in {"none", "open", "closed"}
    /\ rest \in Seq(Line) /\ written \in Seq(Line) /\ direct \in Seq(Line)
    /\ directOpen \in BOOLEAN
    /\ owner \notin {"lookup", "close", "closeDirect", "done"} => mask = "open"

(* The first job of a pipeline has a mask writer before Run: the sidecar   *)
(* has used it, and may have left an incomplete line.                      *)
Init ==
    /\ mode \in Modes /\ ctxDone = FALSE
    /\ owner = "lookup" /\ command = 0 /\ result = "none"
    /\ container = "none" /\ listed = 0 /\ locked = FALSE
    /\ exec = [c \in Commands |-> "none"]
    /\ status = [c \in Commands |-> "none"]
    /\ process = [c \in Commands |-> "none"]
    /\ said = [c \in Commands |-> 0]
    /\ quiet = [c \in Commands |-> FALSE]
    /\ chunk = [c \in Commands |-> "none"]
    /\ mask \in {"none", "open"}
    /\ rest \in {<<>>} \cup (IF mask = "open" THEN {<<Output(0)>>} ELSE {})
    /\ written = rest /\ direct = <<>> /\ directOpen = TRUE

Cancel ==
    /\ ~ctxDone /\ ctxDone' = TRUE
    /\ UNCHANGED <<mode, ownerVars, execVars, logVars>>

-----------------------------------------------------------------------------
(* The writers.                                                            *)

Deliver(lines) == direct' = IF directOpen THEN direct \o lines ELSE direct

(* A write of a text that ends a line, or that does not; a closed writer   *)
(* refuses it and nobody looks at the error.                               *)
LogMask(line, complete) ==
    IF mask # "open" THEN UNCHANGED logVars
    ELSE /\ written' = Append(written, line)
         /\ rest' = IF complete THEN <<>> ELSE Append(rest, line)
         /\ IF complete THEN Deliver(Append(rest, line))
                        ELSE UNCHANGED direct
         /\ UNCHANGED <<mask, directOpen>>

ErrorfDirect ==
    Deliver(<<Verdict>>) /\ UNCHANGED <<mask, rest, written, directOpen>>

(* the new writer replaces the one of the sidecar, and what that one holds *)
(* back is lost                                                            *)
SetupMaskWriter ==
    /\ mask' = "open" /\ rest' = <<>> /\ written' = direct
    /\ UNCHANGED <<direct, directOpen>>

-----------------------------------------------------------------------------
(* Run.                                                                    *)

(* errorRemote or errorfRemote, and the way out *)
ReturnError(reason, next) ==
    /\ LogMask(Error, TRUE) /\ result' = reason /\ owner' = next

(* mutant: the writer is set up too late, after the image has been pulled *)
LookupWithoutWriter ==
    /\ owner = "lookup"
    /\ \/ owner' = "prepare" /\ UNCHANGED <<result, logVars>>
       \/ ErrorfDirect /\ result' = "failed" /\ owner' = "close"
    /\ UNCHANGED <<mode, ctxDone, command, container, listed, locked,
                   execVars>>

(* the job is in the configuration file, or it is not *)
Lookup ==
    /\ owner = "lookup"
    /\ \/ SetupMaskWriter /\ owner' = "prepare" /\ UNCHANGED result
       \/ ErrorfDirect /\ result' = "failed" /\ owner' = "close"
    /\ UNCHANGED <<mode, ctxDone, command, container, listed, locked,
                   execVars>>

(* why a request to docker fails *)
Reason == {"failed"} \cup (IF ctxDone THEN {"canceled"} ELSE {})

(* the credentials of the job are decoded, the image is pulled *)
Prepare ==
    /\ owner = "prepare"
    /\ \/ owner' = "create" /\ UNCHANGED <<result, logVars>>
       \/ \E r \in Reason : ReturnError(r, "close")
    /\ UNCHANGED <<mode, ctxDone, command, container, listed, locked,
                   execVars>>

(* Docker.Create forgets a container that it cannot start *)
Create ==
    /\ owner = "create"
    /\ \/ /\ mode = "docker" => ~ctxDone
          /\ container' = "running" /\ owner' = "detect"
          /\ UNCHANGED <<result, logVars>>
       \/ /\ mode = "docker" /\ container' \in {"none", "forgotten"}
          /\ \E r \in Reason : ReturnError(r, "close")
    /\ UNCHANGED <<mode, ctxDone, command, listed, locked, execVars>>

(* mutant: the deferred Destroy comes after detectShell *)
DetectShellUndeferred ==
    /\ owner = "detect"
    /\ \/ owner' = "run" /\ UNCHANGED <<result, logVars>>
       \/ mode = "docker" /\ \E r \in Reason : ReturnError(r, "close")
    /\ UNCHANGED <<mode, ctxDone, command, container, listed, locked,
                   execVars>>

(* a shell of the file, or one found by a command in the container or by a *)
(* search on the host                                                      *)
DetectShell ==
    /\ owner = "detect"
    /\ \/ owner' = "run" /\ UNCHANGED <<result, logVars>>
       \/ mode = "docker" /\ \E r \in Reason : ReturnError(r, "release")
    /\ UNCHANGED <<mode, ctxDone, command, container, listed, locked,
                   execVars>>

(* the first half of execShell: prompt and goroutine *)
StartCommand ==
    /\ owner = "run" /\ command < Count
    /\ command' = command + 1 /\ owner' = "select"
    /\ LogMask(Prompt(command + 1), TRUE)
    /\ exec' = [exec EXCEPT ![command + 1] = "new"]
    /\ UNCHANGED <<mode, ctxDone, result, container, listed, locked, status,
                   process, said, quiet, chunk>>

NoMoreCommands ==
    /\ owner = "run" /\ command = Count
    /\ result' = "ok" /\ owner' = "release"
    /\ UNCHANGED <<mode, ctxDone, command, container, listed, locked, execVars,
                   logVars>>

(* the channel of execShell holds a value once the goroutine is done *)
TakeStatus ==
    /\ exec[command] = "done"
    /\ IF status[command] = "ok"
       THEN owner' = "run" /\ UNCHANGED <<result, logVars>>
       ELSE ReturnError(status[command], "release")

(* mutant: nil is returned when the context is done *)
SelectCanceledAsNil ==
    /\ owner = "select"
    /\ \/ TakeStatus
       \/ ctxDone /\ owner' = "run" /\ UNCHANGED <<result, logVars>>
    /\ UNCHANGED <<mode, ctxDone, command, container, listed, locked,
                   execVars>>

(* mutant: the select does not look at the context *)
SelectUninterrupted ==
    /\ owner = "select" /\ TakeStatus
    /\ UNCHANGED <<mode, ctxDone, command, container, listed, locked,
                   execVars>>

(* the select of execShell *)
Select ==
    /\ owner = "select"
    /\ TakeStatus \/ (ctxDone /\ ReturnError("canceled", "release"))
    /\ UNCHANGED <<mode, ctxDone, command, container, listed, locked,
                   execVars>>

-----------------------------------------------------------------------------
(* The deferred Destroy of the container or of the box, and the end of     *)
(* processJob.                                                             *)

Ended(p) == IF p \in {"alive", "orphaned"} THEN "failed" ELSE p

(* a failure to remove the container is only logged *)
RemoveContainer ==
    /\ mode = "docker" /\ owner = "release" /\ owner' = "close"
    /\ \/ /\ container' = "removed"
          /\ process' = [c \in Commands |-> Ended(process[c])]
       \/ container' = "kept" /\ UNCHANGED process
    /\ UNCHANGED <<mode, ctxDone, command, result, listed, locked, exec,
                   status, said, quiet, chunk, logVars>>

(* box.processes *)
Processes == {c \in Commands : exec[c] \in {"listed", "ended"}}

(* List of internal/set makes room for its result before it takes the lock *)
ListSize ==
    /\ mode = "shell" /\ owner = "release" /\ owner' = "kill"
    /\ listed' = Cardinality(Processes)
    /\ UNCHANGED <<mode, ctxDone, command, result, container, locked, execVars,
                   logVars>>

(* A kill of the shell that executes a command may spare what it has       *)
(* started.                                                                *)
Killed(p) == IF p = "alive" THEN {"failed", "orphaned"} ELSE {p}

(* When the set has changed since, there is a panic, that processJob turns *)
(* into a failure: on an index out of range while the lock is taken, or on *)
(* a nil command later.                                                    *)
KillListed ==
    /\ owner = "kill" /\ owner' = "close" /\ container' = "removed"
    /\ IF Cardinality(Processes) # listed
       THEN /\ locked' = (listed < Cardinality(Processes))
            /\ result' = "failed" /\ ErrorfDirect
            /\ UNCHANGED process
       ELSE /\ process' \in {p \in [Commands -> {"none", "alive", "orphaned",
                                                 "ok", "failed"}] :
                    \A c \in Commands : p[c] \in
                        IF c \in Processes THEN Killed(process[c])
                                           ELSE {process[c]}}
            /\ UNCHANGED <<locked, result, logVars>>
    /\ UNCHANGED <<mode, ctxDone, command, listed, exec, status, said, quiet,
                   chunk>>

(* mutant: the direct writer is closed before the mask writer *)
CloseMaskLate ==
    /\ owner = "close" /\ owner' = "closeDirect"
    /\ directOpen' = FALSE /\ rest' = <<>>
    /\ mask' = IF mask = "open" THEN "closed" ELSE mask
    /\ UNCHANGED <<direct, written>>
    /\ UNCHANGED <<mode, ctxDone, command, result, container, listed, locked,
                   execVars>>

(* Close of the mask writer, if there is one: completes the last line and  *)
(* closes the writer behind                                                *)
CloseMask ==
    /\ owner = "close" /\ owner' = "closeDirect"
    /\ IF mask = "open"
       THEN /\ Deliver(rest) /\ rest' = <<>>
            /\ mask' = "closed" /\ directOpen' = FALSE /\ UNCHANGED written
       ELSE UNCHANGED logVars
    /\ UNCHANGED <<mode, ctxDone, command, result, container, listed, locked,
                   execVars>>

(* Close of the direct writer, which is a second one mostly *)
CloseDirect ==
    /\ owner = "closeDirect" /\ owner' = "done"
    /\ directOpen' = FALSE /\ UNCHANGED <<direct, mask, rest, written>>
    /\ UNCHANGED <<mode, ctxDone, command, result, container, listed, locked,
                   execVars>>

Owner ==
    \/ Lookup \/ Prepare \/ Create \/ DetectShell
    \/ StartCommand \/ NoMoreCommands \/ Select
    \/ RemoveContainer \/ ListSize \/ KillListed \/ CloseMask \/ CloseDirect

-----------------------------------------------------------------------------
(* Exec, called by the goroutine of command c.                             *)

Reply(c, s) ==
    /\ exec' = [exec EXCEPT ![c] = "replying"]
    /\ status' = [status EXCEPT ![c] = s]

(* The context is looked at first; the process starts later.  Either may   *)
(* fail.                                                                   *)
ExecBegin(c) ==
    /\ exec[c] = "new"
    /\ \/ /\ ~ctxDone /\ exec' = [exec EXCEPT ![c] = "starting"]
          /\ UNCHANGED status
       \/ Reply(c, IF ctxDone THEN "canceled" ELSE "failed")
    /\ UNCHANGED <<mode, ctxDone, ownerVars, process, said, quiet, chunk,
                   logVars>>

ExecStart(c) ==
    /\ exec[c] = "starting"
    /\ \/ /\ mode = "docker" => container # "removed"
          /\ exec' = [exec EXCEPT ![c] = "running"]
          /\ process' = [process EXCEPT ![c] = "alive"]
          /\ UNCHANGED status
       \/ \E r \in Reason : Reply(c, r) /\ UNCHANGED process
    /\ UNCHANGED <<mode, ctxDone, ownerVars, said, quiet, chunk, logVars>>

(* shell: box.processes.Put(cmd) *)
ExecPut(c) ==
    /\ mode = "shell" /\ exec[c] = "running" /\ ~locked
    /\ exec' = [exec EXCEPT ![c] = "listed"]
    /\ UNCHANGED <<mode, ctxDone, ownerVars, status, process, said, quiet,
                   chunk, logVars>>

(* The copying of the output.  The writer of docker looks at the context   *)
(* and gives up on the command; the one of shell has no context.           *)
ExecRead(c) ==
    /\ chunk[c] = "sent"
    /\ IF mode = "docker" /\ ctxDone
       THEN Reply(c, "canceled") /\ chunk' = [chunk EXCEPT ![c] = "none"]
       ELSE /\ chunk' = [chunk EXCEPT ![c] = "checked"]
            /\ UNCHANGED <<exec, status>>
    /\ UNCHANGED <<mode, ctxDone, ownerVars, process, said, quiet, logVars>>

ExecLog(c) ==
    /\ chunk[c] = "checked" /\ chunk' = [chunk EXCEPT ![c] = "none"]
    /\ \E complete \in BOOLEAN : LogMask(Output(c), complete)
    /\ UNCHANGED <<mode, ctxDone, ownerVars, exec, status, process, said,
                   quiet>>

(* docker: the stream of the output breaks, or the request that opens it   *)
(* is given up when the process has been started already                   *)
ExecLost(c) ==
    /\ mode = "docker" /\ exec[c] = "running" /\ chunk[c] # "checked"
    /\ \E r \in Reason : Reply(c, r)
    /\ chunk' = [chunk EXCEPT ![c] = "none"]
    /\ UNCHANGED <<mode, ctxDone, ownerVars, process, said, quiet, logVars>>

(* docker takes the end of the output for the end of the command, the      *)
(* system waits for both                                                   *)
OutputOver(c) ==
    /\ chunk[c] = "none"
    /\ process[c] \in {"ok", "failed"} \/ quiet[c]

(* What docker or the system tells of the command.  Docker has no exit     *)
(* code as long as the process runs, and that reads as 0.                  *)
Outcome(c) ==
    {IF process[c] \in {"alive", "orphaned"} THEN "ok" ELSE process[c]}
        \cup (IF mode = "docker" THEN Reason ELSE {})

Conclude(c) ==
    /\ exec[c] = IF mode = "shell" THEN "listed" ELSE "running"
    /\ exec' = [exec EXCEPT ![c] = IF mode = "shell" THEN "ended"
                                                     ELSE "replying"]
    /\ \E s \in Outcome(c) : status' = [status EXCEPT ![c] = s]
    /\ UNCHANGED <<mode, ctxDone, ownerVars, process, said, quiet, chunk,
                   logVars>>

(* mutant: the end of the output is not waited for *)
ExecEndUncopied(c) == process[c] \in {"ok", "failed"} /\ Conclude(c)

(* the output has been copied and has ended *)
ExecEnd(c) == OutputOver(c) /\ Conclude(c)

(* shell: the deferred box.processes.Delete(cmd) *)
ExecDelete(c) ==
    /\ exec[c] = "ended" /\ ~locked
    /\ exec' = [exec EXCEPT ![c] = "replying"]
    /\ UNCHANGED <<mode, ctxDone, ownerVars, status, process, said, quiet,
                   chunk, logVars>>

(* mutant: the channel has no room, so that somebody has to receive *)
ExecReplyUnbuffered(c) ==
    /\ exec[c] = "replying" /\ owner = "select" /\ command = c
    /\ exec' = [exec EXCEPT ![c] = "done"]
    /\ UNCHANGED <<mode, ctxDone, ownerVars, status, process, said, quiet,
                   chunk, logVars>>

(* the channel has room for the value, wanted or not *)
ExecReply(c) ==
    /\ exec[c] = "replying"
    /\ exec' = [exec EXCEPT ![c] = "done"]
    /\ UNCHANGED <<mode, ctxDone, ownerVars, status, process, said, quiet,
                   chunk, logVars>>

Exec(c) ==
    \/ ExecBegin(c) \/ ExecStart(c) \/ ExecPut(c) \/ ExecRead(c)
    \/ ExecLog(c) \/ ExecEnd(c) \/ ExecDelete(c) \/ ExecReply(c)

-----------------------------------------------------------------------------
(* The processes.                                                          *)

Becomes(c, p) ==
    /\ process' = [process EXCEPT ![c] = p]
    /\ UNCHANGED <<mode, ctxDone, ownerVars, exec, status, said, quiet, chunk,
                   logVars>>

Speak(c) ==
    /\ process[c] \in {"alive", "orphaned"} /\ said[c] < MaxOutput
    /\ exec[c] \in {"running", "listed"} /\ chunk[c] = "none" /\ ~quiet[c]
    /\ said' = [said EXCEPT ![c] = @ + 1]
    /\ chunk' = [chunk EXCEPT ![c] = "sent"]
    /\ UNCHANGED <<mode, ctxDone, ownerVars, exec, status, process, quiet,
                   logVars>>

(* a process closes its output and goes on, or has ended and docker has    *)
(* not yet noticed                                                         *)
Silence(c) ==
    /\ mode = "docker" /\ exec[c] = "running" /\ ~quiet[c]
    /\ process[c] = "alive"
    /\ quiet' = [quiet EXCEPT ![c] = TRUE]
    /\ UNCHANGED <<mode, ctxDone, ownerVars, exec, status, process, said,
                   chunk, logVars>>

End(c) ==
    /\ process[c] \in {"alive", "orphaned"}
    /\ \E p \in {"ok", "failed"} : Becomes(c, p)

(* exec.CommandContext kills the shell that executes the command *)
KillByContext(c) ==
    /\ mode = "shell" /\ ctxDone /\ process[c] = "alive"
    /\ \E p \in Killed("alive") : Becomes(c, p)

-----------------------------------------------------------------------------

Over == owner = "done" /\ UNCHANGED vars

Next ==
    \/ Cancel \/ Owner \/ Over
    \/ \E c \in Commands :
           \/ Exec(c) \/ ExecLost(c)
           \/ Speak(c) \/ Silence(c) \/ End(c) \/ KillByContext(c)

Spec == Init /\ [][Next]_vars

(* Goroutines are scheduled, requests to docker are answered or fail, and  *)
(* a process whose context is done is killed.  A command need not end.     *)
Fairness ==
    /\ WF_vars(Owner)
    /\ \A c \in Commands : WF_vars(Exec(c)) /\ WF_vars(KillByContext(c))

FairSpec == Spec /\ Fairness

-----------------------------------------------------------------------------
(* Properties.                                                             *)

(* Is command c over, with success, as far as its executor can tell?  The  *)
(* executor for docker goes by the output: with that it has also done with *)
(* a command that still runs, or is going to fail.                         *)
Succeeded(c) ==
    /\ exec[c] = "done" /\ status[c] = "ok"
    /\ process[c] = "ok" \/ (mode = "docker" /\ quiet[c])

(* A command is executed only when Exec has reported the success of all    *)
(* commands before it, whatever is left behind by a cancellation, and a    *)
(* job succeeds only when all its commands have.  On the host, and in a    *)
(* container unless a command closes its output early, they have ended.    *)
CommandsInSequence ==
    /\ \A c \in Commands : process[c] # "none" =>
           \A b \in 1 .. c - 1 : Succeeded(b)
    /\ result = "ok" => \A c \in Commands : Succeeded(c)

(* The log has the output of a command behind its prompt and before the    *)
(* prompt of the next one.                                                 *)
LogOrdered ==
    \A c \in Commands, j \in 1 .. Len(direct) : direct[j] = Output(c) =>
        /\ \E i \in 1 .. j : direct[i] = Prompt(c)
        /\ \A i \in 1 .. j : direct[i][1] <= c

(* the lines with one verdict among them *)
WithVerdict(lines) ==
    {SubSeq(lines, 1, k) \o (<<Verdict>> \o SubSeq(lines, k + 1, Len(lines))) :
        k \in 0 .. Len(lines)}

(* When the job is over the direct writer has got all that the mask writer *)
(* has accepted, in that order, at most one verdict, and the reason of a   *)
(* failure.                                                                *)
LogComplete ==
    owner = "done" =>
        /\ direct \in {written} \cup WithVerdict(written)
        /\ result # "ok" => \E i \in 1 .. Len(direct) :
                                direct[i] \in {Error, Verdict}

(* What the reader of the log sees is in order and complete, although the  *)
(* command, Exec and the owner write to it through several writers.        *)
LogFaithful == LogOrdered /\ LogComplete

(* When the writers get closed, on whatever path, the container that was   *)
(* started has been removed with all that ran in it, or its removal has    *)
(* failed.  The one that could not be started is left behind, and nobody   *)
(* ever tries to remove it: then no command has been executed, and the job *)
(* has not succeeded.                                                      *)
ContainerReleased ==
    owner \in {"close", "closeDirect", "done"} =>
        /\ container # "running"
        /\ container \in {"none", "forgotten"} =>
               command = 0 /\ result \in {"failed", "canceled"}
        /\ mode = "docker" /\ container = "removed" =>
               \A c \in Commands : process[c] # "alive"

(* A canceled job ends, even if its command never does.                    *)
JobEnds == ctxDone ~> (owner = "done")

(* A goroutine that is left behind ends as well, unless the container      *)
(* could not be removed, the command has left orphans that keep its output *)
(* open, or the panic of List has left the set locked.                     *)
ExecsEnd ==
    \A c \in Commands : owner = "done" ~>
        \/ exec[c] \in {"none", "done"}
        \/ container = "kept" \/ process[c] = "orphaned" \/ locked

(* Nothing of a canceled job stays behind.                                 *)
NothingLingers == JobEnds /\ ExecsEnd
=============================================================================
