------------------------------- MODULE Sidecar -------------------------------
(***************************************************************************)
(* The sidecar of a pipeline: the place where the repository is cloned and *)
(* an ssh-agent serves the key, set up by Serve and torn down by Destroy.  *)
(* Mode docker is internal/sidecar/cloud_sidecar.go on top of              *)
(* internal/executor/docker, mode shell is internal/sidecar/               *)
(* shell_sidecar.go on top of internal/executor/shell and internal/set.    *)
(*                                                                         *)
(* Two goroutines: the owner, that calls Serve and, when the pipeline is   *)
(* over, Destroy; and the one startSshAgent starts, that executes          *)
(* ssh-agent until it ends.  The ssh-agent process, the container and the  *)
(* directories are the outside world.                                      *)
(***************************************************************************)
EXTENDS Integers, FiniteSets

CONSTANT Modes  \* the modes the runner may be configured for

ASSUME SidecarAssumption == Modes \subseteq {"docker", "shell"}

VARIABLES
    mode,       \* the mode of this runner, which never changes
    ctxDone,    \* is the context of the pipeline done?
    owner,      \* where the owner stands
    reference,  \* is the field container set?
    container,  \* docker: the container itself
    baseDir,    \* does the directory of the pipeline exist?
    tempDir,    \* shell: does the directory of the ssh files exist?
    sshAgent,   \* is the field sshAgent, a wait group, set?
    agent,      \* where the goroutine of the ssh-agent stands
    process,    \* the ssh-agent process
    started,    \* does chStarted hold a message?
    failed,     \* does chError hold an error?
    processes,  \* shell: box.processes, the commands being executed
    listed      \* shell: the size List has read before it took the lock

given     == <<mode, ctxDone>>
ownerVars == <<owner, reference, sshAgent, listed>>
hostVars  == <<container, baseDir, tempDir>>
agentVars == <<agent, process, started, failed, processes>>
vars == <<given, ownerVars, hostVars, agentVars>>

-----------------------------------------------------------------------------

TypeOK ==
    /\ mode \in Modes
    /\ ctxDone \in BOOLEAN
    /\ owner \in {"create", "mkdir", "agent", "await", "setup", "served",
                  "failed", "destroy", "kill", "wait",
                  "remove", "gone", "crashed"}
    /\ reference \in BOOLEAN /\ sshAgent \in BOOLEAN
    /\ container \in {"none", "created", "running", "removed"}
    /\ baseDir \in BOOLEAN /\ tempDir \in BOOLEAN
    /\ agent \in {"none", "new", "starting", "running", "listed", "ended",
                  "deleted", "done"}
    /\ process \in {"none", "alive", "dead"}
    /\ started \in BOOLEAN /\ failed \in BOOLEAN
    /\ processes \in SUBSET {"ssh-agent"}
    /\ listed \in 0 .. 1
    /\ reference => container \in {"running", "removed"} \/ tempDir

Init ==
    /\ mode \in Modes
    /\ ctxDone = FALSE
    /\ owner = "create" /\ reference = FALSE /\ sshAgent = FALSE /\ listed = 0
    /\ container = "none" /\ baseDir = FALSE /\ tempDir = FALSE
    /\ agent = "none" /\ process = "none"
    /\ started = FALSE /\ failed = FALSE /\ processes = {}

Cancel ==
    /\ ~ctxDone /\ ctxDone' = TRUE
    /\ UNCHANGED <<mode, ownerVars, hostVars, agentVars>>

-----------------------------------------------------------------------------
(* Serve.                                                                  *)

(* Docker.Create creates the container and starts it; when the start fails *)
(* or is given up the container is forgotten.                              *)
CreateContainer ==
    /\ mode = "docker" /\ owner = "create"
    /\ \/ /\ ~ctxDone /\ container' = "running" /\ baseDir' = TRUE
          /\ reference' = TRUE /\ owner' = "mkdir"
       \/ /\ container' \in {"none", "created"} \cup
                            (IF ctxDone THEN {"running"} ELSE {})
          /\ owner' = "failed" /\ UNCHANGED <<baseDir, reference>>
    /\ UNCHANGED <<given, sshAgent, listed, tempDir, agentVars>>

MakeDirs ==
    /\ owner = "mkdir" /\ owner' \in {"agent", "failed"}
    /\ UNCHANGED <<given, reference, sshAgent, listed, hostVars, agentVars>>

(* the temporary directory, the git directory, the box *)
CreateBox ==
    /\ mode = "shell" /\ owner = "create"
    /\ \/ owner' = "failed" /\ UNCHANGED <<tempDir, baseDir, reference>>
       \/ /\ tempDir' = TRUE /\ owner' = "failed"
          /\ UNCHANGED <<baseDir, reference>>
       \/ /\ tempDir' = TRUE /\ baseDir' = TRUE /\ reference' = TRUE
          /\ owner' = "agent"
    /\ UNCHANGED <<given, sshAgent, listed, container, agentVars>>

StartAgent ==
    /\ owner = "agent" /\ owner' = "await"
    /\ agent' = "new"
    /\ UNCHANGED <<given, reference, sshAgent, listed, hostVars, process,
                   started, failed, processes>>

(* mutant: the select does not look at the context *)
AwaitAgentUninterrupted ==
    /\ owner = "await"
    /\ sshAgent' = TRUE
    /\ \/ started /\ started' = FALSE /\ owner' = "setup" /\ UNCHANGED failed
       \/ failed /\ failed' = FALSE /\ owner' = "failed" /\ UNCHANGED started
    /\ UNCHANGED <<given, reference, listed, hostVars, agent, process,
                   processes>>

(* the select of startSshAgent; the wait group is returned in every case   *)
(* and stored before the error is looked at                                *)
AwaitAgent ==
    /\ owner = "await"
    /\ sshAgent' = TRUE
    /\ \/ ctxDone /\ owner' = "failed" /\ UNCHANGED <<started, failed>>
       \/ started /\ started' = FALSE /\ owner' = "setup" /\ UNCHANGED failed
       \/ failed /\ failed' = FALSE /\ owner' = "failed" /\ UNCHANGED started
    /\ UNCHANGED <<given, reference, listed, hostVars, agent, process,
                   processes>>

(* ssh-add, known hosts, git clone and checkout, one after the other *)
SetUp ==
    /\ owner = "setup" /\ owner' \in {"served", "failed"}
    /\ UNCHANGED <<given, reference, sshAgent, listed, hostVars, agentVars>>

Serve ==
    \/ CreateContainer \/ CreateBox \/ MakeDirs \/ StartAgent \/ AwaitAgent
    \/ SetUp

-----------------------------------------------------------------------------
(* Destroy in mode docker, called once Serve and all jobs are over.        *)

OverForOwner == owner \in {"served", "failed"}

DestroyNothing ==
    /\ mode = "docker" /\ OverForOwner /\ ~reference
    /\ owner' = "gone"
    /\ UNCHANGED <<given, reference, sshAgent, listed, hostVars, agentVars>>

(* mutant: the ssh-agent is waited for before its container is removed *)
RemoveHostDirThenWait ==
    /\ mode = "docker" /\ OverForOwner /\ reference
    /\ owner' = "wait"
    /\ baseDir' \in {FALSE, baseDir}
    /\ UNCHANGED <<given, reference, sshAgent, listed, container, tempDir,
                   agentVars>>

(* rm -rf of the pipeline directory, whose failure is only logged *)
RemoveHostDir ==
    /\ mode = "docker" /\ OverForOwner /\ reference
    /\ owner' = "destroy"
    /\ baseDir' \in {FALSE, baseDir}
    /\ UNCHANGED <<given, reference, sshAgent, listed, container, tempDir,
                   agentVars>>

(* a container that cannot be removed ends Destroy *)
RemoveContainer ==
    /\ owner = "destroy"
    /\ \/ /\ container' = "removed" /\ owner' = "wait"
          /\ process' = IF process = "alive" THEN "dead" ELSE process
       \/ owner' = "gone" /\ UNCHANGED <<container, process>>
    /\ UNCHANGED <<given, reference, sshAgent, listed, baseDir, tempDir,
                   agent, started, failed, processes>>

(* sidecar.sshAgent.Wait(), also when there is no wait group *)
WaitAgentDocker ==
    /\ mode = "docker" /\ owner = "wait"
    /\ \/ ~sshAgent /\ owner' = "crashed"
       \/ sshAgent /\ agent = "done" /\ owner' = "gone"
    /\ UNCHANGED <<given, reference, sshAgent, listed, hostVars, agentVars>>

-----------------------------------------------------------------------------
(* Destroy in mode shell.  List of internal/set allocates its result       *)
(* before it takes the lock: when the set has changed meanwhile, the       *)
(* result is too short (index out of range) or has a nil entry (nil        *)
(* dereference in the loop of Shell.Destroy).                              *)

ListSize ==
    /\ mode = "shell" /\ OverForOwner
    /\ owner' = IF reference THEN "kill" ELSE "wait"
    /\ listed' = IF reference THEN Cardinality(processes) ELSE 0
    /\ UNCHANGED <<given, reference, sshAgent, hostVars, agentVars>>

KillListed ==
    /\ owner = "kill"
    /\ IF Cardinality(processes) # listed
       THEN owner' = "crashed" /\ UNCHANGED process
       ELSE /\ owner' = "wait"
            /\ process' = IF processes # {} THEN "dead" ELSE process
    /\ UNCHANGED <<given, reference, sshAgent, listed, hostVars, agent,
                   started, failed, processes>>

(* mutant: the ssh-agent is not waited for *)
WaitAgentShellSkipped ==
    /\ mode = "shell" /\ owner = "wait" /\ owner' = "remove"
    /\ UNCHANGED <<given, reference, sshAgent, listed, hostVars, agentVars>>

WaitAgentShell ==
    /\ mode = "shell" /\ owner = "wait"
    /\ ~sshAgent \/ agent = "done"
    /\ owner' = "remove"
    /\ UNCHANGED <<given, reference, sshAgent, listed, hostVars, agentVars>>

(* os.RemoveAll, whose failure is only logged *)
RemoveBaseDir ==
    /\ owner = "remove" /\ owner' = "gone"
    /\ baseDir' \in {FALSE, baseDir}
    /\ UNCHANGED <<given, reference, sshAgent, listed, container, tempDir,
                   agentVars>>

Destroy ==
    \/ DestroyNothing \/ RemoveHostDir \/ RemoveContainer \/ WaitAgentDocker
    \/ ListSize \/ KillListed \/ WaitAgentShell \/ RemoveBaseDir

-----------------------------------------------------------------------------
(* The goroutine of startSshAgent.                                         *)

(* The context is looked at first, the process starts later; either may    *)
(* fail, with an error for chError unless the context is done.             *)
AgentBegin ==
    /\ agent = "new"
    /\ \/ ~ctxDone /\ agent' = "starting" /\ UNCHANGED failed
       \/ agent' = "done" /\ failed' = ~ctxDone
    /\ UNCHANGED <<given, ownerVars, hostVars, process, started, processes>>

(* In mode docker the container may be gone already. *)
AgentStart ==
    /\ agent = "starting"
    /\ \/ /\ container # "removed"
          /\ agent' = "running" /\ process' = "alive" /\ UNCHANGED failed
       \/ /\ agent' = "done" /\ UNCHANGED process
          /\ failed' \in IF ctxDone THEN BOOLEAN ELSE {TRUE}
    /\ UNCHANGED <<given, ownerVars, hostVars, started, processes>>

(* ssh-agent prints the path of its socket; the callback is called by a    *)
(* goroutine that copies the output                                        *)
AgentSpeaks ==
    /\ process = "alive" /\ agent \in {"running", "listed"}
    /\ owner = "await" /\ ~started
    /\ started' = TRUE
    /\ UNCHANGED <<given, ownerVars, hostVars, agent, process, failed,
                   processes>>

(* shell: box.processes.Put(cmd) comes after cmd.Start *)
AgentPut ==
    /\ mode = "shell" /\ agent = "running"
    /\ agent' = "listed" /\ processes' = {"ssh-agent"}
    /\ UNCHANGED <<given, ownerVars, hostVars, process, started, failed>>

(* The process ends by itself, or, in mode shell, because the context that *)
(* it was started with is done.                                            *)
AgentCrashes ==
    /\ process = "alive" /\ process' = "dead"
    /\ UNCHANGED <<given, ownerVars, hostVars, agent, started, failed,
                   processes>>

AgentKilledByContext == mode = "shell" /\ ctxDone /\ AgentCrashes

(* Exec notices the end of the process *)
AgentEnds ==
    /\ process = "dead"
    /\ agent = IF mode = "shell" THEN "listed" ELSE "running"
    /\ agent' = "ended"
    /\ UNCHANGED <<given, ownerVars, hostVars, process, started, failed,
                   processes>>

(* docker: Exec returns although the process goes on, because the stream   *)
(* of its output breaks or ends (the process may have closed it), or       *)
(* because it speaks although the context is done; startSshAgent takes     *)
(* each of them for a failure                                              *)
AgentLost ==
    /\ mode = "docker" /\ agent = "running" /\ process = "alive"
    /\ agent' = "ended"
    /\ UNCHANGED <<given, ownerVars, hostVars, process, started, failed,
                   processes>>

(* the deferred box.processes.Delete(cmd) *)
AgentDelete ==
    /\ agent = "ended" /\ agent' = "deleted"
    /\ processes' = {}
    /\ UNCHANGED <<given, ownerVars, hostVars, process, started, failed>>

(* mutant: no Done *)
AgentDoneForgotten ==
    /\ agent = "deleted" /\ failed' = TRUE
    /\ UNCHANGED <<given, ownerVars, hostVars, agent, process, started,
                   processes>>

(* the error goes to chError, unless it is a cancellation; then Done *)
AgentDone ==
    /\ agent = "deleted" /\ agent' = "done"
    /\ failed' \in IF ctxDone THEN BOOLEAN ELSE {TRUE}
    /\ UNCHANGED <<given, ownerVars, hostVars, process, started, processes>>

Agent ==
    \/ AgentBegin \/ AgentStart \/ AgentPut \/ AgentEnds \/ AgentDelete
    \/ AgentDone

-----------------------------------------------------------------------------

Over == owner \in {"gone", "crashed"} /\ UNCHANGED vars

Next ==
    \/ Cancel \/ Serve \/ Destroy \/ Agent
    \/ AgentSpeaks \/ AgentCrashes \/ AgentLost \/ Over

Spec == Init /\ [][Next]_vars

(* Goroutines are scheduled, commands of the owner end, the ssh-agent      *)
(* prints its first line, and a process whose context is done is killed.   *)
Fairness ==
    /\ WF_vars(Serve) /\ WF_vars(Destroy) /\ WF_vars(Agent)
    /\ WF_vars(AgentSpeaks) /\ WF_vars(AgentKilledByContext)

FairSpec == Spec /\ Fairness

-----------------------------------------------------------------------------
(* Properties.                                                             *)

(* When Destroy has returned, the ssh-agent and its goroutine have ended,  *)
(* unless the container they live in could not be removed.                 *)
AgentReaped ==
    owner = "gone" =>
        \/ agent \in {"none", "done"} /\ process # "alive"
        \/ mode = "docker" /\ container # "removed"

(* The owner never waits for a message of an ssh-agent that cannot come:   *)
(* Serve ends.                                                             *)
ServeEnds == <>(owner \in {"served", "failed"})

Destroying == owner \in {"destroy", "kill", "wait", "remove"}

(* Destroy of the cloud sidecar returns: with the container dies whatever  *)
(* runs in it.                                                             *)
DestroyEnds ==
    (mode = "docker" /\ Destroying) ~> owner \in {"gone", "crashed"}

(* Destroy of either sidecar returns at least when the pipeline has been   *)
(* canceled: an ssh-agent that List has missed dies with the context.      *)
CanceledDestroyEnds ==
    (ctxDone /\ Destroying) ~> owner \in {"gone", "crashed"}

(* No call of the owner waits for an ssh-agent that gives no answer.       *)
CallsReturn == ServeEnds /\ DestroyEnds /\ CanceledDestroyEnds

(* Destroy works whatever Serve has got done: it does not panic.           *)
NoCrash == owner # "crashed"
=============================================================================
