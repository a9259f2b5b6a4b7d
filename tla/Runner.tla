------------------------------- MODULE Runner -------------------------------
(***************************************************************************)
(* The life of a runner: LoadConfig of internal/runner/config.go, run() of *)
(* main.go, Snake of snake.go, register.go, heartbeat.go, and the Cleanup  *)
(* of the docker executor.                                                 *)
(*                                                                         *)
(* A life is one execution of the program.  It may end at any step, by a   *)
(* crash, a signal before signal.Notify or log.Fatal, and the service      *)
(* manager starts the next one.  What outlives it: the token file, the     *)
(* containers, and what the server knows.  The scheduler is reduced to     *)
(* whether it works and to the container of a job.                         *)
(***************************************************************************)
EXTENDS Integers

CONSTANTS
    MaxLives,   \* bound: lives of the runner
    MaxLost     \* bound: mishaps up to which answers get lost and disks break

ASSUME RunnerAssumption == MaxLives \in Nat \ {0} /\ MaxLost \in Nat

VARIABLES
    life,        \* the number of the present or the last life
    main,        \* where the main goroutine stands
    file,        \* the token file: NoFile, 0 empty, or the token in it
    writable,    \* can the token file be written?
    configured,  \* does the configuration or the environment give a token?
    token,       \* config.AccessToken, 0 when empty
    answer,      \* the token in the server's answer to the registration
    issued,      \* how often the server has registered this runner
    mishaps,     \* lost answers, crashes and broken disks before the token is
                 \* stored
    box,         \* for each life the container of its job
    listed,      \* what Cleanup has listed and not yet handled
    spared,      \* what Cleanup could not remove
    scheduler,   \* "none", "working" or "stopped"
    hung,        \* does scheduler.shutdown wait without end?
    beat,        \* where the heartbeats goroutine stands
    withVersion, \* does the next heartbeat carry the version?
    known,       \* the life whose version the server knows
    closed,      \* is a channel closed that run() selects on?
    ctxDone      \* is the context of Snake done?

disk     == <<file, writable, configured>>
register == <<token, answer, issued, mishaps>>
docker   == <<box, listed, spared>>
work     == <<scheduler, hung>>
beats    == <<beat, withVersion, known>>
stop     == <<closed, ctxDone>>
vars == <<life, main, disk, register, docker, work, beats, stop>>

NoFile == -1
Given == -2     \* the token of the configuration
Lives == 1 .. MaxLives

TypeOK ==
    /\ life \in 0 .. MaxLives
    /\ main \in {"down", "load", "test", "register", "truncate", "write",
                 "probe", "list", "remove", "start", "beat", "notify",
                 "select", "cancel", "shutdown", "workers"}
    /\ file \in Nat \cup {NoFile} /\ writable \in BOOLEAN
    /\ configured \in BOOLEAN
    /\ token \in Nat \cup {Given} /\ answer \in Nat
    /\ issued \in Nat /\ mishaps \in Nat
    /\ box \in [Lives -> {"none", "created", "running"}]
    /\ listed \in SUBSET Lives /\ spared \in SUBSET Lives
    /\ scheduler \in {"none", "working", "stopped"} /\ hung \in BOOLEAN
    /\ beat \in {"none", "top", "send", "sleep", "done"}
    /\ withVersion \in BOOLEAN
    /\ known \in 0 .. MaxLives
    /\ closed \in BOOLEAN /\ ctxDone \in BOOLEAN

Init ==
    /\ life = 0 /\ main = "down"
    /\ file = NoFile /\ writable \in BOOLEAN /\ configured \in BOOLEAN
    /\ token = 0 /\ answer = 0 /\ issued = 0 /\ mishaps = 0
    /\ box = [l \in Lives |-> "none"] /\ listed = {} /\ spared = {}
    /\ scheduler = "none" /\ hung = FALSE
    /\ beat = "none" /\ withVersion = FALSE /\ known = 0
    /\ closed = FALSE /\ ctxDone = FALSE

-----------------------------------------------------------------------------
(* The end of a life, and the next one.                                    *)

(* the goroutines are gone, the memory is as good as gone *)
Die ==
    /\ main' = "down"
    /\ token' = 0 /\ answer' = 0
    /\ listed' = {} /\ spared' = {}
    /\ scheduler' = "none" /\ hung' = FALSE
    /\ beat' = "none" /\ withVersion' = FALSE
    /\ closed' = FALSE /\ ctxDone' = FALSE

(* what costs a registration is counted *)
Mishap == mishaps' = mishaps + 1

InHand == main \in {"truncate", "write"}

Crash ==
    /\ main # "down"
    /\ Die
    /\ IF InHand THEN Mishap ELSE UNCHANGED mishaps
    /\ UNCHANGED <<life, disk, issued, box, known>>

(* systemd: Restart=always; the operator may have changed the              *)
(* configuration in the meantime                                           *)
Boot ==
    /\ main = "down" /\ life < MaxLives
    /\ life' = life + 1 /\ main' = "load"
    /\ configured' \in BOOLEAN
    /\ UNCHANGED <<file, writable, register, docker, work, beats, stop>>

(* The disk of the token file breaks and is repaired at any time; to do so *)
(* after TestWrite has found it in order is a mishap.                      *)
DiskBreaks ==
    /\ writable /\ writable' = FALSE
    /\ IF main \in {"register", "truncate", "write"}
       THEN mishaps < MaxLost /\ Mishap
       ELSE UNCHANGED mishaps
    /\ UNCHANGED <<life, main, file, configured, token, answer, issued, docker,
                   work, beats, stop>>

DiskRepaired ==
    /\ ~writable /\ writable' = TRUE
    /\ UNCHANGED <<life, main, file, configured, register, docker, work, beats,
                   stop>>

-----------------------------------------------------------------------------
(* LoadConfig and the registration in Snake.Start.                         *)

(* mutant: a missing file is not told from one that can be read *)
LoadConfigMissing ==
    /\ main = "load"
    /\ token' = file
    /\ main' = IF token' = 0 THEN "test" ELSE "probe"
    /\ UNCHANGED <<life, disk, answer, issued, mishaps, docker, work, beats,
                   stop>>

(* a configured token is taken as it is; a file that exists and cannot be  *)
(* read ends the process                                                   *)
LoadConfig ==
    /\ main = "load"
    /\ \/ /\ configured /\ token' = Given /\ main' = "probe"
          /\ UNCHANGED <<life, disk, answer, issued, mishaps, docker, work,
                         beats, stop>>
       \/ /\ ~configured /\ token' = IF file = NoFile THEN 0 ELSE file
          /\ main' = IF token' = 0 THEN "test" ELSE "probe"
          /\ UNCHANGED <<life, disk, answer, issued, mishaps, docker, work,
                         beats, stop>>
       \/ /\ ~configured /\ file # NoFile
          /\ Die
          /\ UNCHANGED <<life, disk, issued, mishaps, box, known>>

(* mutant: without the write that makes sure the token can be saved *)
TestWriteOmitted ==
    /\ main = "test" /\ main' = "register"
    /\ UNCHANGED <<life, disk, register, docker, work, beats, stop>>

(* writeAccessToken("") before the registration *)
TestWrite ==
    /\ main = "test"
    /\ \/ /\ writable
          /\ file' = 0 /\ main' = "register"
          /\ UNCHANGED <<life, writable, configured, register, docker, work,
                         beats, stop>>
       \/ /\ ~writable
          /\ Die
          /\ UNCHANGED <<life, disk, issued, mishaps, box, known>>

(* mustRegister: a failure the server knows nothing of leaves everything   *)
(* as it is until the next try; an answer may get lost.                    *)
Register ==
    /\ main = "register"
    /\ issued' = issued + 1
    /\ \/ mishaps < MaxLost /\ Mishap /\ UNCHANGED <<main, answer>>
       \/ /\ main' = "truncate" /\ answer' = issued'
          /\ UNCHANGED mishaps
    /\ UNCHANGED <<life, disk, token, docker, work, beats, stop>>

(* writeAccessToken(token): the file is emptied first *)
Truncate ==
    /\ main = "truncate"
    /\ \/ /\ writable
          /\ file' = 0 /\ main' = "write"
          /\ UNCHANGED <<life, writable, configured, register, docker, work,
                         beats, stop>>
       \/ /\ ~writable
          /\ Die
          /\ UNCHANGED <<life, disk, issued, mishaps, box, known>>

(* mutant: the token stays in a variable of the inner block *)
WriteTokenShadowed ==
    /\ main = "write"
    /\ \/ /\ writable
          /\ file' = answer /\ main' = "probe"
          /\ UNCHANGED <<life, writable, configured, register, docker, work,
                         beats, stop>>
       \/ /\ ~writable
          /\ Die
          /\ UNCHANGED <<life, disk, issued, mishaps, box, known>>

WriteToken ==
    /\ main = "write"
    /\ \/ /\ writable
          /\ file' = answer /\ token' = answer /\ main' = "probe"
          /\ UNCHANGED <<life, writable, configured, answer, issued, mishaps,
                         docker, work, beats, stop>>
       \/ /\ ~writable
          /\ Die
          /\ UNCHANGED <<life, disk, issued, mishaps, box, known>>

-----------------------------------------------------------------------------
(* startScheduler: the probe, Cleanup, and the start of the loop.          *)

(* the executor must be usable, else log.Fatal *)
Probe ==
    /\ main = "probe"
    /\ \/ /\ main' = "list"
          /\ UNCHANGED <<life, disk, register, docker, work, beats, stop>>
       \/ /\ Die
          /\ UNCHANGED <<life, disk, issued, mishaps, box, known>>

(* mutant: the scheduler starts before the cleanup *)
CleanupListAfterStart ==
    /\ main = "list"
    /\ listed' = {l \in Lives : box[l] = "running"}
    /\ scheduler' = "working"
    /\ main' = "remove"
    /\ UNCHANGED <<life, disk, register, box, spared, hung, beats, stop>>

(* Docker.Cleanup lists the running containers of this program ...         *)
CleanupList ==
    /\ main = "list"
    /\ \/ /\ listed' = {l \in Lives : box[l] = "running"}
          /\ main' = "remove"
          /\ UNCHANGED <<life, disk, register, box, spared, work, beats, stop>>
       \/ /\ Die
          /\ UNCHANGED <<life, disk, issued, mishaps, box, known>>

(* ... and removes one after the other; a failure is only logged.          *)
CleanupRemove ==
    /\ main = "remove"
    /\ \E l \in listed :
          /\ listed' = listed \ {l}
          /\ \/ box' = [box EXCEPT ![l] = "none"] /\ UNCHANGED spared
             \/ spared' = spared \cup {l} /\ UNCHANGED box
    /\ UNCHANGED <<life, main, disk, register, work, beats, stop>>

CleanupDone ==
    /\ main = "remove" /\ listed = {}
    /\ main' = "start"
    /\ UNCHANGED <<life, disk, register, docker, work, beats, stop>>

StartScheduler ==
    /\ main = "start"
    /\ scheduler' = "working" /\ main' = "beat"
    /\ UNCHANGED <<life, disk, register, docker, hung, beats, stop>>

-----------------------------------------------------------------------------
(* The container of a job: Create is two requests, of which the second may *)
(* fail and leave a container behind, and Destroy may fail.                *)

CreateBox ==
    /\ scheduler = "working" /\ ~ctxDone /\ box[life] = "none"
    /\ box' = [box EXCEPT ![life] = "created"]
    /\ UNCHANGED <<life, main, disk, register, listed, spared, work, beats,
                   stop>>

StartBox ==
    /\ scheduler = "working" /\ box[life] = "created"
    /\ box' = [box EXCEPT ![life] = "running"]
    /\ UNCHANGED <<life, main, disk, register, listed, spared, work, beats,
                   stop>>

DestroyBox ==
    /\ scheduler = "working" /\ box[life] = "running"
    /\ box' = [box EXCEPT ![life] = "none"]
    /\ UNCHANGED <<life, main, disk, register, listed, spared, work, beats,
                   stop>>

-----------------------------------------------------------------------------
(* The heartbeats.                                                         *)

StartHeartbeats ==
    /\ main = "beat" /\ main' = "notify"
    /\ beat' = "top" /\ withVersion' = TRUE
    /\ UNCHANGED <<life, disk, register, docker, work, known, stop>>

(* mutant: the context is not looked at *)
BeatTopUnchecked ==
    /\ beat = "top"
    /\ beat' = "send"
    /\ UNCHANGED <<life, main, disk, register, docker, work, withVersion,
                   known, stop>>

BeatTop ==
    /\ beat = "top"
    /\ beat' = IF ctxDone THEN "done" ELSE "send"
    /\ UNCHANGED <<life, main, disk, register, docker, work, withVersion,
                   known, stop>>

(* mutant: the handshake is taken for granted *)
BeatSendOnce ==
    /\ beat = "send" /\ beat' = "sleep"
    /\ known' \in {known, IF withVersion THEN life ELSE known}
    /\ withVersion' = FALSE
    /\ UNCHANGED <<life, main, disk, register, docker, work, stop>>

(* the request is obeyed and answered, or fails before or after that *)
BeatSend ==
    /\ beat = "send" /\ beat' = "sleep"
    /\ \/ /\ known' = IF withVersion THEN life ELSE known
          /\ withVersion' = FALSE
       \/ /\ known' \in {known, IF withVersion THEN life ELSE known}
          /\ UNCHANGED withVersion
    /\ UNCHANGED <<life, main, disk, register, docker, work, stop>>

BeatSleep ==
    /\ beat = "sleep"
    /\ \/ ctxDone /\ beat' = "done"
       \/ beat' = "top"
    /\ UNCHANGED <<life, main, disk, register, docker, work, withVersion,
                   known, stop>>

Heartbeats == BeatTop \/ BeatSend \/ BeatSleep

-----------------------------------------------------------------------------
(* run(): the reasons to stop, and Snake.Shutdown.                         *)

Notify ==
    /\ main = "notify" /\ main' = "select"
    /\ UNCHANGED <<life, disk, register, docker, work, beats, stop>>

(* the service is stopped, or the scheduler calls Terminate *)
CloseChannel ==
    /\ main # "down" /\ ~closed
    /\ closed' = TRUE
    /\ UNCHANGED <<life, main, disk, register, docker, work, beats, ctxDone>>

SelectClosed ==
    /\ main = "select" /\ closed
    /\ main' = "cancel"
    /\ UNCHANGED <<life, disk, register, docker, work, beats, stop>>

(* The channel of the signals is not buffered: a signal is heard when main *)
(* is in its select, kills the process before Notify (a Crash), and is     *)
(* dropped otherwise.                                                      *)
SelectSignal ==
    /\ main = "select"
    /\ main' = "cancel"
    /\ UNCHANGED <<life, disk, register, docker, work, beats, stop>>

Cancel ==
    /\ main = "cancel" /\ main' = "shutdown"
    /\ ctxDone' = TRUE
    /\ UNCHANGED <<life, disk, register, docker, work, beats, closed>>

(* scheduler.shutdown waits for a canceled pipeline that is stuck (run     *)
(* pipeline_lost), or for the loop, which waits for an answer              *)
ShutdownHangs ==
    /\ main = "shutdown" /\ ~hung
    /\ hung' = TRUE
    /\ UNCHANGED <<life, main, disk, register, docker, scheduler, beats, stop>>

(* scheduler.shutdown, which returns when every pipeline has ended: they   *)
(* have destroyed their containers, or tried to                            *)
ShutdownScheduler ==
    /\ main = "shutdown" /\ ~hung
    /\ main' = "workers" /\ scheduler' = "stopped"
    /\ box' \in {box, [box EXCEPT ![life] =
                          IF @ = "running" THEN "none" ELSE @]}
    /\ UNCHANGED <<life, disk, register, listed, spared, hung, beats, stop>>

(* workers.Wait, and the return from main *)
WaitWorkers ==
    /\ main = "workers" /\ beat = "done"
    /\ Die
    /\ UNCHANGED <<life, disk, issued, mishaps, box, known>>

-----------------------------------------------------------------------------

Cleanup == CleanupList \/ CleanupRemove \/ CleanupDone

Start ==
    \/ LoadConfig \/ TestWrite \/ Truncate \/ WriteToken
    \/ Probe \/ Cleanup \/ StartScheduler \/ StartHeartbeats

Run == Notify \/ SelectClosed \/ Cancel \/ ShutdownScheduler \/ WaitWorkers

Jobs == CreateBox \/ StartBox \/ DestroyBox

Outside ==
    \/ Crash \/ Boot \/ DiskBreaks \/ DiskRepaired
    \/ CloseChannel \/ SelectSignal \/ ShutdownHangs

Next == Start \/ Register \/ Run \/ Heartbeats \/ Jobs \/ Outside

Spec == Init /\ [][Next]_vars

(* the main goroutine waits for docker *)
AtDocker == main \in {"probe", "list", "remove"}

(* Goroutines are scheduled, files are read and written, and timers fire.  *)
(* Nothing is assumed of crashes, restarts, stops and jobs, nor of the     *)
(* requests to the server and to docker, that have no timeout.             *)
FairSpec ==
    /\ Spec /\ WF_vars(~AtDocker /\ Start) /\ WF_vars(Run)
    /\ WF_vars(beat # "send" /\ Heartbeats)

-----------------------------------------------------------------------------
(* Properties.                                                             *)

(* The server has registered the runner once, and once more for every      *)
(* answer that got lost, every crash with a token in hand and every disk   *)
(* that broke meanwhile: a token file that cannot be written from the      *)
(* beginning never costs a registration.                                   *)
RegisteredOnce == issued <= mishaps + 1

(* Whoever talks to the server after Start does it with the token of the   *)
(* configuration, or with one that the server has issued and that the next *)
(* life will find in the file.                                             *)
Authenticated ==
    scheduler = "working" \/ beat = "send" =>
        \/ configured /\ token = Given
        \/ ~configured /\ token \in 1 .. issued /\ token = file

(* The scheduler works only when Cleanup is over, with no running          *)
(* container of an earlier life around but those that could not be         *)
(* removed, and with none of its own in danger.                            *)
CleanStart ==
    scheduler = "working" =>
        /\ listed = {}
        /\ \A l \in 1 .. life - 1 : box[l] = "running" => l \in spared

(* Heartbeats leave the version out only when the server has this one.     *)
VersionKnown == beat # "none" /\ ~withVersion => known = life

(* What a runner that is to stop may wait for without end: the answer to   *)
(* its registration, docker, a pipeline or a loop that is stuck, and the   *)
(* answer to a heartbeat.                                                  *)
Held ==
    \/ main = "register" \/ AtDocker
    \/ main = "shutdown" /\ hung
    \/ main = "workers" /\ beat = "send"

(* A closed channel or a signal that was heard brings the process down,    *)
(* unless it is held up for ever.                                          *)
StopHonoured == closed \/ main = "cancel" ~> main = "down" \/ []Held
=============================================================================
