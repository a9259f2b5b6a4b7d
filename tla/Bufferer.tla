------------------------------ MODULE Bufferer ------------------------------
(***************************************************************************)
(* The buffer between the output of a job and the requests that push it to *)
(* the server: internal/bufferer/bufferer.go, created for every job by     *)
(* setupDirectWriter of internal/job/process.go.                           *)
(*                                                                         *)
(* Any number of goroutines call Write, any number call Close, one runs    *)
(* Run.  A line stands for the bytes of one Write and counts as one byte   *)
(* for the flush size.  Of a sync.WaitGroup the model keeps who is in it.  *)
(***************************************************************************)
EXTENDS Integers, Sequences, FiniteSets

CONSTANTS
    Writers,    \* goroutines that call Write
    Closers,    \* goroutines that call Close
    Nobody,     \* the holder of a mutex that is free
    ChanSize,   \* capacity of the pipe
    FlushSize,  \* length from which on the buffer is flushed
    MaxWrites   \* bound: calls of Write by one goroutine

ASSUME BuffererAssumption ==
    /\ Nobody \notin Closers
    /\ ChanSize \in Nat \ {0}
    /\ FlushSize \in Nat \ {0}
    /\ MaxWrites \in Nat

Lines == Writers \X (1 .. MaxWrites)

VARIABLES
    pipe,          \* the channel of lines
    pipeClosed,    \* has it been closed?
    doneClosed,    \* has the channel done been closed?
    closed,        \* has a Close begun?
    writers,       \* the wait group of Write calls
    writersMutex,  \* the closer that holds it, or Nobody
    closeMutex,    \* the closer that holds it, or Nobody
    runMutex,      \* the closer that holds it, or Nobody
    registered,    \* is Run in its wait group?
    write,         \* for each writer where its call stands
    count,         \* for each writer the number of calls so far
    close,         \* for each closer where its call stands
    run,           \* where Run stands
    buffer,        \* the buffer of Run
    accepted,      \* history: the lines sent into the pipe
    flushed,       \* history: the lines passed to flush
    early          \* history: the lines whose Write returned before any Close

mutexes   == <<writersMutex, closeMutex, runMutex>>
channels  == <<pipe, pipeClosed, doneClosed, closed>>
writeVars == <<writers, write, count, accepted, early>>
runVars   == <<registered, run, buffer, flushed>>
vars == <<channels, mutexes, writeVars, close, runVars>>

Line(w) == <<w, count[w]>>

-----------------------------------------------------------------------------

TypeOK ==
    /\ pipe \in Seq(Lines) /\ Len(pipe) <= ChanSize
    /\ pipeClosed \in BOOLEAN /\ doneClosed \in BOOLEAN /\ closed \in BOOLEAN
    /\ writers \in SUBSET Writers
    /\ writersMutex \in Closers \cup {Nobody}
    /\ closeMutex \in Closers \cup {Nobody}
    /\ runMutex \in Closers \cup {Nobody}
    /\ registered \in BOOLEAN
    /\ write \in [Writers -> {"idle", "check", "send", "leave"}]
    /\ count \in [Writers -> 0 .. MaxWrites]
    /\ close \in [Closers -> {"idle", "done", "lock", "writers", "pipe",
                              "runlock", "run", "returned", "missed"}]
    /\ run \in {"off", "select", "flush", "last", "leave", "ended"}
    /\ buffer \in Seq(Lines)
    /\ accepted \in Seq(Lines) /\ flushed \in Seq(Lines)
    /\ early \in SUBSET Lines

Init ==
    /\ pipe = <<>> /\ pipeClosed = FALSE /\ doneClosed = FALSE
    /\ closed = FALSE
    /\ writers = {}
    /\ writersMutex = Nobody /\ closeMutex = Nobody /\ runMutex = Nobody
    /\ registered = FALSE
    /\ write = [w \in Writers |-> "idle"]
    /\ count = [w \in Writers |-> 0]
    /\ close = [c \in Closers |-> "idle"]
    /\ run = "off"
    /\ buffer = <<>> /\ accepted = <<>> /\ flushed = <<>> /\ early = {}

-----------------------------------------------------------------------------
(* Write.                                                                  *)

(* lock, Add(1), unlock *)
WriteEnter(w) ==
    /\ write[w] = "idle" /\ count[w] < MaxWrites
    /\ writersMutex = Nobody
    /\ writers' = writers \cup {w}
    /\ count' = [count EXCEPT ![w] = @ + 1]
    /\ write' = [write EXCEPT ![w] = "check"]
    /\ UNCHANGED <<channels, mutexes, accepted, early, close, runVars>>

WriteCheck(w) ==
    /\ write[w] = "check"
    /\ write' = [write EXCEPT ![w] = IF doneClosed THEN "leave" ELSE "send"]
    /\ UNCHANGED <<channels, mutexes, writers, count, accepted, early, close,
                   runVars>>

(* mutant: the pipe has no capacity *)
WriteSendUnlimited(w) ==
    /\ write[w] = "send"
    /\ write' = [write EXCEPT ![w] = "leave"]
    /\ pipe' = Append(pipe, Line(w))
    /\ accepted' = Append(accepted, Line(w))
    /\ UNCHANGED <<pipeClosed, doneClosed, closed, mutexes, writers, count,
                   early, close, runVars>>

(* a closed pipe would make the send panic *)
WriteSend(w) ==
    /\ write[w] = "send"
    /\ write' = [write EXCEPT ![w] = "leave"]
    /\ \/ doneClosed /\ UNCHANGED <<pipe, accepted>>
       \/ /\ Len(pipe) < ChanSize
          /\ pipe' = Append(pipe, Line(w))
          /\ accepted' = Append(accepted, Line(w))
    /\ UNCHANGED <<pipeClosed, doneClosed, closed, mutexes, writers, count,
                   early, close, runVars>>

WriteLeave(w) ==
    /\ write[w] = "leave"
    /\ write' = [write EXCEPT ![w] = "idle"]
    /\ writers' = writers \ {w}
    /\ early' = IF closed THEN early ELSE early \cup {Line(w)}
    /\ UNCHANGED <<channels, mutexes, count, accepted, close, runVars>>

Write(w) == WriteEnter(w) \/ WriteCheck(w) \/ WriteSend(w) \/ WriteLeave(w)

-----------------------------------------------------------------------------
(* Close.                                                                  *)

CloseStep(c, from, to) ==
    /\ close[c] = from
    /\ close' = [close EXCEPT ![c] = to]

(* a later Close returns as soon as it gets the mutex *)
CloseEnter(c) ==
    /\ closeMutex = Nobody
    /\ IF closed
       THEN CloseStep(c, "idle", "returned") /\ UNCHANGED <<closed, closeMutex>>
       ELSE CloseStep(c, "idle", "done") /\ closed' = TRUE /\ closeMutex' = c
    /\ UNCHANGED <<pipe, pipeClosed, doneClosed, writersMutex, runMutex,
                   writeVars, runVars>>

CloseDone(c) ==
    /\ CloseStep(c, "done", "lock")
    /\ doneClosed' = TRUE
    /\ UNCHANGED <<pipe, pipeClosed, closed, mutexes, writeVars, runVars>>

CloseLockWriters(c) ==
    /\ CloseStep(c, "lock", "writers")
    /\ writersMutex = Nobody /\ writersMutex' = c
    /\ UNCHANGED <<channels, closeMutex, runMutex, writeVars, runVars>>

(* mutant: no Wait for the writers *)
CloseWithoutWriters(c) ==
    /\ CloseStep(c, "writers", "pipe")
    /\ writersMutex' = Nobody
    /\ UNCHANGED <<channels, closeMutex, runMutex, writeVars, runVars>>

CloseWaitWriters(c) ==
    /\ CloseStep(c, "writers", "pipe")
    /\ writers = {}
    /\ writersMutex' = Nobody
    /\ UNCHANGED <<channels, closeMutex, runMutex, writeVars, runVars>>

ClosePipe(c) ==
    /\ CloseStep(c, "pipe", "runlock")
    /\ pipeClosed' = TRUE
    /\ UNCHANGED <<pipe, doneClosed, closed, mutexes, writeVars, runVars>>

CloseLockRun(c) ==
    /\ CloseStep(c, "runlock", "run")
    /\ runMutex = Nobody /\ runMutex' = c
    /\ UNCHANGED <<channels, writersMutex, closeMutex, writeVars, runVars>>

(* The wait group of Run is empty before Run as well as after it: a Close  *)
(* that comes too early returns all the same, having missed Run.           *)
CloseWaitRun(c) ==
    /\ CloseStep(c, "run", IF run = "off" THEN "missed" ELSE "returned")
    /\ ~registered
    /\ runMutex' = Nobody /\ closeMutex' = Nobody
    /\ UNCHANGED <<channels, writersMutex, writeVars, runVars>>

Close(c) ==
    \/ CloseEnter(c) \/ CloseDone(c) \/ CloseLockWriters(c)
    \/ CloseWaitWriters(c) \/ ClosePipe(c) \/ CloseLockRun(c)
    \/ CloseWaitRun(c)

-----------------------------------------------------------------------------
(* Run.                                                                    *)

RunRegister ==
    /\ run = "off" /\ run' = "select"
    /\ runMutex = Nobody
    /\ registered' = TRUE
    /\ UNCHANGED <<channels, mutexes, writeVars, close, buffer, flushed>>

RunReceive ==
    /\ run = "select" /\ pipe # <<>>
    /\ pipe' = Tail(pipe)
    /\ buffer' = Append(buffer, Head(pipe))
    /\ run' = IF Len(buffer') >= FlushSize THEN "flush" ELSE "select"
    /\ UNCHANGED <<pipeClosed, doneClosed, closed, mutexes, writeVars, close,
                   registered, flushed>>

(* mutant: the rest of the buffer is not flushed *)
RunClosedUnflushed ==
    /\ run = "select" /\ pipe = <<>> /\ pipeClosed
    /\ run' = "leave"
    /\ UNCHANGED <<channels, mutexes, writeVars, close, registered, buffer,
                   flushed>>

(* a closed pipe is drained before it reports that it is closed *)
RunClosed ==
    /\ run = "select" /\ pipe = <<>> /\ pipeClosed
    /\ run' = IF buffer # <<>> THEN "last" ELSE "leave"
    /\ UNCHANGED <<channels, mutexes, writeVars, close, registered, buffer,
                   flushed>>

(* the ticker, which matters only when there is something to flush *)
RunTick ==
    /\ run = "select" /\ buffer # <<>>
    /\ run' = "flush"
    /\ UNCHANGED <<channels, mutexes, writeVars, close, registered, buffer,
                   flushed>>

(* mutant: the buffer is reset before it is flushed *)
RunFlushReset ==
    /\ run \in {"flush", "last"}
    /\ buffer' = <<>>
    /\ run' = IF run = "flush" THEN "select" ELSE "leave"
    /\ UNCHANGED <<channels, mutexes, writeVars, close, registered, flushed>>

(* mutant: a flush ends Run *)
RunFlushOnce ==
    /\ run \in {"flush", "last"} /\ run' = "leave"
    /\ flushed' = flushed \o buffer
    /\ buffer' = <<>>
    /\ UNCHANGED <<channels, mutexes, writeVars, close, registered>>

(* the flush function, a request to the server, returns *)
RunFlush ==
    /\ run \in {"flush", "last"}
    /\ flushed' = flushed \o buffer
    /\ buffer' = <<>>
    /\ run' = IF run = "flush" THEN "select" ELSE "leave"
    /\ UNCHANGED <<channels, mutexes, writeVars, close, registered>>

RunLeave ==
    /\ run = "leave" /\ run' = "ended"
    /\ registered' = FALSE
    /\ UNCHANGED <<channels, mutexes, writeVars, close, buffer, flushed>>

Run ==
    \/ RunRegister \/ RunReceive \/ RunClosed \/ RunTick \/ RunFlush
    \/ RunLeave

-----------------------------------------------------------------------------

Next ==
    \/ Run
    \/ \E w \in Writers : Write(w)
    \/ \E c \in Closers : Close(c)

Spec == Init /\ [][Next]_vars

(* Goroutines are scheduled, the ticker ticks, and flush returns.  Nobody  *)
(* needs to call Write or Close again.                                     *)
Fairness ==
    /\ WF_vars(Run)
    /\ \A w \in Writers :
          WF_vars(WriteCheck(w) \/ WriteSend(w) \/ WriteLeave(w))
    /\ \A c \in Closers : WF_vars(close[c] # "idle" /\ Close(c))

FairSpec == Spec /\ Fairness

-----------------------------------------------------------------------------
(* Properties.                                                             *)

(* No Write sends into the closed pipe, although Close may begin while     *)
(* writes are waiting for room, and both channels are closed only once,    *)
(* whatever the number of Close calls: anything else is a panic.           *)
NoPanic ==
    /\ \A w \in Writers : write[w] = "send" => ~pipeClosed
    /\ \A c \in Closers : /\ close[c] = "done" => ~doneClosed
                          /\ close[c] = "pipe" => ~pipeClosed

(* When a Close has returned, and no Close has come before Run, everything *)
(* accepted has been flushed, and with it every line whose Write returned  *)
(* before Close was called.                                                *)
CloseFlushes ==
    /\ \E c \in Closers : close[c] = "returned"
    /\ \A c \in Closers : close[c] # "missed"
    =>
        /\ flushed = accepted
        /\ \A line \in early : \E i \in 1 .. Len(flushed) : flushed[i] = line

(* What the server gets is a stream of lines as LogStream describes it.    *)
Stream == INSTANCE LogStream WITH log <- accepted, delivered <- flushed
IsLogStream == Stream!FairSpec

(* Each call of Write and of Close returns: a full pipe blocks only for a  *)
(* while.                                                                  *)
CallsReturn ==
    /\ \A w \in Writers : write[w] # "idle" ~> write[w] = "idle"
    /\ \A c \in Closers :
           close[c] # "idle" ~> close[c] \in {"returned", "missed"}
=============================================================================
