-------------------------- MODULE SchedulerProofs --------------------------
(***************************************************************************)
(* Proofs about module Scheduler, for every set of pipeline ids and every  *)
(* value of the bounds.                                                    *)
(***************************************************************************)
EXTENDS Scheduler, FiniteSetTheorems, TLAPS

(* the loop is inside startPipeline *)
Starting == {"store", "cancels", "add", "launch"}

(* shutdown has got past loopWork.Wait *)
PastLoop == {"range", "cancel", "group", "routines", "down"}

(* A run is created and launched by the loop, one at a time.               *)
RunInv ==
    /\ \A r \in Runs : (run[r] = "none") <=> (r > born)
    /\ \A r \in Runs : run[r] = "starting" => r = born /\ loop \in Starting
    /\ loop \in Starting => born > 0 /\ run[born] = "starting"

(* The key in hand: the loop has one whenever it talks to the server.      *)
KeyInv ==
    /\ loop \in {"count", "ask", "poll"} => sshKey # NoKey
    /\ factory = "generate" => lastKey < MaxKeys
    /\ factory = "send" => lastKey > 0

(* cancelPipeline is executed by one goroutine at a time.                  *)
FrameInv ==
    /\ step # "load" => Canceling /\ target > 0
    /\ step \in {"func", "id"} => canceled[target]

(* After loopWork.Wait the loop has nothing left to do but to notice that  *)
(* its context is done.                                                    *)
MainInv ==
    /\ main \notin {"select", "stop"} => ctx
    /\ main \in PastLoop => loop \in {"off", "top", "done"}

IInv == TypeOK /\ RunInv /\ KeyInv /\ FrameInv /\ MainInv

LEMMA InductiveStep == IInv /\ [Next]_vars => IInv'
<1> SUFFICES ASSUME IInv, [Next]_vars PROVE IInv'
  OBVIOUS
<1> USE SchedulerAssumption DEF IInv, TypeOK, RunInv, KeyInv, FrameInv,
        MainInv, Runs, Keys, NoRun, NoKey, Starting, PastLoop, Canceling,
        request, loopVars, factoryVars, mapVars, runVars, frameVars
<1>1. CASE FactoryTop
  BY <1>1 DEF FactoryTop
<1>2. CASE Generate
  BY <1>2 DEF Generate
<1>3. CASE FactorySend
  <2>1. queue' \in Seq(Keys)
    <3>1. lastKey \in Keys
      BY <1>3 DEF FactorySend
    <3>2. Append(queue, lastKey) \in Seq(Keys)
      BY <3>1
    <3> QED
      BY <1>3, <3>2 DEF FactorySend
  <2>2. TypeOK'
    BY <1>3, <2>1, SMTT(30) DEF FactorySend
  <2> QED
    BY <1>3, <2>2 DEF FactorySend
<1>4. CASE LoopStart
  BY <1>4 DEF LoopStart
<1>5. CASE LoopTop
  BY <1>5 DEF LoopTop
<1>6. CASE TakeKey
  <2>1. sshKey' \in Keys \cup {NoKey} /\ queue' \in Seq(Keys)
    <3>1. queue # <<>> => Head(queue) \in Keys /\ Tail(queue) \in Seq(Keys)
      OBVIOUS
    <3> QED
      BY <1>6, <3>1 DEF TakeKey
  <2>2. TypeOK'
    BY <1>6, <2>1 DEF TakeKey
  <2>3. RunInv' /\ MainInv'
    BY <1>6 DEF TakeKey
  <2>4. KeyInv' /\ FrameInv'
    BY <1>6 DEF TakeKey
  <2> QED
    BY <2>2, <2>3, <2>4
<1>7. CASE LoadCount
  BY <1>7 DEF LoadCount
<1>8. CASE Ask
  BY <1>8 DEF Ask
<1>9. CASE PollNothing
  BY <1>9 DEF PollNothing
<1>10. CASE PollError
  <2>1. bound' \in [Keys -> SUBSET Ids]
    <3>1. ASSUME NEW id \in Ids,
                 bound' = [bound EXCEPT ![sshKey] = @ \cup {id}]
          PROVE  bound' \in [Keys -> SUBSET Ids]
      BY <3>1
    <3> QED
      BY <1>10, <3>1 DEF PollError
  <2>2. TypeOK'
    BY <1>10, <2>1 DEF PollError
  <2> QED
    BY <1>10, <2>2 DEF PollError
<1>11. CASE PollRun
  <2>1. TypeOK'
    BY <1>11 DEF PollRun
  <2>2. RunInv' /\ KeyInv' /\ FrameInv' /\ MainInv'
    BY <1>11 DEF PollRun
  <2> QED
    BY <2>1, <2>2
<1>12. CASE PollCancel
  BY <1>12 DEF PollCancel
<1>13. CASE PollTerminate
  <2>1. CASE alive
    BY <1>13, <2>1 DEF PollTerminate
  <2>2. CASE ~alive
    BY <1>13, <2>2 DEF PollTerminate
  <2> QED
    BY <2>1, <2>2
<1>14. CASE LeaveTerminate
  BY <1>14 DEF LeaveTerminate, EndServe
<1>15. CASE Sleep
  BY <1>15 DEF Sleep
<1>16. CASE StoreId
  BY <1>16 DEF StoreId
<1>17. CASE StoreCancel
  BY <1>17 DEF StoreCancel
<1>18. CASE AddPipeline
  BY <1>18 DEF AddPipeline
<1>19. CASE Launch
  BY <1>19 DEF Launch, EndServe
<1>20. CASE LoopCanceled
  BY <1>20 DEF LoopCanceled, EndServe
<1>21. CASE CancelLoad
  BY <1>21 DEF CancelLoad
<1>22. CASE CancelCall
  BY <1>22 DEF CancelCall
<1>23. CASE CancelDropFunc
  BY <1>23 DEF CancelDropFunc
<1>24. CASE CancelDropId
  BY <1>24 DEF CancelDropId
<1>25. CASE Interrupt
  BY <1>25 DEF Interrupt
<1>26. CASE StopContext
  BY <1>26 DEF StopContext
<1>27. CASE WaitLoop
  BY <1>27 DEF WaitLoop
<1>28. CASE RangePipelines
  BY <1>28 DEF RangePipelines
<1>29. CASE ShutdownCanceled
  BY <1>29 DEF ShutdownCanceled
<1>30. CASE WaitGroup
  BY <1>30 DEF WaitGroup
<1>31. CASE WaitRoutines
  BY <1>31 DEF WaitRoutines
<1>32. ASSUME NEW r \in Runs, RunReturn(r) PROVE IInv'
  BY <1>32 DEF RunReturn
<1>33. ASSUME NEW r \in Runs, RunDone(r) PROVE IInv'
  BY <1>33 DEF RunDone
<1>34. ASSUME NEW r \in Runs, RunUncount(r) PROVE IInv'
  BY <1>34 DEF RunUncount
<1>35. ASSUME NEW r \in Runs, RunDropCancel(r) PROVE IInv'
  BY <1>35, SMTT(30) DEF RunDropCancel
<1>36. ASSUME NEW r \in Runs, RunDropId(r) PROVE IInv'
  BY <1>36, SMTT(30) DEF RunDropId
<1>37. ASSUME NEW r \in Runs, RunSticks(r) PROVE IInv'
  BY <1>37 DEF RunSticks
<1>38. CASE UNCHANGED vars
  BY <1>38 DEF vars
<1> QED
  BY <1>1, <1>2, <1>3, <1>4, <1>5, <1>6, <1>7, <1>8, <1>9, <1>10, <1>11,
     <1>12, <1>13, <1>14, <1>15, <1>16, <1>17, <1>18, <1>19, <1>20, <1>21,
     <1>22, <1>23, <1>24, <1>25, <1>26, <1>27, <1>28, <1>29, <1>30, <1>31,
     <1>32, <1>33, <1>34, <1>35, <1>36, <1>37, <1>38
     DEF Next, Factory, Loop, Poll, CancelPipeline, RunEpilogue, Shutdown,
         Down, Hang

LEMMA InductiveInit == Init => IInv
<1> SUFFICES ASSUME Init PROVE IInv
  OBVIOUS
<1> USE SchedulerAssumption DEF Init, Runs, Keys, NoRun, NoKey
<1>1. TypeOK
  <2>1. idOf \in Seq(Ids) /\ Len(idOf) = born
    OBVIOUS
  <2>2. keyOf \in Seq(Keys) /\ Len(keyOf) = born
    OBVIOUS
  <2>3. queue \in Seq(Keys)
    OBVIOUS
  <2>4. cancels \in [Ids -> 0 .. born] /\ bound \in [Keys -> SUBSET Ids]
    OBVIOUS
  <2>5. /\ run \in [Runs -> {"none", "starting", "running", "returned",
                             "left", "uncounted", "forgotten", "gone"}]
        /\ canceled \in [Runs -> BOOLEAN]
    OBVIOUS
  <2>6. /\ lastKey \in 0 .. MaxKeys /\ born \in 0 .. MaxRuns
        /\ sshKey \in Keys \cup {NoKey} /\ target \in 0 .. born
        /\ pipelines \in Int /\ group \in Int /\ terminated \in Nat
    OBVIOUS
  <2>7. pipelinesMap \in SUBSET Ids /\ todo \in SUBSET Ids
        /\ reported \in SUBSET Ids
    OBVIOUS
  <2> HIDE DEF Runs, Keys, NoRun, NoKey
  <2> QED
    BY <2>1, <2>2, <2>3, <2>4, <2>5, <2>6, <2>7 DEF TypeOK
<1>2. RunInv /\ KeyInv /\ FrameInv /\ MainInv
  BY DEF RunInv, KeyInv, FrameInv, MainInv, Starting, PastLoop, Canceling
<1> QED
  BY <1>1, <1>2 DEF IInv

LEMMA Inductive == Spec => []IInv
<1>1. Init => IInv
  BY InductiveInit
<1>2. IInv /\ [Next]_vars => IInv'
  BY InductiveStep
<1> QED
  BY <1>1, <1>2, PTL DEF Spec

(* Every variable keeps its type in every reachable state: in particular   *)
(* the loop never indexes a run, a key or an id that does not exist.       *)
THEOREM TypeCorrect == Spec => []TypeOK
<1>1. IInv => TypeOK
  BY DEF IInv
<1> QED
  BY <1>1, Inductive, PTL

(* Once shutdown has taken its snapshot of pipelinesMap no pipeline is     *)
(* created any more, whatever the server answers and even when the loop    *)
(* goroutine registered itself too late for loopWork.Wait.                 *)
THEOREM NoPipelineAfterSnapshot == Spec => NoLateStart
<1>1. IInv /\ [Next]_vars =>
        [(main \in {"cancel", "group", "routines"}) => born' = born]_vars
  <2> SUFFICES ASSUME IInv, Next, main \in {"cancel", "group", "routines"}
               PROVE  born' = born
    BY DEF vars, runVars
  <2>1. loop # "poll"
    BY DEF IInv, MainInv, PastLoop
  <2>2. ~PollRun
    BY <2>1 DEF PollRun
  <2>3. CASE Factory
    BY <2>3 DEF Factory, FactoryTop, Generate, FactorySend, runVars
  <2>4. CASE Loop
    BY <2>1, <2>2, <2>4 DEF Loop, LoopStart, LoopTop, TakeKey, LoadCount, Ask,
       Poll, PollNothing, PollError, PollCancel, PollTerminate,
       LeaveTerminate, Sleep, StoreId, StoreCancel, AddPipeline, Launch,
       LoopCanceled, runVars
  <2>5. CASE CancelPipeline
    BY <2>5 DEF CancelPipeline, CancelLoad, CancelCall, CancelDropFunc,
       CancelDropId, runVars
  <2>6. ASSUME NEW r \in Runs, RunReturn(r) \/ RunSticks(r) \/ RunEpilogue(r)
        PROVE  born' = born
    BY <2>6 DEF RunReturn, RunSticks, RunEpilogue, RunDone, RunUncount, RunDropCancel,
       RunDropId, runVars
  <2>7. CASE Interrupt \/ Shutdown
    BY <2>7 DEF Interrupt, Shutdown, StopContext, WaitLoop, RangePipelines,
       ShutdownCanceled, WaitGroup, WaitRoutines, runVars
  <2>8. CASE Down \/ Hang
    BY <2>8 DEF Down, Hang, vars, runVars
  <2> QED
    BY <2>3, <2>4, <2>5, <2>6, <2>7, <2>8 DEF Next
<1> QED
  BY <1>1, Inductive, PTL DEF Spec, NoLateStart

(* Level 2: what shutdown relies on.                                       *)

(* a run is counted by pipelinesGroup or on its way there *)
Entered(r) == run[r] \in {"running", "returned", "left", "uncounted"}

UniqueIds == \A i, j \in 1 .. born : idOf[i] = idOf[j] => i = j

(* Until its goroutine takes the entries away again, an id leads to the    *)
(* cancel function of its run, and is reported as running.                 *)
EntryInv ==
    \A r \in 1 .. born : ~canceled[r] =>
        /\ Entered(r) \/ (run[r] = "starting" /\ loop \in {"add", "launch"})
              => cancels[idOf[r]] = r
        /\ Entered(r) \/ run[r] = "forgotten"
              \/ (run[r] = "starting" /\ loop \in {"cancels", "add", "launch"})
              => idOf[r] \in pipelinesMap

(* Shutdown has canceled a run or is still going to.                       *)
SnapshotInv ==
    /\ main = "cancel" =>
          \A r \in 1 .. born :
              run[r] = "running" /\ ~canceled[r] => idOf[r] \in todo
    /\ main \in {"group", "routines", "down"} =>
          \A r \in 1 .. born : run[r] = "running" => canceled[r]

CancelInv == UniqueIds /\ EntryInv /\ SnapshotInv

LEMMA CancelStep ==
  ASSUME Reissue = FALSE
  PROVE  IInv /\ CancelInv /\ [Next]_vars => CancelInv'
<1> SUFFICES ASSUME IInv, CancelInv, [Next]_vars PROVE CancelInv'
  OBVIOUS
<1> USE SchedulerAssumption DEF IInv, TypeOK, RunInv, KeyInv, FrameInv,
        MainInv, CancelInv, UniqueIds, EntryInv, SnapshotInv, Entered, Runs,
        Keys, NoRun, NoKey, Starting, PastLoop, Canceling, request, loopVars,
        factoryVars, mapVars, runVars, frameVars
<1>1. CASE FactoryTop
  BY <1>1 DEF FactoryTop
<1>2. CASE Generate
  BY <1>2 DEF Generate
<1>3. CASE FactorySend
  BY <1>3 DEF FactorySend
<1>4. CASE LoopStart
  BY <1>4 DEF LoopStart
<1>5. CASE LoopTop
  BY <1>5 DEF LoopTop
<1>6. CASE TakeKey
  BY <1>6 DEF TakeKey
<1>7. CASE LoadCount
  BY <1>7 DEF LoadCount
<1>8. CASE Ask
  BY <1>8 DEF Ask
<1>9. CASE PollNothing
  BY <1>9 DEF PollNothing
<1>10. CASE PollError
  BY <1>10 DEF PollError, Issuable
<1>11. CASE PollRun
  BY <1>11, SMTT(30) DEF PollRun, Issuable
<1>12. CASE PollCancel
  BY <1>12 DEF PollCancel
<1>13. CASE PollTerminate
  BY <1>13 DEF PollTerminate
<1>14. CASE LeaveTerminate
  BY <1>14 DEF LeaveTerminate, EndServe
<1>15. CASE Sleep
  BY <1>15 DEF Sleep
<1>16. CASE StoreId
  BY <1>16 DEF StoreId
<1>17. CASE StoreCancel
  BY <1>17 DEF StoreCancel
<1>18. CASE AddPipeline
  BY <1>18 DEF AddPipeline
<1>19. CASE Launch
  BY <1>19 DEF Launch, EndServe
<1>20. CASE LoopCanceled
  BY <1>20 DEF LoopCanceled, EndServe
<1>21. CASE CancelLoad
  BY <1>21 DEF CancelLoad
<1>22. CASE CancelCall
  BY <1>22, SMTT(30) DEF CancelCall
<1>23. CASE CancelDropFunc
  BY <1>23 DEF CancelDropFunc
<1>24. CASE CancelDropId
  BY <1>24, SMTT(30) DEF CancelDropId
<1>25. CASE Interrupt
  BY <1>25 DEF Interrupt
<1>26. CASE StopContext
  BY <1>26 DEF StopContext
<1>27. CASE WaitLoop
  BY <1>27 DEF WaitLoop
<1>28. CASE RangePipelines
  BY <1>28 DEF RangePipelines
<1>29. CASE ShutdownCanceled
  BY <1>29 DEF ShutdownCanceled
<1>30. CASE WaitGroup
  BY <1>30 DEF WaitGroup
<1>31. CASE WaitRoutines
  BY <1>31 DEF WaitRoutines
<1>32. ASSUME NEW r \in Runs, RunReturn(r) PROVE CancelInv'
  BY <1>32, SMTT(30) DEF RunReturn
<1>33. ASSUME NEW r \in Runs, RunDone(r) PROVE CancelInv'
  BY <1>33 DEF RunDone
<1>34. ASSUME NEW r \in Runs, RunUncount(r) PROVE CancelInv'
  BY <1>34 DEF RunUncount
<1>35. ASSUME NEW r \in Runs, RunDropCancel(r) PROVE CancelInv'
  BY <1>35 DEF RunDropCancel
<1>36. ASSUME NEW r \in Runs, RunDropId(r) PROVE CancelInv'
  BY <1>36, SMTT(30) DEF RunDropId
<1>37. ASSUME NEW r \in Runs, RunSticks(r) PROVE CancelInv'
  BY <1>37 DEF RunSticks
<1>38. CASE UNCHANGED vars
  BY <1>38 DEF vars
<1> QED
  BY <1>1, <1>2, <1>3, <1>4, <1>5, <1>6, <1>7, <1>8, <1>9, <1>10, <1>11,
     <1>12, <1>13, <1>14, <1>15, <1>16, <1>17, <1>18, <1>19, <1>20, <1>21,
     <1>22, <1>23, <1>24, <1>25, <1>26, <1>27, <1>28, <1>29, <1>30, <1>31,
     <1>32, <1>33, <1>34, <1>35, <1>36, <1>37, <1>38
     DEF Next, Factory, Loop, Poll, CancelPipeline, RunEpilogue, Shutdown,
         Down, Hang

(* CancelInv holds from the start and for ever, as long as the server      *)
(* hands out every id once.                                                *)
LEMMA CancelInductive ==
  ASSUME Reissue = FALSE
  PROVE  Spec => []CancelInv
<1>1. Init => CancelInv
  BY SchedulerAssumption
     DEF Init, CancelInv, UniqueIds, EntryInv, SnapshotInv, Runs
<1>2. IInv /\ CancelInv /\ [Next]_vars => CancelInv'
  BY CancelStep
<1> QED
  BY <1>1, <1>2, Inductive, PTL DEF Spec

(* As long as the server hands out every id once, shutdown tells every     *)
(* running pipeline to stop before it waits for the pipelines: the         *)
(* snapshot of pipelinesMap misses none.                                   *)
THEOREM ShutdownMissesNone ==
  ASSUME Reissue = FALSE
  PROVE  Spec => []ShutdownReachesAll
<1>1. IInv /\ CancelInv => ShutdownReachesAll
  BY DEF IInv, TypeOK, RunInv, MainInv, CancelInv, SnapshotInv, PastLoop,
     Starting, ShutdownReachesAll, Runs
<1> QED
  BY <1>1, Inductive, CancelInductive, PTL

(* As long as the server hands out every id once, a running pipeline that  *)
(* was not canceled is found by cancelPipeline under its id.               *)
THEOREM RunsStayCancelable ==
  ASSUME Reissue = FALSE
  PROVE  Spec => []Cancelable
<1>1. IInv /\ CancelInv => Cancelable
  BY DEF CancelInv, EntryInv, Entered, Cancelable
<1> QED
  BY <1>1, Inductive, CancelInductive, PTL

(* As long as the server hands out every id once, a running pipeline that  *)
(* was not canceled is in every request's list of running pipelines.       *)
THEOREM RunsStayReported ==
  ASSUME Reissue = FALSE
  PROVE  Spec => []Reported
<1>1. IInv /\ CancelInv => Reported
  BY DEF CancelInv, EntryInv, Entered, Reported
<1> QED
  BY <1>1, Inductive, CancelInductive, PTL

(* Both together: no running pipeline gets lost between the maps.          *)
THEOREM RunsStayTracked ==
  ASSUME Reissue = FALSE
  PROVE  Spec => []Tracked
<1>1. Cancelable /\ Reported => Tracked
  BY DEF Tracked
<1> QED
  BY <1>1, RunsStayCancelable, RunsStayReported, PTL

-----------------------------------------------------------------------------
(* The two ways a runner_terminate task ends.                              *)

(* After closing snake.terminated the loop only waits for its context;     *)
(* after suspending itself it only waits for the main goroutine.  A first  *)
(* answer is recognised by alive, which is set before the next request.    *)
TerminateInv ==
    /\ terminated \in {0, 1}
    /\ terminated = 1 =>
          loop = "terminate" \/ (ctx /\ loop \in {"top", "done"})
    /\ ~alive => born = 0 \/ loop \in Starting
    /\ ctx /\ main \in {"select", "stop"} =>
          born = 0 /\ loop \in {"top", "done"}

LEMMA TerminateStep == IInv /\ TerminateInv /\ [Next]_vars => TerminateInv'
<1> SUFFICES ASSUME IInv, TerminateInv, [Next]_vars PROVE TerminateInv'
  OBVIOUS
<1> USE DEF IInv, MainInv, TerminateInv, Starting, PastLoop, request,
        loopVars, factoryVars, mapVars, runVars, frameVars
<1>1. CASE Factory
  BY <1>1 DEF Factory, FactoryTop, Generate, FactorySend
<1>2. CASE LoopStart \/ LoopTop \/ TakeKey
  BY <1>2 DEF LoopStart, LoopTop, TakeKey
<1>3. CASE LoadCount \/ Ask
  BY <1>3 DEF LoadCount, Ask
<1>4. CASE PollNothing \/ PollError \/ PollCancel
  BY <1>4 DEF PollNothing, PollError, PollCancel
<1>5. CASE PollRun
  BY <1>5 DEF PollRun
<1>6. CASE PollTerminate
  <2>1. CASE alive
    BY <1>6, <2>1 DEF PollTerminate
  <2>2. CASE ~alive
    BY <1>6, <2>2 DEF PollTerminate
  <2> QED
    BY <2>1, <2>2
<1>7. CASE LeaveTerminate \/ LoopCanceled
  BY <1>7 DEF LeaveTerminate, LoopCanceled, EndServe
<1>8. CASE Sleep
  BY <1>8 DEF Sleep
<1>9. CASE StoreId \/ StoreCancel \/ AddPipeline
  BY <1>9 DEF StoreId, StoreCancel, AddPipeline
<1>10. CASE Launch
  BY <1>10 DEF Launch, EndServe
<1>11. CASE CancelPipeline
  BY <1>11 DEF CancelPipeline, CancelLoad, CancelCall, CancelDropFunc,
     CancelDropId
<1>12. CASE Interrupt \/ StopContext
  BY <1>12 DEF Interrupt, StopContext
<1>13. CASE WaitLoop \/ RangePipelines \/ ShutdownCanceled \/ WaitGroup
            \/ WaitRoutines
  BY <1>13 DEF WaitLoop, RangePipelines, ShutdownCanceled, WaitGroup,
     WaitRoutines
<1>14. ASSUME NEW r \in Runs, RunReturn(r) \/ RunSticks(r) \/ RunEpilogue(r)
       PROVE  TerminateInv'
  BY <1>14 DEF RunReturn, RunSticks, RunEpilogue, RunDone, RunUncount,
     RunDropCancel, RunDropId
<1>15. CASE UNCHANGED vars
  BY <1>15 DEF vars
<1> QED
  BY <1>1, <1>2, <1>3, <1>4, <1>5, <1>6, <1>7, <1>8, <1>9, <1>10, <1>11,
     <1>12, <1>13, <1>14, <1>15
     DEF Next, Loop, Poll, Shutdown, Down, Hang

LEMMA TerminateInductive == Spec => []TerminateInv
<1>1. Init => TerminateInv
  BY DEF Init, TerminateInv
<1>2. IInv /\ TerminateInv /\ [Next]_vars => TerminateInv'
  BY TerminateStep
<1> QED
  BY <1>1, <1>2, Inductive, PTL DEF Spec

(* However many runner_terminate tasks the server sends, Terminate closes  *)
(* snake.terminated once: the second close, a panic, never happens.        *)
THEOREM NoSecondClose == Spec => []TerminateOnce
<1>1. TerminateInv => TerminateOnce
  BY DEF TerminateInv, TerminateOnce
<1> QED
  BY <1>1, TerminateInductive, PTL

(* A runner whose context is done although nobody has stopped it was       *)
(* suspended by its very first answer, and has no pipeline to abandon.     *)
THEOREM SuspendedRunnerIsIdle == Spec => []SuspendedIsIdle
<1>1. TerminateInv => SuspendedIsIdle
  BY DEF TerminateInv, SuspendedIsIdle
<1> QED
  BY <1>1, TerminateInductive, PTL

(* A terminate task is understood correctly, whatever came before it.      *)
THEOREM TerminateIsSound == Spec => []TerminateSound
<1>1. TerminateOnce /\ SuspendedIsIdle => TerminateSound
  BY DEF TerminateSound
<1> QED
  BY <1>1, NoSecondClose, SuspendedRunnerIsIdle, PTL

-----------------------------------------------------------------------------
(* An ssh key is followed from the factory through the queue and the hand  *)
(* of the loop to the server.                                              *)

(* Keys are told apart by their numbers.  At any time a key is in one      *)
(* place: not yet generated, in the hand of the factory, in the queue at   *)
(* one position, in the hand of the loop, or given up.                     *)
PlaceInv ==
    /\ \A i \in 1 .. Len(queue) :
          /\ queue[i] <= lastKey /\ queue[i] # sshKey
          /\ factory = "send" => queue[i] # lastKey
    /\ \A i, j \in 1 .. Len(queue) : queue[i] = queue[j] => i = j
    /\ sshKey <= lastKey
    /\ factory = "send" => sshKey # lastKey

(* No pipeline knows a key before the request that carries it, and the     *)
(* loop has given the key up when its request ends with a pipeline.        *)
FreshInv ==
    /\ \A k \in Keys : k > lastKey => bound[k] = {}
    /\ factory = "send" => bound[lastKey] = {}
    /\ \A i \in 1 .. Len(queue) : bound[queue[i]] = {}
    /\ loop \notin Starting /\ sshKey # NoKey => bound[sshKey] = {}

KeyPathInv == PlaceInv /\ FreshInv /\ KeyPerPipeline

(* Steps that leave the keys alone.                                        *)
LEMMA KeyPathFrame ==
  ASSUME KeyPathInv,
         UNCHANGED <<queue, lastKey, bound, born, idOf, keyOf>>,
         sshKey' = sshKey \/ sshKey' = NoKey,
         lastKey \in Nat, \A i \in 1 .. Len(queue) : queue[i] \in Keys,
         factory' = "send" => factory = "send" /\ lastKey > 0,
         sshKey' # NoKey /\ loop' \notin Starting => loop \notin Starting
  PROVE  KeyPathInv'
<1>1. PlaceInv'
  BY DEF KeyPathInv, PlaceInv, Keys, NoKey
<1>2. FreshInv'
  BY DEF KeyPathInv, FreshInv
<1>3. KeyPerPipeline'
  BY DEF KeyPathInv, KeyPerPipeline
<1> QED
  BY <1>1, <1>2, <1>3 DEF KeyPathInv

LEMMA KeyPathStep == IInv /\ KeyPathInv /\ [Next]_vars => KeyPathInv'
<1> SUFFICES ASSUME IInv, KeyPathInv, [Next]_vars PROVE KeyPathInv'
  OBVIOUS
<1>a. /\ queue \in Seq(Keys) /\ lastKey \in 0 .. MaxKeys /\ MaxKeys \in Nat
      /\ sshKey \in Keys \cup {NoKey} /\ bound \in [Keys -> SUBSET Ids]
      /\ born \in 0 .. MaxRuns /\ MaxRuns \in Nat
      /\ idOf \in Seq(Ids) /\ Len(idOf) = born
      /\ keyOf \in Seq(Keys) /\ Len(keyOf) = born
  BY SchedulerAssumption DEF IInv, TypeOK
<1>b. /\ loop \in {"count", "ask", "poll"} => sshKey # NoKey
      /\ factory = "generate" => lastKey < MaxKeys
      /\ factory = "send" => lastKey > 0
  BY DEF IInv, KeyInv
<1>c. /\ lastKey \in Nat /\ sshKey \in Nat /\ Len(queue) \in Nat
      /\ \A i \in 1 .. Len(queue) : queue[i] \in Keys
  BY <1>a DEF Keys, NoKey
<1> USE DEF request, loopVars, factoryVars, mapVars, runVars, frameVars
<1>1. CASE FactoryTop
  <2>1. UNCHANGED <<queue, lastKey, sshKey, bound, born, idOf, keyOf, loop>>
        /\ factory' # "send"
    BY <1>1 DEF FactoryTop
  <2> QED
    BY <1>c, <2>1, KeyPathFrame
<1>2. CASE Generate
  <2>1. UNCHANGED <<queue, sshKey, bound, born, idOf, keyOf, loop>>
        /\ factory = "generate"
        /\ \/ lastKey' = lastKey + 1 /\ factory' = "send"
           \/ lastKey' = lastKey /\ factory' = "top"
    BY <1>2 DEF Generate
  <2>2. CASE lastKey' = lastKey
    BY <1>c, <2>1, <2>2, KeyPathFrame
  <2>3. CASE lastKey' = lastKey + 1 /\ factory' = "send"
    <3>1. lastKey + 1 \in Keys
      BY <1>a, <1>b, <2>1 DEF Keys
    <3>2. PlaceInv'
      BY <1>c, <2>1, <2>3 DEF KeyPathInv, PlaceInv, Keys
    <3>3. FreshInv'
      <4>1. lastKey + 1 > lastKey
            /\ \A k \in Nat : k > lastKey + 1 => k > lastKey
        BY <1>c
      <4>2. /\ \A k \in Keys : k > lastKey + 1 => bound[k] = {}
            /\ bound[lastKey + 1] = {}
        BY <3>1, <4>1 DEF KeyPathInv, FreshInv, Keys
      <4> QED
        BY <2>1, <2>3, <4>2 DEF KeyPathInv, FreshInv
    <3>4. KeyPerPipeline'
      BY <2>1 DEF KeyPathInv, KeyPerPipeline
    <3> QED
      BY <3>2, <3>3, <3>4 DEF KeyPathInv
  <2> QED
    BY <2>1, <2>2, <2>3
<1>3. CASE FactorySend
  <2>1. UNCHANGED <<lastKey, sshKey, bound, born, idOf, keyOf, loop>>
        /\ factory = "send" /\ factory' # "send"
        /\ (queue' = queue \/ queue' = Append(queue, lastKey))
    BY <1>3 DEF FactorySend
  <2>2. CASE queue' = queue
    BY <1>c, <2>1, <2>2, KeyPathFrame
  <2>3. CASE queue' = Append(queue, lastKey)
    <3>1. lastKey \in Keys
      BY <1>a, <1>b, <2>1 DEF Keys
    <3>2. Len(queue') = Len(queue) + 1
          /\ \A i \in 1 .. Len(queue') :
                queue'[i] = IF i <= Len(queue) THEN queue[i] ELSE lastKey
      BY <1>a, <2>3, <3>1
    <3>3. PlaceInv'
      BY <1>c, <2>1, <3>1, <3>2, SMTT(30) DEF KeyPathInv, PlaceInv, Keys
    <3>4. FreshInv'
      <4>1. \A i \in 1 .. Len(queue') : bound'[queue'[i]] = {}
        <5> SUFFICES ASSUME NEW i \in 1 .. Len(queue')
                     PROVE  bound[queue'[i]] = {}
          BY <2>1
        <5>1. CASE i <= Len(queue)
          <6>1. i \in 1 .. Len(queue) /\ queue'[i] = queue[i]
            BY <1>c, <3>2, <5>1
          <6> QED
            BY <6>1 DEF KeyPathInv, FreshInv
        <5>2. CASE ~(i <= Len(queue))
          BY <2>1, <3>2, <5>2 DEF KeyPathInv, FreshInv
        <5> QED
          BY <5>1, <5>2
      <4> QED
        BY <2>1, <4>1 DEF KeyPathInv, FreshInv
    <3>5. KeyPerPipeline'
      BY <2>1 DEF KeyPathInv, KeyPerPipeline
    <3> QED
      BY <3>3, <3>4, <3>5 DEF KeyPathInv
  <2> QED
    BY <2>1, <2>2, <2>3
<1>4. CASE LoopStart \/ LoopTop \/ LoadCount \/ Ask \/ PollNothing \/ PollCancel
           \/ Sleep
  <2>1. UNCHANGED <<factory, queue, lastKey, sshKey, bound, born, idOf, keyOf>>
        /\ loop \notin Starting
    BY <1>4 DEF LoopStart, LoopTop, LoadCount, Ask, PollNothing, PollCancel,
       Sleep, Starting
  <2> QED
    BY <1>b, <1>c, <2>1, KeyPathFrame
<1>5. CASE TakeKey
  <2>1. UNCHANGED <<factory, lastKey, bound, born, idOf, keyOf>>
        /\ loop \notin Starting
        /\ \/ UNCHANGED <<queue, sshKey>>
           \/ /\ sshKey = NoKey /\ queue # <<>>
              /\ sshKey' = Head(queue) /\ queue' = Tail(queue)
    BY <1>5 DEF TakeKey, Starting
  <2>2. CASE UNCHANGED <<queue, sshKey>>
    BY <1>b, <1>c, <2>1, <2>2, KeyPathFrame
  <2>3. CASE /\ sshKey = NoKey /\ queue # <<>>
             /\ sshKey' = Head(queue) /\ queue' = Tail(queue)
    <3>1. Len(queue) > 0 /\ sshKey' = queue[1] /\ Len(queue') = Len(queue) - 1
          /\ \A i \in 1 .. Len(queue') : queue'[i] = queue[i + 1]
      BY <1>a, <2>3
    <3>a. 1 \in 1 .. Len(queue) /\ Len(queue') \in Nat
          /\ \A i \in 1 .. Len(queue') : i + 1 \in 1 .. Len(queue) /\ i + 1 # 1
      BY <1>c, <3>1
    <3>b. \A i, j \in 1 .. Len(queue') : i + 1 = j + 1 => i = j
      BY <3>a
    <3>2. PlaceInv'
      <4>1. /\ \A i \in 1 .. Len(queue') :
                  /\ queue'[i] <= lastKey /\ queue'[i] # sshKey'
                  /\ factory = "send" => queue'[i] # lastKey
            /\ sshKey' <= lastKey /\ (factory = "send" => sshKey' # lastKey)
        BY <3>1, <3>a DEF KeyPathInv, PlaceInv
      <4>2. \A i, j \in 1 .. Len(queue') : queue'[i] = queue'[j] => i = j
        BY <3>1, <3>a, <3>b DEF KeyPathInv, PlaceInv
      <4> QED
        BY <2>1, <4>1, <4>2 DEF PlaceInv
    <3>3. FreshInv'
      <4>1. \A i \in 1 .. Len(queue') : bound[queue'[i]] = {}
        BY <3>1, <3>a DEF KeyPathInv, FreshInv
      <4>2. bound[sshKey'] = {}
        BY <3>1, <3>a DEF KeyPathInv, FreshInv
      <4> QED
        BY <2>1, <4>1, <4>2 DEF KeyPathInv, FreshInv
    <3>4. KeyPerPipeline'
      BY <2>1 DEF KeyPathInv, KeyPerPipeline
    <3> QED
      BY <3>2, <3>3, <3>4 DEF KeyPathInv
  <2> QED
    BY <2>1, <2>2, <2>3
<1>6. CASE PollError
  <2>1. sshKey # NoKey /\ loop = "poll" /\ sshKey' = NoKey
        /\ UNCHANGED <<factory, queue, lastKey, born, idOf, keyOf>>
    BY <1>6, <1>b DEF PollError
  <2>2. CASE bound' = bound
    BY <1>b, <1>c, <2>1, <2>2, KeyPathFrame DEF Starting
  <2>3. ASSUME NEW id \in Ids,
               bound' = [bound EXCEPT ![sshKey] = @ \cup {id}]
        PROVE  KeyPathInv'
    <3>1. sshKey \in Keys /\ bound[sshKey] = {}
      BY <1>a, <2>1 DEF KeyPathInv, FreshInv, Starting
    <3>2. \A k \in Keys : bound'[k] = IF k = sshKey THEN {id} ELSE bound[k]
      BY <1>a, <2>3, <3>1
    <3>3. PlaceInv'
      <4>1. /\ \A i \in 1 .. Len(queue) : queue[i] # NoKey
            /\ NoKey <= lastKey /\ (factory = "send" => NoKey # lastKey)
        BY <1>b, <1>c DEF Keys, NoKey
      <4> QED
        BY <2>1, <4>1 DEF KeyPathInv, PlaceInv
    <3>4. FreshInv'
      <4>1. \A k \in Keys : k > lastKey => bound'[k] = {}
        <5>1. \A k \in Keys : k > lastKey => k # sshKey
          BY <1>c DEF KeyPathInv, PlaceInv, Keys
        <5>2. \A k \in Keys : k > lastKey => bound[k] = {}
          BY DEF KeyPathInv, FreshInv
        <5> QED
          BY <3>2, <5>1, <5>2
      <4>2. factory = "send" => bound'[lastKey] = {}
        <5> SUFFICES ASSUME factory = "send" PROVE bound'[lastKey] = {}
          OBVIOUS
        <5>1. lastKey \in Keys /\ lastKey # sshKey
          BY <1>a, <1>b DEF KeyPathInv, PlaceInv, Keys
        <5> QED
          BY <3>2, <5>1 DEF KeyPathInv, FreshInv
      <4>3. \A i \in 1 .. Len(queue) : bound'[queue[i]] = {}
        <5>1. \A i \in 1 .. Len(queue) : queue[i] # sshKey /\ bound[queue[i]] = {}
          BY DEF KeyPathInv, PlaceInv, FreshInv
        <5> QED
          BY <1>c, <3>2, <5>1
      <4> QED
        BY <2>1, <4>1, <4>2, <4>3 DEF FreshInv
    <3>5. KeyPerPipeline'
      <4>1. \A r \in 1 .. born : keyOf[r] \in Keys
        BY <1>a
      <4> QED
        BY <2>1, <3>1, <3>2, <4>1 DEF KeyPathInv, KeyPerPipeline
    <3> QED
      BY <3>3, <3>4, <3>5 DEF KeyPathInv
  <2> QED
    BY <1>6, <2>2, <2>3 DEF PollError
<1>7. CASE PollRun
  <2>1. PICK id \in Ids : bound' = [bound EXCEPT ![sshKey] = @ \cup {id}]
                          /\ idOf' = Append(idOf, id)
    BY <1>7 DEF PollRun
  <2>2. sshKey # NoKey /\ loop = "poll" /\ loop' = "store"
        /\ born' = born + 1 /\ keyOf' = Append(keyOf, sshKey)
        /\ UNCHANGED <<factory, queue, lastKey, sshKey>>
    BY <1>7, <1>b DEF PollRun
  <2>3. sshKey \in Keys /\ bound[sshKey] = {}
    BY <1>a, <2>2 DEF KeyPathInv, FreshInv, Starting
  <2>4. \A k \in Keys : bound'[k] = IF k = sshKey THEN {id} ELSE bound[k]
    BY <1>a, <2>1, <2>3
  <2>5. \A r \in 1 .. born' :
           /\ idOf'[r] = IF r <= born THEN idOf[r] ELSE id
           /\ keyOf'[r] = IF r <= born THEN keyOf[r] ELSE sshKey
    BY <1>a, <2>1, <2>2, <2>3
  <2>6. \A r \in 1 .. born : keyOf[r] \in Keys
    BY <1>a
  <2>7. KeyPerPipeline'
    <3>1. \A k \in Keys : \A i, j \in bound'[k] : i = j
      BY <2>4 DEF KeyPathInv, KeyPerPipeline
    <3>2. \A r \in 1 .. born' : idOf'[r] \in bound'[keyOf'[r]]
      <4> SUFFICES ASSUME NEW r \in 1 .. born'
                   PROVE  idOf'[r] \in bound'[keyOf'[r]]
        OBVIOUS
      <4>1. CASE r <= born
        <5>1. r \in 1 .. born /\ idOf'[r] = idOf[r] /\ keyOf'[r] = keyOf[r]
          BY <1>a, <2>2, <2>5, <4>1
        <5>2. keyOf[r] \in Keys /\ idOf[r] \in bound[keyOf[r]]
          BY <2>6, <5>1 DEF KeyPathInv, KeyPerPipeline
        <5>3. keyOf[r] # sshKey
          BY <2>3, <5>2
        <5> QED
          BY <2>4, <5>1, <5>2, <5>3
      <4>2. CASE ~(r <= born)
        BY <2>3, <2>4, <2>5, <4>2
      <4> QED
        BY <4>1, <4>2
    <3> QED
      BY <3>1, <3>2 DEF KeyPerPipeline
  <2>8. PlaceInv'
    BY <2>2 DEF KeyPathInv, PlaceInv
  <2>9. FreshInv'
    <3>1. \A k \in Keys : k > lastKey => bound'[k] = {}
      <4>1. \A k \in Keys : k > lastKey => k # sshKey
        BY <1>c DEF KeyPathInv, PlaceInv, Keys
      <4>2. \A k \in Keys : k > lastKey => bound[k] = {}
        BY DEF KeyPathInv, FreshInv
      <4> QED
        BY <2>4, <4>1, <4>2
    <3>2. factory = "send" => bound'[lastKey] = {}
      <4> SUFFICES ASSUME factory = "send" PROVE bound'[lastKey] = {}
        OBVIOUS
      <4>1. lastKey \in Keys /\ lastKey # sshKey
        BY <1>a, <1>b DEF KeyPathInv, PlaceInv, Keys
      <4> QED
        BY <2>4, <4>1 DEF KeyPathInv, FreshInv
    <3>3. \A i \in 1 .. Len(queue) : bound'[queue[i]] = {}
      <4>1. \A i \in 1 .. Len(queue) : queue[i] # sshKey /\ bound[queue[i]] = {}
        BY DEF KeyPathInv, PlaceInv, FreshInv
      <4> QED
        BY <1>c, <2>4, <4>1
    <3> QED
      BY <2>2, <3>1, <3>2, <3>3 DEF FreshInv, Starting
  <2> QED
    BY <2>7, <2>8, <2>9 DEF KeyPathInv
<1>8. CASE PollTerminate \/ LeaveTerminate \/ LoopCanceled \/ Launch
  <2>1. sshKey' \in {sshKey, NoKey}
        /\ (sshKey' # NoKey => loop \notin Starting)
        /\ UNCHANGED <<factory, queue, lastKey, bound, born, idOf, keyOf>>
    BY <1>8 DEF PollTerminate, LeaveTerminate, LoopCanceled, Launch, EndServe,
       Starting
  <2> QED
    BY <1>b, <1>c, <2>1, KeyPathFrame
<1>9. CASE StoreId \/ StoreCancel \/ AddPipeline
  <2>1. UNCHANGED <<factory, queue, lastKey, sshKey, bound, born, idOf, keyOf>>
        /\ loop' \in Starting
    BY <1>9 DEF StoreId, StoreCancel, AddPipeline, Starting
  <2> QED
    BY <1>b, <1>c, <2>1, KeyPathFrame
<1>10. CASE CancelPipeline \/ Interrupt \/ Shutdown
  <2>1. UNCHANGED <<factory, queue, lastKey, sshKey, bound, born, idOf, keyOf,
                    loop>>
    BY <1>10 DEF CancelPipeline, CancelLoad, CancelCall, CancelDropFunc,
       CancelDropId, Interrupt, Shutdown, StopContext, WaitLoop,
       RangePipelines, ShutdownCanceled, WaitGroup, WaitRoutines
  <2> QED
    BY <1>b, <1>c, <2>1, KeyPathFrame
<1>11. ASSUME NEW r \in Runs, RunReturn(r) \/ RunSticks(r) \/ RunEpilogue(r)
       PROVE  KeyPathInv'
  <2>1. UNCHANGED <<factory, queue, lastKey, sshKey, bound, born, idOf, keyOf,
                    loop>>
    BY <1>11 DEF RunReturn, RunSticks, RunEpilogue, RunDone, RunUncount,
       RunDropCancel, RunDropId
  <2> QED
    BY <1>b, <1>c, <2>1, KeyPathFrame
<1>12. CASE UNCHANGED vars
  BY <1>12, <1>b, <1>c, KeyPathFrame DEF vars
<1> QED
  BY <1>1, <1>2, <1>3, <1>4, <1>5, <1>6, <1>7, <1>8, <1>9, <1>10, <1>11,
     <1>12
     DEF Next, Factory, Loop, Poll, Down, Hang

(* Whatever requests get lost and whatever the server hands out, no ssh    *)
(* key ever gives access to the repositories of two pipelines.             *)
THEOREM OneKeyOnePipeline == Spec => []KeyPerPipeline
<1>1. Init => KeyPathInv
  <2> SUFFICES ASSUME Init PROVE KeyPathInv
    OBVIOUS
  <2>1. /\ queue = <<>> /\ lastKey = 0 /\ sshKey = NoKey /\ born = 0
        /\ factory # "send" /\ bound = [k \in Keys |-> {}]
    BY DEF Init
  <2>2. PlaceInv
    BY <2>1 DEF PlaceInv, NoKey
  <2>3. FreshInv
    BY <2>1 DEF FreshInv
  <2>4. KeyPerPipeline
    BY <2>1 DEF KeyPerPipeline
  <2> QED
    BY <2>2, <2>3, <2>4 DEF KeyPathInv
<1>2. IInv /\ KeyPathInv /\ [Next]_vars => KeyPathInv'
  BY KeyPathStep
<1>3. KeyPathInv => KeyPerPipeline
  BY DEF KeyPathInv
<1> QED
  BY <1>1, <1>2, <1>3, Inductive, PTL DEF Spec

-----------------------------------------------------------------------------
(* What is counted: the two counters of running pipelines,                 *)
(* max_parallel_pipelines, and the end of shutdown.                        *)

(* the runs that have not yet decremented scheduler.pipelines *)
Counted == {r \in Runs : run[r] \in {"running", "returned", "left"}}

(* A task that brought a pipeline answers a request that asked for one,    *)
(* and only the loop adds to the counter: what the loop has read before    *)
(* the request is an upper bound until the loop itself changes it.  A run  *)
(* joins the counter before it starts and leaves it after it has returned. *)
LimitInv ==
    /\ loop \in Starting => query
    /\ loop \in {"ask", "poll", "store", "cancels", "add"} /\ query =>
          pipelines < MaxParallel
    /\ pipelines <= MaxParallel
    /\ pipelines = Cardinality(Counted) + (IF loop = "launch" THEN 1 ELSE 0)

(* pipelinesGroup counts the runs inside process.Run, and shutdown passes  *)
(* its wait only when there are none.                                      *)
GroupInv ==
    /\ group = Cardinality(Live)
    /\ main \in {"routines", "down"} => Live = {}

LEMMA FiniteRuns ==
  ASSUME MaxRuns \in Nat
  PROVE  /\ IsFiniteSet(Counted) /\ IsFiniteSet(Live)
         /\ Cardinality(Counted) \in Nat /\ Cardinality(Live) \in Nat
         /\ Cardinality(Live) <= Cardinality(Counted)
<1>1. IsFiniteSet(Runs)
  BY FS_Interval DEF Runs
<1>2. Counted \in SUBSET Runs
  BY DEF Counted
<1>3. IsFiniteSet(Counted)
  BY <1>1, <1>2, FS_Subset
<1>4. Live \in SUBSET Counted
  BY DEF Live, Counted
<1>5. IsFiniteSet(Live) /\ Cardinality(Live) <= Cardinality(Counted)
  BY <1>3, <1>4, FS_Subset
<1> QED
  BY <1>3, <1>5, FS_CardinalityType

LEMMA LimitStep == IInv /\ LimitInv /\ [Next]_vars => LimitInv'
<1> SUFFICES ASSUME IInv, LimitInv, [Next]_vars PROVE LimitInv'
  OBVIOUS
<1>a. pipelines \in Int /\ born \in 0 .. MaxRuns /\ MaxRuns \in Nat
      /\ MaxParallel \in Nat \ {0}
  BY SchedulerAssumption DEF IInv, TypeOK
<1>b. run \in [Runs -> {"none", "starting", "running", "returned", "left",
                        "uncounted", "forgotten", "gone"}]
  BY DEF IInv, TypeOK
<1> USE DEF Starting, request, loopVars, factoryVars, mapVars, runVars,
        frameVars
<1>1. CASE Factory
  <2>1. UNCHANGED <<run, pipelines, loop, query>>
    BY <1>1 DEF Factory, FactoryTop, Generate, FactorySend
  <2> QED
    BY <2>1 DEF LimitInv, Counted
<1>2. CASE LoopStart \/ LoopTop \/ TakeKey \/ Ask \/ PollNothing \/ PollError
           \/ PollCancel \/ LeaveTerminate \/ Sleep \/ LoopCanceled
  <2>1. UNCHANGED <<run, pipelines, query>> /\ loop' \notin Starting
    BY <1>2 DEF LoopStart, LoopTop, TakeKey, Ask, PollNothing, PollError,
       PollCancel, LeaveTerminate, Sleep, LoopCanceled, EndServe
  <2>2. loop' \in {"ask", "poll"} => loop = "ask"
    BY <1>2 DEF LoopStart, LoopTop, TakeKey, Ask, PollNothing, PollError,
       PollCancel, LeaveTerminate, Sleep, LoopCanceled, EndServe
  <2>3. loop # "launch"
    BY <1>2 DEF LoopStart, LoopTop, TakeKey, Ask, PollNothing, PollError,
       PollCancel, LeaveTerminate, Sleep, LoopCanceled
  <2> QED
    BY <2>1, <2>2, <2>3 DEF LimitInv, Counted
<1>3. CASE PollTerminate
  BY <1>3 DEF LimitInv, Counted, PollTerminate
<1>4. CASE LoadCount
  BY <1>4 DEF LimitInv, Counted, LoadCount
<1>5. CASE PollRun
  <2>1. query /\ UNCHANGED <<query, pipelines>> /\ loop = "poll"
        /\ loop' = "store" /\ born < MaxRuns
        /\ run' = [run EXCEPT ![born + 1] = "starting"]
    BY <1>5 DEF PollRun, Issuable
  <2>2. born + 1 \in Runs /\ run[born + 1] = "none"
    BY <1>a, <2>1 DEF IInv, RunInv, Runs
  <2>3. Counted' = Counted
    BY <1>b, <2>1, <2>2 DEF Counted
  <2> QED
    BY <2>1, <2>3 DEF LimitInv
<1>6. CASE StoreId \/ StoreCancel
  BY <1>6 DEF LimitInv, Counted, StoreId, StoreCancel
<1>7. CASE AddPipeline
  <2>1. UNCHANGED <<run, query>> /\ loop = "add" /\ loop' = "launch"
        /\ pipelines' = pipelines + 1
    BY <1>7 DEF AddPipeline
  <2>2. Counted' = Counted
    BY <2>1 DEF Counted
  <2> QED
    BY <1>a, <2>1, <2>2, FiniteRuns DEF LimitInv
<1>8. CASE Launch
  <2>1. loop = "launch" /\ loop' = "top" /\ UNCHANGED <<pipelines, query>>
        /\ run' = [run EXCEPT ![born] = "running"]
    BY <1>8 DEF Launch, EndServe
  <2>2. born \in Runs /\ run[born] = "starting"
    BY <1>a, <2>1 DEF IInv, RunInv, Runs
  <2>3. Counted' = Counted \cup {born} /\ born \notin Counted
    BY <1>b, <2>1, <2>2 DEF Counted
  <2>4. Cardinality(Counted') = Cardinality(Counted) + 1
    BY <1>a, <2>3, FiniteRuns, FS_AddElement
  <2> QED
    BY <1>a, <2>1, <2>4, FiniteRuns DEF LimitInv
<1>9. CASE CancelPipeline
  <2>1. UNCHANGED <<run, pipelines, loop, query>>
    BY <1>9 DEF CancelPipeline, CancelLoad, CancelCall, CancelDropFunc,
       CancelDropId
  <2> QED
    BY <2>1 DEF LimitInv, Counted
<1>10. CASE Interrupt \/ Shutdown
  <2>1. UNCHANGED <<run, pipelines, loop, query>>
    BY <1>10 DEF Interrupt, Shutdown, StopContext, WaitLoop, RangePipelines,
       ShutdownCanceled, WaitGroup, WaitRoutines
  <2> QED
    BY <2>1 DEF LimitInv, Counted
<1>11. ASSUME NEW r \in Runs,
              \/ RunReturn(r) \/ RunSticks(r) \/ RunDone(r)
              \/ RunDropCancel(r) \/ RunDropId(r)
       PROVE  LimitInv'
  <2>1. UNCHANGED <<pipelines, loop, query>>
    BY <1>11 DEF RunReturn, RunSticks, RunDone, RunDropCancel, RunDropId
  <2>2. Counted' = Counted
    BY <1>b, <1>11 DEF Counted, RunReturn, RunSticks, RunDone, RunDropCancel,
       RunDropId
  <2> QED
    BY <2>1, <2>2 DEF LimitInv
<1>12. ASSUME NEW r \in Runs, RunUncount(r) PROVE LimitInv'
  <2>1. UNCHANGED <<loop, query>> /\ pipelines' = pipelines - 1
        /\ run[r] = "left" /\ run' = [run EXCEPT ![r] = "uncounted"]
    BY <1>12 DEF RunUncount
  <2>2. Counted' = Counted \ {r} /\ r \in Counted
    BY <1>b, <2>1 DEF Counted
  <2>3. Cardinality(Counted') = Cardinality(Counted) - 1
    BY <1>a, <2>2, FiniteRuns, FS_RemoveElement
  <2> QED
    BY <1>a, <2>1, <2>3, FiniteRuns DEF LimitInv
<1>13. CASE UNCHANGED vars
  BY <1>13 DEF LimitInv, Counted, vars
<1> QED
  BY <1>1, <1>2, <1>3, <1>4, <1>5, <1>6, <1>7, <1>8, <1>9, <1>10, <1>11,
     <1>12, <1>13
     DEF Next, Loop, Poll, RunEpilogue, Down, Hang

LEMMA GroupStep == IInv /\ GroupInv /\ [Next]_vars => GroupInv'
<1> SUFFICES ASSUME IInv, GroupInv, [Next]_vars PROVE GroupInv'
  OBVIOUS
<1>a. group \in Int /\ born \in 0 .. MaxRuns /\ MaxRuns \in Nat
  BY SchedulerAssumption DEF IInv, TypeOK
<1>b. run \in [Runs -> {"none", "starting", "running", "returned", "left",
                        "uncounted", "forgotten", "gone"}]
  BY DEF IInv, TypeOK
<1> USE DEF Starting, request, loopVars, factoryVars, mapVars, runVars,
        frameVars
<1>1. CASE Factory \/ CancelPipeline
  <2>1. UNCHANGED <<run, group, main>>
    BY <1>1 DEF Factory, FactoryTop, Generate, FactorySend, CancelPipeline,
       CancelLoad, CancelCall, CancelDropFunc, CancelDropId
  <2> QED
    BY <2>1 DEF GroupInv, Live
<1>2. CASE LoopStart \/ LoopTop \/ TakeKey \/ LoadCount \/ Ask \/ PollNothing
           \/ PollError \/ PollCancel \/ LeaveTerminate \/ Sleep
           \/ LoopCanceled
  <2>1. UNCHANGED <<run, group, main>>
    BY <1>2 DEF LoopStart, LoopTop, TakeKey, LoadCount, Ask, PollNothing,
       PollError, PollCancel, LeaveTerminate, Sleep, LoopCanceled
  <2> QED
    BY <2>1 DEF GroupInv, Live
<1>3. CASE PollTerminate \/ StoreId \/ StoreCancel \/ AddPipeline
  <2>1. UNCHANGED <<run, group, main>>
    BY <1>3 DEF PollTerminate, StoreId, StoreCancel, AddPipeline
  <2> QED
    BY <2>1 DEF GroupInv, Live
<1>4. CASE PollRun
  <2>1. UNCHANGED <<group, main>> /\ born < MaxRuns
        /\ run' = [run EXCEPT ![born + 1] = "starting"]
    BY <1>4 DEF PollRun
  <2>2. born + 1 \in Runs /\ run[born + 1] = "none"
    BY <1>a, <2>1 DEF IInv, RunInv, Runs
  <2>3. Live' = Live
    BY <1>b, <2>1, <2>2 DEF Live
  <2> QED
    BY <2>1, <2>3 DEF GroupInv
<1>5. CASE Launch
  <2>1. loop = "launch" /\ UNCHANGED main /\ group' = group + 1
        /\ run' = [run EXCEPT ![born] = "running"]
    BY <1>5 DEF Launch
  <2>2. born \in Runs /\ run[born] = "starting"
    BY <1>a, <2>1 DEF IInv, RunInv, Runs
  <2>3. Live' = Live \cup {born} /\ born \notin Live
    BY <1>b, <2>1, <2>2 DEF Live
  <2>4. Cardinality(Live') = Cardinality(Live) + 1
    BY <1>a, <2>3, FiniteRuns, FS_AddElement
  <2>5. main \notin {"routines", "down"}
    BY <2>1 DEF IInv, MainInv, PastLoop
  <2> QED
    BY <2>1, <2>4, <2>5 DEF GroupInv
<1>6. CASE Interrupt \/ StopContext \/ WaitLoop \/ RangePipelines
           \/ ShutdownCanceled \/ WaitRoutines
  <2>1. UNCHANGED <<run, group>>
        /\ (main' \in {"routines", "down"} => main \in {"routines", "down"})
    BY <1>6 DEF Interrupt, StopContext, WaitLoop, RangePipelines,
       ShutdownCanceled, WaitRoutines
  <2> QED
    BY <2>1 DEF GroupInv, Live
<1>7. CASE WaitGroup
  <2>1. UNCHANGED <<run, group>> /\ group = 0
    BY <1>7 DEF WaitGroup
  <2>2. Live = {}
    BY <1>a, <2>1, FiniteRuns, FS_EmptySet DEF GroupInv
  <2> QED
    BY <2>1, <2>2 DEF GroupInv, Live
<1>8. ASSUME NEW r \in Runs, RunDone(r) PROVE GroupInv'
  <2>1. UNCHANGED main /\ group' = group - 1
        /\ run[r] = "returned" /\ run' = [run EXCEPT ![r] = "left"]
    BY <1>8 DEF RunDone
  <2>2. Live' = Live \ {r} /\ r \in Live
    BY <1>b, <2>1 DEF Live
  <2>3. Cardinality(Live') = Cardinality(Live) - 1
    BY <1>a, <2>2, FiniteRuns, FS_RemoveElement
  <2> QED
    BY <2>1, <2>2, <2>3 DEF GroupInv
<1>9. ASSUME NEW r \in Runs,
             \/ RunReturn(r) \/ RunSticks(r) \/ RunUncount(r)
             \/ RunDropCancel(r) \/ RunDropId(r)
      PROVE  GroupInv'
  <2>1. UNCHANGED <<group, main>>
    BY <1>9 DEF RunReturn, RunSticks, RunUncount, RunDropCancel, RunDropId
  <2>2. Live' = Live
    BY <1>b, <1>9 DEF Live, RunReturn, RunSticks, RunUncount, RunDropCancel,
       RunDropId
  <2> QED
    BY <2>1, <2>2 DEF GroupInv
<1>10. CASE UNCHANGED vars
  BY <1>10 DEF GroupInv, Live, vars
<1> QED
  BY <1>1, <1>2, <1>3, <1>4, <1>5, <1>6, <1>7, <1>8, <1>9, <1>10
     DEF Next, Loop, Poll, RunEpilogue, Shutdown, Down, Hang

LEMMA LimitInductive == Spec => []LimitInv
<1>1. Init => LimitInv
  <2> SUFFICES ASSUME Init PROVE LimitInv
    OBVIOUS
  <2>1. Counted = {}
    BY DEF Init, Counted
  <2> QED
    BY <2>1, FS_EmptySet, SchedulerAssumption DEF Init, LimitInv, Starting
<1>2. IInv /\ LimitInv /\ [Next]_vars => LimitInv'
  BY LimitStep
<1> QED
  BY <1>1, <1>2, Inductive, PTL DEF Spec

(* However late the answer to a request arrives and however slowly         *)
(* finished pipelines are taken off the counter, no more pipelines run at  *)
(* a time than max_parallel_pipelines.                                     *)
THEOREM LimitHolds == Spec => []ParallelLimit
<1>1. IInv /\ LimitInv => ParallelLimit
  BY FiniteRuns, SchedulerAssumption
     DEF IInv, TypeOK, LimitInv, ParallelLimit
<1> QED
  BY <1>1, LimitInductive, Inductive, PTL

LEMMA GroupInductive == Spec => []GroupInv
<1>1. Init => GroupInv
  <2> SUFFICES ASSUME Init PROVE GroupInv
    OBVIOUS
  <2>1. Live = {}
    BY DEF Init, Live
  <2> QED
    BY <2>1, FS_EmptySet DEF Init, GroupInv
<1>2. IInv /\ GroupInv /\ [Next]_vars => GroupInv'
  BY GroupStep
<1> QED
  BY <1>1, <1>2, Inductive, PTL DEF Spec

(* When shutdown is over no pipeline is inside process.Run, whatever the   *)
(* server has answered and whatever it hands out twice.                    *)
THEOREM DownIsIdle == Spec => []DownMeansIdle
<1>1. IInv /\ GroupInv => DownMeansIdle
  BY DEF IInv, RunInv, MainInv, PastLoop, Starting, GroupInv, Live,
     DownMeansIdle
<1> QED
  BY <1>1, GroupInductive, Inductive, PTL
-----------------------------------------------------------------------------
(* The scheduler implements the abstract pool.                             *)

(* Only a run that has started is told to stop.                            *)
ToldInv == \A r \in Runs : canceled[r] => run[r] \notin {"none", "starting"}

(* what the pool is made of stays as it is *)
Still == UNCHANGED <<run, canceled, main>>

LEMMA MostStepsAreStill ==
    ASSUME \/ Factory \/ LoopStart \/ LoopTop \/ TakeKey \/ LoadCount \/ Ask
           \/ PollNothing \/ PollError \/ PollCancel \/ PollTerminate
           \/ LeaveTerminate \/ Sleep \/ StoreId \/ StoreCancel \/ AddPipeline
           \/ LoopCanceled \/ CancelLoad \/ CancelDropFunc \/ CancelDropId
           \/ (\E r \in Runs : RunSticks(r))
           \/ UNCHANGED vars
    PROVE  Still
<1> USE DEF runVars, Still
<1>1. CASE Factory
  BY <1>1 DEF Factory, FactoryTop, Generate, FactorySend
<1>2. CASE LoopStart \/ LoopTop \/ TakeKey \/ LoadCount \/ Ask
  BY <1>2 DEF LoopStart, LoopTop, TakeKey, LoadCount, Ask
<1>3. CASE PollNothing \/ PollError \/ PollCancel \/ PollTerminate
  BY <1>3 DEF PollNothing, PollError, PollCancel, PollTerminate
<1>4. CASE LeaveTerminate \/ Sleep \/ LoopCanceled
  BY <1>4 DEF LeaveTerminate, Sleep, LoopCanceled
<1>5. CASE StoreId \/ StoreCancel \/ AddPipeline
  BY <1>5 DEF StoreId, StoreCancel, AddPipeline
<1>6. CASE CancelLoad \/ CancelDropFunc \/ CancelDropId
  BY <1>6 DEF CancelLoad, CancelDropFunc, CancelDropId
<1>7. CASE \E r \in Runs : RunSticks(r)
  BY <1>7 DEF RunSticks
<1>8. CASE UNCHANGED vars
  BY <1>8 DEF vars
<1> QED
  BY <1>1, <1>2, <1>3, <1>4, <1>5, <1>6, <1>7, <1>8

(* The actions that are left when those are set aside.                     *)
LEMMA StepsOfThePool ==
    ASSUME [Next]_vars
    PROVE  \/ Still
           \/ PollRun \/ Launch \/ CancelCall
           \/ \E r \in Runs : RunReturn(r) \/ RunEpilogue(r)
           \/ Interrupt \/ Shutdown
BY MostStepsAreStill DEF Next, Loop, Poll, CancelPipeline, Down, Hang

(* Who is told to stop has started: cancelPipeline finds only runs that    *)
(* startPipeline has entered, and it is never executed within that.        *)
LEMMA ToldHasStarted == IInv /\ Canceling /\ step = "call"
    => target \in Runs /\ run[target] \notin {"none", "starting"}
<1> SUFFICES ASSUME IInv, Canceling, step = "call"
             PROVE  target \in Runs /\ run[target] \notin {"none", "starting"}
  OBVIOUS
<1>1. target \in Runs /\ target <= born
  BY SchedulerAssumption DEF IInv, TypeOK, FrameInv, Runs
<1>2. loop \notin Starting
  BY DEF IInv, MainInv, Canceling, PastLoop, Starting
<1> QED
  BY <1>1, <1>2, SchedulerAssumption DEF IInv, TypeOK, RunInv, Runs

LEMMA ToldStep == IInv /\ ToldInv /\ [Next]_vars => ToldInv'
<1> SUFFICES ASSUME IInv, ToldInv, [Next]_vars PROVE ToldInv'
  OBVIOUS
<1>a. /\ run \in [Runs -> {"none", "starting", "running", "returned", "left",
                           "uncounted", "forgotten", "gone"}]
      /\ canceled \in [Runs -> BOOLEAN]
      /\ born \in 0 .. MaxRuns /\ MaxRuns \in Nat
  BY SchedulerAssumption DEF IInv, TypeOK
<1>1. CASE Still
  BY <1>1 DEF Still, ToldInv
<1>2. CASE PollRun
  <2>1. /\ born + 1 \in Runs /\ run[born + 1] = "none"
        /\ run' = [run EXCEPT ![born + 1] = "starting"]
        /\ canceled' = canceled
    BY <1>2, <1>a DEF PollRun, IInv, RunInv, Runs
  <2> QED
    BY <1>a, <2>1 DEF ToldInv
<1>3. CASE CancelCall
  <2>1. /\ target \in Runs /\ run[target] \notin {"none", "starting"}
        /\ canceled' = [canceled EXCEPT ![target] = TRUE] /\ run' = run
    BY <1>3, ToldHasStarted DEF CancelCall
  <2> QED
    BY <1>a, <2>1 DEF ToldInv
<1>4. CASE Launch
  BY <1>4, <1>a DEF Launch, ToldInv
<1>5. ASSUME NEW r \in Runs, RunReturn(r) \/ RunEpilogue(r) PROVE ToldInv'
  BY <1>5, <1>a DEF RunReturn, RunEpilogue, RunDone, RunUncount,
     RunDropCancel, RunDropId, ToldInv
<1>6. CASE Interrupt \/ Shutdown
  BY <1>6 DEF Interrupt, Shutdown, StopContext, WaitLoop, RangePipelines,
     ShutdownCanceled, WaitGroup, WaitRoutines, runVars, ToldInv
<1> QED
  BY <1>1, <1>2, <1>3, <1>4, <1>5, <1>6, StepsOfThePool

LEMMA CardinalityInPool ==
    ASSUME NEW S
    PROVE  Pool!Cardinality(S) = Cardinality(S)
BY DEF Cardinality, Pool!Cardinality

(* Launch takes a free place: the counter has already been incremented.    *)
LEMMA LaunchStarts ==
    ASSUME IInv, LimitInv, ToldInv, Launch
    PROVE  \E r \in Runs : Pool!Start(r)
<1> DEFINE running == {r \in Runs : run[r] = "running"}
<1>1. /\ loop = "launch" /\ run' = [run EXCEPT ![born] = "running"]
      /\ UNCHANGED <<canceled, main>>
  BY DEF Launch
<1>2. /\ run \in [Runs -> {"none", "starting", "running", "returned", "left",
                           "uncounted", "forgotten", "gone"}]
      /\ born \in Runs /\ run[born] = "starting"
      /\ MaxRuns \in Nat /\ MaxParallel \in Nat
      /\ main \notin PastLoop
  BY <1>1, SchedulerAssumption
     DEF IInv, TypeOK, RunInv, MainInv, Starting, PastLoop, Runs
<1>3. Cardinality(running) < MaxParallel
  <2>1. running \in SUBSET Counted
    BY DEF Counted
  <2>2. Cardinality(running) <= Cardinality(Counted)
        /\ Cardinality(running) \in Nat
    BY <1>2, <2>1, FiniteRuns, FS_Subset, FS_CardinalityType
  <2>3. Cardinality(Counted) + 1 <= MaxParallel
    BY <1>1 DEF LimitInv
  <2> HIDE DEF running
  <2> QED
    BY <1>2, <2>2, <2>3, FiniteRuns
<1>4. PICK r \in Runs : r = born
  BY <1>2
<1>5. /\ run[r] = "starting" /\ ~canceled[r]
      /\ run' = [run EXCEPT ![r] = "running"]
  BY <1>1, <1>2, <1>4 DEF ToldInv
<1>6. main \in {"select", "stop", "loop"}
  BY <1>2 DEF PastLoop, IInv, TypeOK
<1>7. running' = running \cup {r}
  BY <1>2, <1>5
<1>8. {s \in Runs : run'[s] \notin {"none", "starting", "running"}}
          = {s \in Runs : run[s] \notin {"none", "starting", "running"}}
  BY <1>2, <1>5
<1>9. r \notin running \cup {s \in Runs :
                                 run[s] \notin {"none", "starting", "running"}}
                       \cup {s \in Runs : canceled[s]}
  BY <1>5
<1>10. {s \in Runs : canceled'[s]} = {s \in Runs : canceled[s]}
  BY <1>1
<1>11. Pool!Cardinality(running) < MaxParallel
  BY <1>3, CardinalityInPool
<1>12. /\ UNCHANGED main /\ main \notin {"cancel", "group", "routines", "down"}
  BY <1>1, <1>6
<1> QED
  BY <1>7, <1>8, <1>9, <1>10, <1>11, <1>12 DEF Pool!Start

LEMMA PoolStep ==
    ASSUME IInv, CancelInv, LimitInv, GroupInv, ToldInv, [Next]_vars
    PROVE  [Pool!Next]_(Pool!vars)
<1>a. /\ run \in [Runs -> {"none", "starting", "running", "returned", "left",
                           "uncounted", "forgotten", "gone"}]
      /\ canceled \in [Runs -> BOOLEAN]
      /\ born \in 0 .. MaxRuns /\ MaxRuns \in Nat
  BY SchedulerAssumption DEF IInv, TypeOK
<1>1. CASE Still
  BY <1>1 DEF Still, Pool!vars
<1>2. CASE PollRun
  <2>1. /\ born + 1 \in Runs /\ run[born + 1] = "none"
        /\ run' = [run EXCEPT ![born + 1] = "starting"]
        /\ UNCHANGED <<canceled, main>>
    BY <1>2, <1>a DEF PollRun, IInv, RunInv, Runs
  <2> QED
    BY <1>a, <2>1 DEF Pool!vars
<1>3. CASE Launch
  BY <1>3, LaunchStarts DEF Pool!Next
<1>4. CASE CancelCall
  <2>1. PICK r \in Runs : r = target
    BY <1>4, ToldHasStarted DEF CancelCall
  <2>2. /\ run[r] \notin {"none", "starting"}
        /\ canceled' = [canceled EXCEPT ![r] = TRUE]
        /\ UNCHANGED <<run, main>>
        /\ main \notin PastLoop \ {"range", "cancel"}
    BY <1>4, <2>1, ToldHasStarted
       DEF CancelCall, Canceling, IInv, MainInv, PastLoop
  <2>3. Pool!Tell(r)
    BY <1>a, <2>2 DEF Pool!Tell, PastLoop
  <2> QED
    BY <2>3 DEF Pool!Next
<1>5. ASSUME NEW r \in Runs, RunReturn(r) PROVE Pool!Finish(r)
  <2>1. /\ run[r] = "running" /\ run' = [run EXCEPT ![r] = "returned"]
        /\ UNCHANGED <<canceled, main>>
    BY <1>5 DEF RunReturn
  <2> QED
    BY <1>a, <2>1 DEF Pool!Finish
<1>6. ASSUME NEW r \in Runs, RunEpilogue(r) PROVE UNCHANGED Pool!vars
  <2>1. /\ run[r] \in {"returned", "left", "uncounted", "forgotten"}
        /\ \/ run' = [run EXCEPT ![r] = "left"]
           \/ run' = [run EXCEPT ![r] = "uncounted"]
           \/ run' = [run EXCEPT ![r] = "forgotten"]
           \/ run' = [run EXCEPT ![r] = "gone"]
        /\ UNCHANGED <<canceled, main>>
    BY <1>6 DEF RunEpilogue, RunDone, RunUncount, RunDropCancel, RunDropId
  <2> QED
    BY <1>a, <2>1 DEF Pool!vars
<1>7. CASE Interrupt \/ StopContext \/ WaitLoop \/ WaitRoutines
  BY <1>7 DEF Interrupt, StopContext, WaitLoop, WaitRoutines, runVars,
     Pool!vars
<1>8. CASE RangePipelines
  BY <1>8 DEF RangePipelines, runVars, Pool!Next, Pool!Close
<1>9. CASE ShutdownCanceled
  <2>1. /\ main = "cancel" /\ main' = "group" /\ todo = {}
        /\ UNCHANGED <<run, canceled>>
    BY <1>9 DEF ShutdownCanceled, runVars
  <2>2. \A r \in Runs : run[r] = "running" => canceled[r]
    BY <1>a, <2>1 DEF CancelInv, SnapshotInv, IInv, RunInv, Runs
  <2>3. Pool!Await
    BY <2>1, <2>2 DEF Pool!Await
  <2> QED
    BY <2>3 DEF Pool!Next
<1>10. CASE WaitGroup
  <2>1. /\ main = "group" /\ main' = "routines" /\ group = 0
        /\ UNCHANGED <<run, canceled>>
    BY <1>10 DEF WaitGroup, runVars
  <2>2. Live = {}
    BY <1>a, <2>1, FiniteRuns, FS_EmptySet DEF GroupInv
  <2>3. Pool!Leave
    BY <2>1, <2>2 DEF Pool!Leave, Live
  <2> QED
    BY <2>3 DEF Pool!Next
<1> QED
  BY <1>1, <1>2, <1>3, <1>4, <1>5, <1>6, <1>7, <1>8, <1>9, <1>10,
     StepsOfThePool DEF Pool!Next, Shutdown

(* Maps, counters, wait groups and a loop that goes on polling add up to   *)
(* the abstract pool, as long as the server hands out every id once:       *)
(* startPipeline, cancelPipeline, the epilogue and shutdown.               *)
THEOREM ImplementsPool ==
    ASSUME Reissue = FALSE
    PROVE  Spec => IsPool
<1>1. Init => ToldInv
  BY DEF Init, ToldInv
<1>2. IInv /\ ToldInv /\ [Next]_vars => ToldInv'
  BY ToldStep
<1>3. Init => Pool!Init
  BY DEF Init, Pool!Init
<1>4. IInv /\ CancelInv /\ LimitInv /\ GroupInv /\ ToldInv /\ [Next]_vars
      => [Pool!Next]_(Pool!vars)
  BY PoolStep
<1> QED
  BY <1>1, <1>2, <1>3, <1>4, Inductive, CancelInductive, LimitInductive,
     GroupInductive, PTL DEF Spec, IsPool, Pool!Spec
-----------------------------------------------------------------------------
(* A shutdown that has begun is not held up by everybody waiting.          *)

(* Where a goroutine stands, it need not wait for another one.  A pipeline *)
(* need not return before it is canceled, and a stuck one never does.      *)
FactoryCanMove ==
    \/ factory = "top" /\ (ctx \/ lastKey < MaxKeys)
    \/ factory = "generate"
    \/ factory = "send" /\ (ctx \/ Len(queue) < MaxParallel)

LoopCanMove ==
    \/ loop \in {"off", "top", "count", "ask", "poll", "sleep", "store",
                 "cancels", "add", "launch", "cancel"}
    \/ loop = "key" /\ (sshKey # NoKey \/ queue # <<>> \/ ctx)
    \/ loop = "terminate" /\ ctx

PipelineCanMove(r) ==
    \/ run[r] = "running" /\ canceled[r] /\ r \notin stuck
    \/ run[r] \in {"returned", "left", "uncounted", "forgotten"}

MainCanMove ==
    \/ main \in {"stop", "range", "cancel"}
    \/ main = "loop" /\ loop \in {"off", "done"}
    \/ main = "group" /\ group = 0
    \/ main = "routines" /\ loop = "done" /\ factory = "done"

NoStall ==
    main \notin {"select", "down"} =>
        \/ FactoryCanMove \/ LoopCanMove \/ MainCanMove
        \/ \E r \in Runs : PipelineCanMove(r)
        \/ main = "group" /\ \E r \in stuck : run[r] = "running" /\ canceled[r]

(* Shutdown waits for the loop, for the pipelines and for the key factory, *)
(* the loop for a key, the factory for room in its queue: as long as the   *)
(* server hands out every id once, these waits never close a circle.  What *)
(* can hold shutdown up is a canceled pipeline that is stuck by itself.    *)
THEOREM ShutdownNeverStalls ==
    ASSUME Reissue = FALSE
    PROVE  Spec => []NoStall
<1>1. IInv /\ CancelInv /\ GroupInv => NoStall
  <2> SUFFICES ASSUME IInv, CancelInv, GroupInv, main \notin {"select", "down"},
                      main \notin {"stop", "range", "cancel"}
               PROVE  \/ FactoryCanMove \/ LoopCanMove \/ MainCanMove
                      \/ \E r \in Runs : PipelineCanMove(r)
                      \/ /\ main = "group"
                         /\ \E r \in stuck : run[r] = "running" /\ canceled[r]
    BY DEF NoStall, MainCanMove
  <2>1. ctx /\ main \in {"loop", "group", "routines"}
    BY DEF IInv, TypeOK, MainInv
  <2>2. loop = "done" \/ LoopCanMove
    BY <2>1 DEF IInv, TypeOK, LoopCanMove
  <2>3. factory = "done" \/ FactoryCanMove
    BY <2>1 DEF IInv, TypeOK, FactoryCanMove
  <2>4. ASSUME main = "group", group # 0
        PROVE  \/ \E r \in Runs : PipelineCanMove(r)
               \/ \E r \in stuck : run[r] = "running" /\ canceled[r]
    <3>1. Live # {}
      BY <2>4, FS_EmptySet DEF GroupInv
    <3>2. PICK r \in Runs : run[r] \in {"running", "returned"}
      BY <3>1 DEF Live
    <3>3. r \in 1 .. born
      BY <3>2, SchedulerAssumption DEF IInv, TypeOK, RunInv, Runs
    <3>4. run[r] = "running" => canceled[r]
      BY <2>4, <3>3 DEF CancelInv, SnapshotInv
    <3> QED
      BY <3>2, <3>4 DEF PipelineCanMove
  <2> QED
    BY <2>1, <2>2, <2>3, <2>4 DEF MainCanMove
<1> QED
  BY <1>1, Inductive, CancelInductive, GroupInductive, PTL
=============================================================================
