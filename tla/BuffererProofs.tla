--------------------------- MODULE BuffererProofs ---------------------------
(***************************************************************************)
(* Proofs about module Bufferer, for any number of writers, closers and    *)
(* lines, any capacity of the pipe and any size of the buffer.             *)
(***************************************************************************)
EXTENDS Bufferer, SequenceTheorems, TLAPS

-----------------------------------------------------------------------------
(* Type correctness.                                                       *)

LEMMA LineIsOne == TypeOK => \A w \in Writers : count[w] > 0 => Line(w) \in Lines
BY BuffererAssumption DEF TypeOK, Line, Lines

(* a writer that is inside Write has begun at least one call *)
CountInv == \A w \in Writers : write[w] # "idle" => count[w] > 0

TypeInv == TypeOK /\ CountInv

LEMMA TypeInvInductive == TypeInv /\ [Next]_vars => TypeInv'
<1> SUFFICES ASSUME TypeInv, [Next]_vars PROVE TypeInv'
  OBVIOUS
<1> USE BuffererAssumption
    DEF TypeInv, TypeOK, CountInv, mutexes, channels, writeVars, runVars,
        CloseStep
<1>1. ASSUME NEW w \in Writers, WriteEnter(w) PROVE TypeInv'
  BY <1>1 DEF WriteEnter
<1>2. ASSUME NEW w \in Writers, WriteCheck(w) PROVE TypeInv'
  BY <1>2 DEF WriteCheck
<1>3. ASSUME NEW w \in Writers, WriteSend(w) PROVE TypeInv'
  <2>1. Line(w) \in Lines
    BY <1>3, LineIsOne DEF WriteSend
  <2>2. /\ Append(pipe, Line(w)) \in Seq(Lines)
        /\ Len(Append(pipe, Line(w))) = Len(pipe) + 1
        /\ Append(accepted, Line(w)) \in Seq(Lines)
    BY <2>1, AppendProperties
  <2>3. /\ pipe' \in Seq(Lines) /\ Len(pipe') <= ChanSize
        /\ accepted' \in Seq(Lines)
    <3>1. CASE pipe' = pipe /\ accepted' = accepted
      BY <3>1
    <3>2. CASE Len(pipe) < ChanSize /\ pipe' = Append(pipe, Line(w))
               /\ accepted' = Append(accepted, Line(w))
      BY <2>2, <3>2, LenProperties
    <3> QED
      BY <1>3, <3>1, <3>2 DEF WriteSend
  <2>4. write' \in [Writers -> {"idle", "check", "send", "leave"}] /\ CountInv'
    BY <1>3 DEF WriteSend
  <2> QED
    BY <1>3, <2>3, <2>4 DEF WriteSend
<1>4. ASSUME NEW w \in Writers, WriteLeave(w) PROVE TypeInv'
  <2>1. Line(w) \in Lines
    BY <1>4, LineIsOne DEF WriteLeave
  <2> QED
    BY <1>4, <2>1 DEF WriteLeave
<1>5. ASSUME NEW c \in Closers, CloseEnter(c) PROVE TypeInv'
  BY <1>5 DEF CloseEnter
<1>6. ASSUME NEW c \in Closers, CloseDone(c) PROVE TypeInv'
  BY <1>6 DEF CloseDone
<1>7. ASSUME NEW c \in Closers, CloseLockWriters(c) PROVE TypeInv'
  BY <1>7 DEF CloseLockWriters
<1>8. ASSUME NEW c \in Closers, CloseWaitWriters(c) PROVE TypeInv'
  BY <1>8 DEF CloseWaitWriters
<1>9. ASSUME NEW c \in Closers, ClosePipe(c) PROVE TypeInv'
  BY <1>9 DEF ClosePipe
<1>10. ASSUME NEW c \in Closers, CloseLockRun(c) PROVE TypeInv'
  BY <1>10 DEF CloseLockRun
<1>11. ASSUME NEW c \in Closers, CloseWaitRun(c) PROVE TypeInv'
  BY <1>11 DEF CloseWaitRun
<1>12. CASE RunRegister
  BY <1>12 DEF RunRegister
<1>13. CASE RunReceive
  <2>1. Head(pipe) \in Lines /\ Tail(pipe) \in Seq(Lines)
        /\ Len(Tail(pipe)) <= Len(pipe)
    BY <1>13 DEF RunReceive
  <2>2. buffer' \in Seq(Lines)
    BY <1>13, <2>1 DEF RunReceive
  <2> QED
    BY <1>13, <2>1, <2>2 DEF RunReceive
<1>14. CASE RunClosed
  BY <1>14 DEF RunClosed
<1>15. CASE RunTick
  BY <1>15 DEF RunTick
<1>16. CASE RunFlush
  BY <1>16 DEF RunFlush
<1>17. CASE RunLeave
  BY <1>17 DEF RunLeave
<1>18. CASE UNCHANGED vars
  BY <1>18 DEF vars
<1> QED
  BY <1>1, <1>2, <1>3, <1>4, <1>5, <1>6, <1>7, <1>8, <1>9, <1>10, <1>11,
     <1>12, <1>13, <1>14, <1>15, <1>16, <1>17, <1>18
  DEF Next, Write, Close, Run

LEMMA InitialTypes == Init => TypeInv
<1> SUFFICES ASSUME Init PROVE TypeInv
  OBVIOUS
<1>1. pipe \in Seq(Lines) /\ Len(pipe) <= ChanSize
  BY BuffererAssumption DEF Init
<1>2. /\ write \in [Writers -> {"idle", "check", "send", "leave"}]
      /\ count \in [Writers -> 0 .. MaxWrites]
      /\ CountInv
  BY BuffererAssumption DEF Init, CountInv
<1>3. close \in [Closers -> {"idle", "done", "lock", "writers", "pipe",
                            "runlock", "run", "returned", "missed"}]
  BY DEF Init
<1> QED
  BY <1>1, <1>2, <1>3 DEF Init, TypeInv, TypeOK

LEMMA TypeInvariance == Spec => []TypeInv
BY InitialTypes, TypeInvInductive, PTL DEF Spec

(* Every variable of the buffer keeps its type, and the pipe its capacity. *)
THEOREM TypeCorrect == Spec => []TypeOK
BY TypeInvariance, PTL DEF TypeInv

-----------------------------------------------------------------------------
(* No panic.                                                               *)

(* One Close at a time is in the critical section, and closes each channel *)
(* once.                                                                   *)
Inside == {"done", "lock", "writers", "pipe", "runlock", "run"}

LockInv ==
    /\ \A c \in Closers : close[c] \in Inside <=> closeMutex = c
    /\ closeMutex # Nobody => closed
    /\ doneClosed => closed
    /\ pipeClosed => doneClosed
    /\ \A c \in Closers : close[c] \in Inside =>
           /\ doneClosed <=> close[c] # "done"
           /\ pipeClosed <=> close[c] \in {"runlock", "run"}

(* From the Wait for the writers on nobody gets as far as the send: those  *)
(* who enter later find done closed.                                       *)
SendInv ==
    /\ \A w \in Writers : w \in writers <=> write[w] # "idle"
    /\ pipeClosed \/ (\E c \in Closers : close[c] = "pipe") =>
           \A w \in Writers : write[w] # "send"

PanicInv == TypeOK /\ LockInv /\ SendInv

LEMMA PanicInvInductive ==
    PanicInv /\ TypeOK' /\ [Next]_vars => PanicInv'
<1> SUFFICES ASSUME PanicInv, TypeOK', [Next]_vars
             PROVE  LockInv' /\ SendInv'
  BY DEF PanicInv
<1> USE BuffererAssumption
    DEF PanicInv, TypeOK, LockInv, SendInv, Inside, mutexes, channels,
        writeVars, runVars, CloseStep
<1>1. ASSUME NEW w \in Writers, WriteEnter(w) PROVE LockInv' /\ SendInv'
  BY <1>1 DEF WriteEnter
<1>2. ASSUME NEW w \in Writers, WriteCheck(w) PROVE LockInv' /\ SendInv'
  BY <1>2 DEF WriteCheck
<1>3. ASSUME NEW w \in Writers, WriteSend(w) PROVE LockInv' /\ SendInv'
  BY <1>3 DEF WriteSend
<1>4. ASSUME NEW w \in Writers, WriteLeave(w) PROVE LockInv' /\ SendInv'
  BY <1>4 DEF WriteLeave
<1>5. ASSUME NEW c \in Closers, CloseEnter(c) PROVE LockInv' /\ SendInv'
  BY <1>5 DEF CloseEnter
<1>6. ASSUME NEW c \in Closers, CloseDone(c) PROVE LockInv' /\ SendInv'
  BY <1>6 DEF CloseDone
<1>7. ASSUME NEW c \in Closers, CloseLockWriters(c) PROVE LockInv' /\ SendInv'
  BY <1>7 DEF CloseLockWriters
<1>8. ASSUME NEW c \in Closers, CloseWaitWriters(c) PROVE LockInv' /\ SendInv'
  BY <1>8 DEF CloseWaitWriters
<1>9. ASSUME NEW c \in Closers, ClosePipe(c) PROVE LockInv' /\ SendInv'
  BY <1>9 DEF ClosePipe
<1>10. ASSUME NEW c \in Closers, CloseLockRun(c) PROVE LockInv' /\ SendInv'
  BY <1>10 DEF CloseLockRun
<1>11. ASSUME NEW c \in Closers, CloseWaitRun(c) PROVE LockInv' /\ SendInv'
  BY <1>11 DEF CloseWaitRun
<1>12. CASE RunRegister
  BY <1>12 DEF RunRegister
<1>13. CASE RunReceive
  BY <1>13 DEF RunReceive
<1>14. CASE RunClosed
  BY <1>14 DEF RunClosed
<1>15. CASE RunTick
  BY <1>15 DEF RunTick
<1>16. CASE RunFlush
  BY <1>16 DEF RunFlush
<1>17. CASE RunLeave
  BY <1>17 DEF RunLeave
<1>18. CASE UNCHANGED vars
  BY <1>18 DEF vars
<1> QED
  BY <1>1, <1>2, <1>3, <1>4, <1>5, <1>6, <1>7, <1>8, <1>9, <1>10, <1>11,
     <1>12, <1>13, <1>14, <1>15, <1>16, <1>17, <1>18
  DEF Next, Write, Close, Run

LEMMA InitialPanicInv == Init => PanicInv
<1> SUFFICES ASSUME Init PROVE LockInv /\ SendInv
  BY InitialTypes DEF PanicInv, TypeInv
<1> QED
  BY BuffererAssumption DEF Init, LockInv, SendInv, Inside

LEMMA PanicInvariance == Spec => []PanicInv
BY InitialPanicInv, TypeCorrect, PanicInvInductive, PTL DEF Spec

(* Write never sends into a closed pipe and Close closes no channel twice, *)
(* whatever calls of both overlap.                                         *)
THEOREM NeverPanics == Spec => []NoPanic
<1>1. PanicInv => NoPanic
  BY DEF PanicInv, TypeOK, LockInv, SendInv, Inside, NoPanic
<1> QED
  BY <1>1, PanicInvariance, PTL

-----------------------------------------------------------------------------
(* No line is lost, doubled or reordered.                                  *)

(* Whatever was accepted is delivered, in the buffer or in the pipe, in    *)
(* this order; Run ends when the latter two are empty for good.            *)
FlowInv ==
    /\ accepted = flushed \o (buffer \o pipe)
    /\ registered <=> run \in {"select", "flush", "last", "leave"}
    /\ run \in {"last", "leave", "ended"} => pipe = <<>> /\ pipeClosed
    /\ run \in {"leave", "ended"} => buffer = <<>>

(* A Close that waits for Run waits for its end, unless it comes too early *)
FinishInv ==
    (\A c \in Closers : close[c] # "missed") =>
        /\ closed /\ closeMutex = Nobody => run = "ended"
        /\ (\E c \in Closers : close[c] = "returned") => run = "ended"

Contains(seq, line) == \E i \in 1 .. Len(seq) : seq[i] = line

(* Before done is closed nothing is dropped.                               *)
EarlyInv ==
    /\ \A w \in Writers :
           write[w] = "leave" /\ ~doneClosed => Contains(accepted, Line(w))
    /\ \A line \in early : Contains(accepted, line)

FlushInv == PanicInv /\ FlowInv /\ FinishInv /\ EarlyInv

LEMMA AppendBehind ==
    \A f, b, p \in Seq(Lines) : \A e \in Lines :
        Append(f \o (b \o p), e) = f \o (b \o Append(p, e))
<1> TAKE f, b, p \in Seq(Lines)
<1> TAKE e \in Lines
<1>1. /\ b \o p \in Seq(Lines) /\ f \o (b \o p) \in Seq(Lines)
      /\ <<e>> \in Seq(Lines)
  BY ConcatProperties
<1>2. /\ Append(f \o (b \o p), e) = (f \o (b \o p)) \o <<e>>
      /\ Append(p, e) = p \o <<e>>
  BY <1>1, AppendIsConcat
<1>3. (f \o (b \o p)) \o <<e>> = f \o ((b \o p) \o <<e>>)
  BY <1>1, ConcatAssociative
<1>4. (b \o p) \o <<e>> = b \o (p \o <<e>>)
  BY <1>1, ConcatAssociative
<1> QED
  BY <1>2, <1>3, <1>4

LEMMA MoveHead ==
    ASSUME NEW S, NEW b \in Seq(S), NEW p \in Seq(S), p # <<>>
    PROVE  Append(b, Head(p)) \o Tail(p) = b \o p
<1>1. /\ Head(p) \in S /\ Tail(p) \in Seq(S) /\ <<Head(p)>> \in Seq(S)
  BY HeadTailProperties
<1>2. Append(b, Head(p)) = b \o <<Head(p)>>
  BY <1>1, AppendIsConcat
<1>3. (b \o <<Head(p)>>) \o Tail(p) = b \o (<<Head(p)>> \o Tail(p))
  BY <1>1, ConcatAssociative
<1>4. <<Head(p)>> \o Tail(p) = p
  <2> DEFINE q == <<Head(p)>> \o Tail(p)
  <2>1. /\ q \in Seq(S) /\ Len(q) = Len(p)
        /\ \A i \in 1 .. Len(p) : q[i] = p[i]
    BY <1>1, ConcatProperties, HeadTailProperties, LenProperties
  <2> QED
    BY <2>1, SeqEqual
<1> QED
  BY <1>2, <1>3, <1>4

LEMMA ContainsAppended ==
    ASSUME NEW S, NEW s \in Seq(S), NEW e \in S
    PROVE  /\ Contains(Append(s, e), e)
           /\ \A line : Contains(s, line) => Contains(Append(s, e), line)
BY AppendProperties, LenProperties DEF Contains

LEMMA FlushInvInductive ==
    FlushInv /\ TypeInv /\ PanicInv' /\ [Next]_vars => FlushInv'
<1> SUFFICES ASSUME FlushInv, TypeInv, PanicInv', [Next]_vars
             PROVE  FlowInv' /\ FinishInv' /\ EarlyInv'
  BY DEF FlushInv
<1>a. /\ flushed \in Seq(Lines) /\ buffer \in Seq(Lines)
      /\ pipe \in Seq(Lines)
  BY DEF FlushInv, PanicInv, TypeOK
<1>b. \A line \in Lines :
          Append(accepted, line) = flushed \o (buffer \o Append(pipe, line))
  <2>1. accepted = flushed \o (buffer \o pipe)
    BY DEF FlushInv, FlowInv
  <2>2. \A line \in Lines :
            Append(flushed \o (buffer \o pipe), line)
            = flushed \o (buffer \o Append(pipe, line))
    BY <1>a, AppendBehind
  <2> QED
    BY <2>1, <2>2
<1>c. pipe # <<>> => Append(buffer, Head(pipe)) \o Tail(pipe) = buffer \o pipe
  BY <1>a, MoveHead
<1>d. /\ (flushed \o buffer) \o pipe = flushed \o (buffer \o pipe)
      /\ <<>> \o pipe = pipe
  BY <1>a, ConcatAssociative, ConcatEmptySeq
<1> USE BuffererAssumption
    DEF FlushInv, PanicInv, TypeOK, LockInv, SendInv, FlowInv, FinishInv,
        EarlyInv, Inside, mutexes, channels, writeVars, runVars, CloseStep
<1>1. ASSUME NEW w \in Writers, WriteEnter(w)
      PROVE  FlowInv' /\ FinishInv' /\ EarlyInv'
  <2>1. FlowInv' /\ FinishInv'
    BY <1>1 DEF WriteEnter
  <2>2. \A v \in Writers : v # w => Line(v)' = Line(v) /\ write'[v] = write[v]
    BY <1>1 DEF WriteEnter, Line
  <2> QED
    BY <1>1, <2>1, <2>2 DEF WriteEnter
<1>2. ASSUME NEW w \in Writers, WriteCheck(w)
      PROVE  FlowInv' /\ FinishInv' /\ EarlyInv'
  BY <1>2 DEF WriteCheck, Line
<1>3. ASSUME NEW w \in Writers, WriteSend(w)
      PROVE  FlowInv' /\ FinishInv' /\ EarlyInv'
  <2>1. Line(w) \in Lines
    BY <1>3, LineIsOne DEF WriteSend, TypeInv, CountInv
  <2>2. Line(w)' = Line(w) /\ \A v \in Writers : Line(v)' = Line(v)
    BY <1>3 DEF WriteSend, Line
  <2>3. ~pipeClosed
    BY <1>3 DEF WriteSend
  <2>4. CASE doneClosed /\ UNCHANGED <<pipe, accepted>>
    <3>1. FlowInv' /\ FinishInv'
      BY <1>3, <2>3, <2>4 DEF WriteSend
    <3>2. EarlyInv'
      BY <1>3, <2>2, <2>4 DEF WriteSend
    <3> QED
      BY <3>1, <3>2
  <2>5. CASE /\ pipe' = Append(pipe, Line(w))
             /\ accepted' = Append(accepted, Line(w))
    <3>1. accepted' = flushed \o (buffer \o pipe')
      BY <1>b, <2>1, <2>5
    <3>2. FlowInv' /\ FinishInv'
      BY <1>3, <2>3, <3>1 DEF WriteSend
    <3>3. /\ Contains(accepted', Line(w))
          /\ \A line : Contains(accepted, line) => Contains(accepted', line)
      BY <2>1, <2>5, ContainsAppended
    <3>4. EarlyInv'
      BY <1>3, <2>2, <3>3 DEF WriteSend
    <3> QED
      BY <3>2, <3>4
  <2> QED
    BY <1>3, <2>4, <2>5 DEF WriteSend
<1>4. ASSUME NEW w \in Writers, WriteLeave(w)
      PROVE  FlowInv' /\ FinishInv' /\ EarlyInv'
  <2>1. \A v \in Writers : Line(v)' = Line(v)
    BY <1>4 DEF WriteLeave, Line
  <2> QED
    BY <1>4, <2>1 DEF WriteLeave
<1>5. ASSUME NEW c \in Closers, CloseEnter(c)
      PROVE  FlowInv' /\ FinishInv' /\ EarlyInv'
  BY <1>5 DEF CloseEnter, Line
<1>6. ASSUME NEW c \in Closers, CloseDone(c)
      PROVE  FlowInv' /\ FinishInv' /\ EarlyInv'
  BY <1>6 DEF CloseDone, Line
<1>7. ASSUME NEW c \in Closers, CloseLockWriters(c)
      PROVE  FlowInv' /\ FinishInv' /\ EarlyInv'
  BY <1>7 DEF CloseLockWriters, Line
<1>8. ASSUME NEW c \in Closers, CloseWaitWriters(c)
      PROVE  FlowInv' /\ FinishInv' /\ EarlyInv'
  BY <1>8 DEF CloseWaitWriters, Line
<1>9. ASSUME NEW c \in Closers, ClosePipe(c)
      PROVE  FlowInv' /\ FinishInv' /\ EarlyInv'
  BY <1>9 DEF ClosePipe, Line
<1>10. ASSUME NEW c \in Closers, CloseLockRun(c)
      PROVE  FlowInv' /\ FinishInv' /\ EarlyInv'
  BY <1>10 DEF CloseLockRun, Line
<1>11. ASSUME NEW c \in Closers, CloseWaitRun(c)
      PROVE  FlowInv' /\ FinishInv' /\ EarlyInv'
  BY <1>11 DEF CloseWaitRun, Line
<1>12. CASE RunRegister
  BY <1>12 DEF RunRegister, Line
<1>13. CASE RunReceive
  <2>1. FlowInv'
    BY <1>13, <1>c DEF RunReceive
  <2> QED
    BY <1>13, <2>1 DEF RunReceive, Line
<1>14. CASE RunClosed
  BY <1>14 DEF RunClosed, Line
<1>15. CASE RunTick
  BY <1>15 DEF RunTick, Line
<1>16. CASE RunFlush
  <2>1. FlowInv'
    BY <1>16, <1>d DEF RunFlush
  <2> QED
    BY <1>16, <2>1 DEF RunFlush, Line
<1>17. CASE RunLeave
  BY <1>17 DEF RunLeave, Line
<1>18. CASE UNCHANGED vars
  BY <1>18 DEF vars, Line
<1> QED
  BY <1>1, <1>2, <1>3, <1>4, <1>5, <1>6, <1>7, <1>8, <1>9, <1>10, <1>11,
     <1>12, <1>13, <1>14, <1>15, <1>16, <1>17, <1>18
  DEF Next, Write, Close, Run

LEMMA FlushInvariance == Spec => []FlushInv
<1>1. Init => FlushInv
  <2> SUFFICES ASSUME Init PROVE FlowInv /\ FinishInv /\ EarlyInv
    BY InitialPanicInv DEF FlushInv
  <2>1. <<>> = <<>> \o (<<>> \o <<>>)
    BY ConcatEmptySeq, EmptySeq
  <2> QED
    BY <2>1 DEF Init, FlowInv, FinishInv, EarlyInv
<1> QED
  BY <1>1, TypeInvariance, PanicInvariance, FlushInvInductive, PTL DEF Spec

(* When Close returns, nothing that was accepted is left behind, and what  *)
(* was written before any Close has been accepted: Bufferer.Close waits    *)
(* for the writers, the pipe and Run.                                      *)
THEOREM ClosingFlushes == Spec => []CloseFlushes
<1>1. FlushInv => CloseFlushes
  <2> SUFFICES ASSUME FlushInv, \E c \in Closers : close[c] = "returned",
                      \A c \in Closers : close[c] # "missed"
               PROVE  /\ flushed = accepted
                      /\ \A line \in early :
                             \E i \in 1 .. Len(flushed) : flushed[i] = line
    BY DEF CloseFlushes
  <2>1. run = "ended"
    BY DEF FlushInv, FinishInv
  <2>2. accepted = flushed \o (<<>> \o <<>>) /\ flushed \in Seq(Lines)
    BY <2>1 DEF FlushInv, FlowInv, PanicInv, TypeOK
  <2>3. flushed = accepted
    BY <2>2, ConcatEmptySeq, EmptySeq
  <2> QED
    BY <2>3 DEF FlushInv, EarlyInv, Contains
<1> QED
  BY <1>1, FlushInvariance, PTL

-----------------------------------------------------------------------------
(* The refinement.                                                         *)

(* Every call of Write has a number of its own, used once.                 *)
OnceInv ==
    \A i \in 1 .. Len(accepted) :
        /\ accepted[i] \in Lines
        /\ accepted[i][2] <= count[accepted[i][1]]
        /\ \A w \in Writers :
               write[w] \in {"check", "send"} => accepted[i] # Line(w)

LEMMA OnceInvInductive == OnceInv /\ TypeInv /\ [Next]_vars => OnceInv'
<1> SUFFICES ASSUME OnceInv, TypeInv, [Next]_vars PROVE OnceInv'
  OBVIOUS
<1>1. ASSUME NEW w \in Writers, WriteEnter(w) PROVE OnceInv'
  <2>1. accepted' = accepted /\ count' = [count EXCEPT ![w] = @ + 1]
        /\ write' = [write EXCEPT ![w] = "check"]
    BY <1>1 DEF WriteEnter
  <2>2. count[w] \in Nat /\ write \in [Writers -> {"idle", "check", "send", "leave"}]
        /\ count \in [Writers -> 0 .. MaxWrites]
    BY BuffererAssumption DEF TypeInv, TypeOK
  <2>3. \A v \in Writers \ {w} : write'[v] = write[v] /\ Line(v)' = Line(v)
    BY <2>1, <2>2 DEF Line
  <2>4. Line(w)' = <<w, count[w] + 1>>
    BY <2>1, <2>2 DEF Line
  <2> SUFFICES ASSUME NEW i \in 1 .. Len(accepted)
               PROVE  /\ accepted[i][2] <= count'[accepted[i][1]]
                      /\ accepted[i] # Line(w)'
    BY <2>1, <2>3 DEF OnceInv
  <2>5. PICK v \in Writers, n \in 1 .. MaxWrites : accepted[i] = <<v, n>>
    BY DEF OnceInv, Lines
  <2>6. n <= count[v]
    BY <2>5 DEF OnceInv
  <2> QED
    BY <2>1, <2>2, <2>4, <2>5, <2>6
<1>2. ASSUME NEW w \in Writers, WriteSend(w) PROVE OnceInv'
  <2>1. /\ Line(w) \in Lines /\ Line(w)[1] = w /\ Line(w)[2] = count[w]
        /\ count[w] \in Nat
    BY <1>2, LineIsOne, BuffererAssumption
       DEF WriteSend, TypeInv, TypeOK, CountInv, Line
  <2>2. /\ \A v \in Writers : Line(v)' = Line(v) /\ Line(v)[1] = v
        /\ count' = count /\ write' = [write EXCEPT ![w] = "leave"]
    BY <1>2 DEF WriteSend, Line
  <2>3. \A v \in Writers : write'[v] \in {"check", "send"} =>
                              v # w /\ write[v] \in {"check", "send"}
    BY <2>2 DEF TypeInv, TypeOK
  <2>4. CASE accepted' = accepted
    BY <2>2, <2>3, <2>4 DEF OnceInv
  <2>5. CASE accepted' = Append(accepted, Line(w))
    <3>1. accepted \in Seq(Lines)
      BY DEF TypeInv, TypeOK
    <3>2. /\ Len(accepted') = Len(accepted) + 1
          /\ \A i \in 1 .. Len(accepted) : accepted'[i] = accepted[i]
          /\ accepted'[Len(accepted) + 1] = Line(w)
          /\ Len(accepted) \in Nat
      BY <2>1, <2>5, <3>1, AppendProperties, LenProperties
    <3> SUFFICES ASSUME NEW i \in 1 .. Len(accepted) + 1
                 PROVE  /\ accepted'[i] \in Lines
                        /\ accepted'[i][2] <= count[accepted'[i][1]]
                        /\ \A v \in Writers : write'[v] \in {"check", "send"} =>
                                                  accepted'[i] # Line(v)
      BY <2>2, <3>2 DEF OnceInv
    <3>3. CASE i \in 1 .. Len(accepted)
      BY <2>3, <3>2, <3>3 DEF OnceInv
    <3>4. CASE i = Len(accepted) + 1
      BY <2>1, <2>2, <2>3, <3>2, <3>4
    <3> QED
      BY <3>2, <3>3, <3>4
  <2> QED
    BY <1>2, <2>4, <2>5 DEF WriteSend
<1>3. ASSUME NEW w \in Writers, WriteCheck(w) \/ WriteLeave(w) PROVE OnceInv'
  <2>1. /\ accepted' = accepted /\ count' = count
        /\ \A v \in Writers : Line(v)' = Line(v)
        /\ \A v \in Writers : write'[v] \in {"check", "send"} =>
                                  write[v] \in {"check", "send"}
    BY <1>3 DEF WriteCheck, WriteLeave, Line, TypeInv, TypeOK
  <2> QED
    BY <2>1 DEF OnceInv
<1>4. CASE UNCHANGED <<accepted, count, write>>
  BY <1>4 DEF OnceInv, Line
<1>5. ASSUME NEW c \in Closers, Close(c) PROVE UNCHANGED <<accepted, count, write>>
  BY <1>5 DEF Close, CloseEnter, CloseDone, CloseLockWriters, CloseWaitWriters,
              ClosePipe, CloseLockRun, CloseWaitRun, writeVars
<1>6. CASE Run
  BY <1>4, <1>6 DEF Run, RunRegister, RunReceive, RunClosed, RunTick,
                    RunFlush, RunLeave, writeVars
<1>7. CASE UNCHANGED vars
  BY <1>4, <1>7 DEF vars, writeVars
<1> QED
  BY <1>1, <1>2, <1>3, <1>4, <1>5, <1>6, <1>7 DEF Next, Write

LEMMA OnceInvariance == Spec => []OnceInv
<1>1. Init => OnceInv
  BY DEF Init, OnceInv
<1> QED
  BY <1>1, TypeInvariance, OnceInvInductive, PTL DEF Spec

(* Every step of the buffer is a step of the stream or none: Write accepts *)
(* a new line at the end, a flush delivers the next portion, in order.     *)
THEOREM ImplementsStream == Spec => Stream!Spec
<1>1. Init => Stream!Init
  BY DEF Init, Stream!Init
<1>2. FlushInv /\ TypeInv /\ OnceInv /\ [Next]_vars
      => [Stream!Next]_(Stream!vars)
  <2> SUFFICES ASSUME FlushInv, TypeInv, OnceInv, Next
               PROVE  \/ \E line \in Lines : Stream!Accept(line)
                      \/ Stream!Deliver
                      \/ UNCHANGED <<accepted, flushed>>
    BY DEF Stream!Next, Stream!vars, vars, writeVars, runVars
  <2>1. ASSUME NEW w \in Writers, WriteSend(w)
        PROVE  \/ Stream!Accept(Line(w))
               \/ UNCHANGED <<accepted, flushed>>
    BY <2>1 DEF WriteSend, OnceInv, Stream!Accept, runVars
  <2>2. ASSUME NEW w \in Writers, WriteSend(w) PROVE Line(w) \in Lines
    BY <2>2, LineIsOne DEF WriteSend, TypeInv, CountInv
  <2>3. ASSUME NEW w \in Writers, WriteEnter(w) \/ WriteCheck(w) \/ WriteLeave(w)
        PROVE  UNCHANGED <<accepted, flushed>>
    BY <2>3 DEF WriteEnter, WriteCheck, WriteLeave, runVars
  <2>4. ASSUME NEW c \in Closers, Close(c) PROVE UNCHANGED <<accepted, flushed>>
    BY <2>4 DEF Close, CloseEnter, CloseDone, CloseLockWriters, CloseWaitWriters,
                ClosePipe, CloseLockRun, CloseWaitRun, writeVars, runVars
  <2>5. CASE RunFlush
    <3>1. /\ accepted' = accepted /\ flushed' = flushed \o buffer
          /\ accepted = flushed \o (buffer \o pipe)
          /\ flushed \in Seq(Lines) /\ buffer \in Seq(Lines)
          /\ pipe \in Seq(Lines)
      BY <2>5 DEF RunFlush, writeVars, FlushInv, FlowInv, TypeInv, TypeOK
    <3>2. /\ flushed \o buffer \in Seq(Lines)
          /\ Len(flushed \o buffer) = Len(flushed) + Len(buffer)
          /\ (flushed \o buffer) \o pipe = flushed \o (buffer \o pipe)
      BY <3>1, ConcatProperties, ConcatAssociative
    <3>3. /\ Len(flushed) \in Nat /\ Len(buffer) \in Nat /\ Len(pipe) \in Nat
          /\ Len(accepted) = Len(flushed) + Len(buffer) + Len(pipe)
      BY <3>1, <3>2, ConcatProperties, LenProperties
    <3>4. CASE buffer = <<>>
      BY <3>1, <3>4, ConcatEmptySeq
    <3>5. CASE buffer # <<>>
      <4> DEFINE n == Len(flushed) + Len(buffer)
      <4>1. Len(buffer) > 0
        BY <3>1, <3>5, EmptySeq
      <4>2. n \in Len(flushed) + 1 .. Len(accepted) /\ 1 \in 1 .. n /\ n \in 1 .. n
        BY <3>3, <4>1
      <4>3. SubSeq((flushed \o buffer) \o pipe, 1, n)
            = SubSeq(flushed \o buffer, 1, n)
        BY <3>1, <3>2, <4>2, SubSeqOfConcat1
      <4>4. SubSeq(flushed \o buffer, 1, n) = flushed \o buffer
        BY <3>2, SubSeqFull
      <4>5. flushed' = SubSeq(accepted, 1, n)
        BY <3>1, <3>2, <4>3, <4>4
      <4> QED
        BY <3>1, <4>2, <4>5 DEF Stream!Deliver
    <3> QED
      BY <3>4, <3>5
  <2>6. CASE Run /\ ~RunFlush
    BY <2>6 DEF Run, RunRegister, RunReceive, RunClosed, RunTick, RunLeave,
                writeVars
  <2> QED
    BY <2>1, <2>2, <2>3, <2>4, <2>5, <2>6 DEF Next, Write
<1> QED
  BY <1>1, <1>2, FlushInvariance, TypeInvariance, OnceInvariance, PTL
     DEF Spec, Stream!Spec
-----------------------------------------------------------------------------
(* Nobody waits for ever because everybody does.                           *)

(* Where a call or Run stands, it need not wait for anybody else.          *)
WriteCanMove(w) ==
    \/ write[w] \in {"check", "leave"}
    \/ write[w] = "send" /\ (doneClosed \/ Len(pipe) < ChanSize)

CloseCanMove(c) ==
    \/ close[c] \in {"done", "pipe"}
    \/ close[c] = "lock" /\ writersMutex = Nobody
    \/ close[c] = "writers" /\ writers = {}
    \/ close[c] = "runlock" /\ runMutex = Nobody
    \/ close[c] = "run" /\ ~registered

RunCanMove ==
    \/ run = "off" /\ runMutex = Nobody
    \/ run = "select" /\ (pipe # <<>> \/ pipeClosed)
    \/ run \in {"flush", "last", "leave"}

(* As long as a call of Write or Close is under way, past the lock that    *)
(* lets one Close in, somebody can move: with three mutexes, two wait      *)
(* groups and a pipe that gets full nobody waits in a circle.              *)
NoDeadlock ==
    \/ \E w \in Writers : write[w] # "idle"
    \/ \E c \in Closers : close[c] \in Inside
    => \/ \E w \in Writers : WriteCanMove(w)
       \/ \E c \in Closers : CloseCanMove(c)
       \/ RunCanMove

(* Each of the inner mutexes is held only at the wait that it covers. *)
MutexInv ==
    \A c \in Closers : /\ writersMutex = c <=> close[c] = "writers"
                       /\ runMutex = c <=> close[c] = "run"

LEMMA MutexInvInductive ==
    MutexInv /\ PanicInv /\ [Next]_vars => MutexInv'
<1> SUFFICES ASSUME MutexInv, PanicInv, [Next]_vars PROVE MutexInv'
  OBVIOUS
<1>1. /\ close \in [Closers -> {"idle", "done", "lock", "writers", "pipe",
                                "runlock", "run", "returned", "missed"}]
      /\ \A c \in Closers : close[c] \in Inside => closeMutex = c
      /\ Nobody \notin Closers
  BY BuffererAssumption DEF PanicInv, TypeOK, LockInv
<1> USE DEF MutexInv, Inside, mutexes, channels, writeVars, runVars, CloseStep
<1>2. CASE \/ Run \/ \E w \in Writers : Write(w)
           \/ UNCHANGED vars
  <2>1. UNCHANGED <<writersMutex, runMutex, close>>
    BY <1>2 DEF Run, RunRegister, RunReceive, RunClosed, RunTick, RunFlush,
                RunLeave, Write, WriteEnter, WriteCheck, WriteSend, WriteLeave,
                vars
  <2> QED
    BY <2>1
<1>3. ASSUME NEW c \in Closers, CloseEnter(c) PROVE MutexInv'
  BY <1>1, <1>3 DEF CloseEnter
<1>4. ASSUME NEW c \in Closers, CloseDone(c) PROVE MutexInv'
  BY <1>1, <1>4 DEF CloseDone
<1>5. ASSUME NEW c \in Closers, CloseLockWriters(c) PROVE MutexInv'
  BY <1>1, <1>5 DEF CloseLockWriters
<1>6. ASSUME NEW c \in Closers, CloseWaitWriters(c) PROVE MutexInv'
  BY <1>1, <1>6 DEF CloseWaitWriters
<1>7. ASSUME NEW c \in Closers, ClosePipe(c) PROVE MutexInv'
  BY <1>1, <1>7 DEF ClosePipe
<1>8. ASSUME NEW c \in Closers, CloseLockRun(c) PROVE MutexInv'
  BY <1>1, <1>8 DEF CloseLockRun
<1>9. ASSUME NEW c \in Closers, CloseWaitRun(c) PROVE MutexInv'
  BY <1>1, <1>9 DEF CloseWaitRun
<1> QED
  BY <1>2, <1>3, <1>4, <1>5, <1>6, <1>7, <1>8, <1>9 DEF Next, Close

(* A full pipe holds up the writers, Close waits for the writers and then  *)
(* for Run, but never all for each other: Write, Close and Run of Bufferer.*)
THEOREM NeverDeadlocks == Spec => []NoDeadlock
<1>1. Init => MutexInv
  BY BuffererAssumption DEF Init, MutexInv
<1>2. FlushInv /\ MutexInv => NoDeadlock
  <2> SUFFICES ASSUME FlushInv, MutexInv PROVE NoDeadlock
    OBVIOUS
  <2>1. /\ TypeOK /\ LockInv /\ SendInv /\ FlowInv
    BY DEF FlushInv, PanicInv
  <2>2. ASSUME NEW c \in Closers, close[c] \in Inside,
               write \in [Writers -> {"idle", "check", "send", "leave"}]
        PROVE  \/ \E w \in Writers : WriteCanMove(w)
               \/ CloseCanMove(c) \/ RunCanMove
    <3>1. CASE close[c] \in {"done", "pipe"}
      BY <3>1 DEF CloseCanMove
    <3>2. CASE close[c] = "lock"
      <4>1. \A d \in Closers : close[d] \in Inside => d = c
        BY <2>1, <2>2 DEF LockInv
      <4>2. writersMutex = Nobody
        BY <2>1, <3>2, <4>1 DEF MutexInv, TypeOK, Inside
      <4> QED
        BY <3>2, <4>2 DEF CloseCanMove
    <3>3. CASE close[c] = "writers" /\ writers # {}
      <4>1. PICK w \in Writers : w \in writers
        BY <2>1, <3>3 DEF TypeOK
      <4>2. write[w] # "idle" /\ doneClosed
        BY <2>1, <3>3, <4>1 DEF SendInv, LockInv, Inside
      <4>3. WriteCanMove(w)
        BY <2>2, <4>2 DEF WriteCanMove
      <4> QED
        BY <4>3
    <3>4. CASE close[c] = "runlock"
      <4>1. \A d \in Closers : close[d] \in Inside => d = c
        BY <2>1, <2>2 DEF LockInv
      <4>2. runMutex = Nobody
        BY <2>1, <3>4, <4>1 DEF MutexInv, TypeOK, Inside
      <4> QED
        BY <3>4, <4>2 DEF CloseCanMove
    <3>5. CASE close[c] = "run" /\ registered
      <4>1. pipeClosed /\ run \in {"select", "flush", "last", "leave"}
        BY <2>1, <3>5 DEF LockInv, FlowInv, Inside
      <4> QED
        BY <4>1 DEF RunCanMove
    <3> QED
      BY <2>2, <3>1, <3>2, <3>3, <3>4, <3>5 DEF CloseCanMove, Inside
  <2>3. ASSUME NEW w \in Writers, write[w] # "idle", ~WriteCanMove(w),
               \A c \in Closers : close[c] \notin Inside
        PROVE  RunCanMove
    <3>1. write[w] = "send" /\ ~doneClosed /\ ~(Len(pipe) < ChanSize)
      BY <2>1, <2>3 DEF WriteCanMove, TypeOK
    <3>2. pipe # <<>>
      BY <3>1, BuffererAssumption
    <3>3. runMutex = Nobody
      BY <2>1, <2>3 DEF MutexInv, TypeOK, Inside
    <3>4. run # "ended"
      BY <2>1, <3>2 DEF FlowInv
    <3> QED
      BY <2>1, <3>2, <3>3, <3>4 DEF RunCanMove, TypeOK
  <2> QED
    BY <2>1, <2>2, <2>3 DEF NoDeadlock, TypeOK
<1> QED
  BY <1>1, <1>2, MutexInvInductive, PanicInvariance, FlushInvariance, PTL
  DEF Spec
=============================================================================
