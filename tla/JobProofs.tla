----------------------------- MODULE JobProofs -----------------------------
(***************************************************************************)
(* Proofs about module Job, for any number of commands and any output.     *)
(***************************************************************************)
EXTENDS Job, SequenceTheorems, FiniteSetTheorems, TLAPS

-----------------------------------------------------------------------------
(* Type correctness.                                                       *)

OwnerTypes ==
    /\ mode \in Modes /\ ctxDone \in BOOLEAN
    /\ owner \in {"lookup", "prepare", "create", "detect", "run", "select",
                  "release", "kill", "close", "closeDirect", "done"}
    /\ command \in 0 .. Count
    /\ owner = "select" => command \in Commands
    /\ result \in {"none", "ok", "failed", "canceled"}
    /\ container \in {"none", "forgotten", "running", "removed", "kept"}
    /\ locked \in BOOLEAN

ExecTypes ==
    /\ exec \in [Commands -> {"none", "new", "starting", "running", "listed",
                              "ended", "replying", "done"}]
    /\ status \in [Commands -> {"none", "ok", "failed", "canceled"}]
    /\ process \in [Commands -> {"none", "alive", "orphaned", "ok", "failed"}]
    /\ said \in [Commands -> 0 .. MaxOutput]
    /\ quiet \in [Commands -> BOOLEAN]
    /\ chunk \in [Commands -> {"none", "sent", "checked"}]

(* the mask writer is there while commands are executed, and what it       *)
(* accepts the direct writer accepts, too                                  *)
LogTypes ==
    /\ mask \in {"none", "open", "closed"}
    /\ rest \in Seq(Line) /\ written \in Seq(Line) /\ direct \in Seq(Line)
    /\ directOpen \in BOOLEAN
    /\ owner \notin {"lookup", "close", "closeDirect", "done"} => mask = "open"
    /\ mask = "open" => owner \notin {"closeDirect", "done"}
    /\ owner \notin {"closeDirect", "done"} => directOpen

TypeInv == OwnerTypes /\ ExecTypes /\ LogTypes

(* One command after the other: the last one started is the only one that  *)
(* may not be over, and the status of a command comes from its process or  *)
(* from the end of its output.                                             *)
SeqInv ==
    /\ \A c \in Commands :
          /\ c > command => exec[c] = "none"
          /\ c < command \/ (c = command /\ owner = "run") =>
                 exec[c] = "done" /\ status[c] = "ok"
          /\ exec[c] \in {"none", "new", "starting"} => process[c] = "none"
          /\ exec[c] \in {"none", "new", "starting", "running", "listed"} =>
                 status[c] = "none"
          /\ exec[c] \in {"ended", "replying", "done"} => status[c] # "none"
          /\ chunk[c] # "none" => exec[c] \in {"running", "listed"}
          /\ quiet[c] => mode = "docker" /\ process[c] # "none"
          /\ status[c] = "ok" => process[c] = "ok" \/ quiet[c]
    /\ owner \in {"lookup", "prepare", "create", "detect"} => command = 0
    /\ result = "ok" =>
           \A c \in Commands : exec[c] = "done" /\ status[c] = "ok"

LEMMA LinesFit ==
    /\ \A c \in Commands : c \in Nat \ {0} /\ c \in 0 .. Count
    /\ \A c \in 0 .. Count : /\ Prompt(c) \in Line /\ Prompt(c)[1] = c
                             /\ Output(c) \in Line /\ Output(c)[1] = c
    /\ Error \in Line /\ Error[1] = 0
    /\ Verdict \in Line /\ Verdict[1] = 0
BY JobAssumption DEF Commands, Prompt, Output, Error, Verdict, Line

(* the lines of Line that are the output of some command *)
LEMMA OutputsDiffer ==
    ASSUME NEW b \in 0 .. Count, NEW c \in 0 .. Count
    PROVE  /\ Prompt(b) # Output(c) /\ Error # Output(c) /\ Verdict # Output(c)
           /\ Output(b) = Output(c) => b = c
BY DEF Prompt, Output, Error, Verdict

LEMMA DeliverTypes ==
    ASSUME NEW lines \in Seq(Line), direct \in Seq(Line), Deliver(lines)
    PROVE  direct' \in Seq(Line)
BY ConcatProperties DEF Deliver

(* no writer is opened or closed *)
WritersKept ==
    /\ rest' \in Seq(Line) /\ written' \in Seq(Line) /\ direct' \in Seq(Line)
    /\ mask' = mask /\ directOpen' = directOpen

LEMMA LogMaskTypes ==
    ASSUME LogTypes, NEW line \in Line, NEW complete \in BOOLEAN,
           LogMask(line, complete)
    PROVE  WritersKept
<1> USE DEF WritersKept
<1>1. /\ Append(rest, line) \in Seq(Line) /\ Append(written, line) \in Seq(Line)
      /\ <<>> \in Seq(Line)
  BY AppendProperties, EmptySeq DEF LogTypes
<1>2. CASE mask # "open"
  BY <1>2 DEF LogMask, LogTypes, logVars
<1>3. CASE mask = "open"
  <2>1. /\ written' = Append(written, line)
        /\ rest' = IF complete THEN <<>> ELSE Append(rest, line)
        /\ IF complete THEN Deliver(Append(rest, line)) ELSE UNCHANGED direct
        /\ mask' = mask /\ directOpen' = directOpen
    BY <1>3 DEF LogMask
  <2>2. direct' \in Seq(Line)
    BY <1>1, <2>1, DeliverTypes DEF LogTypes
  <2> QED
    BY <1>1, <2>1, <2>2
<1> QED
  BY <1>2, <1>3

LEMMA TypeInductive == TypeInv /\ SeqInv /\ [Next]_vars => TypeInv'
<1> SUFFICES ASSUME OwnerTypes, ExecTypes, LogTypes, SeqInv, [Next]_vars
             PROVE  OwnerTypes' /\ ExecTypes' /\ LogTypes'
  BY DEF TypeInv
<1>a. ASSUME NEW line \in Line, NEW complete \in BOOLEAN,
             LogMask(line, complete)
      PROVE  WritersKept
  BY <1>a, LogMaskTypes
<1>b. <<>> \in Seq(Line)
  BY EmptySeq
<1>c. ASSUME NEW r, NEW next, ReturnError(r, next)
      PROVE  WritersKept /\ result' = r /\ owner' = next
  BY <1>a, <1>c, LinesFit DEF ReturnError
<1>d. ASSUME ErrorfDirect
      PROVE  /\ direct' \in Seq(Line)
             /\ UNCHANGED <<mask, rest, written, directOpen>>
  <2>1. <<Verdict>> \in Seq(Line)
    BY LinesFit
  <2> QED
    BY <1>d, <2>1, DeliverTypes DEF ErrorfDirect, LogTypes
<1>e. Reason \subseteq {"failed", "canceled"}
  BY DEF Reason
<1>f. ASSUME UNCHANGED logVars PROVE WritersKept
  BY <1>f DEF WritersKept, LogTypes, logVars
<1>g. ASSUME WritersKept, owner \notin {"lookup", "close", "closeDirect", "done"},
             owner' \notin {"lookup", "closeDirect", "done"}
      PROVE  LogTypes'
  BY <1>g DEF WritersKept, LogTypes
<1> USE DEF ownerVars, execVars, logVars
<1>1. CASE Cancel
  BY <1>1 DEF Cancel, OwnerTypes, ExecTypes, LogTypes
<1>2. CASE Lookup
  <2>1. OwnerTypes' /\ ExecTypes'
    BY <1>2 DEF Lookup, OwnerTypes, ExecTypes
  <2>2. LogTypes'
    BY <1>2, <1>b, <1>d DEF Lookup, LogTypes, SetupMaskWriter
  <2> QED
    BY <2>1, <2>2
<1>3. CASE Prepare
  <2>1. OwnerTypes'
    BY <1>3, <1>c, <1>e DEF Prepare, OwnerTypes
  <2>2. ExecTypes'
    BY <1>3 DEF Prepare, ExecTypes
  <2>3. LogTypes'
    <3>1. WritersKept
      BY <1>3, <1>c, <1>f DEF Prepare
    <3> QED
      BY <1>3, <1>c, <1>g, <3>1 DEF Prepare
  <2> QED
    BY <2>1, <2>2, <2>3
<1>4. CASE Create
  <2>1. OwnerTypes'
    BY <1>4, <1>c, <1>e DEF Create, OwnerTypes
  <2>2. ExecTypes'
    BY <1>4 DEF Create, ExecTypes
  <2>3. LogTypes'
    <3>1. WritersKept
      BY <1>4, <1>c, <1>f DEF Create
    <3> QED
      BY <1>4, <1>c, <1>g, <3>1 DEF Create
  <2> QED
    BY <2>1, <2>2, <2>3
<1>5. CASE DetectShell
  <2>1. OwnerTypes'
    BY <1>5, <1>c, <1>e DEF DetectShell, OwnerTypes
  <2>2. ExecTypes'
    BY <1>5 DEF DetectShell, ExecTypes
  <2>3. LogTypes'
    <3>1. WritersKept
      BY <1>5, <1>c, <1>f DEF DetectShell
    <3> QED
      BY <1>5, <1>c, <1>g, <3>1 DEF DetectShell
  <2> QED
    BY <2>1, <2>2, <2>3
<1>6. CASE StartCommand
  <2>1. command + 1 \in 0 .. Count /\ command + 1 \in Commands
    BY <1>6, JobAssumption DEF StartCommand, OwnerTypes, Commands
  <2>2. OwnerTypes'
    BY <1>6, <2>1 DEF StartCommand, OwnerTypes
  <2>3. ExecTypes'
    BY <1>6, <2>1 DEF StartCommand, ExecTypes
  <2>4. Prompt(command + 1) \in Line
    BY <2>1, LinesFit
  <2>5. LogTypes'
    BY <1>6, <1>a, <1>g, <2>4 DEF StartCommand
  <2> QED
    BY <2>2, <2>3, <2>5
<1>7. CASE NoMoreCommands
  BY <1>7 DEF NoMoreCommands, OwnerTypes, ExecTypes, LogTypes
<1>8. CASE Select
  <2>1. status[command] \in {"none", "ok", "failed", "canceled"}
    BY <1>8 DEF Select, OwnerTypes, ExecTypes
  <2>a. /\ result' \in {result, status[command], "canceled"}
        /\ owner' \in {"run", "release"}
    BY <1>8, <1>c DEF Select, TakeStatus
  <2>2. OwnerTypes'
    BY <1>8, <2>1, <2>a DEF Select, OwnerTypes
  <2>3. ExecTypes'
    BY <1>8 DEF Select, ExecTypes
  <2>b. WritersKept
    BY <1>8, <1>c, <1>f DEF Select, TakeStatus
  <2>4. LogTypes'
    BY <1>8, <1>g, <2>a, <2>b DEF Select
  <2> QED
    BY <2>2, <2>3, <2>4
<1>9. CASE RemoveContainer
  <2>1. OwnerTypes' /\ LogTypes'
    BY <1>9 DEF RemoveContainer, OwnerTypes, LogTypes
  <2>2. ExecTypes'
    BY <1>9 DEF RemoveContainer, ExecTypes, Ended
  <2> QED
    BY <2>1, <2>2
<1>10. CASE ListSize
  BY <1>10 DEF ListSize, OwnerTypes, ExecTypes, LogTypes
<1>11. CASE KillListed
  <2>1. OwnerTypes'
    <3>1. result' \in {result, "failed"}
      BY <1>11 DEF KillListed
    <3>2. (listed < Cardinality(Processes)) \in BOOLEAN
      OBVIOUS
    <3>3. locked' = locked \/ locked' = (listed < Cardinality(Processes))
      BY <1>11 DEF KillListed
    <3>4. locked' \in BOOLEAN
      BY <3>2, <3>3 DEF OwnerTypes
    <3> QED
      BY <1>11, <3>1, <3>4 DEF KillListed, OwnerTypes
  <2>2. ExecTypes'
    BY <1>11 DEF KillListed, ExecTypes
  <2>3. LogTypes'
    BY <1>11, <1>d DEF KillListed, LogTypes
  <2> QED
    BY <2>1, <2>2, <2>3
<1>12. CASE CloseMask
  <2>1. OwnerTypes' /\ ExecTypes'
    BY <1>12 DEF CloseMask, OwnerTypes, ExecTypes
  <2>2. CASE mask = "open"
    <3>1. direct' \in Seq(Line)
      BY <1>12, <2>2, DeliverTypes DEF CloseMask, LogTypes
    <3> QED
      BY <1>12, <1>b, <2>1, <2>2, <3>1 DEF CloseMask, LogTypes
  <2>3. CASE mask # "open"
    BY <1>12, <2>1, <2>3 DEF CloseMask, LogTypes
  <2> QED
    BY <2>2, <2>3
<1>13. CASE CloseDirect
  BY <1>13 DEF CloseDirect, OwnerTypes, ExecTypes, LogTypes
<1>14. ASSUME NEW c \in Commands, ExecBegin(c)
       PROVE  OwnerTypes' /\ ExecTypes' /\ LogTypes'
  <2>1. OwnerTypes' /\ LogTypes'
    BY <1>14 DEF ExecBegin, OwnerTypes, LogTypes
  <2>2. ExecTypes'
    BY <1>14 DEF ExecBegin, Reply, ExecTypes
  <2> QED
    BY <2>1, <2>2
<1>15. ASSUME NEW c \in Commands, ExecStart(c)
       PROVE  OwnerTypes' /\ ExecTypes' /\ LogTypes'
  <2>1. OwnerTypes' /\ LogTypes'
    BY <1>15 DEF ExecStart, Reply, OwnerTypes, LogTypes
  <2>2. ExecTypes'
    BY <1>15, <1>e DEF ExecStart, Reply, ExecTypes
  <2> QED
    BY <2>1, <2>2
<1>16. ASSUME NEW c \in Commands, ExecPut(c)
       PROVE  OwnerTypes' /\ ExecTypes' /\ LogTypes'
  BY <1>16 DEF ExecPut, OwnerTypes, ExecTypes, LogTypes
<1>17. ASSUME NEW c \in Commands, ExecRead(c)
       PROVE  OwnerTypes' /\ ExecTypes' /\ LogTypes'
  <2>1. OwnerTypes' /\ LogTypes'
    BY <1>17 DEF ExecRead, OwnerTypes, LogTypes
  <2>2. ExecTypes'
    BY <1>17 DEF ExecRead, Reply, ExecTypes
  <2> QED
    BY <2>1, <2>2
<1>18. ASSUME NEW c \in Commands, ExecLog(c)
       PROVE  OwnerTypes' /\ ExecTypes' /\ LogTypes'
  <2>1. OwnerTypes' /\ ExecTypes'
    BY <1>18 DEF ExecLog, OwnerTypes, ExecTypes
  <2>2. Output(c) \in Line
    BY LinesFit
  <2>3. LogTypes'
    BY <1>18, <1>a, <2>2 DEF ExecLog, LogTypes, WritersKept
  <2> QED
    BY <2>1, <2>3
<1>19. ASSUME NEW c \in Commands, ExecEnd(c)
       PROVE  OwnerTypes' /\ ExecTypes' /\ LogTypes'
  <2>1. OwnerTypes' /\ LogTypes'
    BY <1>19 DEF ExecEnd, Conclude, OwnerTypes, LogTypes
  <2>2. Outcome(c) \subseteq {"none", "ok", "failed", "canceled"}
    BY <1>e DEF Outcome, ExecTypes
  <2>3. ExecTypes'
    BY <1>19, <2>2 DEF ExecEnd, Conclude, ExecTypes
  <2> QED
    BY <2>1, <2>3
<1>20. ASSUME NEW c \in Commands, ExecDelete(c)
       PROVE  OwnerTypes' /\ ExecTypes' /\ LogTypes'
  BY <1>20 DEF ExecDelete, OwnerTypes, ExecTypes, LogTypes
<1>21. ASSUME NEW c \in Commands, ExecReply(c)
       PROVE  OwnerTypes' /\ ExecTypes' /\ LogTypes'
  BY <1>21 DEF ExecReply, OwnerTypes, ExecTypes, LogTypes
<1>22. ASSUME NEW c \in Commands, ExecLost(c)
       PROVE  OwnerTypes' /\ ExecTypes' /\ LogTypes'
  <2>1. OwnerTypes' /\ LogTypes'
    BY <1>22 DEF ExecLost, Reply, OwnerTypes, LogTypes
  <2>2. ExecTypes'
    BY <1>22, <1>e DEF ExecLost, Reply, ExecTypes
  <2> QED
    BY <2>1, <2>2
<1>23. ASSUME NEW c \in Commands, Speak(c)
       PROVE  OwnerTypes' /\ ExecTypes' /\ LogTypes'
  <2>1. OwnerTypes' /\ LogTypes'
    BY <1>23 DEF Speak, OwnerTypes, LogTypes
  <2>2. said[c] + 1 \in 0 .. MaxOutput
    BY <1>23, JobAssumption DEF Speak, ExecTypes
  <2>3. ExecTypes'
    BY <1>23, <2>2 DEF Speak, ExecTypes
  <2> QED
    BY <2>1, <2>3
<1>24. ASSUME NEW c \in Commands, End(c) \/ KillByContext(c)
       PROVE  OwnerTypes' /\ ExecTypes' /\ LogTypes'
  <2>1. PICK p \in {"ok", "failed", "orphaned"} : Becomes(c, p)
    BY <1>24 DEF End, KillByContext, Killed
  <2>2. OwnerTypes' /\ LogTypes'
    BY <2>1 DEF Becomes, OwnerTypes, LogTypes
  <2>3. ExecTypes'
    BY <2>1 DEF Becomes, ExecTypes
  <2> QED
    BY <2>2, <2>3
<1>25. ASSUME NEW c \in Commands, Silence(c)
       PROVE  OwnerTypes' /\ ExecTypes' /\ LogTypes'
  BY <1>25 DEF Silence, OwnerTypes, ExecTypes, LogTypes
<1>26. CASE UNCHANGED vars
  BY <1>26 DEF vars, OwnerTypes, ExecTypes, LogTypes
<1> QED
  BY <1>1, <1>2, <1>3, <1>4, <1>5, <1>6, <1>7, <1>8, <1>9, <1>10, <1>11,
     <1>12, <1>13, <1>14, <1>15, <1>16, <1>17, <1>18, <1>19, <1>20, <1>21,
     <1>22, <1>23, <1>24, <1>25, <1>26
  DEF Next, Owner, Exec, Over

LEMMA SeqInductive == TypeInv /\ SeqInv /\ [Next]_vars => SeqInv'
<1> SUFFICES ASSUME OwnerTypes, ExecTypes, SeqInv, [Next]_vars
             PROVE  SeqInv'
  BY DEF TypeInv
<1>a. Commands \subseteq Nat \ {0} /\ command \in Nat
  BY LinesFit DEF OwnerTypes
<1>b. ASSUME NEW r, NEW next, ReturnError(r, next)
      PROVE  result' = r /\ owner' = next
  BY <1>b DEF ReturnError
<1>c. "ok" \notin Reason
  BY DEF Reason
<1>d. ASSUME UNCHANGED <<mode, command, execVars>>,
             owner' # "run", owner' \notin {"lookup", "prepare", "create", "detect"} \/ command = 0,
             result' # "ok" \/ result' = result
      PROVE  SeqInv'
  BY <1>d DEF SeqInv, execVars
<1>e. ASSUME NEW c \in Commands, UNCHANGED ownerVars,
             exec[c] # "done", exec'[c] # "none",
             \A b \in Commands \ {c} : /\ exec'[b] = exec[b] /\ status'[b] = status[b]
                                      /\ process'[b] = process[b] /\ chunk'[b] = chunk[b]
                                      /\ quiet'[b] = quiet[b],
             mode' = mode,
             quiet'[c] => mode = "docker" /\ process'[c] # "none",
             exec[c] # "none",
             exec'[c] \in {"none", "new", "starting"} => process'[c] = "none",
             exec'[c] \in {"none", "new", "starting", "running", "listed"} =>
                 status'[c] = "none",
             exec'[c] \in {"ended", "replying", "done"} => status'[c] # "none",
             chunk'[c] # "none" => exec'[c] \in {"running", "listed"},
             status'[c] = "ok" => process'[c] = "ok" \/ quiet'[c]
      PROVE  SeqInv'
  <2>1. ~ (c > command) /\ ~ (c < command) /\ ~ (c = command /\ owner = "run")
    BY <1>a, <1>e DEF SeqInv
  <2>2. result # "ok"
    BY <1>e DEF SeqInv
  <2> QED
    BY <1>a, <1>e, <2>1, <2>2 DEF SeqInv, ownerVars
<1>f. ASSUME UNCHANGED <<mode, command, exec, status, quiet, chunk>>,
             \A c \in Commands :
                 /\ process[c] \in {"none", "ok"} => process'[c] = process[c]
                 /\ process[c] # "none" => process'[c] # "none",
             owner' # "run", owner' \notin {"lookup", "prepare", "create", "detect"} \/ command = 0,
             result' # "ok" \/ result' = result
      PROVE  SeqInv'
  BY <1>f DEF SeqInv
<1> USE <1>a DEF ownerVars, execVars
<1>1. CASE Cancel
  BY <1>1 DEF Cancel, SeqInv
<1>2. CASE Lookup
  <2>1. owner' \in {"prepare", "close"} /\ result' \in {result, "failed"}
    BY <1>2 DEF Lookup
  <2> QED
    BY <1>2, <1>d, <2>1 DEF Lookup, SeqInv
<1>3. CASE Prepare
  <2>1. owner' \in {"create", "close"} /\ result' \in {result} \cup Reason
    BY <1>3, <1>b DEF Prepare
  <2> QED
    BY <1>3, <1>c, <1>d, <2>1 DEF Prepare, SeqInv
<1>4. CASE Create
  <2>1. owner' \in {"detect", "close"} /\ result' \in {result} \cup Reason
    BY <1>4, <1>b DEF Create
  <2> QED
    BY <1>4, <1>c, <1>d, <2>1 DEF Create, SeqInv
<1>5. CASE DetectShell
  <2>1. owner' \in {"run", "release"} /\ result' \in {result} \cup Reason
    BY <1>5, <1>b DEF DetectShell
  <2>2. command = 0
    BY <1>5 DEF DetectShell, SeqInv
  <2> QED
    BY <1>5, <1>c, <2>1, <2>2 DEF DetectShell, SeqInv
<1>6. CASE StartCommand
  <2>1. /\ owner = "run" /\ owner' = "select" /\ command' = command + 1
        /\ exec' = [exec EXCEPT ![command + 1] = "new"]
        /\ UNCHANGED <<mode, result, status, process, quiet, chunk>>
    BY <1>6 DEF StartCommand
  <2>2. command + 1 \in Commands
    BY <1>6, JobAssumption DEF StartCommand, OwnerTypes, Commands
  <2>3. exec[command + 1] = "none"
    BY <2>2 DEF SeqInv
  <2>4. result # "ok"
    BY <2>2, <2>3 DEF SeqInv
  <2>5. /\ exec'[command + 1] = "new"
        /\ \A c \in Commands : c # command + 1 => exec'[c] = exec[c]
    BY <2>1, <2>2 DEF ExecTypes
  <2>6. \A c \in Commands : c < command' => exec[c] = "done" /\ status[c] = "ok"
    BY <2>1 DEF SeqInv
  <2>7. \A c \in Commands : c < command' => c # command + 1
    BY <2>1
  <2> QED
    BY <2>1, <2>2, <2>3, <2>4, <2>5, <2>6, <2>7 DEF SeqInv
<1>7. CASE NoMoreCommands
  <2>1. \A c \in Commands : c <= command
    BY <1>7, JobAssumption DEF NoMoreCommands, Commands
  <2>2. \A c \in Commands : exec[c] = "done" /\ status[c] = "ok"
    BY <1>7, <2>1 DEF NoMoreCommands, SeqInv
  <2> QED
    BY <1>7, <2>2 DEF NoMoreCommands, SeqInv
<1>8. CASE Select
  <2>1. CASE owner' = "run" /\ result' = result /\ TakeStatus
    <3>1. exec[command] = "done" /\ status[command] = "ok"
      BY <1>b, <2>1 DEF TakeStatus
    <3> QED
      BY <1>8, <2>1, <3>1 DEF Select, SeqInv
  <2>2. CASE owner' = "release" /\ result' # "ok"
    BY <1>8, <1>d, <2>2 DEF Select, SeqInv
  <2> QED
    BY <1>8, <1>b, <2>1, <2>2 DEF Select, TakeStatus
<1>9. CASE RemoveContainer
  <2>1. \A c \in Commands :
            /\ process[c] \in {"none", "ok"} => process'[c] = process[c]
            /\ process[c] # "none" => process'[c] # "none"
    BY <1>9 DEF RemoveContainer, Ended
  <2> QED
    BY <1>9, <1>f, <2>1 DEF RemoveContainer
<1>10. CASE ListSize
  BY <1>10, <1>d DEF ListSize
<1>11. CASE KillListed
  <2>1. \A c \in Commands :
            /\ process[c] \in {"none", "ok"} => process'[c] = process[c]
            /\ process[c] # "none" => process'[c] # "none"
    BY <1>11 DEF KillListed, Killed
  <2>2. result' \in {result, "failed"}
    BY <1>11 DEF KillListed
  <2> QED
    BY <1>11, <1>f, <2>1, <2>2 DEF KillListed
<1>12. CASE CloseMask
  BY <1>12, <1>d DEF CloseMask
<1>13. CASE CloseDirect
  BY <1>13, <1>d DEF CloseDirect
<1>14. ASSUME NEW c \in Commands, ExecBegin(c) PROVE SeqInv'
  BY <1>14, <1>c, <1>e DEF ExecBegin, Reply, SeqInv, ExecTypes
<1>15. ASSUME NEW c \in Commands, ExecStart(c) PROVE SeqInv'
  <2>1. CASE exec' = [exec EXCEPT ![c] = "running"]
    BY <1>15, <1>e, <2>1 DEF ExecStart, Reply, SeqInv, ExecTypes
  <2>2. CASE \E r \in Reason : Reply(c, r) /\ UNCHANGED process
    <3>1. PICK r \in Reason : Reply(c, r) /\ UNCHANGED process
      BY <2>2
    <3>2. r \in {"failed", "canceled"}
      BY DEF Reason
    <3> QED
      BY <1>15, <1>e, <3>1, <3>2 DEF ExecStart, Reply, SeqInv, ExecTypes
  <2> QED
    BY <1>15, <2>1, <2>2 DEF ExecStart
<1>16. ASSUME NEW c \in Commands, ExecPut(c) PROVE SeqInv'
  BY <1>16, <1>c, <1>e DEF ExecPut, Reply, SeqInv, ExecTypes
<1>17. ASSUME NEW c \in Commands, ExecRead(c) PROVE SeqInv'
  BY <1>17, <1>c, <1>e DEF ExecRead, Reply, SeqInv, ExecTypes
<1>18. ASSUME NEW c \in Commands, ExecLog(c) PROVE SeqInv'
  BY <1>18, <1>e DEF ExecLog, SeqInv, ExecTypes
<1>19. ASSUME NEW c \in Commands, ExecEnd(c) PROVE SeqInv'
  <2>1. /\ status' = [status EXCEPT ![c] = status'[c]]
        /\ status'[c] \in Outcome(c)
    BY <1>19 DEF ExecEnd, Conclude, ExecTypes
  <2>2. process[c] # "none" /\ chunk[c] = "none"
        /\ (quiet[c] \/ process[c] \in {"ok", "failed"})
    BY <1>19 DEF ExecEnd, OutputOver, SeqInv
  <2>3. status'[c] # "none" /\ (status'[c] = "ok" => process[c] = "ok" \/ quiet[c])
    BY <2>1, <2>2 DEF Outcome, Reason
  <2>4. /\ exec[c] \in {"running", "listed"}
        /\ exec' = [exec EXCEPT ![c] = IF mode = "shell" THEN "ended"
                                                         ELSE "replying"]
        /\ UNCHANGED <<mode, ownerVars, process, quiet, chunk>>
    BY <1>19 DEF ExecEnd, Conclude
  <2> QED
    BY <1>e, <2>1, <2>2, <2>3, <2>4 DEF SeqInv, ExecTypes
<1>20. ASSUME NEW c \in Commands, ExecDelete(c) PROVE SeqInv'
  BY <1>20, <1>e DEF ExecDelete, SeqInv, ExecTypes
<1>21. ASSUME NEW c \in Commands, ExecReply(c) PROVE SeqInv'
  BY <1>21, <1>e DEF ExecReply, SeqInv, ExecTypes
<1>22. ASSUME NEW c \in Commands, ExecLost(c) PROVE SeqInv'
  <2>1. PICK r \in Reason : Reply(c, r)
    BY <1>22 DEF ExecLost
  <2>2. r \in {"failed", "canceled"}
    BY DEF Reason
  <2> QED
    BY <1>22, <1>e, <2>1, <2>2 DEF ExecLost, Reply, SeqInv, ExecTypes
<1>23. ASSUME NEW c \in Commands, Speak(c) PROVE SeqInv'
  BY <1>23, <1>e DEF Speak, SeqInv, ExecTypes
<1>24. ASSUME NEW c \in Commands, End(c) \/ KillByContext(c) PROVE SeqInv'
  <2>1. PICK p : /\ Becomes(c, p) /\ p # "none"
                 /\ process[c] \in {"alive", "orphaned"}
    BY <1>24 DEF End, KillByContext, Killed
  <2> QED
    BY <2>1 DEF Becomes, SeqInv, ExecTypes
<1>25. ASSUME NEW c \in Commands, Silence(c) PROVE SeqInv'
  BY <1>25, <1>e DEF Silence, SeqInv, ExecTypes
<1>26. CASE UNCHANGED vars
  BY <1>26 DEF vars, SeqInv
<1> QED
  BY <1>1, <1>2, <1>3, <1>4, <1>5, <1>6, <1>7, <1>8, <1>9, <1>10, <1>11,
     <1>12, <1>13, <1>14, <1>15, <1>16, <1>17, <1>18, <1>19, <1>20, <1>21,
     <1>22, <1>23, <1>24, <1>25, <1>26
  DEF Next, Owner, Exec, Over

LEMMA SeqInvariance == Spec => [](TypeInv /\ SeqInv)
<1>1. Init => TypeInv /\ SeqInv
  <2> SUFFICES ASSUME Init PROVE TypeInv /\ SeqInv
    OBVIOUS
  <2>1. 0 \in 0 .. Count /\ 0 \in 0 .. MaxOutput
    BY JobAssumption
  <2>2. rest \in Seq(Line) /\ <<>> \in Seq(Line)
    <3>1. Output(0) \in Line
      BY <2>1, LinesFit
    <3>2. <<Output(0)>> \in Seq(Line) /\ <<>> \in Seq(Line)
      BY <3>1, EmptySeq
    <3> QED
      BY <3>2 DEF Init
  <2>3. OwnerTypes
    BY <2>1 DEF Init, OwnerTypes
  <2>4. ExecTypes
    BY <2>1 DEF Init, ExecTypes
  <2>5. LogTypes
    BY <2>2 DEF Init, LogTypes
  <2>6. \A c \in Commands : ~ (c < 0) /\ ~ (c = 0)
    BY LinesFit
  <2>7. SeqInv
    BY <2>6 DEF Init, SeqInv
  <2> QED
    BY <2>3, <2>4, <2>5, <2>7 DEF TypeInv
<1> QED
  BY <1>1, TypeInductive, SeqInductive, PTL DEF Spec

(* A command is started only when Exec has reported the success of all     *)
(* before it, although a goroutine of Exec may be left behind by the       *)
(* select of execShell; and Exec reports success only of a process that    *)
(* has ended with it or, for docker, has ended its output.                 *)
THEOREM CommandsAreInSequence == Spec => []CommandsInSequence
<1>1. TypeInv /\ SeqInv => CommandsInSequence
  <2> SUFFICES ASSUME OwnerTypes, SeqInv PROVE CommandsInSequence
    BY DEF TypeInv
  <2>1. Commands \subseteq Nat \ {0} /\ command \in Nat
    BY LinesFit DEF OwnerTypes
  <2>2. ASSUME NEW b \in Commands, exec[b] = "done", status[b] = "ok"
        PROVE  Succeeded(b)
    BY <2>2 DEF SeqInv, Succeeded
  <2>3. ASSUME NEW c \in Commands, process[c] # "none", NEW b \in 1 .. c - 1
        PROVE  Succeeded(b)
    <3>1. b \in Commands /\ b < c /\ ~ (c > command)
      BY <2>1, <2>3, JobAssumption DEF SeqInv, Commands
    <3>2. b < command
      BY <2>1, <3>1
    <3> QED
      BY <2>2, <3>1, <3>2 DEF SeqInv
  <2>4. result = "ok" => \A c \in Commands : Succeeded(c)
    BY <2>2 DEF SeqInv
  <2> QED
    BY <2>3, <2>4 DEF CommandsInSequence
<1> QED
  BY <1>1, SeqInvariance, PTL

-----------------------------------------------------------------------------
(* The container.                                                          *)

(* Run has a result, and a container that runs, only between Create and    *)
(* the deferred Destroy.                                                   *)
CloseInv ==
    /\ owner \in {"lookup", "prepare", "create"} => container = "none"
    /\ owner \in {"close", "closeDirect", "done"} => container # "running"
    /\ owner \in {"release", "kill", "close", "closeDirect", "done"} =>
           result # "none"
    /\ listed \in 0 .. 1

(* List of internal/set never has more than one command to count.          *)
LEMMA OneProcess ==
    ASSUME TypeInv, SeqInv
    PROVE  Cardinality(Processes) \in 0 .. 1
<1>1. Processes \subseteq {command}
  <2> SUFFICES ASSUME NEW c \in Processes PROVE c = command
    OBVIOUS
  <2>1. c \in Commands /\ c \in Nat /\ command \in Nat
    BY LinesFit DEF Processes, TypeInv, OwnerTypes
  <2>2. ~ (c > command) /\ ~ (c < command)
    BY <2>1 DEF Processes, SeqInv
  <2> QED
    BY <2>1, <2>2
<1>2. Processes = {} \/ Processes = {command}
  BY <1>1
<1>3. Cardinality({}) = 0 /\ Cardinality({command}) = 1
  BY FS_EmptySet, FS_Singleton
<1> QED
  BY <1>2, <1>3

LEMMA CloseInductive == TypeInv /\ SeqInv /\ CloseInv /\ [Next]_vars => CloseInv'
<1> SUFFICES ASSUME TypeInv, SeqInv, CloseInv, [Next]_vars PROVE CloseInv'
  OBVIOUS
<1>a. ASSUME NEW r, NEW next, ReturnError(r, next)
      PROVE  result' = r /\ owner' = next
  BY <1>a DEF ReturnError
<1>b. "none" \notin Reason
  BY DEF Reason
<1> USE DEF ownerVars, execVars
<1>1. CASE Cancel
  BY <1>1 DEF Cancel, CloseInv
<1>2. CASE Lookup
  BY <1>2 DEF Lookup, CloseInv
<1>3. CASE Prepare
  BY <1>3, <1>a, <1>b DEF Prepare, CloseInv
<1>4. CASE Create
  BY <1>4, <1>a, <1>b DEF Create, CloseInv
<1>5. CASE DetectShell
  BY <1>5, <1>a, <1>b DEF DetectShell, CloseInv
<1>6. CASE StartCommand
  BY <1>6 DEF StartCommand, CloseInv
<1>7. CASE NoMoreCommands
  BY <1>7 DEF NoMoreCommands, CloseInv
<1>8. CASE Select
  <2>1. exec[command] = "done" => status[command] # "none"
    BY <1>8 DEF Select, SeqInv, TypeInv, OwnerTypes
  <2>2. owner' = "run" \/ (owner' = "release" /\ result' # "none")
    BY <1>8, <1>a, <2>1 DEF Select, TakeStatus
  <2> QED
    BY <1>8, <2>2 DEF Select, CloseInv
<1>9. CASE RemoveContainer
  BY <1>9 DEF RemoveContainer, CloseInv
<1>10. CASE ListSize
  <2>1. Cardinality(Processes) \in 0 .. 1
    BY OneProcess
  <2> QED
    BY <1>10, <2>1 DEF ListSize, CloseInv
<1>11. CASE KillListed
  <2>1. result' \in {result, "failed"} /\ listed' = listed
    BY <1>11 DEF KillListed
  <2>2. owner = "kill" /\ owner' = "close" /\ container' = "removed"
    BY <1>11 DEF KillListed
  <2> QED
    BY <2>1, <2>2 DEF CloseInv
<1>12. CASE CloseMask
  BY <1>12 DEF CloseMask, CloseInv
<1>13. CASE CloseDirect
  BY <1>13 DEF CloseDirect, CloseInv
<1>14. ASSUME NEW c \in Commands,
              \/ Exec(c) \/ ExecLost(c)
              \/ Speak(c) \/ Silence(c) \/ End(c) \/ KillByContext(c)
       PROVE  CloseInv'
  <2>1. UNCHANGED ownerVars
    BY <1>14
    DEF Exec, ExecBegin, ExecStart, ExecPut, ExecRead, ExecLog, ExecEnd,
        Conclude, ExecDelete, ExecReply, ExecLost, Speak, Silence, End,
        KillByContext, Becomes
  <2> QED
    BY <2>1 DEF CloseInv
<1>15. CASE UNCHANGED vars
  BY <1>15 DEF vars, CloseInv
<1> QED
  BY <1>1, <1>2, <1>3, <1>4, <1>5, <1>6, <1>7, <1>8, <1>9, <1>10, <1>11,
     <1>12, <1>13, <1>14, <1>15
  DEF Next, Owner, Over

LEMMA CloseInvariance == Spec => []CloseInv
<1>1. Init => CloseInv
  BY DEF Init, CloseInv
<1> QED
  BY <1>1, SeqInvariance, CloseInductive, PTL DEF Spec

(* Every variable of a job keeps its type, and a mask writer is there      *)
(* whenever Run prints an error or a prompt.                               *)
THEOREM TypeCorrect == Spec => []TypeOK
<1>1. TypeInv /\ CloseInv => TypeOK
  BY DEF TypeInv, CloseInv, TypeOK, OwnerTypes, ExecTypes, LogTypes
<1> QED
  BY <1>1, SeqInvariance, CloseInvariance, PTL

-----------------------------------------------------------------------------
(* The log.                                                                *)

(* the log is ordered, as LogOrdered has it of direct *)
Ordered(s) ==
    \A c \in Commands, j \in 1 .. Len(s) : s[j] = Output(c) =>
        /\ \E i \in 1 .. j : s[i] = Prompt(c)
        /\ \A i \in 1 .. j : s[i][1] <= c

(* The incomplete line is output of the last command, whose prompt and     *)
(* nothing later is in the log.                                            *)
LogInv ==
    /\ \A j \in 1 .. Len(rest) : rest[j] = Output(command)
    /\ \A i \in 1 .. Len(direct) : direct[i][1] <= command
    /\ command > 0 => \E i \in 1 .. Len(direct) : direct[i] = Prompt(command)
    /\ Ordered(direct)

(* What gets appended to the log: output of the last command, and behind   *)
(* that one other line at most.                                            *)
LEMMA OrderedAppend ==
    ASSUME NEW n \in 0 .. Count, NEW d \in Seq(Line), NEW r \in Seq(Line),
           NEW line \in Line,
           Ordered(d), \A i \in 1 .. Len(d) : d[i][1] <= n,
           n > 0 => \E i \in 1 .. Len(d) : d[i] = Prompt(n),
           \A j \in 1 .. Len(r) : r[j] = Output(n),
           \A c \in 0 .. Count : line = Output(c) => c = n,
           line[1] \in Nat
    PROVE  /\ Ordered(d \o r)
           /\ Ordered(d \o Append(r, line))
           /\ \A i \in 1 .. Len(d \o r) : (d \o r)[i][1] <= n
           /\ \A i \in 1 .. Len(d \o Append(r, line)) :
                  \/ (d \o Append(r, line))[i][1] <= n
                  \/ (d \o Append(r, line))[i] = line
           /\ \A i \in 1 .. Len(d) : /\ (d \o r)[i] = d[i]
                                     /\ (d \o Append(r, line))[i] = d[i]
           /\ (d \o Append(r, line))[Len(d \o Append(r, line))] = line
<1> DEFINE a == Append(r, line)
           x == d \o r
           y == d \o a
<1>1. /\ a \in Seq(Line) /\ Len(a) = Len(r) + 1
      /\ \A i \in 1 .. Len(r) : a[i] = r[i]
      /\ a[Len(r) + 1] = line
  BY AppendProperties
<1>2. /\ Len(d) \in Nat /\ Len(r) \in Nat /\ n \in Nat
      /\ Commands \subseteq 0 .. Count /\ Commands \subseteq Nat \ {0}
  BY LenProperties, LinesFit
<1>3. /\ x \in Seq(Line) /\ Len(x) = Len(d) + Len(r)
      /\ \A i \in 1 .. Len(x) : x[i] = IF i <= Len(d) THEN d[i] ELSE r[i - Len(d)]
  BY ConcatProperties
<1>4. /\ y \in Seq(Line) /\ Len(y) = Len(d) + Len(r) + 1
      /\ \A i \in 1 .. Len(y) : y[i] = IF i <= Len(d) THEN d[i] ELSE a[i - Len(d)]
  BY <1>1, <1>2, ConcatProperties
<1>a. Len(x) \in Nat /\ Len(y) \in Nat
  BY <1>2, <1>3, <1>4
<1> HIDE DEF a, x, y
<1>5. \A i \in 1 .. Len(x) : i > Len(d) => x[i] = Output(n)
  BY <1>2, <1>3
<1>6. \A i \in 1 .. Len(y) : i > Len(d) =>
          IF i = Len(y) THEN y[i] = line ELSE y[i] = Output(n)
  <2> SUFFICES ASSUME NEW i \in 1 .. Len(y), i > Len(d)
               PROVE  IF i = Len(y) THEN y[i] = line ELSE y[i] = Output(n)
    OBVIOUS
  <2>1. y[i] = a[i - Len(d)] /\ i - Len(d) \in 1 .. Len(r) + 1
    BY <1>2, <1>a, <1>4
  <2>2. CASE i = Len(y)
    BY <1>1, <1>2, <1>4, <2>1, <2>2
  <2>3. CASE i # Len(y)
    <3>0. i - Len(d) # Len(r) + 1
      <4> SUFFICES ASSUME i - Len(d) = Len(r) + 1 PROVE i = Len(y)
        BY <2>3
      <4>1. Len(y) = Len(d) + Len(r) + 1
        BY <1>4
      <4>2. i \in Int /\ Len(d) \in Int /\ Len(r) \in Int
        BY <1>2
      <4> QED
        BY <4>1, <4>2
    <3>1. i - Len(d) \in 1 .. Len(r)
      BY <1>2, <2>1, <3>0
    <3> QED
      BY <1>1, <2>1, <2>3, <3>1
  <2> QED
    BY <2>2, <2>3
<1>7. \A i \in 1 .. Len(d) : x[i] = d[i] /\ y[i] = d[i]
  BY <1>2, <1>3, <1>4
<1>8. Output(n)[1] = n
  BY LinesFit
<1>9. \A i \in 1 .. Len(x) : x[i][1] <= n
  <2> SUFFICES ASSUME NEW i \in 1 .. Len(x) PROVE x[i][1] <= n
    OBVIOUS
  <2>1. CASE i <= Len(d)
    BY <1>2, <1>a, <1>7, <2>1
  <2>2. CASE i > Len(d)
    BY <1>2, <1>5, <1>8, <2>2
  <2> QED
    BY <1>2, <1>a, <2>1, <2>2
<1>10. ASSUME NEW i \in 1 .. Len(y)
       PROVE  y[i][1] <= n \/ (i = Len(y) /\ y[i] = line)
  <2>1. CASE i <= Len(d)
    BY <1>2, <1>a, <1>7, <2>1
  <2>2. CASE i > Len(d) /\ i # Len(y)
    BY <1>2, <1>6, <1>8, <2>2
  <2>3. CASE i > Len(d) /\ i = Len(y)
    BY <1>6, <2>3
  <2> QED
    BY <1>2, <1>a, <2>1, <2>2, <2>3
<1>11. \A c \in Commands : Output(n) = Output(c) => c = n
  BY <1>2, OutputsDiffer
<1>12. Ordered(x)
  <2> SUFFICES ASSUME NEW c \in Commands, NEW j \in 1 .. Len(x), x[j] = Output(c)
               PROVE  /\ \E i \in 1 .. j : x[i] = Prompt(c)
                      /\ \A i \in 1 .. j : x[i][1] <= c
    BY DEF Ordered
  <2>1. CASE j <= Len(d)
    <3>1. j \in 1 .. Len(d) /\ d[j] = Output(c)
      BY <1>2, <1>3, <1>7, <2>1
    <3>2. /\ \E i \in 1 .. j : d[i] = Prompt(c)
          /\ \A i \in 1 .. j : d[i][1] <= c
      BY <3>1 DEF Ordered
    <3>3. \A i \in 1 .. j : i \in 1 .. Len(d)
      BY <1>2, <3>1
    <3> QED
      BY <1>7, <3>2, <3>3
  <2>2. CASE j > Len(d)
    <3>1. c = n
      BY <1>5, <1>11, <2>2
    <3>2. PICK i \in 1 .. Len(d) : d[i] = Prompt(n)
      BY <1>2, <3>1
    <3>3. i \in 1 .. j /\ x[i] = Prompt(c)
      BY <1>2, <1>3, <1>7, <2>2, <3>1, <3>2
    <3>4. \A k \in 1 .. j : k \in 1 .. Len(x)
      BY <1>2, <1>3
    <3> QED
      BY <1>9, <3>1, <3>3, <3>4
  <2> QED
    BY <1>2, <1>3, <2>1, <2>2
<1>13. Ordered(y)
  <2> SUFFICES ASSUME NEW c \in Commands, NEW j \in 1 .. Len(y), y[j] = Output(c)
               PROVE  /\ \E i \in 1 .. j : y[i] = Prompt(c)
                      /\ \A i \in 1 .. j : y[i][1] <= c
    BY DEF Ordered
  <2>1. CASE j <= Len(d)
    <3>1. j \in 1 .. Len(d) /\ d[j] = Output(c)
      BY <1>2, <1>4, <1>7, <2>1
    <3>2. /\ \E i \in 1 .. j : d[i] = Prompt(c)
          /\ \A i \in 1 .. j : d[i][1] <= c
      BY <3>1 DEF Ordered
    <3>3. \A i \in 1 .. j : i \in 1 .. Len(d)
      BY <1>2, <3>1
    <3> QED
      BY <1>7, <3>2, <3>3
  <2>2. CASE j > Len(d)
    <3>1. c = n
      BY <1>2, <1>6, <1>11, <2>2
    <3>2. PICK i \in 1 .. Len(d) : d[i] = Prompt(n)
      BY <1>2, <3>1
    <3>3. i \in 1 .. j /\ y[i] = Prompt(c)
      BY <1>2, <1>4, <1>7, <2>2, <3>1, <3>2
    <3>4. ASSUME NEW k \in 1 .. j PROVE y[k][1] <= c
      <4>1. k \in 1 .. Len(y)
        BY <1>2, <1>4
      <4>2. CASE k = Len(y) /\ y[k] = line
        <5>1. k = j
          BY <1>a, <4>2
        <5>2. y[k] = Output(n)
          BY <3>1, <5>1
        <5> QED
          BY <1>2, <1>8, <3>1, <5>2
      <4> QED
        BY <1>10, <3>1, <4>1, <4>2
    <3> QED
      BY <3>3, <3>4
  <2> QED
    BY <1>2, <1>a, <2>1, <2>2
<1> QED
  <2>1. y[Len(y)] = line
    BY <1>2, <1>4, <1>6
  <2> QED
    BY <1>7, <1>9, <1>10, <1>12, <1>13, <2>1 DEF a, x, y

(* A write to the mask writer: the output of the last command, or a line   *)
(* of its own.                                                             *)
LEMMA LogMaskOrdered ==
    ASSUME TypeInv, LogInv, NEW line \in Line, NEW complete \in BOOLEAN,
           LogMask(line, complete), line[1] \in Nat,
           \/ line = Output(command)
           \/ complete /\ \A c \in 0 .. Count : line # Output(c)
    PROVE  /\ Ordered(direct')
           /\ \A j \in 1 .. Len(rest') : rest'[j] = Output(command)
           /\ \A i \in 1 .. Len(direct') :
                  direct'[i][1] <= command \/ direct'[i] = line
           /\ Len(direct') \in Nat /\ Len(direct') >= Len(direct)
           /\ \A i \in 1 .. Len(direct) : direct'[i] = direct[i]
           /\ mask = "open" /\ complete =>
                  /\ Len(direct') > Len(direct)
                  /\ direct'[Len(direct')] = line
                  /\ rest' = <<>>
<1>a. /\ direct \in Seq(Line) /\ rest \in Seq(Line) /\ command \in 0 .. Count
      /\ Len(direct) \in Nat /\ Len(rest) \in Nat
      /\ mask = "open" => directOpen
  BY LenProperties DEF TypeInv, OwnerTypes, LogTypes
<1>1. CASE mask # "open"
  BY <1>1, <1>a DEF LogMask, LogInv, logVars
<1>2. CASE mask = "open" /\ ~complete
  <2>1. /\ rest' = Append(rest, line) /\ direct' = direct /\ line = Output(command)
    BY <1>2 DEF LogMask
  <2>2. \A j \in 1 .. Len(Append(rest, line)) : Append(rest, line)[j] = Output(command)
    BY <1>a, <2>1, AppendProperties DEF LogInv
  <2> QED
    BY <1>2, <1>a, <2>1, <2>2 DEF LogInv
<1>3. CASE mask = "open" /\ complete
  <2>1. rest' = <<>> /\ direct' = direct \o Append(rest, line)
    BY <1>3, <1>a DEF LogMask, Deliver
  <2>2. /\ Ordered(direct \o Append(rest, line))
        /\ \A i \in 1 .. Len(direct \o Append(rest, line)) :
               \/ (direct \o Append(rest, line))[i][1] <= command
               \/ (direct \o Append(rest, line))[i] = line
        /\ \A i \in 1 .. Len(direct) : (direct \o Append(rest, line))[i] = direct[i]
        /\ (direct \o Append(rest, line))[Len(direct \o Append(rest, line))] = line
    <3>1. \A c \in 0 .. Count : line = Output(c) => c = command
      BY <1>a, OutputsDiffer
    <3>2. /\ Ordered(direct) /\ \A i \in 1 .. Len(direct) : direct[i][1] <= command
          /\ command > 0 => \E i \in 1 .. Len(direct) : direct[i] = Prompt(command)
          /\ \A j \in 1 .. Len(rest) : rest[j] = Output(command)
      BY DEF LogInv
    <3>3. Ordered(direct \o Append(rest, line))
      BY <1>a, <3>1, <3>2, OrderedAppend
    <3>4. \A i \in 1 .. Len(direct \o Append(rest, line)) :
               \/ (direct \o Append(rest, line))[i][1] <= command
               \/ (direct \o Append(rest, line))[i] = line
      BY <1>a, <3>1, <3>2, OrderedAppend
    <3>5. \A i \in 1 .. Len(direct) : (direct \o Append(rest, line))[i] = direct[i]
      BY <1>a, <3>1, <3>2, OrderedAppend
    <3>6. (direct \o Append(rest, line))[Len(direct \o Append(rest, line))] = line
      BY <1>a, <3>1, <3>2, OrderedAppend
    <3> QED
      BY <3>3, <3>4, <3>5, <3>6
  <2>3. Len(direct \o Append(rest, line)) = Len(direct) + (Len(rest) + 1)
    BY <1>a, AppendProperties, ConcatProperties
  <2> DEFINE y == direct \o Append(rest, line)
  <2>4. Len(y) \in Nat /\ Len(y) > Len(direct)
    BY <1>a, <2>3
  <2>5. \A j \in 1 .. Len(<<>>) : <<>>[j] = Output(command)
    OBVIOUS
  <2>6. /\ Ordered(y) /\ y[Len(y)] = line
        /\ \A i \in 1 .. Len(y) : y[i][1] <= command \/ y[i] = line
        /\ \A i \in 1 .. Len(direct) : y[i] = direct[i]
        /\ rest' = <<>> /\ direct' = y
    BY <2>1, <2>2
  <2> HIDE DEF y
  <2> QED
    BY <1>a, <2>4, <2>5, <2>6
<1> QED
  BY <1>1, <1>2, <1>3

LEMMA LogInductive == TypeInv /\ SeqInv /\ LogInv /\ [Next]_vars => LogInv'
<1> SUFFICES ASSUME TypeInv, SeqInv, LogInv, [Next]_vars PROVE LogInv'
  OBVIOUS
<1>a. /\ direct \in Seq(Line) /\ rest \in Seq(Line) /\ command \in 0 .. Count
      /\ Len(direct) \in Nat /\ Len(rest) \in Nat /\ command \in Nat
  BY LenProperties DEF TypeInv, OwnerTypes, LogTypes
<1>b. ASSUME UNCHANGED <<command, rest, direct>> PROVE LogInv'
  BY <1>b DEF LogInv
<1>c. ASSUME NEW line \in {Error, Output(command)}, NEW complete \in BOOLEAN,
             LogMask(line, complete), command' = command,
             line = Error => complete
      PROVE  LogInv'
  <2>1. line \in Line /\ line[1] \in Nat /\ line[1] <= command
    BY <1>a, LinesFit
  <2>2. \/ line = Output(command)
        \/ complete /\ \A c \in 0 .. Count : line # Output(c)
    BY <1>c, OutputsDiffer
  <2>3. /\ Ordered(direct')
        /\ \A j \in 1 .. Len(rest') : rest'[j] = Output(command)
        /\ \A i \in 1 .. Len(direct') :
               direct'[i][1] <= command \/ direct'[i] = line
        /\ Len(direct') \in Nat /\ Len(direct') >= Len(direct)
        /\ \A i \in 1 .. Len(direct) : direct'[i] = direct[i]
    BY <1>c, <2>1, <2>2, LogMaskOrdered
  <2>4. \A i \in 1 .. Len(direct) : i \in 1 .. Len(direct')
    BY <1>a, <2>3
  <2>5. command > 0 => \E i \in 1 .. Len(direct') : direct'[i] = Prompt(command)
    BY <2>3, <2>4 DEF LogInv
  <2> QED
    BY <1>c, <2>1, <2>3, <2>5 DEF LogInv
<1>d. ASSUME NEW r, NEW next, ReturnError(r, next), command' = command
      PROVE  LogInv'
  BY <1>c, <1>d DEF ReturnError
<1>e. ASSUME NEW line \in Line, line[1] = 0, \A c \in 0 .. Count : line # Output(c),
             direct' = Append(direct, line), UNCHANGED <<command, rest>>
      PROVE  LogInv'
  <2>1. /\ Len(Append(direct, line)) = Len(direct) + 1
        /\ \A i \in 1 .. Len(direct) : Append(direct, line)[i] = direct[i]
        /\ Append(direct, line)[Len(direct) + 1] = line
    BY <1>a, AppendProperties
  <2>2. \A i \in 1 .. Len(direct') : i = Len(direct) + 1 \/ i \in 1 .. Len(direct)
    BY <1>a, <1>e, <2>1
  <2>3. \A i \in 1 .. Len(direct') : direct'[i][1] <= command
    BY <1>a, <1>e, <2>1, <2>2 DEF LogInv
  <2>4. command > 0 => \E i \in 1 .. Len(direct') : direct'[i] = Prompt(command)
    <3> SUFFICES ASSUME command > 0
                 PROVE  \E i \in 1 .. Len(direct') : direct'[i] = Prompt(command)
      OBVIOUS
    <3>1. PICK i \in 1 .. Len(direct) : direct[i] = Prompt(command)
      BY DEF LogInv
    <3>2. i \in 1 .. Len(direct') /\ direct'[i] = Prompt(command)
      BY <1>a, <1>e, <2>1, <3>1
    <3> QED
      BY <3>2
  <2>5. Ordered(direct')
    <3> SUFFICES ASSUME NEW c \in Commands, NEW j \in 1 .. Len(direct'),
                        direct'[j] = Output(c)
                 PROVE  /\ \E i \in 1 .. j : direct'[i] = Prompt(c)
                        /\ \A i \in 1 .. j : direct'[i][1] <= c
      BY DEF Ordered
    <3>1. j # Len(direct) + 1
      BY <1>e, <2>1, LinesFit
    <3>2. j \in 1 .. Len(direct) /\ direct[j] = Output(c)
      BY <1>e, <2>1, <2>2, <3>1
    <3>3. /\ \E i \in 1 .. j : direct[i] = Prompt(c)
          /\ \A i \in 1 .. j : direct[i][1] <= c
      BY <3>2 DEF LogInv, Ordered
    <3>4. \A i \in 1 .. j : direct'[i] = direct[i]
      BY <1>a, <1>e, <2>1, <3>2
    <3> QED
      BY <3>3, <3>4
  <2> QED
    BY <1>e, <2>3, <2>4, <2>5 DEF LogInv
<1>f. ASSUME ErrorfDirect, directOpen, command' = command PROVE LogInv'
  <2>1. direct' = direct \o <<Verdict>> /\ UNCHANGED rest
    BY <1>f DEF ErrorfDirect, Deliver
  <2>2. Append(direct, Verdict) = direct \o <<Verdict>>
    BY <1>a, LinesFit, AppendIsConcat
  <2>3. \A c \in 0 .. Count : Verdict # Output(c)
    BY <1>a, OutputsDiffer
  <2> QED
    BY <1>e, <1>f, <2>1, <2>2, <2>3, LinesFit
<1> USE DEF ownerVars, execVars, logVars
<1>1. CASE Cancel
  BY <1>1, <1>b DEF Cancel
<1>2. CASE Lookup
  <2>1. directOpen
    BY <1>2 DEF Lookup, TypeInv, LogTypes
  <2>2. CASE SetupMaskWriter /\ command' = command
    BY <2>2 DEF SetupMaskWriter, LogInv
  <2>3. CASE ErrorfDirect /\ command' = command
    BY <1>f, <2>1, <2>3
  <2> QED
    BY <1>2, <2>2, <2>3 DEF Lookup
<1>3. CASE Prepare
  BY <1>3, <1>b, <1>d DEF Prepare
<1>4. CASE Create
  BY <1>4, <1>b, <1>d DEF Create
<1>5. CASE DetectShell
  BY <1>5, <1>b, <1>d DEF DetectShell
<1>6. CASE StartCommand
  <2> DEFINE line == Prompt(command + 1)
  <2>1. command + 1 \in 0 .. Count /\ command' = command + 1 /\ mask = "open"
    BY <1>6, JobAssumption DEF StartCommand, TypeInv, OwnerTypes, LogTypes
  <2>2. line \in Line /\ line[1] = command + 1
    BY <2>1, LinesFit
  <2>3. \A c \in 0 .. Count : line # Output(c)
    BY <2>1, OutputsDiffer
  <2>4. LogMask(line, TRUE)
    BY <1>6 DEF StartCommand
  <2>a. line[1] \in Nat
    BY <1>a, <2>2
  <2> HIDE DEF line
  <2>5. /\ Ordered(direct')
        /\ \A i \in 1 .. Len(direct') :
               direct'[i][1] <= command \/ direct'[i] = line
        /\ Len(direct') \in Nat /\ Len(direct') > Len(direct)
        /\ direct'[Len(direct')] = line /\ rest' = <<>>
    BY <2>1, <2>2, <2>3, <2>4, <2>a, LogMaskOrdered
  <2>6. \A i \in 1 .. Len(direct') : direct'[i][1] <= command'
    <3>1. ASSUME NEW i \in 1 .. Len(direct') PROVE direct'[i][1] <= command'
      <4>1. CASE direct'[i] = line
        BY <1>a, <2>1, <2>2, <4>1
      <4>2. CASE direct'[i] # line
        <5>1. direct' \in Seq(Line)
          BY <2>2, <2>4, LogMaskTypes DEF WritersKept, TypeInv
        <5>2. direct'[i][1] \in Nat
          BY <5>1, ElementOfSeq, JobAssumption DEF Line
        <5> QED
          BY <1>a, <2>1, <2>5, <4>2, <5>2
      <4> QED
        BY <4>1, <4>2
    <3> QED
      BY <3>1
  <2>7. Len(direct') \in 1 .. Len(direct') /\ direct'[Len(direct')] = Prompt(command')
    BY <1>a, <2>1, <2>5 DEF line
  <2> QED
    BY <2>5, <2>6, <2>7 DEF LogInv
<1>7. CASE NoMoreCommands
  BY <1>7, <1>b DEF NoMoreCommands
<1>8. CASE Select
  BY <1>8, <1>b, <1>d DEF Select, TakeStatus
<1>9. CASE RemoveContainer
  BY <1>9, <1>b DEF RemoveContainer
<1>10. CASE ListSize
  BY <1>10, <1>b DEF ListSize
<1>11. CASE KillListed
  <2>1. directOpen
    BY <1>11 DEF KillListed, TypeInv, LogTypes
  <2> QED
    BY <1>11, <1>b, <1>f, <2>1 DEF KillListed
<1>12. CASE CloseMask
  <2>1. CASE mask # "open"
    BY <1>12, <1>b, <2>1 DEF CloseMask
  <2>2. CASE mask = "open"
    <3>1. /\ direct' = direct \o rest /\ rest' = <<>> /\ command' = command
      BY <1>12, <2>2 DEF CloseMask, Deliver, TypeInv, LogTypes
    <3>2. /\ Error \in Line /\ Error[1] \in Nat
          /\ \A c \in 0 .. Count : Error = Output(c) => c = command
      BY <1>a, LinesFit, OutputsDiffer
    <3>3. /\ Ordered(direct \o rest)
          /\ \A i \in 1 .. Len(direct \o rest) : (direct \o rest)[i][1] <= command
          /\ \A i \in 1 .. Len(direct) : (direct \o rest)[i] = direct[i]
      BY <1>a, <3>2, OrderedAppend DEF LogInv
    <3>4. \A i \in 1 .. Len(direct) : i \in 1 .. Len(direct \o rest)
      BY <1>a, ConcatProperties
    <3>5. command > 0 =>
              \E i \in 1 .. Len(direct \o rest) : (direct \o rest)[i] = Prompt(command)
      BY <3>3, <3>4 DEF LogInv
    <3> QED
      BY <3>1, <3>3, <3>5 DEF LogInv
  <2> QED
    BY <2>1, <2>2
<1>13. CASE CloseDirect
  BY <1>13, <1>b DEF CloseDirect
<1>14. ASSUME NEW c \in Commands, ExecLog(c) PROVE LogInv'
  <2>1. c = command
    <3>1. ~ (c > command) /\ ~ (c < command)
      BY <1>14 DEF ExecLog, SeqInv
    <3> QED
      BY <1>a, <3>1, LinesFit
  <2>2. PICK complete \in BOOLEAN : LogMask(Output(c), complete)
    BY <1>14 DEF ExecLog
  <2>3. Output(command) # Error
    BY <1>a, OutputsDiffer
  <2> QED
    BY <1>14, <1>c, <2>1, <2>2, <2>3 DEF ExecLog
<1>15. ASSUME NEW c \in Commands,
              \/ ExecBegin(c) \/ ExecStart(c) \/ ExecPut(c) \/ ExecRead(c)
              \/ ExecEnd(c) \/ ExecDelete(c) \/ ExecReply(c)
              \/ ExecLost(c) \/ Speak(c) \/ Silence(c) \/ End(c)
              \/ KillByContext(c)
       PROVE  LogInv'
  <2>1. UNCHANGED <<command, rest, direct>>
    BY <1>15
    DEF ExecBegin, ExecStart, ExecPut, ExecRead, ExecEnd, Conclude,
        ExecDelete, ExecReply, ExecLost, Speak, Silence, End, KillByContext,
        Becomes
  <2> QED
    BY <1>b, <2>1
<1>16. CASE UNCHANGED vars
  BY <1>16, <1>b DEF vars
<1> QED
  BY <1>1, <1>2, <1>3, <1>4, <1>5, <1>6, <1>7, <1>8, <1>9, <1>10, <1>11,
     <1>12, <1>13, <1>14, <1>15, <1>16
  DEF Next, Owner, Exec, Over

LEMMA LogInvariance == Spec => []LogInv
<1>1. Init => LogInv
  <2> SUFFICES ASSUME Init PROVE LogInv
    OBVIOUS
  <2>1. /\ \A j \in 1 .. Len(rest) : rest[j] = Output(command)
        /\ command = 0 /\ direct = <<>>
    BY DEF Init
  <2>2. Len(direct) = 0
    BY <2>1
  <2> QED
    BY <2>1, <2>2 DEF LogInv, Ordered
<1> QED
  BY <1>1, SeqInvariance, LogInductive, PTL DEF Spec

-----------------------------------------------------------------------------
(* Nothing is lost.                                                        *)

(* what the mask writer has accepted, and the verdict if there is one *)
Whole ==
    \/ direct \o rest = written
    \/ \E p, q \in Seq(Line) : direct \o rest = p \o (<<Verdict>> \o q)
                               /\ written = p \o q

(* Until Run is over direct and rest are what has been accepted; then a    *)
(* verdict may come in between.                                            *)
FlowInv ==
    /\ owner \notin {"close", "closeDirect", "done"} => direct \o rest = written
    /\ Whole
    /\ mask # "open" => rest = <<>>
    /\ result \in {"failed", "canceled"} =>
           \E i \in 1 .. Len(direct) : direct[i] \in {Error, Verdict}

LEMMA AppendBehind ==
    ASSUME NEW d \in Seq(Line), NEW r \in Seq(Line), NEW line \in Line
    PROVE  d \o Append(r, line) = Append(d \o r, line)
<1>1. /\ d \o r \in Seq(Line) /\ <<line>> \in Seq(Line)
      /\ Append(r, line) = r \o <<line>>
  BY ConcatProperties, AppendIsConcat
<1>2. Append(d \o r, line) = (d \o r) \o <<line>>
  BY <1>1, AppendIsConcat
<1>3. (d \o r) \o <<line>> = d \o (r \o <<line>>)
  BY <1>1, ConcatAssociative
<1> QED
  BY <1>1, <1>2, <1>3

(* whatever gets appended to both sides *)
LEMMA WholeGrows ==
    ASSUME TypeInv, Whole, NEW line \in Line,
           direct' \o rest' = Append(direct \o rest, line),
           written' = Append(written, line)
    PROVE  Whole'
<1>1. CASE direct \o rest = written
  BY <1>1 DEF Whole
<1>2. CASE \E p, q \in Seq(Line) : direct \o rest = p \o (<<Verdict>> \o q)
                                  /\ written = p \o q
  <2>1. PICK p, q \in Seq(Line) : direct \o rest = p \o (<<Verdict>> \o q)
                                  /\ written = p \o q
    BY <1>2
  <2>2. <<Verdict>> \in Seq(Line)
    BY LinesFit
  <2>3. <<Verdict>> \o q \in Seq(Line) /\ Append(q, line) \in Seq(Line)
    BY <2>2, ConcatProperties, AppendProperties
  <2>4. p \o Append(q, line) = Append(p \o q, line)
    BY AppendBehind
  <2>5. <<Verdict>> \o Append(q, line) = Append(<<Verdict>> \o q, line)
    BY <2>2, AppendBehind
  <2>6. p \o Append(<<Verdict>> \o q, line) = Append(p \o (<<Verdict>> \o q), line)
    BY <2>3, AppendBehind
  <2>7. /\ direct' \o rest' = p \o (<<Verdict>> \o Append(q, line))
        /\ written' = p \o Append(q, line)
    BY <2>1, <2>4, <2>5, <2>6
  <2> QED
    BY <2>3, <2>7 DEF Whole
<1> QED
  BY <1>1, <1>2 DEF Whole

LEMMA LogMaskFlow ==
    ASSUME TypeInv, FlowInv, NEW line \in Line, NEW complete \in BOOLEAN,
           LogMask(line, complete)
    PROVE  /\ direct \o rest = written => direct' \o rest' = written'
           /\ Whole'
           /\ mask' # "open" => rest' = <<>>
<1>a. /\ direct \in Seq(Line) /\ rest \in Seq(Line) /\ written \in Seq(Line)
      /\ mask = "open" => directOpen
  BY DEF TypeInv, OwnerTypes, LogTypes
<1>1. CASE mask # "open"
  BY <1>1 DEF LogMask, FlowInv, Whole, logVars
<1>2. CASE mask = "open"
  <2>1. /\ written' = Append(written, line) /\ mask' = mask
        /\ \/ complete /\ rest' = <<>> /\ direct' = direct \o Append(rest, line)
           \/ ~complete /\ rest' = Append(rest, line) /\ direct' = direct
    BY <1>2, <1>a DEF LogMask, Deliver
  <2>2. direct \o Append(rest, line) = Append(direct \o rest, line)
    BY <1>a, AppendBehind
  <2>3. direct \o Append(rest, line) \in Seq(Line)
    BY <1>a, AppendProperties, ConcatProperties
  <2>4. (direct \o Append(rest, line)) \o <<>> = direct \o Append(rest, line)
    BY <2>3, ConcatEmptySeq
  <2>5. direct' \o rest' = Append(direct \o rest, line)
    BY <2>1, <2>2, <2>4
  <2>6. Whole'
    BY <2>1, <2>5, WholeGrows DEF FlowInv
  <2> QED
    BY <1>2, <2>1, <2>5, <2>6
<1> QED
  BY <1>1, <1>2

(* A verdict breaks what is held back from what has been delivered.        *)
LEMMA VerdictFlow ==
    ASSUME TypeInv, direct \o rest = written, ErrorfDirect, directOpen
    PROVE  /\ Whole' /\ rest' = rest /\ mask' = mask
           /\ \E i \in 1 .. Len(direct') : direct'[i] \in {Error, Verdict}
<1>a. /\ direct \in Seq(Line) /\ rest \in Seq(Line) /\ <<Verdict>> \in Seq(Line)
  BY LinesFit DEF TypeInv, LogTypes
<1>1. direct' = direct \o <<Verdict>> /\ UNCHANGED <<mask, rest, written>>
  BY DEF ErrorfDirect, Deliver
<1>2. (direct \o <<Verdict>>) \o rest = direct \o (<<Verdict>> \o rest)
  BY <1>a, ConcatAssociative
<1>3. Whole'
  BY <1>a, <1>1, <1>2 DEF Whole
<1>4. direct' = Append(direct, Verdict)
  BY <1>a, <1>1, LinesFit, AppendIsConcat
<1>5. /\ Len(direct) \in Nat /\ Len(direct') = Len(direct) + 1
      /\ direct'[Len(direct) + 1] = Verdict
  BY <1>a, <1>4, LinesFit, LenProperties, AppendProperties
<1>6. Len(direct) + 1 \in 1 .. Len(direct')
  BY <1>5
<1> QED
  BY <1>1, <1>3, <1>5, <1>6

LEMMA FlowInductive ==
    TypeInv /\ SeqInv /\ LogInv /\ FlowInv /\ [Next]_vars => FlowInv'
<1> SUFFICES ASSUME TypeInv, SeqInv, LogInv, FlowInv, [Next]_vars PROVE FlowInv'
  OBVIOUS
<1>a. /\ direct \in Seq(Line) /\ rest \in Seq(Line) /\ command \in 0 .. Count
      /\ Len(direct) \in Nat
  BY LenProperties DEF TypeInv, OwnerTypes, LogTypes
<1>b. ASSUME UNCHANGED <<mask, rest, written, direct>>,
             result' = result \/ result' = "ok" \/ result' = "none",
             owner \in {"close", "closeDirect", "done"} =>
                 owner' \in {"close", "closeDirect", "done"}
      PROVE  FlowInv'
  BY <1>b DEF FlowInv, Whole
<1>c. ASSUME NEW line \in {Error, Prompt(command + 1), Output(command)},
             NEW complete \in BOOLEAN, LogMask(line, complete), line \in Line,
             line = Output(command) \/ complete
      PROVE  /\ direct \o rest = written => direct' \o rest' = written'
             /\ Whole'
             /\ mask' # "open" => rest' = <<>>
             /\ (\E i \in 1 .. Len(direct) : direct[i] \in {Error, Verdict}) =>
                    \E i \in 1 .. Len(direct') : direct'[i] \in {Error, Verdict}
             /\ mask = "open" /\ line = Error =>
                    \E i \in 1 .. Len(direct') : direct'[i] \in {Error, Verdict}
  <2>1. /\ direct \o rest = written => direct' \o rest' = written'
        /\ Whole'
        /\ mask' # "open" => rest' = <<>>
    BY <1>c, LogMaskFlow
  <2>2. /\ line[1] \in Nat
        /\ line = Output(command) \/ (complete /\ \A c \in 0 .. Count : line # Output(c))
    <3>1. line[1] \in Nat
      BY <1>c, JobAssumption DEF Line
    <3>2. CASE line = Output(command)
      BY <3>1, <3>2
    <3>3. CASE line # Output(command)
      <4>1. \A c \in 0 .. Count : line # Output(c)
        BY <1>c, <3>3 DEF Error, Prompt, Output
      <4> QED
        BY <1>c, <3>1, <3>3, <4>1
    <3> QED
      BY <3>2, <3>3
  <2>3. /\ Len(direct') \in Nat /\ Len(direct') >= Len(direct)
        /\ \A i \in 1 .. Len(direct) : direct'[i] = direct[i]
        /\ mask = "open" /\ complete =>
               /\ Len(direct') > Len(direct) /\ direct'[Len(direct')] = line
    BY <1>c, <2>2, LogMaskOrdered
  <2>4. \A i \in 1 .. Len(direct) : i \in 1 .. Len(direct')
    BY <1>a, <2>3
  <2>5. Error # Output(command)
    BY <1>a, OutputsDiffer
  <2>6. mask = "open" /\ line = Error =>
            Len(direct') \in 1 .. Len(direct') /\ direct'[Len(direct')] = Error
    BY <1>a, <1>c, <2>3, <2>5
  <2> QED
    BY <2>1, <2>3, <2>4, <2>6
<1>d. ASSUME NEW r, NEW next, ReturnError(r, next), mask = "open",
             owner \notin {"close", "closeDirect", "done"}
      PROVE  FlowInv'
  <2>1. LogMask(Error, TRUE) /\ result' = r /\ owner' = next
    BY <1>d DEF ReturnError
  <2>2. /\ direct' \o rest' = written' /\ Whole'
        /\ mask' # "open" => rest' = <<>>
        /\ \E i \in 1 .. Len(direct') : direct'[i] \in {Error, Verdict}
    BY <1>c, <1>d, <2>1, LinesFit DEF FlowInv
  <2> QED
    BY <2>2 DEF FlowInv
<1>e. owner \notin {"lookup", "close", "closeDirect", "done"} => mask = "open"
  BY DEF TypeInv, LogTypes
<1> USE DEF ownerVars, execVars, logVars
<1>1. CASE Cancel
  BY <1>1, <1>b DEF Cancel
<1>2. CASE Lookup
  <2>1. directOpen /\ direct \o rest = written
    BY <1>2 DEF Lookup, TypeInv, LogTypes, FlowInv
  <2>2. CASE SetupMaskWriter /\ result' = result
    <3>1. direct' \o rest' = written' /\ direct' = direct /\ mask' = "open"
      BY <1>a, <2>2, ConcatEmptySeq DEF SetupMaskWriter
    <3> QED
      BY <2>2, <3>1 DEF FlowInv, Whole
  <2>3. CASE ErrorfDirect /\ result' = "failed" /\ owner' = "close"
    BY <2>1, <2>3, VerdictFlow DEF FlowInv
  <2> QED
    BY <1>2, <2>2, <2>3 DEF Lookup
<1>3. CASE Prepare
  BY <1>3, <1>b, <1>d, <1>e DEF Prepare
<1>4. CASE Create
  BY <1>4, <1>b, <1>d, <1>e DEF Create
<1>5. CASE DetectShell
  BY <1>5, <1>b, <1>d, <1>e DEF DetectShell
<1>6. CASE StartCommand
  <2>1. command + 1 \in 0 .. Count
    BY <1>6, JobAssumption DEF StartCommand, TypeInv, OwnerTypes
  <2>2. Prompt(command + 1) \in Line /\ LogMask(Prompt(command + 1), TRUE)
    BY <1>6, <2>1, LinesFit DEF StartCommand
  <2>3. /\ direct \o rest = written => direct' \o rest' = written'
        /\ Whole'
        /\ mask' # "open" => rest' = <<>>
        /\ (\E i \in 1 .. Len(direct) : direct[i] \in {Error, Verdict}) =>
               \E i \in 1 .. Len(direct') : direct'[i] \in {Error, Verdict}
    BY <1>c, <2>2
  <2> QED
    BY <1>6, <2>3 DEF StartCommand, FlowInv
<1>7. CASE NoMoreCommands
  BY <1>7, <1>b DEF NoMoreCommands
<1>8. CASE Select
  BY <1>8, <1>b, <1>d, <1>e DEF Select, TakeStatus
<1>9. CASE RemoveContainer
  BY <1>9, <1>b DEF RemoveContainer
<1>10. CASE ListSize
  BY <1>10, <1>b DEF ListSize
<1>11. CASE KillListed
  <2>1. directOpen /\ direct \o rest = written /\ owner' = "close" /\ mask = "open"
    BY <1>11 DEF KillListed, TypeInv, LogTypes, FlowInv
  <2>2. CASE ErrorfDirect
    BY <2>1, <2>2, VerdictFlow DEF FlowInv
  <2>3. CASE UNCHANGED <<result, logVars>>
    BY <1>11, <1>b, <2>1, <2>3 DEF KillListed
  <2> QED
    BY <1>11, <2>2, <2>3 DEF KillListed
<1>12. CASE CloseMask
  <2>1. CASE mask # "open"
    BY <1>12, <1>b, <2>1 DEF CloseMask
  <2>2. CASE mask = "open"
    <3>1. /\ direct' = direct \o rest /\ rest' = <<>>
          /\ UNCHANGED <<written, result>> /\ owner' = "closeDirect"
      BY <1>12, <2>2 DEF CloseMask, Deliver, TypeInv, LogTypes
    <3>2. direct \o rest \in Seq(Line) /\ (direct \o rest) \o <<>> = direct \o rest
      BY <1>a, ConcatProperties, ConcatEmptySeq
    <3>3. direct' \o rest' = direct \o rest
      BY <3>1, <3>2
    <3>4. Whole'
      BY <3>1, <3>3 DEF FlowInv, Whole
    <3>5. \A i \in 1 .. Len(direct) :
              i \in 1 .. Len(direct \o rest) /\ (direct \o rest)[i] = direct[i]
      BY <1>a, ConcatProperties, LenProperties
    <3>6. (\E i \in 1 .. Len(direct) : direct[i] \in {Error, Verdict}) =>
              \E i \in 1 .. Len(direct') : direct'[i] \in {Error, Verdict}
      BY <3>1, <3>5
    <3> QED
      BY <3>1, <3>4, <3>6 DEF FlowInv
  <2> QED
    BY <2>1, <2>2
<1>13. CASE CloseDirect
  BY <1>13, <1>b DEF CloseDirect
<1>14. ASSUME NEW c \in Commands, ExecLog(c) PROVE FlowInv'
  <2>1. c = command
    <3>1. ~ (c > command) /\ ~ (c < command)
      BY <1>14 DEF ExecLog, SeqInv
    <3> QED
      BY <1>a, <3>1, LinesFit
  <2>2. PICK complete \in BOOLEAN : LogMask(Output(command), complete)
    BY <1>14, <2>1 DEF ExecLog
  <2>3. Output(command) \in Line
    BY <1>a, LinesFit
  <2>4. /\ direct \o rest = written => direct' \o rest' = written'
        /\ Whole'
        /\ mask' # "open" => rest' = <<>>
        /\ (\E i \in 1 .. Len(direct) : direct[i] \in {Error, Verdict}) =>
               \E i \in 1 .. Len(direct') : direct'[i] \in {Error, Verdict}
    BY <1>c, <2>2, <2>3
  <2>5. UNCHANGED <<owner, result>>
    BY <1>14 DEF ExecLog
  <2> QED
    BY <2>4, <2>5 DEF FlowInv
<1>15. ASSUME NEW c \in Commands,
              \/ ExecBegin(c) \/ ExecStart(c) \/ ExecPut(c) \/ ExecRead(c)
              \/ ExecEnd(c) \/ ExecDelete(c) \/ ExecReply(c)
              \/ ExecLost(c) \/ Speak(c) \/ Silence(c) \/ End(c)
              \/ KillByContext(c)
       PROVE  FlowInv'
  <2>1. UNCHANGED <<mask, rest, written, direct, result, owner>>
    BY <1>15
    DEF ExecBegin, ExecStart, ExecPut, ExecRead, ExecEnd, Conclude,
        ExecDelete, ExecReply, ExecLost, Speak, Silence, End, KillByContext,
        Becomes
  <2> QED
    BY <1>b, <2>1
<1>16. CASE UNCHANGED vars
  BY <1>16, <1>b DEF vars
<1> QED
  BY <1>1, <1>2, <1>3, <1>4, <1>5, <1>6, <1>7, <1>8, <1>9, <1>10, <1>11,
     <1>12, <1>13, <1>14, <1>15, <1>16
  DEF Next, Owner, Exec, Over

LEMMA FlowInvariance == Spec => []FlowInv
<1>1. Init => FlowInv
  <2> SUFFICES ASSUME Init PROVE FlowInv
    OBVIOUS
  <2>1. /\ result = "none" /\ written = rest /\ direct = <<>>
        /\ mask # "open" => rest = <<>>
    BY DEF Init
  <2>2. rest \in Seq(Line)
    <3>1. Output(0) \in Line
      BY JobAssumption, LinesFit
    <3>2. <<Output(0)>> \in Seq(Line) /\ <<>> \in Seq(Line)
      BY <3>1, EmptySeq
    <3> QED
      BY <3>2 DEF Init
  <2>3. direct \o rest = written
    BY <2>1, <2>2, ConcatEmptySeq
  <2> QED
    BY <2>1, <2>3 DEF FlowInv, Whole
<1> QED
  BY <1>1, SeqInvariance, LogInvariance, FlowInductive, PTL DEF Spec

(* a list of lines with one verdict among them, taken apart *)
LEMMA VerdictAmong ==
    ASSUME NEW p \in Seq(Line), NEW q \in Seq(Line)
    PROVE  p \o (<<Verdict>> \o q) \in WithVerdict(p \o q)
<1> DEFINE w == p \o q
<1>1. /\ w \in Seq(Line) /\ Len(w) = Len(p) + Len(q)
      /\ Len(p) \in Nat /\ Len(q) \in Nat
      /\ \A i \in 1 .. Len(w) : w[i] = IF i <= Len(p) THEN p[i] ELSE q[i - Len(p)]
      /\ \A i \in 1 .. Len(w) : w[i] \in Line
  BY ConcatProperties, LenProperties, ElementOfSeq
<1> HIDE DEF w
<1>2. SubSeq(w, 1, Len(p)) = p
  <2>1. \A i \in 1 .. Len(p) : w[i] = p[i] /\ w[i] \in Line
    BY <1>1
  <2>2. /\ SubSeq(w, 1, Len(p)) \in Seq(Line)
        /\ Len(SubSeq(w, 1, Len(p))) = Len(p)
        /\ \A i \in 1 .. Len(p) : SubSeq(w, 1, Len(p))[i] = w[i]
    BY <1>1, <2>1, SubSeqProperties
  <2> QED
    BY <1>1, <2>1, <2>2, SeqEqual
<1>3. SubSeq(w, Len(p) + 1, Len(w)) = q
  <2>1. \A i \in 1 .. Len(q) : w[Len(p) + i] = q[i]
    BY <1>1
  <2>2. \A i \in Len(p) + 1 .. Len(w) : w[i] \in Line
    BY <1>1
  <2>3. /\ SubSeq(w, Len(p) + 1, Len(w)) \in Seq(Line)
        /\ Len(SubSeq(w, Len(p) + 1, Len(w))) = Len(q)
        /\ \A i \in 1 .. Len(q) : SubSeq(w, Len(p) + 1, Len(w))[i] = w[Len(p) + i]
    BY <1>1, <2>2, SubSeqProperties
  <2> QED
    BY <1>1, <2>1, <2>3, SeqEqual
<1>4. Len(p) \in 0 .. Len(w)
  BY <1>1
<1>5. p \o (<<Verdict>> \o q) \in WithVerdict(w)
  BY <1>2, <1>3, <1>4 DEF WithVerdict
<1> QED
  BY <1>5 DEF w

(* The reader of the log gets everything the mask writer has accepted, in  *)
(* order, with each command's output behind its prompt, and learns why a   *)
(* job has failed, whatever the goroutines left behind still write.        *)
THEOREM LogIsFaithful == Spec => []LogFaithful
<1>1. LogInv => LogOrdered
  BY DEF LogInv, Ordered, LogOrdered
<1>2. TypeInv /\ CloseInv /\ FlowInv => LogComplete
  <2> SUFFICES ASSUME TypeInv, CloseInv, FlowInv, owner = "done"
               PROVE  /\ direct \in {written} \cup WithVerdict(written)
                      /\ result # "ok" => \E i \in 1 .. Len(direct) :
                                              direct[i] \in {Error, Verdict}
    BY DEF LogComplete
  <2>1. mask # "open" /\ rest = <<>> /\ direct \in Seq(Line)
    BY DEF TypeInv, LogTypes, FlowInv
  <2>2. direct \o rest = direct
    BY <2>1, ConcatEmptySeq
  <2>3. direct \in {written} \cup WithVerdict(written)
    BY <2>2, VerdictAmong DEF FlowInv, Whole
  <2>4. result # "ok" => result \in {"failed", "canceled"}
    BY DEF CloseInv, TypeInv, OwnerTypes
  <2> QED
    BY <2>3, <2>4 DEF FlowInv
<1> QED
  BY <1>1, <1>2, SeqInvariance, CloseInvariance, LogInvariance, FlowInvariance,
     PTL DEF LogFaithful
-----------------------------------------------------------------------------
(* What a goroutine that is left behind can be stuck in.                   *)

(* Where the goroutine of a command stands, it need not wait for anybody.  *)
ExecCanMove(c) ==
    \/ exec[c] \in {"new", "starting", "replying"}
    \/ chunk[c] # "none"
    \/ exec[c] = "running" /\ mode = "shell" /\ ~locked
    \/ exec[c] \in {"running", "listed"} /\ OutputOver(c)
    \/ exec[c] = "ended" /\ ~locked

(* the context, with which it was started, ends the shell of the command *)
IsKilled(c) == mode = "shell" /\ ctxDone /\ process[c] = "alive"

(* When the job is over, the goroutine of a command that was given up goes *)
(* on to its end, unless the container could not be removed, there are     *)
(* orphans that keep the output open, or List has left the set locked.     *)
LingersOnlyIfExcused ==
    owner = "done" => \A c \in Commands :
        \/ exec[c] \in {"none", "done"} \/ ExecCanMove(c) \/ IsKilled(c)
        \/ container = "kept" \/ process[c] = "orphaned" \/ locked

(* Only a cancellation makes the owner leave a goroutine behind; and       *)
(* nothing survives the container it runs in.                              *)
LeftInv ==
    /\ owner # "select" =>
           \A c \in Commands : exec[c] \in {"none", "done"} \/ ctxDone
    /\ owner \in {"detect", "run", "select", "release", "kill"} =>
           container = "running"
    /\ owner = "kill" => mode = "shell"
    /\ command > 0 \/ result = "ok" =>
           container \in {"running", "removed", "kept"}
    /\ \A c \in Commands :
          /\ exec[c] \in {"running", "listed"} => process[c] # "none"
          /\ exec[c] = "listed" => mode = "shell"
          /\ mode = "docker" /\ container = "removed" =>
                 process[c] \notin {"alive", "orphaned"}

LEMMA LeftInductive ==
    TypeInv /\ SeqInv /\ LeftInv /\ [Next]_vars => LeftInv'
<1> SUFFICES ASSUME OwnerTypes, ExecTypes, SeqInv, LeftInv, [Next]_vars
             PROVE  LeftInv'
  BY DEF TypeInv
<1>a. ASSUME NEW r, NEW next, ReturnError(r, next)
      PROVE  owner' = next /\ result' = r
  BY <1>a DEF ReturnError
<1>b. Commands = 1 .. Count /\ Count \in Nat
  BY JobAssumption DEF Commands
<1>c. "ok" \notin Reason
  BY DEF Reason
<1> USE DEF ownerVars, execVars, OwnerTypes, ExecTypes
<1>1. CASE Cancel
  BY <1>1 DEF Cancel, LeftInv
<1>2. CASE Lookup \/ Prepare \/ DetectShell \/ NoMoreCommands
  <2>1. /\ UNCHANGED <<mode, ctxDone, command, container, execVars>>
        /\ owner # "select"
        /\ owner' \in {"prepare", "create", "run", "release", "close"}
        /\ owner' \in {"run", "release"} =>
               owner \in {"detect", "run"}
        /\ result' = "ok" => result = "ok" \/ owner = "run"
    BY <1>2, <1>a, <1>c DEF Lookup, Prepare, DetectShell, NoMoreCommands
  <2> QED
    BY <2>1 DEF LeftInv
<1>3. CASE Create
  <2>1. /\ UNCHANGED <<mode, ctxDone, command, execVars>>
        /\ owner = "create" /\ owner' \in {"detect", "close"}
        /\ owner' = "detect" => container' = "running"
        /\ container' # "removed"
        /\ result' = "ok" => owner' = "detect"
    BY <1>3, <1>a, <1>c DEF Create
  <2>2. command = 0
    BY <2>1 DEF SeqInv
  <2> QED
    BY <2>1, <2>2 DEF LeftInv
<1>4. CASE StartCommand
  <2>1. /\ UNCHANGED <<mode, ctxDone, container, process>>
        /\ owner = "run" /\ owner' = "select"
        /\ exec' = [exec EXCEPT ![command + 1] = "new"]
    BY <1>4 DEF StartCommand
  <2> QED
    BY <2>1 DEF LeftInv
<1>5. CASE Select
  <2>1. /\ UNCHANGED <<mode, ctxDone, command, container, execVars>>
        /\ owner = "select" /\ owner' \in {"run", "release"}
        /\ exec[command] = "done" \/ ctxDone
    BY <1>5, <1>a DEF Select, TakeStatus
  <2>2. \A c \in Commands : exec[c] \in {"none", "done"} \/ ctxDone
    <3> SUFFICES ASSUME NEW c \in Commands, c # command
                 PROVE  exec[c] \in {"none", "done"}
      BY <2>1
    <3>1. c > command \/ c < command
      BY <1>b
    <3> QED
      BY <3>1 DEF SeqInv
  <2> QED
    BY <2>1, <2>2 DEF LeftInv
<1>6. CASE RemoveContainer
  <2>1. /\ UNCHANGED <<mode, ctxDone, command, exec>>
        /\ mode = "docker" /\ owner = "release" /\ owner' = "close"
        /\ \/ /\ container' = "removed"
              /\ process' = [c \in Commands |-> Ended(process[c])]
           \/ container' = "kept" /\ process' = process
    BY <1>6 DEF RemoveContainer
  <2> QED
    BY <2>1 DEF LeftInv, Ended
<1>7. CASE ListSize
  BY <1>7 DEF ListSize, LeftInv
<1>8. CASE KillListed
  <2>1. /\ UNCHANGED <<mode, ctxDone, command, exec>>
        /\ owner = "kill" /\ owner' = "close" /\ container' = "removed"
    BY <1>8 DEF KillListed
  <2>2. \A c \in Commands : process'[c] = "none" => process[c] = "none"
    BY <1>8 DEF KillListed, Killed
  <2> QED
    BY <2>1, <2>2 DEF LeftInv
<1>9. CASE CloseMask \/ CloseDirect
  BY <1>9 DEF CloseMask, CloseDirect, LeftInv
<1>10. ASSUME NEW c \in Commands, ExecStart(c) PROVE LeftInv'
  BY <1>10 DEF ExecStart, Reply, LeftInv
<1>11. ASSUME NEW c \in Commands,
              \/ ExecBegin(c) \/ ExecPut(c) \/ ExecRead(c) \/ ExecLog(c)
              \/ ExecEnd(c) \/ ExecDelete(c) \/ ExecReply(c) \/ ExecLost(c)
              \/ Speak(c) \/ Silence(c)
       PROVE  LeftInv'
  <2>1. /\ UNCHANGED <<mode, ctxDone, ownerVars, process>>
        /\ \/ exec' = exec
           \/ exec[c] # "none" /\ exec[c] # "done"
              /\ \E at : /\ exec' = [exec EXCEPT ![c] = at]
                         /\ at = "listed" => /\ mode = "shell"
                                             /\ exec[c] = "running"
                         /\ at # "running"
    BY <1>11 DEF ExecBegin, ExecPut, ExecRead, ExecLog, ExecEnd, Conclude,
                 ExecDelete, ExecReply, ExecLost, Speak, Silence, Reply, SeqInv
  <2> QED
    BY <2>1 DEF LeftInv
<1>12. ASSUME NEW c \in Commands, End(c) \/ KillByContext(c) PROVE LeftInv'
  <2>1. /\ UNCHANGED <<mode, ctxDone, ownerVars, exec>>
        /\ \E p : /\ process' = [process EXCEPT ![c] = p] /\ p # "none"
                  /\ mode = "docker" => p \notin {"alive", "orphaned"}
    BY <1>12 DEF End, KillByContext, Becomes, Killed
  <2> QED
    BY <2>1 DEF LeftInv
<1>13. CASE UNCHANGED vars
  BY <1>13 DEF vars, LeftInv
<1> QED
  BY <1>1, <1>2, <1>3, <1>4, <1>5, <1>6, <1>7, <1>8, <1>9, <1>10, <1>11,
     <1>12, <1>13
  DEF Next, Owner, Over, Exec

LEMMA LeftInvariance == Spec => []LeftInv
<1>1. Init => LeftInv
  BY DEF Init, LeftInv
<1> QED
  BY <1>1, SeqInvariance, LeftInductive, PTL DEF Spec

(* Wherever Run gives up: when processJob closes the writers, the started  *)
(* container is gone with its processes, or could not be removed; and a    *)
(* job that leaves behind a container that did not start has executed no   *)
(* command and has not succeeded.                                          *)
THEOREM ContainerIsReleased == Spec => []ContainerReleased
<1>1. TypeInv /\ CloseInv /\ LeftInv => ContainerReleased
  <2> SUFFICES ASSUME TypeInv, CloseInv, LeftInv,
                      owner \in {"close", "closeDirect", "done"}
               PROVE  /\ container # "running"
                      /\ container \in {"none", "forgotten"} =>
                             command = 0 /\ result \in {"failed", "canceled"}
                      /\ mode = "docker" /\ container = "removed" =>
                             \A c \in Commands : process[c] # "alive"
    BY DEF ContainerReleased
  <2>1. container # "running" /\ result # "none"
    BY DEF CloseInv
  <2>2. container \in {"none", "forgotten"} => ~(command > 0) /\ result # "ok"
    BY DEF LeftInv
  <2>3. command = 0 \/ command > 0
    BY JobAssumption DEF TypeInv, OwnerTypes
  <2>4. result \in {"none", "ok", "failed", "canceled"}
    BY DEF TypeInv, OwnerTypes
  <2> QED
    BY <2>1, <2>2, <2>3, <2>4 DEF LeftInv
<1> QED
  BY <1>1, SeqInvariance, CloseInvariance, LeftInvariance, PTL

(* The channel of execShell has room, removing the container ends what     *)
(* runs in it, and the context ends the shell: nothing else is needed for  *)
(* the goroutine of a canceled command to go on.                           *)
THEOREM NothingIsLeftWaiting == Spec => []LingersOnlyIfExcused
<1>1. TypeInv /\ SeqInv /\ CloseInv /\ LeftInv => LingersOnlyIfExcused
  <2> SUFFICES ASSUME OwnerTypes, ExecTypes, SeqInv, CloseInv, LeftInv,
                      owner = "done", NEW c \in Commands,
                      exec[c] \notin {"none", "done"}, ~ExecCanMove(c),
                      container # "kept", process[c] # "orphaned", ~locked
               PROVE  IsKilled(c)
    BY DEF LingersOnlyIfExcused, TypeInv
  <2>1. mode = "docker" \/ mode = "shell"
    BY JobAssumption DEF OwnerTypes
  <2>2. exec[c] \in {"running", "listed"}
    BY DEF ExecTypes, ExecCanMove
  <2>3. process[c] = "alive"
    BY <2>2 DEF ExecTypes, ExecCanMove, OutputOver, LeftInv
  <2>4. ctxDone
    BY <2>2 DEF LeftInv
  <2>5. command > 0
    BY JobAssumption DEF Commands, SeqInv, OwnerTypes
  <2>6. container = "removed"
    BY <2>5 DEF LeftInv, CloseInv, OwnerTypes
  <2> QED
    BY <2>1, <2>3, <2>4, <2>6 DEF LeftInv, IsKilled
<1> QED
  BY <1>1, SeqInvariance, CloseInvariance, LeftInvariance, PTL
=============================================================================
