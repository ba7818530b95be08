--------------------------- MODULE TransfersProofs ---------------------------
(***************************************************************************)
(* Proofs about the transfers, for any of them, of any length: one stopped *)
(* before its last look does not finish, and one that did not finish       *)
(* leaves no file; a query beside is cancelled for none that could be      *)
(* stopped, and forgotten for none that was not.                           *)
(*                                                                         *)
(* And about the way of an import through its file, for any file, batches  *)
(* and bad rows: what it says went in is what went in.                     *)
(***************************************************************************)
EXTENDS Transfers, FileImport, FiniteSetTheorems, SequenceTheorems, TLAPS

Found == {"nothing", "flag", "handle"}
Ask == [transfer : TransfersAll \cup {NoTransfer}, found : Found]
Replies ==
    {a \in [kind : Kinds, transfer : TransfersAll \cup {NoTransfer}] :
        IF a.kind = "query" THEN a.transfer = NoTransfer ELSE a.transfer \in TransfersAll}
Stages == {"idle", "queued", "working", "dir", "starting", "spawned", "handed", "waiting", "ended",
           "judged", "over"}

\* The fields a step updates one at a time, but for the answers.
FieldsOK ==
    /\ open \in BOOLEAN /\ awaiting \in BOOLEAN
    /\ shown \in TransfersAll \cup {NoTransfer}
    /\ stopUnderWay \in Ask
    /\ query \in {"none", "runs", "ended"}
    /\ showsQuery \in BOOLEAN
    /\ task \in [TransfersAll -> Stages]
    /\ portion \in [TransfersAll -> 0..Portions]
    /\ inMap \in [TransfersAll -> Found]
    /\ cancelFlag \in [TransfersAll -> BOOLEAN] /\ told \in [TransfersAll -> BOOLEAN]
    /\ tool \in [TransfersAll -> {"none", "runs", "well", "badly", "killed"}]
    /\ status \in [TransfersAll -> {"none", "well", "badly", "killed"}]
    /\ written \in [TransfersAll -> BOOLEAN] /\ partial \in [TransfersAll -> BOOLEAN]
    /\ verdict \in [TransfersAll -> {"none", "finished", "failed", "cancelled"}]
    /\ \A ts \in {halted, heeded, silent, misplaced, forgotten, cancelledFor} : ts \subseteq TransfersAll


\* A stop is of a transfer, a dialog that waits shows one, and a tool that was waited for has
\* said how it ended.
Asking == stopUnderWay # NotStopping => stopUnderWay.transfer \in TransfersAll
Shows == awaiting => shown \in TransfersAll
Judged == \A t \in TransfersAll : task[t] \in {"ended", "judged"} => status[t] # "none"

LEMMA FieldsInit == TransfersInit => FieldsOK /\ Asking /\ Shows /\ Judged
<1> SUFFICES ASSUME TransfersInit PROVE FieldsOK /\ Asking /\ Shows /\ Judged
  OBVIOUS
<1>1. stopUnderWay \in Ask
  BY DEF TransfersInit, Ask, Found, NotStopping
<1>2. portion \in [TransfersAll -> 0..Portions]
  BY TransfersAssumption DEF TransfersInit
<1>3. Asking /\ Shows /\ Judged
  BY DEF TransfersInit, Asking, Shows, Judged
<1>4. QED
  BY <1>1, <1>2, <1>3 DEF TransfersInit, FieldsOK, Found, Stages

\* What the loop makes of an answer, one case at a time.
LEMMA Heard ==
    ASSUME HearTransfer
    PROVE  /\ answers # <<>> /\ answers' = Tail(answers)
           /\ UNCHANGED <<open, stopUnderWay, cancelledFor, taskVars, cancelFlag, told, halted, heeded>>
           /\ \/ /\ Head(answers).kind = "query"
                 /\ query' = "none" /\ showsQuery' = FALSE
                 /\ UNCHANGED <<awaiting, shown, forgotten>>
              \/ /\ Head(answers).kind # "query" /\ shown = Head(answers).transfer
                 /\ awaiting' = FALSE /\ shown' = NoTransfer
                 /\ UNCHANGED <<query, showsQuery, forgotten>>
              \/ /\ Head(answers).kind # "query" /\ shown # Head(answers).transfer
                 /\ showsQuery' = (showsQuery /\ Head(answers).kind # "cancelled")
                 /\ forgotten' = IF Head(answers).kind = "cancelled" /\ showsQuery /\ query = "runs"
                                   THEN forgotten \cup {Head(answers).transfer} ELSE forgotten
                 /\ UNCHANGED <<awaiting, shown, query>>
<1> DEFINE answer == Head(answers)
<1>1. CASE answer.kind = "query"
  BY <1>1, Zenon DEF HearTransfer
<1>2. CASE answer.kind # "query" /\ shown = answer.transfer
  BY <1>2, Zenon DEF HearTransfer
<1>3. CASE answer.kind # "query" /\ shown # answer.transfer
  BY <1>3, Zenon DEF HearTransfer
<1>4. QED
  BY <1>1, <1>2, <1>3

\* How a tool's transfer ends, by what waiting for it said.
LEMMA SettledIs ==
    ASSUME FieldsOK, Judged, NEW t \in TransfersAll, Settle(t)
    PROVE  /\ task[t] = "judged" /\ task' = [task EXCEPT ![t] = "over"]
           /\ inMap' = [inMap EXCEPT ![t] = "nothing"]
           /\ UNCHANGED <<taskKept, portion, told, tool, status, silent>>
           /\ \E how \in {"finished", "failed", "cancelled"} :
                /\ verdict' = [verdict EXCEPT ![t] = how] /\ Sends(how, t)
                /\ how = "finished" => status[t] = "well"
                /\ how = "cancelled" => status[t] = "killed"
                /\ \/ /\ written' = [written EXCEPT ![t] = TRUE] /\ how = "finished"
                      /\ partial' = [partial EXCEPT ![t] = FALSE] /\ UNCHANGED misplaced
                   \/ /\ misplaced' = misplaced \cup {t} /\ UNCHANGED <<written, partial>>
                   \/ partial' = [partial EXCEPT ![t] = FALSE] /\ UNCHANGED <<written, misplaced>>
<1>1. status[t] \in {"well", "badly", "killed"}
  BY DEF Settle, FieldsOK, Judged
<1>2. CASE status[t] = "well" /\ t \in Backups
  BY <1>2 DEF Settle, Over
<1>3. CASE ~(status[t] = "well" /\ t \in Backups)
  <2> DEFINE outcome == CASE status[t] = "well" -> "finished"
                          [] status[t] = "badly" -> "failed"
                          [] status[t] = "killed" -> "cancelled"
  <2>1. /\ partial' = [partial EXCEPT ![t] = FALSE] /\ Over(t, outcome)
        /\ UNCHANGED <<written, misplaced>>
    BY <1>3, Zenon DEF Settle
  <2>2. \/ status[t] = "well" /\ outcome = "finished"
        \/ status[t] = "badly" /\ outcome = "failed"
        \/ status[t] = "killed" /\ outcome = "cancelled"
    BY <1>1
  <2> HIDE DEF outcome
  <2>3. QED
    BY <2>1, <2>2 DEF Settle, Over
<1>4. QED
  BY <1>2, <1>3

LEMMA FieldsStep ==
    ASSUME FieldsOK, Asking, Shows, Judged, answers \in Seq(Replies), [TransfersNext]_transferVars
    PROVE  FieldsOK' /\ Asking' /\ Shows'
<1>n. Portions \in Nat /\ NoTransfer \notin TransfersAll
  BY TransfersAssumption
<1>1. CASE OpenTransfer
  BY <1>1 DEF OpenTransfer, FieldsOK, Asking, Shows, queryVars, taskVars
<1>2. CASE CloseTransfer
  BY <1>2 DEF CloseTransfer, FieldsOK, Asking, Shows, queryVars, taskVars
<1>3. CASE StopTransfer
  <2>1. shown \in TransfersAll
    BY <1>3 DEF Shows, StopTransfer
  <2>2. stopUnderWay' \in Ask /\ Asking'
    BY <1>3, <2>1 DEF StopTransfer, FieldsOK, Ask, Asking
  <2>3. QED
    BY <1>3, <2>1, <2>2 DEF StopTransfer, FieldsOK, Shows, queryVars, taskVars
<1>4. CASE StopActs
  <2>1. stopUnderWay.transfer \in TransfersAll
    BY <1>4 DEF StopActs, LoopIdle, Asking
  <2>2. stopUnderWay' \in Ask /\ Asking'
    BY <1>4 DEF StopActs, Ask, Found, NotStopping, Asking
  <2>3. /\ cancelFlag' \in [TransfersAll -> BOOLEAN]
        /\ told' \in [TransfersAll -> BOOLEAN]
        /\ cancelledFor' \subseteq TransfersAll
        /\ heeded' \subseteq TransfersAll
    BY <1>4, <2>1 DEF StopActs, FieldsOK
  <2>4. QED
    BY <1>4, <2>2, <2>3 DEF StopActs, FieldsOK, Shows, dialogVars, taskVars
<1>5. CASE HearTransfer
  <2>1. shown' \in {shown, NoTransfer} /\ (awaiting' => awaiting /\ shown' = shown)
        /\ awaiting' \in BOOLEAN
    <3>1. CASE awaiting' = awaiting /\ shown' = shown
      BY <3>1 DEF FieldsOK
    <3>2. CASE awaiting' = FALSE /\ shown' = NoTransfer
      BY <3>2
    <3>3. QED
      BY <1>5, <3>1, <3>2, Heard
  <2>2. query' \in {query, "none"} /\ showsQuery' \in BOOLEAN
    BY <1>5, Heard DEF FieldsOK
  <2>3. Head(answers) \in Replies
    BY <1>5, Heard, HeadTailProperties
  <2>4. forgotten' \subseteq TransfersAll
    BY <1>5, <2>3, Heard DEF FieldsOK, Replies
  <2>5. QED
    BY <1>5, <2>1, <2>2, <2>4, Heard DEF FieldsOK, Asking, Shows, taskVars
<1>6. CASE QueryBegins
  BY <1>6 DEF QueryBegins, FieldsOK, Asking, Shows, dialogVars, taskVars
<1>7. CASE QueryEnds
  BY <1>7 DEF QueryEnds, FieldsOK, Asking, Shows, dialogVars, taskVars
<1>8. ASSUME NEW t \in TransfersAll, RunTransfer(t)
      PROVE  FieldsOK' /\ Asking' /\ Shows'
  BY <1>8 DEF RunTransfer, FieldsOK, Asking, Shows, Stages, queryVars
<1>9. ASSUME NEW t \in TransfersAll, TransferStep(t)
      PROVE  FieldsOK' /\ Asking' /\ Shows'
  <2>1. CASE BeginTransfer(t)
    BY <2>1 DEF BeginTransfer, Over, FieldsOK, Asking, Shows, Stages, Found, taskKept, dialogVars, queryVars
  <2>2. CASE Work(t)
    <3>1. /\ task' \in {task, [task EXCEPT ![t] = "over"]}
          /\ inMap' \in {inMap, [inMap EXCEPT ![t] = "nothing"]}
          /\ \E how \in {"failed", "cancelled"} : verdict' \in {verdict, [verdict EXCEPT ![t] = how]}
      BY <2>2 DEF Work, Over
    <3>2. portion[t] \in 0..Portions /\ portion[t] < Portions
      BY <2>2 DEF Work, FieldsOK
    <3>3. portion[t] + 1 \in 0..Portions
      BY <1>n, <3>2
    <3>4. portion' \in [TransfersAll -> 0..Portions]
      BY <2>2, <3>3 DEF Work, FieldsOK
    <3>5. UNCHANGED <<taskKept, told, tool, status, written, partial, silent, misplaced>>
      BY <2>2 DEF Work
    <3>6. task' \in [TransfersAll -> Stages] /\ inMap' \in [TransfersAll -> Found]
      BY <3>1 DEF FieldsOK, Stages, Found
    <3>7. verdict' \in [TransfersAll -> {"none", "finished", "failed", "cancelled"}]
      BY <3>1 DEF FieldsOK
    <3>8. QED
      BY <3>4, <3>5, <3>6, <3>7 DEF FieldsOK, Asking, Shows, taskKept, dialogVars, queryVars
  <2>3. CASE Complete(t)
    <3>1. written' \in [TransfersAll -> BOOLEAN]
      <4>1. (t \in Exports) \in BOOLEAN
        OBVIOUS
      <4>2. written' \in {written, [written EXCEPT ![t] = t \in Exports]}
        BY <2>3 DEF Complete
      <4>3. QED
        BY <4>1, <4>2 DEF FieldsOK
    <3>2. /\ task' = [task EXCEPT ![t] = "over"] /\ inMap' = [inMap EXCEPT ![t] = "nothing"]
          /\ \E how \in {"finished", "failed", "cancelled"} : verdict' = [verdict EXCEPT ![t] = how]
      BY <2>3 DEF Complete, Over
    <3>3. UNCHANGED <<taskKept, portion, told, tool, status, partial, silent, misplaced>>
      BY <2>3 DEF Complete
    <3>4. QED
      BY <3>1, <3>2, <3>3 DEF FieldsOK, Asking, Shows, Stages, Found, taskKept, dialogVars, queryVars
  <2>4. CASE MakeDirectory(t)
    <3>1. /\ \E at \in {"starting", "over"} : task' = [task EXCEPT ![t] = at]
          /\ verdict' \in {verdict, [verdict EXCEPT ![t] = "failed"]}
          /\ silent' \in {silent, silent \cup {t}}
          /\ inMap' = inMap
      BY <2>4 DEF MakeDirectory, Goes
    <3>2. UNCHANGED <<taskKept, portion, told, tool, status, written, partial, misplaced>>
      BY <2>4 DEF MakeDirectory
    <3>3. QED
      BY <3>1, <3>2 DEF FieldsOK, Asking, Shows, Stages, taskKept, dialogVars, queryVars
  <2>5. CASE StartTool(t)
    <3>1. partial' \in [TransfersAll -> BOOLEAN]
      <4>1. (t \in Backups) \in BOOLEAN
        OBVIOUS
      <4>2. partial' \in {partial, [partial EXCEPT ![t] = t \in Backups]}
        BY <2>5 DEF StartTool
      <4>3. QED
        BY <4>1, <4>2 DEF FieldsOK
    <3>2. /\ \E at \in {"spawned", "over"} : task' = [task EXCEPT ![t] = at]
          /\ inMap' \in {inMap, [inMap EXCEPT ![t] = "nothing"]}
          /\ verdict' \in {verdict, [verdict EXCEPT ![t] = "failed"]}
          /\ tool' \in {tool, [tool EXCEPT ![t] = "runs"]}
      BY <2>5 DEF StartTool, Goes, Over
    <3>3. UNCHANGED <<taskKept, portion, told, status, written, silent, misplaced>>
      BY <2>5 DEF StartTool
    <3>4. QED
      BY <3>1, <3>2, <3>3 DEF FieldsOK, Asking, Shows, Stages, Found, taskKept, dialogVars, queryVars
  <2>6. CASE HandOver(t)
    BY <2>6 DEF HandOver, FieldsOK, Asking, Shows, Stages, Found, taskKept, dialogVars, queryVars
  <2>7. CASE LookAtFlag(t)
    BY <2>7 DEF LookAtFlag, Goes, FieldsOK, Asking, Shows, Stages, taskKept, dialogVars, queryVars
  <2>8. CASE AwaitTool(t)
    BY <2>8 DEF AwaitTool, Goes, FieldsOK, Asking, Shows, Stages, taskKept, dialogVars, queryVars
  <2>9. CASE JudgeTool(t)
    BY <2>9 DEF JudgeTool, Goes, FieldsOK, Asking, Shows, Stages, taskKept, dialogVars, queryVars
  <2>10. CASE Settle(t)
    <3>1. /\ task' = [task EXCEPT ![t] = "over"] /\ inMap' = [inMap EXCEPT ![t] = "nothing"]
          /\ \E how \in {"finished", "failed", "cancelled"} : verdict' = [verdict EXCEPT ![t] = how]
          /\ written' \in {written, [written EXCEPT ![t] = TRUE]}
          /\ partial' \in {partial, [partial EXCEPT ![t] = FALSE]}
          /\ misplaced' \in {misplaced, misplaced \cup {t}}
      BY <2>10, SettledIs
    <3>2. UNCHANGED <<taskKept, portion, told, tool, status, silent>>
      BY <2>10, SettledIs
    <3>3. task' \in [TransfersAll -> Stages] /\ inMap' \in [TransfersAll -> Found]
      BY <3>1 DEF FieldsOK, Stages, Found
    <3>4. verdict' \in [TransfersAll -> {"none", "finished", "failed", "cancelled"}]
      BY <3>1 DEF FieldsOK
    <3>5. /\ written' \in [TransfersAll -> BOOLEAN] /\ partial' \in [TransfersAll -> BOOLEAN]
          /\ misplaced' \subseteq TransfersAll
      BY <3>1 DEF FieldsOK
    <3>6. QED
      BY <3>2, <3>3, <3>4, <3>5 DEF FieldsOK, Asking, Shows, taskKept, dialogVars, queryVars
  <2>11. QED
    BY <1>9, <2>1, <2>2, <2>3, <2>4, <2>5, <2>6, <2>7, <2>8, <2>9, <2>10 DEF TransferStep
<1>10. ASSUME NEW t \in TransfersAll, ToolEnds(t)
       PROVE  FieldsOK' /\ Asking' /\ Shows'
  BY <1>10 DEF ToolEnds, FieldsOK, Asking, Shows, taskKept, dialogVars, queryVars
<1>11. CASE UNCHANGED transferVars
  BY <1>11 DEF FieldsOK, Asking, Shows, transferVars, dialogVars, queryVars, taskVars
<1>12. QED
  BY <1>1, <1>2, <1>3, <1>4, <1>5, <1>6, <1>7, <1>8, <1>9, <1>10, <1>11 DEF TransfersNext

(* What holds of each transfer. *)

\* One stopped before its last look is on its way to an end that is not a finish.
Doomed(t) ==
    \/ task[t] = "over" /\ verdict[t] # "finished"
    \/ t \in Exports /\ task[t] = "working" /\ cancelFlag[t] /\ portion[t] < Portions
    \/ t \in Imports /\ task[t] = "working" /\ cancelFlag[t]
    \/ task[t] \in {"dir", "starting", "spawned", "handed"} /\ cancelFlag[t]
    \/ task[t] \in {"handed", "waiting", "ended"} /\ told[t]
    \/ task[t] = "judged" /\ status[t] = "killed"

OneOK(t) ==
    /\ t \in Cooperative => task[t] \in {"idle", "queued", "working", "over"}
    /\ t \notin Cooperative => task[t] # "working"
    /\ task[t] \in {"ended", "judged"} => status[t] # "none"
    /\ verdict[t] = "none" <=> task[t] # "over"
    /\ written[t] => verdict[t] = "finished"
    /\ partial[t] => task[t] \in {"spawned", "handed", "waiting", "ended", "judged"} \/ t \in misplaced
    /\ tool[t] = "runs" => task[t] \in {"spawned", "handed", "waiting"}
    /\ t \in heeded => Doomed(t)

EachOK == \A t \in TransfersAll : OneOK(t)

LEMMA EachSettles == EachOK => Judged
BY DEF EachOK, OneOK, Judged

LEMMA EachInit == TransfersInit => EachOK
BY DEF TransfersInit, EachOK, OneOK, Doomed

\* A transfer keeps what holds of it while its own fields stay.
OneStays(t) ==
    /\ task'[t] = task[t] /\ portion'[t] = portion[t] /\ cancelFlag'[t] = cancelFlag[t]
    /\ told'[t] = told[t] /\ tool'[t] = tool[t] /\ status'[t] = status[t]
    /\ written'[t] = written[t] /\ partial'[t] = partial[t] /\ verdict'[t] = verdict[t]
    /\ t \in heeded' => t \in heeded
    /\ t \in misplaced => t \in misplaced'

LEMMA StaysOK ==
    ASSUME NEW t \in TransfersAll, OneOK(t), OneStays(t)
    PROVE  OneOK(t)'
BY DEF OneOK, OneStays, Doomed

\* A step of one transfer leaves the others alone.
LEMMA OthersStay ==
    ASSUME FieldsOK, Judged, NEW s \in TransfersAll, NEW t \in TransfersAll, s # t,
           RunTransfer(s) \/ TransferStep(s) \/ ToolEnds(s)
    PROVE  OneStays(t)
<1>1. CASE RunTransfer(s)
  BY <1>1 DEF RunTransfer, OneStays, FieldsOK, queryVars
<1>2. CASE ToolEnds(s)
  BY <1>2 DEF ToolEnds, OneStays, FieldsOK, taskKept
<1>3. CASE TransferStep(s)
  <2>1. CASE BeginTransfer(s)
    BY <2>1 DEF BeginTransfer, Over, OneStays, FieldsOK, taskKept
  <2>2. CASE Work(s)
    BY <2>2 DEF Work, Over, OneStays, FieldsOK, taskKept
  <2>3. CASE Complete(s)
    BY <2>3 DEF Complete, Over, OneStays, FieldsOK, taskKept
  <2>4. CASE MakeDirectory(s)
    BY <2>4 DEF MakeDirectory, Goes, OneStays, FieldsOK, taskKept
  <2>5. CASE StartTool(s)
    BY <2>5 DEF StartTool, Goes, Over, OneStays, FieldsOK, taskKept
  <2>6. CASE HandOver(s)
    BY <2>6 DEF HandOver, OneStays, FieldsOK, taskKept
  <2>7. CASE LookAtFlag(s)
    BY <2>7 DEF LookAtFlag, Goes, OneStays, FieldsOK, taskKept
  <2>8. CASE AwaitTool(s)
    BY <2>8 DEF AwaitTool, Goes, OneStays, FieldsOK, taskKept
  <2>9. CASE JudgeTool(s)
    BY <2>9 DEF JudgeTool, Goes, OneStays, FieldsOK, taskKept
  <2>10. CASE Settle(s)
    BY <2>10, SettledIs DEF OneStays, FieldsOK, taskKept
  <2>11. QED
    BY <1>3, <2>1, <2>2, <2>3, <2>4, <2>5, <2>6, <2>7, <2>8, <2>9, <2>10 DEF TransferStep
<1>4. QED
  BY <1>1, <1>2, <1>3

\* A step of a transfer keeps what holds of it.
LEMMA OwnStep ==
    ASSUME FieldsOK, Judged, NEW t \in TransfersAll, OneOK(t),
           RunTransfer(t) \/ TransferStep(t) \/ ToolEnds(t)
    PROVE  OneOK(t)'
<1>a. /\ Portions \in Nat
      /\ \A u \in TransfersAll : u \in Cooperative => u \notin Backups
      /\ \A u \in TransfersAll : u \in Exports => u \notin Imports
      /\ \A u \in TransfersAll : u \in Cooperative <=> u \in Exports \/ u \in Imports
  BY TransfersAssumption DEF Cooperative, TransfersAll
<1>1. CASE RunTransfer(t)
  BY <1>a, <1>1 DEF RunTransfer, MayRun, OneOK, Doomed, FieldsOK, queryVars
<1>2. CASE ToolEnds(t)
  BY <1>a, <1>2 DEF ToolEnds, OneOK, Doomed, FieldsOK, taskKept
<1>3. CASE TransferStep(t)
  <2>1. CASE BeginTransfer(t)
    BY <1>a, <2>1 DEF BeginTransfer, Over, OneOK, Doomed, FieldsOK, taskKept
  <2>2. CASE Work(t)
    BY <1>a, <2>2 DEF Work, Over, OneOK, Doomed, FieldsOK, taskKept
  <2>3. CASE Complete(t)
    BY <1>a, <2>3 DEF Complete, Over, OneOK, Doomed, FieldsOK, taskKept
  <2>4. CASE MakeDirectory(t)
    BY <1>a, <2>4 DEF MakeDirectory, Goes, OneOK, Doomed, FieldsOK, taskKept
  <2>5. CASE StartTool(t)
    BY <1>a, <2>5 DEF StartTool, Goes, Over, OneOK, Doomed, FieldsOK, taskKept
  <2>6. CASE HandOver(t)
    BY <1>a, <2>6 DEF HandOver, OneOK, Doomed, FieldsOK, taskKept
  <2>7. CASE LookAtFlag(t)
    BY <1>a, <2>7 DEF LookAtFlag, Goes, OneOK, Doomed, FieldsOK, taskKept
  <2>8. CASE AwaitTool(t)
    BY <1>a, <2>8 DEF AwaitTool, Goes, OneOK, Doomed, FieldsOK, taskKept
  <2>9. CASE JudgeTool(t)
    BY <1>a, <2>9 DEF JudgeTool, Goes, OneOK, Doomed, FieldsOK, taskKept
  <2>10. CASE Settle(t)
    BY <1>a, <2>10, SettledIs DEF OneOK, Doomed, FieldsOK, taskKept
  <2>11. QED
    BY <1>3, <2>1, <2>2, <2>3, <2>4, <2>5, <2>6, <2>7, <2>8, <2>9, <2>10 DEF TransferStep
<1>4. QED
  BY <1>1, <1>2, <1>3

\* What a stop finds says whether the transfer will still look.
LEMMA Looks ==
    ASSUME NEW t \in TransfersAll, NEW found, WillLook(t, found)
    PROVE  \/ found = "flag" /\ t \in Exports /\ task[t] = "working" /\ portion[t] < Portions
           \/ found = "flag" /\ t \in Imports /\ task[t] = "working"
           \/ found = "flag" /\ task[t] \in {"dir", "starting", "spawned", "handed"}
           \/ found = "handle" /\ task[t] \in {"handed", "waiting", "ended"}
<1>1. CASE found = "flag" /\ t \in Exports
  <2>1. t \notin Imports /\ t \in Cooperative
    BY <1>1, TransfersAssumption DEF Cooperative
  <2>2. QED
    BY <1>1, <2>1, Zenon DEF WillLook
<1>2. CASE found = "flag" /\ t \in Imports
  <2>1. t \notin Exports /\ t \in Cooperative
    BY <1>2, TransfersAssumption DEF Cooperative
  <2>2. QED
    BY <1>2, <2>1, Zenon DEF WillLook
<1>3. CASE found = "flag" /\ t \notin Cooperative
  <2>1. t \notin Exports /\ t \notin Imports
    BY <1>3 DEF Cooperative
  <2>2. QED
    BY <1>3, <2>1, Zenon DEF WillLook
<1>4. CASE found = "handle"
  BY <1>4, Zenon DEF WillLook
<1>5. CASE found # "flag" /\ found # "handle"
  BY <1>5, Zenon DEF WillLook
<1>6. QED
  BY <1>1, <1>2, <1>3, <1>4, <1>5 DEF Cooperative

LEMMA StopKeeps ==
    ASSUME FieldsOK, Asking, EachOK, StopActs, NEW t \in TransfersAll
    PROVE  OneOK(t)'
<1> DEFINE s == stopUnderWay.transfer
<1>1. /\ s \in TransfersAll /\ UNCHANGED taskVars
      /\ cancelFlag' = IF stopUnderWay.found = "flag" THEN [cancelFlag EXCEPT ![s] = TRUE] ELSE cancelFlag
      /\ told' = IF stopUnderWay.found = "handle" THEN [told EXCEPT ![s] = TRUE] ELSE told
      /\ heeded' = IF WillLook(s, stopUnderWay.found) THEN heeded \cup {s} ELSE heeded
  BY DEF StopActs, LoopIdle, Asking
<1> HIDE DEF s
<1>2. OneOK(t)
  BY DEF EachOK
<1>3. CASE t # s \/ ~WillLook(s, stopUnderWay.found)
  BY <1>1, <1>2, <1>3 DEF OneOK, Doomed, FieldsOK, taskVars
<1>4. CASE t = s /\ WillLook(s, stopUnderWay.found)
  <2>1. Doomed(t)'
    BY <1>1, <1>4, Looks DEF Doomed, FieldsOK, taskVars
  <2>2. QED
    BY <1>1, <1>2, <2>1 DEF OneOK, taskVars
<1>5. QED
  BY <1>3, <1>4

LEMMA EachStep ==
    ASSUME FieldsOK, Asking, EachOK, [TransfersNext]_transferVars
    PROVE  EachOK'
<1> SUFFICES ASSUME NEW t \in TransfersAll PROVE OneOK(t)'
  BY DEF EachOK
<1>0. OneOK(t) /\ Judged
  BY EachSettles DEF EachOK
<1>1. CASE OpenTransfer \/ CloseTransfer \/ StopTransfer \/ QueryBegins \/ QueryEnds
  <2>1. OneStays(t)
    BY <1>1 DEF OpenTransfer, CloseTransfer, StopTransfer, QueryBegins, QueryEnds, OneStays,
                dialogVars, queryVars, taskVars
  <2>2. QED
    BY <1>0, <2>1, StaysOK
<1>2. CASE HearTransfer
  BY <1>0, <1>2, Heard, StaysOK DEF OneStays, taskVars
<1>3. CASE StopActs
  BY <1>3, StopKeeps
<1>4. ASSUME NEW s \in TransfersAll, RunTransfer(s) \/ TransferStep(s) \/ ToolEnds(s)
      PROVE  OneOK(t)'
  <2>1. CASE s = t
    BY <1>0, <1>4, <2>1, OwnStep
  <2>2. CASE s # t
    BY <1>0, <1>4, <2>2, OthersStay, StaysOK
  <2>3. QED
    BY <2>1, <2>2
<1>5. CASE UNCHANGED transferVars
  BY <1>0, <1>5, StaysOK DEF OneStays, transferVars, queryVars, taskVars
<1>6. QED
  BY <1>1, <1>2, <1>3, <1>4, <1>5 DEF TransfersNext

-----------------------------------------------------------------------------
(* The answers. *)

Answered(a) == answers' = Append(answers, a)

LEMMA Sent ==
    ASSUME NEW t \in TransfersAll, NEW how \in {"finished", "failed", "cancelled"}, Sends(how, t)
    PROVE  /\ [kind |-> how, transfer |-> t] \in Replies
           /\ Answered([kind |-> how, transfer |-> t])
BY DEF Sends, Replies, Kinds, Answered

\* Who is stopped: each mark of it, and the answer of a cancel, is of one that was.
WasTold(t) == cancelFlag[t] \/ told[t] \/ status[t] = "killed" \/ verdict[t] = "cancelled"

\* A step of a transfer sends at most one answer, of its own, and does so when it ends, but for
\* the one that ends without a word; and only one that was stopped says it was.
LEMMA StepAnswers ==
    ASSUME FieldsOK, EachOK, NEW t \in TransfersAll, RunTransfer(t) \/ TransferStep(t) \/ ToolEnds(t)
    PROVE  \/ answers' = answers /\ (task'[t] = "over" => task[t] = "over" \/ t \in silent')
           \/ \E how \in {"finished", "failed", "cancelled"} :
                Sends(how, t) /\ (how = "cancelled" => WasTold(t))
<1>j. Judged
  BY EachSettles
<1>1. CASE RunTransfer(t)
  BY <1>1 DEF RunTransfer, FieldsOK
<1>2. CASE ToolEnds(t)
  BY <1>2 DEF ToolEnds
<1>3. CASE TransferStep(t)
  <2>1. CASE BeginTransfer(t)
    BY <2>1 DEF BeginTransfer, Over, FieldsOK
  <2>2. CASE Work(t)
    BY <2>2 DEF Work, Over, WasTold
  <2>3. CASE Complete(t)
    BY <2>3 DEF Complete, Over, WasTold
  <2>4. CASE MakeDirectory(t)
    BY <2>4 DEF MakeDirectory, Goes, FieldsOK
  <2>5. CASE StartTool(t)
    BY <2>5 DEF StartTool, Goes, Over, FieldsOK
  <2>6. CASE HandOver(t)
    BY <2>6 DEF HandOver, FieldsOK
  <2>7. CASE LookAtFlag(t)
    BY <2>7 DEF LookAtFlag, Goes, FieldsOK
  <2>8. CASE AwaitTool(t)
    BY <2>8 DEF AwaitTool, Goes, FieldsOK
  <2>9. CASE JudgeTool(t)
    BY <2>9 DEF JudgeTool, Goes, FieldsOK
  <2>10. CASE Settle(t)
    BY <1>j, <2>10, SettledIs DEF WasTold
  <2>11. QED
    BY <1>3, <2>1, <2>2, <2>3, <2>4, <2>5, <2>6, <2>7, <2>8, <2>9, <2>10 DEF TransferStep
<1>4. QED
  BY <1>1, <1>2, <1>3

LEMMA AnswersStep ==
    ASSUME FieldsOK, Asking, EachOK, answers \in Seq(Replies), [TransfersNext]_transferVars
    PROVE  answers' \in Seq(Replies)
<1>1. CASE OpenTransfer \/ CloseTransfer \/ StopTransfer \/ QueryBegins
  BY <1>1 DEF OpenTransfer, CloseTransfer, StopTransfer, QueryBegins
<1>2. CASE HearTransfer
  BY <1>2, Heard, HeadTailProperties
<1>3. CASE StopActs
  <2>1. stopUnderWay.transfer \in TransfersAll /\ Sends("cancelled", stopUnderWay.transfer)
    BY <1>3 DEF StopActs, LoopIdle, Asking
  <2>2. \E a \in Replies : answers' = Append(answers, a)
    BY <2>1, Sent, Zenon DEF Answered
  <2>3. QED
    BY <2>2, AppendProperties
<1>4. CASE QueryEnds
  <2>1. [kind |-> "query", transfer |-> NoTransfer] \in Replies
    BY DEF Replies, Kinds
  <2>2. QED
    BY <1>4, <2>1, AppendProperties DEF QueryEnds, Sends
<1>5. ASSUME NEW t \in TransfersAll, RunTransfer(t) \/ TransferStep(t) \/ ToolEnds(t)
      PROVE  answers' \in Seq(Replies)
  <2>1. CASE answers' = answers
    BY <2>1
  <2>2. ASSUME NEW how \in {"finished", "failed", "cancelled"}, Sends(how, t)
        PROVE  \E a \in Replies : answers' = Append(answers, a)
    BY <2>2, Sent, Zenon DEF Answered
  <2>3. QED
    BY <1>5, <2>1, <2>2, StepAnswers, AppendProperties
<1>6. CASE UNCHANGED transferVars
  BY <1>6 DEF transferVars
<1>7. QED
  BY <1>1, <1>2, <1>3, <1>4, <1>5, <1>6 DEF TransfersNext

-----------------------------------------------------------------------------
(* The types, and what a stop and an end say of a transfer. *)

Typed ==
    /\ FieldsOK /\ Asking /\ Shows
    /\ answers \in Seq(Replies)
    /\ EachOK

LEMMA TypedAlways == TransfersSpec => []Typed
<1>1. TransfersInit => Typed
  <2>1. TransfersInit => answers \in Seq(Replies)
    BY EmptySeq DEF TransfersInit
  <2>2. QED
    BY <2>1, FieldsInit, EachInit DEF Typed
<1>2. Typed /\ [TransfersNext]_transferVars => Typed'
  BY EachSettles, FieldsStep, AnswersStep, EachStep DEF Typed
<1>3. QED
  BY <1>1, <1>2, PTL DEF TransfersSpec

\* The workbench keeps its transfers, their dialog and what it is told of them in their types,
\* whatever the order in which tasks, tools and stops take their turns (transfer_manager.rs).
THEOREM TransfersTyped == TransfersSpec => []TransfersTypeOK
<1>1. Replies \subseteq [kind : Kinds, transfer : TransfersAll \cup {NoTransfer}]
  BY DEF Replies
<1>2. Typed => answers \in Seq([kind : Kinds, transfer : TransfersAll \cup {NoTransfer}])
  BY <1>1, SeqMonotonic DEF Typed
<1>3. Typed => TransfersTypeOK
  BY <1>2 DEF Typed, FieldsOK, TransfersTypeOK, Found, Ask, Stages
<1>4. QED
  BY <1>3, TypedAlways, PTL

\* A transfer stopped before its last look does not finish, one that did not finish leaves no
\* file, and the tool of one that is over does not run: for any transfers, of any length.
THEOREM StopsHeeded == TransfersSpec => []StopIsHeeded
<1>1. Typed => StopIsHeeded
  <2> SUFFICES ASSUME Typed, NEW t \in TransfersAll
               PROVE  /\ t \in heeded => verdict[t] # "finished"
                      /\ verdict[t] \notin {"none", "finished"} =>
                            ~written[t] /\ (partial[t] => t \in misplaced)
                      /\ verdict[t] # "none" => tool[t] # "runs"
    BY DEF StopIsHeeded
  <2>1. OneOK(t)
    BY DEF Typed, EachOK
  <2>2. t \in heeded => verdict[t] # "finished"
    BY <2>1 DEF OneOK, Doomed
  <2>3. QED
    BY <2>1, <2>2 DEF OneOK
<1>2. QED
  BY <1>1, TypedAlways, PTL

-----------------------------------------------------------------------------
(* Who asked, and who is answered. *)

LEMMA AppendAt ==
    ASSUME NEW S, NEW s \in Seq(S), NEW a \in S
    PROVE  /\ \A i \in 1..Len(s) : i \in 1..Len(Append(s, a)) /\ Append(s, a)[i] = s[i]
           /\ Len(s) + 1 \in 1..Len(Append(s, a)) /\ Append(s, a)[Len(s) + 1] = a
           /\ \A i \in 1..Len(Append(s, a)) : i \in 1..Len(s) \/ i = Len(s) + 1
BY AppendProperties, LenProperties

LEMMA TailAt ==
    ASSUME NEW S, NEW s \in Seq(S), s # <<>>
    PROVE  /\ \A i \in 1..Len(Tail(s)) : i + 1 \in 1..Len(s) /\ Tail(s)[i] = s[i + 1]
           /\ \A i \in 1..Len(s) : i = 1 \/ (i - 1 \in 1..Len(Tail(s)) /\ Tail(s)[i - 1] = s[i])
           /\ 1 \in 1..Len(s) /\ s[1] = Head(s)
BY HeadTailProperties, LenProperties, EmptySeq

\* Only those that were stopped, and whose stop found them, are marked; a dialog that waits
\* shows another.
MarksOK == \A t \in TransfersAll : WasTold(t) => t \in halted \ cancelledFor
BegunOK == \A t \in halted : task[t] # "idle"
DialogOK == awaiting => shown \notin halted /\ task[shown] # "idle"

\* A stop acts once for each.
StopOK ==
    /\ stopUnderWay # NotStopping =>
          /\ stopUnderWay.transfer \in halted
          /\ stopUnderWay.transfer \notin cancelledFor
          /\ ~WasTold(stopUnderWay.transfer)
    /\ cancelledFor \subseteq halted

\* The answer of a cancel is of one that was stopped.
WordsOK ==
    /\ \A i \in 1..Len(answers) : answers[i].kind = "cancelled" => answers[i].transfer \in halted
    /\ forgotten \subseteq halted

\* A dialog that waits has an answer coming.
AnswerIsDue ==
    awaiting =>
        \/ task[shown] # "over"
        \/ shown \in silent
        \/ \E i \in 1..Len(answers) : answers[i].transfer = shown

AskOK == MarksOK /\ BegunOK /\ DialogOK /\ StopOK /\ WordsOK /\ AnswerIsDue

LEMMA AskInit == TransfersInit => AskOK
BY EmptySeq DEF TransfersInit, AskOK, MarksOK, BegunOK, DialogOK, StopOK, WordsOK, AnswerIsDue, WasTold,
                NotStopping

\* A step of a transfer keeps the marks to those that were stopped, and none is begun again.
LEMMA MarksStep ==
    ASSUME Typed, MarksOK, NEW s \in TransfersAll, RunTransfer(s) \/ TransferStep(s) \/ ToolEnds(s)
    PROVE  /\ MarksOK'
           /\ \A t \in TransfersAll : WasTold(t)' => WasTold(t)
           /\ \A t \in TransfersAll : task'[t] = "idle" => task[t] = "idle"
           /\ UNCHANGED <<stopUnderWay, halted, heeded, cancelledFor, forgotten>>
           /\ RunTransfer(s) \/ (UNCHANGED <<awaiting, shown>> /\ silent \subseteq silent')
<1>f. FieldsOK /\ EachOK /\ Judged
  BY EachSettles DEF Typed
<1>1. \A t \in TransfersAll : t # s => OneStays(t)
  BY <1>f, OthersStay
<1>2. (WasTold(s)' => WasTold(s)) /\ (task'[s] = "idle" => task[s] = "idle")
  <2>1. CASE RunTransfer(s)
    BY <1>f, <2>1 DEF RunTransfer, WasTold, FieldsOK
  <2>2. CASE ToolEnds(s)
    BY <1>f, <2>2 DEF ToolEnds, WasTold, FieldsOK, taskKept
  <2>3. CASE BeginTransfer(s) \/ MakeDirectory(s) \/ StartTool(s) \/ HandOver(s)
    BY <1>f, <2>3 DEF BeginTransfer, MakeDirectory, StartTool, HandOver, Over, Goes, WasTold, FieldsOK, taskKept
  <2>4. CASE Work(s) \/ Complete(s)
    BY <1>f, <2>4 DEF Work, Complete, Over, WasTold, FieldsOK, taskKept
  <2>5. CASE LookAtFlag(s) \/ AwaitTool(s) \/ JudgeTool(s)
    BY <1>f, <2>5 DEF LookAtFlag, AwaitTool, JudgeTool, Goes, WasTold, FieldsOK, taskKept
  <2>6. CASE Settle(s)
    BY <1>f, <2>6, SettledIs DEF WasTold, FieldsOK, taskKept
  <2>7. QED
    BY <2>1, <2>2, <2>3, <2>4, <2>5, <2>6 DEF TransferStep
<1>3. /\ UNCHANGED <<stopUnderWay, halted, heeded, cancelledFor, forgotten>>
      /\ RunTransfer(s) \/ (UNCHANGED <<awaiting, shown>> /\ silent \subseteq silent')
  <2>1. CASE RunTransfer(s)
    BY <2>1 DEF RunTransfer, queryVars
  <2>2. CASE ToolEnds(s)
    BY <2>2 DEF ToolEnds, taskKept, dialogVars, queryVars
  <2>3. CASE BeginTransfer(s) \/ Work(s) \/ Complete(s) \/ MakeDirectory(s) \/ StartTool(s)
    BY <2>3 DEF BeginTransfer, Work, Complete, MakeDirectory, StartTool, taskKept, dialogVars, queryVars
  <2>4. CASE HandOver(s) \/ LookAtFlag(s) \/ AwaitTool(s) \/ JudgeTool(s)
    BY <2>4 DEF HandOver, LookAtFlag, AwaitTool, JudgeTool, taskKept, dialogVars, queryVars
  <2>5. CASE Settle(s)
    BY <1>f, <2>5, SettledIs DEF taskKept, dialogVars, queryVars
  <2>6. QED
    BY <2>1, <2>2, <2>3, <2>4, <2>5 DEF TransferStep
<1>4. \A t \in TransfersAll : WasTold(t)' => WasTold(t)
  BY <1>1, <1>2 DEF WasTold, OneStays
<1>5. MarksOK'
  BY <1>3, <1>4 DEF MarksOK
<1>6. QED
  BY <1>1, <1>2, <1>3, <1>4, <1>5 DEF OneStays

\* What is in the queue stays there, and what a step adds to it is at its end.
LEMMA WordsGrow ==
    ASSUME answers \in Seq(Replies), WordsOK, NEW a \in Replies, answers' = Append(answers, a),
           halted \subseteq halted', forgotten' \subseteq forgotten,
           a.kind = "cancelled" => a.transfer \in halted'
    PROVE  /\ WordsOK'
           /\ \A i \in 1..Len(answers) : i \in 1..Len(answers') /\ answers'[i] = answers[i]
           /\ \E i \in 1..Len(answers') : answers'[i].transfer = a.transfer
BY AppendAt DEF WordsOK

LEMMA AskStepOfTransfer ==
    ASSUME Typed, AskOK, NEW s \in TransfersAll, RunTransfer(s) \/ TransferStep(s) \/ ToolEnds(s)
    PROVE  AskOK'
<1>f. /\ FieldsOK /\ EachOK /\ answers \in Seq(Replies) /\ Shows
      /\ stopUnderWay # NotStopping => stopUnderWay.transfer \in TransfersAll
  BY DEF Typed, Asking
<1>h. halted \subseteq TransfersAll
  BY <1>f DEF FieldsOK
<1>m. /\ MarksOK'
      /\ \A t \in TransfersAll : WasTold(t)' => WasTold(t)
      /\ \A t \in TransfersAll : task'[t] = "idle" => task[t] = "idle"
      /\ UNCHANGED <<stopUnderWay, halted, heeded, cancelledFor, forgotten>>
      /\ RunTransfer(s) \/ (UNCHANGED <<awaiting, shown>> /\ silent \subseteq silent')
  BY MarksStep DEF AskOK
<1>1. BegunOK' /\ StopOK'
  BY <1>f, <1>m, <1>h DEF AskOK, BegunOK, StopOK
<1>2. DialogOK'
  <2>1. CASE RunTransfer(s)
    <3>1. s \notin halted /\ shown' = s /\ task'[s] # "idle"
      BY <2>1, <1>f DEF AskOK, BegunOK, RunTransfer, MayRun, FieldsOK
    <3>2. QED
      BY <3>1, <1>m DEF DialogOK
  <2>2. CASE UNCHANGED <<awaiting, shown>>
    BY <2>2, <1>f, <1>m DEF AskOK, DialogOK, Shows
  <2>3. QED
    BY <2>1, <2>2, <1>m
<1>3. CASE answers' = answers /\ (task'[s] = "over" => task[s] = "over" \/ s \in silent')
  <2>1. WordsOK'
    BY <1>3, <1>m DEF AskOK, WordsOK
  <2>2. AnswerIsDue'
    <3>1. CASE RunTransfer(s)
      BY <3>1, <1>3, <1>f DEF RunTransfer, MayRun, AnswerIsDue, FieldsOK
    <3>2. CASE UNCHANGED <<awaiting, shown>> /\ silent \subseteq silent'
      <4>1. \A t \in TransfersAll : t # s => task'[t] = task[t]
        BY OthersStay, EachSettles, <1>f DEF OneStays
      <4>2. QED
        BY <3>2, <4>1, <1>3, <1>f DEF AskOK, AnswerIsDue, Shows
    <3>3. QED
      BY <3>1, <3>2, <1>m
  <2>3. QED
    BY <1>1, <1>2, <1>m, <2>1, <2>2 DEF AskOK
<1>4. ASSUME NEW how \in {"finished", "failed", "cancelled"}, Sends(how, s),
             how = "cancelled" => WasTold(s)
      PROVE  AskOK'
  <2> DEFINE a == [kind |-> how, transfer |-> s]
  <2>1. a \in Replies /\ answers' = Append(answers, a)
    BY <1>4, Sent DEF Answered
  <2>2. a.kind = how /\ a.transfer = s
    OBVIOUS
  <2>3. how = "cancelled" => s \in halted'
    BY <1>4, <1>m DEF AskOK, MarksOK
  <2> HIDE DEF a
  <2>4. /\ WordsOK'
        /\ \A i \in 1..Len(answers) : i \in 1..Len(answers') /\ answers'[i] = answers[i]
        /\ \E i \in 1..Len(answers') : answers'[i].transfer = s
    BY <1>f, <1>m, <2>1, <2>2, <2>3, WordsGrow DEF AskOK
  <2>5. AnswerIsDue'
    <3>1. CASE RunTransfer(s)
      BY <3>1, <2>4 DEF RunTransfer, AnswerIsDue
    <3>2. CASE UNCHANGED <<awaiting, shown>> /\ silent \subseteq silent'
      <4>1. \A t \in TransfersAll : t # s => task'[t] = task[t]
        BY OthersStay, EachSettles, <1>f DEF OneStays
      <4>2. QED
        BY <3>2, <4>1, <2>4, <1>f DEF AskOK, AnswerIsDue, Shows
    <3>3. QED
      BY <3>1, <3>2, <1>m
  <2>6. QED
    BY <1>1, <1>2, <1>m, <2>4, <2>5 DEF AskOK
<1>5. QED
  BY <1>3, <1>4, <1>f, StepAnswers

LEMMA AskStopActs ==
    ASSUME Typed, AskOK, StopActs
    PROVE  AskOK'
<1> DEFINE s == stopUnderWay.transfer
           a == [kind |-> "cancelled", transfer |-> s]
<1>f. FieldsOK /\ EachOK /\ answers \in Seq(Replies) /\ s \in TransfersAll
  BY DEF Typed, StopActs, LoopIdle, Asking
<1>1. /\ cancelFlag' = IF stopUnderWay.found = "flag" THEN [cancelFlag EXCEPT ![s] = TRUE] ELSE cancelFlag
      /\ told' = IF stopUnderWay.found = "handle" THEN [told EXCEPT ![s] = TRUE] ELSE told
      /\ cancelledFor' \in {cancelledFor, cancelledFor \cup {s}}
      /\ cancelledFor' # cancelledFor => stopUnderWay.found = "nothing"
      /\ Sends("cancelled", s) /\ stopUnderWay' = NotStopping
      /\ UNCHANGED <<awaiting, shown, forgotten, task, status, verdict, silent, halted>>
  BY DEF StopActs, dialogVars, taskVars
<1>2. s \in halted /\ s \notin cancelledFor /\ ~WasTold(s)
  BY DEF AskOK, StopOK, StopActs, LoopIdle
<1>3. a \in Replies /\ answers' = Append(answers, a) /\ a.kind = "cancelled" /\ a.transfer = s
  BY <1>f, <1>1, Sent DEF Answered
<1> HIDE DEF s, a
<1>4. MarksOK' /\ BegunOK' /\ DialogOK'
  <2>1. \A t \in TransfersAll \ {s} : WasTold(t)' => WasTold(t)
    BY <1>f, <1>1 DEF WasTold, FieldsOK
  <2>2. \A t \in TransfersAll : t = s /\ cancelledFor' # cancelledFor => ~WasTold(t)'
    BY <1>1, <1>2 DEF WasTold
  <2>3. MarksOK'
    <3> SUFFICES ASSUME NEW t \in TransfersAll, WasTold(t)'
                 PROVE  t \in halted' \ cancelledFor'
      BY DEF MarksOK
    <3>1. CASE t = s
      BY <3>1, <1>1, <1>2, <2>2
    <3>2. CASE t # s
      BY <3>2, <1>1, <2>1 DEF AskOK, MarksOK
    <3>3. QED
      BY <3>1, <3>2
  <2>4. QED
    BY <1>1, <2>3 DEF AskOK, BegunOK, DialogOK
<1>5. StopOK'
  BY <1>1, <1>2 DEF AskOK, StopOK
<1>6. /\ WordsOK'
      /\ \A i \in 1..Len(answers) : i \in 1..Len(answers') /\ answers'[i] = answers[i]
  BY <1>f, <1>1, <1>2, <1>3, WordsGrow DEF AskOK
<1>7. AnswerIsDue'
  BY <1>1, <1>6 DEF AskOK, AnswerIsDue
<1>8. QED
  BY <1>4, <1>5, <1>6, <1>7 DEF AskOK

LEMMA AskHears ==
    ASSUME Typed, AskOK, HearTransfer
    PROVE  AskOK'
<1>f. answers \in Seq(Replies) /\ Shows
  BY DEF Typed
<1>1. Head(answers) \in Replies
  BY <1>f, Heard, HeadTailProperties
<1>2. MarksOK' /\ BegunOK' /\ StopOK'
  BY Heard DEF AskOK, MarksOK, BegunOK, StopOK, WasTold, taskVars
<1>3. DialogOK'
  <2> SUFFICES ASSUME awaiting' PROVE DialogOK'
    BY DEF DialogOK
  <2>1. awaiting /\ shown' = shown /\ task' = task /\ halted' = halted
    BY Heard DEF taskVars
  <2>2. QED
    BY <2>1 DEF AskOK, DialogOK
<1>4. WordsOK'
  <2>1. Head(answers).kind = "cancelled" => Head(answers).transfer \in halted
    BY <1>f, Heard, TailAt DEF AskOK, WordsOK
  <2>2. forgotten' \subseteq halted
    BY <2>1, Heard DEF AskOK, WordsOK
  <2>3. QED
    BY <1>f, <2>2, Heard, TailAt DEF AskOK, WordsOK
<1>5. AnswerIsDue'
  <2> SUFFICES ASSUME awaiting' PROVE AnswerIsDue'
    BY DEF AnswerIsDue
  <2>1. /\ awaiting /\ shown' = shown /\ task' = task /\ silent' = silent
        /\ Head(answers).kind = "query" \/ shown # Head(answers).transfer
    BY Heard DEF taskVars
  <2>2. shown \in TransfersAll
    BY <2>1, <1>f DEF Shows
  <2>3. Head(answers).transfer # shown
    BY <1>1, <2>1, <2>2, TransfersAssumption DEF Replies
  <2>4. (\E i \in 1..Len(answers) : answers[i].transfer = shown)
           => \E i \in 1..Len(answers') : answers'[i].transfer = shown
    <3> SUFFICES ASSUME NEW i \in 1..Len(answers), answers[i].transfer = shown
                 PROVE  \E j \in 1..Len(answers') : answers'[j].transfer = shown
      OBVIOUS
    <3>1. i # 1
      BY <1>f, <2>3, Heard, TailAt
    <3>2. i - 1 \in 1..Len(Tail(answers)) /\ Tail(answers)[i - 1] = answers[i]
      BY <1>f, <3>1, Heard, TailAt
    <3>3. QED
      BY <3>2, Heard
  <2>5. QED
    BY <2>1, <2>4 DEF AskOK, AnswerIsDue
<1>6. QED
  BY <1>2, <1>3, <1>4, <1>5 DEF AskOK

LEMMA AskStep ==
    ASSUME Typed, AskOK, [TransfersNext]_transferVars
    PROVE  AskOK'
<1>f. FieldsOK /\ Shows /\ answers \in Seq(Replies)
  BY DEF Typed
<1>1. CASE OpenTransfer \/ CloseTransfer
  BY <1>1 DEF OpenTransfer, CloseTransfer, AskOK, MarksOK, BegunOK, DialogOK, StopOK, WordsOK,
              AnswerIsDue, WasTold, queryVars, taskVars
<1>2. CASE StopTransfer
  <2>1. /\ shown \in TransfersAll /\ shown \notin halted /\ task[shown] # "idle"
        /\ stopUnderWay' = [transfer |-> shown, found |-> inMap[shown]]
        /\ halted' = halted \cup {shown} /\ awaiting' = FALSE
        /\ UNCHANGED <<answers, queryVars, taskVars, cancelFlag, told, heeded>>
    BY <1>f, <1>2 DEF StopTransfer, AskOK, DialogOK, Shows
  <2>2. MarksOK' /\ BegunOK' /\ DialogOK' /\ WordsOK' /\ AnswerIsDue'
    BY <2>1 DEF AskOK, MarksOK, BegunOK, DialogOK, WordsOK, AnswerIsDue, WasTold, queryVars, taskVars
  <2>3. StopOK'
    BY <2>1 DEF AskOK, MarksOK, StopOK, WasTold, queryVars, taskVars
  <2>4. QED
    BY <2>2, <2>3 DEF AskOK
<1>3. CASE QueryBegins
  BY <1>3 DEF QueryBegins, AskOK, MarksOK, BegunOK, DialogOK, StopOK, WordsOK, AnswerIsDue, WasTold,
              dialogVars, taskVars
<1>4. CASE QueryEnds
  <2> DEFINE a == [kind |-> "query", transfer |-> NoTransfer]
  <2>1. a \in Replies /\ a.kind = "query"
    BY DEF Replies, Kinds
  <2>2. answers' = Append(answers, a)
    BY <1>4 DEF QueryEnds, Sends
  <2>3. UNCHANGED <<dialogVars, stopUnderWay, forgotten, cancelledFor, taskVars, cancelFlag, told,
                    halted, heeded>>
    BY <1>4 DEF QueryEnds
  <2> HIDE DEF a
  <2>4. /\ WordsOK'
        /\ \A i \in 1..Len(answers) : i \in 1..Len(answers') /\ answers'[i] = answers[i]
    BY <1>f, <2>1, <2>2, <2>3, WordsGrow DEF AskOK
  <2>5. QED
    BY <2>3, <2>4 DEF AskOK, MarksOK, BegunOK, DialogOK, StopOK, AnswerIsDue, WasTold, dialogVars, taskVars
<1>5. CASE UNCHANGED transferVars
  BY <1>5 DEF AskOK, MarksOK, BegunOK, DialogOK, StopOK, WordsOK, AnswerIsDue, WasTold,
              transferVars, dialogVars, queryVars, taskVars
<1>6. QED
  BY <1>1, <1>2, <1>3, <1>4, <1>5, AskStepOfTransfer, AskStopActs, AskHears DEF TransfersNext

\* A dialog that waits has an answer coming, but for a tool that had no directory; one stop ends
\* one thing, the transfer or the query beside; and the screen forgets a query for no transfer
\* that was not stopped.
THEOREM AskersAnswered == TransfersSpec => []AnswersReachTheirAsker
<1>1. Typed /\ AskOK /\ [TransfersNext]_transferVars => AskOK'
  BY AskStep
<1>2. Typed /\ AskOK => AnswersReachTheirAsker
  <2>1. Typed => cancelledFor \subseteq TransfersAll
    BY DEF Typed, FieldsOK
  <2>2. QED
    BY <2>1 DEF AskOK, MarksOK, AnswerIsDue, WordsOK, WasTold, AnswersReachTheirAsker
<1>3. QED
  BY <1>1, <1>2, AskInit, TypedAlways, PTL DEF TransfersSpec

-----------------------------------------------------------------------------
(***************************************************************************)
(* The way of an import through its file.                                  *)
(***************************************************************************)

\* What a report holds.
Counts == [committed : Nat, skipped : Nat, rejected : SUBSET Rows]

\* p tells of the rows after a and up to b, of which those of T are in the table.
Accounts(p, T, a, b) ==
    /\ p \in Counts
    /\ p.committed = Cardinality(T \cap (a + 1)..b)
    /\ p.rejected \subseteq (a + 1)..b
    /\ p.rejected \cap T = {}
    /\ p.committed + p.skipped + Cardinality(p.rejected) = b - a

Least(m, n) == IF m < n THEN m ELSE n

\* The rows before the present batch, and those up to its end.
Before == (batch - 1) * BatchRows
Through == Least(batch * BatchRows, FileRows)

\* What was sent and not yet taken, in the order it was sent.
HasError == channel # <<>> /\ channel[Len(channel)] = "error"
HasColumns == channel # <<>> /\ channel[1] = "columns"

ChannelInv ==
    /\ channel \in Seq({"columns", "rows", "error"}) /\ Len(channel) <= ReadAhead
    /\ read \in -1..BatchCount /\ batch \in Nat
    /\ reading \in BOOLEAN
    /\ \A i \in 1..Len(channel) :
          /\ channel[i] = "columns" => i = 1 /\ batch = 0
          /\ channel[i] = "error" => i = Len(channel)
    /\ HasError => ~reading
    /\ read = -1 => batch = 0 /\ Len(channel) = (IF HasError THEN 1 ELSE 0) /\ ~HasColumns
    /\ read >= 0 => Len(channel) = (read - batch) + (IF HasError THEN 1 ELSE 0)
                                                  + (IF HasColumns THEN 1 ELSE 0)
    /\ importing \in {"look", "wait"} => reading \/ HasError \/ read = BatchCount
    /\ importing \in {"batch", "rows"} => batch # 0 /\ (reading \/ HasError \/ read = BatchCount)

\* Before the rows that are being written, every row is accounted for; after, none is touched.
Working == importing \in {"look", "wait", "batch", "rows"}
RowsInv ==
    /\ importing \in {"look", "wait"} =>
          /\ Accounts(report, InTable, 0, Through)
          /\ \A r \in Rows : r > Through => table[r] = 0
    /\ importing \in {"batch", "rows"} =>
          /\ Accounts(report, InTable, 0, Before)
          /\ \A r \in Rows \ RowsOf(batch) : r > Before => table[r] = 0
    /\ importing = "batch" => \A r \in RowsOf(batch) : table[r] = 0
    /\ importing = "rows" =>
          /\ strategy # "stop"
          /\ row \in RowsOf(batch)
          /\ Accounts(inBatch, InTable, Before, row - 1)
          /\ \A r \in RowsOf(batch) : r >= row => table[r] = 0 \/ r \in unheard
    /\ importing \in {"look", "wait", "batch"} => inBatch = NoRows
    /\ Working => rejects = {} /\ said = NothingSaid

\* How it ended, with the first n rows accounted for.
EndedAt(n) ==
    /\ Accounts(report, InTable, 0, n)
    /\ said.end = "done" => n = FileRows
    /\ \E m \in n..FileRows : Accounts(inBatch, InTable, n, m)
    /\ said.end \in {"done", "failed"} => inBatch = NoRows /\ InTable \subseteq 1..n
    /\ IF said.end = "unwritten" THEN said.rows = 0 ELSE said.rows = report.committed

EndInv ==
    importing \in {"closing", "over"} =>
        /\ \E n \in 0..FileRows : EndedAt(n)
        /\ importing = "closing" =>
              rejects = {} /\ said.end \in {"done", "failed", "cancelled"}
        /\ importing = "over" =>
              /\ said.end # "none"
              /\ rejects = {} \/ rejects = report.rejected
              /\ strategy = "reject" /\ said.end # "unwritten" => rejects = report.rejected

ImportKinds ==
    /\ strategy \in {"stop", "skip", "reject"}
    /\ importing \in {"look", "wait", "batch", "rows", "closing", "over"}
    /\ row \in 0..FileRows
    /\ stopAsked \in BOOLEAN /\ connected \in BOOLEAN
    /\ table \in [Rows -> {0, 1}]
    /\ said \in [end : {"none", "done", "failed", "cancelled", "unwritten"}, rows : Nat]
    /\ unheard \subseteq Rows
    /\ connected => unheard = {}

-----------------------------------------------------------------------------
(* Batches. *)

\* Division, between its bounds.
LEMMA DivBounds ==
    ASSUME NEW a \in Nat, NEW b \in Nat \ {0}
    PROVE  /\ a \div b \in Nat
           /\ b * (a \div b) <= a
           /\ a < b * (a \div b) + b
OBVIOUS

\* The rows of a batch lie together.
LEMMA RowsOfBatch ==
    ASSUME NEW b \in Nat \ {0}
    PROVE  /\ (b - 1) * BatchRows \in Nat
           /\ b * BatchRows = (b - 1) * BatchRows + BatchRows
           /\ RowsOf(b) = ((b - 1) * BatchRows + 1)..Least(b * BatchRows, FileRows)
<1>1. FileRows \in Nat /\ BatchRows \in Nat \ {0}
  BY FileImportAssumption
<1>2. (b - 1) * BatchRows \in Nat /\ b * BatchRows = (b - 1) * BatchRows + BatchRows
  BY <1>1
<1>3. ASSUME NEW r \in Rows
      PROVE  r \in RowsOf(b) <=> (b - 1) * BatchRows < r /\ r <= (b - 1) * BatchRows + BatchRows
  BY <1>1, DivBounds DEF RowsOf, Rows
<1> DEFINE B == (b - 1) * BatchRows
<1> HIDE DEF B
<1>4. RowsOf(b) = (B + 1)..Least(B + BatchRows, FileRows)
  BY <1>1, <1>2, <1>3 DEF Least, Rows, RowsOf, B
<1>5. QED
  BY <1>2, <1>4 DEF B

\* The last batch reaches the end of the file, and none begins after it.
LEMMA LastBatch ==
    /\ BatchCount \in Nat
    /\ BatchCount * BatchRows >= FileRows
    /\ \A b \in 1..BatchCount : (b - 1) * BatchRows < FileRows
<1>1. FileRows \in Nat /\ BatchRows \in Nat \ {0}
  BY FileImportAssumption
<1>2. /\ BatchCount \in Nat
      /\ BatchCount * BatchRows >= FileRows
      /\ (BatchCount - 1) * BatchRows < FileRows
  BY <1>1, DivBounds DEF BatchCount
<1>3. ASSUME NEW b \in 1..BatchCount
      PROVE  (b - 1) * BatchRows <= (BatchCount - 1) * BatchRows
  BY <1>1, <1>2
<1>4. QED
  BY <1>1, <1>2, <1>3

-----------------------------------------------------------------------------
(* What a report tells of. *)

LEMMA RangeFinite ==
    ASSUME NEW a \in Nat, NEW b \in Nat, NEW S \in SUBSET (a + 1)..b
    PROVE  IsFiniteSet(S) /\ Cardinality(S) \in Nat
<1>1. IsFiniteSet((a + 1)..b)
  BY FS_Interval
<1>2. IsFiniteSet(S)
  BY <1>1, FS_Subset
<1>3. QED
  BY <1>2, FS_CardinalityType

LEMMA AccountsNone ==
    ASSUME NEW a \in Nat, NEW T
    PROVE  Accounts(NoRows, T, a, a)
<1>1. (a + 1)..a = {}
  OBVIOUS
<1>2. Cardinality({}) = 0
  BY FS_EmptySet
<1>3. NoRows \in Counts /\ NoRows.committed = 0 /\ NoRows.skipped = 0 /\ NoRows.rejected = {}
  BY DEF NoRows, Counts
<1>4. T \cap (a + 1)..a = {}
  BY <1>1
<1>5. Cardinality(T \cap (a + 1)..a) = 0 /\ Cardinality(NoRows.rejected) = 0
  BY <1>2, <1>3, <1>4
<1>6. /\ NoRows.rejected \subseteq (a + 1)..a
      /\ NoRows.rejected \cap T = {}
  BY <1>3
<1>7. QED
  BY <1>3, <1>5, <1>6 DEF Accounts

\* The rows after a up to b, and those after b up to c.
LEMMA AccountsTogether ==
    ASSUME NEW a \in Nat, NEW b \in Nat, NEW c \in Nat, a <= b, b <= c, NEW T,
           NEW p, NEW q, Accounts(p, T, a, b), Accounts(q, T, b, c)
    PROVE  Accounts([committed |-> p.committed + q.committed,
                     skipped |-> p.skipped + q.skipped,
                     rejected |-> p.rejected \cup q.rejected], T, a, c)
<1> DEFINE A == T \cap (a + 1)..b
           B == T \cap (b + 1)..c
<1>1. /\ IsFiniteSet(A) /\ IsFiniteSet(B) /\ A \cap B = {}
      /\ T \cap (a + 1)..c = A \cup B
  BY RangeFinite
<1>2. /\ IsFiniteSet(p.rejected) /\ IsFiniteSet(q.rejected) /\ p.rejected \cap q.rejected = {}
      /\ p.rejected \cup q.rejected \subseteq (a + 1)..c
  <2>1. p.rejected \subseteq (a + 1)..b /\ q.rejected \subseteq (b + 1)..c
    BY DEF Accounts
  <2>2. IsFiniteSet(p.rejected) /\ IsFiniteSet(q.rejected)
    BY <2>1, RangeFinite
  <2>3. QED
    BY <2>1, <2>2
<1>3. ASSUME NEW S, NEW U, IsFiniteSet(S), IsFiniteSet(U), S \cap U = {}
      PROVE  Cardinality(S \cup U) = Cardinality(S) + Cardinality(U)
  <2>1. Cardinality(S \cup U) = Cardinality(S) + Cardinality(U) - Cardinality(S \cap U)
    BY <1>3, FS_Union
  <2>2. Cardinality(S \cap U) = 0
    BY <1>3, FS_EmptySet
  <2>3. Cardinality(S) \in Nat /\ Cardinality(U) \in Nat
    BY <1>3, FS_CardinalityType
  <2>4. QED
    BY <2>1, <2>2, <2>3
<1>4. Cardinality(T \cap (a + 1)..c) = Cardinality(A) + Cardinality(B)
  BY <1>1, <1>3
<1>5. Cardinality(p.rejected \cup q.rejected) = Cardinality(p.rejected) + Cardinality(q.rejected)
  BY <1>2, <1>3
<1>6. Cardinality(p.rejected) \in Nat /\ Cardinality(q.rejected) \in Nat
  BY <1>2, FS_CardinalityType
<1>7. p \in Counts /\ q \in Counts
  BY DEF Accounts
<1>8. QED
  BY <1>2, <1>4, <1>5, <1>6, <1>7 DEF Accounts, Counts

\* Only the rows it tells of matter.
LEMMA AccountsSame ==
    ASSUME NEW a \in Nat, NEW b \in Nat, NEW T, NEW U, NEW p, Accounts(p, T, a, b),
           T \cap (a + 1)..b = U \cap (a + 1)..b
    PROVE  Accounts(p, U, a, b)
<1>1. p.rejected \cap U = p.rejected \cap T
  BY DEF Accounts
<1>2. QED
  BY <1>1 DEF Accounts

\* One more row: it is in the table, or it was skipped or set aside.
LEMMA AccountsRow ==
    ASSUME NEW a \in Nat, NEW b \in Nat, a <= b, b + 1 \in Rows, NEW T, NEW p,
           Accounts(p, T, a, b)
    PROVE  /\ b + 1 \in T => Accounts([p EXCEPT !.committed = @ + 1], T, a, b + 1)
           /\ b + 1 \notin T =>
                 /\ Accounts([p EXCEPT !.skipped = @ + 1], T, a, b + 1)
                 /\ Accounts([p EXCEPT !.rejected = @ \cup {b + 1}], T, a, b + 1)
<1> DEFINE A == T \cap (a + 1)..b
<1>1. IsFiniteSet(A) /\ b + 1 \notin A
  <2>1. A \in SUBSET (a + 1)..b
    OBVIOUS
  <2>2. IsFiniteSet(A)
    BY <2>1, RangeFinite
  <2>3. QED
    BY <2>1, <2>2
<1>2. (a + 1)..(b + 1) = (a + 1)..b \cup {b + 1}
  OBVIOUS
<1>3. p \in Counts /\ p.rejected \subseteq (a + 1)..b
  BY DEF Accounts
<1>4. IsFiniteSet(p.rejected) /\ b + 1 \notin p.rejected /\ Cardinality(p.rejected) \in Nat
  <2>1. IsFiniteSet(p.rejected) /\ Cardinality(p.rejected) \in Nat
    BY <1>3, RangeFinite
  <2>2. QED
    BY <1>3, <2>1
<1>5. CASE b + 1 \in T
  <2>1. T \cap (a + 1)..(b + 1) = A \cup {b + 1}
    BY <1>2, <1>5
  <2>2. Cardinality(A \cup {b + 1}) = Cardinality(A) + 1
    BY <1>1, FS_AddElement
  <2>3. QED
    BY <1>2, <1>3, <1>4, <1>5, <2>1, <2>2 DEF Accounts, Counts
<1>6. CASE b + 1 \notin T
  <2>1. T \cap (a + 1)..(b + 1) = A
    BY <1>2, <1>6
  <2>2. Cardinality(p.rejected \cup {b + 1}) = Cardinality(p.rejected) + 1
    BY <1>4, FS_AddElement
  <2>3. p.rejected \cup {b + 1} \subseteq Rows /\ p.rejected \cup {b + 1} \subseteq (a + 1)..(b + 1)
    BY <1>2, <1>3 DEF Counts
  <2>4. Accounts([p EXCEPT !.skipped = @ + 1], T, a, b + 1)
    <3> DEFINE q == [p EXCEPT !.skipped = @ + 1]
    <3>1. /\ q \in Counts /\ q.committed = p.committed /\ q.skipped = p.skipped + 1
          /\ q.rejected = p.rejected
      BY <1>3 DEF Counts
    <3>2. q.committed = Cardinality(T \cap (a + 1)..(b + 1))
      BY <2>1, <3>1 DEF Accounts
    <3>3. Cardinality(q.rejected) = Cardinality(p.rejected) /\ q.rejected \cap T = {}
      BY <3>1 DEF Accounts
    <3> HIDE DEF q
    <3>4. q.committed + q.skipped + Cardinality(q.rejected) = b + 1 - a
      BY <1>3, <1>4, <3>1, <3>3 DEF Accounts, Counts
    <3>5. Accounts(q, T, a, b + 1)
      BY <1>3, <3>1, <3>2, <3>3, <3>4 DEF Accounts
    <3>6. QED
      BY <3>5 DEF q
  <2>5. Accounts([p EXCEPT !.rejected = @ \cup {b + 1}], T, a, b + 1)
    <3> DEFINE q == [p EXCEPT !.rejected = @ \cup {b + 1}]
    <3>1. /\ q \in Counts /\ q.committed = p.committed /\ q.skipped = p.skipped
          /\ q.rejected = p.rejected \cup {b + 1}
      BY <1>3, <2>3 DEF Counts
    <3>2. q.rejected \cap T = {}
      BY <1>6, <3>1 DEF Accounts
    <3> HIDE DEF q
    <3>3. q.committed = Cardinality(T \cap (a + 1)..(b + 1))
      BY <2>1, <3>1 DEF Accounts
    <3>4. Cardinality(q.rejected) = Cardinality(p.rejected) + 1
      BY <2>2, <3>1
    <3>5. q.committed + q.skipped + Cardinality(q.rejected) = b + 1 - a
      BY <1>3, <1>4, <3>1, <3>4 DEF Accounts, Counts
    <3>6. Accounts(q, T, a, b + 1)
      BY <2>3, <3>1, <3>2, <3>3, <3>5 DEF Accounts
    <3>7. QED
      BY <3>6 DEF q
  <2>6. QED
    BY <1>6, <2>4, <2>5
<1>7. QED
  BY <1>5, <1>6

\* A whole batch.
LEMMA AccountsBatch ==
    ASSUME NEW a \in Nat, NEW b \in Nat, a <= b, NEW T, (a + 1)..b \subseteq T
    PROVE  Accounts([NoRows EXCEPT !.committed = Cardinality((a + 1)..b)], T, a, b)
<1>1. Cardinality((a + 1)..b) = b - a
  <2>1. Cardinality((a + 1)..b) = IF a + 1 > b THEN 0 ELSE b - (a + 1) + 1
    BY FS_Interval
  <2>2. QED
    BY <2>1
<1>2. T \cap (a + 1)..b = (a + 1)..b
  OBVIOUS
<1>3. Cardinality({}) = 0
  BY FS_EmptySet
<1> DEFINE p == [NoRows EXCEPT !.committed = Cardinality((a + 1)..b)]
<1>4. p \in Counts /\ p.committed = b - a /\ p.skipped = 0 /\ p.rejected = {}
  BY <1>1 DEF NoRows, Counts
<1> HIDE DEF p
<1>5. p.committed = Cardinality(T \cap (a + 1)..b) /\ Cardinality(p.rejected) = 0
  BY <1>1, <1>2, <1>3, <1>4
<1>6. p.committed + p.skipped + Cardinality(p.rejected) = b - a
  BY <1>4, <1>5
<1>7. Accounts(p, T, a, b)
  BY <1>4, <1>5, <1>6 DEF Accounts
<1>8. QED
  BY <1>7 DEF p

-----------------------------------------------------------------------------
(* What one INSERT does to the table. *)

Put(S) == table' = [r \in Rows |-> IF r \in S THEN table[r] + 1 ELSE table[r]]
Untouched(S) == \A r \in S : table[r] = 0 \/ r \in unheard

LEMMA PutTold ==
    ASSUME ImportKinds, NEW S \in SUBSET Rows, Untouched(S), connected, Put(S),
           UNCHANGED unheard
    PROVE  /\ table' \in [Rows -> {0, 1}]
           /\ InTable' = InTable \cup S
           /\ \A r \in Rows \ S : table'[r] = table[r]
BY DEF ImportKinds, Untouched, Put, InTable

LEMMA PutUnheard ==
    ASSUME ImportKinds, NEW S \in SUBSET Rows, Untouched(S), connected, Put(S),
           unheard' = unheard \cup S
    PROVE  /\ table' \in [Rows -> {0, 1}]
           /\ InTable' = InTable
           /\ \A r \in Rows \ S : table'[r] = table[r]
BY DEF ImportKinds, Untouched, Put, InTable

-----------------------------------------------------------------------------
(* The channel. *)

LEMMA ChannelNext ==
    ASSUME ImportKinds, ChannelInv, [ImportNext]_importVars
    PROVE  ChannelInv'
<1> DEFINE C == {"columns", "rows", "error"}
<1>a. channel \in Seq(C) /\ Len(channel) \in Nat /\ BatchCount \in Nat /\ ReadAhead \in Nat \ {0}
  BY LastBatch, FileImportAssumption DEF ChannelInv
<1>1. CASE ReadOn
  <2>1. CASE read = BatchCount
    BY <1>1, <2>1 DEF ReadOn, ChannelInv, HasError, HasColumns, importTask
  <2>2. CASE read # BatchCount
    <3> DEFINE w == IF read = -1 THEN "columns" ELSE "rows"
    <3>1. /\ reading /\ UNCHANGED <<reading, batch, importing>>
          /\ Len(channel) < ReadAhead /\ read' = read + 1
          /\ channel' = Append(channel, w)
      BY <1>1, <2>2 DEF ReadOn, importTask
    <3>2. /\ channel' \in Seq(C) /\ Len(channel') = Len(channel) + 1
          /\ channel'[Len(channel')] = w
          /\ \A i \in 1..Len(channel) : channel'[i] = channel[i]
      BY <1>a, <3>1
    <3>3. ~HasError
      BY <3>1 DEF ChannelInv
    <3>4. ~HasError' /\ (HasColumns' <=> HasColumns \/ read = -1)
      <4>1. CASE read = -1
        <5>1. Len(channel) = 0
          BY <3>3, <4>1 DEF ChannelInv
        <5>2. QED
          BY <1>a, <3>2, <4>1, <5>1 DEF HasError, HasColumns
      <4>2. CASE read # -1
        BY <1>a, <3>2, <4>2 DEF HasError, HasColumns
      <4>3. QED
        BY <4>1, <4>2
    <3>5. \A i \in 1..Len(channel') : /\ channel'[i] = "columns" => i = 1 /\ batch = 0
                                      /\ channel'[i] # "error"
      <4>1. ASSUME NEW i \in 1..Len(channel')
            PROVE  (channel'[i] = "columns" => i = 1 /\ batch = 0) /\ channel'[i] # "error"
        <5>1. CASE i = Len(channel')
          BY <3>2, <3>3, <5>1 DEF ChannelInv
        <5>2. CASE i # Len(channel')
          BY <1>a, <3>2, <3>3, <5>2 DEF ChannelInv, HasError
        <5>3. QED
          BY <5>1, <5>2
      <4>2. QED
        BY <4>1
    <3>6. QED
      BY <1>a, <2>2, <3>1, <3>2, <3>3, <3>4, <3>5 DEF ChannelInv
  <2>3. QED
    BY <2>1, <2>2
<1>2. CASE ReadFails
  <2>1. /\ reading /\ reading' = FALSE /\ UNCHANGED <<read, batch, importing>>
        /\ Len(channel) < ReadAhead
        /\ channel' = Append(channel, "error")
    BY <1>2 DEF ReadFails, importTask
  <2>2. /\ channel' \in Seq(C) /\ Len(channel') = Len(channel) + 1
        /\ channel'[Len(channel')] = "error"
        /\ \A i \in 1..Len(channel) : channel'[i] = channel[i]
    BY <1>a, <2>1
  <2>3. ~HasError
    BY <2>1 DEF ChannelInv
  <2>4. HasError' /\ (HasColumns' <=> HasColumns)
    BY <1>a, <2>2 DEF HasError, HasColumns
  <2>5. \A i \in 1..Len(channel') : /\ channel'[i] = "columns" => i = 1 /\ batch = 0
                                    /\ channel'[i] = "error" => i = Len(channel')
    <3>1. ASSUME NEW i \in 1..Len(channel')
          PROVE  /\ channel'[i] = "columns" => i = 1 /\ batch = 0
                 /\ channel'[i] = "error" => i = Len(channel')
      <4>1. CASE i = Len(channel')
        BY <2>2, <4>1
      <4>2. CASE i # Len(channel')
        BY <1>a, <2>2, <2>3, <4>2 DEF ChannelInv, HasError
      <4>3. QED
        BY <4>1, <4>2
    <3>2. QED
      BY <3>1
  <2>6. /\ read' = -1 => batch' = 0 /\ Len(channel') = 1 /\ ~HasColumns'
        /\ read' >= 0 => Len(channel') = (read' - batch') + 1 + (IF HasColumns' THEN 1 ELSE 0)
    BY <1>a, <2>1, <2>2, <2>3, <2>4 DEF ChannelInv
  <2>7. Len(channel') <= ReadAhead
    BY <1>a, <2>1, <2>2
  <2>8. QED
    BY <1>a, <2>1, <2>2, <2>4, <2>5, <2>6, <2>7 DEF ChannelInv
<1>3. CASE ReaderGivesUp
  BY <1>3 DEF ReaderGivesUp, ChannelInv, HasError, HasColumns, importTask
<1>4. CASE Take
  <2>1. /\ importing = "wait" /\ UNCHANGED <<read, reading>>
    BY <1>4 DEF Take, readerVars
  <2>2. CASE channel = <<>>
    BY <1>4, <2>1, <2>2 DEF Take, Ends, ChannelInv, HasError, HasColumns
  <2>3. CASE channel # <<>>
    <3>1. channel' = Tail(channel)
      BY <1>4, <2>3 DEF Take
    <3>2. /\ channel' \in Seq(C) /\ Len(channel') = Len(channel) - 1 /\ Len(channel) > 0
          /\ Head(channel) = channel[1] /\ Head(channel) \in C
          /\ \A i \in 1..Len(channel') : channel'[i] = channel[i + 1]
      BY <1>a, <2>3, <3>1
    <3>3. ~HasColumns'
      BY <1>a, <3>2 DEF ChannelInv, HasColumns
    <3>4. Head(channel) = "error" => HasError /\ Len(channel) = 1
      BY <1>a, <2>3, <3>2 DEF ChannelInv, HasError
    <3>5. HasError' <=> HasError /\ Head(channel) # "error"
      BY <1>a, <2>3, <3>2, <3>4 DEF HasError
    <3>6. HasColumns <=> Head(channel) = "columns"
      BY <2>3, <3>2 DEF HasColumns
    <3>7. \A i \in 1..Len(channel') : /\ channel'[i] # "columns"
                                      /\ channel'[i] = "error" => i = Len(channel')
      BY <1>a, <3>2 DEF ChannelInv
    <3>8. Len(channel') <= ReadAhead
      BY <1>a, <3>2 DEF ChannelInv
    <3> DEFINE e == IF HasError THEN 1 ELSE 0
    <3>9. CASE Head(channel) = "error"
      <4>1. batch' = batch /\ importing' = "closing"
        BY <1>4, <2>3, <3>9 DEF Take, Ends
      <4>2. ~HasError' /\ ~HasColumns /\ Len(channel') = 0
        BY <3>2, <3>4, <3>5, <3>6, <3>9
      <4>3. QED
        BY <1>a, <2>1, <3>2, <3>3, <3>4, <3>7, <3>8, <3>9, <4>1, <4>2 DEF ChannelInv
    <3>10. CASE Head(channel) = "columns"
      <4>1. batch' = batch /\ importing' \in {"closing", "look"}
        BY <1>4, <2>3, <3>10 DEF Take, Ends
      <4>2. (HasError' <=> HasError) /\ HasColumns
        BY <3>5, <3>6, <3>10
      <4>3. QED
        BY <1>a, <2>1, <3>2, <3>3, <3>7, <3>8, <4>1, <4>2 DEF ChannelInv
    <3>11. CASE Head(channel) = "rows"
      <4>1. batch' = batch + 1 /\ importing' = "batch"
        BY <1>4, <2>3, <3>11 DEF Take
      <4>2. (HasError' <=> HasError) /\ ~HasColumns
        BY <3>5, <3>6, <3>11
      <4>3. read # -1
        <5>1. HasError => Len(channel) > 1
          BY <1>a, <3>2, <3>11 DEF HasError
        <5>2. QED
          BY <1>a, <3>2, <5>1 DEF ChannelInv
      <4>4. QED
        BY <1>a, <2>1, <3>2, <3>3, <3>7, <3>8, <4>1, <4>2, <4>3 DEF ChannelInv
    <3>12. QED
      BY <3>2, <3>9, <3>10, <3>11
  <2>4. QED
    BY <2>2, <2>3
<1>5. ASSUME UNCHANGED <<channel, read, reading, batch>>,
             importing' = importing \/ importing' \notin {"look", "wait", "batch", "rows"}
                \/ (importing \in {"look", "wait"} /\ importing' \in {"look", "wait"})
                \/ (importing \in {"batch", "rows"} /\ importing' \in {"look", "rows"})
      PROVE  ChannelInv'
  BY <1>5 DEF ChannelInv, HasError, HasColumns
<1>6. CASE StopImport \/ LookForStop \/ WaitMore
  BY <1>5, <1>6 DEF StopImport, LookForStop, WaitMore, readerVars, importTask, Ends
<1>7. CASE WriteBatch
  BY <1>5, <1>7 DEF WriteBatch, readerVars, Insert, BatchThrough, BatchRefused, Ends
<1>8. CASE WriteRow
  BY <1>5, <1>8 DEF WriteRow, readerVars, Insert, RowDone, BatchThrough, Ends
<1>9. CASE CloseImport
  BY <1>5, <1>9 DEF CloseImport, readerVars
<1>10. CASE UNCHANGED importVars
  BY <1>5, <1>10 DEF importVars
<1>11. QED
  BY <1>1, <1>2, <1>3, <1>4, <1>6, <1>7, <1>8, <1>9, <1>10 DEF ImportNext

-----------------------------------------------------------------------------
(* Kinds, and the steps by which the import goes on. *)

LEMMA BatchCounted ==
    ASSUME ChannelInv
    PROVE  batch \in 0..BatchCount
<1>1. batch \in Nat /\ read \in -1..BatchCount /\ Len(channel) \in Nat /\ BatchCount \in Nat
  BY LastBatch DEF ChannelInv
<1>2. Len(channel) >= (IF HasError THEN 1 ELSE 0) + (IF HasColumns THEN 1 ELSE 0)
  BY <1>1 DEF ChannelInv, HasError, HasColumns
<1>3. QED
  BY <1>1, <1>2 DEF ChannelInv

LEMMA BatchIsThere ==
    ChannelInv /\ importing \in {"batch", "rows"} =>
           /\ batch \in 1..BatchCount
           /\ Before \in Nat /\ Before < FileRows
           /\ batch * BatchRows = Before + BatchRows
           /\ RowsOf(batch) = (Before + 1)..Through
           /\ Through \in Nat /\ Before < Through /\ Through <= FileRows
<1> SUFFICES ASSUME ChannelInv, importing \in {"batch", "rows"}
             PROVE  /\ batch \in 1..BatchCount
                    /\ Before \in Nat /\ Before < FileRows
                    /\ batch * BatchRows = Before + BatchRows
                    /\ RowsOf(batch) = (Before + 1)..Through
                    /\ Through \in Nat /\ Before < Through /\ Through <= FileRows
  OBVIOUS
<1>1. FileRows \in Nat /\ BatchRows \in Nat \ {0}
  BY FileImportAssumption
<1>2. batch \in 1..BatchCount
  <2>1. batch \in Nat \ {0}
    BY DEF ChannelInv
  <2>2. QED
    BY <2>1, BatchCounted, LastBatch
<1>3. batch \in Nat \ {0}
  BY <1>2, LastBatch
<1>4. /\ Before \in Nat /\ batch * BatchRows = Before + BatchRows
      /\ RowsOf(batch) = (Before + 1)..Through
  BY <1>3, RowsOfBatch DEF Before, Through
<1>5. Before < FileRows
  BY <1>2, LastBatch DEF Before
<1>6. QED
  BY <1>1, <1>2, <1>4, <1>5 DEF Through, Least

LEMMA FirstRow ==
    ASSUME ChannelInv, importing \in {"batch", "rows"}
    PROVE  (CHOOSE r \in RowsOf(batch) : \A q \in RowsOf(batch) : r <= q) = Before + 1
<1>1. /\ RowsOf(batch) = (Before + 1)..Through
      /\ Before \in Nat /\ Through \in Nat /\ Before < Through
  BY BatchIsThere
<1>2. Before + 1 \in RowsOf(batch) /\ \A q \in RowsOf(batch) : Before + 1 <= q
  BY <1>1
<1>3. \A r \in RowsOf(batch) : (\A q \in RowsOf(batch) : r <= q) => r = Before + 1
  BY <1>1, <1>2
<1>4. QED
  BY <1>2, <1>3

\* What the rows before the present batch, or those before the next, amount to.
LEMMA ThroughIs ==
    ASSUME ChannelInv
    PROVE  Through \in 0..FileRows
BY FileImportAssumption DEF ChannelInv, Through, Least

Rest == ImportKinds /\ RowsInv /\ EndInv

LEMMA StillNext ==
    ASSUME Rest, UNCHANGED <<strategy, importTask, importData>>, stopAsked' \in BOOLEAN
    PROVE  Rest'
BY DEF Rest, ImportKinds, RowsInv, EndInv, EndedAt, Through, Before, InTable, Working, importTask,
       importData

\* The import ends with the first n rows told of.
LEMMA EndsNow ==
    ASSUME Rest, Working, NEW how \in {"done", "failed", "cancelled"}, Ends(how),
           UNCHANGED <<strategy, stopAsked>>, ImportKinds', InTable' = InTable,
           NEW n \in 0..FileRows, Accounts(report, InTable, 0, n),
           \E m \in n..FileRows : Accounts(inBatch, InTable, n, m),
           how \in {"done", "failed"} => inBatch = NoRows /\ InTable \subseteq 1..n,
           how = "done" => n = FileRows
    PROVE  Rest'
<1>1. /\ importing' = "closing" /\ said' = [end |-> how, rows |-> report.committed]
      /\ inBatch' = inBatch /\ report' = report /\ rejects' = {}
  BY DEF Ends, Rest, RowsInv
<1>2. EndedAt(n)'
  BY <1>1 DEF EndedAt
<1>3. EndInv'
  BY <1>1, <1>2 DEF EndInv
<1>4. RowsInv'
  BY <1>1 DEF RowsInv, Working
<1>5. QED
  BY <1>3, <1>4 DEF Rest

LEMMA EndsKinds ==
    ASSUME ImportKinds, NEW how \in {"done", "failed", "cancelled"}, Ends(how),
           report.committed \in Nat, UNCHANGED <<strategy, stopAsked>>,
           table' \in [Rows -> {0, 1}], connected' \in BOOLEAN, unheard' \subseteq Rows,
           connected' => unheard' = {}
    PROVE  ImportKinds'
BY DEF ImportKinds, Ends

LEMMA LookNext ==
    ASSUME ChannelInv, Rest, LookForStop \/ WaitMore
    PROVE  Rest'
<1>1. /\ importing \in {"look", "wait"} /\ UNCHANGED <<strategy, stopAsked, importData>>
      /\ Accounts(report, InTable, 0, Through) /\ inBatch = NoRows
  BY DEF LookForStop, WaitMore, readerVars, Rest, RowsInv
<1>2. InTable' = InTable
  BY <1>1 DEF InTable, importData
<1>3. CASE importing' \in {"look", "wait"} /\ UNCHANGED <<batch, row, inBatch, report, rejects, said>>
  BY <1>1, <1>2, <1>3 DEF Rest, ImportKinds, RowsInv, EndInv, Through, Working, importData
<1>4. CASE Ends("cancelled")
  <2>1. Through \in 0..FileRows /\ FileRows \in Nat
    BY ThroughIs, FileImportAssumption
  <2>2. ImportKinds'
    BY <1>1, <1>4, EndsKinds DEF Rest, ImportKinds, Accounts, Counts, importData
  <2>3. Accounts(inBatch, InTable, Through, Through)
    BY <1>1, <2>1, AccountsNone
  <2>4. QED
    BY <1>1, <1>2, <1>4, <2>1, <2>2, <2>3, EndsNow DEF Working
<1>5. QED
  BY <1>3, <1>4 DEF LookForStop, WaitMore

LEMMA TakeNext ==
    ASSUME ChannelInv, Rest, Take
    PROVE  Rest'
<1>1. /\ importing = "wait" /\ UNCHANGED <<strategy, stopAsked, importData>>
      /\ Accounts(report, InTable, 0, Through) /\ inBatch = NoRows
      /\ \A r \in Rows : r > Through => table[r] = 0
  BY DEF Take, readerVars, Rest, RowsInv
<1>2. InTable' = InTable
  BY <1>1 DEF InTable, importData
<1>3. Through \in 0..FileRows /\ FileRows \in Nat
  BY ThroughIs, FileImportAssumption
<1>4. InTable \subseteq 1..Through
  BY <1>1, <1>3 DEF InTable, Rows
<1>5. ASSUME NEW how \in {"done", "failed"}, Ends(how), how = "done" => Through = FileRows
      PROVE  Rest'
  <2>1. ImportKinds'
    BY <1>1, <1>5, EndsKinds DEF Rest, ImportKinds, Accounts, Counts, importData
  <2>2. \E m \in Through..FileRows : Accounts(inBatch, InTable, Through, m)
    BY <1>1, <1>3, AccountsNone
  <2>3. Working /\ UNCHANGED <<strategy, stopAsked>>
    BY <1>1 DEF Working
  <2>4. QED
    BY <1>1, <1>2, <1>3, <1>4, <1>5, <2>1, <2>2, <2>3, EndsNow
<1>6. CASE channel = <<>>
  <2>1. Ends("done") /\ ~reading
    BY <1>6 DEF Take
  <2>2. read = BatchCount /\ batch = read
    BY <1>1, <1>6, <2>1, LastBatch DEF ChannelInv, HasError, HasColumns
  <2>3. Through = FileRows
    BY <1>3, <2>2, LastBatch, FileImportAssumption DEF Through, Least
  <2>4. QED
    BY <1>5, <2>1, <2>3
<1>7. CASE channel # <<>> /\ Head(channel) \in {"error", "columns"}
  <2>1. Ends("failed") \/ (importing' = "look" /\ UNCHANGED <<batch, row, inBatch, report, rejects, said>>)
    BY <1>7 DEF Take
  <2>2. CASE Ends("failed")
    BY <1>5, <2>2
  <2>3. CASE importing' = "look" /\ UNCHANGED <<batch, row, inBatch, report, rejects, said>>
    BY <1>1, <1>2, <2>3 DEF Rest, ImportKinds, RowsInv, EndInv, Through, Working, importData
  <2>4. QED
    BY <2>1, <2>2, <2>3
<1>8. CASE channel # <<>> /\ Head(channel) = "rows"
  <2>1. /\ importing' = "batch" /\ batch' = batch + 1
        /\ UNCHANGED <<row, inBatch, report, rejects, said>>
    BY <1>8 DEF Take
  <2>2. ChannelInv'
    BY ChannelNext DEF ImportNext, Rest
  <2>3. /\ Before' \in Nat /\ Before' < FileRows
        /\ RowsOf(batch') = (Before' + 1)..Through'
    <3>1. (ChannelInv /\ importing \in {"batch", "rows"} =>
             Before \in Nat /\ Before < FileRows /\ RowsOf(batch) = (Before + 1)..Through)'
      BY BatchIsThere, PTL
    <3>2. QED
      BY <2>1, <2>2, <3>1
  <2>4. Through = Before'
    BY <1>3, <2>1, <2>3 DEF Through, Before, Least, ChannelInv
  <2>5. \A r \in Rows : r > Before' => table'[r] = 0
    BY <1>1, <2>4 DEF importData
  <2>6. \A r \in RowsOf(batch') : table'[r] = 0
    BY <2>3, <2>5 DEF RowsOf
  <2>7. RowsInv'
    BY <1>1, <1>2, <2>1, <2>4, <2>5, <2>6 DEF RowsInv, Working, Rest
  <2>8. QED
    BY <1>1, <2>1, <2>7 DEF Rest, ImportKinds, EndInv, importData
<1>9. channel # <<>> => Head(channel) \in {"error", "columns", "rows"}
  BY DEF ChannelInv
<1>10. QED
  BY <1>6, <1>7, <1>8, <1>9 DEF Take

\* The report of a batch that is through is added to the others.
LEMMA ThroughNext ==
    ASSUME ChannelInv, Rest, importing \in {"batch", "rows"}, NEW p, BatchThrough(p),
           UNCHANGED <<strategy, stopAsked>>, ImportKinds',
           Accounts(report, InTable', 0, Before), Accounts(p, InTable', Before, Through),
           \A r \in Rows : r > Through => table'[r] = 0
    PROVE  Rest'
<1>1. /\ Before \in Nat /\ Through \in Nat /\ Before < Through
  BY BatchIsThere
<1> DEFINE sum == [committed |-> report.committed + p.committed,
                   skipped |-> report.skipped + p.skipped,
                   rejected |-> report.rejected \cup p.rejected]
<1>2. Accounts(sum, InTable', 0, Through)
  <2>1. 0 <= Before /\ Before <= Through /\ 0 \in Nat
    BY <1>1
  <2> HIDE DEF sum
  <2>2. QED
    BY <1>1, <2>1, AccountsTogether DEF sum
<1>3. /\ importing' = "look" /\ report' = sum /\ inBatch' = NoRows
      /\ UNCHANGED <<batch, rejects, said>>
  BY DEF BatchThrough
<1> HIDE DEF sum
<1>4. rejects = {} /\ said = NothingSaid
  BY DEF Rest, RowsInv, Working
<1>5. Through' = Through
  BY <1>3 DEF Through
<1>6. RowsInv'
  BY <1>2, <1>3, <1>4, <1>5 DEF RowsInv, Working
<1>7. QED
  BY <1>3, <1>6 DEF Rest, EndInv

LEMMA WriteBatchNext ==
    ASSUME ChannelInv, Rest, WriteBatch
    PROVE  Rest'
<1>1. /\ importing = "batch" /\ UNCHANGED <<strategy, stopAsked>>
      /\ Accounts(report, InTable, 0, Before) /\ inBatch = NoRows
      /\ rejects = {} /\ said = NothingSaid
      /\ \A r \in Rows \ RowsOf(batch) : r > Before => table[r] = 0
      /\ \A r \in RowsOf(batch) : table[r] = 0
  BY DEF WriteBatch, readerVars, Rest, RowsInv, Working
<1>2. /\ FileRows \in Nat /\ Before \in Nat /\ Before < FileRows
      /\ RowsOf(batch) = (Before + 1)..Through
      /\ Through \in Nat /\ Before < Through /\ Through <= FileRows
  BY <1>1, BatchIsThere, FileImportAssumption
<1>3. RowsOf(batch) \in SUBSET Rows /\ Untouched(RowsOf(batch))
  BY <1>1 DEF RowsOf, Untouched
<1>4. \A r \in Rows : r > Before => table[r] = 0
  BY <1>1
<1>6. InTable \subseteq 1..Before
  BY <1>2, <1>4 DEF InTable, Rows
<1>8. report.committed \in Nat
  BY <1>1 DEF Accounts, Counts
<1>9. ASSUME NEW how \in {"failed", "cancelled"}, Ends(how), ImportKinds', InTable' = InTable
      PROVE  Rest'
  <2>1. Working /\ Before \in 0..FileRows
    BY <1>1, <1>2 DEF Working
  <2>2. \E m \in Before..FileRows : Accounts(inBatch, InTable, Before, m)
    BY <1>1, <1>2, AccountsNone
  <2>3. QED
    BY <1>1, <1>6, <1>9, <2>1, <2>2, EndsNow
<1>10. CASE Ends("cancelled") /\ UNCHANGED importData
  <2>1. ImportKinds'
    BY <1>1, <1>8, <1>10, EndsKinds DEF Rest, ImportKinds, importData
  <2>2. InTable' = InTable
    BY <1>10 DEF InTable, importData
  <2>3. QED
    BY <1>9, <1>10, <2>1, <2>2
<1>11. ASSUME connected, Put(RowsOf(batch)), UNCHANGED <<connected, unheard>>,
              BatchThrough([NoRows EXCEPT !.committed = Cardinality(RowsOf(batch))])
       PROVE  Rest'
  <2>1. /\ table' \in [Rows -> {0, 1}] /\ InTable' = InTable \cup RowsOf(batch)
        /\ \A r \in Rows \ RowsOf(batch) : table'[r] = table[r]
    BY <1>3, <1>11, PutTold DEF Rest
  <2>2. ImportKinds'
    BY <1>1, <1>11, <2>1, FileImportAssumption DEF Rest, ImportKinds, BatchThrough
  <2>3. Accounts(report, InTable', 0, Before)
    <3>1. InTable' \cap (0 + 1)..Before = InTable \cap (0 + 1)..Before
      BY <1>2, <2>1
    <3>2. QED
      BY <1>1, <1>2, <3>1, AccountsSame
  <2>4. Accounts([NoRows EXCEPT !.committed = Cardinality(RowsOf(batch))], InTable', Before, Through)
    <3>1. (Before + 1)..Through \subseteq InTable'
      BY <1>2, <2>1
    <3>2. Accounts([NoRows EXCEPT !.committed = Cardinality((Before + 1)..Through)], InTable', Before, Through)
      BY <1>2, <3>1, AccountsBatch
    <3>3. QED
      BY <1>2, <3>2
  <2>5. ASSUME NEW r \in Rows, r > Through
        PROVE  table'[r] = 0
    <3>1. r \notin RowsOf(batch) /\ r > Before
      BY <1>2, <2>5 DEF Rows
    <3>2. QED
      BY <1>4, <2>1, <3>1
  <2>6. QED
    BY <1>1, <1>11, <2>2, <2>3, <2>4, <2>5, ThroughNext
<1>12. ASSUME BatchRefused, table' \in [Rows -> {0, 1}], connected' \in BOOLEAN,
              unheard' \subseteq Rows, connected' => unheard' = {}, InTable' = InTable,
              \A r \in Rows \ RowsOf(batch) : table'[r] = table[r],
              \A r \in RowsOf(batch) : table'[r] = 0 \/ r \in unheard'
       PROVE  Rest'
  <2>1. CASE strategy = "stop"
    <3>1. Ends("failed")
      BY <1>12, <2>1 DEF BatchRefused
    <3>2. ImportKinds'
      BY <1>1, <1>8, <1>12, <3>1, EndsKinds DEF Rest
    <3>3. QED
      BY <1>9, <1>12, <3>1, <3>2
  <2>2. CASE strategy # "stop"
    <3>1. /\ importing' = "rows" /\ row' = Before + 1
          /\ UNCHANGED <<batch, inBatch, report, rejects, said>>
      BY <1>1, <1>12, <2>2, FirstRow DEF BatchRefused
    <3>2. Before' = Before /\ RowsOf(batch') = RowsOf(batch)
      BY <3>1 DEF Before
    <3>3. row' \in RowsOf(batch) /\ row' - 1 = Before /\ row' \in 0..FileRows
      BY <1>2, <3>1
    <3>4. Accounts(inBatch', InTable', Before', row' - 1)
      BY <1>1, <1>2, <3>1, <3>2, <3>3, AccountsNone
    <3>5. Accounts(report', InTable', 0, Before')
      BY <1>1, <1>12, <3>1, <3>2
    <3>6. \A r \in Rows \ RowsOf(batch') : r > Before' => table'[r] = 0
      BY <1>1, <1>12, <3>2
    <3>7. RowsInv'
      BY <1>1, <1>12, <2>2, <3>1, <3>2, <3>3, <3>4, <3>5, <3>6 DEF RowsInv, Working
    <3>8. ImportKinds'
      BY <1>1, <1>12, <3>1, <3>3 DEF Rest, ImportKinds
    <3>9. QED
      BY <3>1, <3>7, <3>8 DEF Rest, EndInv
  <2>3. QED
    BY <2>1, <2>2
<1>13. CASE BatchRefused /\ UNCHANGED importData
  <2>1. InTable' = InTable
    BY <1>13 DEF InTable, importData
  <2>2. QED
    BY <1>1, <1>12, <1>13, <2>1 DEF Rest, ImportKinds, importData
<1>14. ASSUME connected, Put(RowsOf(batch)), connected' = FALSE,
              unheard' = unheard \cup RowsOf(batch), BatchRefused
       PROVE  Rest'
  <2>1. /\ table' \in [Rows -> {0, 1}] /\ InTable' = InTable
        /\ \A r \in Rows \ RowsOf(batch) : table'[r] = table[r]
    BY <1>3, <1>14, PutUnheard DEF Rest
  <2>2. unheard' \subseteq Rows
    BY <1>3, <1>14 DEF Rest, ImportKinds
  <2>3. QED
    BY <1>12, <1>14, <2>1, <2>2
<1>15. QED
  BY <1>10, <1>11, <1>13, <1>14 DEF WriteBatch, Insert, Put

LEMMA WriteRowNext ==
    ASSUME ChannelInv, Rest, WriteRow
    PROVE  Rest'
<1>1. /\ importing = "rows" /\ strategy # "stop" /\ UNCHANGED <<strategy, stopAsked>>
      /\ Accounts(report, InTable, 0, Before) /\ Accounts(inBatch, InTable, Before, row - 1)
      /\ rejects = {} /\ said = NothingSaid /\ row \in RowsOf(batch)
      /\ \A r \in Rows \ RowsOf(batch) : r > Before => table[r] = 0
      /\ \A r \in RowsOf(batch) : r >= row => table[r] = 0 \/ r \in unheard
  BY DEF WriteRow, readerVars, Rest, RowsInv, Working
<1>2. /\ FileRows \in Nat /\ Before \in Nat /\ Before < FileRows
      /\ RowsOf(batch) = (Before + 1)..Through
      /\ Through \in Nat /\ Before < Through /\ Through <= FileRows
  BY <1>1, BatchIsThere, FileImportAssumption
<1>3. /\ {row} \in SUBSET Rows /\ Untouched({row}) /\ row \in Rows
      /\ row \in Nat /\ row - 1 \in Nat /\ Before <= row - 1 /\ row <= Through
  BY <1>1, <1>2 DEF RowsOf, Untouched
<1>4. row \notin InTable
  BY <1>3 DEF Untouched, InTable
<1>5. CASE Ends("cancelled") /\ UNCHANGED importData
  <2>1. ImportKinds'
    BY <1>1, <1>5, EndsKinds DEF Rest, ImportKinds, importData, Accounts, Counts
  <2>2. InTable' = InTable
    BY <1>5 DEF InTable, importData
  <2>3. Working /\ Before \in 0..FileRows
    BY <1>1, <1>2 DEF Working
  <2>4. \E m \in Before..FileRows : Accounts(inBatch, InTable, Before, m)
    BY <1>1, <1>2, <1>3
  <2>5. QED
    BY <1>1, <1>5, <2>1, <2>2, <2>3, <2>4, EndsNow
\* One row further, with p for what was told of this batch.
<1>6. ASSUME NEW p, RowDone(p), Accounts(report, InTable', 0, Before),
             Accounts(p, InTable', Before, row),
             table' \in [Rows -> {0, 1}], connected' \in BOOLEAN, unheard' \subseteq Rows,
             connected' => unheard' = {}, \A r \in Rows \ {row} : table'[r] = table[r],
             unheard \subseteq unheard'
      PROVE  Rest'
  <2>1. ASSUME NEW r \in Rows, r \notin RowsOf(batch), r > Before
        PROVE  table'[r] = 0
    BY <1>1, <1>6, <2>1
  <2>2. ASSUME NEW r \in Rows, r > Through
        PROVE  table'[r] = 0
    <3>1. r \notin RowsOf(batch) /\ r > Before
      BY <1>2, <2>2 DEF Rows
    <3>2. QED
      BY <2>1, <3>1
  <2>3. CASE row + 1 \in RowsOf(batch)
    <3>1. /\ row' = row + 1 /\ inBatch' = p
          /\ UNCHANGED <<importing, batch, report, rejects, said>>
      BY <1>6, <2>3 DEF RowDone
    <3>2. Before' = Before /\ RowsOf(batch') = RowsOf(batch) /\ row' - 1 = row
      BY <1>3, <3>1 DEF Before
    <3>3. row' \in 0..FileRows
      BY <1>2, <1>3, <2>3, <3>1
    <3>4. ASSUME NEW r \in RowsOf(batch'), r >= row'
          PROVE  table'[r] = 0 \/ r \in unheard'
      <4>1. r \in Rows /\ r \in RowsOf(batch) /\ r >= row /\ r # row
        BY <1>2, <1>3, <3>1, <3>2, <3>4 DEF RowsOf, Rows
      <4>2. QED
        BY <1>1, <1>6, <4>1
    <3>5. Accounts(inBatch', InTable', Before', row' - 1) /\ Accounts(report', InTable', 0, Before')
      BY <1>6, <3>1, <3>2
    <3>6. row' \in RowsOf(batch')
      BY <2>3, <3>1
    <3>7. RowsInv'
      BY <1>1, <2>1, <3>1, <3>2, <3>4, <3>5, <3>6 DEF RowsInv, Working
    <3>8. QED
      BY <1>1, <1>6, <3>1, <3>3, <3>7 DEF Rest, ImportKinds, EndInv
  <2>4. CASE row + 1 \notin RowsOf(batch)
    <3>1. BatchThrough(p)
      BY <1>6, <2>4 DEF RowDone
    <3>2. row = Through
      BY <1>2, <1>3, <2>4
    <3>3. ImportKinds'
      BY <1>1, <1>6, <3>1, FileImportAssumption DEF Rest, ImportKinds, BatchThrough
    <3>4. Accounts(p, InTable', Before, Through)
      BY <1>6, <3>2
    <3>5. QED
      BY <1>1, <1>6, <2>2, <3>1, <3>3, <3>4, ThroughNext
  <2>5. QED
    BY <2>3, <2>4
<1>7. ASSUME NEW T, \A r \in Rows \ {row} : r \in T <=> r \in InTable, T \subseteq Rows
      PROVE  Accounts(report, T, 0, Before) /\ Accounts(inBatch, T, Before, row - 1)
  <2>1. T \cap (0 + 1)..Before = InTable \cap (0 + 1)..Before
    <3>1. row \notin (0 + 1)..Before
      BY <1>2, <1>3
    <3>2. InTable \subseteq Rows
      BY DEF InTable
    <3>3. QED
      BY <1>7, <3>1, <3>2
  <2>2. T \cap (Before + 1)..(row - 1) = InTable \cap (Before + 1)..(row - 1)
    BY <1>3, <1>7 DEF InTable
  <2>3. Accounts(report, T, 0, Before)
    BY <1>1, <1>2, <2>1, AccountsSame
  <2>4. QED
    BY <1>1, <1>2, <1>3, <2>2, <2>3, AccountsSame
<1>8. ASSUME NEW T, Accounts(inBatch, T, Before, row - 1)
      PROVE  /\ row \in T => Accounts([inBatch EXCEPT !.committed = @ + 1], T, Before, row)
             /\ row \notin T =>
                   /\ Accounts([inBatch EXCEPT !.skipped = @ + 1], T, Before, row)
                   /\ Accounts([inBatch EXCEPT !.rejected = @ \cup {row}], T, Before, row)
  <2>1. row - 1 + 1 = row
    BY <1>3
  <2>2. row - 1 + 1 \in Rows
    BY <1>3, <2>1
  <2>3. QED
    BY <1>2, <1>3, <1>8, <2>1, <2>2, AccountsRow
<1> DEFINE In == [inBatch EXCEPT !.committed = @ + 1]
           Out == IF strategy = "skip" THEN [inBatch EXCEPT !.skipped = @ + 1]
                  ELSE [inBatch EXCEPT !.rejected = @ \cup {row}]
<1>9. ASSUME connected, Put({row}), UNCHANGED <<connected, unheard>>, RowDone(In)
      PROVE  Rest'
  <2>1. /\ table' \in [Rows -> {0, 1}] /\ InTable' = InTable \cup {row}
        /\ \A r \in Rows \ {row} : table'[r] = table[r]
    BY <1>3, <1>9, PutTold DEF Rest
  <2>2. /\ InTable' \subseteq Rows /\ row \in InTable'
        /\ \A r \in Rows \ {row} : r \in InTable' <=> r \in InTable
    BY <1>3, <2>1 DEF InTable
  <2>3. Accounts(report, InTable', 0, Before) /\ Accounts(inBatch, InTable', Before, row - 1)
    BY <1>7, <2>2
  <2>4. Accounts(In, InTable', Before, row)
    BY <1>8, <2>2, <2>3
  <2> HIDE DEF In
  <2>5. connected' \in BOOLEAN /\ unheard' \subseteq Rows /\ (connected' => unheard' = {})
    BY <1>9 DEF Rest, ImportKinds
  <2>6. QED
    BY <1>6, <1>9, <2>1, <2>3, <2>4, <2>5
<1>10. ASSUME RowDone(Out), table' \in [Rows -> {0, 1}], connected' \in BOOLEAN,
              unheard' \subseteq Rows, connected' => unheard' = {}, InTable' = InTable,
              \A r \in Rows \ {row} : table'[r] = table[r], unheard \subseteq unheard'
       PROVE  Rest'
  <2>1. Accounts(Out, InTable', Before, row)
    BY <1>1, <1>4, <1>8, <1>10
  <2> HIDE DEF Out
  <2>2. QED
    BY <1>1, <1>6, <1>10, <2>1
<1>11. CASE RowDone(Out) /\ UNCHANGED importData
  <2>1. InTable' = InTable /\ UNCHANGED <<table, connected, unheard>>
    BY <1>11 DEF InTable, importData
  <2> HIDE DEF Out
  <2>2. QED
    BY <1>10, <1>11, <2>1 DEF Rest, ImportKinds
<1>12. ASSUME connected, Put({row}), connected' = FALSE, unheard' = unheard \cup {row}, RowDone(Out)
       PROVE  Rest'
  <2>1. /\ table' \in [Rows -> {0, 1}] /\ InTable' = InTable
        /\ \A r \in Rows \ {row} : table'[r] = table[r]
    BY <1>3, <1>12, PutUnheard DEF Rest
  <2>2. unheard' \subseteq Rows
    BY <1>3, <1>12 DEF Rest, ImportKinds
  <2> HIDE DEF Out
  <2>3. QED
    BY <1>10, <1>12, <2>1, <2>2
<1>13. \/ Ends("cancelled") /\ UNCHANGED importData
       \/ connected /\ Put({row}) /\ RowDone(In) /\ UNCHANGED <<connected, unheard>>
       \/ RowDone(Out) /\ UNCHANGED importData
       \/ /\ connected /\ Put({row}) /\ connected' = FALSE
          /\ unheard' = unheard \cup {row} /\ RowDone(Out)
  BY DEF WriteRow, Insert, Put
<1> HIDE DEF In, Out
<1>14. QED
  BY <1>5, <1>9, <1>11, <1>12, <1>13

LEMMA CloseNext ==
    ASSUME Rest, CloseImport
    PROVE  Rest'
<1>1. /\ importing = "closing" /\ importing' = "over"
      /\ UNCHANGED <<strategy, stopAsked, batch, row, inBatch, report, importData>>
  BY DEF CloseImport, readerVars
<1>2. InTable' = InTable
  BY <1>1 DEF InTable, importData
<1>3. PICK n \in 0..FileRows : EndedAt(n)
  BY <1>1 DEF Rest, EndInv
<1>4. rejects = {} /\ said.end \in {"done", "failed", "cancelled"}
  BY <1>1 DEF Rest, EndInv
<1>5. CASE said' = said
  <2>1. EndedAt(n)'
    BY <1>1, <1>2, <1>3, <1>5 DEF EndedAt
  <2>2. EndInv'
    BY <1>1, <1>4, <1>5, <2>1 DEF EndInv, CloseImport
  <2>3. QED
    BY <1>1, <1>5, <2>2 DEF Rest, ImportKinds, RowsInv, Working, importData
<1>6. CASE said' = [end |-> "unwritten", rows |-> 0] /\ UNCHANGED rejects
  <2>1. EndedAt(n)'
    BY <1>1, <1>2, <1>3, <1>6 DEF EndedAt
  <2>2. EndInv'
    BY <1>1, <1>4, <1>6, <2>1 DEF EndInv
  <2>3. QED
    BY <1>1, <1>6, <2>2 DEF Rest, ImportKinds, RowsInv, Working, importData
<1>7. QED
  BY <1>5, <1>6 DEF CloseImport

-----------------------------------------------------------------------------
(* The theorems. *)

ImportInv == Rest /\ ChannelInv

LEMMA ImportStart == ImportInit => ImportInv
<1> SUFFICES ASSUME ImportInit
             PROVE  ImportInv
  OBVIOUS
<1>1. FileRows \in Nat /\ BatchRows \in Nat \ {0} /\ ReadAhead \in Nat \ {0} /\ BatchCount \in Nat
  BY FileImportAssumption, LastBatch
<1>2. Through = 0
  BY <1>1 DEF ImportInit, Through, Least
<1>3. Accounts(report, InTable, 0, 0)
  BY AccountsNone DEF ImportInit
<1>4. ChannelInv
  BY <1>1 DEF ImportInit, ChannelInv, HasError, HasColumns
<1>5. ImportKinds
  <2>1. table \in [Rows -> {0, 1}] /\ 0 \in 0..FileRows
    BY <1>1 DEF ImportInit
  <2>2. said \in [end : {"none", "done", "failed", "cancelled", "unwritten"}, rows : Nat]
    BY DEF ImportInit, NothingSaid
  <2>3. QED
    BY <2>1, <2>2 DEF ImportInit, ImportKinds
<1>6. RowsInv /\ EndInv
  BY <1>2, <1>3 DEF ImportInit, RowsInv, EndInv, Working
<1>7. QED
  BY <1>4, <1>5, <1>6 DEF ImportInv, Rest

LEMMA ImportStep == ImportInv /\ [ImportNext]_importVars => ImportInv'
<1> SUFFICES ASSUME Rest, ChannelInv, [ImportNext]_importVars
             PROVE  Rest' /\ ChannelInv'
  BY DEF ImportInv
<1>1. ChannelInv'
  BY ChannelNext DEF Rest
<1>2. CASE ReadOn \/ ReadFails \/ ReaderGivesUp \/ StopImport \/ UNCHANGED importVars
  <2>1. UNCHANGED <<strategy, importTask, importData>> /\ stopAsked' \in BOOLEAN
    BY <1>2 DEF ReadOn, ReadFails, ReaderGivesUp, StopImport, importVars, importTask, importData,
                readerVars, Rest, ImportKinds
  <2>2. QED
    BY <1>1, <2>1, StillNext
<1>3. CASE LookForStop \/ WaitMore
  BY <1>1, <1>3, LookNext
<1>4. CASE Take
  BY <1>1, <1>4, TakeNext
<1>5. CASE WriteBatch
  BY <1>1, <1>5, WriteBatchNext
<1>6. CASE WriteRow
  BY <1>1, <1>6, WriteRowNext
<1>7. CASE CloseImport
  BY <1>1, <1>7, CloseNext
<1>8. QED
  BY <1>2, <1>3, <1>4, <1>5, <1>6, <1>7 DEF ImportNext

\* The type of an import, for any file and any batches.
THEOREM ImportTypes == ImportSpec => []ImportTypeOK
<1>1. ImportInv => ImportTypeOK
  <2> SUFFICES ASSUME ImportInv
               PROVE  ImportTypeOK
    OBVIOUS
  <2> USE DEF ImportInv, Rest
  <2>1. FileRows \in Nat /\ BatchCount \in Nat
    BY FileImportAssumption, LastBatch
  <2>2. ASSUME NEW p, NEW T, NEW a \in 0..FileRows, NEW b \in 0..FileRows, Accounts(p, T, a, b)
        PROVE  p.committed \in 0..FileRows /\ p.skipped \in 0..FileRows /\ p.rejected \subseteq Rows
    <3>1. Cardinality(p.rejected) \in Nat /\ p \in Counts
      <4>1. p.rejected \in SUBSET (a + 1)..b /\ p \in Counts
        BY <2>2 DEF Accounts
      <4>2. QED
        BY <2>1, <4>1, RangeFinite
    <3>2. QED
      BY <2>1, <2>2, <3>1 DEF Accounts, Counts
  <2>3. 0 \in 0..FileRows /\ Through \in 0..FileRows
    BY <2>1, ThroughIs
  <2>4. importing \in {"batch", "rows"} => Before \in 0..FileRows
    BY <2>1, BatchIsThere
  <2>5. importing = "rows" => row - 1 \in 0..FileRows
    <3>1. importing = "rows" => row \in Rows
      BY DEF RowsInv, RowsOf
    <3>2. QED
      BY <2>1, <3>1 DEF Rows
  <2>6. report.committed \in 0..FileRows /\ report.skipped \in 0..FileRows /\ report.rejected \subseteq Rows
    <3>1. \E b \in 0..FileRows : Accounts(report, InTable, 0, b)
      BY <2>3, <2>4 DEF RowsInv, EndInv, EndedAt, ImportKinds
    <3>2. QED
      BY <2>2, <2>3, <3>1
  <2>7. inBatch.committed \in 0..FileRows /\ inBatch.skipped \in 0..FileRows /\ inBatch.rejected \subseteq Rows
    <3>1. inBatch = NoRows \/ \E a, b \in 0..FileRows : Accounts(inBatch, InTable, a, b)
      <4>1. CASE importing = "rows"
        BY <2>4, <2>5, <4>1 DEF RowsInv
      <4>2. CASE importing \in {"closing", "over"}
        <5>1. PICK n \in 0..FileRows : EndedAt(n)
          BY <4>2 DEF EndInv
        <5>2. PICK m \in n..FileRows : Accounts(inBatch, InTable, n, m)
          BY <5>1 DEF EndedAt
        <5>3. m \in 0..FileRows
          BY <2>1, <5>1, <5>2
        <5>4. QED
          BY <5>1, <5>2, <5>3
      <4>3. QED
        BY <4>1, <4>2 DEF RowsInv, ImportKinds
    <3>2. CASE inBatch = NoRows
      BY <2>1, <3>2 DEF NoRows
    <3>3. QED
      BY <2>2, <3>1, <3>2
  <2>8. said.rows \in 0..FileRows
    <3>1. CASE importing \in {"closing", "over"}
      <4>1. said.rows = 0 \/ said.rows = report.committed
        BY <3>1 DEF EndInv, EndedAt
      <4>2. QED
        BY <2>1, <2>6, <4>1
    <3>2. CASE importing \notin {"closing", "over"}
      BY <2>1, <3>2 DEF RowsInv, Working, NothingSaid, ImportKinds
    <3>3. QED
      BY <3>1, <3>2
  <2>9. rejects \subseteq Rows
    BY <2>6 DEF RowsInv, EndInv, Working, ImportKinds
  <2>10. batch \in 0..BatchCount
    BY BatchCounted
  <2>11. table \in [Rows -> 0..2]
    BY DEF ImportKinds
  <2>12. QED
    BY <2>6, <2>7, <2>8, <2>9, <2>10, <2>11 DEF ImportTypeOK, ImportKinds, ChannelInv
<1>2. QED
  BY <1>1, ImportStart, ImportStep, PTL DEF ImportSpec

\* An import says what went in.
THEOREM SaysWhatWentIn == ImportSpec => []ImportSaysWhatWentIn
<1>1. ImportInv => ImportSaysWhatWentIn
  <2> SUFFICES ASSUME ImportInv
               PROVE  ImportSaysWhatWentIn
    OBVIOUS
  <2> USE DEF ImportInv, Rest
  <2>1. \A r \in Rows : table[r] <= 1
    BY DEF ImportKinds
  <2>2. CASE importing = "over"
    <3>1. PICK n \in 0..FileRows : EndedAt(n)
      BY <2>2 DEF EndInv
    <3>2. report.rejected \cap InTable = {} /\ n \in Nat
      BY <3>1, FileImportAssumption DEF EndedAt, Accounts
    <3>3. rejects \cap InTable = {}
      BY <2>2, <3>2 DEF EndInv
    <3>4. said.end = "done" => said.rows + report.skipped + Cardinality(report.rejected) = FileRows
      BY <3>1, FileImportAssumption DEF EndedAt, Accounts
    <3>5. ASSUME said.end \in {"done", "failed"}
          PROVE  said.rows = Cardinality(InTable)
      <4>1. InTable \cap (0 + 1)..n = InTable
        BY <3>1, <3>2, <3>5 DEF EndedAt
      <4>2. said.rows = report.committed /\ report.committed = Cardinality(InTable \cap (0 + 1)..n)
        BY <3>1, <3>5 DEF EndedAt, Accounts
      <4>3. QED
        BY <4>1, <4>2
    <3>6. ASSUME strategy = "reject", said.end # "unwritten"
          PROVE  rejects = report.rejected \cup (IF said.end = "cancelled" THEN {} ELSE inBatch.rejected)
      <4>1. rejects = report.rejected
        BY <2>2, <3>6 DEF EndInv
      <4>2. said.end # "cancelled" => said.end \in {"done", "failed"}
        BY <2>2, <3>6 DEF EndInv, ImportKinds
      <4>3. said.end # "cancelled" => inBatch.rejected = {}
        BY <3>1, <4>2 DEF EndedAt, NoRows
      <4>4. QED
        BY <4>1, <4>3
    <3>7. QED
      BY <2>1, <2>2, <3>3, <3>4, <3>5, <3>6 DEF ImportSaysWhatWentIn
  <2>3. QED
    BY <2>1, <2>2 DEF ImportSaysWhatWentIn
<1>2. QED
  BY <1>1, ImportStart, ImportStep, PTL DEF ImportSpec
=============================================================================
