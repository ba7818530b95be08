------------------------------ MODULE Transfers ------------------------------
(***************************************************************************)
(* The transfers of the workbench: an export or an import, which looks at  *)
(* a flag now and then, and a backup or a restore, a tool of the database  *)
(* in a process of its own.  Each runs in a task (transfer_manager.rs);    *)
(* the loop starts and stops them for a dialog, and hears of their end.    *)
(* A query runs beside them.                                               *)
(*                                                                         *)
(* Rows, paths, questions, progress and what tools print are left out; how *)
(* an import goes through its file is FileImport.                          *)
(***************************************************************************)
EXTENDS Integers, Sequences, FiniteSets

CONSTANTS
    Exports, Imports, Backups, Restores, \* transfers, by operation
    Portions,                            \* bound: rows of an export, batches of an import
    MaxTransfers,                        \* bound: how many of them begin
    NoTransfer

TransfersAll == Exports \cup Imports \cup Backups \cup Restores
Cooperative == Exports \cup Imports

ASSUME TransfersAssumption ==
    /\ Exports \cap Imports = {} /\ Backups \cap Restores = {}
    /\ Cooperative \cap (Backups \cup Restores) = {}
    /\ Portions \in Nat /\ MaxTransfers \in Nat
    /\ NoTransfer \notin TransfersAll

VARIABLES
    open,         \* the dialog is open
    awaiting,     \* ... and waits for its transfer
    shown,        \* the operation it shows
    stopUnderWay, \* what a stop under way found in the map of those that run
    answers,      \* to the loop, in order
    query,        \* the query beside: none, runs, ended
    showsQuery,   \* the screen shows one
    task,         \* where each transfer is
    portion,      \* what an export or an import is through
    inMap,        \* in TransferManager: nothing, a flag, the tool's handle
    cancelFlag,   \* the flag
    told,         \* the handle's: cancelled, and the tool to be killed
    tool,         \* the tool's process
    status,       \* what waiting for the tool said
    written,      \* a file is at its place, of an export or a backup
    partial,      \* a backup's file in the making is there
    verdict,      \* how it ended
    halted,       \* history: those the person stopped
    heeded,       \* history: those stopped before they last look
    silent,       \* history: those that end without a word
    misplaced,    \* history: backups whose file could not be moved
    forgotten,    \* history: those whose answer made the screen forget a query that runs
    cancelledFor  \* history: those whose stop cancelled the query

dialogVars == <<open, awaiting, shown>>
queryVars == <<query, showsQuery, forgotten, cancelledFor>>
taskVars == <<task, portion, inMap, tool, status, written, partial, verdict, silent, misplaced>>
transferVars ==
    <<dialogVars, stopUnderWay, answers, queryVars, taskVars, cancelFlag, told, halted, heeded>>

NotStopping == [transfer |-> NoTransfer, found |-> "nothing"]

TransfersInit ==
    /\ open = FALSE
    /\ awaiting = FALSE
    /\ shown = NoTransfer
    /\ stopUnderWay = NotStopping
    /\ answers = <<>>
    /\ query = "none"
    /\ showsQuery = FALSE
    /\ task = [t \in TransfersAll |-> "idle"]
    /\ portion = [t \in TransfersAll |-> 0]
    /\ inMap = [t \in TransfersAll |-> "nothing"]
    /\ cancelFlag = [t \in TransfersAll |-> FALSE]
    /\ told = [t \in TransfersAll |-> FALSE]
    /\ tool = [t \in TransfersAll |-> "none"]
    /\ status = [t \in TransfersAll |-> "none"]
    /\ written = [t \in TransfersAll |-> FALSE]
    /\ partial = [t \in TransfersAll |-> FALSE]
    /\ verdict = [t \in TransfersAll |-> "none"]
    /\ halted = {}
    /\ heeded = {}
    /\ silent = {}
    /\ misplaced = {}
    /\ forgotten = {}
    /\ cancelledFor = {}

\* A transfer begins at most once, and MaxTransfers of them do.
MayRun(t) == task[t] = "idle" /\ Cardinality({u \in TransfersAll : task[u] # "idle"}) < MaxTransfers

LoopIdle == stopUnderWay = NotStopping
Sends(kind, t) == answers' = Append(answers, [kind |-> kind, transfer |-> t])

-----------------------------------------------------------------------------
(* The loop. *)

\* open_transfer: a new dialog, whatever was in the last one.
OpenTransfer ==
    /\ LoopIdle /\ ~open
    /\ \E t \in TransfersAll : MayRun(t)
    /\ open' = TRUE
    /\ awaiting' = FALSE
    /\ shown' = NoTransfer
    /\ UNCHANGED <<stopUnderWay, answers, queryVars, taskVars, cancelFlag, told, halted, heeded>>

CloseTransfer ==
    /\ LoopIdle /\ open /\ ~awaiting
    /\ open' = FALSE
    /\ UNCHANGED <<awaiting, shown, stopUnderWay, answers, queryVars, taskVars, cancelFlag, told,
                   halted, heeded>>

\* run_transfer, then dispatch_transfer: a task of its own, or a session that is closed.
RunTransfer(t) ==
    /\ LoopIdle /\ open /\ ~awaiting /\ MayRun(t)
    /\ awaiting' = TRUE
    /\ shown' = t
    /\ \/ task' = [task EXCEPT ![t] = "queued"] /\ UNCHANGED <<answers, verdict>>
       \/ /\ t \notin Exports
          /\ task' = [task EXCEPT ![t] = "over"]
          /\ verdict' = [verdict EXCEPT ![t] = "failed"]
          /\ Sends("failed", t)
    /\ UNCHANGED <<open, stopUnderWay, queryVars, portion, inMap, cancelFlag, told, tool, status, written,
                   partial, halted, heeded, silent, misplaced>>

\* stop_transfer closes the dialog; cancel takes what the map has of it ...
StopTransfer ==
    /\ LoopIdle /\ open /\ awaiting
    /\ open' = FALSE
    /\ awaiting' = FALSE
    /\ stopUnderWay' = [transfer |-> shown, found |-> inMap[shown]]
    /\ halted' = halted \cup {shown}
    /\ UNCHANGED <<shown, answers, queryVars, taskVars, cancelFlag, told, heeded>>

\* The task has yet to look at what a stop leaves.
WillLook(t, found) ==
    CASE found = "flag" /\ t \in Exports -> task[t] = "working" /\ portion[t] < Portions
      [] found = "flag" /\ t \in Imports -> task[t] = "working"
      [] found = "flag" /\ t \notin Cooperative -> task[t] \in {"dir", "starting", "spawned", "handed"}
      [] found = "handle" -> task[t] \in {"handed", "waiting", "ended"}
      [] OTHER -> FALSE

\* Mutant of StopActs: the query beside is cancelled whatever was found.
StopActsOnAll ==
    /\ ~LoopIdle
    /\ LET t == stopUnderWay.transfer IN
       /\ cancelFlag' = IF stopUnderWay.found = "flag" THEN [cancelFlag EXCEPT ![t] = TRUE] ELSE cancelFlag
       /\ told' = IF stopUnderWay.found = "handle" THEN [told EXCEPT ![t] = TRUE] ELSE told
       /\ cancelledFor' = IF query = "runs" THEN cancelledFor \cup {t} ELSE cancelledFor
       /\ heeded' = IF WillLook(t, stopUnderWay.found) THEN heeded \cup {t} ELSE heeded
       /\ Sends("cancelled", t)
    /\ stopUnderWay' = NotStopping
    /\ UNCHANGED <<dialogVars, query, showsQuery, forgotten, taskVars, halted>>

\* ... and acts on it.  With nothing there, it is the query under way that is cancelled:
\* cancel_live takes it whatever its id.  Either way the loop answers itself.
StopActs ==
    /\ ~LoopIdle
    /\ LET t == stopUnderWay.transfer IN
       /\ cancelFlag' = IF stopUnderWay.found = "flag" THEN [cancelFlag EXCEPT ![t] = TRUE] ELSE cancelFlag
       /\ told' = IF stopUnderWay.found = "handle" THEN [told EXCEPT ![t] = TRUE] ELSE told
       /\ cancelledFor' = IF stopUnderWay.found = "nothing" /\ query = "runs"
                            THEN cancelledFor \cup {t} ELSE cancelledFor
       /\ heeded' = IF WillLook(t, stopUnderWay.found) THEN heeded \cup {t} ELSE heeded
       /\ Sends("cancelled", t)
    /\ stopUnderWay' = NotStopping
    /\ UNCHANGED <<dialogVars, query, showsQuery, forgotten, taskVars, halted>>

\* An answer to the dialog's own transfer ends its wait.  One of another is passed over,
\* except that of a cancel: the screen takes it for its query's.
HearTransfer ==
    /\ LoopIdle
    /\ answers # <<>>
    /\ answers' = Tail(answers)
    /\ LET answer == Head(answers) IN
       CASE answer.kind = "query" ->
              /\ showsQuery' = FALSE
              /\ query' = "none"
              /\ UNCHANGED <<awaiting, shown, forgotten>>
         [] answer.kind # "query" /\ shown = answer.transfer ->
              /\ awaiting' = FALSE
              /\ shown' = NoTransfer
              /\ UNCHANGED <<query, showsQuery, forgotten>>
         [] OTHER ->
              /\ showsQuery' = (showsQuery /\ answer.kind # "cancelled")
              /\ forgotten' = IF answer.kind = "cancelled" /\ showsQuery /\ query = "runs"
                               THEN forgotten \cup {answer.transfer} ELSE forgotten
              /\ UNCHANGED <<awaiting, shown, query>>
    /\ UNCHANGED <<open, stopUnderWay, cancelledFor, taskVars, cancelFlag, told, halted, heeded>>

\* A query beside: begun where no dialog is, once.
QueryBegins ==
    /\ LoopIdle /\ ~open /\ query = "none" /\ ~showsQuery
    /\ query' = "runs"
    /\ showsQuery' = TRUE
    /\ UNCHANGED <<dialogVars, stopUnderWay, answers, forgotten, cancelledFor, taskVars, cancelFlag,
                   told, halted, heeded>>

QueryEnds ==
    /\ query = "runs"
    /\ query' = "ended"
    /\ Sends("query", NoTransfer)
    /\ UNCHANGED <<dialogVars, stopUnderWay, showsQuery, forgotten, cancelledFor, taskVars,
                   cancelFlag, told, halted, heeded>>

-----------------------------------------------------------------------------
(* The tasks.  What they tell the map last, and the answer they send, are one step: a stop *)
(* in between finds nothing, as one after both does, and the dialog is closed by then.      *)

taskKept == <<dialogVars, stopUnderWay, queryVars, cancelFlag, halted, heeded>>

Over(t, how) ==
    /\ task' = [task EXCEPT ![t] = "over"]
    /\ inMap' = [inMap EXCEPT ![t] = "nothing"]
    /\ verdict' = [verdict EXCEPT ![t] = how]
    /\ Sends(how, t)

Goes(t, at) == task' = [task EXCEPT ![t] = at] /\ UNCHANGED <<inMap, verdict, answers>>

\* An import on a session that takes no rows, a tool there is none of, end at once.
BeginTransfer(t) ==
    /\ task[t] = "queued"
    /\ \/ /\ task' = [task EXCEPT ![t] = IF t \in Cooperative THEN "working" ELSE "dir"]
          /\ inMap' = [inMap EXCEPT ![t] = "flag"]
          /\ UNCHANGED <<verdict, answers>>
       \/ t \notin Exports /\ Over(t, "failed")
    /\ UNCHANGED <<taskKept, portion, told, tool, status, written, partial, silent, misplaced>>

\* A row of an export, a batch of an import: the flag is looked at first.
Work(t) ==
    /\ task[t] = "working" /\ portion[t] < Portions
    /\ IF cancelFlag[t] THEN Over(t, "cancelled") /\ UNCHANGED portion
       ELSE \/ /\ portion' = [portion EXCEPT ![t] = @ + 1]
               /\ UNCHANGED <<task, inMap, verdict, answers>>
            \/ Over(t, "failed") /\ UNCHANGED portion
    /\ UNCHANGED <<taskKept, told, tool, status, written, partial, silent, misplaced>>

\* After its last row an export moves its file to its place; an import looks once more.
Complete(t) ==
    /\ task[t] = "working" /\ portion[t] = Portions
    /\ IF t \in Imports /\ cancelFlag[t] THEN Over(t, "cancelled") /\ UNCHANGED written
       ELSE \/ Over(t, "finished") /\ written' = [written EXCEPT ![t] = t \in Exports]
            \/ Over(t, "failed") /\ UNCHANGED written
    /\ UNCHANGED <<taskKept, portion, told, tool, status, partial, silent, misplaced>>

\* run_native: without a directory of its own it returns, and tells nobody.
MakeDirectory(t) ==
    /\ task[t] = "dir"
    /\ \/ Goes(t, "starting") /\ UNCHANGED silent
       \/ /\ task' = [task EXCEPT ![t] = "over"]
          /\ verdict' = [verdict EXCEPT ![t] = "failed"]
          /\ silent' = silent \cup {t}
          /\ UNCHANGED <<inMap, answers>>
    /\ UNCHANGED <<taskKept, portion, told, tool, status, written, partial, misplaced>>

StartTool(t) ==
    /\ task[t] = "starting"
    /\ \/ /\ Goes(t, "spawned")
          /\ tool' = [tool EXCEPT ![t] = "runs"]
          /\ partial' = [partial EXCEPT ![t] = t \in Backups]
       \/ Over(t, "failed") /\ UNCHANGED <<tool, partial>>
    /\ UNCHANGED <<taskKept, portion, told, status, written, silent, misplaced>>

\* The handle takes the flag's place in the map, and then the flag is looked at.
HandOver(t) ==
    /\ task[t] = "spawned"
    /\ task' = [task EXCEPT ![t] = "handed"]
    /\ inMap' = [inMap EXCEPT ![t] = "handle"]
    /\ UNCHANGED <<taskKept, answers, portion, told, tool, status, written, partial, verdict, silent,
                   misplaced>>

LookAtFlag(t) ==
    /\ task[t] = "handed"
    /\ Goes(t, "waiting")
    /\ told' = IF cancelFlag[t] THEN [told EXCEPT ![t] = TRUE] ELSE told
    /\ UNCHANGED <<taskKept, portion, tool, status, written, partial, silent, misplaced>>

\* What the tool does is its own affair.
ToolEnds(t) ==
    /\ tool[t] = "runs"
    /\ \E end \in {"well", "badly"} : tool' = [tool EXCEPT ![t] = end]
    /\ UNCHANGED <<taskKept, answers, task, portion, inMap, told, status, written, partial, verdict,
                   silent, misplaced>>

\* wait: the tool's end, or the word to kill it, whichever is seen first.
AwaitTool(t) ==
    /\ task[t] = "waiting"
    /\ \/ /\ tool[t] \in {"well", "badly"}
          /\ status' = [status EXCEPT ![t] = tool[t]]
          /\ UNCHANGED tool
       \/ /\ told[t]
          /\ tool' = [tool EXCEPT ![t] = "killed"]
          /\ status' = [status EXCEPT ![t] = "killed"]
    /\ Goes(t, "ended")
    /\ UNCHANGED <<taskKept, portion, told, written, partial, silent, misplaced>>

\* Mutant of Judge: what the tool said of itself counts.
TakeItsWord(t) ==
    /\ task[t] = "ended"
    /\ Goes(t, "judged")
    /\ UNCHANGED <<taskKept, portion, told, tool, status, written, partial, silent, misplaced>>

\* outcome: one that was cancelled is, whatever the tool said.
JudgeTool(t) ==
    /\ task[t] = "ended"
    /\ Goes(t, "judged")
    /\ status' = IF told[t] THEN [status EXCEPT ![t] = "killed"] ELSE status
    /\ UNCHANGED <<taskKept, portion, told, tool, written, partial, silent, misplaced>>

\* A backup that is whole is moved to its place; of any other nothing is left.
Settle(t) ==
    /\ task[t] = "judged"
    /\ IF status[t] = "well" /\ t \in Backups
       THEN \/ /\ written' = [written EXCEPT ![t] = TRUE]
               /\ partial' = [partial EXCEPT ![t] = FALSE]
               /\ Over(t, "finished")
               /\ UNCHANGED misplaced
            \/ /\ misplaced' = misplaced \cup {t}
               /\ Over(t, "failed")
               /\ UNCHANGED <<written, partial>>
       ELSE /\ partial' = [partial EXCEPT ![t] = FALSE]
            /\ Over(t, CASE status[t] = "well" -> "finished"
                         [] status[t] = "badly" -> "failed"
                         [] status[t] = "killed" -> "cancelled")
            /\ UNCHANGED <<written, misplaced>>
    /\ UNCHANGED <<taskKept, portion, told, tool, status, silent>>

TransferStep(t) ==
    \/ BeginTransfer(t) \/ Work(t) \/ Complete(t)
    \/ MakeDirectory(t) \/ StartTool(t) \/ HandOver(t) \/ LookAtFlag(t)
    \/ AwaitTool(t) \/ JudgeTool(t) \/ Settle(t)

TransfersNext ==
    \/ OpenTransfer \/ CloseTransfer \/ StopTransfer \/ StopActs \/ HearTransfer
    \/ QueryBegins \/ QueryEnds
    \/ \E t \in TransfersAll : RunTransfer(t) \/ TransferStep(t) \/ ToolEnds(t)

TransfersSpec == TransfersInit /\ [][TransfersNext]_transferVars

-----------------------------------------------------------------------------

Kinds == {"finished", "failed", "cancelled", "query"}

TransfersTypeOK ==
    /\ open \in BOOLEAN /\ awaiting \in BOOLEAN
    /\ shown \in TransfersAll \cup {NoTransfer}
    /\ stopUnderWay \in [transfer : TransfersAll \cup {NoTransfer}, found : {"nothing", "flag", "handle"}]
    /\ answers \in Seq([kind : Kinds, transfer : TransfersAll \cup {NoTransfer}])
    /\ query \in {"none", "runs", "ended"}
    /\ showsQuery \in BOOLEAN
    /\ task \in [TransfersAll -> {"idle", "queued", "working", "dir", "starting", "spawned", "handed",
                                  "waiting", "ended", "judged", "over"}]
    /\ portion \in [TransfersAll -> 0..Portions]
    /\ inMap \in [TransfersAll -> {"nothing", "flag", "handle"}]
    /\ cancelFlag \in [TransfersAll -> BOOLEAN] /\ told \in [TransfersAll -> BOOLEAN]
    /\ tool \in [TransfersAll -> {"none", "runs", "well", "badly", "killed"}]
    /\ status \in [TransfersAll -> {"none", "well", "badly", "killed"}]
    /\ written \in [TransfersAll -> BOOLEAN] /\ partial \in [TransfersAll -> BOOLEAN]
    /\ verdict \in [TransfersAll -> {"none", "finished", "failed", "cancelled"}]
    /\ \A ts \in {halted, heeded, silent, misplaced, forgotten, cancelledFor} : ts \subseteq TransfersAll

\* A transfer stopped before its last look does not finish; and of one that did not finish
\* there is no file, neither at its place nor in the making -- unless a whole one could not be
\* moved.
StopIsHeeded ==
    \A t \in TransfersAll :
        /\ t \in heeded => verdict[t] # "finished"
        /\ verdict[t] \notin {"none", "finished"} => ~written[t] /\ (partial[t] => t \in misplaced)
        /\ verdict[t] # "none" => tool[t] # "runs"

\* A dialog that waits has an answer coming -- but for a tool that had no directory.  One stop
\* ends one thing: a transfer whose stop went to the query beside, finding nothing of its own,
\* is never stopped by it as well, whenever it registers after all.  And the screen forgets a
\* query for none that was not stopped.
AnswersReachTheirAsker ==
    /\ awaiting =>
        \/ task[shown] # "over"
        \/ shown \in silent
        \/ \E i \in 1..Len(answers) : answers[i].transfer = shown
    /\ \A t \in cancelledFor : verdict[t] # "cancelled"
    /\ forgotten \subseteq halted
=============================================================================
