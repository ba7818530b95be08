---------------------------- MODULE WorkbenchRuns ----------------------------
(***************************************************************************)
(* What the workbench runs, and what it knows of it.  The model says which *)
(* run is on (active_query, active_operation in update.rs); the loop that  *)
(* draws also runs the effects, one at a time (event.rs, runtime/mod.rs);  *)
(* every run is a task of its own (runtime/query_runner.rs), which starts  *)
(* one statement after another through the query service, keeps the one    *)
(* that runs in a slot shared by all of them, and tells the loop through   *)
(* one queue of bounded length, that the loop itself also writes to.       *)
(*                                                                         *)
(* Meta commands, which no driver sees, and the statements' texts are left *)
(* out; the database ends, fails or keeps a statement as it likes.         *)
(***************************************************************************)
EXTENDS Naturals, Sequences, FiniteSets

CONSTANTS
    Scripts,    \* runs of the editor's statements
    Reruns,     \* a result run again with a WHERE, an ORDER BY, a page
    Explains,   \* plans asked for
    Statements, \* how many each script has
    Capacity,   \* of the queue of actions (32)
    MaxLaunches, \* bound: how many runs the user starts
    MaxElsewhere \* bound: how often something that is no run fails

Runs == Scripts \cup Reruns \cup Explains
NoRun == "none"

ASSUME RunsAssumption ==
    /\ Scripts \cap Reruns = {} /\ Scripts \cap Explains = {} /\ Reruns \cap Explains = {}
    /\ NoRun \notin Runs
    /\ Statements \in [Scripts -> Nat \ {0}]
    /\ Capacity \in Nat \ {0}
    /\ MaxLaunches \in Nat
    /\ MaxElsewhere \in Nat

VARIABLES
    policy,          \* Model.script_policy
    activeQuery,     \* Model.active_query, as the run it was set for
    activeOperation, \* Model.active_operation
    loop,            \* the loop: at its select!, or in an effect
    actions,         \* the queue of actions
    liveSlot,        \* the runtime's `live`: a statement of a run
    script,          \* where each run's task is
    nth,             \* its statement
    token,           \* runs whose statement's token is cancelled
    hasFailed,       \* `failed` of run_script
    asked,           \* history: runs the user asked to cancel
    struckAt,        \* history: the statement of a run that a cancel or its time limit ended
    beside,          \* history: runs that were on while another was
    elsewhere,       \* history: how often something that is no run has failed
    overheard        \* history: runs that were on when the loop heard of an end that is no run's

loopVars == <<policy, activeQuery, activeOperation, loop>>
taskVars == <<script, nth, token, hasFailed>>
runHistory == <<asked, struckAt, beside, elsewhere, overheard>>
workVars == <<policy, activeQuery, activeOperation, loop, actions, liveSlot, script, nth,
              token, hasFailed, asked, struckAt, beside, elsewhere, overheard>>

Says(kind, r) == [kind |-> kind, run |-> r]
NoStatement == [run |-> NoRun, nth |-> 0]
Selecting == [at |-> "select"]
LastOf(r) == IF r \in Scripts THEN Statements[r] ELSE 1
InProgress(r) == script[r] \notin {"idle", "done"}
\* In progress, or with something still to be read of it.
Heard(r) == InProgress(r) \/ \E i \in 1..Len(actions) : actions[i].run = r

WorkInit ==
    /\ policy \in {"stop", "continue"}
    /\ activeQuery = NoRun
    /\ activeOperation = NoRun
    /\ loop = Selecting
    /\ actions = <<>>
    /\ liveSlot = NoStatement
    /\ script = [r \in Runs |-> "idle"]
    /\ nth = [r \in Runs |-> 0]
    /\ token = {}
    /\ hasFailed = [r \in Runs |-> FALSE]
    /\ asked = {}
    /\ struckAt = [r \in Runs |-> 0]
    /\ beside = {}
    /\ elsewhere = 0
    /\ overheard = {}

\* Their statement is with the database, for all they know.
Executing ==
    {r \in Scripts \cup Reruns : script[r] \in {"started", "heading", "consuming", "forwarding"}}

\* Mutant of Post: it does not wait for room.
PostAtOnce(a) == actions' = Append(actions, a)

\* Sender::send: it waits for room, and goes on once the action is in the queue.
Post(a) ==
    /\ Len(actions) < Capacity
    /\ actions' = Append(actions, a)

-----------------------------------------------------------------------------
(* The loop: keys, effects, actions. *)

\* "One run at a time": launch_script for a script, rerun_refused and explain for the others.
MayLaunch(r) == IF r \in Scripts THEN activeQuery = NoRun ELSE activeOperation = NoRun

\* The effect: a task of its own, with EXPLAIN's slot set here -- or no session to run it on.
Launch(r) ==
    /\ loop = Selecting
    /\ script[r] = "idle"
    /\ Cardinality({s \in Runs : script[s] # "idle"}) < MaxLaunches
    /\ MayLaunch(r)
    /\ activeOperation' = r
    /\ activeQuery' = IF r \in Scripts THEN r ELSE activeQuery
    /\ beside' = IF \E s \in Runs \ {r} : Heard(s)
                 THEN beside \cup {r} \cup {s \in Runs : Heard(s)} ELSE beside
    /\ \/ /\ script' = [script EXCEPT ![r] = IF r \in Explains THEN "consuming" ELSE "announcing"]
          /\ nth' = [nth EXCEPT ![r] = IF r \in Explains THEN 1 ELSE 0]
          /\ liveSlot' = IF r \in Explains THEN [run |-> r, nth |-> 1] ELSE liveSlot
          /\ UNCHANGED loop
       \/ /\ loop' = [at |-> "posting",
                      action |-> Says(IF r \in Explains THEN "explained" ELSE "refused", r)]
          /\ script' = [script EXCEPT ![r] = "done"]
          /\ UNCHANGED <<nth, liveSlot>>
    /\ UNCHANGED <<policy, actions, token, hasFailed, asked, struckAt, elsewhere, overheard>>

\* cancel_live: whatever the slot has is taken, its token cancelled if its task is still
\* there, and the session asked to stop it.  EXPLAIN's task looks at no token.
TakesSlot(o) ==
    /\ loop' = [at |-> "cancelling", run |-> o]
    /\ liveSlot' = NoStatement
    /\ asked' = asked \cup {o}
    /\ token' = token \cup {s \in Executing : liveSlot = [run |-> s, nth |-> nth[s]]}

CancelQuery ==
    /\ loop = Selecting
    /\ activeOperation # NoRun
    /\ TakesSlot(activeOperation)
    /\ UNCHANGED <<policy, activeQuery, activeOperation, actions, script, nth,
                   hasFailed, struckAt, beside, elsewhere, overheard>>

\* The session has answered the cancel.
CancelAnswered ==
    /\ loop.at = "cancelling"
    /\ loop' = [at |-> "posting", action |-> Says("cancelled", loop.run)]
    /\ UNCHANGED <<policy, activeQuery, activeOperation, actions, liveSlot, taskVars, runHistory>>

FailsElsewhere ==
    /\ elsewhere < MaxElsewhere
    /\ elsewhere' = elsewhere + 1
    /\ UNCHANGED <<asked, struckAt, beside, overheard>>

\* A file's autosave is an effect of the loop's as well; its failure is an OperationFailed.
AutosaveFails ==
    /\ loop = Selecting
    /\ loop' = [at |-> "posting", action |-> Says("failed", NoRun)]
    /\ FailsElsewhere
    /\ UNCHANGED <<policy, activeQuery, activeOperation, actions, liveSlot, taskVars>>

\* So is that of a task of something else, the history's read; and a transfer's cancel, once
\* its dialog has gone, ends what the loop takes for a run's in the same way.
OtherTaskFails ==
    /\ Post(Says("failed", NoRun))
    /\ FailsElsewhere
    /\ UNCHANGED <<loopVars, liveSlot, taskVars>>

\* The loop's own sends: OperationCancelled, OperationFailed, ExplainFailed.
LoopPosts ==
    /\ loop.at = "posting"
    /\ Post(loop.action)
    /\ loop' = Selecting
    /\ UNCHANGED <<policy, activeQuery, activeOperation, liveSlot, taskVars, runHistory>>

Ends == {"finished", "failed", "refused", "cancelled"}

\* Those whose task is on, or still to be read of, while the end of something else is read.
Overhear(a) ==
    overheard' = IF a.run = NoRun THEN overheard \cup {r \in Runs : Heard(r)} ELSE overheard

\* Mutant of ReceiveAction: a statement's output also counts as the end.
ReceiveActionOutputEnds ==
    /\ loop = Selecting
    /\ actions # <<>>
    /\ activeQuery' = IF Head(actions).kind = "started" THEN activeQuery ELSE NoRun
    /\ activeOperation' = IF Head(actions).kind = "started" THEN Head(actions).run ELSE NoRun
    /\ Overhear(Head(actions))
    /\ actions' = Tail(actions)
    /\ UNCHANGED <<policy, loop, liveSlot, taskVars, asked, struckAt, beside, elsewhere>>

\* update(): an end clears both fields, whichever run it is the end of, and if it is no run's.
ReceiveAction ==
    /\ loop = Selecting
    /\ actions # <<>>
    /\ LET a == Head(actions) IN
       /\ activeQuery' = IF a.kind \in Ends THEN NoRun ELSE activeQuery
       /\ activeOperation' =
            CASE a.kind = "started" -> a.run
              [] a.kind \in Ends -> NoRun
              [] a.kind = "explained" /\ activeOperation = a.run -> NoRun
              [] OTHER -> activeOperation
       /\ Overhear(a)
    /\ actions' = Tail(actions)
    /\ UNCHANGED <<policy, loop, liveSlot, taskVars, asked, struckAt, beside, elsewhere>>

-----------------------------------------------------------------------------
(* run_script, a task of its own. *)

Goes(r, from, to) == script[r] = from /\ script' = [script EXCEPT ![r] = to]

Announce(r) ==
    /\ Goes(r, "announcing", "between")
    /\ Post(Says("started", r))
    /\ UNCHANGED <<loopVars, liveSlot, nth, token, hasFailed, runHistory>>

StartStatement(r) ==
    /\ Goes(r, "between", "started")
    /\ nth[r] < LastOf(r)
    /\ ~(hasFailed[r] /\ policy = "stop")
    /\ nth' = [nth EXCEPT ![r] = @ + 1]
    /\ UNCHANGED <<loopVars, actions, liveSlot, token, hasFailed, runHistory>>

\* Mutant of SetSlot: a slot that has a statement is left alone.
SetSlotOnce(r) ==
    /\ Goes(r, "started", "heading")
    /\ liveSlot' = IF liveSlot = NoStatement THEN [run |-> r, nth |-> nth[r]] ELSE liveSlot
    /\ UNCHANGED <<loopVars, actions, nth, token, hasFailed, runHistory>>

SetSlot(r) ==
    /\ Goes(r, "started", "heading")
    /\ liveSlot' = [run |-> r, nth |-> nth[r]]
    /\ UNCHANGED <<loopVars, actions, nth, token, hasFailed, runHistory>>

Headline(r) ==
    /\ Goes(r, "heading", "consuming")
    /\ Post(Says("output", r))
    /\ UNCHANGED <<loopVars, liveSlot, nth, token, hasFailed, runHistory>>

ReadRows(r) ==
    /\ r \notin Explains
    /\ Goes(r, "consuming", "forwarding")
    /\ UNCHANGED <<loopVars, actions, liveSlot, nth, token, hasFailed, runHistory>>

Forward(r) ==
    /\ Goes(r, "forwarding", "consuming")
    /\ Post(Says("output", r))
    /\ UNCHANGED <<loopVars, liveSlot, nth, token, hasFailed, runHistory>>

SeeEnd(r) ==
    /\ r \notin Explains
    /\ Goes(r, "consuming", "between")
    /\ token' = token \ {r}
    /\ UNCHANGED <<loopVars, actions, liveSlot, nth, hasFailed, runHistory>>

SeeFailure(r) ==
    /\ r \notin Explains
    /\ Goes(r, "consuming", "reporting")
    /\ token' = token \ {r}
    /\ UNCHANGED <<loopVars, actions, liveSlot, nth, hasFailed, runHistory>>

\* The token won the service's select against the statement: the session is told to stop it.
\* Its task leaves the registry however it ended.
SeeCancelled(r) ==
    /\ r \in token
    /\ Goes(r, "consuming", "reporting")
    /\ struckAt' = [struckAt EXCEPT ![r] = nth[r]]
    /\ token' = token \ {r}
    /\ UNCHANGED <<loopVars, actions, liveSlot, nth, hasFailed, asked, beside, elsewhere, overheard>>

\* The statement's time is up, also while its rows wait for room: the session and the task
\* are told to stop.
TimesOut(r) ==
    /\ r \notin Explains
    /\ script[r] \in {"consuming", "forwarding"}
    /\ script' = [script EXCEPT ![r] = "reporting"]
    /\ struckAt' = [struckAt EXCEPT ![r] = nth[r]]
    /\ token' = token \ {r}
    /\ UNCHANGED <<loopVars, actions, liveSlot, nth, hasFailed, asked, beside, elsewhere, overheard>>

\* Mutant of ReportFailure: it is not remembered that a statement failed.
ReportFailureOnly(r) ==
    /\ Goes(r, "reporting", "between")
    /\ Post(Says("failed", r))
    /\ UNCHANGED <<loopVars, liveSlot, nth, token, hasFailed, runHistory>>

ReportFailure(r) ==
    /\ Goes(r, "reporting", "between")
    /\ Post(Says("failed", r))
    /\ hasFailed' = [hasFailed EXCEPT ![r] = TRUE]
    /\ UNCHANGED <<loopVars, liveSlot, nth, token, runHistory>>

\* After the last statement: what became of the transaction or the session, if it can say;
\* then the end, unless a failure has already said it.
LeaveStatements(r) ==
    /\ script[r] = "between"
    /\ nth[r] = LastOf(r) \/ (hasFailed[r] /\ policy = "stop")
    /\ \/ UNCHANGED actions
       \/ Post(Says("output", r))
    /\ script' = [script EXCEPT ![r] = IF hasFailed[r] THEN "done" ELSE "finishing"]
    /\ UNCHANGED <<loopVars, liveSlot, nth, token, hasFailed, runHistory>>

\* Mutant of FinishScript: it says nothing.
FinishScriptSilently(r) ==
    /\ Goes(r, "finishing", "done")
    /\ UNCHANGED <<loopVars, actions, liveSlot, nth, token, hasFailed, runHistory>>

FinishScript(r) ==
    /\ Goes(r, "finishing", "done")
    /\ Post(Says("finished", r))
    /\ UNCHANGED <<loopVars, liveSlot, nth, token, hasFailed, runHistory>>

-----------------------------------------------------------------------------
(* EXPLAIN's task: its plan, or its failure, when the database likes. *)

AnswerPlan(r) ==
    /\ r \in Explains
    /\ Goes(r, "consuming", "clearing")
    /\ Post(Says("explained", r))
    /\ UNCHANGED <<loopVars, liveSlot, nth, token, hasFailed, runHistory>>

ClearSlot(r) ==
    /\ Goes(r, "clearing", "done")
    /\ liveSlot' = IF liveSlot.run = r THEN NoStatement ELSE liveSlot
    /\ UNCHANGED <<loopVars, actions, nth, token, hasFailed, runHistory>>

-----------------------------------------------------------------------------
LoopStep == CancelQuery \/ CancelAnswered \/ AutosaveFails \/ LoopPosts \/ ReceiveAction
ScriptStep(r) ==
    \/ Announce(r) \/ StartStatement(r) \/ SetSlot(r) \/ Headline(r) \/ ReadRows(r) \/ Forward(r)
    \/ SeeEnd(r) \/ SeeFailure(r) \/ SeeCancelled(r) \/ TimesOut(r) \/ ReportFailure(r)
    \/ LeaveStatements(r) \/ FinishScript(r) \/ AnswerPlan(r) \/ ClearSlot(r)

WorkNext ==
    \/ LoopStep
    \/ OtherTaskFails
    \/ \E r \in Runs : Launch(r) \/ ScriptStep(r)

WorkSpec == WorkInit /\ [][WorkNext]_workVars

(***************************************************************************)
(* The loop reads its queue and ends its effects, a session answers a      *)
(* cancel, every task goes on.  A statement of a script ends by its time   *)
(* limit at the latest; nothing makes a plan end, nor the user do a thing. *)
(***************************************************************************)
WorkFairness ==
    /\ WF_workVars(ReceiveAction \/ CancelAnswered \/ LoopPosts)
    /\ \A r \in Scripts \cup Reruns : SF_workVars(ScriptStep(r)) /\ WF_workVars(TimesOut(r))
    /\ \A r \in Explains : WF_workVars(ClearSlot(r))

-----------------------------------------------------------------------------
WorkTypeOK ==
    /\ policy \in {"stop", "continue"}
    /\ activeQuery \in Scripts \cup {NoRun}
    /\ activeOperation \in Runs \cup {NoRun}
    /\ loop \in {Selecting}
         \cup [at : {"cancelling"}, run : Runs]
         \cup [at : {"posting"}, action : [kind : {"cancelled", "refused", "explained"}, run : Runs]]
         \cup [at : {"posting"}, action : {Says("failed", NoRun)}]
    /\ actions \in Seq([kind : {"started", "output", "failed", "finished", "cancelled", "refused",
                                "explained"}, run : Runs] \cup {Says("failed", NoRun)})
    /\ liveSlot \in [run : Runs \cup {NoRun}, nth : Nat]
    /\ script \in [Runs -> {"idle", "announcing", "between", "started", "heading", "consuming",
                            "forwarding", "reporting", "finishing", "clearing", "done"}]
    /\ nth \in [Runs -> Nat] /\ \A r \in Runs : nth[r] <= LastOf(r)
    /\ token \subseteq Runs
    /\ hasFailed \in [Runs -> BOOLEAN]
    /\ asked \subseteq Runs
    /\ struckAt \in [Runs -> Nat]
    /\ beside \subseteq Runs
    /\ elsewhere \in Nat
    /\ overheard \subseteq Runs
    /\ Len(actions) <= Capacity

\* "One run at a time" (update.rs:8419): two scripts are on at once only after a script -- one
\* of them or one before, whose late end then clears the next one's active_query -- was
\* cancelled, or failed and went on, which the screen takes for its end; or once a re-run or a
\* plan, which active_query does not count, was on beside one; or once the end of something
\* that is no run, a failed autosave or history read, was heard while one was on, which clears
\* active_query all the same (update.rs:448-461).
Unasked ==
    /\ \A p \in Scripts : p \notin asked /\ ~hasFailed[p]
    /\ \A o \in Reruns \cup Explains : script[o] = "idle"
Undisturbed == Unasked /\ overheard = {}
AtMostOneScript == \A r, s \in Scripts : InProgress(r) /\ InProgress(s) => r = s
OneRunAtATime == Undisturbed => AtMostOneScript

\* A run that was never beside another is the one on screen for as long as it is on, so that
\* Ctrl+F2 and quitting reach it -- unless it failed and goes on, a cancel was asked for it, or
\* the failure of something that is no run was heard meanwhile, which takes it off the screen.
TheRunIsOnScreen ==
    \A r \in Scripts \cup Reruns :
        /\ InProgress(r)
        /\ r \notin beside \cup asked \cup overheard
        /\ ~hasFailed[r]
        => activeOperation = r

\* A script whose statement a cancel ended, or its time limit, starts no further one
\* (StopOnError) -- which the session's cancel, that arrives when it likes, might stop too.
StruckScriptStops ==
    policy = "stop" => \A r \in Runs : struckAt[r] # 0 => nth[r] = struckAt[r]

\* What a cancel would take is the statement that is with the database, not the one before it
\* nor another run's: so it reaches what it is asked for -- unless runs were on together, or a
\* cancel was asked for this one before.
TheSlotHoldsTheStatement ==
    \A r \in Runs \ (beside \cup asked) :
        script[r] \in {"heading", "consuming", "forwarding"} =>
            liveSlot = [run |-> r, nth |-> nth[r]]

\* The loop waits for room in the queue that only it empties.
LoopWaitsForItself == loop.at = "posting" /\ Len(actions) = Capacity

\* Nothing spins for ever: the screen stops saying that a script runs, its statements' time
\* limits seeing to it, whatever was cancelled and whatever came late -- unless the loop waits
\* for itself.
NothingSpinsForEver ==
    activeOperation \in Scripts \cup Reruns
        ~> (activeOperation \notin Scripts \cup Reruns \/ LoopWaitsForItself)

\* "No work on the loop that draws the screen": it never waits for itself.
LoopNeverWaitsForItself == ~LoopWaitsForItself
=============================================================================
