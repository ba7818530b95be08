---------------------------- MODULE DuckdbCancel ----------------------------
(***************************************************************************)
(* One DuckDB connection and those who stop what runs on it                *)
(* (dexo-driver-duckdb/src/session.rs).  Queries run scripts through       *)
(* execute and are stopped by id: marked under a lock, and interrupted if  *)
(* they are the one running.  Other work -- a catalog load, an EXPLAIN, a  *)
(* page of rows -- runs through with_conn and is stopped when its future   *)
(* is dropped.  There is one interrupt for the connection: it reaches the  *)
(* statement that executes, whosever it is, and is lost when none does.    *)
(***************************************************************************)
EXTENDS Naturals, Sequences, FiniteSets, SequencesExt

CONSTANTS
    Queries,    \* scripts run through execute
    Works,      \* calls of with_conn
    Length,     \* the statements of a script
    Kept        \* CANCELS_KEPT

Jobs == Queries \cup Works
NoJob == "nobody"

ASSUME DuckAssumption ==
    /\ Queries \cap Works = {}
    /\ NoJob \notin Jobs
    /\ Length \in Nat \ {0}
    /\ Kept \in Nat \ {0}

VARIABLES
    job,        \* where each job is
    holder,     \* who has the connection's lock
    liveQuery,  \* Live.running
    marks,      \* Live.cancelled, newest last
    left,       \* the statements a script has left
    flag,       \* the AtomicU8 of each with_conn call
    abandon,    \* its Abandon guard
    struck,     \* the interrupt reached the statement that executes
    asked,      \* history: queries someone asked to stop
    evicted,    \* history: queries whose mark was dropped for newer ones
    begun,      \* history: statements each query began since it was asked to stop
    stray       \* history: jobs an interrupt for another work reached

duckHistory == <<asked, evicted, begun, stray>>
duckVars == <<job, holder, liveQuery, marks, left, flag, abandon, struck,
              asked, evicted, begun, stray>>

DuckInit ==
    /\ job = [j \in Jobs |-> "idle"]
    /\ holder = NoJob
    /\ liveQuery = NoJob
    /\ marks = <<>>
    /\ left = [q \in Queries |-> Length]
    /\ flag = [w \in Works |-> "waiting"]
    /\ abandon = [w \in Works |-> "armed"]
    /\ struck = {}
    /\ asked = {}
    /\ evicted = {}
    /\ begun = [q \in Queries |-> 0]
    /\ stray = {}

Step(j, from, to) == job[j] = from /\ job' = [job EXCEPT ![j] = to]
\* retain: stop() marks no query twice.
Forget(q) == RemoveFirst(marks, q)
Marked(q) == Contains(marks, q)

\* interrupt(): the statement that executes is struck; with none, nothing is.
Executing == {j \in Jobs : job[j] = "executing"}

-----------------------------------------------------------------------------
(* Taking the connection, on a blocking thread. *)

Submit(j) ==
    /\ Step(j, "idle", "waiting")
    /\ UNCHANGED <<holder, liveQuery, marks, left, flag, abandon, struck, duckHistory>>

TakeConnection(j) ==
    /\ Step(j, "waiting", "holding")
    /\ holder = NoJob
    /\ holder' = j
    /\ UNCHANGED <<liveQuery, marks, left, flag, abandon, struck, duckHistory>>

LetGo(j) ==
    /\ Step(j, "leaving", "done")
    /\ holder' = NoJob
    /\ UNCHANGED <<liveQuery, marks, left, flag, abandon, struck, duckHistory>>

-----------------------------------------------------------------------------
(* A script. *)

\* Under the lock of Live: asked to stop while it waited, it never starts.
StartQuery(q) ==
    /\ job[q] = "holding"
    /\ IF Marked(q)
       THEN /\ marks' = Forget(q)
            /\ job' = [job EXCEPT ![q] = "leaving"]
            /\ UNCHANGED liveQuery
       ELSE /\ liveQuery' = q
            /\ job' = [job EXCEPT ![q] = "between"]
            /\ UNCHANGED marks
    /\ UNCHANGED <<holder, left, flag, abandon, struck, duckHistory>>

\* Mutant of LookAtMark: the next statement just starts.
LookAtNothing(q) ==
    /\ left[q] > 0
    /\ Step(q, "between", "ready")
    /\ UNCHANGED <<holder, liveQuery, marks, left, flag, abandon, struck, duckHistory>>

\* Between two statements the mark is looked at: DuckDB forgets an interrupt that comes there.
LookAtMark(q) ==
    /\ left[q] > 0
    /\ Step(q, "between", IF Marked(q) THEN "ending" ELSE "ready")
    /\ UNCHANGED <<holder, liveQuery, marks, left, flag, abandon, struck, duckHistory>>

BeginStatement(q) ==
    /\ Step(q, "ready", "executing")
    /\ begun' = IF q \in asked THEN [begun EXCEPT ![q] = @ + 1] ELSE begun
    /\ UNCHANGED <<holder, liveQuery, marks, left, flag, abandon, struck, asked, evicted, stray>>

StatementEnds(q) ==
    /\ Step(q, "executing", IF left[q] = 1 THEN "ending" ELSE "between")
    /\ left' = [left EXCEPT ![q] = @ - 1]
    /\ struck' = struck \ {q}
    /\ UNCHANGED <<holder, liveQuery, marks, flag, abandon, duckHistory>>

\* A struck statement fails, and its script with it; so does one that fails by itself.
StatementFails(q) ==
    /\ Step(q, "executing", "ending")
    /\ UNCHANGED <<holder, liveQuery, marks, left, flag, abandon, struck, duckHistory>>

EndQuery(q) ==
    /\ Step(q, "ending", "leaving")
    /\ liveQuery' = NoJob
    /\ marks' = Forget(q)
    /\ UNCHANGED <<holder, left, flag, abandon, struck, duckHistory>>

\* Mutants of Stop: whatever runs is interrupted; or the oldest mark is kept too.
StopWhoeverRuns(q) ==
    /\ job[q] # "idle"
    /\ marks' = IF Marked(q) THEN marks ELSE Append(marks, q)
    /\ struck' = struck \cup Executing
    /\ asked' = asked \cup {q}
    /\ UNCHANGED <<job, holder, liveQuery, left, flag, abandon, evicted, begun, stray>>
StopKeepingAll(q) ==
    /\ job[q] # "idle"
    /\ marks' = IF Marked(q) THEN marks ELSE Append(marks, q)
    /\ struck' = IF liveQuery = q THEN struck \cup Executing ELSE struck
    /\ asked' = asked \cup {q}
    /\ UNCHANGED <<job, holder, liveQuery, left, flag, abandon, evicted, begun, stray>>

\* stop(), of a cancel or of the query's own timeout, under the lock of Live throughout.
Stop(q) ==
    /\ job[q] # "idle"
    /\ LET newer == IF Marked(q) THEN marks ELSE Append(marks, q)
           full == Len(newer) > Kept IN
       /\ marks' = IF full THEN Tail(newer) ELSE newer
       /\ evicted' = IF full THEN evicted \cup {Head(newer)} ELSE evicted
    /\ struck' = IF liveQuery = q THEN struck \cup Executing ELSE struck
    /\ asked' = asked \cup {q}
    /\ UNCHANGED <<job, holder, liveQuery, left, flag, abandon, begun, stray>>

-----------------------------------------------------------------------------
(* with_conn. *)

StartWork(w) ==
    /\ job[w] = "holding"
    /\ IF flag[w] = "waiting"
       THEN /\ flag' = [flag EXCEPT ![w] = "running"]
            /\ job' = [job EXCEPT ![w] = "executing"]
       ELSE /\ job' = [job EXCEPT ![w] = "leaving"]
            /\ UNCHANGED flag
    /\ UNCHANGED <<holder, liveQuery, marks, left, abandon, struck, duckHistory>>

\* Before the connection is let go; an abandoned work stays so.
EndWork(w) ==
    /\ Step(w, "executing", "leaving")
    /\ flag' = [flag EXCEPT ![w] = IF @ = "running" THEN "done" ELSE @]
    /\ UNCHANGED <<holder, liveQuery, marks, left, abandon, struck, duckHistory>>

\* The future is dropped: two compare_exchange, then the interrupt.
Abandon(w) ==
    /\ job[w] # "idle"
    /\ abandon[w] = "armed"
    /\ CASE flag[w] = "waiting" -> /\ flag' = [flag EXCEPT ![w] = "abandoned"]
                                   /\ abandon' = [abandon EXCEPT ![w] = "gone"]
         [] flag[w] = "running" -> /\ flag' = [flag EXCEPT ![w] = "abandoned"]
                                   /\ abandon' = [abandon EXCEPT ![w] = "interrupting"]
         [] OTHER -> abandon' = [abandon EXCEPT ![w] = "gone"] /\ UNCHANGED flag
    /\ UNCHANGED <<job, holder, liveQuery, marks, left, struck, duckHistory>>

InterruptWork(w) ==
    /\ abandon[w] = "interrupting"
    /\ abandon' = [abandon EXCEPT ![w] = "gone"]
    /\ struck' = struck \cup Executing
    /\ stray' = stray \cup (Executing \ {w})
    /\ UNCHANGED <<job, holder, liveQuery, marks, left, flag, asked, evicted, begun>>

QueryStep(q) ==
    \/ StartQuery(q) \/ LookAtMark(q) \/ BeginStatement(q) \/ StatementEnds(q)
    \/ StatementFails(q) \/ EndQuery(q) \/ Stop(q)
WorkStep(w) == StartWork(w) \/ EndWork(w) \/ Abandon(w) \/ InterruptWork(w)

DuckNext ==
    \/ \E j \in Jobs : Submit(j) \/ TakeConnection(j) \/ LetGo(j)
    \/ \E q \in Queries : QueryStep(q)
    \/ \E w \in Works : WorkStep(w)

DuckSpec == DuckInit /\ [][DuckNext]_duckVars

-----------------------------------------------------------------------------
DuckTypeOK ==
    /\ job \in [Jobs -> {"idle", "waiting", "holding", "between", "ready", "executing", "ending",
                         "leaving", "done"}]
    /\ holder \in Jobs \cup {NoJob}
    /\ liveQuery \in Queries \cup {NoJob}
    /\ marks \in Seq(asked) /\ Len(marks) <= Kept
    /\ left \in [Queries -> 0..Length]
    /\ flag \in [Works -> {"waiting", "running", "done", "abandoned"}]
    /\ abandon \in [Works -> {"armed", "interrupting", "gone"}]
    /\ struck \subseteq Jobs
    /\ asked \subseteq Queries
    /\ evicted \subseteq asked
    /\ begun \in [Queries -> Nat]
    /\ stray \subseteq Jobs

\* "Never whatever else holds the connection" (session.rs:337-338): a query is interrupted
\* only when someone asked that very query to stop, unless a late interrupt for an abandoned
\* work reached it.
OnlyTheAskedAreStruck == (struck \cap Queries) \subseteq asked \cup stray

\* A script asked to stop begins at most the one statement it had already looked for, wherever
\* the request lands: while it waits, executes, or is between two statements.
AskedBeginsNoFurther == \A q \in Queries \ evicted : begun[q] <= 1
=============================================================================
