------------------------------ MODULE PgSession ------------------------------
(***************************************************************************)
(* One session of the workbench on PostgreSQL: a connection that takes one *)
(* statement at a time, in the order they are sent, from whoever sends     *)
(* them -- the person's transaction commands, the statements of a run, the *)
(* batches of an import (or a grid's edits, or a schema change), and the   *)
(* reads of a grid with bars, fenced so that they cannot write.  What the  *)
(* session knows of its transaction, and what the screen shows of it, are  *)
(* copies of what the server knows.                                        *)
(*                                                                         *)
(* The server is modelled by what PostgreSQL does with the statements the  *)
(* driver sends.  A write is a name; of the rest of SQL only what opens or *)
(* ends a transaction is told apart.  A run stops at its first error; the  *)
(* person's own savepoints and other sessions are left out.                *)
(***************************************************************************)
EXTENDS Integers, Sequences, FiniteSets

CONSTANTS
    Runs,          \* scripts run from the editor
    Batches,       \* insert_batch, apply, apply_ddl
    Reads,         \* fetch with bars
    MaxStatements, \* bound: statements of a run
    MaxPersonal    \* bound: the person's transaction commands

ASSUME PgSessionAssumption ==
    /\ Runs \cap Batches = {} /\ Runs \cap Reads = {} /\ Batches \cap Reads = {}
    /\ "person" \notin Runs \cup Batches \cup Reads
    /\ MaxStatements \in Nat /\ MaxPersonal \in Nat

Writes == (Runs \X (1..MaxStatements)) \cup (Batches \X {1})

VARIABLES
    tx,        \* the server's transaction: none, open, aborted
    readOnly,  \* ... which cannot write
    inTx,      \* the writes in it
    committed, \* the writes that are in for good
    fence,     \* what was in it at the fetch's savepoint
    state,     \* PostgresSession.tx_state
    screen,    \* Model.transaction
    news,      \* actions to the loop
    op,        \* where each run, batch and fetch is
    count,     \* statements of a run so far
    noted,     \* what the last of them that was typed made of the transaction
    personal,  \* the person's so far
    done,      \* history: writes that were reported done
    withdrawn, \* history: those in a transaction that was ended and did not go in
    crowded,   \* history: those of a transaction two used at a time
    misled     \* history: how the transaction last changed where the session does not look

serverVars == <<tx, readOnly, inTx, committed, fence>>
pgHistory == <<done, withdrawn, crowded, misled>>
pgVars == <<serverVars, state, screen, news, op, count, noted, personal, pgHistory>>

NoFence == {<<>>}

PgInit ==
    /\ tx = "none"
    /\ readOnly = FALSE
    /\ inTx = {}
    /\ committed = {}
    /\ fence = NoFence
    /\ state = "idle"
    /\ screen = "idle"
    /\ news = <<>>
    /\ op = [o \in Runs \cup Batches \cup Reads |-> "idle"]
    /\ count = [r \in Runs |-> 0]
    /\ noted = [r \in Runs |-> "nothing"]
    /\ personal = 0
    /\ done = {}
    /\ withdrawn = {}
    /\ crowded = {}
    /\ misled = {}

-----------------------------------------------------------------------------
(* The server. *)

\* Between the first and the last statement of what should be one.
InBrackets == {o \in Batches \cup Reads : op[o] \in {"writing", "closing", "undoing", "reading", "fenced"}}

\* The session learns of a transaction from the person's commands and from a statement that
\* fails.  It does not learn of one that a run typed, of a commit that was refused, of one
\* that a batch or a read ended for the person, of one that a read's fence failed in or
\* brought back; and it learns too late of a failure that was told before it was heard, or
\* heard when its transaction was gone.
Ways == {"typed", "refused", "shared", "fence", "late"}

Misled(way, when) == misled' = IF when THEN misled \cup {way} ELSE misled

\* The person's COMMIT or ROLLBACK sets it right, but for what a run has yet to note.
SetRight ==
    misled' = IF \A r \in Runs : op[r] \in {"idle", "over"} THEN {} ELSE misled \cap {"typed"}

\* Who sends a statement while another is in its brackets shares its transaction with it.
Crowds(by) == IF InBrackets \ {by} = {} THEN {} ELSE inTx
CrowdsWith(by, w) == IF InBrackets \ {by} = {} THEN {} ELSE inTx \cup {w}

NoTransaction == tx' = "none" /\ readOnly' = FALSE /\ inTx' = {} /\ fence' = NoFence

ServerBegins(cannotWrite) ==
    /\ tx \in {"none", "open"}
    /\ tx' = "open"
    /\ readOnly' = (readOnly \/ cannotWrite)
    /\ UNCHANGED <<inTx, committed, fence>>

\* COMMIT is answered well by an aborted transaction too, and by none.
ServerCommits ==
    /\ committed' = IF tx = "open" THEN committed \cup inTx ELSE committed
    /\ NoTransaction

ServerRollsBack == NoTransaction /\ UNCHANGED committed

ServerFails ==
    /\ tx' = IF tx = "none" THEN "none" ELSE "aborted"
    /\ UNCHANGED <<readOnly, inTx, committed, fence>>

ServerTakes(w) ==
    \/ tx = "none" /\ committed' = committed \cup {w} /\ UNCHANGED <<tx, readOnly, inTx, fence>>
    \/ tx = "open" /\ ~readOnly /\ inTx' = inTx \cup {w} /\ UNCHANGED <<tx, readOnly, committed, fence>>

-----------------------------------------------------------------------------
(* The person's commands: the loop waits for their answer.  What Begin, Commit and Rollback *)
(* say of it, the session takes for the transaction's state.                                *)

Tells(s) == news' = Append(news, [kind |-> "changed", state |-> s])

Commands(guard) ==
    /\ personal < MaxPersonal
    /\ guard
    /\ personal' = personal + 1
    /\ UNCHANGED <<screen, op, count, noted, done>>

PersonBegins ==
    /\ Commands(screen = "idle")
    /\ \/ ServerBegins(FALSE) /\ state' = "active" /\ Tells("active")
       \/ tx = "aborted" /\ UNCHANGED <<serverVars, state, news>>
    /\ crowded' = crowded \cup Crowds("person")
    /\ UNCHANGED <<withdrawn, misled>>

PersonCommits ==
    /\ Commands(screen = "active")
    /\ \/ /\ ServerCommits
          /\ state' = "idle"
          /\ Tells("idle")
          /\ withdrawn' = IF tx = "aborted" THEN withdrawn \cup inTx ELSE withdrawn
          /\ SetRight
       \* A constraint checked at the end: nothing is in, and no transaction is open.  The
       \* session takes it for a failed one, and the screen is not told.
       \/ /\ tx = "open"
          /\ ServerRollsBack
          /\ state' = "failed"
          /\ withdrawn' = withdrawn \cup inTx
          /\ Misled("refused", TRUE)
          /\ UNCHANGED news
    /\ crowded' = crowded \cup Crowds("person")

PersonRollsBack ==
    /\ Commands(screen \in {"active", "failed"})
    /\ ServerRollsBack
    /\ state' = "idle"
    /\ Tells("idle")
    /\ withdrawn' = withdrawn \cup inTx
    /\ SetRight
    /\ crowded' = crowded \cup Crowds("person")

HearSession ==
    /\ news # <<>>
    /\ news' = Tail(news)
    /\ screen' = Head(news).state
    /\ UNCHANGED <<serverVars, state, op, count, noted, personal, pgHistory>>

-----------------------------------------------------------------------------
(* A run: its statements as they are, a BEGIN or a ROLLBACK typed among them. *)

AtStart(o) == op[o] = "idle"
At(o, phase) == op' = [op EXCEPT ![o] = phase]

RunBegins(r) ==
    /\ AtStart(r)
    /\ \A q \in Runs : op[q] \in {"idle", "over"}
    /\ At(r, "running")
    /\ UNCHANGED <<serverVars, state, screen, news, count, noted, personal, pgHistory>>

Statement(r) ==
    /\ op[r] = "running" /\ count[r] < MaxStatements
    /\ count' = [count EXCEPT ![r] = @ + 1]
    /\ UNCHANGED <<state, screen, personal>>

\* The statement that failed is told; that it aborted a transaction, and what the session
\* then knows of it, come after, in no order.
RunFails(r) ==
    /\ At(r, "failed")
    /\ ServerFails
    /\ news' = IF noted[r] = "nothing" THEN news
               ELSE Append(news, [kind |-> "noted", state |-> noted[r]])

RunWrites(r) ==
    /\ Statement(r)
    /\ LET w == <<r, count[r] + 1>> IN
       /\ \/ ServerTakes(w) /\ done' = done \cup {w} /\ UNCHANGED <<op, news>>
          \/ RunFails(r) /\ UNCHANGED done
       /\ crowded' = crowded \cup CrowdsWith(r, w)
    /\ UNCHANGED <<noted, withdrawn, misled>>

RunTypesBegin(r) ==
    /\ Statement(r)
    /\ \/ /\ ServerBegins(FALSE)
          /\ noted' = [noted EXCEPT ![r] = "active"]
          /\ Misled("typed", TRUE)
          /\ UNCHANGED <<op, news>>
       \/ tx = "aborted" /\ RunFails(r) /\ UNCHANGED <<noted, misled>>
    /\ crowded' = crowded \cup Crowds(r)
    /\ UNCHANGED <<done, withdrawn>>

RunTypesEnd(r) ==
    /\ Statement(r)
    /\ \/ ServerCommits /\ withdrawn' = IF tx = "aborted" THEN withdrawn \cup inTx ELSE withdrawn
       \/ ServerRollsBack /\ withdrawn' = withdrawn \cup inTx
    /\ noted' = [noted EXCEPT ![r] = "idle"]
    /\ Misled("typed", TRUE)
    /\ crowded' = crowded \cup Crowds(r)
    /\ UNCHANGED <<op, news, done>>

Aborted == IF state = "active" THEN "failed" ELSE state

\* Mutant of SessionHearsOfFailure: a failed statement leaves the state as it was.
FailurePassedOver(r) ==
    /\ op[r] \in {"failed", "said"}
    /\ At(r, IF op[r] = "said" THEN "over" ELSE "heard")
    /\ UNCHANGED <<serverVars, state, screen, news, count, noted, personal, pgHistory>>

\* abort_open_transaction, in the task that ran the statement.
SessionHearsOfFailure(r) ==
    /\ op[r] \in {"failed", "said"}
    /\ state' = Aborted
    /\ At(r, IF op[r] = "said" THEN "over" ELSE "heard")
    /\ Misled("late", state = "active" /\ (op[r] = "said" \/ tx # "aborted"))
    /\ UNCHANGED <<serverVars, screen, news, count, noted, personal, done, withdrawn, crowded>>

\* ... and the state it has, in the task that runs the script.
FailedRunTells(r) ==
    /\ op[r] \in {"failed", "heard"}
    /\ Tells(state)
    /\ At(r, IF op[r] = "heard" THEN "over" ELSE "said")
    /\ UNCHANGED <<serverVars, state, screen, count, noted, personal, pgHistory>>

\* A run that ends well: the session's state, and after it what was typed.
RunEnds(r) ==
    /\ op[r] = "running" /\ count[r] > 0
    /\ At(r, "over")
    /\ news' = news \o <<[kind |-> "changed", state |-> state]>>
                    \o (IF noted[r] = "nothing" THEN <<>> ELSE <<[kind |-> "noted", state |-> noted[r]]>>)
    /\ UNCHANGED <<serverVars, state, screen, count, noted, personal, pgHistory>>

-----------------------------------------------------------------------------
(* A batch: BEGIN, its rows, COMMIT or ROLLBACK, with other statements of the session in    *)
(* between as they come -- and in the person's transaction if one is open, which it ends.   *)

batchKept == <<state, screen, news, count, noted, personal, withdrawn>>

BatchBegins(b) ==
    /\ AtStart(b)
    /\ \/ ServerBegins(FALSE) /\ At(b, "writing")
       \/ tx = "aborted" /\ At(b, "over") /\ UNCHANGED serverVars
    /\ crowded' = crowded \cup inTx
    /\ UNCHANGED <<batchKept, done, misled>>

BatchWrites(b) ==
    /\ op[b] = "writing"
    /\ \/ ServerTakes(<<b, 1>>) /\ At(b, "closing")
       \/ ServerFails /\ At(b, "undoing")
    /\ crowded' = crowded \cup CrowdsWith(b, <<b, 1>>)
    /\ UNCHANGED <<batchKept, done, misled>>

\* A transaction there is, that the session takes for the person's.
ThePersons == state # "idle" /\ tx # "none"

\* Mutant of BatchCloses: a batch that failed is committed too.
BatchClosesAnyhow(b) ==
    /\ op[b] \in {"closing", "undoing"}
    /\ ServerCommits
    /\ done' = done \cup {<<b, 1>>}
    /\ At(b, "over")
    /\ crowded' = crowded \cup Crowds(b)
    /\ Misled("shared", ThePersons)
    /\ UNCHANGED batchKept

BatchCloses(b) ==
    /\ \/ op[b] = "closing" /\ ServerCommits /\ done' = done \cup {<<b, 1>>}
       \/ op[b] = "closing" /\ tx = "open" /\ ServerRollsBack /\ UNCHANGED done
       \/ op[b] = "undoing" /\ ServerRollsBack /\ UNCHANGED done
    /\ At(b, "over")
    /\ crowded' = crowded \cup Crowds(b)
    /\ Misled("shared", ThePersons)
    /\ UNCHANGED batchKept

-----------------------------------------------------------------------------
(* A fetch with bars: a savepoint in the transaction there is, or a transaction of its own  *)
(* that cannot write.                                                                       *)

fetchKept == <<state, screen, news, count, noted, personal, done, withdrawn>>

FetchBegins(f) ==
    /\ AtStart(f)
    /\ \/ tx = "open" /\ fence' = inTx /\ At(f, "fenced")
       \/ tx = "none" /\ At(f, "beginning") /\ UNCHANGED fence
       \/ tx = "aborted" /\ At(f, "over") /\ UNCHANGED fence
    /\ crowded' = crowded \cup Crowds(f)
    /\ UNCHANGED <<tx, readOnly, inTx, committed, fetchKept, misled>>

FetchBeginsOwn(f) ==
    /\ op[f] = "beginning"
    /\ \/ ServerBegins(TRUE) /\ At(f, "reading")
       \/ tx = "aborted" /\ At(f, "over") /\ UNCHANGED serverVars
    /\ crowded' = crowded \cup inTx
    /\ UNCHANGED <<fetchKept, misled>>

\* The read itself may fail, which aborts what it runs in.
FetchReads(f) ==
    /\ op[f] \in {"reading", "fenced"}
    /\ tx = "open" /\ ServerFails
    /\ crowded' = crowded \cup Crowds(f)
    /\ Misled("fence", op[f] = "fenced" /\ fence = NoFence /\ state = "active")
    /\ UNCHANGED <<op, fetchKept>>

\* Back to the savepoint, if its transaction is there; else that fails.
FetchEnds(f) ==
    /\ \/ /\ op[f] = "reading"
          /\ ServerRollsBack
          /\ Misled("shared", ThePersons)
       \/ /\ op[f] = "fenced" /\ fence # NoFence
          /\ tx' = "open"
          /\ inTx' = inTx \cap fence
          /\ fence' = NoFence
          /\ Misled("fence", state = "failed")
          /\ UNCHANGED <<readOnly, committed>>
       \/ /\ op[f] = "fenced" /\ fence = NoFence
          /\ ServerFails
          /\ Misled("fence", tx = "open" /\ state = "active")
    /\ At(f, "over")
    /\ crowded' = crowded \cup Crowds(f)
    /\ UNCHANGED fetchKept

PgNext ==
    \/ PersonBegins \/ PersonCommits \/ PersonRollsBack \/ HearSession
    \/ \E r \in Runs :
          \/ RunBegins(r) \/ RunWrites(r) \/ RunTypesBegin(r) \/ RunTypesEnd(r)
          \/ SessionHearsOfFailure(r) \/ FailedRunTells(r) \/ RunEnds(r)
    \/ \E b \in Batches : BatchBegins(b) \/ BatchWrites(b) \/ BatchCloses(b)
    \/ \E f \in Reads : FetchBegins(f) \/ FetchBeginsOwn(f) \/ FetchReads(f) \/ FetchEnds(f)

PgSpec == PgInit /\ [][PgNext]_pgVars

-----------------------------------------------------------------------------

PgTypeOK ==
    /\ tx \in {"none", "open", "aborted"}
    /\ readOnly \in BOOLEAN
    /\ inTx \subseteq Writes /\ committed \subseteq Writes
    /\ fence = NoFence \/ fence \subseteq Writes
    /\ state \in {"idle", "active", "failed"}
    /\ screen \in {"idle", "active", "failed"}
    /\ news \in Seq([kind : {"changed", "noted"}, state : {"idle", "active", "failed"}])
    /\ \A r \in Runs : op[r] \in {"idle", "running", "failed", "heard", "said", "over"}
    /\ \A b \in Batches : op[b] \in {"idle", "writing", "closing", "undoing", "over"}
    /\ \A f \in Reads : op[f] \in {"idle", "beginning", "reading", "fenced", "over"}
    /\ count \in [Runs -> 0..MaxStatements]
    /\ noted \in [Runs -> {"nothing", "active", "idle"}]
    /\ personal \in 0..MaxPersonal
    /\ \A ws \in {done, withdrawn, crowded} : ws \subseteq Writes
    /\ misled \subseteq Ways

\* A write reported done stays done: it is in for good, or in the transaction that the person
\* has yet to end, or in one that did not go in -- rolled back, refused at its COMMIT, or
\* committed when it was aborted already -- unless two used one transaction.
DoneIsKept == done \subseteq committed \cup inTx \cup withdrawn \cup crowded

\* Nothing is under way, and the screen has heard all there is.
SessionAtRest == news = <<>> /\ \A o \in DOMAIN op : op[o] \in {"idle", "over"}

ToShow == CASE tx = "none" -> "idle" [] tx = "open" -> "active" [] tx = "aborted" -> "failed"

\* However the person's commands, a run's failure, its end and what others do on the session
\* fall together, at rest the screen shows the transaction there is, so that quitting asks
\* about it -- unless, since the last that the person committed or rolled back, it changed
\* where the session does not look: a run typed a BEGIN, a COMMIT or a ROLLBACK; the person's
\* own COMMIT was refused; a batch or a read ended the person's; a read's fence failed in it or
\* brought it back; or a failure was heard after it was told, or after its transaction was gone.
ScreenShowsTransaction == SessionAtRest /\ misled = {} => screen = ToShow
=============================================================================
