------------------------------ MODULE PluginRpc ------------------------------
(***************************************************************************)
(* One conversation between Dexo and a plugin's process: the calls the     *)
(* host makes (plugin/rpc.rs), the thread that reads the answers, the two  *)
(* pipes, and the plugin's end (dexo-plugin-sdk), which answers every      *)
(* request in a task of its own and keeps a cursor for every query until   *)
(* it is read to its end or closed.                                        *)
(*                                                                         *)
(* A call's id is the call; a cursor is named by the execute that made it. *)
(* A line put in `out` and one in the pipe are the same line on its way.   *)
(***************************************************************************)
EXTENDS Naturals, Sequences, FiniteSets

CONSTANTS
    Executes,   \* query/execute calls
    Fetches,    \* query/fetch calls
    FetchOf     \* the execute whose result each fetch reads

Calls == Executes \cup Fetches

ASSUME RpcAssumption ==
    /\ Executes \cap Fetches = {}
    /\ FetchOf \in [Fetches -> Executes]

VARIABLES
    call,       \* where each call's future is
    outcome,    \* what it returned
    slot,       \* its oneshot: what was sent and not received
    pending,    \* Shared.pending: the calls whose sender waits there
    closed,     \* Shared.closed is set
    out,        \* Shared.out is there: the plugin's stdin is open
    abandoned,  \* Shared.abandoned
    reader,     \* the reading thread
    pages,      \* who owns each execute's cursor at the host: the result's Pages
    toPlugin,   \* lines on their way to the plugin
    toHost,     \* lines on their way back
    plugin,     \* the plugin's process
    work,       \* the task of each request there; once it answered, the answer
    cursors,    \* Server.cursors
    missed      \* cursors whose answer was dropped in the host, unread

hostVars == <<call, outcome, slot, pending, closed, out, abandoned, reader, pages, missed>>
pluginVars == <<plugin, work, cursors>>
rpcVars == <<call, outcome, slot, pending, closed, out, abandoned, reader, pages, missed,
             toPlugin, toHost, plugin, work, cursors>>

Ended == {"value", "error", "closed", "given up"}
Listening == [at |-> "listening"]
Stopped == [at |-> "stopped"]
Line(kind, c) == [kind |-> kind, call |-> c]
Answer(c, r) == [call |-> c, says |-> r]

RpcInit ==
    /\ call = [c \in Calls |-> "idle"]
    /\ outcome = [c \in Calls |-> "none"]
    /\ slot = [c \in Calls |-> "empty"]
    /\ pending = {}
    /\ closed = FALSE
    /\ out = TRUE
    /\ abandoned = {}
    /\ reader = Listening
    /\ pages = [e \in Executes |-> "none"]
    /\ toPlugin = <<>>
    /\ toHost = <<>>
    /\ plugin = "up"
    /\ work = [c \in Calls |-> "none"]
    /\ cursors = {}
    /\ missed = {}

-----------------------------------------------------------------------------
(* The host's calls. *)

\* Mutants of Shut: what comes later is not refused; or those who wait are not told.
ShutDrainsOnly ==
    /\ slot' = [c \in Calls |-> IF c \in pending THEN "closed" ELSE slot[c]]
    /\ pending' = {}
    /\ UNCHANGED closed
ShutTellsNobody == closed' = TRUE /\ UNCHANGED <<slot, pending>>

\* Shared::shut: every call waiting fails with the reason the conversation ended.
Shut ==
    /\ closed' = TRUE
    /\ slot' = [c \in Calls |-> IF c \in pending THEN "closed" ELSE slot[c]]
    /\ pending' = {}

\* Shared::notify: a line nobody waits an answer for; nothing once stdin is closed.
Notified(lines) == IF out THEN toPlugin \o lines ELSE toPlugin

\* A result is fetched only while its Pages have the cursor, one page at a time.
MayBegin(c) ==
    c \in Fetches =>
        /\ pages[FetchOf[c]] = "held"
        /\ \A f \in Fetches : FetchOf[f] = FetchOf[c] => call[f] \in {"idle", "done"}

\* Mutant of Enter: `closed` is not looked at under the lock of the insert.
EnterUnlooked(c) ==
    /\ call[c] = "idle"
    /\ MayBegin(c)
    /\ call' = [call EXCEPT ![c] = "entered"]
    /\ pending' = pending \cup {c}
    /\ UNCHANGED <<outcome, pages, slot, closed, out, abandoned, reader, missed, toPlugin, toHost,
                   pluginVars>>

Enter(c) ==
    /\ call[c] = "idle"
    /\ MayBegin(c)
    /\ IF closed
       THEN /\ call' = [call EXCEPT ![c] = "done"]
            /\ outcome' = [outcome EXCEPT ![c] = "closed"]
            /\ pages' = IF c \in Fetches THEN [pages EXCEPT ![FetchOf[c]] = "failed"] ELSE pages
            /\ UNCHANGED pending
       ELSE /\ call' = [call EXCEPT ![c] = "entered"]
            /\ pending' = pending \cup {c}
            /\ UNCHANGED <<outcome, pages>>
    /\ UNCHANGED <<slot, closed, out, abandoned, reader, missed, toPlugin, toHost, pluginVars>>

\* The writing thread is not told that the plugin is gone until a write of its fails.
Send(c) ==
    /\ call[c] = "entered"
    /\ out
    /\ call' = [call EXCEPT ![c] = "waiting"]
    /\ toPlugin' = IF plugin = "up" THEN Append(toPlugin, Line("request", c)) ELSE toPlugin
    /\ UNCHANGED <<outcome, slot, pending, closed, out, abandoned, reader, pages, missed,
                   toHost, pluginVars>>

SendFails(c) ==
    /\ call[c] = "entered"
    /\ ~out \/ plugin = "ended"
    /\ Shut
    /\ out' = FALSE
    /\ call' = [call EXCEPT ![c] = "waiting"]
    /\ UNCHANGED <<outcome, abandoned, reader, pages, missed, toPlugin, toHost, pluginVars>>

\* The execute whose result a call is about.
Result(c) == IF c \in Fetches THEN FetchOf[c] ELSE c

\* A fetch that fails, or that says the result is done, leaves the Pages with no cursor.
Receive(c) ==
    /\ call[c] = "waiting"
    /\ slot[c] # "empty"
    /\ call' = [call EXCEPT ![c] = "done"]
    /\ outcome' = [outcome EXCEPT ![c] = IF slot[c] = "last" THEN "value" ELSE slot[c]]
    /\ pages' = [pages EXCEPT ![Result(c)] =
                     IF slot[c] = "value" THEN "held"
                     ELSE IF c \in Executes THEN @
                     ELSE IF slot[c] = "last" THEN "ended" ELSE "failed"]
    /\ slot' = [slot EXCEPT ![c] = "empty"]
    /\ UNCHANGED <<pending, closed, out, abandoned, reader, missed, toPlugin, toHost, pluginVars>>

Drops(c) == c \in Executes /\ slot[c] = "value"

\* The time is up, or the future is dropped: the receiver goes first, with what is in it.
GiveUp(c) ==
    /\ call[c] = "waiting"
    /\ call' = [call EXCEPT ![c] = "dropping"]
    /\ missed' = IF Drops(c) THEN missed \cup {c} ELSE missed
    /\ slot' = [slot EXCEPT ![c] = "empty"]
    /\ UNCHANGED <<outcome, pending, closed, out, abandoned, reader, pages, toPlugin, toHost,
                   pluginVars>>

\* Mutants of NoteAbandoned: for whatever call; or for none.
NoteAnyAbandoned(c) ==
    /\ call[c] = "dropping"
    /\ abandoned' = abandoned \cup {c}
    /\ call' = [call EXCEPT ![c] = "noted"]
    /\ UNCHANGED <<outcome, slot, pending, closed, out, reader, pages, missed, toPlugin, toHost,
                   pluginVars>>
NoteNoneAbandoned(c) ==
    /\ call[c] = "dropping"
    /\ call' = [call EXCEPT ![c] = "noted"]
    /\ UNCHANGED <<outcome, slot, pending, closed, out, abandoned, reader, pages, missed, toPlugin,
                   toHost, pluginVars>>

\* Waiting::drop, its three steps: a lock is taken and left at each.
NoteAbandoned(c) ==
    /\ call[c] = "dropping"
    /\ abandoned' = IF c \in Executes THEN abandoned \cup {c} ELSE abandoned
    /\ call' = [call EXCEPT ![c] = "noted"]
    /\ UNCHANGED <<outcome, slot, pending, closed, out, reader, pages, missed, toPlugin, toHost,
                   pluginVars>>

LeavePending(c) ==
    /\ call[c] = "noted"
    /\ pending' = pending \ {c}
    /\ call' = [call EXCEPT ![c] = "left"]
    /\ UNCHANGED <<outcome, slot, closed, out, abandoned, reader, pages, missed, toPlugin, toHost,
                   pluginVars>>

\* The Pages of a result hold the fetch's future: dropped with it, they close the cursor.
TellCancel(c) ==
    LET held == IF c \in Fetches THEN pages[FetchOf[c]] = "held" ELSE FALSE IN
    /\ call[c] = "left"
    /\ toPlugin' = Notified(<<Line("cancel", c)>> \o
                            IF held THEN <<Line("close", FetchOf[c])>> ELSE <<>>)
    /\ pages' = IF held THEN [pages EXCEPT ![FetchOf[c]] = "dropped"] ELSE pages
    /\ call' = [call EXCEPT ![c] = "done"]
    /\ outcome' = [outcome EXCEPT ![c] = "given up"]
    /\ UNCHANGED <<slot, pending, closed, out, abandoned, reader, missed, toHost, pluginVars>>

\* Pages::drop, between two pages.
DropPages(e) ==
    /\ pages[e] = "held"
    /\ \A f \in Fetches : FetchOf[f] = e => call[f] \in {"idle", "done"}
    /\ pages' = [pages EXCEPT ![e] = "dropped"]
    /\ toPlugin' = Notified(<<Line("close", e)>>)
    /\ UNCHANGED <<call, outcome, slot, pending, closed, out, abandoned, reader, missed, toHost,
                   pluginVars>>

\* RpcClient::close: the process is stopped or killed.
Close ==
    /\ out
    /\ Shut
    /\ out' = FALSE
    /\ UNCHANGED <<call, outcome, abandoned, reader, pages, missed, toPlugin, toHost, pluginVars>>

-----------------------------------------------------------------------------
(* The thread that reads the answers. *)

ReadAnswer ==
    /\ reader = Listening
    /\ toHost # <<>>
    /\ LET c == Head(toHost).call IN
       /\ reader' = [at |-> IF c \in pending THEN "answering" ELSE "unclaimed",
                     answer |-> Head(toHost)]
       /\ pending' = pending \ {c}
    /\ toHost' = Tail(toHost)
    /\ UNCHANGED <<call, outcome, slot, closed, out, abandoned, pages, missed, toPlugin, pluginVars>>

\* A sender whose receiver is gone drops what it was to send.
Deliver ==
    /\ reader.at = "answering"
    /\ LET c == reader.answer.call
           r == reader.answer.says
           heard == call[c] \in {"entered", "waiting"} IN
       /\ slot' = IF heard THEN [slot EXCEPT ![c] = r] ELSE slot
       /\ missed' = IF ~heard /\ c \in Executes /\ r = "value" THEN missed \cup {c} ELSE missed
    /\ reader' = Listening
    /\ UNCHANGED <<call, outcome, pending, closed, out, abandoned, pages, toPlugin, toHost,
                   pluginVars>>

\* Mutant of Judge: the answer of an abandoned query is dropped like any other.
JudgeDropping ==
    /\ reader.at = "unclaimed"
    /\ abandoned' = abandoned \ {reader.answer.call}
    /\ reader' = Listening
    /\ UNCHANGED <<call, outcome, slot, pending, closed, out, pages, missed, toPlugin, toHost,
                   pluginVars>>

Judge ==
    /\ reader.at = "unclaimed"
    /\ LET c == reader.answer.call IN
       /\ abandoned' = abandoned \ {c}
       /\ toPlugin' = IF c \in abandoned /\ reader.answer.says = "value"
                      THEN Notified(<<Line("close", c)>>)
                      ELSE toPlugin
    /\ reader' = Listening
    /\ UNCHANGED <<call, outcome, slot, pending, closed, out, pages, missed, toHost, pluginVars>>

\* The plugin's output ends, or cannot be read, or is not the protocol: the end.
ReadEnd ==
    /\ reader = Listening
    /\ \/ toHost = <<>> /\ plugin = "ended"
       \/ plugin = "up"
    /\ Shut
    /\ reader' = Stopped
    /\ UNCHANGED <<call, outcome, out, abandoned, pages, missed, toPlugin, toHost, pluginVars>>

-----------------------------------------------------------------------------
(* The plugin, as dexo-plugin-sdk serves it. *)

\* Lines are taken in order.  A close has a task of its own, which touches its cursor only.
TakeLine ==
    /\ plugin = "up"
    /\ toPlugin # <<>>
    /\ LET line == Head(toPlugin) c == line.call IN
       /\ work' = IF line.kind = "request" THEN [work EXCEPT ![c] = "running"]
                  ELSE IF line.kind = "cancel" /\ work[c] = "running"
                       THEN [work EXCEPT ![c] = "aborting"]
                  ELSE work
       /\ cursors' = IF line.kind = "close" THEN cursors \ {c} ELSE cursors
    /\ toPlugin' = Tail(toPlugin)
    /\ UNCHANGED <<hostVars, toHost, plugin>>

\* An abort is seen when the task is polled next: one being polled may still answer.
Answers(c) ==
    /\ plugin = "up"
    /\ work[c] \in {"running", "aborting"}
    /\ \E r \in IF c \in Executes THEN {"value", "error"}
                ELSE IF FetchOf[c] \in cursors THEN {"value", "last", "error"} ELSE {"error"} :
         /\ work' = [work EXCEPT ![c] = r]
         /\ toHost' = Append(toHost, Answer(c, r))
         /\ cursors' = IF c \in Executes /\ r = "value" THEN cursors \cup {c}
                       ELSE IF c \in Fetches /\ r = "last" THEN cursors \ {FetchOf[c]}
                       ELSE cursors
    /\ UNCHANGED <<hostVars, toPlugin, plugin>>

AbortSeen(c) ==
    /\ plugin = "up"
    /\ work[c] = "aborting"
    /\ work' = [work EXCEPT ![c] = "dropped"]
    /\ UNCHANGED <<hostVars, toPlugin, toHost, plugin, cursors>>

\* It crashes, or is stopped, or stdin ended: what it had not written is lost.
PluginEnds ==
    /\ plugin = "up"
    /\ plugin' = "ended"
    /\ cursors' = {}
    /\ toPlugin' = <<>>
    /\ \E n \in 0..Len(toHost) : toHost' = SubSeq(toHost, 1, n)
    /\ UNCHANGED <<hostVars, work>>

-----------------------------------------------------------------------------
CallStep(c) ==
    \/ Enter(c) \/ Send(c) \/ SendFails(c) \/ Receive(c) \/ GiveUp(c)
    \/ NoteAbandoned(c) \/ LeavePending(c) \/ TellCancel(c)

ReaderStep == ReadAnswer \/ Deliver \/ Judge \/ ReadEnd
TaskStep(c) == Answers(c) \/ AbortSeen(c)

RpcNext ==
    \/ \E c \in Calls : CallStep(c) \/ TaskStep(c)
    \/ \E e \in Executes : DropPages(e)
    \/ Close \/ ReaderStep \/ TakeLine \/ PluginEnds

RpcSpec == RpcInit /\ [][RpcNext]_rpcVars

(***************************************************************************)
(* Each thread and task goes on: the steps of a future that is polled or   *)
(* dropped, the reading thread while there is something to read, the       *)
(* plugin's loop and the tasks it aborted.  Nothing makes a query answer,  *)
(* a caller give up, or a plugin that runs end.                            *)
(***************************************************************************)
CallGoesOn(c) ==
    Send(c) \/ SendFails(c) \/ Receive(c) \/ NoteAbandoned(c) \/ LeavePending(c) \/ TellCancel(c)
ReaderGoesOn == ReadAnswer \/ Deliver \/ Judge \/ (ReadEnd /\ plugin = "ended")

RpcFairness ==
    /\ \A c \in Calls : WF_rpcVars(CallGoesOn(c)) /\ WF_rpcVars(AbortSeen(c))
    /\ WF_rpcVars(ReaderGoesOn)
    /\ WF_rpcVars(TakeLine)
-----------------------------------------------------------------------------
RpcTypeOK ==
    /\ call \in [Calls -> {"idle", "entered", "waiting", "dropping", "noted", "left", "done"}]
    /\ outcome \in [Calls -> Ended \cup {"none"}]
    /\ slot \in [Calls -> {"empty", "value", "last", "error", "closed"}]
    /\ pending \subseteq Calls
    /\ closed \in BOOLEAN
    /\ out \in BOOLEAN
    /\ abandoned \subseteq Executes
    /\ reader \in {Listening, Stopped} \cup
           [at : {"answering", "unclaimed"}, answer : [call : Calls, says : {"value", "last", "error"}]]
    /\ pages \in [Executes -> {"none", "held", "ended", "failed", "dropped"}]
    /\ missed \subseteq Executes
    /\ plugin \in {"up", "ended"}
    /\ work \in [Calls -> {"none", "running", "aborting", "dropped", "value", "last", "error"}]
    /\ cursors \subseteq Executes
    /\ toPlugin \in Seq([kind : {"request", "cancel", "close"}, call : Calls])
    /\ toHost \in Seq([call : Calls, says : {"value", "last", "error"}])

\* Once the conversation is over, a call that still waits has its failure in hand, or the
\* reading thread is about to give it its answer: none was inserted behind the drain
\* (call's check and insert under the closed lock, shut's drain).
NobodyLeftWaiting ==
    \A c \in Calls :
        closed /\ call[c] \in {"entered", "waiting"} /\ slot[c] = "empty" =>
            reader.at = "answering" /\ reader.answer.call = c

\* The answer that made cursor e is still on its way to someone who will have it closed.
OnItsWay(e) ==
    \/ \E i \in 1..Len(toHost) : toHost[i] = Answer(e, "value")
    \/ reader.at # "listening" /\ reader # Stopped /\ reader.answer.call = e
    \/ call[e] = "waiting" /\ slot[e] = "value"

\* While the conversation lasts, every cursor the plugin keeps has an owner at the host: an
\* answer on its way, a result that reads it, or a close already sent.  Two ways out, both
\* in the code: the answer was taken out of pending before its call was done giving up, and
\* a fetch failed.
CursorsAccounted ==
    \A e \in cursors \ missed :
        \/ closed
        \/ OnItsWay(e)
        \/ pages[e] \in {"held", "failed"}
        \/ \E i \in 1..Len(toPlugin) : toPlugin[i] = Line("close", e)

\* A call that began ends once the conversation is over: "every call waiting fails, and so
\* does every later one" (rpc.rs:65-66).
WaitersAreTold ==
    \A c \in Calls : closed /\ call[c] \in {"entered", "waiting"} ~> call[c] = "done"

\* What a call given up had the plugin do is undone while the conversation lasts: its work
\* stops and the cursor it answers is closed, unless the answer overtook the giving up.
GivenUpIsUndone ==
    \A c \in Calls :
        outcome[c] = "given up" ~>
            [](closed \/ (work[c] \notin {"running", "aborting"} /\ (c \in cursors => c \in missed)))

-----------------------------------------------------------------------------
(* The promise this keeps. *)

FateOf(c) == CASE call[c] = "idle" -> "new"
               [] call[c] \in {"entered", "waiting"} -> "open"
               [] call[c] = "done" -> outcome[c]
               [] OTHER -> "given up"
Saying(r) == CASE r \in {"value", "last"} -> "value"
               [] r = "error" -> "error"
               [] OTHER -> "nothing"

Promise == INSTANCE Conversation WITH
    fate <- [c \in Calls |-> FateOf(c)],
    said <- [c \in Calls |-> Saying(work[c])],
    over <- closed

\* The client implements Conversation: answers are matched to their calls whatever order
\* they come in, however late, and around the end.
ConversationKept == Promise!ConvSpec
=============================================================================
