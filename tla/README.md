# Dexo in TLA+

Dexo is a terminal database client. It also runs as an MCP server, through which an
AI agent reads a database and, once a person allows it, writes to it. This directory
models the parts of Dexo whose correctness depends on the order in which processes,
threads, tasks and people act, checks the models with TLC, and proves what matters most
with TLAPS. Paths below are relative to `src/` of the repository.

Modelled, checked and largely proved: the write path of the MCP servers; a plugin's
conversation, process and installation; the interrupts of the DuckDB driver; the runs of
the workbench and its queue of actions; its tabs, files and recovery copies; its
transfers, with an import's way through its file; and one PostgreSQL session as a person,
a run, a batch and a fenced read share it. Section 5 says what is left and why.

## 1. Inventory

`PROJECT.json` lists every component with its status, and every hazard with its line.

### The MCP write path (`GrantLedger`, `McpWrites`, `GuardedWrite`)

Parts and the state each keeps:

| part | code | state | operations |
|---|---|---|---|
| ledger | `crates/dexo-storage/src/mcp/` | tables `mcp_grants`, `mcp_approvals`, `mcp_operations` of one SQLite file | give, replace and take back access; ask, settle, touch, sweep; reserve, look up, finish |
| server process | `crates/dexo-mcp/src/server.rs`, `stdio.rs` | session id, call permits, the tool list last shown | start (sweeps), call, list, watch, stop |
| router | `crates/dexo-mcp/src/router.rs` | one session per connection behind a mutex | lease, discard a broken session |
| write call | `crates/dexo-mcp/src/tools_write.rs` | the handler's locals: request, clearance, permit, lease | ask, poll, run, record |
| person's screen | `crates/dexo-tui/src/runtime/mod.rs`, `mcp/approval.rs` | answers under way, what was told | answer, "do not ask again", give, revoke |

They interact through the SQLite file only: servers and screens are separate processes
(any number of each), and every statement or transaction is atomic. Within a server,
calls share the permits and the sessions. Hard here: an access taken back, replaced or
run out at any moment between the approval and the run; answers, deadlines, heartbeats
and sweeps of several processes racing for a request; servers killed at any point; an
agent that cancels, or retries while the first call runs; permits and sessions that must
come back however a call ends. Correct means: nothing is written that was not cleared
under the access it ran under; a decision is made once and what the person was told of
it holds; one write per operation id; no request waits for ever and every call is
answered.

### A plugin (`PluginRpc`, `Conversation`, `PluginHost`, `PluginInstall`, `DuckdbCancel`)

| part | code | state | operations |
|---|---|---|---|
| conversation | `crates/dexo-app/src/plugin/rpc.rs`, `proxy.rs` | pending calls, calls given up, `closed`, the line out; the plugin's cursors | call, receive, time out, drop, cancel, close; the reading thread; the plugin's end (`dexo-plugin-sdk`) |
| process | `plugin/host.rs`, `proxy.rs`, `app/connect.rs` | the live process, the count of sessions, the timers' ticket, the times of crashes, who starts | open and close a session, start, hand-shake, crash, kill, idle out, remove |
| installation | `plugin/install.rs`, `state.rs` | lock files, `plugins/<id>`, `plugins/state.json` | install, update, remove, enable, disable, by several Dexos |
| DuckDB driver | `crates/dexo-driver-duckdb/src/session.rs` | one connection behind a mutex, `Live` with the query that runs and marks of those cancelled, a flag per other work | execute, other work, stop, time out |

Calls, threads and the plugin's tasks meet in three tables and two pipes; a conversation
ends at any point. Connections race to start one process and may be dropped while they
open; timers decide under a lock and act after it. Dexos on one folder meet only in lock
files that go stale. DuckDB's one interrupt strikes whatever executes. Correct means: no
call is left waiting in a conversation that is over, and each is answered with what was
said to it; no cursor or process is kept that nobody will end; a session never gets a
process about to be stopped; the state file says what the folder holds; only what was
asked to stop is struck, and it stops.

### The workbench (`WorkbenchRuns`, `Transfers`, `FileImport`, `Drafts`, `PgSession`)

| part | code | state | operations |
|---|---|---|---|
| runs | `dexo-tui/src/update.rs`, `event.rs`, `runtime/query_runner.rs`, `dexo-app/src/query_service.rs` | what the screen says runs, the live slot, the tokens, the queue of 32 actions | run, re-run, explain, cancel, time out, and what each task tells |
| transfers | `runtime/transfer_manager.rs`, `dexo-app/src/transfer/native_tool.rs`, `transfer/export.rs` | the dialog, the map of what runs, a flag or a handle each | start, stop, look at the flag, hand over, wait, judge, settle |
| import | `dexo-app/src/transfer/import.rs` | reader, channel, batch, report, file of rejects | read ahead, insert a batch, insert it row by row, report |
| tabs | `update.rs`, `runtime/storage_worker.rs`, `dexo-storage` | tabs, their revisions, files, rows and recovery copies | open, edit, save, keep, autosave, flush, close, quit, crash, start |
| PostgreSQL session | `dexo-driver-postgres/src/session.rs`, `mutation.rs`, `update.rs` | the server's transaction, the session's copy, the screen's copy | begin, commit, roll back, statements of a run, batches, fenced reads |

One loop draws, runs effects one at a time, and alone empties the queue its tasks and its
effects fill. Everything else is a task or a thread. Hard here: a cancel between two
statements or before a tool runs, an answer that comes after its asker is gone, a late end
of one run taken for another's, a crash between the copies a text has, and copies of a
transaction's state that are told of some changes only. Correct means: what the screen
says runs is what runs; a stop stops what it is meant for, and nothing else; what was kept
is not lost; an import says what went in; what was reported done stays done.

### What is not modelled

| component | why |
|---|---|
| MCP read tools | sequential; their interplay with writes is the permit and the session of `McpWrites` |
| MCP tool list (`server.rs` watch_tools, list_tools) | what a client was last shown decides nothing: the gate of a call looks at the access itself, and that gate is modelled |
| MCP policy, profiles and client configuration; row editing and change sets; schema diff; SQL analysis and completion | pure functions and text: candidates for bounded checks against a definition, or for the fuzzing they have |
| session manager (`session_manager.rs`) | only its own tests use it; the workbench's sessions are in `SessionRegistry` |
| local database and migrations | one transaction each, by whoever opens the database first; its errors are left out of every model |
| runtime managers of catalog, data and schema | each forwards a request and tags the answer with its generation |
| layout, keys, palette, rendering | most of the code by lines: single-threaded functions of the model to the screen |
| drivers' SQL, other drivers' sessions, transport, secrets, command line, language server | I/O, dialects and third-party protocols |

The map covers a few percent of the repository's lines: most of them are rendering, forms,
dialects and SQL text, where nothing interleaves. What is modelled is where the repository
itself speaks of races, of crashes, and of what must never happen.

## 2. The modules

| module | models | with |
|---|---|---|
| `GrantLedger` | the tables of grants and requests: one operator per SQL statement or transaction | |
| `McpWrites` | server processes, write calls, the clock and the person | EXTENDS `GrantLedger`, implements `GuardedWrite` |
| `GuardedWrite` | what the write path promises the person: asked once, answered once, run once, under an access that lasts | abstract |
| `Conversation` | what the host's end of the plugin protocol promises its callers | abstract |
| `PluginRpc` | calls, tables, pipes, the reading thread, the plugin's end | implements `Conversation` |
| `PluginHost` | one plugin's process and the connections that share it | |
| `PluginInstall` | one plugin's folder, its entry and two lock files, by several Dexos | |
| `DuckdbCancel` | one DuckDB connection, its queries, other work, marks and interrupts | |
| `WorkbenchRuns` | scripts, re-runs and EXPLAIN, the loop, the queue, the live slot | |
| `Transfers` | exports, imports, backups, restores, their dialog, a query beside | |
| `FileImport` | one import through its file: reader, batches, bad rows, report | what `Transfers` calls `Work` of an import |
| `Drafts` | tabs, files, rows, recovery copies, the storage thread | |
| `PgSession` | one PostgreSQL session and who shares it | |
| `MCMcpWrites`, `MCParts`, `MCProgress` | instances for TLC | see section 3 |
| `*Proofs` | the theorems | see section 4 |

Two conventions hold throughout. A step of the code between two points where another task,
thread or process can act is one action; statements that nothing can come between are put
together. And a variable marked "history" is the model's own: it notes what was once so,
for a property to speak of, and no guard reads it.

### `McpWrites`: state and actions

| variable | in the code |
|---|---|
| `grants`, `approvals`, `records` | rows of `mcp_grants`, `mcp_approvals`, `mcp_operations` (the last by server: its key holds the session id, which is a process's own) |
| `now` | the wall clock in seconds, which every process reads |
| `phase` | where a call's handler is between two awaits or two statements |
| `args`, `draft`, `clearance`, `under`, `result` | the handler's locals: arguments, `approval`, `approved`, `grant`, what it returns |
| `cancelled` | the call's cancellation token |
| `permits`, `session` | the semaphore `calls`; who holds the mutex of each `ConnectionSlot` |
| `committed` | whether the write is in the target database |
| `screen`, `told` | an answer's task between its statements; what its notices said |

| action | code |
|---|---|
| `Call` | `call_tool`, its visibility gate |
| `Await`, `Ask`, `Poll` | `await_approval`: up to the request; the insert; one turn of the loop |
| `SeeCancel` | the two `select!` arms that look at the token |
| `TakePermit`, `OpenSession` | the semaphore; `router.lease` |
| `Judge`, `Reserve`, `CheckRevoked` | `call_write_tool` up to the run |
| `Execute`, `Run`, `Finish` | the look `execute` takes before it starts; the database; the record and the answer |
| `Start`, `Kill`, `Stop` | `DexoMcpServer::new`; a killed process; the client goes away, futures are dropped and `Waiting::drop` runs |
| `Give`, `TakeBack`, `ListPending` | the Agents screen and the CLI over the ledger |
| `Answer`, `Explain`, `Dismiss`, `StopAsking` | `answer` and `settle_approval`, statement by statement |

Abstracted:

- A payload is a value with a connection, a kind and operations; `Unfit` payloads are the
  ones refused where they run (targets the profile denies, a missing confirmation). The
  instances leave `Unfit` empty. The order of refusals differs from the code in the
  answer's wording only: the code looks at targets before the grant.
- A DDL that goes through MCP is one statement outside a transaction
  (`DdlPlan::default()`), so the drivers' outcomes "rolled back", "partly committed" and
  "unknown" cannot come of it; both administration drivers report `ok: true` whenever they
  answer. A write that was not begun answers "rolled back"; one begun ends committed, or
  in an error with or without being committed.
- Errors of the local database are not modelled, nor the audit lines, reconnection after a
  broken session, profiles' tool lists, and production connections.
- Each statement is one step at one time. The poll's touch, read and settle are one step:
  any interleaving between them equals one before or after, since only the settle writes
  what others read, and it is guarded like every other.
- `KEEP_SETTLED_SECS` and `HEARTBEAT_GRACE_SECS` are the constants `KeepSettled` and
  `Grace`, 0 in the instances. With 0 the model allows more than the code: a decided
  request may be deleted a second after its deadline, a call is silent after one second.
- `MaxNow` bounds time. A request's deadline is cut to it, and no call reads its access
  in the last second, so that every request can expire within the model.
- A restarted server is another member of `Servers`; a retried call another member of
  `Calls`.

### `GuardedWrite`: what it promises, and how `McpWrites` maps to it

`GuardedWrite` knows accesses, calls and operation ids, and no process, session, permit,
heartbeat, deadline or clock. A call is asked about under one access, answered once, cleared
under the access it was asked about (or one that lets it run unasked), claims its operation
id, starts while that access lasts, and commits; everything else is a `Turn`: accesses given
and taken back, requests refused or forgotten, calls ended, any number at once, since one
statement of the ledger does that to many. The mapping reads the rows: an access is its row's
status; a request is the row the call asked for (`draft`), "open" while it is pending or
about to be inserted, "gone" once deleted; the stage is the handler's `phase`; an operation
id is the pair of server and id, for records are kept by a process's session id, and is
claimed once it has a record. So `GuardedWrite` does not promise that a retry with another
server is written once: the code does not (`write_retried`). A revoke with no effect on a
started write is the code's too: `Start` looks at the access, `Commit` does not.

### `PluginRpc`

| variable | in the code |
|---|---|
| `call`, `outcome`, `slot` | where a call's future is (`rpc.rs` call), what it returned, its oneshot channel |
| `pending`, `abandoned`, `closed`, `out` | `Shared`: senders by id, ids given up, the end, the writer's channel |
| `reader` | the reading thread, between taking a line and having acted on it |
| `pages`, `missed` | who owns a cursor at the host (`proxy.rs` Pages); history: answers dropped unread |
| `toPlugin`, `toHost` | lines on their way, either pipe with the queue in front of it |
| `plugin`, `work`, `cursors` | the plugin's process, the task of each request, `Server.cursors` |

`Enter`, `Send`, `SendFails`, `Receive` are `call` statement by statement. `GiveUp`,
`NoteAbandoned`, `LeavePending`, `TellCancel` are a timeout or a dropped future and then
`Waiting::drop`, which takes two locks one after the other. `ReadAnswer`, `Deliver`,
`Judge`, `ReadEnd` are the reading thread; `Close` is the host's end of it; `TakeLine`,
`Answers`, `AbortSeen`, `PluginEnds` the plugin's. Left out: ids that repeat, lines that do
not parse (skipped in the code), and session bookkeeping. A call is a member of a set, and a
cursor is named by the execute that made it.

### `PluginHost`

`live`, `sessions`, `ticket`, `crashes` are `HostState`; `starting` is the mutex of that
name; `conn` and `on` say where each connection is; `running`, `over`, `stopped`,
`stopping` tell processes apart; `timers` is what is left of each idle timer. `Connect`,
`Reuse`, `Look`, `Spawn`, `SpawnFails`, `Publish`, `HandshakeFails`, `Opened`, `OpenFails`
are a connection on its way (`live`, `proxy.rs` connect); `Timeout` is `connect.rs`, which
drops it; `SessionClosed`, `TimerDecides`, `TimerStops` the idle stop in its two steps;
`Crash`, `BreaksProtocol`, `Kill`, `StopLive`, `TakeLive`, `StopTaken`, `Unregister` the
other ends; `Tick` the clock. Time is kept as ages, cut at `Window` and `Idle`.

### `PluginInstall`

`file`, `old` are the lock files; `holds` the locks a Dexo will drop; `want`, `tries` its
`Lock::wait`; `folder`, `aside`, `entry`, `copy` the plugin's folder, the old one aside, the
entry on disk and the state a Dexo read. `Seek`, `Create`, `JudgeStale`, `RemoveStale`,
`GiveUpLock`, `TryAgain` are `Lock`; `Begin`, `Refuse`, `MoveAside`, `Place`, `PutBack`,
`Edit`, `Save`, `Saved`, `Leave` the commands, one step per change of the disk. A death is
possible between any two. `SaveFails` is a state that cannot be written (`change`,
`state.rs:104-115`): the command ends with the folder already changed (`install.rs:322`, `393`).
Downloads, hashes and archives come before and are sequential.
What a lock file older than `STALE` means is a step, `GrowOld`, up to `MaxAged` times: also
of a Dexo that lives.

### `DuckdbCancel`

`holder` is the connection's mutex, `liveQuery` and `marks` are `Live` (at most
`CANCELS_KEPT` marks, the constant `Kept`), `flag` the `AtomicU8` of a `with_conn` call,
`abandon` its guard. `Submit` to `EndQuery` are a script through `execute`; `Stop` is the
cancel, under `Live`'s lock; `StartWork`, `EndWork`, `Abandon`, `InterruptWork` are
`with_conn` and the guard's drop, which marks and then interrupts. Statements are counted.

### `WorkbenchRuns`

| variable | in the code |
|---|---|
| `activeQuery`, `activeOperation`, `policy` | the fields of `Model` |
| `loop`, `actions` | `run_loop` at its `select!` or in an effect; the channel of 32 |
| `liveSlot`, `token` | `live` of the runtime; the cancelled `CancellationToken`s |
| `script`, `nth`, `hasFailed` | where a run's task is in `run_script`, its statement, its `failed` |

`Launch`, `CancelQuery`, `CancelAnswered`, `LoopPosts`, `ReceiveAction` are the loop;
`Announce` to `FinishScript` a run's task; `AnswerPlan` EXPLAIN. Left out: meta commands,
statements' texts, `QueryService::collect`, page and count queries.
An end clears both fields whichever operation it is of (`update.rs:448-463`), so the ends of
other things are in the model as well: `AutosaveFails`, an effect of the loop whose
`OperationFailed` has an id of its own (`runtime/mod.rs:2342-2358`), and `OtherTaskFails`, a
task that read the history (`2558-2574`); the late `OperationCancelled` of a transfer that is
no longer shown does the same. `overheard` is the history of who was on when one was heard.
A cancel that finds its run between two statements stops nothing: the token is the
statement's. Under ContinueOnError a session's cancel that
comes late strikes the statement after (PostgreSQL `session.rs:210`, MySQL
`session.rs:192`); the model's cancel, too, may end whichever statement executes.

### `Transfers` and `FileImport`

`open`, `awaiting`, `shown` are the dialog; `inMap` the `TransferManager`'s map, `cancelFlag`
and `told` what its values hold; `task`, `portion`, `tool`, `status`, `verdict` one transfer;
`written`, `partial` its file at its place and in the making. A stop is two actions,
`StopTransfer` and `StopActs`: cancel copies what the map holds, lets it go, and then acts.
`MakeDirectory` to `Settle` are `run_native` and `native_tool.rs` step by step; `ToolEnds` is
the tool's own affair. A tool that finds no directory of its own returns an error that
nobody turns into an answer, and the dialog waits on (`transfer_manager.rs:375`); the
property names it as `silent`.

`FileImport` is the inside of an import: `read`, `reading`, `channel` are the thread that
reads ahead; `importing`, `batch`, `row` the task; `inBatch`, `report`, `rejects`, `said` what
it will say. A row is good or bad, a batch with a bad row is refused whole, and a
connection may be lost before or after a commit is heard of.

### `Drafts`

`tabs`, `text`, `revision`, `savedRevision`, `hasPath` are the documents of `Model`; `disk`,
`stored`, `recovery` the file, the row in `documents` and the row in `recovery_documents`;
`commands`, `clearing` the storage thread's work; `todo`, `loop`, `quitting` the loop's. A
text is the number of its last edit, so "older" is "less". `KillDexo` may come at any
point, and `StartDexo` is `apply_bootstrap`. Left out: layouts, the flag of a clean shutdown
(only a message hangs on it), the switch of projects, two Dexos on one project. A
`DocumentSaved` is taken to be heard with the save. The overlay that offers to keep or
discard recovered texts changes nothing in the store.

### `PgSession`

`tx`, `readOnly`, `inTx`, `committed`, `fence` are the server's; `state` is
`PostgresSession.tx_state`, `screen` is `Model.transaction`, `news` what the loop has yet to
hear. `PersonBegins`, `PersonCommits`, `PersonRollsBack` are the palette's; `RunBegins` to
`RunEnds` a script's statements, typed transaction commands among them; `BatchBegins`,
`BatchWrites`, `BatchCloses` are `insert_batch`, `apply`, `apply_ddl`; `FetchBegins` to
`FetchEnds` the fenced read of a grid with bars, in the person's transaction or its own.
The server is what PostgreSQL does with those statements, external. Left out: the person's
own savepoints, a run under ContinueOnError, the fence of a read-only run.
`abort_open_transaction` comes after the failure was told, so the model lets another come
between. `misled` is the history of the ways in which the transaction changed where the
session does not look: "typed" (a run typed a BEGIN, a COMMIT or a ROLLBACK), "refused" (the
person's own COMMIT was refused by the server, which ends the transaction; the session notes
Failed and the screen is told no state), "shared" (a batch or a read ended the person's
transaction), "fence" (a fence failed in it, or brought it back), and "late" (a failure noted
after a run had told the state, or after its transaction was gone). A COMMIT or ROLLBACK of
the person that succeeds `SetRight`s them all, but for "typed" while that run goes on.

## 3. The runs

Deadlock is not checked in any run: agents, persons, plugins and tools may stop, tasks end,
and everything that was asked for has then been answered or is named by a property.

### The MCP write path

These instantiate `MCMcpWrites` with one profile and one kind of write. Calls, grants,
servers and answers are symmetric (their ids are random uuids); the liveness run uses no
symmetry.

| run | instance | shows |
|---|---|---|
| `write_clock` | 1 call, 2 grants, a server and its successor, 1 answer, bypass on or off, access for 2 s, 4 seconds | `CommittedWasCleared`, `OneAccessPerConnection`, `PendingIsWaitedFor`, `WritesAreGuarded`, `TypeOK` |
| `write_answers` | 1 call, 1 grant, 2 answers at a time, deadlines of 1 or 2 s, 4 seconds | `NothingRunsOnceSaidSo`, `DecisionsAreFinal` |
| `write_race` | 2 calls, 2 payloads on 2 connections, 2 operation ids, 2 grants with or without a bypass, 2 permits, nobody at the screen (a write is exempted or its request expires) | `OneWritePerOperation`, `SlotsAccounted` |
| `write_liveness` | 2 calls, 1 permit, 1 session | `EveryCallIsAnswered`, `NoRequestWaitsForEver` |

`WritesAreGuarded` is the refinement: every step of `McpWrites` is one of `GuardedWrite`. It
says again, and more of, what `TakenBackStartsNothing` says (no write starts under an access
taken back before its last look), which is a theorem and has no run of its own.

Two grants are an access and the one that replaces it between approval and run; two calls
are all that compete for one permit, session or operation id; two answers at a time are all
that can cross on one request; two servers are one killed and the one that sweeps after it;
three ticks let a heartbeat go stale, a deadline pass and a decided request be deleted. Two
calls with one operation id and different payloads need different connections, or the
session's mutex alone would order them: hence the two connections of `write_race`. What is
raced for there comes after a call was cleared, and an exemption clears it as an approval
does: approvals, and two answers to one, are in the runs before it and in `write_liveness`.

### `parts`: eight parts, one per behaviour

`MCParts` is the disjoint sum of eight specifications that share no variable: each behaviour
picks a `part`, runs it, and leaves the others as they began. Its view is the part's own
state, which loses nothing, since the rest is constant. A property of one part holds in the
initial state of every other, so checking all in one run is checking each.

| part | instance | why it is enough | properties |
|---|---|---|---|
| rpc | 2 executes, 1 fetch of the first's result | two calls cross, one has a cursor a fetch reads | `NobodyLeftWaiting`, `CursorsAccounted` |
| host | 2 connections, 2 processes, `RESTARTS` 0, minute and idle time of 1 | one that uses the process or leaves it, and one that races to start it or comes as a timer decides | `SessionsCounted`, `EveryProcessKept`, `FailedStartsBounded`, `IdleSparesSessions` |
| install | 2 Dexos, any command, one stale lock | two that meet at one lock, or at the state through another plugin | `LocksExclude`, `EntryMatchesFolder`, `StaysDisabled` |
| duckdb | 2 scripts of 2 statements, 1 other work, 1 mark kept | one cancelled, one that must not be struck, one abandoned; a mark that is evicted | `OnlyTheAskedAreStruck`, `AskedBeginsNoFurther` |
| drafts | a draft and a file, 2 edits, 3 starts, 2 commands in line | a crash, what comes back, and a second crash before it is saved; a flush against a checkpoint | `KeptIsNotLost`, `SavedIsHeld`, `CopiesAreOfTabs` |
| import | 4 rows in batches of 2, 2 ahead | a batch that goes in, and one cut short in the middle | `ImportSaysWhatWentIn` |
| transfers | any 2 of an export, an import and a backup, of 1 portion each, and a query | one that is stopped, one that runs, a query that must not be; a restore is a backup without its file | `StopIsHeeded`, `AnswersReachTheirAsker` |
| session | a run of 2 statements, a batch, a fenced read, 2 commands of the person | each pair that can share a transaction | `DoneIsKept`, `ScreenShowsTransaction` |

`PartsTypeOK` is the type invariant of the part that runs.

### `workbench` and `progress`

`MCProgress` is the sum, likewise, of `WorkbenchRuns`, `PluginRpc` and `PluginHost`, each with
its fairness; a run picks the parts it checks (`Parts`).

| run | instance | shows |
|---|---|---|
| `workbench` | two scripts of 2 and 1 statements and an EXPLAIN, of which two are launched, a queue of one, one failure of something that is no run (beside scripts that stop on an error) | `OneRunAtATime`, `TheRunIsOnScreen`, `StruckScriptStops`, `TheSlotHoldsTheStatement`; in the end `NothingSpinsForEver` |
| `progress` | an execute and a fetch of its result; two connections, two processes | in the end `WaitersAreTold`, `GivenUpIsUndone`, `IdleProcessStops`; and `ConversationKept` |

A queue of one is a queue that is full whenever anything is in it; the code's 32 differ in how
long that takes. One failure elsewhere (`MaxElsewhere`) is enough to clear the fields under any
run. That it comes beside ContinueOnError too was checked once, with the same result, in
857,000 states; the bound keeps the run short. `ConversationKept` is the refinement: `PluginRpc` implements
`Conversation`, whose state is a function of its own (what each call came to, what the plugin
said, whether it is over).

Larger instances of `WorkbenchRuns` were explored by hand. One of a script, a re-run and an
EXPLAIN, all launched, was completed (10.4 million states, no error). Three scripts, and two scripts with
a re-run, showed no violation in 18 and 24 million states before they were stopped.

### What the repository says and the code does not do

Five runs end in the counterexample named; `PROJECT.json` quotes the lines, of these and of the
other findings.

- `write_cancelled`: a call cancelled once it has its permit still runs.
- `write_answered`: "The agent is no longer waiting for this write; nothing runs." may be
  said of a write that then runs.
- `write_retried`: an operation id retried after the server restarted writes twice.
- `write_rolled_back`: a write committed whose answer was lost is recorded as rolled back.
- `loop_waits`: the loop, which alone empties the queue of actions, waits for room in it,
  and the screen stops for good.

A sixth is within what `WritesAreGuarded` promises: an access revoked between its read and the
insert of the request leaves a pending request under a revoked access, which can be approved
(`tools_write.rs:208`). The write is still refused, but the person is told it runs.

Others are the exceptions a passing property makes: a history variable marks exactly the
states in which the code departs from what it says, and the property holds of all others.

| property | exception | what the code does there |
|---|---|---|
| `CursorsAccounted` | `missed` | an answer that comes while its call is given up is dropped, and its cursor stays |
| `SessionsCounted`, `EveryProcessKept` | dropped, `adrift` | a connection dropped while it opens stays counted, or leaves a process nobody reaps |
| `IdleSparesSessions` | `hasty` | an idle timer stops the process after it looked, under a session that came since |
| `FailedStartsBounded` | one more | four starts in a minute, not three |
| `LocksExclude` | `wronged` | a stale lock taken over twice, or from a Dexo that was only asleep |
| `EntryMatchesFolder` | `halfway` | an install that has swapped the folder fails to get the state's lock, or to write the state: the version in place is that install's, its entry the old one's |
| `StaysDisabled` | `unseen` | a read of the state while the folder is aside drops the entry |
| `OnlyTheAskedAreStruck` | `stray` | a late interrupt of an abandoned work strikes the next query |
| `OneRunAtATime`, `TheRunIsOnScreen` | `Undisturbed`, `asked`, `beside` | a cancel or a failure that is not the end is taken for it; re-runs and plans are not counted |
| `OneRunAtATime`, `TheRunIsOnScreen` | `overheard` | a failed autosave or history read, which is no run's end, clears both fields: the script leaves the screen and a second one may start |
| `KeptIsNotLost` | `outdated`, `torn` | a tab comes back older than its file, or than its row |
| `SavedIsHeld` | `lulled`, `misnamed` | a flush marks what is in no file as saved |
| `StopIsHeeded` | a stop between hand-over and look | the flag is stored after the only look at it, and the tool runs on |
| `AnswersReachTheirAsker` | `silent`, `cancelledFor`, `forgotten` | a tool without a directory answers nobody; a stop too early or too late cancels the query beside, and its transfer runs on |
| `ImportSaysWhatWentIn` | cancelled | a cancel between two rows loses what the batch set aside |
| `ScreenShowsTransaction` | `misled`: "typed", "refused" | a typed `begin;` that the session does not see; a COMMIT the server refused, after which the screen goes on showing a transaction that is gone |
| `ScreenShowsTransaction` | `misled`: "shared", "fence", "late" | a batch or a fence that ends, aborts or revives the person's transaction; a failure noted after the state was told |
| `DoneIsKept` | `crowded` | a batch's BEGIN and COMMIT in the person's transaction end it |

### Fairness

- `McpWrites`, `FairSpec`: weak fairness of each call's handler (tokio polls a future that can
  go on, and a database answers in the end), of `ListPending` (somebody looks at the Agents
  screen or starts a server now and then, which sweeps), and of the clock. Nothing of
  agents, answers, revocations or kills. Weak fairness is enough where calls compete, since a
  call takes a permit or session at most once.
- `RpcFairness`: weak fairness of the steps of a future that is polled or dropped, of the
  reading thread while there is something to read, of the plugin's loop and of the tasks it
  aborted. Nothing makes a query answer, a caller give up, or a plugin that runs end.
- `HostFairness`: weak fairness of the clock, of the timers' threads and of a stop under way.
  Nothing makes a session close, a handshake end or a process answer.
- `WorkFairness`: weak fairness of the loop, of a statement's time limit and of the end of a
  plan's task; strong fairness of each script's task, since the tasks compete for room in the
  queue, and tokio's channel serves those that wait in order. Nothing makes a database
  answer, a plan end, or the user do a thing.

## 4. The proofs

The theorems hold for any number of calls, grants, servers, connections, Dexos, queries,
runs and transfers, and all values of the constants that satisfy the named assumptions,
which TLC evaluates in the runs.

| module | theorem | states | argument |
|---|---|---|---|
| `McpWritesProofs` | `Typed` | `TypeOK` | `TypeInv` = `TypeOK`, every call past "idle" has arguments, and every call past its reservation has a record: finishing a record that is not there would leave its type |
| | `OneAccess` | `OneAccessPerConnection` | giving an access revokes what its profile had there in the same step, and no step makes a revoked access live |
| | `OneWrite` | `OneWritePerOperation` | `OneOwner`: a call *owns* its operation id from its reservation on, for ever once it committed; two owners of one id on one server are the same call |
| | `Final` | `DecisionsAreFinal` | every operator on the table keeps a decided row or deletes it; a request is inserted only for a call still asking (`AskedInv`) |
| | `TakenBack` | `TakenBackStartsNothing` (no run of its own: `WritesAreGuarded` says more) | `AskedInv`: an approved call runs under the access its request names; revocation is for good |
| | `ListIsWaitedFor` | `PendingIsWaitedFor` | `WaitedOrGone`: a pending request's call polls it, or its server was killed and the call ended with it |
| | `SaidSo` | `NothingRunsOnceSaidSo` | `ToldInv` = `AskedInv` and `ClearedAs`, `WritesCleared`, `ToldTrue`: the request of whoever was told no, or will be by an answer under way, is `Dead`: not approved, and if it is still pending, past its deadline, so that no later answer approves it |
| | `WrittenWasCleared` | `CommittedWasCleared` | `RanUnder`, `OwnKinds`: from its last look on, a call runs under the access it was approved for, or under one that lets its kind run |
| | `SlotsKept` | `SlotsAccounted` | `Slots`: the holders of a server's permits are a finite set, and each step adds or removes one of them with the permit; needs `FreeAssumption`, that "free" is no call's id |
| | `GuardedWriteImplemented` | `WritesAreGuarded` | `PromiseInv` = `TypeInv`, `ToldInv`, `DraftKnown`, `OwnKinds`, `RanUnder`: a request is of the call that keeps its id, and a cleared call's access is the one it was approved for; each action maps to one step of `GuardedWrite` or to a `Turn` of it, in which accesses come and go and requests fade; the approved request of a call that is cleared names the access it is cleared under |
| `PluginRpcProofs` | `RpcTypes`, `NobodyWaits` | `RpcTypeOK`, `NobodyLeftWaiting` | whoever waits has its sender in `pending` or its answer in its slot, until the end drains them |
| | `ConversationImplemented` | `ConversationKept` | each step maps to one of `Conversation` or a stutter; what is in a slot or on its way is what the plugin said |
| | `CursorsOwned` | `CursorsAccounted` | `CursorInv`: an answer is read once (`ReadOnce`); until then its call is in `pending` or, from `noted` on, in `abandoned` (`OwedInv`); a cursor is of an answered query and goes with its last page (`CursorsSaid`) |
| `PluginProofs` | `HostTypes`, `ProcessesKept`, `SessionsAreCounted`, `TimersSpare` | `HostTypeOK`, `EveryProcessKept`, `SessionsCounted`, `IdleSparesSessions` | one connection at a time holds `starting`; the count changes with the set; a timer that decided has the ticket of its decision |
| | `StartsBounded` | `FailedStartsBounded` | `BudgetInv`: what the host counts is what failed, oldest first, but for some that are old (`TailOf`), so both have the same in the last minute; a start is tried, and a process is live, only while there is one failure more to spend |
| | `InstallTypes`, `LocksDoExclude` | `InstallTypeOK`, `LocksExclude` | `HolderInv`: a lock that was not wronged is held by the maker of its file |
| | `EntryFits`, `DisabledStays` | `EntryMatchesFolder`, `StaysDisabled` | `PhaseInv`, `EntryInv`, `OffInv`: who has the plugin's lock is the only one whose copy may differ, and it writes last; if it cannot, its version is the one in place and is `halfway` |
| | `DuckTypes`, `OnlyAskedStruck`, `NoFurther` | `DuckTypeOK`, `OnlyTheAskedAreStruck`, `AskedBeginsNoFurther` | `OneInv`: one job has the connection; `MarkInv`: who was asked and not forgotten is marked, or struck, before its next statement |
| `WorkbenchRunsProofs` | `WorkTyped`, `StruckStops` | `WorkTypeOK`, `StruckScriptStops` | `StruckInv`, for scripts of any length |
| | `OneAtATime`, `OnScreen`, `SlotHolds` | `OneRunAtATime`, `TheRunIsOnScreen`, `TheSlotHoldsTheStatement` | `KnownInv`, `OverInv`, `EndInv`, `OwedInv`, `BesideInv`: of an undisturbed run at most one end is in the queue, as its last action, and nothing of one before comes after its start; an end that is no run's marks all that are on when it is heard |
| `TransfersProofs` | `TransfersTyped`, `StopsHeeded` | `TransfersTypeOK`, `StopIsHeeded` | `OneOK`, of each transfer: one that was stopped in time is `Doomed`, at every step on its way by a flag, a word or a status; a file in the making is of a step on that way |
| | `AskersAnswered` | `AnswersReachTheirAsker` | `AskOK`: only those are marked that were stopped and whose stop found them, a dialog that waits shows one that was not stopped, a stop acts once; an answer in the queue stays until it is heard |
| | `ImportTypes`, `SaysWhatWentIn` | `ImportTypeOK`, `ImportSaysWhatWentIn` | `ChannelInv`: the channel holds the batches between the one at hand and the last one read; `RowsInv`: the report accounts for the table up to the batch at hand (`Accounts`), and what that batch has in the transaction for its rows so far; `EndInv`: however it ends, the report accounts for the first rows, and what more is in the table is of the batch that was cut short |
| `DraftsProofs` | `DraftsTyped`, `SavedAreHeld` | `DraftsTypeOK`, `SavedIsHeld` | `QueueInv`: a flush is the last thing the storage thread was told, and of the tabs as they are, since the loop waits for it |
| | `CopiesOnlyOfTabs` | `CopiesAreOfTabs` | `CopiesInv`, of what will be left of the copies once the storage thread has done what it was told (`CopyLeft`): a copy that will be left is of a tab that is marked |
| | `KeptIsKept` | `KeptIsNotLost` | `OrderInv`: copies come in the order of the texts, so one written over another is no older; `KeptInv`: before a copy is deleted, what it says is in the file or in the row. Needs `CopiesInv`: a commit finds the queue empty |
| `PgSessionProofs` | `PgTypes`, `DoneKept` | `PgTypeOK`, `DoneIsKept` | `DoneInv`: what somebody is about to roll back (`Ending`) was not reported done or is of a shared transaction; a batch past its write has it in an open transaction, or is shared |
| | `ScreenShown` | `ScreenShowsTransaction` | `SeenInv` = `FenceHeld`, `NotedInv` and, while nothing has misled, `Fits` and `Told`: what the session takes the transaction for fits what there is, given what is under way (`IdleFits`, `ActiveFits`, `FailedFits`), and the screen shows it once it has heard all, or a run has yet to tell; needs that "person" is no operation's name (`PgSessionAssumption`) |
| `PartsProofs` | `PartsAreComponents`, `PartsTyped` | `PartsTypeOK` | a step of the parts is a step of one and leaves the others as they are, so what is proved of each component holds where they stand side by side |

`McpWritesProofs` begins with lemmas on the ledger's operators (`GrantLedger`): the type of
what each returns, and which rows it may change. An action property follows from the same invariants as the
state properties beside it.

Only model-checked: liveness, which is out of the prover's reach: `EveryCallIsAnswered`,
  `NoRequestWaitsForEver`, `WaitersAreTold`, `GivenUpIsUndone`, `IdleProcessStops`,
  `NothingSpinsForEver`.

A proof that failed was a finding about the model. `KeptIsNotLost` held in the runs, and was
wrong: with a third start of Dexo a text that had come back older than its row came back
again, and the model had forgotten that it was an exception. The history now lasts until the
text is saved or closed (`Settles`), and the run starts Dexo three times.

## 5. The plan

Done: the write path and what it promises, a plugin's three modules and its driver, the workbench's runs,
transfers, texts and its PostgreSQL session. Left, in this order:

1. Errors of the local database in `McpWrites` (a record that stays running; an access whose
   read fails and counts as not revoked) and the time an answer is judged by, read before
   its statement waits: hazards listed without a property.
2. **`ToolList`**: the list a client was shown, `tools/list` against the poller and a second
   subscription.
3. `PgSession` with savepoints of the person and ContinueOnError; the sessions of MySQL and
   SQLite, whose fences differ.
4. **`PolicyDecision`, `SchemaOrder`**: the policy's precedence and the order of a schema
   script against reference definitions; a row's edits against its change set.

Not planned: rendering, forms, dialects, transport and what the operating system keeps, for
the reasons of section 1.
