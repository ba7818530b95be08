------------------------------ MODULE McpWrites ------------------------------
(***************************************************************************)
(* The write path of Dexo's MCP servers.  An agent calls a write tool; the *)
(* call looks for the write access that covers it, asks a person through   *)
(* the shared database, waits, takes its profile's call permit and the     *)
(* connection's one session, is judged again under the access as it is by  *)
(* then, reserves its operation id, runs, and records what came of it.     *)
(*                                                                         *)
(* Several server processes, each with calls of its own, the person's      *)
(* screen and the clock interleave; a server may be stopped or killed at   *)
(* any point.  A restarted server is a new member of Servers: each process *)
(* has a session id of its own (server.rs:68).                             *)
(***************************************************************************)
EXTENDS GrantLedger

CONSTANTS
    Servers,    \* server processes, over time
    ProfileOf,  \* the profile each serves
    OpIds,      \* the operation ids agents give their writes
    Writes,     \* payloads: what the tool and all its arguments hash to
    ConnOf,     \* the connection each payload writes to
    OpsOf,      \* the operations it does
    KindOfWrite,\* the kind of its tool
    Unfit,      \* payloads refused where they run: targets denied, unconfirmed
    Permits,    \* limits.max_concurrency of a profile
    Screens,    \* answers under way at a time: every key starts a task of its own
    Asks,       \* the waits (ask_secs) a person may give an access
    Ttls,       \* the times an access may last
    MaxNow      \* bound: the last second of the modelled time

ASSUME McpAssumption ==
    /\ ProfileOf \in [Servers -> Profiles]
    /\ ConnOf \in [Writes -> Conns]
    /\ OpsOf \in [Writes -> SUBSET Operations]
    /\ KindOfWrite \in [Writes -> Kinds]
    /\ Unfit \subseteq Writes
    /\ Permits \in Nat \ {0}
    /\ Asks \subseteq Nat \ {0}
    /\ Ttls \subseteq Nat \ {0}
    /\ MaxNow \in Nat

VARIABLES
    now,        \* the wall clock every process on the machine reads, in seconds
    server,     \* where each server process is in its life
    phase,      \* where each call is, see Phases
    args,       \* a call's server, operation id and payload
    cancelled,  \* the agent cancelled the call: its token is set
    draft,      \* the request a call makes, as its handler holds it
    clearance,  \* why the call may run
    under,      \* the access the call was judged to run under
    result,     \* what the agent is answered
    permits,    \* free permits of each server's semaphore
    session,    \* who holds each server's session on each connection
    records,    \* mcp_operations
    committed,  \* the call's write is in the target database
    screen,     \* what each answer under way still has to do
    told        \* all the person was told about each request

callVars   == <<phase, args, cancelled, draft, clearance, under, result>>
slotVars   == <<permits, session>>
personVars == <<screen, told>>
vars == <<grants, approvals, now, server, phase, args, cancelled, draft, clearance,
          under, result, permits, session, records, committed, screen, told>>

Phases ==
    {"idle",
     "called",    \* past the visibility gate of call_tool
     "asking",    \* has read its access; its request is not in the database yet
     "waiting",   \* its request is; the handler polls it
     "queued",    \* cleared, waits for a permit
     "permitted", \* holds a permit, waits for the session
     "leased",    \* holds the session
     "judged",    \* call_write_tool let it through
     "reserved",  \* its operation id is recorded as running
     "checked",   \* the access was live after that; execute reads the target's keys
     "running",   \* the last look at the access found it live
     "applied",   \* the database answered
     "done"}

\* A session no call holds.
Free == "free"
ASSUME FreeAssumption == Free \notin Calls

NoArgs == [server |-> "none"]
NoRecord == [state |-> "none"]
Idle == [at |-> "idle"]

Record == [state: {"running", "succeeded", "failed"}, write: Writes,
           effect: {"unknown", "committed", "rolled_back"}]
Args == [server: Servers, op: OpIds, write: Writes]
Answers == {"approved", "denied", "already", "timed_out", "nobody"}
Screen == {Idle} \cup [at: {"missed"}, call: Calls, since: 0 .. MaxNow]
                 \cup [at: {"settling"}, call: Calls, late: BOOLEAN]
                 \cup [at: {"stop_asking"}, grant: Grants, asked: SUBSET Operations]

Results == {"none", "not_found", "busy", "cancelled", "denied", "expired", "withdrawn",
            "revoked", "conflict", "replayed", "invalid", "unapproved", "stale",
            "unreachable", "succeeded", "rolled_back", "failed", "killed"}

\* The type of every variable: of each row, local and message of the handlers.
TypeOK ==
    /\ LedgerTypeOK
    /\ now \in 0 .. MaxNow
    /\ server \in [Servers -> {"new", "up", "down"}]
    /\ phase \in [Calls -> Phases]
    /\ args \in [Calls -> Args \cup {NoArgs}]
    /\ cancelled \in [Calls -> BOOLEAN]
    /\ draft \in [Calls -> Request \cup {NoRequest}]
    /\ clearance \in [Calls -> {"none", "approved", "bypassed"}]
    /\ under \in [Calls -> SUBSET Grants]
    /\ result \in [Calls -> Results]
    /\ permits \in [Servers -> Nat]
    /\ session \in [Servers -> [Conns -> Calls \cup {Free}]]
    /\ records \in [Servers -> [OpIds -> Record \cup {NoRecord}]]
    /\ committed \in [Calls -> BOOLEAN]
    /\ screen \in [Screens -> Screen]
    /\ told \in [Calls -> SUBSET Answers]

Init ==
    /\ LedgerInit
    /\ now = 0
    /\ server = [s \in Servers |-> "new"]
    /\ phase = [c \in Calls |-> "idle"]
    /\ args = [c \in Calls |-> NoArgs]
    /\ cancelled = [c \in Calls |-> FALSE]
    /\ draft = [c \in Calls |-> NoRequest]
    /\ clearance = [c \in Calls |-> "none"]
    /\ under = [c \in Calls |-> {}]
    /\ result = [c \in Calls |-> "none"]
    /\ permits = [s \in Servers |-> Permits]
    /\ session = [s \in Servers |-> [k \in Conns |-> Free]]
    /\ records = [s \in Servers |-> [o \in OpIds |-> NoRecord]]
    /\ committed = [c \in Calls |-> FALSE]
    /\ screen = [u \in Screens |-> Idle]
    /\ told = [c \in Calls |-> {}]

-----------------------------------------------------------------------------
(* What a call looks up. *)

Srv(c)   == args[c].server
Write(c) == args[c].write
Conn(c)  == ConnOf[Write(c)]

\* Mutant of Rec: the record is looked up by the payload as well.
RecOfPayload(c) ==
    LET row == records[Srv(c)][args[c].op]
    IN  IF row # NoRecord /\ row.write # Write(c) THEN NoRecord ELSE row

Rec(c)   == records[Srv(c)][args[c].op]

\* published_tools: some active access of the profile gives the payload's tool.
Published(s, w) ==
    \E g \in ActiveGrants(ProfileOf[s], now) : KindOfWrite[w] \in grants[g].kinds

\* covering_grant: those of them on the payload's connection.
Covering(c) ==
    {g \in ActiveGrants(ProfileOf[Srv(c)], now) :
        /\ grants[g].conn = Conn(c)
        /\ KindOfWrite[Write(c)] \in grants[g].kinds}

Bypasses(g, w) == OpsOf[w] # {} /\ OpsOf[w] \subseteq grants[g].bypass

\* Mutant of Stands: an approval is good for any access of the profile.
StandsUnderAny(c, g) ==
    CASE clearance[c] = "approved" -> approvals[c].decision = "approved"
      [] clearance[c] = "bypassed" -> Bypasses(g, Write(c))
      [] OTHER                     -> TRUE

\* The clearance a call was given still holds under the access g it is judged under.
Stands(c, g) ==
    CASE clearance[c] = "approved" -> /\ approvals[c].decision = "approved"
                                      /\ approvals[c].grant = g
      [] clearance[c] = "bypassed" -> Bypasses(g, Write(c))
      [] OTHER                     -> TRUE

\* replay_or_conflict, on a record that is there.
Conflicts(c) == Rec(c).write # Write(c) \/ Rec(c).state = "running"

LowerOf(a, b) == IF a < b THEN a ELSE b

-----------------------------------------------------------------------------
(* How a call moves on. *)

Goto(c, p) == phase' = [phase EXCEPT ![c] = p]

HasPermit == {"permitted", "leased", "judged", "reserved", "checked", "running", "applied"}
HasSession == {"leased", "judged", "reserved", "checked", "running", "applied"}

\* Mutants of End: the permit comes back only with a session; or the session stays taken.
EndKeepsPermit(c, r) ==
    /\ Goto(c, "done")
    /\ result' = [result EXCEPT ![c] = r]
    /\ IF phase[c] \in HasSession
       THEN /\ permits' = [permits EXCEPT ![Srv(c)] = @ + 1]
            /\ session' = [session EXCEPT ![Srv(c)][Conn(c)] = Free]
       ELSE UNCHANGED slotVars

EndKeepsSession(c, r) ==
    /\ Goto(c, "done")
    /\ result' = [result EXCEPT ![c] = r]
    /\ permits' = IF phase[c] \in HasPermit
                  THEN [permits EXCEPT ![Srv(c)] = @ + 1]
                  ELSE permits
    /\ UNCHANGED session

\* The call answers r; the permit and the lease it holds are dropped with it.
End(c, r) ==
    /\ Goto(c, "done")
    /\ result' = [result EXCEPT ![c] = r]
    /\ permits' = IF phase[c] \in HasPermit
                  THEN [permits EXCEPT ![Srv(c)] = @ + 1]
                  ELSE permits
    /\ session' = IF phase[c] \in HasSession
                  THEN [session EXCEPT ![Srv(c)][Conn(c)] = Free]
                  ELSE session

\* await_approval cleared the call, which queues for a permit; one the agent cancelled
\* meanwhile does not run.
Cleared(c, how) ==
    IF cancelled[c]
    THEN End(c, "cancelled") /\ UNCHANGED clearance
    ELSE /\ Goto(c, "queued")
         /\ clearance' = [clearance EXCEPT ![c] = how]
         /\ UNCHANGED <<result, permits, session>>

\* await_approval left the call to be judged where it runs: it takes a permit now or
\* is told the server is busy.
Uncleared(c) ==
    /\ UNCHANGED clearance
    /\ IF cancelled[c] THEN End(c, "cancelled")
       ELSE IF permits[Srv(c)] = 0 THEN End(c, "busy")
       ELSE /\ Goto(c, "permitted")
            /\ permits' = [permits EXCEPT ![Srv(c)] = @ - 1]
            /\ UNCHANGED <<result, session>>

-----------------------------------------------------------------------------
(* The handler of a write call, up to its clearance. *)

\* call_tool: a write tool no active access publishes is hidden.
Call(c, s, o, w) ==
    /\ server[s] = "up" /\ phase[c] = "idle" /\ now < MaxNow
    /\ args' = [args EXCEPT ![c] = [server |-> s, op |-> o, write |-> w]]
    /\ IF Published(s, w)
       THEN Goto(c, "called") /\ UNCHANGED result
       ELSE Goto(c, "done") /\ result' = [result EXCEPT ![c] = "not_found"]
    /\ UNCHANGED <<ledgerVars, now, server, cancelled, draft, clearance, under,
                   slotVars, records, committed, personVars>>

\* await_approval up to the request: what it reads of the database decides whether the
\* call is judged where it runs, runs without asking, or asks.  MaxNow cuts a wait short.
Await(c) ==
    /\ phase[c] = "called"
    /\ \/ /\ Rec(c) # NoRecord \/ Write(c) \in Unfit \/ Covering(c) = {}
          /\ Uncleared(c)
          /\ UNCHANGED draft
       \/ /\ Rec(c) = NoRecord /\ Write(c) \notin Unfit
          /\ \E g \in Covering(c) :
                IF Bypasses(g, Write(c))
                THEN Cleared(c, "bypassed") /\ UNCHANGED draft
                ELSE /\ Goto(c, "asking")
                     /\ draft' = [draft EXCEPT ![c] =
                           [decision |-> "pending", grant |-> g, heartbeat |-> now,
                            deadline |-> LowerOf(LowerOf(now + grants[g].ask, MaxNow),
                                                 grants[g].expires),
                            asked |-> OpsOf[Write(c)] \ grants[g].bypass]]
                     /\ UNCHANGED <<clearance, result, permits, session>>
    /\ UNCHANGED <<ledgerVars, now, server, args, cancelled, under, records,
                   committed, personVars>>

\* The request goes to the database, after the access it names was read.
Ask(c) ==
    /\ phase[c] = "asking"
    /\ Goto(c, "waiting")
    /\ RequestApproval(c, draft[c])
    /\ UNCHANGED <<now, server, args, cancelled, draft, clearance, under, result,
                   slotVars, records, committed, personVars>>

\* One turn of the loop: the heartbeat, then the decision as the database has it.  The
\* call ends with the Waiting guard settling what is still pending, which is nothing
\* here; a request deleted meanwhile reads as expired.
Poll(c) ==
    /\ phase[c] = "waiting"
    /\ LET row  == Touched(approvals, c, now)[c]
           late == row.decision = "pending" /\ draft[c].deadline <= now
       IN  /\ approvals' = IF late THEN Settled(approvals, c, "expired", now)
                                   ELSE Touched(approvals, c, now)
           /\ \/ row.decision = "approved" /\ Cleared(c, "approved")
              \/ /\ row.decision = "pending" /\ ~late
                 /\ UNCHANGED <<phase, clearance, result, permits, session>>
              \/ /\ row.decision = "denied"
                 /\ End(c, IF IsRevoked(draft[c].grant) THEN "revoked" ELSE "denied")
                 /\ UNCHANGED clearance
              \/ /\ late \/ row.decision \in {"expired", "none"}
                 /\ End(c, "expired")
                 /\ UNCHANGED clearance
              \/ row.decision = "cancelled" /\ End(c, "withdrawn") /\ UNCHANGED clearance
    /\ UNCHANGED <<grants, now, server, args, cancelled, draft, under, records,
                   committed, personVars>>

\* The agent cancels: the token is set, and the handler goes on unless it looks.
Cancel(c) ==
    /\ phase[c] \notin {"idle", "done"} /\ ~cancelled[c]
    /\ cancelled' = [cancelled EXCEPT ![c] = TRUE]
    /\ UNCHANGED <<ledgerVars, now, server, phase, args, draft, clearance, under,
                   result, slotVars, records, committed, personVars>>

\* Mutant of SeeCancel: the request is not withdrawn.
SeeCancelLeaving(c) ==
    /\ cancelled[c] /\ phase[c] \in {"waiting", "queued"}
    /\ End(c, "cancelled")
    /\ UNCHANGED <<ledgerVars, now, server, args, cancelled, draft, clearance, under,
                   records, committed, personVars>>

\* The handler sees it while it waits for a person, and the Waiting guard withdraws the
\* request, or while it queues for a permit.
SeeCancel(c) ==
    /\ cancelled[c] /\ phase[c] \in {"waiting", "queued"}
    /\ End(c, "cancelled")
    /\ approvals' = IF phase[c] = "waiting"
                    THEN Settled(approvals, c, "cancelled", now)
                    ELSE approvals
    /\ UNCHANGED <<grants, now, server, args, cancelled, draft, clearance, under,
                   records, committed, personVars>>

-----------------------------------------------------------------------------
(* The handler of a write call, from its clearance to its answer. *)

TakePermit(c) ==
    /\ phase[c] = "queued" /\ permits[Srv(c)] > 0
    /\ Goto(c, "permitted")
    /\ permits' = [permits EXCEPT ![Srv(c)] = @ - 1]
    /\ UNCHANGED <<ledgerVars, now, server, args, cancelled, draft, clearance, under,
                   result, session, records, committed, personVars>>

\* router.lease: the mutex serializes the calls on a session; opening it may fail.
OpenSession(c) ==
    /\ phase[c] = "permitted" /\ session[Srv(c)][Conn(c)] = Free
    /\ \/ /\ Goto(c, "leased")
          /\ session' = [session EXCEPT ![Srv(c)][Conn(c)] = c]
          /\ UNCHANGED <<result, permits>>
       \/ End(c, "unreachable")
    /\ UNCHANGED <<ledgerVars, now, server, args, cancelled, draft, clearance, under,
                   records, committed, personVars>>

\* call_write_tool up to its reservation.
Judge(c) ==
    /\ phase[c] = "leased"
    /\ \/ /\ Rec(c) # NoRecord
          /\ End(c, IF Conflicts(c) THEN "conflict" ELSE "replayed")
          /\ UNCHANGED under
       \/ /\ Rec(c) = NoRecord /\ Covering(c) = {}
          /\ End(c, "not_found")
          /\ UNCHANGED under
       \/ /\ Rec(c) = NoRecord
          /\ \E g \in Covering(c) :
                IF Write(c) \in Unfit THEN End(c, "invalid") /\ UNCHANGED under
                ELSE IF ~Stands(c, g) THEN End(c, "stale") /\ UNCHANGED under
                ELSE IF clearance[c] = "none" THEN End(c, "unapproved") /\ UNCHANGED under
                ELSE /\ Goto(c, "judged")
                     /\ under' = [under EXCEPT ![c] = {g}]
                     /\ UNCHANGED <<result, slotVars>>
    /\ UNCHANGED <<ledgerVars, now, server, args, cancelled, draft, clearance, records,
                   committed, personVars>>

\* Mutant of Reserve: nothing is inserted.
ReserveNothing(c) ==
    /\ phase[c] = "judged"
    /\ IF Rec(c) = NoRecord
       THEN Goto(c, "reserved") /\ UNCHANGED <<result, slotVars>>
       ELSE End(c, IF Conflicts(c) THEN "conflict" ELSE "replayed")
    /\ UNCHANGED <<ledgerVars, now, server, args, cancelled, draft, clearance, under,
                   records, committed, personVars>>

\* operation_repo::reserve, alone under the server's connection mutex.
Reserve(c) ==
    /\ phase[c] = "judged"
    /\ IF Rec(c) = NoRecord
       THEN /\ Goto(c, "reserved")
            /\ records' = [records EXCEPT ![Srv(c)][args[c].op] =
                              [state |-> "running", write |-> Write(c),
                               effect |-> "unknown"]]
            /\ UNCHANGED <<result, slotVars>>
       ELSE /\ End(c, IF Conflicts(c) THEN "conflict" ELSE "replayed")
            /\ UNCHANGED records
    /\ UNCHANGED <<ledgerVars, now, server, args, cancelled, draft, clearance, under,
                   committed, personVars>>

\* finish_operation.
Finished(c, state, effect) ==
    records' = [records EXCEPT ![Srv(c)][args[c].op] =
                   [@ EXCEPT !.state = state, !.effect = effect]]

UnderRevoked(c) == \E g \in under[c] : IsRevoked(g)

\* The look at the access after the reservation.
CheckRevoked(c) ==
    /\ phase[c] = "reserved"
    /\ IF UnderRevoked(c)
       THEN End(c, "revoked") /\ Finished(c, "failed", "rolled_back")
       ELSE Goto(c, "checked") /\ UNCHANGED <<result, slotVars, records>>
    /\ UNCHANGED <<ledgerVars, now, server, args, cancelled, draft, clearance, under,
                   committed, personVars>>

\* Mutant of Execute: it does not look.
ExecuteAnyway(c) ==
    /\ phase[c] = "checked"
    /\ Goto(c, "running")
    /\ UNCHANGED <<ledgerVars, now, server, args, cancelled, draft, clearance, under,
                   result, slotVars, records, committed, personVars>>

\* The look execute takes before it starts, which for a row's write comes after the
\* table's keys were read; taken back by then, nothing runs and it is not an error.
Execute(c) ==
    /\ phase[c] = "checked"
    /\ IF UnderRevoked(c)
       THEN Goto(c, "applied") /\ result' = [result EXCEPT ![c] = "rolled_back"]
       ELSE Goto(c, "running") /\ UNCHANGED result
    /\ UNCHANGED <<ledgerVars, now, server, args, cancelled, draft, clearance, under,
                   slotVars, records, committed, personVars>>

\* What the target database (external) may make of a write, and whether it is in it then:
\* any write may fail -- or be committed by a database whose answer is lost.  A script
\* looks at its access again between its statements.  A DDL is one statement outside a
\* transaction, so it is never reported rolled back, committed in part or unknown.
Outcomes(c) ==
    [reply: {"succeeded"}, written: {TRUE}]
        \cup [reply: {"failed"}, written: BOOLEAN]
        \cup {o \in [reply: {"revoked"}, written: {FALSE}] : UnderRevoked(c)}

Run(c) ==
    /\ phase[c] = "running"
    /\ Goto(c, "applied")
    /\ \E o \in Outcomes(c) :
          /\ result' = [result EXCEPT ![c] = o.reply]
          /\ committed' = [committed EXCEPT ![c] = o.written]
    /\ UNCHANGED <<ledgerVars, now, server, args, cancelled, draft, clearance, under,
                   slotVars, records, personVars>>

\* Every error is recorded as rolled back.
Finish(c) ==
    /\ phase[c] = "applied"
    /\ CASE result[c] = "succeeded"   -> Finished(c, "succeeded", "committed")
         [] result[c] = "rolled_back" -> Finished(c, "succeeded", "rolled_back")
         [] OTHER                     -> Finished(c, "failed", "rolled_back")
    /\ End(c, result[c])
    /\ UNCHANGED <<ledgerVars, now, server, args, cancelled, draft, clearance, under,
                   committed, personVars>>

-----------------------------------------------------------------------------
(* The server processes. *)

\* A server sweeps the requests of the ones killed before it.
Start(s) ==
    /\ server[s] = "new"
    /\ server' = [server EXCEPT ![s] = "up"]
    /\ approvals' = Swept(approvals, now)
    /\ UNCHANGED <<grants, now, callVars, slotVars, records, committed, personVars>>

CallsOf(s) == {c \in Calls : phase[c] \notin {"idle", "done"} /\ Srv(c) = s}

\* The memory of a process, and the transactions of its sessions, go with it.
Gone(s) ==
    /\ server[s] = "up"
    /\ server' = [server EXCEPT ![s] = "down"]
    /\ phase' = [c \in Calls |-> IF c \in CallsOf(s) THEN "done" ELSE phase[c]]
    /\ result' = [c \in Calls |-> IF c \in CallsOf(s) THEN "killed" ELSE result[c]]
    /\ permits' = [permits EXCEPT ![s] = Permits]
    /\ session' = [session EXCEPT ![s] = [k \in Conns |-> Free]]
    /\ UNCHANGED <<grants, now, args, cancelled, draft, clearance, under, records,
                   committed, personVars>>

Kill(s) == Gone(s) /\ UNCHANGED approvals

\* The client goes away: the calls are dropped where they await, and the Waiting guards
\* withdraw their requests.
Stop(s) ==
    /\ \A c \in CallsOf(s) : phase[c] \in {"waiting", "queued", "permitted", "checked", "running"}
    /\ Gone(s)
    /\ approvals' = [c \in Calls |->
                        IF c \in CallsOf(s) /\ phase[c] = "waiting"
                        THEN Settled(approvals, c, "cancelled", now)[c]
                        ELSE approvals[c]]

-----------------------------------------------------------------------------
(* The person: gives and takes back access, and answers on the Agents screen. *)

others == <<now, server, callVars, slotVars, records, committed>>

Give(g, p, k, ks, bypass, ask, ttl) ==
    /\ ks # {} /\ now < MaxNow
    /\ InsertGrant(g, WithBypass([status |-> "live", profile |-> p, conn |-> k,
                                  kinds |-> ks, expires |-> now + ttl, ask |-> ask,
                                  bypass |-> {}], bypass))
    /\ UNCHANGED <<others, personVars>>

TakeBack ==
    /\ \/ \E g \in Grants : RevokeGrant(g)
       \/ \E p \in Profiles, k \in Conns : RevokeConnection(p, k)
       \/ \E p \in Profiles : RevokeProfile(p)
       \/ RevokeAll
    /\ UNCHANGED <<others, personVars>>

\* The lists that show what waits are read after a sweep.
ListPending ==
    /\ approvals' = Swept(approvals, now)
    /\ UNCHANGED <<grants, others, personVars>>

\* What the screen shows was pending two seconds ago at most, so it is in the table.
OnScreen(c) == approvals[c] # NoRequest /\ approvals[c].deadline + KeepSettled >= now

Show(u, what) == screen' = [screen EXCEPT ![u] = what]

Tell(c, answer) == told' = [told EXCEPT ![c] = @ \cup {answer}]

\* settle_approval of the screen and the first statement of answer; "A" also stops asking
\* once its approval was taken.
Answer(u, c, approve, stop) ==
    LET decision == IF approve THEN "approved" ELSE "denied"
    IN  /\ screen[u] = Idle /\ OnScreen(c)
        /\ approvals' = Settled(approvals, c, decision, now)
        /\ IF CanSettle(approvals, c, decision, now)
           THEN /\ Tell(c, decision)
                /\ Show(u, IF approve /\ stop
                           THEN [at |-> "stop_asking", grant |-> approvals[c].grant,
                                 asked |-> approvals[c].asked]
                           ELSE Idle)
           ELSE Show(u, [at |-> "missed", call |-> c, since |-> now]) /\ UNCHANGED told
        /\ UNCHANGED <<grants, others>>

\* Why it was not taken, read after other processes may have written.
Explain(u) ==
    /\ screen[u].at = "missed"
    /\ LET c   == screen[u].call
           row == approvals[c]
       IN  IF row.decision = "pending"
           THEN /\ Show(u, [at |-> "settling", call |-> c,
                            late |-> row.deadline <= screen[u].since])
                /\ UNCHANGED told
           ELSE /\ Show(u, Idle)
                /\ Tell(c, IF row.decision = "expired" THEN "timed_out"
                          ELSE IF row.decision \in {"approved", "denied"} THEN "already"
                          ELSE "nobody")
    /\ UNCHANGED <<approvals, grants, others>>

\* A request found that way is settled on the spot, and the person is told what was read.
Dismiss(u) ==
    /\ screen[u].at = "settling"
    /\ LET c == screen[u].call
       IN  /\ approvals' = Settled(approvals, c,
                                   IF screen[u].late THEN "expired" ELSE "cancelled", now)
           /\ Tell(c, IF screen[u].late THEN "timed_out" ELSE "nobody")
    /\ Show(u, Idle)
    /\ UNCHANGED <<grants, others>>

StopAsking(u) ==
    /\ screen[u].at = "stop_asking"
    /\ AddBypass(screen[u].grant, screen[u].asked)
    /\ Show(u, Idle)
    /\ UNCHANGED <<told, others>>

-----------------------------------------------------------------------------

\* Time passes.  MaxNow is kept for what is under way: a call reads its access before it,
\* so every request has time to be answered; and no day passes within one answer.
Tick ==
    /\ now < MaxNow
    /\ now + 1 = MaxNow => \A c \in Calls : phase[c] # "called"
    /\ \A u \in Screens :
          screen[u].at = "missed" => approvals[screen[u].call].deadline + KeepSettled > now
    /\ now' = now + 1
    /\ UNCHANGED <<ledgerVars, server, callVars, slotVars, records, committed, personVars>>

Handler(c) ==
    \/ Await(c) \/ Ask(c) \/ Poll(c) \/ SeeCancel(c) \/ TakePermit(c) \/ OpenSession(c)
    \/ Judge(c) \/ Reserve(c) \/ CheckRevoked(c) \/ Execute(c) \/ Run(c) \/ Finish(c)

Agent(c) ==
    \/ \E s \in Servers, o \in OpIds, w \in Writes : Call(c, s, o, w)
    \/ Cancel(c)

Process(s) == Start(s) \/ Kill(s) \/ Stop(s)

Person ==
    \/ \E g \in Grants, p \in Profiles, k \in Conns, ks \in SUBSET Kinds,
          bypass \in SUBSET Operations, ask \in Asks, ttl \in Ttls :
          Give(g, p, k, ks, bypass, ask, ttl)
    \/ TakeBack \/ ListPending
    \/ \E u \in Screens :
          \/ \E c \in Calls, approve, stop \in BOOLEAN : Answer(u, c, approve, stop)
          \/ Explain(u) \/ Dismiss(u) \/ StopAsking(u)

Next ==
    \/ \E c \in Calls : Agent(c) \/ Handler(c)
    \/ \E s \in Servers : Process(s)
    \/ Person
    \/ Tick

Spec == Init /\ [][Next]_vars

-----------------------------------------------------------------------------
(* Safety. *)

\* A write is in the database only because a person approved it under the very access it
\* ran under, or that access lets all its operations run without asking; whoever else
\* revoked, replaced, swept or restarted in between.
CommittedWasCleared ==
    \A c \in Calls : committed[c] =>
        \E g \in under[c] :
            \/ /\ clearance[c] = "approved" /\ "approved" \in told[c]
               /\ draft[c].grant = g
            \/ clearance[c] = "bypassed" /\ Bypasses(g, Write(c))

\* What the screen says of a request holds for ever: a write it called denied or out of
\* time is never made, whoever else answers and whichever process decides it meanwhile
\* (dexo-tui/src/runtime/mod.rs:2753, 2757).
NothingRunsOnceSaidSo ==
    \A c \in Calls : told[c] \cap {"denied", "timed_out"} # {} => ~committed[c]

\* However often an agent retries an operation id on a server, it is written once.
OneWritePerOperation ==
    \A c, d \in Calls :
        committed[c] /\ committed[d] /\ c # d =>
            <<Srv(c), args[c].op>> # <<Srv(d), args[d].op>>

\* A profile has at most one write access per connection.
OneAccessPerConnection ==
    \A g, h \in Live :
        grants[g].profile = grants[h].profile /\ grants[g].conn = grants[h].conn => g = h

\* Every permit is free or held by one call that may still run, and a session is held by
\* exactly the call that runs on it, through every way a call can end.
SlotsAccounted ==
    \A s \in Servers :
        /\ permits[s] + Cardinality({c \in CallsOf(s) : phase[c] \in HasPermit}) = Permits
        /\ \A k \in Conns, c \in Calls :
              session[s][k] = c <=> c \in CallsOf(s) /\ Conn(c) = k /\ phase[c] \in HasSession

\* A request is on the list only while its call waits, unless its server is gone.
PendingIsWaitedFor ==
    \A c \in Calls : Pending(c) /\ server[Srv(c)] = "up" => phase[c] = "waiting"

\* A decided request is never decided again, nor asked again: it stays as it is until it
\* is deleted, however late or twice over the answers come.
DecisionsAreFinal ==
    [][\A c \in Calls :
          approvals[c].decision \notin {"none", "pending"} =>
              approvals'[c] \in {approvals[c], NoRequest}]_vars

\* Write access taken back before a call's last look starts nothing: neither under the
\* access it was judged under, nor with an approval given under a revoked one.
TakenBackStartsNothing ==
    [][\A c \in Calls :
          /\ phase[c] # "running"
          /\ UnderRevoked(c) \/ (clearance[c] = "approved" /\ IsRevoked(draft[c].grant))
          => phase'[c] # "running"]_vars

-----------------------------------------------------------------------------
(* The promise this keeps. *)

\* The accesses that cover a call's write, and those that let it run without asking.
CoveredBy(c) ==
    {g \in Grants :
        /\ phase[c] # "idle" /\ grants[g] # NoGrant
        /\ grants[g].profile = ProfileOf[Srv(c)] /\ grants[g].conn = Conn(c)
        /\ KindOfWrite[Write(c)] \in grants[g].kinds}
ExemptBy(c) ==
    {g \in Grants : phase[c] # "idle" /\ grants[g] # NoGrant /\ Bypasses(g, Write(c))}

AnswerOf(c) ==
    IF draft[c] = NoRequest THEN "none"
    ELSE IF phase[c] = "asking" \/ Pending(c) THEN "open"
    ELSE CASE approvals[c].decision = "approved" -> "yes"
           [] approvals[c].decision = "none"     -> "gone"
           [] OTHER                              -> "no"

StageOf(c) ==
    CASE phase[c] = "judged" -> "cleared"
      [] phase[c] \in {"reserved", "checked"} -> "claimed"
      [] phase[c] = "running" -> "running"
      [] phase[c] \in {"applied", "done"} -> "over"
      [] OTHER -> "waits"

Guard == INSTANCE GuardedWrite WITH
    Ids <- Servers \X OpIds,
    access <- [g \in Grants |-> grants[g].status],
    covers <- [c \in Calls |-> CoveredBy(c)],
    exempt <- [c \in Calls |-> ExemptBy(c)],
    id <- [c \in Calls |-> IF phase[c] = "idle" THEN {} ELSE {<<Srv(c), args[c].op>>}],
    about <- [c \in Calls |-> IF draft[c] = NoRequest THEN {} ELSE {draft[c].grant}],
    answer <- [c \in Calls |-> AnswerOf(c)],
    word <- [c \in Calls |-> told[c] \cap {"approved", "denied"}],
    stage <- [c \in Calls |-> StageOf(c)],
    claimed <- {i \in Servers \X OpIds : records[i[1]][i[2]] # NoRecord},
    written <- {c \in Calls : committed[c]}

\* The write path implements GuardedWrite, whatever its servers, the person's screens and the
\* clock do between a call's looks at the shared database.
WritesAreGuarded == Guard!GuardedSpec

-----------------------------------------------------------------------------
(* What the repository says of the code and the code does not do: each of these has a   *)
(* run that shows how it fails.                                                          *)

\* "A call the agent cancelled does not run, approved or not"
\* (dexo-mcp/src/tools_write.rs:64).
CancelledDoesNotRun ==
    [][\A c \in Calls :
          cancelled[c] /\ phase[c] # "running" => phase'[c] # "running"]_vars

\* "The agent is no longer waiting for this write; nothing runs."
\* (dexo-tui/src/runtime/mod.rs:2759).
NobodyWaitingNothingRuns ==
    \A c \in Calls : "nobody" \in told[c] => ~committed[c]

\* "retrying with the same id and payload returns the first result instead of writing
\* twice" (docs/src/mcp.md:118).
RetriedIsWrittenOnce ==
    \A c, d \in Calls :
        /\ committed[c] /\ committed[d]
        /\ ProfileOf[Srv(c)] = ProfileOf[Srv(d)]
        /\ args[c].op = args[d].op /\ Write(c) = Write(d)
        => c = d

\* "What an agent reads of a write: whether it went through, what became of the database"
\* (dexo-mcp/src/tools_write.rs:971): one it reads was rolled back is not in it.
RolledBackIsNotWritten ==
    \A c \in Calls :
        committed[c] /\ phase[c] = "done" => Rec(c).effect # "rolled_back"

-----------------------------------------------------------------------------
(* Liveness.  A handler that can go on goes on: tokio polls it, and the target database   *)
(* answers in the end.  Somebody looks at the lists now and then.  That suffices where   *)
(* calls compete for a permit or a session, since each is taken by a call at most once;  *)
(* tokio's queues, first come first served, promise more.  No agent, person or kill is   *)
(* fair.                                                                                 *)

Fairness ==
    /\ \A c \in Calls : WF_vars(Handler(c))
    /\ WF_vars(ListPending)
    /\ WF_vars(Tick)

FairSpec == Spec /\ Fairness

\* Every call is answered: by a decision, its deadline, a refusal or its outcome.
EveryCallIsAnswered == \A c \in Calls : phase[c] # "idle" ~> phase[c] = "done"

\* No request waits for ever, the ones of a killed server included.
NoRequestWaitsForEver == \A c \in Calls : Pending(c) ~> ~Pending(c)

=============================================================================
