----------------------------- MODULE GrantLedger -----------------------------
(***************************************************************************)
(* The two tables of Dexo's local SQLite database that the MCP servers and *)
(* the person's screens share: mcp_grants (the write access a person gave  *)
(* a profile on a connection) and mcp_approvals (the writes that wait for  *)
(* an answer).  Each operator below is one statement or one transaction of *)
(* dexo-storage/src/mcp; SQLite runs each of them alone, so it is one      *)
(* atomic step, and the processes meet nowhere else.                       *)
(*                                                                         *)
(* An approval request is named by the call that makes it: a call asks at  *)
(* most once.  The statement's text is not kept: it is blanked by the same *)
(* UPDATE that decides the request.                                        *)
(***************************************************************************)
EXTENDS Naturals, FiniteSets

CONSTANTS
    Grants,      \* ids of the write accesses a person may give (random uuids)
    Calls,       \* the tool calls, which are also the ids of their requests
    Profiles,    \* MCP profiles
    Conns,       \* the connections
    Kinds,       \* what an access changes: rows, schema or sessions
    Operations,  \* insert, update, every-row, ...: what may run without asking
    KindOf,      \* the kind each operation is of
    Grace,       \* HEARTBEAT_GRACE_SECS: how long a waiting call may be silent
    KeepSettled  \* KEEP_SETTLED_SECS: how long a decided request is kept

ASSUME LedgerAssumption ==
    /\ KindOf \in [Operations -> Kinds]
    /\ Grace \in Nat
    /\ KeepSettled \in Nat

VARIABLES
    grants,      \* the rows of mcp_grants
    approvals    \* the rows of mcp_approvals

ledgerVars == <<grants, approvals>>

Decisions == {"pending", "approved", "denied", "expired", "cancelled"}

\* A grant's row; a grant is revoked for good, and its row is never deleted.
GrantRow ==
    [status: {"live", "revoked"}, profile: Profiles, conn: Conns,
     kinds: SUBSET Kinds, expires: Nat, ask: Nat, bypass: SUBSET Operations]

\* A request's row.  The grant of a request that is in the table is in the table.
Request ==
    [decision: Decisions, grant: Grants, deadline: Nat, heartbeat: Nat,
     asked: SUBSET Operations]

\* An id with no row in its table.
NoGrant == [status |-> "none"]
NoRequest == [decision |-> "none"]

LedgerTypeOK ==
    /\ grants \in [Grants -> GrantRow \cup {NoGrant}]
    /\ approvals \in [Calls -> Request \cup {NoRequest}]

LedgerInit ==
    /\ grants = [g \in Grants |-> NoGrant]
    /\ approvals = [c \in Calls |-> NoRequest]

-----------------------------------------------------------------------------
(* Reading the tables. *)

IsRevoked(g) == grants[g].status = "revoked"

Live == {g \in Grants : grants[g].status = "live"}

\* The grants list_active returns for profile p at time t.
ActiveGrants(p, t) ==
    {g \in Live : grants[g].profile = p /\ grants[g].expires > t}

Pending(c) == approvals[c].decision = "pending"

-----------------------------------------------------------------------------
(* Changing them. *)

\* approval_repo::deny_revoked, on the grants table G.
DenyRevoked(G, A) ==
    [c \in Calls |->
        IF A[c].decision = "pending" /\ G[A[c].grant].status = "revoked"
        THEN [A[c] EXCEPT !.decision = "denied"]
        ELSE A[c]]

Revoked(S) ==
    [g \in Grants |->
        IF g \in S THEN [grants[g] EXCEPT !.status = "revoked"] ELSE grants[g]]

\* SqliteGrantLedger::revoking: the grants table becomes G and the revoked grants'
\* waiting writes are denied, in one transaction.
Revoking(G) ==
    /\ grants' = G
    /\ approvals' = DenyRevoked(G, approvals)

LiveOn(p, k) == {g \in Live : grants[g].profile = p /\ grants[g].conn = k}

\* Mutant of InsertGrant: the access it replaces stays.
InsertGrantBeside(g, row) ==
    /\ grants[g] = NoGrant
    /\ Revoking([grants EXCEPT ![g] = row])

\* insert_grant: a new access replaces the one its profile had on its connection.
InsertGrant(g, row) ==
    /\ grants[g] = NoGrant
    /\ Revoking([Revoked(LiveOn(row.profile, row.conn)) EXCEPT ![g] = row])

\* revoke refuses an id that is not live, and its transaction is then rolled back.
RevokeGrant(g) ==
    /\ g \in Live
    /\ Revoking(Revoked({g}))

RevokeConnection(p, k) == Revoking(Revoked(LiveOn(p, k)))

RevokeProfile(p) == Revoking(Revoked({g \in Live : grants[g].profile = p}))

RevokeAll == Revoking(Revoked(Live))

\* Grant::with_bypass: an access lets through only operations of its own kinds.
WithBypass(row, S) ==
    [row EXCEPT !.bypass = {o \in S : KindOf[o] \in row.kinds}]

\* add_bypass: nothing happens to a grant that is not live.
AddBypass(g, S) ==
    /\ grants' = IF g \in Live
                 THEN [grants EXCEPT ![g] = WithBypass(@, @.bypass \cup S)]
                 ELSE grants
    /\ UNCHANGED approvals

\* approval_repo::insert.
RequestApproval(c, row) ==
    /\ approvals' = [approvals EXCEPT ![c] = row]
    /\ UNCHANGED grants

\* Mutant of CanSettle: an answer also changes a decision that was made.
CanSettleAgain(A, c, decision, t) ==
    /\ A[c] # NoRequest
    /\ decision = "approved" =>
          /\ A[c].deadline > t
          /\ A[c].heartbeat + Grace >= t

\* approval_repo::settle decides only a pending request, and approves it only before
\* its deadline and while its call still says it waits.
CanSettle(A, c, decision, t) ==
    /\ A[c].decision = "pending"
    /\ decision = "approved" =>
          /\ A[c].deadline > t
          /\ A[c].heartbeat + Grace >= t

Settled(A, c, decision, t) ==
    IF CanSettle(A, c, decision, t)
    THEN [A EXCEPT ![c].decision = decision]
    ELSE A

\* approval_repo::touch.
Touched(A, c, t) ==
    IF A[c].decision = "pending" THEN [A EXCEPT ![c].heartbeat = t] ELSE A

\* Mutants of SweptDecision: decided requests expire too; or nothing does.
SweptDecisionOfAny(row, t) ==
    IF row.deadline <= t THEN "expired"
    ELSE IF row.decision = "pending" /\ row.heartbeat + Grace < t THEN "cancelled"
    ELSE row.decision

SweptDecisionOfNone(row, t) == row.decision

\* approval_repo::sweep, one row after another: it expires, or is withdrawn because its
\* call went silent, or -- decided, by this sweep too -- is deleted when it is old.
SweptDecision(row, t) ==
    IF row.decision # "pending" THEN row.decision
    ELSE IF row.deadline <= t THEN "expired"
    ELSE IF row.heartbeat + Grace < t THEN "cancelled"
    ELSE "pending"

SweptRow(row, t) ==
    LET decision == SweptDecision(row, t)
    IN  IF decision # "pending" /\ row.deadline + KeepSettled < t
        THEN NoRequest
        ELSE [row EXCEPT !.decision = decision]

Swept(A, t) ==
    [c \in Calls |-> IF A[c] = NoRequest THEN NoRequest ELSE SweptRow(A[c], t)]

=============================================================================
