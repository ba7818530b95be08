--------------------------- MODULE McpWritesProofs ---------------------------
(***************************************************************************)
(* What holds of the write path for every number of calls, servers, grants *)
(* and operation ids, and every length of the waits.                       *)
(***************************************************************************)
EXTENDS McpWrites, FiniteSetTheorems, TLAPS

(* What each statement on mcp_grants and mcp_approvals keeps, for any tables. *)

ApprovalTable == [Calls -> Request \cup {NoRequest}]
GrantTable == [Grants -> GrantRow \cup {NoGrant}]

\* A request that has a decision of its own is a row.
LEMMA RequestRow ==
    ASSUME NEW A \in ApprovalTable, NEW c \in Calls, A[c].decision \in Decisions
    PROVE  A[c] \in Request
BY DEF ApprovalTable, NoRequest, Decisions

\* Another decision leaves a row a row.
LEMMA RedecidedRow ==
    ASSUME NEW r \in Request, NEW d \in Decisions
    PROVE  [r EXCEPT !.decision = d] \in Request
BY DEF Request

LEMMA SettledType ==
    ASSUME NEW A \in ApprovalTable, NEW c \in Calls, NEW d \in Decisions, NEW t
    PROVE  Settled(A, c, d, t) \in ApprovalTable
<1>1. CASE CanSettle(A, c, d, t)
  <2>1. A[c] \in Request
    BY <1>1, RequestRow DEF CanSettle, Decisions
  <2>2. [A[c] EXCEPT !.decision = d] \in Request
    BY <2>1, RedecidedRow
  <2>3. QED
    BY <1>1, <2>2 DEF Settled, ApprovalTable
<1>2. CASE ~CanSettle(A, c, d, t)
  BY <1>2 DEF Settled
<1>3. QED
  BY <1>1, <1>2

LEMMA TouchedType ==
    ASSUME NEW A \in ApprovalTable, NEW c \in Calls, NEW t \in Nat
    PROVE  Touched(A, c, t) \in ApprovalTable
<1>1. CASE A[c].decision = "pending"
  <2>1. A[c] \in Request
    BY <1>1, RequestRow DEF Decisions
  <2>2. [A[c] EXCEPT !.heartbeat = t] \in Request
    BY <2>1 DEF Request
  <2>3. QED
    BY <1>1, <2>2 DEF Touched, ApprovalTable
<1>2. CASE A[c].decision # "pending"
  BY <1>2 DEF Touched
<1>3. QED
  BY <1>1, <1>2

LEMMA SweptType ==
    ASSUME NEW A \in ApprovalTable, NEW t
    PROVE  Swept(A, t) \in ApprovalTable
<1>1. ASSUME NEW c \in Calls, A[c] # NoRequest
      PROVE  SweptRow(A[c], t) \in Request \cup {NoRequest}
  <2>1. A[c] \in Request
    BY <1>1 DEF ApprovalTable
  <2>2. SweptDecision(A[c], t) \in Decisions
    BY <2>1 DEF SweptDecision, Request, Decisions
  <2>3. QED
    BY <2>1, <2>2, RedecidedRow DEF SweptRow
<1>2. QED
  BY <1>1 DEF Swept, ApprovalTable

LEMMA DenyRevokedType ==
    ASSUME NEW A \in ApprovalTable, NEW G
    PROVE  DenyRevoked(G, A) \in ApprovalTable
<1>1. ASSUME NEW c \in Calls, A[c].decision = "pending"
      PROVE  [A[c] EXCEPT !.decision = "denied"] \in Request
  BY <1>1, RequestRow, RedecidedRow DEF Decisions
<1>2. QED
  BY <1>1 DEF DenyRevoked, ApprovalTable

LEMMA RevokedType ==
    ASSUME grants \in GrantTable, NEW S \in SUBSET Live
    PROVE  Revoked(S) \in GrantTable
<1>1. ASSUME NEW g \in S
      PROVE  [grants[g] EXCEPT !.status = "revoked"] \in GrantRow
  BY <1>1 DEF Live, GrantTable, GrantRow, NoGrant
<1>2. QED
  BY <1>1 DEF Revoked, GrantTable

LEMMA WithBypassType ==
    ASSUME NEW r \in GrantRow, NEW S \in SUBSET Operations
    PROVE  WithBypass(r, S) \in GrantRow
BY DEF WithBypass, GrantRow

LEMMA WithBypassKeeps ==
    ASSUME NEW r \in GrantRow, NEW S \in SUBSET Operations
    PROVE  /\ WithBypass(r, S).status = r.status
           /\ WithBypass(r, S).profile = r.profile
           /\ WithBypass(r, S).conn = r.conn
BY DEF WithBypass, GrantRow

LEMMA RevokingType ==
    ASSUME LedgerTypeOK, NEW G \in GrantTable, Revoking(G)
    PROVE  LedgerTypeOK'
BY DenyRevokedType DEF Revoking, LedgerTypeOK, ApprovalTable, GrantTable

-----------------------------------------------------------------------------
(* What a statement on mcp_approvals may do to a request that is there or is not. *)

\* B is a later state of table A, no request of which was inserted in between.
Later(A, B) ==
    \A c \in Calls :
        /\ A[c] = NoRequest => B[c] = NoRequest
        /\ A[c].decision \notin {"none", "pending"} => B[c] \in {A[c], NoRequest}
        /\ B[c] # NoRequest => B[c].grant = A[c].grant /\ B[c].deadline = A[c].deadline

LEMMA RedecidedGrant ==
    ASSUME NEW r \in Request, NEW d
    PROVE  /\ [r EXCEPT !.decision = d].grant = r.grant
           /\ [r EXCEPT !.decision = d].deadline = r.deadline
BY DEF Request

LEMMA SettledLater ==
    ASSUME NEW A \in ApprovalTable, NEW c \in Calls, NEW d, NEW t
    PROVE  Later(A, Settled(A, c, d, t))
<1>1. CASE CanSettle(A, c, d, t)
  <2>1. A[c].decision = "pending" /\ A[c] \in Request
    BY <1>1, RequestRow DEF CanSettle, Decisions
  <2>2. Settled(A, c, d, t) = [A EXCEPT ![c] = [A[c] EXCEPT !.decision = d]]
    BY <1>1 DEF Settled
  <2>3. /\ [A[c] EXCEPT !.decision = d].grant = A[c].grant
        /\ [A[c] EXCEPT !.decision = d].deadline = A[c].deadline
    BY <2>1, RedecidedGrant
  <2>4. QED
    BY <2>1, <2>2, <2>3 DEF Later, ApprovalTable, NoRequest
<1>2. CASE ~CanSettle(A, c, d, t)
  BY <1>2 DEF Settled, Later
<1>3. QED
  BY <1>1, <1>2

LEMMA TouchedLater ==
    ASSUME NEW A \in ApprovalTable, NEW c \in Calls, NEW t
    PROVE  Later(A, Touched(A, c, t))
<1>1. CASE A[c].decision = "pending"
  <2>1. A[c] \in Request
    BY <1>1, RequestRow DEF Decisions
  <2>2. /\ [A[c] EXCEPT !.heartbeat = t].grant = A[c].grant
        /\ [A[c] EXCEPT !.heartbeat = t].deadline = A[c].deadline
    BY <2>1 DEF Request
  <2>3. Touched(A, c, t) = [A EXCEPT ![c] = [A[c] EXCEPT !.heartbeat = t]]
    BY <1>1 DEF Touched
  <2>4. QED
    BY <1>1, <2>2, <2>3 DEF Later, ApprovalTable, NoRequest
<1>2. CASE A[c].decision # "pending"
  BY <1>2 DEF Touched, Later
<1>3. QED
  BY <1>1, <1>2

LEMMA SweptLater ==
    ASSUME NEW A \in ApprovalTable, NEW t
    PROVE  Later(A, Swept(A, t))
<1> SUFFICES ASSUME NEW c \in Calls, A[c] # NoRequest
             PROVE  /\ A[c].decision \notin {"none", "pending"} =>
                          Swept(A, t)[c] \in {A[c], NoRequest}
                    /\ Swept(A, t)[c] # NoRequest =>
                          /\ Swept(A, t)[c].grant = A[c].grant
                          /\ Swept(A, t)[c].deadline = A[c].deadline
  BY DEF Later, Swept, NoRequest
<1>1. A[c] \in Request
  BY DEF ApprovalTable
<1>2. Swept(A, t)[c] \in {NoRequest, [A[c] EXCEPT !.decision = SweptDecision(A[c], t)]}
  BY DEF Swept, SweptRow
<1>3. ASSUME A[c].decision # "pending"
      PROVE  [A[c] EXCEPT !.decision = SweptDecision(A[c], t)] = A[c]
  <2>1. SweptDecision(A[c], t) = A[c].decision
    BY <1>3 DEF SweptDecision
  <2>2. [A[c] EXCEPT !.decision = A[c].decision] = A[c]
    BY <1>1 DEF Request
  <2>3. QED
    BY <2>1, <2>2
<1>4. /\ [A[c] EXCEPT !.decision = SweptDecision(A[c], t)].grant = A[c].grant
      /\ [A[c] EXCEPT !.decision = SweptDecision(A[c], t)].deadline = A[c].deadline
  BY <1>1, RedecidedGrant
<1>5. QED
  BY <1>2, <1>3, <1>4

LEMMA DenyRevokedLater ==
    ASSUME NEW A \in ApprovalTable, NEW G
    PROVE  Later(A, DenyRevoked(G, A))
<1> SUFFICES ASSUME NEW c \in Calls, A[c].decision = "pending"
             PROVE  /\ [A[c] EXCEPT !.decision = "denied"].grant = A[c].grant
                    /\ [A[c] EXCEPT !.decision = "denied"].deadline = A[c].deadline
  BY DEF Later, DenyRevoked, NoRequest
<1>1. A[c] \in Request
  BY RequestRow DEF Decisions
<1>2. QED
  BY <1>1, RedecidedGrant

-----------------------------------------------------------------------------
(* Who approves: only an answer that may. *)

\* No request is approved in table B that was not in table A.
NoneApproved(A, B) ==
    \A c \in Calls : B[c].decision = "approved" => A[c].decision = "approved"

LEMMA SettledOtherwise ==
    ASSUME NEW A \in ApprovalTable, NEW c \in Calls, NEW d, d # "approved", NEW t
    PROVE  NoneApproved(A, Settled(A, c, d, t))
<1>1. CASE CanSettle(A, c, d, t)
  <2>1. A[c] \in Request
    BY <1>1, RequestRow DEF CanSettle, Decisions
  <2>2. [A[c] EXCEPT !.decision = d].decision = d
    BY <2>1 DEF Request
  <2>3. QED
    BY <1>1, <2>2 DEF Settled, NoneApproved, ApprovalTable
<1>2. CASE ~CanSettle(A, c, d, t)
  BY <1>2 DEF Settled, NoneApproved
<1>3. QED
  BY <1>1, <1>2

LEMMA TouchedNoneApproved ==
    ASSUME NEW A \in ApprovalTable, NEW c \in Calls, NEW t
    PROVE  /\ NoneApproved(A, Touched(A, c, t))
           /\ Touched(A, c, t)[c].decision = A[c].decision
<1>1. CASE A[c].decision = "pending"
  <2>1. A[c] \in Request
    BY <1>1, RequestRow DEF Decisions
  <2>2. [A[c] EXCEPT !.heartbeat = t].decision = A[c].decision
    BY <2>1 DEF Request
  <2>3. QED
    BY <1>1, <2>2 DEF Touched, NoneApproved, ApprovalTable
<1>2. CASE A[c].decision # "pending"
  BY <1>2 DEF Touched, NoneApproved
<1>3. QED
  BY <1>1, <1>2

LEMMA SweptNoneApproved ==
    ASSUME NEW A \in ApprovalTable, NEW t
    PROVE  NoneApproved(A, Swept(A, t))
<1> SUFFICES ASSUME NEW c \in Calls, Swept(A, t)[c].decision = "approved"
             PROVE  A[c].decision = "approved"
  BY DEF NoneApproved
<1>1. A[c] # NoRequest /\ A[c] \in Request
  BY DEF Swept, NoRequest, ApprovalTable
<1>2. Swept(A, t)[c] = [A[c] EXCEPT !.decision = SweptDecision(A[c], t)]
  BY <1>1 DEF Swept, SweptRow, NoRequest
<1>3. SweptDecision(A[c], t) = "approved"
  BY <1>1, <1>2 DEF Request
<1>4. QED
  BY <1>3 DEF SweptDecision

LEMMA DenyRevokedNoneApproved ==
    ASSUME NEW A \in ApprovalTable, NEW G
    PROVE  NoneApproved(A, DenyRevoked(G, A))
<1> SUFFICES ASSUME NEW c \in Calls, A[c].decision = "pending"
             PROVE  [A[c] EXCEPT !.decision = "denied"].decision # "approved"
  BY DEF NoneApproved, DenyRevoked
<1>1. A[c] \in Request
  BY RequestRow DEF Decisions
<1>2. QED
  BY <1>1 DEF Request

\* A settled request has the decision it was given, if it could be.
LEMMA SettledDecision ==
    ASSUME NEW A \in ApprovalTable, NEW c \in Calls, NEW d, NEW t
    PROVE  /\ CanSettle(A, c, d, t) => Settled(A, c, d, t)[c].decision = d
           /\ d \notin {"approved", "pending"} => Settled(A, c, d, t)[c].decision # "pending"
<1>1. CASE CanSettle(A, c, d, t)
  <2>1. A[c] \in Request
    BY <1>1, RequestRow DEF CanSettle, Decisions
  <2>2. [A[c] EXCEPT !.decision = d].decision = d
    BY <2>1 DEF Request
  <2>3. QED
    BY <1>1, <2>2 DEF Settled, ApprovalTable
<1>2. CASE ~CanSettle(A, c, d, t)
  BY <1>2 DEF Settled, CanSettle
<1>3. QED
  BY <1>1, <1>2

-----------------------------------------------------------------------------
(* The write path. *)

\* A call that is past the visibility gate has arguments.
ArgsKnown == \A c \in Calls : phase[c] # "idle" => args[c] \in Args

\* A call holds a record from its reservation to its end.
Holding == {"reserved", "checked", "running", "applied"}
RecordKept == \A c \in Calls : phase[c] \in Holding => Rec(c) # NoRecord

TypeInv == TypeOK /\ ArgsKnown /\ RecordKept

-----------------------------------------------------------------------------

LEMMA InitType == Init => TypeInv
BY McpAssumption, LedgerAssumption DEF Init, LedgerInit, TypeInv, TypeOK, LedgerTypeOK,
   ArgsKnown, RecordKept, Phases, Screen, Holding, Free, NoArgs, NoRecord, NoGrant,
   NoRequest, Idle, Results

\* Where a call with arguments is looked up.
LEMMA ArgsType ==
    ASSUME TypeInv, NEW c \in Calls, phase[c] # "idle"
    PROVE  /\ Srv(c) \in Servers /\ Write(c) \in Writes /\ Conn(c) \in Conns
           /\ args[c].op \in OpIds
           /\ Rec(c) \in Record \cup {NoRecord}
<1>1. args[c] \in Args
  BY DEF TypeInv, ArgsKnown
<1>2. Srv(c) \in Servers /\ Write(c) \in Writes /\ args[c].op \in OpIds
  BY <1>1 DEF Args, Srv, Write
<1>3. QED
  BY <1>2, McpAssumption DEF Conn, Rec, TypeInv, TypeOK

\* The part of the type that says where a call is and what it holds.
Moved ==
    /\ phase \in [Calls -> Phases]
    /\ result \in [Calls -> Results]
    /\ permits \in [Servers -> Nat]
    /\ session \in [Servers -> [Conns -> Calls \cup {Free}]]
    /\ clearance \in [Calls -> {"none", "approved", "bypassed"}]

\* The ways a call moves on keep it.
LEMMA EndType ==
    ASSUME TypeInv, NEW c \in Calls, phase[c] # "idle", NEW r \in Results, End(c, r),
           UNCHANGED clearance
    PROVE  Moved'
<1>1. Srv(c) \in Servers /\ Conn(c) \in Conns
  BY ArgsType
<1> USE DEF TypeInv, TypeOK
<1>2. phase' \in [Calls -> Phases] /\ result' \in [Calls -> Results]
  BY DEF End, Goto, Phases
<1>3. permits' \in [Servers -> Nat]
  BY <1>1 DEF End
<1>4. session' \in [Servers -> [Conns -> Calls \cup {Free}]]
  BY <1>1 DEF End
<1>5. QED
  BY <1>2, <1>3, <1>4 DEF Moved

LEMMA GotoType ==
    ASSUME TypeInv, NEW c \in Calls, NEW p \in Phases, Goto(c, p),
           UNCHANGED <<result, permits, session, clearance>>
    PROVE  Moved'
BY DEF TypeInv, TypeOK, Moved, Goto

LEMMA ClearedType ==
    ASSUME TypeInv, NEW c \in Calls, phase[c] # "idle",
           NEW how \in {"approved", "bypassed"}, Cleared(c, how)
    PROVE  Moved'
<1>1. CASE cancelled[c]
  BY <1>1, EndType DEF Cleared, Results
<1>2. CASE ~cancelled[c]
  BY <1>2 DEF Cleared, TypeInv, TypeOK, Moved, Goto, Phases
<1>3. QED
  BY <1>1, <1>2

LEMMA UnclearedType ==
    ASSUME TypeInv, NEW c \in Calls, phase[c] # "idle", Uncleared(c)
    PROVE  Moved'
<1>1. Srv(c) \in Servers
  BY ArgsType
<1>2. CASE cancelled[c] \/ permits[Srv(c)] = 0
  BY <1>2, EndType DEF Uncleared, Results
<1>3. CASE ~cancelled[c] /\ permits[Srv(c)] # 0
  <2>a. permits[Srv(c)] - 1 \in Nat
    BY <1>1, <1>3 DEF TypeInv, TypeOK
  <2>1. permits' \in [Servers -> Nat]
    BY <1>1, <1>3, <2>a DEF Uncleared, TypeInv, TypeOK
  <2>2. phase' \in [Calls -> Phases]
    BY <1>3 DEF Uncleared, TypeInv, TypeOK, Goto, Phases
  <2>3. QED
    BY <1>3, <2>1, <2>2 DEF Uncleared, TypeInv, TypeOK, Moved
<1>4. QED
  BY <1>2, <1>3

LEMMA AwaitType == ASSUME TypeInv, NEW c \in Calls, Await(c) PROVE TypeOK'
<1>1. phase[c] # "idle"
  BY DEF Await
<1>2. Moved'
  BY <1>1, ClearedType, UnclearedType, GotoType DEF Await, Phases
<1>3. ASSUME NEW g \in Covering(c)
      PROVE  [decision |-> "pending", grant |-> g, heartbeat |-> now,
              deadline |-> LowerOf(LowerOf(now + grants[g].ask, MaxNow), grants[g].expires),
              asked |-> OpsOf[Write(c)] \ grants[g].bypass] \in Request
  <2>1. g \in Grants /\ grants[g] \in GrantRow
    BY <1>3 DEF Covering, ActiveGrants, Live, TypeInv, TypeOK, LedgerTypeOK, NoGrant
  <2>2. OpsOf[Write(c)] \subseteq Operations
    BY <1>1, ArgsType, McpAssumption
  <2>3. now \in Nat /\ grants[g].ask \in Nat /\ grants[g].expires \in Nat
    BY <2>1, McpAssumption DEF GrantRow, TypeInv, TypeOK
  <2>4. LowerOf(LowerOf(now + grants[g].ask, MaxNow), grants[g].expires) \in Nat
    BY <2>3, McpAssumption DEF LowerOf
  <2>5. QED
    BY <2>1, <2>2, <2>3, <2>4 DEF Request, Decisions
<1>a. draft' \in [Calls -> Request \cup {NoRequest}]
  BY <1>3 DEF Await, TypeInv, TypeOK
<1>4. QED
  BY <1>2, <1>a DEF Await, TypeInv, TypeOK, LedgerTypeOK, Moved, ledgerVars, personVars

LEMMA PollType == ASSUME TypeInv, NEW c \in Calls, Poll(c) PROVE TypeOK'
<1> DEFINE row == Touched(approvals, c, now)[c]
           late == row.decision = "pending" /\ draft[c].deadline <= now
<1>1. phase[c] # "idle"
  BY DEF Poll
<1>2. \/ Cleared(c, "approved")
      \/ \E r \in Results : End(c, r) /\ UNCHANGED clearance
      \/ UNCHANGED <<phase, clearance, result, permits, session>>
  BY DEF Poll, Results
<1>3. Moved'
  <2>1. CASE UNCHANGED <<phase, clearance, result, permits, session>>
    BY <2>1 DEF Moved, TypeInv, TypeOK
  <2>2. QED
    BY <1>1, <1>2, <2>1, ClearedType, EndType
<1>4. approvals' \in ApprovalTable
  <2>1. approvals \in ApprovalTable /\ now \in Nat
    BY McpAssumption DEF TypeInv, TypeOK, LedgerTypeOK, ApprovalTable
  <2>2. Settled(approvals, c, "expired", now) \in ApprovalTable
    BY <2>1, SettledType DEF Decisions
  <2>3. Touched(approvals, c, now) \in ApprovalTable
    BY <2>1, TouchedType
  <2>4. QED
    BY <2>2, <2>3 DEF Poll
<1>5. QED
  BY <1>3, <1>4 DEF Poll, TypeInv, TypeOK, LedgerTypeOK, Moved, personVars, ApprovalTable

\* The rest of the handler.
LEMMA EndOnlyType ==
    ASSUME TypeInv, NEW c \in Calls, phase[c] # "idle", NEW r \in Results, End(c, r),
           UNCHANGED <<ledgerVars, now, server, args, cancelled, draft, clearance, under,
                       records, committed, personVars>>
    PROVE  TypeOK'
BY EndType DEF TypeInv, TypeOK, LedgerTypeOK, Moved, ledgerVars, personVars

LEMMA SeeCancelType == ASSUME TypeInv, NEW c \in Calls, SeeCancel(c) PROVE TypeOK'
<1>1. Moved'
  BY EndType DEF SeeCancel, Results
<1>2. approvals' \in ApprovalTable
  BY SettledType DEF SeeCancel, Decisions, TypeInv, TypeOK, LedgerTypeOK, ApprovalTable
<1>3. QED
  BY <1>1, <1>2 DEF SeeCancel, TypeInv, TypeOK, LedgerTypeOK, Moved, personVars,
     ApprovalTable

LEMMA TakePermitType == ASSUME TypeInv, NEW c \in Calls, TakePermit(c) PROVE TypeOK'
<1>1. Srv(c) \in Servers /\ permits[Srv(c)] - 1 \in Nat
  BY ArgsType DEF TakePermit, TypeInv, TypeOK
<1>2. permits' \in [Servers -> Nat]
  BY <1>1 DEF TakePermit, TypeInv, TypeOK
<1>3. phase' \in [Calls -> Phases]
  BY DEF TakePermit, Goto, Phases, TypeInv, TypeOK
<1>4. QED
  BY <1>2, <1>3 DEF TakePermit, TypeInv, TypeOK, LedgerTypeOK, ledgerVars, personVars

LEMMA OpenSessionType == ASSUME TypeInv, NEW c \in Calls, OpenSession(c) PROVE TypeOK'
<1>1. CASE End(c, "unreachable")
  BY <1>1, EndOnlyType DEF OpenSession, Results
<1>2. CASE ~End(c, "unreachable")
  <2>1. Srv(c) \in Servers /\ Conn(c) \in Conns
    BY ArgsType DEF OpenSession
  <2>a. session' = [session EXCEPT ![Srv(c)][Conn(c)] = c]
    BY <1>2 DEF OpenSession
  <2>2. session' \in [Servers -> [Conns -> Calls \cup {Free}]]
    BY <2>1, <2>a DEF TypeInv, TypeOK
  <2>b. phase' = [phase EXCEPT ![c] = "leased"]
    BY <1>2 DEF OpenSession, Goto
  <2>3. phase' \in [Calls -> Phases]
    BY <2>b DEF Phases, TypeInv, TypeOK
  <2>4. QED
    BY <1>2, <2>2, <2>3 DEF OpenSession, TypeInv, TypeOK, LedgerTypeOK, ledgerVars,
       personVars
<1>3. QED
  BY <1>1, <1>2

LEMMA JudgeType == ASSUME TypeInv, NEW c \in Calls, Judge(c) PROVE TypeOK'
<1>1. CASE \E r \in Results : End(c, r) /\ UNCHANGED under
  BY <1>1, EndOnlyType DEF Judge
<1>2. CASE \E g \in Covering(c) :
              /\ Goto(c, "judged") /\ under' = [under EXCEPT ![c] = {g}]
              /\ UNCHANGED <<result, slotVars>>
  BY <1>2 DEF Judge, Goto, Phases, Covering, ActiveGrants, Live, slotVars, TypeInv, TypeOK,
     LedgerTypeOK, ledgerVars, personVars
<1>3. QED
  BY <1>1, <1>2 DEF Judge, Results

LEMMA ReserveType == ASSUME TypeInv, NEW c \in Calls, Reserve(c) PROVE TypeOK'
<1>1. CASE Rec(c) = NoRecord
  <2>1. [state |-> "running", write |-> Write(c), effect |-> "unknown"] \in Record
    BY ArgsType DEF Reserve, Record
  <2>a. /\ Goto(c, "reserved") /\ UNCHANGED <<result, slotVars>>
        /\ records' = [records EXCEPT ![Srv(c)][args[c].op] =
                          [state |-> "running", write |-> Write(c), effect |-> "unknown"]]
    BY <1>1 DEF Reserve
  <2>2. records' \in [Servers -> [OpIds -> Record \cup {NoRecord}]]
    BY <2>1, <2>a DEF TypeInv, TypeOK
  <2>3. phase' \in [Calls -> Phases]
    BY <2>a DEF Goto, Phases, TypeInv, TypeOK
  <2>4. QED
    BY <2>a, <2>2, <2>3 DEF Reserve, slotVars, TypeInv, TypeOK, LedgerTypeOK, ledgerVars,
       personVars
<1>2. CASE Rec(c) # NoRecord
  BY <1>2, EndOnlyType DEF Reserve, Results
<1>3. QED
  BY <1>1, <1>2

\* Finishing a record that is there.
LEMMA FinishedType ==
    ASSUME TypeInv, NEW c \in Calls, phase[c] \in Holding,
           NEW state \in {"succeeded", "failed"},
           NEW effect \in {"committed", "rolled_back"},
           Finished(c, state, effect)
    PROVE  records' \in [Servers -> [OpIds -> Record \cup {NoRecord}]]
<1>1. Rec(c) \in Record /\ Srv(c) \in Servers /\ args[c].op \in OpIds
  BY ArgsType DEF TypeInv, RecordKept, Holding
<1>2. [Rec(c) EXCEPT !.state = state, !.effect = effect] \in Record
  BY <1>1 DEF Record
<1>3. QED
  BY <1>1, <1>2 DEF Finished, Rec, TypeInv, TypeOK

LEMMA CheckRevokedType == ASSUME TypeInv, NEW c \in Calls, CheckRevoked(c) PROVE TypeOK'
<1>1. CASE UnderRevoked(c)
  <2>1. Moved'
    BY <1>1, EndType DEF CheckRevoked, Results
  <2>2. records' \in [Servers -> [OpIds -> Record \cup {NoRecord}]]
    BY <1>1, FinishedType DEF CheckRevoked, Holding
  <2>3. QED
    BY <2>1, <2>2 DEF CheckRevoked, Moved, TypeInv, TypeOK, LedgerTypeOK, ledgerVars,
       personVars
<1>2. CASE ~UnderRevoked(c)
  BY <1>2 DEF CheckRevoked, Goto, Phases, slotVars, TypeInv, TypeOK, LedgerTypeOK,
     ledgerVars, personVars
<1>3. QED
  BY <1>1, <1>2

LEMMA ExecuteType == ASSUME TypeInv, NEW c \in Calls, Execute(c) PROVE TypeOK'
BY DEF Execute, Goto, Phases, Results, slotVars, TypeInv, TypeOK, LedgerTypeOK, ledgerVars,
   personVars

LEMMA RunType == ASSUME TypeInv, NEW c \in Calls, Run(c) PROVE TypeOK'
<1>1. \A o \in Outcomes(c) : o.reply \in Results /\ o.written \in BOOLEAN
  BY DEF Outcomes, Results
<1>2. result' \in [Calls -> Results] /\ committed' \in [Calls -> BOOLEAN]
  BY <1>1 DEF Run, TypeInv, TypeOK
<1>3. phase' \in [Calls -> Phases]
  BY DEF Run, Goto, Phases, TypeInv, TypeOK
<1>4. QED
  BY <1>2, <1>3 DEF Run, slotVars, TypeInv, TypeOK, LedgerTypeOK, ledgerVars, personVars

LEMMA FinishType == ASSUME TypeInv, NEW c \in Calls, Finish(c) PROVE TypeOK'
<1>1. Moved'
  <2>1. result[c] \in Results
    BY DEF TypeInv, TypeOK
  <2>2. QED
    BY <2>1, EndType DEF Finish
<1>2. records' \in [Servers -> [OpIds -> Record \cup {NoRecord}]]
  BY FinishedType DEF Finish, Holding
<1>3. QED
  BY <1>1, <1>2 DEF Finish, Moved, TypeInv, TypeOK, LedgerTypeOK, ledgerVars, personVars

-----------------------------------------------------------------------------
(* The other actors. *)

LEMMA AgentType == ASSUME TypeInv, NEW c \in Calls, Agent(c) PROVE TypeOK'
<1>1. CASE Cancel(c)
  BY <1>1 DEF Cancel, slotVars, TypeInv, TypeOK, LedgerTypeOK, ledgerVars, personVars
<1>2. ASSUME NEW s \in Servers, NEW o \in OpIds, NEW w \in Writes, Call(c, s, o, w)
      PROVE  TypeOK'
  <2>1. [server |-> s, op |-> o, write |-> w] \in Args
    BY DEF Args
  <2>2. args' \in [Calls -> Args \cup {NoArgs}]
    BY <1>2, <2>1 DEF Call, TypeInv, TypeOK
  <2>3. phase' \in [Calls -> Phases] /\ result' \in [Calls -> Results]
    BY <1>2 DEF Call, Goto, Phases, Results, TypeInv, TypeOK
  <2>4. QED
    BY <1>2, <2>2, <2>3 DEF Call, slotVars, TypeInv, TypeOK, LedgerTypeOK, ledgerVars,
       personVars
<1>3. QED
  BY <1>1, <1>2 DEF Agent

LEMMA AskType == ASSUME TypeInv, NEW c \in Calls, Ask(c) PROVE TypeOK'
<1>1. approvals' \in ApprovalTable
  BY DEF Ask, RequestApproval, TypeInv, TypeOK, LedgerTypeOK, ApprovalTable
<1>2. phase' \in [Calls -> Phases]
  BY DEF Ask, Goto, Phases, TypeInv, TypeOK
<1>3. QED
  BY <1>1, <1>2 DEF Ask, RequestApproval, slotVars, TypeInv, TypeOK, LedgerTypeOK,
     personVars, ApprovalTable

LEMMA HandlerType == ASSUME TypeInv, NEW c \in Calls, Handler(c) PROVE TypeOK'
BY AwaitType, AskType, PollType, SeeCancelType, TakePermitType, OpenSessionType, JudgeType,
   ReserveType, CheckRevokedType, ExecuteType, RunType, FinishType DEF Handler

LEMMA GoneType ==
    ASSUME TypeInv, NEW s \in Servers, Gone(s), approvals' \in ApprovalTable
    PROVE  TypeOK'
<1>1. phase' \in [Calls -> Phases] /\ result' \in [Calls -> Results]
  BY DEF Gone, TypeInv, TypeOK, Phases, Results
<1>2. server' \in [Servers -> {"new", "up", "down"}]
  BY DEF Gone, TypeInv, TypeOK
<1>3. permits' \in [Servers -> Nat]
  BY McpAssumption DEF Gone, TypeInv, TypeOK
<1>4. session' \in [Servers -> [Conns -> Calls \cup {Free}]]
  BY DEF Gone, TypeInv, TypeOK
<1>5. QED
  BY <1>1, <1>2, <1>3, <1>4 DEF Gone, TypeInv, TypeOK, LedgerTypeOK, ApprovalTable,
     personVars

LEMMA ProcessType == ASSUME TypeInv, NEW s \in Servers, Process(s) PROVE TypeOK'
<1>1. approvals \in ApprovalTable
  BY DEF TypeInv, TypeOK, LedgerTypeOK, ApprovalTable
<1>2. CASE Start(s)
  <2>1. approvals' \in ApprovalTable
    BY <1>1, <1>2, SweptType DEF Start
  <2>2. QED
    BY <1>2, <2>1 DEF Start, callVars, slotVars, personVars, TypeInv, TypeOK, LedgerTypeOK,
       ApprovalTable
<1>3. CASE Kill(s)
  BY <1>1, <1>3, GoneType DEF Kill
<1>4. CASE Stop(s)
  <2>1. \A c \in Calls : Settled(approvals, c, "cancelled", now) \in ApprovalTable
    BY <1>1, SettledType DEF Decisions
  <2>2. approvals' \in ApprovalTable
    BY <1>1, <1>4, <2>1 DEF Stop, ApprovalTable
  <2>3. QED
    BY <1>4, <2>2, GoneType DEF Stop
<1>5. QED
  BY <1>2, <1>3, <1>4 DEF Process

\* A step of the person's that changes the tables and leaves the servers alone.
LEMMA OthersType ==
    ASSUME TypeInv, UNCHANGED others, LedgerTypeOK',
           screen' \in [Screens -> Screen], told' \in [Calls -> SUBSET Answers]
    PROVE  TypeOK'
BY DEF others, callVars, slotVars, TypeInv, TypeOK

LEMMA GiveType ==
    ASSUME TypeInv, NEW g \in Grants, NEW p \in Profiles, NEW k \in Conns,
           NEW ks \in SUBSET Kinds, NEW bypass \in SUBSET Operations, NEW ask \in Asks,
           NEW ttl \in Ttls, Give(g, p, k, ks, bypass, ask, ttl)
    PROVE  TypeOK'
<1> DEFINE bare == [status |-> "live", profile |-> p, conn |-> k, kinds |-> ks,
                    expires |-> now + ttl, ask |-> ask, bypass |-> {}]
           row == WithBypass(bare, bypass)
<1>1. now + ttl \in Nat /\ ask \in Nat
  BY McpAssumption DEF TypeInv, TypeOK
<1>2. bare \in GrantRow
  BY <1>1 DEF GrantRow
<1>3. row \in GrantRow
  BY <1>2, WithBypassType
<1> HIDE DEF row
<1>4. InsertGrant(g, row) /\ UNCHANGED <<others, personVars>>
  BY DEF Give, row
<1>5. Revoked(LiveOn(row.profile, row.conn)) \in GrantTable
  BY RevokedType DEF LiveOn, TypeInv, TypeOK, LedgerTypeOK, GrantTable
<1>6. [Revoked(LiveOn(row.profile, row.conn)) EXCEPT ![g] = row] \in GrantTable
  BY <1>3, <1>5 DEF GrantTable
<1>7. LedgerTypeOK'
  BY <1>4, <1>6, RevokingType DEF InsertGrant, TypeInv, TypeOK
<1>8. QED
  BY <1>4, <1>7, OthersType DEF personVars, TypeInv, TypeOK

LEMMA TakeBackType == ASSUME TypeInv, TakeBack PROVE TypeOK'
<1>1. \E S \in SUBSET Live : Revoking(Revoked(S))
  <2>1. CASE \E g \in Grants : RevokeGrant(g)
    BY <2>1 DEF RevokeGrant
  <2>2. CASE \E p \in Profiles, k \in Conns : RevokeConnection(p, k)
    <3>1. \A p \in Profiles, k \in Conns : LiveOn(p, k) \in SUBSET Live
      BY DEF LiveOn
    <3>2. QED
      BY <2>2, <3>1 DEF RevokeConnection
  <2>3. CASE \E p \in Profiles : RevokeProfile(p)
    <3>1. \A p \in Profiles : {g \in Live : grants[g].profile = p} \in SUBSET Live
      OBVIOUS
    <3>2. QED
      BY <2>3, <3>1 DEF RevokeProfile
  <2>4. CASE RevokeAll
    BY <2>4 DEF RevokeAll
  <2>5. QED
    BY <2>1, <2>2, <2>3, <2>4 DEF TakeBack
<1>2. LedgerTypeOK'
  BY <1>1, RevokedType, RevokingType DEF TypeInv, TypeOK, LedgerTypeOK, GrantTable
<1>3. QED
  BY <1>2, OthersType DEF TakeBack, personVars, TypeInv, TypeOK

LEMMA ShowType ==
    ASSUME TypeInv, NEW u \in Screens, NEW what \in Screen, Show(u, what)
    PROVE  screen' \in [Screens -> Screen]
BY DEF Show, TypeInv, TypeOK

LEMMA TellType ==
    ASSUME TypeInv, NEW c \in Calls, NEW answer \in Answers, Tell(c, answer)
    PROVE  told' \in [Calls -> SUBSET Answers]
<1>1. told[c] \cup {answer} \in SUBSET Answers
  BY DEF TypeInv, TypeOK
<1>2. QED
  BY <1>1 DEF Tell, TypeInv, TypeOK

LEMMA AnswerType ==
    ASSUME TypeInv, NEW u \in Screens, NEW c \in Calls, NEW approve \in BOOLEAN,
           NEW stop \in BOOLEAN, Answer(u, c, approve, stop)
    PROVE  TypeOK'
<1> DEFINE decision == IF approve THEN "approved" ELSE "denied"
<1>1. LedgerTypeOK'
  <2>1. Settled(approvals, c, decision, now) \in ApprovalTable
    BY SettledType DEF Decisions, TypeInv, TypeOK, LedgerTypeOK, ApprovalTable
  <2>2. QED
    BY <2>1 DEF Answer, TypeInv, TypeOK, LedgerTypeOK, ApprovalTable
<1>2. told' \in [Calls -> SUBSET Answers]
  <2>1. Tell(c, decision) \/ UNCHANGED told
    BY DEF Answer
  <2>2. QED
    BY <2>1, TellType DEF Answers, TypeInv, TypeOK
<1>3. screen' \in [Screens -> Screen]
  <2>1. CASE CanSettle(approvals, c, decision, now)
    <3>1. approvals[c] \in Request
      BY <2>1, RequestRow DEF CanSettle, Decisions, TypeInv, TypeOK, LedgerTypeOK,
         ApprovalTable
    <3>2. [at |-> "stop_asking", grant |-> approvals[c].grant,
           asked |-> approvals[c].asked] \in Screen
      BY <3>1 DEF Request, Screen
    <3>3. Idle \in Screen
      BY DEF Screen
    <3>4. \E what \in Screen : Show(u, what)
      BY <2>1, <3>2, <3>3 DEF Answer
    <3>5. QED
      BY <3>4, ShowType
  <2>2. CASE ~CanSettle(approvals, c, decision, now)
    <3>1. [at |-> "missed", call |-> c, since |-> now] \in Screen
      BY DEF Screen, TypeInv, TypeOK
    <3>2. QED
      BY <2>2, <3>1, ShowType DEF Answer
  <2>3. QED
    BY <2>1, <2>2
<1>4. UNCHANGED others
  BY DEF Answer
<1>5. QED
  BY <1>1, <1>2, <1>3, <1>4, OthersType

LEMMA ExplainType == ASSUME TypeInv, NEW u \in Screens, Explain(u) PROVE TypeOK'
<1> DEFINE c == screen[u].call
           late == approvals[c].deadline <= screen[u].since
<1>1. screen[u] \in [at: {"missed"}, call: Calls, since: 0 .. MaxNow]
  BY DEF Explain, TypeInv, TypeOK, Screen, Idle
<1>a. c \in Calls
  BY <1>1
<1>b. late \in BOOLEAN
  OBVIOUS
<1> HIDE DEF late
<1>2. [at |-> "settling", call |-> c, late |-> late] \in Screen
  BY <1>a, <1>b DEF Screen
<1>3. Idle \in Screen
  BY DEF Screen
<1>4. \E what \in Screen : Show(u, what)
  BY <1>2, <1>3 DEF Explain, late
<1>5. \/ UNCHANGED told
      \/ \E answer \in {"timed_out", "already", "nobody"} : Tell(c, answer)
  BY DEF Explain
<1>6. told' \in [Calls -> SUBSET Answers]
  BY <1>a, <1>5, TellType DEF Answers, TypeInv, TypeOK
<1>7. QED
  BY <1>4, <1>6, ShowType, OthersType DEF Explain, others, TypeInv, TypeOK, LedgerTypeOK

LEMMA DismissType == ASSUME TypeInv, NEW u \in Screens, Dismiss(u) PROVE TypeOK'
<1> DEFINE c == screen[u].call
<1>1. c \in Calls
  BY DEF Dismiss, TypeInv, TypeOK, Screen, Idle
<1>2. LedgerTypeOK'
  <2>1. /\ Settled(approvals, c, "expired", now) \in ApprovalTable
        /\ Settled(approvals, c, "cancelled", now) \in ApprovalTable
    BY <1>1, SettledType DEF Decisions, TypeInv, TypeOK, LedgerTypeOK, ApprovalTable
  <2>2. QED
    BY <2>1 DEF Dismiss, TypeInv, TypeOK, LedgerTypeOK, ApprovalTable, others
<1>3. told' \in [Calls -> SUBSET Answers]
  <2>1. \E answer \in {"timed_out", "nobody"} : Tell(c, answer)
    BY DEF Dismiss
  <2>2. QED
    BY <1>1, <2>1, TellType DEF Answers
<1>4. screen' \in [Screens -> Screen]
  BY ShowType DEF Dismiss, Screen
<1>5. QED
  BY <1>2, <1>3, <1>4, OthersType DEF Dismiss

LEMMA StopAskingType == ASSUME TypeInv, NEW u \in Screens, StopAsking(u) PROVE TypeOK'
<1> DEFINE g == screen[u].grant
           asked == screen[u].asked
<1>1. g \in Grants /\ asked \in SUBSET Operations
  BY DEF StopAsking, TypeInv, TypeOK, Screen, Idle
<1>2. grants' \in GrantTable
  <2>1. CASE g \in Live
    <3>1. grants[g] \in GrantRow
      BY <1>1, <2>1 DEF Live, TypeInv, TypeOK, LedgerTypeOK, NoGrant
    <3>2. WithBypass(grants[g], grants[g].bypass \cup asked) \in GrantRow
      BY <1>1, <3>1, WithBypassType DEF GrantRow
    <3>3. QED
      BY <2>1, <3>2 DEF StopAsking, AddBypass, TypeInv, TypeOK, LedgerTypeOK, GrantTable
  <2>2. CASE g \notin Live
    BY <2>2 DEF StopAsking, AddBypass, TypeInv, TypeOK, LedgerTypeOK, GrantTable
  <2>3. QED
    BY <2>1, <2>2
<1>3. screen' \in [Screens -> Screen]
  BY ShowType DEF StopAsking, Screen
<1>4. QED
  BY <1>2, <1>3, OthersType DEF StopAsking, AddBypass, TypeInv, TypeOK, LedgerTypeOK,
     GrantTable

LEMMA PersonType == ASSUME TypeInv, Person PROVE TypeOK'
<1>1. CASE ListPending
  <2>1. LedgerTypeOK'
    BY <1>1, SweptType DEF ListPending, TypeInv, TypeOK, LedgerTypeOK, ApprovalTable
  <2>2. QED
    BY <1>1, <2>1, OthersType DEF ListPending, personVars, TypeInv, TypeOK
<1>2. QED
  BY <1>1, GiveType, TakeBackType, AnswerType, ExplainType, DismissType,
     StopAskingType DEF Person

LEMMA TickType == ASSUME TypeInv, Tick PROVE TypeOK'
BY McpAssumption DEF Tick, callVars, slotVars, ledgerVars, personVars, TypeInv, TypeOK,
   LedgerTypeOK

-----------------------------------------------------------------------------
(* The type invariant. *)

\* Records are not deleted.
LEMMA RecordsStay ==
    ASSUME TypeInv, [Next]_vars, NEW s \in Servers, NEW o \in OpIds,
           records[s][o] # NoRecord
    PROVE  records'[s][o] # NoRecord
<1>1. CASE UNCHANGED records
  BY <1>1
<1>2. ASSUME NEW c \in Calls, Reserve(c) \/ CheckRevoked(c) \/ Finish(c), records' # records
      PROVE  records'[s][o] # NoRecord
  <2>1. CASE Reserve(c)
    <3>1. records' = [records EXCEPT ![Srv(c)][args[c].op] =
                         [state |-> "running", write |-> Write(c), effect |-> "unknown"]]
      BY <1>2, <2>1 DEF Reserve
    <3>2. QED
      BY <3>1 DEF NoRecord, TypeInv, TypeOK
  <2>2. CASE CheckRevoked(c) \/ Finish(c)
    <3>1. phase[c] \in Holding
      BY <2>2 DEF CheckRevoked, Finish, Holding
    <3>2. \E state \in {"succeeded", "failed"}, effect \in {"committed", "rolled_back"} :
             Finished(c, state, effect)
      BY <1>2, <2>2 DEF CheckRevoked, Finish
    <3>3. PICK state \in {"succeeded", "failed"}, effect \in {"committed", "rolled_back"} :
             Finished(c, state, effect)
      BY <3>2
    <3>4. Rec(c) \in Record
      BY <3>1, ArgsType DEF TypeInv, RecordKept, Holding
    <3>5. [Rec(c) EXCEPT !.state = state, !.effect = effect] \in Record
      BY <3>4 DEF Record
    <3>6. records' = [records EXCEPT ![Srv(c)][args[c].op] =
                         [Rec(c) EXCEPT !.state = state, !.effect = effect]]
      BY <3>3 DEF Finished, Rec
    <3>7. NoRecord \notin Record
      BY DEF NoRecord, Record
    <3>8. QED
      BY <3>5, <3>6, <3>7 DEF TypeInv, TypeOK
  <2>3. QED
    BY <1>2, <2>1, <2>2
<1>3. QED
  BY <1>1, <1>2 DEF Next, Agent, Call, Cancel, Handler, Await, Ask, Poll, SeeCancel,
     TakePermit, OpenSession, Judge, Execute, Run, Process, Start, Stop, Kill, Gone, Person,
     Give, TakeBack, ListPending, Answer, Explain, Dismiss, StopAsking, others, Tick, vars

\* A call's arguments are chosen when it is made, and never again.
LEMMA ArgsStay ==
    ASSUME TypeInv, [Next]_vars, NEW c \in Calls
    PROVE  \/ phase'[c] = phase[c] /\ args'[c] = args[c]
           \/ phase[c] = "idle" /\ args'[c] \in Args /\ phase'[c] \in {"called", "done"}
           \/ phase[c] # "idle" /\ phase'[c] # "idle" /\ args'[c] = args[c]
<1>1. ASSUME NEW d \in Calls, Agent(d) \/ Handler(d)
      PROVE  \/ phase'[c] = phase[c] /\ args'[c] = args[c]
             \/ phase[c] = "idle" /\ args'[c] \in Args /\ phase'[c] \in {"called", "done"}
             \/ phase[c] # "idle" /\ phase'[c] # "idle" /\ args'[c] = args[c]
  BY <1>1 DEF Agent, Call, Cancel, Handler, Await, Ask, Poll, SeeCancel, TakePermit,
     OpenSession, Judge, Reserve, CheckRevoked, Execute, Run, Finish, Uncleared, Cleared,
     End, Goto, Args, TypeInv, TypeOK
<1>2. CASE \E s \in Servers : Process(s)
  BY <1>2 DEF Process, Start, Stop, Kill, Gone, callVars, CallsOf, TypeInv, TypeOK
<1>3. CASE Person \/ Tick \/ UNCHANGED vars
  BY <1>3 DEF Person, Give, TakeBack, ListPending, Answer, Explain, Dismiss, StopAsking, others,
     Tick, callVars, vars
<1>4. QED
  BY <1>1, <1>2, <1>3 DEF Next

\* Only a reservation brings a call among those that hold a record.
LEMMA HoldingEntered ==
    ASSUME TypeInv, [Next]_vars, NEW c \in Calls, phase'[c] \in Holding
    PROVE  phase[c] \in Holding \/ (Reserve(c) /\ phase'[c] = "reserved")
<1>1. ASSUME NEW d \in Calls, Agent(d) \/ Handler(d)
      PROVE  phase[c] \in Holding \/ (Reserve(c) /\ phase'[c] = "reserved")
  BY <1>1 DEF Agent, Call, Cancel, Handler, Await, Ask, Poll, SeeCancel, TakePermit,
     OpenSession, Judge, Reserve, CheckRevoked, Execute, Run, Finish, Uncleared, Cleared,
     End, Goto, Holding, TypeInv, TypeOK
<1>2. CASE \E s \in Servers : Process(s)
  BY <1>2 DEF Process, Start, Stop, Kill, Gone, callVars, CallsOf, Holding, TypeInv, TypeOK
<1>3. CASE Person \/ Tick \/ UNCHANGED vars
  BY <1>3 DEF Person, Give, TakeBack, ListPending, Answer, Explain, Dismiss, StopAsking, others,
     Tick, callVars, vars
<1>4. QED
  BY <1>1, <1>2, <1>3 DEF Next

LEMMA StepType == TypeInv /\ [Next]_vars => TypeInv'
<1> SUFFICES ASSUME TypeInv, [Next]_vars
             PROVE  TypeInv'
  OBVIOUS
<1>1. TypeOK'
  <2>1. CASE UNCHANGED vars
    BY <2>1 DEF vars, TypeInv, TypeOK, LedgerTypeOK
  <2>2. CASE Next
    BY <2>2, AgentType, HandlerType, ProcessType, PersonType, TickType DEF Next
  <2>3. QED
    BY <2>1, <2>2
<1>2. ArgsKnown'
  BY ArgsStay DEF ArgsKnown, TypeInv
<1>3. RecordKept'
  <2> SUFFICES ASSUME NEW c \in Calls, phase'[c] \in Holding
               PROVE  Rec(c)' # NoRecord
    BY DEF RecordKept
  <2>1. args'[c] = args[c] /\ phase[c] # "idle"
    BY HoldingEntered, ArgsStay DEF Reserve, Holding
  <2>2. Srv(c) \in Servers /\ args[c].op \in OpIds
    BY <2>1, ArgsType
  <2>3. CASE phase[c] \in Holding
    <3>1. records[Srv(c)][args[c].op] # NoRecord
      BY <2>3 DEF TypeInv, RecordKept, Rec
    <3>2. records'[Srv(c)][args[c].op] # NoRecord
      BY <2>2, <3>1, RecordsStay
    <3>3. QED
      BY <2>1, <3>2 DEF Rec, Srv
  <2>4. CASE Reserve(c) /\ phase'[c] = "reserved"
    <3>1. CASE Rec(c) = NoRecord
      <4>1. records' = [records EXCEPT ![Srv(c)][args[c].op] =
                           [state |-> "running", write |-> Write(c), effect |-> "unknown"]]
        BY <2>4, <3>1 DEF Reserve
      <4>2. QED
        BY <2>1, <2>2, <4>1 DEF Rec, Srv, NoRecord, TypeInv, TypeOK
    <3>2. CASE Rec(c) # NoRecord
      BY <2>4, <3>2 DEF Reserve, End, Goto, TypeInv, TypeOK
    <3>3. QED
      BY <3>1, <3>2
  <2>5. QED
    BY <2>3, <2>4, HoldingEntered
<1>4. QED
  BY <1>1, <1>2, <1>3 DEF TypeInv

LEMMA TypeInvariant == Spec => []TypeInv
BY InitType, StepType, PTL DEF Spec

\* Every row of the shared tables, every record and every local of a handler keeps its
\* type, in any interleaving of calls, servers and the person.
THEOREM Typed == Spec => []TypeOK
<1>1. TypeInv => TypeOK
  BY DEF TypeInv
<1>2. QED
  BY <1>1, TypeInvariant, PTL

-----------------------------------------------------------------------------
(* One access per connection. *)

\* Revoking brings no access to life and changes no other column of one.
LEMMA RevokedKeeps ==
    ASSUME LedgerTypeOK, NEW S \in SUBSET Live, NEW h \in Grants,
           Revoked(S)[h].status = "live"
    PROVE  h \in Live \ S /\ Revoked(S)[h] = grants[h]
<1>1. CASE h \in S
  <2>1. grants[h] \in GrantRow
    BY <1>1 DEF LedgerTypeOK, Live, NoGrant
  <2>2. [grants[h] EXCEPT !.status = "revoked"].status = "revoked"
    BY <2>1 DEF GrantRow
  <2>3. QED
    BY <1>1, <2>2 DEF Revoked
<1>2. CASE h \notin S
  BY <1>2 DEF Revoked, Live
<1>3. QED
  BY <1>1, <1>2

\* A profile never has two live accesses on one connection, though accesses are given,
\* replaced, widened and taken back in any order.
THEOREM OneAccess == Spec => []OneAccessPerConnection
<1>1. Init => OneAccessPerConnection
  BY DEF Init, LedgerInit, OneAccessPerConnection, Live, NoGrant
<1>2. TypeInv /\ OneAccessPerConnection /\ [Next]_vars => OneAccessPerConnection'
  <2> SUFFICES ASSUME TypeInv, OneAccessPerConnection, [Next]_vars
               PROVE  OneAccessPerConnection'
    OBVIOUS
  <2> USE DEF TypeInv, TypeOK
  <2>1. CASE UNCHANGED grants
    BY <2>1 DEF OneAccessPerConnection, Live
  <2>2. CASE TakeBack
    <3>1. PICK S \in SUBSET Live : grants' = Revoked(S)
      BY <2>2 DEF TakeBack, RevokeGrant, RevokeConnection, RevokeProfile, RevokeAll,
         Revoking, LiveOn
    <3>2. \A h \in Live' : h \in Live /\ grants'[h] = grants[h]
      BY <3>1, RevokedKeeps DEF Live
    <3>3. QED
      BY <3>2 DEF OneAccessPerConnection
  <2>3. ASSUME NEW g \in Grants, NEW row \in GrantRow, InsertGrant(g, row)
        PROVE  OneAccessPerConnection'
    <3> DEFINE S == LiveOn(row.profile, row.conn)
    <3>1. S \in SUBSET Live
      BY DEF LiveOn
    <3>2. grants' = [Revoked(S) EXCEPT ![g] = row]
      BY <2>3 DEF InsertGrant, Revoking
    <3>3. Revoked(S) \in GrantTable
      BY <3>1, RevokedType DEF LedgerTypeOK, GrantTable
    <3>4. ASSUME NEW h \in Live', h # g
          PROVE  h \in Live \ S /\ grants'[h] = grants[h]
      <4>1. grants'[h] = Revoked(S)[h] /\ h \in Grants /\ grants'[h].status = "live"
        BY <3>2, <3>3, <3>4 DEF Live, GrantTable
      <4>2. QED
        BY <3>1, <4>1, RevokedKeeps
    <3>5. grants'[g] = row
      BY <3>2, <3>3 DEF GrantTable
    <3>6. \A h \in Live \ S : grants[h].profile # row.profile \/ grants[h].conn # row.conn
      BY DEF LiveOn
    <3>7. ASSUME NEW h \in Live', h # g
          PROVE  grants'[h].profile # row.profile \/ grants'[h].conn # row.conn
      BY <3>4, <3>6, <3>7
    <3>8. ASSUME NEW h \in Live', NEW i \in Live', h # g, i # g,
                 grants'[h].profile = grants'[i].profile, grants'[h].conn = grants'[i].conn
          PROVE  h = i
      BY <3>4, <3>8 DEF OneAccessPerConnection
    <3>9. QED
      BY <3>5, <3>7, <3>8 DEF OneAccessPerConnection
  <2>4. ASSUME NEW g \in Grants, NEW p \in Profiles, NEW k \in Conns,
               NEW ks \in SUBSET Kinds, NEW bypass \in SUBSET Operations, NEW ask \in Asks,
               NEW ttl \in Ttls, Give(g, p, k, ks, bypass, ask, ttl)
        PROVE  \E row \in GrantRow : InsertGrant(g, row)
    <3>1. [status |-> "live", profile |-> p, conn |-> k, kinds |-> ks,
           expires |-> now + ttl, ask |-> ask, bypass |-> {}] \in GrantRow
      BY McpAssumption DEF GrantRow
    <3>2. QED
      BY <2>4, <3>1, WithBypassType DEF Give
  <2>5. ASSUME NEW u \in Screens, StopAsking(u)
        PROVE  OneAccessPerConnection'
    <3> DEFINE g == screen[u].grant
               asked == screen[u].asked
               row == WithBypass(grants[g], grants[g].bypass \cup asked)
    <3>1. CASE g \in Live
      <4>1. grants[g] \in GrantRow /\ asked \in SUBSET Operations
        BY <2>5, <3>1 DEF StopAsking, Screen, Idle, Live, LedgerTypeOK, NoGrant
      <4>2. grants[g].bypass \cup asked \in SUBSET Operations
        BY <4>1 DEF GrantRow
      <4>3. /\ row.status = grants[g].status /\ row.profile = grants[g].profile
            /\ row.conn = grants[g].conn
        BY <4>1, <4>2, WithBypassKeeps
      <4>4. grants' = [grants EXCEPT ![g] = row]
        BY <2>5, <3>1 DEF StopAsking, AddBypass
      <4> HIDE DEF row
      <4>5. \A h \in Grants : /\ grants'[h].status = grants[h].status
                              /\ grants'[h].profile = grants[h].profile
                              /\ grants'[h].conn = grants[h].conn
        BY <4>3, <4>4 DEF LedgerTypeOK
      <4>6. Live' = Live
        BY <4>5 DEF Live
      <4>7. ASSUME NEW h \in Live', NEW i \in Live',
                   grants'[h].profile = grants'[i].profile, grants'[h].conn = grants'[i].conn
            PROVE  h = i
        <5>1. h \in Live /\ i \in Live /\ h \in Grants /\ i \in Grants
          BY <4>6, <4>7 DEF Live
        <5>2. grants[h].profile = grants[i].profile /\ grants[h].conn = grants[i].conn
          BY <4>5, <4>7, <5>1
        <5>3. QED
          BY <5>1, <5>2 DEF OneAccessPerConnection
      <4>8. QED
        BY <4>7 DEF OneAccessPerConnection
    <3>2. CASE g \notin Live
      BY <2>1, <2>5, <3>2 DEF StopAsking, AddBypass
    <3>3. QED
      BY <3>1, <3>2
  <2>6. CASE \E c \in Calls : Agent(c) \/ Handler(c)
    BY <2>1, <2>6 DEF Agent, Call, Cancel, Handler, Await, Ask, RequestApproval, Poll,
       SeeCancel, TakePermit, OpenSession, Judge, Reserve, CheckRevoked, Execute, Run,
       Finish, ledgerVars
  <2>7. CASE (\E s \in Servers : Process(s)) \/ Tick \/ UNCHANGED vars
    BY <2>1, <2>7 DEF Process, Start, Stop, Kill, Gone, Tick, ledgerVars, vars
  <2>8. CASE Person
    BY <2>1, <2>2, <2>3, <2>4, <2>5, <2>8 DEF Person, ListPending, Answer, Explain,
       Dismiss
  <2>9. QED
    BY <2>6, <2>7, <2>8 DEF Next
<1>3. QED
  BY <1>1, <1>2, TypeInvariant, PTL DEF Spec

-----------------------------------------------------------------------------
(* One write per operation id. *)

\* A call owns the record of its operation id once it reserved it; and one that wrote
\* did so then.
Owns(c) == phase[c] \in Holding \/ committed[c]

SameOperation(c, d) == Srv(c) = Srv(d) /\ args[c].op = args[d].op

OneOwner ==
    /\ \A c \in Calls : Owns(c) => phase[c] # "idle" /\ Rec(c) # NoRecord
    /\ \A c, d \in Calls : Owns(c) /\ Owns(d) /\ SameOperation(c, d) => c = d

\* Only a reservation that found no record makes a call an owner.
LEMMA OwnerEntered ==
    ASSUME TypeInv, [Next]_vars, NEW c \in Calls, Owns(c)', ~Owns(c)
    PROVE  Reserve(c) /\ Rec(c) = NoRecord
<1>1. phase'[c] \notin Holding => committed'[c] = committed[c]
  <2>1. ASSUME NEW d \in Calls, Agent(d) \/ Handler(d), phase'[c] \notin Holding
        PROVE  committed'[c] = committed[c]
    BY <2>1 DEF Agent, Call, Cancel, Handler, Await, Ask, Poll, SeeCancel, TakePermit,
       OpenSession, Judge, Reserve, CheckRevoked, Execute, Run, Finish, Goto, Holding,
       TypeInv, TypeOK
  <2>2. CASE (\E s \in Servers : Process(s)) \/ Person \/ Tick \/ UNCHANGED vars
    BY <2>2 DEF Process, Start, Stop, Kill, Gone, Person, Give, TakeBack, ListPending,
       Answer, Explain, Dismiss, StopAsking, others, Tick, vars
  <2>3. QED
    BY <2>1, <2>2 DEF Next
<1>2. phase'[c] \in Holding /\ phase[c] \notin Holding
  BY <1>1 DEF Owns
<1>3. Reserve(c) /\ phase'[c] = "reserved"
  BY <1>2, HoldingEntered
<1>4. QED
  BY <1>3 DEF Reserve, End, Goto, TypeInv, TypeOK

LEMMA OneOwnerStep == TypeInv /\ OneOwner /\ [Next]_vars => OneOwner'
<1> SUFFICES ASSUME TypeInv, OneOwner, [Next]_vars
             PROVE  OneOwner'
  OBVIOUS
<1>1. ASSUME NEW c \in Calls, Owns(c)'
      PROVE  phase[c] # "idle" /\ phase'[c] # "idle" /\ args'[c] = args[c]
  <2>1. phase[c] # "idle"
    BY <1>1, OwnerEntered DEF OneOwner, Reserve
  <2>2. QED
    BY <2>1, ArgsStay
<1>2. ASSUME NEW c \in Calls, Owns(c)'
      PROVE  Rec(c)' # NoRecord
  <2>1. Srv(c) \in Servers /\ args[c].op \in OpIds
    BY <1>1, <1>2, ArgsType
  <2>2. CASE Owns(c)
    <3>1. records[Srv(c)][args[c].op] # NoRecord
      BY <2>2 DEF OneOwner, Rec
    <3>2. QED
      BY <1>1, <1>2, <2>1, <3>1, RecordsStay DEF Rec, Srv
  <2>3. CASE ~Owns(c)
    <3>1. Reserve(c) /\ Rec(c) = NoRecord
      BY <1>2, <2>3, OwnerEntered
    <3>2. records' = [records EXCEPT ![Srv(c)][args[c].op] =
                         [state |-> "running", write |-> Write(c), effect |-> "unknown"]]
      BY <3>1 DEF Reserve
    <3>3. QED
      BY <1>1, <1>2, <2>1, <3>2 DEF Rec, Srv, NoRecord, TypeInv, TypeOK
  <2>4. QED
    BY <2>2, <2>3
<1>3. ASSUME NEW c \in Calls, NEW d \in Calls, Owns(c)', Owns(d)', SameOperation(c, d)'
      PROVE  c = d
  <2>1. SameOperation(c, d)
    BY <1>1, <1>3 DEF SameOperation, Srv
  <2>2. CASE Owns(c) /\ Owns(d)
    BY <2>1, <2>2 DEF OneOwner
  <2>3. CASE Owns(c) /\ ~Owns(d)
    <3>1. Rec(c) # NoRecord /\ Rec(d) = NoRecord
      BY <1>3, <2>3, OwnerEntered DEF OneOwner
    <3>2. QED
      BY <2>1, <3>1 DEF SameOperation, Rec
  <2>4. CASE ~Owns(c) /\ Owns(d)
    <3>1. Rec(d) # NoRecord /\ Rec(c) = NoRecord
      BY <1>3, <2>4, OwnerEntered DEF OneOwner
    <3>2. QED
      BY <2>1, <3>1 DEF SameOperation, Rec
  <2>5. CASE ~Owns(c) /\ ~Owns(d)
    <3>1. Reserve(c) /\ Reserve(d) /\ Rec(c) = NoRecord /\ Rec(d) = NoRecord
      BY <1>3, <2>5, OwnerEntered
    <3>2. phase' = [phase EXCEPT ![c] = "reserved"] /\ phase' = [phase EXCEPT ![d] = "reserved"]
      BY <3>1 DEF Reserve, Goto
    <3>3. phase[c] = "judged"
      BY <3>1 DEF Reserve
    <3>4. QED
      BY <3>2, <3>3 DEF TypeInv, TypeOK
  <2>6. QED
    BY <2>2, <2>3, <2>4, <2>5
<1>4. QED
  BY <1>1, <1>2, <1>3 DEF OneOwner

\* However many calls of a server carry an operation id, and however they overlap, one of
\* them at most writes.
THEOREM OneWrite == Spec => []OneWritePerOperation
<1>1. Init => OneOwner
  BY DEF Init, OneOwner, Owns, Holding
<1>2. OneOwner => OneWritePerOperation
  BY DEF OneOwner, Owns, OneWritePerOperation, SameOperation
<1>3. QED
  BY <1>1, <1>2, OneOwnerStep, TypeInvariant, PTL DEF Spec

-----------------------------------------------------------------------------
(* Decisions are final, and access taken back starts nothing. *)

\* A call's request is inserted once, under the access its handler read.
Asked ==
    /\ \A c \in Calls :
          phase[c] \in {"idle", "called", "asking"} => approvals[c] = NoRequest
    /\ \A c \in Calls : phase[c] = "asking" => draft[c].decision = "pending"
    /\ \A c \in Calls :
          approvals[c] # NoRequest => approvals[c].grant = draft[c].grant

LEMMA ApprovalsStep ==
    ASSUME TypeInv, [Next]_vars
    PROVE  Later(approvals, approvals') \/ \E c \in Calls : Ask(c)
<1>0. approvals \in ApprovalTable
  BY DEF TypeInv, TypeOK, LedgerTypeOK, ApprovalTable
<1>1. approvals' = approvals => Later(approvals, approvals')
  BY DEF Later
<1>2. ASSUME NEW c \in Calls, Agent(c) \/ Handler(c), ~Ask(c)
      PROVE  Later(approvals, approvals')
  <2>1. CASE Poll(c)
    <3>1. \/ approvals' = Settled(approvals, c, "expired", now)
          \/ approvals' = Touched(approvals, c, now)
      BY <2>1 DEF Poll
    <3>2. QED
      BY <1>0, <3>1, SettledLater, TouchedLater
  <2>2. CASE SeeCancel(c)
    <3>1. \/ approvals' = Settled(approvals, c, "cancelled", now)
          \/ approvals' = approvals
      BY <2>2 DEF SeeCancel
    <3>2. Later(approvals, Settled(approvals, c, "cancelled", now))
      BY <1>0, SettledLater
    <3>3. QED
      BY <1>1, <3>1, <3>2
  <2>3. QED
    BY <1>1, <1>2, <2>1, <2>2 DEF Agent, Call, Cancel, Handler, Await, TakePermit,
       OpenSession, Judge, Reserve, CheckRevoked, Execute, Run, Finish, ledgerVars
<1>3. ASSUME NEW s \in Servers, Process(s)
      PROVE  Later(approvals, approvals')
  <2>1. CASE Start(s)
    BY <1>0, <2>1, SweptLater DEF Start
  <2>2. CASE Stop(s)
    <3>1. \A c \in Calls : Later(approvals, Settled(approvals, c, "cancelled", now))
      BY <1>0, SettledLater
    <3>2. \A c \in Calls : \/ approvals'[c] = approvals[c]
                           \/ approvals'[c] = Settled(approvals, c, "cancelled", now)[c]
      BY <2>2 DEF Stop
    <3>3. ASSUME NEW c \in Calls
          PROVE  /\ approvals[c] = NoRequest => approvals'[c] = NoRequest
                 /\ approvals[c].decision \notin {"none", "pending"} =>
                       approvals'[c] \in {approvals[c], NoRequest}
                 /\ approvals'[c] # NoRequest =>
                       /\ approvals'[c].grant = approvals[c].grant
                       /\ approvals'[c].deadline = approvals[c].deadline
      <4>1. Later(approvals, Settled(approvals, c, "cancelled", now))
        BY <3>1
      <4>2. QED
        BY <3>2, <4>1 DEF Later
    <3>4. QED
      BY <3>3 DEF Later
  <2>3. CASE Kill(s)
    BY <1>1, <2>3 DEF Kill
  <2>4. QED
    BY <1>3, <2>1, <2>2, <2>3 DEF Process
<1>4. CASE Person
  <2>1. ASSUME NEW G, Revoking(G)
        PROVE  Later(approvals, approvals')
    BY <1>0, <2>1, DenyRevokedLater DEF Revoking
  <2>2. ASSUME NEW c \in Calls, NEW d, approvals' = Settled(approvals, c, d, now)
        PROVE  Later(approvals, approvals')
    BY <1>0, <2>2, SettledLater
  <2>3. CASE ListPending
    BY <1>0, <2>3, SweptLater DEF ListPending
  <2>4. ASSUME NEW u \in Screens, Dismiss(u)
        PROVE  Later(approvals, approvals')
    <3>1. screen[u].call \in Calls
      BY <2>4 DEF Dismiss, TypeInv, TypeOK, Screen, Idle
    <3>2. \E d \in Decisions : approvals' = Settled(approvals, screen[u].call, d, now)
      BY <2>4 DEF Dismiss, Decisions
    <3>3. QED
      BY <2>2, <3>1, <3>2
  <2>5. ASSUME NEW u \in Screens, Explain(u) \/ StopAsking(u)
        PROVE  Later(approvals, approvals')
    BY <1>1, <2>5 DEF Explain, StopAsking, AddBypass
  <2>6. CASE TakeBack
    <3>1. \E G : Revoking(G)
      BY <2>6 DEF TakeBack, RevokeGrant, RevokeConnection, RevokeProfile, RevokeAll
    <3>2. QED
      BY <2>1, <3>1
  <2>7. ASSUME NEW g, NEW p, NEW k, NEW ks, NEW bypass, NEW ask, NEW ttl,
               Give(g, p, k, ks, bypass, ask, ttl)
        PROVE  Later(approvals, approvals')
    BY <2>1, <2>7 DEF Give, InsertGrant
  <2>8. ASSUME NEW u, NEW c \in Calls, NEW approve, NEW stop, Answer(u, c, approve, stop)
        PROVE  Later(approvals, approvals')
    BY <2>2, <2>8 DEF Answer
  <2>9. QED
    BY <1>4, <2>3, <2>4, <2>5, <2>6, <2>7, <2>8 DEF Person
<1>5. CASE Tick \/ UNCHANGED vars
  BY <1>1, <1>5 DEF Tick, ledgerVars, vars
<1>6. QED
  BY <1>2, <1>3, <1>4, <1>5 DEF Next

\* Where a call's request, its clearance and the access it runs under come from.
Origins(c) ==
    /\ phase'[c] \in {"idle", "called"} => phase[c] \in {"idle", "called"}
    /\ phase'[c] = "asking" => phase[c] \in {"called", "asking"}
    /\ phase'[c] = "asking" /\ phase[c] = "called" => draft'[c].decision = "pending"
    /\ draft'[c] = draft[c] \/ phase[c] = "called"
    /\ clearance'[c] = clearance[c] \/ phase'[c] = "queued"
    /\ under'[c] = under[c] \/ phase[c] = "leased"
    /\ phase'[c] \in {"judged", "reserved", "checked"} =>
          phase[c] \in {"judged", "reserved", "checked"} \/ Judge(c)
    /\ phase'[c] = "running" => phase[c] = "running" \/ Execute(c)

LEMMA CallOrigins ==
    ASSUME TypeInv, [Next]_vars, NEW c \in Calls
    PROVE  Origins(c)
<1> USE DEF TypeInv, TypeOK
<1>1. ASSUME NEW d \in Calls, Agent(d)
      PROVE  Origins(c)
  BY <1>1 DEF Agent, Call, Cancel, Goto, Origins
<1>2. ASSUME NEW d \in Calls, Await(d)
      PROVE  Origins(c)
  <2>1. CASE d = c /\ phase'[c] = "asking"
    <3>1. PICK g \in Covering(c) :
              draft' = [draft EXCEPT ![c] =
                           [decision |-> "pending", grant |-> g, heartbeat |-> now,
                            deadline |-> LowerOf(LowerOf(now + grants[g].ask, MaxNow),
                                                 grants[g].expires),
                            asked |-> OpsOf[Write(c)] \ grants[g].bypass]]
      BY <1>2, <2>1 DEF Await, Uncleared, Cleared, End, Goto, Origins
    <3>2. draft'[c].decision = "pending"
      BY <3>1
    <3>3. QED
      BY <1>2, <2>1, <3>2 DEF Await, Uncleared, Cleared, End, Goto, Origins
  <2>2. CASE d = c /\ phase'[c] # "asking"
    BY <1>2, <2>2 DEF Await, Uncleared, Cleared, End, Goto, Origins
  <2>3. CASE d # c
    BY <1>2, <2>3 DEF Await, Uncleared, Cleared, End, Goto, Origins
  <2>4. QED
    BY <2>1, <2>2, <2>3
<1>3. ASSUME NEW d \in Calls, Handler(d), ~Await(d)
      PROVE  Origins(c)
  <2>1. CASE Ask(d) \/ TakePermit(d) \/ OpenSession(d)
    BY <2>1 DEF Ask, TakePermit, OpenSession, End, Goto, Origins
  <2>2. CASE Poll(d)
    BY <2>2 DEF Poll, Cleared, End, Goto, Origins
  <2>3. CASE SeeCancel(d)
    BY <2>3 DEF SeeCancel, End, Goto, Origins
  <2>4. CASE Judge(d)
    BY <2>4 DEF Judge, End, Goto, Origins
  <2>5. CASE Reserve(d) \/ CheckRevoked(d)
    BY <2>5 DEF Reserve, CheckRevoked, End, Goto, Origins
  <2>6. CASE Execute(d) \/ Run(d) \/ Finish(d)
    BY <2>6 DEF Execute, Run, Finish, End, Goto, Origins
  <2>7. QED
    BY <1>3, <2>1, <2>2, <2>3, <2>4, <2>5, <2>6 DEF Handler
<1>4. CASE \E s \in Servers : Process(s)
  BY <1>4 DEF Process, Start, Stop, Kill, Gone, callVars, CallsOf, Origins
<1>5. CASE Person \/ Tick \/ UNCHANGED vars
  BY <1>5 DEF Person, Give, TakeBack, ListPending, Answer, Explain, Dismiss, StopAsking, others,
     Tick, callVars, vars, Origins
<1>6. QED
  BY <1>1, <1>2, <1>3, <1>4, <1>5 DEF Next

\* An approved call that was judged runs under the access its request was made under.
ApprovedUnder ==
    \A c \in Calls :
        phase[c] \in {"judged", "reserved", "checked"} /\ clearance[c] = "approved" =>
            under[c] = {draft[c].grant}

AskedInv == Asked /\ ApprovedUnder

LEMMA AskedStep == TypeInv /\ AskedInv /\ [Next]_vars => AskedInv'
<1> SUFFICES ASSUME TypeInv, AskedInv, [Next]_vars
             PROVE  AskedInv'
  OBVIOUS
<1> USE DEF AskedInv
<1>1. ASSUME NEW c \in Calls
      PROVE  /\ phase'[c] \in {"idle", "called", "asking"} => approvals'[c] = NoRequest
             /\ approvals'[c] # NoRequest => approvals'[c].grant = draft'[c].grant
  <2>1. Origins(c)
    BY CallOrigins
  <2>2. CASE Later(approvals, approvals')
    <3>1. phase'[c] \in {"idle", "called", "asking"} => approvals[c] = NoRequest
      BY <2>1 DEF Origins, Asked
    <3>2. draft'[c] = draft[c] \/ approvals[c] = NoRequest
      BY <2>1 DEF Origins, Asked
    <3>3. QED
      BY <2>2, <3>1, <3>2 DEF Later, Asked
  <2>3. ASSUME NEW d \in Calls, Ask(d)
        PROVE  /\ phase'[c] \in {"idle", "called", "asking"} => approvals'[c] = NoRequest
               /\ approvals'[c] # NoRequest => approvals'[c].grant = draft'[c].grant
    BY <2>3 DEF Ask, RequestApproval, Goto, Asked, TypeInv, TypeOK, LedgerTypeOK
  <2>4. QED
    BY <2>2, <2>3, ApprovalsStep
<1>2. \A c \in Calls : phase'[c] = "asking" => draft'[c].decision = "pending"
  <2> SUFFICES ASSUME NEW c \in Calls, phase'[c] = "asking"
               PROVE  draft'[c].decision = "pending"
    OBVIOUS
  <2>1. Origins(c)
    BY CallOrigins
  <2>2. QED
    BY <2>1 DEF Origins, Asked
<1>3. ASSUME NEW c \in Calls, phase'[c] \in {"judged", "reserved", "checked"},
             clearance'[c] = "approved"
      PROVE  under'[c] = {draft'[c].grant}
  <2>1. Origins(c)
    BY CallOrigins
  <2>2. clearance[c] = "approved"
    BY <1>3, <2>1 DEF Origins
  <2>3. CASE phase[c] \in {"judged", "reserved", "checked"}
    <3>1. under'[c] = under[c] /\ draft'[c] = draft[c]
      BY <2>1, <2>3 DEF Origins
    <3>2. QED
      BY <2>2, <2>3, <3>1 DEF ApprovedUnder
  <2>4. CASE Judge(c)
    <3>1. PICK g \in Covering(c) :
              /\ Stands(c, g) /\ under' = [under EXCEPT ![c] = {g}] /\ UNCHANGED draft
      BY <1>3, <2>4 DEF Judge, End, Goto, TypeInv, TypeOK
    <3>2. approvals[c].decision = "approved" /\ approvals[c].grant = g
      BY <2>2, <3>1 DEF Stands
    <3>3. approvals[c].grant = draft[c].grant
      BY <3>2 DEF Asked, NoRequest
    <3>4. QED
      BY <3>1, <3>2, <3>3 DEF TypeInv, TypeOK
  <2>5. QED
    BY <1>3, <2>1, <2>3, <2>4 DEF Origins
<1>4. QED
  BY <1>1, <1>2, <1>3 DEF Asked, ApprovedUnder

LEMMA AskedInvariant == Spec => []AskedInv
<1>1. Init => AskedInv
  BY DEF Init, LedgerInit, AskedInv, Asked, ApprovedUnder
<1>2. QED
  BY <1>1, AskedStep, TypeInvariant, PTL DEF Spec

\* A person's answer, a deadline, a withdrawal or a revocation decides a request once,
\* whatever answers, sweeps and restarts come after it.
THEOREM Final == Spec => DecisionsAreFinal
<1>1. TypeInv /\ AskedInv /\ [Next]_vars =>
          [\A c \in Calls :
              approvals[c].decision \notin {"none", "pending"} =>
                  approvals'[c] \in {approvals[c], NoRequest}]_vars
  <2> SUFFICES ASSUME TypeInv, AskedInv, [Next]_vars, NEW c \in Calls,
                      approvals[c].decision \notin {"none", "pending"}
               PROVE  approvals'[c] \in {approvals[c], NoRequest}
    OBVIOUS
  <2>1. CASE Later(approvals, approvals')
    BY <2>1 DEF Later
  <2>2. ASSUME NEW d \in Calls, Ask(d)
        PROVE  approvals'[c] \in {approvals[c], NoRequest}
    <3>1. d # c
      BY <2>2 DEF Ask, AskedInv, Asked, NoRequest
    <3>2. QED
      BY <2>2, <3>1 DEF Ask, RequestApproval, TypeInv, TypeOK, LedgerTypeOK
  <2>3. QED
    BY <2>1, <2>2, ApprovalsStep
<1>2. QED
  BY <1>1, TypeInvariant, AskedInvariant, PTL DEF Spec, DecisionsAreFinal

\* No write starts under an access that is revoked when its call looks last, nor with an
\* approval that was given under one.
THEOREM TakenBack == Spec => TakenBackStartsNothing
<1>1. TypeInv /\ AskedInv /\ [Next]_vars =>
          [\A c \in Calls :
              /\ phase[c] # "running"
              /\ UnderRevoked(c) \/ (clearance[c] = "approved" /\ IsRevoked(draft[c].grant))
              => phase'[c] # "running"]_vars
  <2> SUFFICES ASSUME TypeInv, AskedInv, [Next]_vars, NEW c \in Calls,
                      phase[c] # "running", phase'[c] = "running"
               PROVE  /\ ~UnderRevoked(c)
                      /\ clearance[c] = "approved" => ~IsRevoked(draft[c].grant)
    OBVIOUS
  <2>1. Execute(c)
    BY CallOrigins DEF Origins
  <2>2. ~UnderRevoked(c) /\ phase[c] = "checked"
    BY <2>1 DEF Execute, Goto, TypeInv, TypeOK
  <2>3. clearance[c] = "approved" => under[c] = {draft[c].grant}
    BY <2>2 DEF AskedInv, ApprovedUnder
  <2>4. QED
    BY <2>2, <2>3 DEF UnderRevoked
<1>2. QED
  BY <1>1, TypeInvariant, AskedInvariant, PTL DEF Spec, TakenBackStartsNothing

-----------------------------------------------------------------------------
(* What is answered, and what may run: where a call goes from where it is. *)

\* A call between its judgement and its write.
MayWrite == {"judged", "reserved", "checked", "running"}

\* Where a call goes, when it writes, and how it is cleared.
Moves(c) ==
    /\ phase[c] = "done" => phase'[c] = "done"
    /\ phase[c] = "applied" => phase'[c] \in {"applied", "done"}
    /\ phase[c] \in MayWrite => phase'[c] \in MayWrite \cup {"applied", "done"}
    /\ phase'[c] \in MayWrite => phase[c] \in MayWrite \/ Judge(c)
    /\ phase'[c] = "waiting" => phase[c] \in {"asking", "waiting"}
    /\ \/ committed'[c] = committed[c]
       \/ phase[c] = "running" /\ phase'[c] = "applied"
    /\ \/ clearance'[c] = clearance[c]
       \/ clearance'[c] = "bypassed" /\ phase[c] = "called" /\ phase'[c] = "queued"
       \/ /\ clearance'[c] = "approved" /\ phase[c] = "waiting" /\ phase'[c] = "queued"
          /\ approvals[c].decision = "approved"

LEMMA CallMoves ==
    ASSUME TypeInv, [Next]_vars, NEW c \in Calls
    PROVE  Moves(c)
<1> USE DEF TypeInv, TypeOK
<1>1. ASSUME NEW d \in Calls, Agent(d)
      PROVE  Moves(c)
  BY <1>1 DEF Agent, Call, Cancel, Goto, Moves, MayWrite
<1>2. ASSUME NEW d \in Calls, Handler(d)
      PROVE  Moves(c)
  <2>1. CASE Await(d) \/ Ask(d)
    BY <2>1 DEF Await, Uncleared, Cleared, Ask, End, Goto, Moves, MayWrite
  <2>2. CASE TakePermit(d) \/ OpenSession(d)
    BY <2>2 DEF TakePermit, OpenSession, End, Goto, Moves, MayWrite
  <2>3. CASE Poll(d)
    <3>1. approvals \in ApprovalTable
      BY DEF LedgerTypeOK, ApprovalTable
    <3>2. Touched(approvals, d, now)[d].decision = approvals[d].decision
      BY <3>1, TouchedNoneApproved
    <3>3. QED
      BY <2>3, <3>2 DEF Poll, Cleared, End, Goto, Moves, MayWrite
  <2>4. CASE SeeCancel(d)
    BY <2>4 DEF SeeCancel, End, Goto, Moves, MayWrite
  <2>5. CASE Judge(d)
    BY <2>5 DEF Judge, End, Goto, Moves, MayWrite
  <2>6. CASE Reserve(d) \/ CheckRevoked(d)
    BY <2>6 DEF Reserve, CheckRevoked, End, Goto, Moves, MayWrite
  <2>7. CASE Execute(d) \/ Run(d) \/ Finish(d)
    BY <2>7 DEF Execute, Run, Finish, End, Goto, Moves, MayWrite
  <2>8. QED
    BY <1>2, <2>1, <2>2, <2>3, <2>4, <2>5, <2>6, <2>7 DEF Handler
<1>3. CASE \E s \in Servers : Process(s)
  BY <1>3 DEF Process, Start, Stop, Kill, Gone, callVars, CallsOf, Moves, MayWrite
<1>4. CASE Person \/ Tick \/ UNCHANGED vars
  BY <1>4 DEF Person, Give, TakeBack, ListPending, Answer, Explain, Dismiss, StopAsking, others,
     Tick, callVars, vars, Moves, MayWrite
<1>5. QED
  BY <1>1, <1>2, <1>3, <1>4 DEF Next

-----------------------------------------------------------------------------
(* What the list shows is waited for. *)

\* A pending request's call polls it, or its server was killed.
WaitedOrGone ==
    \A c \in Calls : Pending(c) =>
        phase[c] = "waiting" \/ (phase[c] = "done" /\ server[Srv(c)] = "down")

\* A request that is pending was, or is inserted.
LEMMA PendingFrom ==
    ASSUME TypeInv, [Next]_vars, NEW c \in Calls, Pending(c)'
    PROVE  Pending(c) \/ Ask(c)
<1>1. approvals[c] \in Request \cup {NoRequest}
  BY DEF TypeInv, TypeOK, LedgerTypeOK
<1>2. CASE Later(approvals, approvals')
  BY <1>1, <1>2 DEF Later, Pending, Request, Decisions, NoRequest
<1>3. ASSUME NEW d \in Calls, Ask(d)
      PROVE  Pending(c) \/ Ask(c)
  BY <1>3 DEF Ask, RequestApproval, Pending, TypeInv, TypeOK, LedgerTypeOK
<1>4. QED
  BY <1>2, <1>3, ApprovalsStep

\* A call that waits no more has no request, unless its server was killed.
LEMMA WaitEnds ==
    ASSUME TypeInv, [Next]_vars, NEW c \in Calls, phase[c] = "waiting",
           phase'[c] # "waiting", Pending(c)'
    PROVE  phase'[c] = "done" /\ server'[Srv(c)] = "down"
<1> USE DEF TypeInv, TypeOK
<1>0. approvals \in ApprovalTable
  BY DEF LedgerTypeOK, ApprovalTable
<1>1. CASE \E d \in Calls : (Agent(d) \/ Handler(d)) /\ d # c
  BY <1>1 DEF Agent, Call, Cancel, Handler, Await, Ask, Poll, SeeCancel, TakePermit,
     OpenSession, Judge, Reserve, CheckRevoked, Execute, Run, Finish, Uncleared, Cleared,
     End, Goto
<1>2. CASE Poll(c)
  <2>1. Touched(approvals, c, now)[c].decision = approvals[c].decision
    BY <1>0, TouchedNoneApproved
  <2>2. Settled(approvals, c, "expired", now)[c].decision # "pending"
    BY <1>0, SettledDecision
  <2>3. QED
    BY <1>2, <2>1, <2>2 DEF Poll, Pending
<1>3. CASE SeeCancel(c)
  <2>1. Settled(approvals, c, "cancelled", now)[c].decision # "pending"
    BY <1>0, SettledDecision
  <2>2. QED
    BY <1>3, <2>1 DEF SeeCancel, Pending
<1>4. CASE (Agent(c) \/ Handler(c)) /\ ~Poll(c) /\ ~SeeCancel(c)
  BY <1>4 DEF Agent, Call, Cancel, Handler, Await, Ask, TakePermit, OpenSession, Judge,
     Reserve, CheckRevoked, Execute, Run, Finish
<1>5. ASSUME NEW s \in Servers, Process(s)
      PROVE  phase'[c] = "done" /\ server'[Srv(c)] = "down"
  <2>1. CASE Start(s)
    BY <2>1 DEF Start, callVars
  <2>2. ASSUME Gone(s)
        PROVE  phase'[c] = "done" /\ server'[Srv(c)] = "down" /\ c \in CallsOf(s)
    BY <2>2 DEF Gone, CallsOf
  <2>3. CASE Stop(s)
    BY <2>2, <2>3 DEF Stop
  <2>4. QED
    BY <1>5, <2>1, <2>2, <2>3 DEF Process, Kill
<1>6. CASE Person \/ Tick \/ UNCHANGED vars
  BY <1>6 DEF Person, Give, TakeBack, ListPending, Answer, Explain, Dismiss, StopAsking, others,
     Tick, callVars, vars
<1>7. QED
  BY <1>1, <1>2, <1>3, <1>4, <1>5, <1>6 DEF Next

LEMMA DownStays ==
    ASSUME TypeInv, [Next]_vars, NEW s \in Servers, server[s] = "down"
    PROVE  server'[s] = "down"
<1>1. CASE \E d \in Calls : Agent(d) \/ Handler(d)
  BY <1>1 DEF Agent, Call, Cancel, Handler, Await, Ask, Poll, SeeCancel, TakePermit,
     OpenSession, Judge, Reserve, CheckRevoked, Execute, Run, Finish
<1>2. CASE \E t \in Servers : Process(t)
  BY <1>2 DEF Process, Start, Stop, Kill, Gone, TypeInv, TypeOK
<1>3. CASE Person \/ Tick \/ UNCHANGED vars
  BY <1>3 DEF Person, Give, TakeBack, ListPending, Answer, Explain, Dismiss, StopAsking, others,
     Tick, vars
<1>4. QED
  BY <1>1, <1>2, <1>3 DEF Next

LEMMA WaitedStep == TypeInv /\ WaitedOrGone /\ [Next]_vars => WaitedOrGone'
<1> SUFFICES ASSUME TypeInv, WaitedOrGone, [Next]_vars, NEW c \in Calls, Pending(c)'
             PROVE  phase'[c] = "waiting" \/ (phase'[c] = "done" /\ server'[Srv(c)'] = "down")
  BY DEF WaitedOrGone
<1>1. CASE Ask(c)
  BY <1>1 DEF Ask, Goto, TypeInv, TypeOK
<1>2. CASE Pending(c) /\ phase[c] = "waiting"
  <2>1. Srv(c)' = Srv(c)
    BY <1>2, ArgsStay DEF Srv
  <2>2. QED
    BY <1>2, <2>1, WaitEnds
<1>3. CASE phase[c] = "done" /\ server[Srv(c)] = "down"
  <2>1. Srv(c)' = Srv(c)
    BY <1>3, ArgsStay DEF Srv
  <2>2. Srv(c) \in Servers
    BY <1>3, ArgsType
  <2>3. phase'[c] = "done"
    BY <1>3, CallMoves DEF Moves
  <2>4. QED
    BY <1>3, <2>1, <2>2, <2>3, DownStays
<1>4. QED
  BY <1>1, <1>2, <1>3, PendingFrom DEF WaitedOrGone

LEMMA WaitedInvariant == Spec => []WaitedOrGone
<1>1. Init => WaitedOrGone
  BY DEF Init, LedgerInit, WaitedOrGone, Pending, NoRequest
<1>2. QED
  BY <1>1, WaitedStep, TypeInvariant, PTL DEF Spec

\* For any number of servers, whatever way their calls end: the list a person looks at
\* shows no write of a running server that nobody waits for.
THEOREM ListIsWaitedFor == Spec => []PendingIsWaitedFor
<1>1. WaitedOrGone => PendingIsWaitedFor
  BY DEF WaitedOrGone, PendingIsWaitedFor
<1>2. QED
  BY <1>1, WaitedInvariant, PTL

-----------------------------------------------------------------------------
(* What a person is told of a request holds. *)

\* A request becomes approved by an answer that found it open, and says so.
LEMMA ApprovedNewly ==
    ASSUME TypeInv, [Next]_vars, NEW c \in Calls,
           approvals'[c].decision = "approved", approvals[c].decision # "approved"
    PROVE  Ask(c) \/ ( /\ CanSettle(approvals, c, "approved", now)
                       /\ told'[c] = told[c] \cup {"approved"}
                       /\ \E u \in Screens, stop \in BOOLEAN : Answer(u, c, TRUE, stop) )
<1> DEFINE Goal == Ask(c) \/ ( /\ CanSettle(approvals, c, "approved", now)
                               /\ told'[c] = told[c] \cup {"approved"}
                               /\ \E u \in Screens, stop \in BOOLEAN :
                                     Answer(u, c, TRUE, stop) )
<1>0. approvals \in ApprovalTable
  BY DEF TypeInv, TypeOK, LedgerTypeOK, ApprovalTable
<1>1. ~NoneApproved(approvals, approvals') /\ approvals' # approvals
  BY DEF NoneApproved
<1>2. ASSUME NEW d \in Calls, Agent(d) \/ Handler(d)
      PROVE  Goal
  <2>1. CASE Poll(d)
    <3>1. \/ approvals' = Settled(approvals, d, "expired", now)
          \/ approvals' = Touched(approvals, d, now)
      BY <2>1 DEF Poll
    <3>2. QED
      BY <1>0, <1>1, <3>1, SettledOtherwise, TouchedNoneApproved
  <2>2. CASE SeeCancel(d)
    <3>1. approvals' = Settled(approvals, d, "cancelled", now)
      BY <1>1, <2>2 DEF SeeCancel
    <3>2. QED
      BY <1>0, <1>1, <3>1, SettledOtherwise
  <2>3. CASE Ask(d)
    BY <2>3 DEF Ask, RequestApproval, TypeInv, TypeOK, LedgerTypeOK
  <2>4. QED
    BY <1>1, <1>2, <2>1, <2>2, <2>3 DEF Agent, Call, Cancel, Handler, Await, TakePermit,
       OpenSession, Judge, Reserve, CheckRevoked, Execute, Run, Finish, ledgerVars
<1>3. ASSUME NEW s \in Servers, Process(s)
      PROVE  Goal
  <2>1. CASE Start(s)
    BY <1>0, <1>1, <2>1, SweptNoneApproved DEF Start
  <2>2. CASE Stop(s)
    <3>1. NoneApproved(approvals, Settled(approvals, c, "cancelled", now))
      BY <1>0, SettledOtherwise
    <3>2. \/ approvals'[c] = approvals[c]
          \/ approvals'[c] = Settled(approvals, c, "cancelled", now)[c]
      BY <2>2 DEF Stop
    <3>3. QED
      BY <3>1, <3>2 DEF NoneApproved
  <2>3. QED
    BY <1>1, <1>3, <2>1, <2>2 DEF Process, Kill
<1>4. CASE Person
  <2>1. CASE ListPending
    BY <1>0, <1>1, <2>1, SweptNoneApproved DEF ListPending
  <2>2. ~\E G : Revoking(G)
    BY <1>0, <1>1, DenyRevokedNoneApproved DEF Revoking
  <2>3. ~TakeBack
    BY <2>2 DEF TakeBack, RevokeGrant, RevokeConnection, RevokeProfile, RevokeAll
  <2>4. ASSUME NEW g, NEW p, NEW k, NEW ks, NEW bypass, NEW ask, NEW ttl
        PROVE  ~Give(g, p, k, ks, bypass, ask, ttl)
    BY <2>2 DEF Give, InsertGrant
  <2>5. ASSUME NEW u \in Screens
        PROVE  ~Dismiss(u)
    <3> SUFFICES ASSUME Dismiss(u)
                 PROVE  FALSE
      OBVIOUS
    <3>1. screen[u].call \in Calls
      BY DEF Dismiss, TypeInv, TypeOK, Screen, Idle
    <3>2. \E d \in {"expired", "cancelled"} :
              approvals' = Settled(approvals, screen[u].call, d, now)
      BY DEF Dismiss
    <3>3. QED
      BY <1>0, <1>1, <3>1, <3>2, SettledOtherwise
  <2>6. ASSUME NEW u \in Screens, NEW d \in Calls, NEW approve \in BOOLEAN,
               NEW stop \in BOOLEAN, Answer(u, d, approve, stop)
        PROVE  Goal
    <3>1. approve
      <4>1. ~approve => approvals' = Settled(approvals, d, "denied", now)
        BY <2>6 DEF Answer
      <4>2. QED
        BY <1>0, <1>1, <4>1, SettledOtherwise
    <3>2. approvals' = Settled(approvals, d, "approved", now)
      BY <2>6, <3>1 DEF Answer
    <3>3. CanSettle(approvals, d, "approved", now)
      BY <1>1, <3>2 DEF Settled
    <3>4. d = c
      BY <1>0, <3>2, <3>3 DEF Settled, ApprovalTable
    <3>5. Tell(c, "approved")
      BY <2>6, <3>1, <3>3, <3>4 DEF Answer
    <3>6. told'[c] = told[c] \cup {"approved"}
      BY <3>5 DEF Tell, TypeInv, TypeOK
    <3>7. approve = TRUE
      BY <3>1
    <3>8. QED
      BY <2>6, <3>3, <3>4, <3>6, <3>7
  <2>7. ASSUME NEW u \in Screens, Explain(u) \/ StopAsking(u)
        PROVE  Goal
    BY <1>1, <2>7 DEF Explain, StopAsking, AddBypass
  <2>8. QED
    BY <1>4, <2>1, <2>3, <2>4, <2>5, <2>6, <2>7 DEF Person
<1>5. CASE Tick \/ UNCHANGED vars
  BY <1>1, <1>5 DEF Tick, ledgerVars, vars
<1>6. QED
  BY <1>2, <1>3, <1>4, <1>5 DEF Next

\* How the clearance of a call, its request and what the person was told agree.
ClearedAs ==
    \A c \in Calls :
        /\ phase[c] \in {"idle", "called", "asking", "waiting"} => clearance[c] = "none"
        /\ clearance[c] = "approved" => approvals[c].decision \in {"approved", "none"}
        /\ clearance[c] = "bypassed" =>
              approvals[c] = NoRequest /\ phase[c] \notin {"idle", "called", "asking"}
        /\ approvals[c].decision = "approved" \/ clearance[c] = "approved" =>
              "approved" \in told[c]

\* Nobody unsays what was told.
LEMMA ToldStays ==
    ASSUME TypeInv, [Next]_vars, NEW c \in Calls
    PROVE  told[c] \subseteq told'[c]
<1>1. CASE UNCHANGED told
  BY <1>1
<1>2. ASSUME NEW d, NEW answer, Tell(d, answer)
      PROVE  told[c] \subseteq told'[c]
  BY <1>2 DEF Tell, TypeInv, TypeOK
<1>3. CASE \E d \in Calls : Agent(d) \/ Handler(d)
  BY <1>1, <1>3 DEF Agent, Call, Cancel, Handler, Await, Ask, Poll, SeeCancel, TakePermit,
     OpenSession, Judge, Reserve, CheckRevoked, Execute, Run, Finish, personVars
<1>4. CASE (\E s \in Servers : Process(s)) \/ Tick \/ UNCHANGED vars
  BY <1>1, <1>4 DEF Process, Start, Stop, Kill, Gone, Tick, personVars, vars
<1>5. CASE Person
  BY <1>1, <1>2, <1>5 DEF Person, Give, TakeBack, ListPending, Answer, Explain, Dismiss,
     StopAsking, personVars
<1>6. QED
  BY <1>3, <1>4, <1>5 DEF Next

LEMMA ClearedStep == TypeInv /\ Asked /\ ClearedAs /\ [Next]_vars => ClearedAs'
<1> SUFFICES ASSUME TypeInv, Asked, ClearedAs, [Next]_vars, NEW c \in Calls
             PROVE  /\ phase'[c] \in {"idle", "called", "asking", "waiting"} =>
                          clearance'[c] = "none"
                    /\ clearance'[c] = "approved" =>
                          approvals'[c].decision \in {"approved", "none"}
                    /\ clearance'[c] = "bypassed" =>
                          /\ approvals'[c] = NoRequest
                          /\ phase'[c] \notin {"idle", "called", "asking"}
                    /\ approvals'[c].decision = "approved" \/ clearance'[c] = "approved" =>
                          "approved" \in told'[c]
  BY DEF ClearedAs
<1>0. /\ approvals[c] \in Request \cup {NoRequest}
      /\ clearance[c] \in {"none", "approved", "bypassed"} /\ phase[c] \in Phases
  BY DEF TypeInv, TypeOK, LedgerTypeOK
<1>1. Moves(c) /\ Origins(c)
  BY CallMoves, CallOrigins
<1>2. told[c] \subseteq told'[c]
  BY ToldStays
<1>3. CASE \E d \in Calls : Ask(d)
  <2>1. PICK d \in Calls : Ask(d)
    BY <1>3
  <2>2. clearance' = clearance /\ told' = told
    BY <2>1 DEF Ask, personVars
  <2>3. CASE d = c
    <3>1. phase[c] = "asking" /\ phase'[c] = "waiting"
      BY <2>1, <2>3 DEF Ask, Goto, TypeInv, TypeOK
    <3>2. clearance[c] = "none"
      BY <3>1 DEF ClearedAs
    <3>3. approvals'[c].decision # "approved"
      <4>1. approvals'[c] = draft[c]
        BY <2>1, <2>3 DEF Ask, RequestApproval, TypeInv, TypeOK, LedgerTypeOK
      <4>2. draft[c].decision = "pending"
        BY <3>1 DEF Asked
      <4>3. QED
        BY <4>1, <4>2
    <3>4. QED
      BY <2>2, <3>2, <3>3
  <2>4. CASE d # c
    BY <2>1, <2>2, <2>4 DEF Ask, RequestApproval, Goto, ClearedAs, TypeInv, TypeOK,
       LedgerTypeOK
  <2>5. QED
    BY <2>3, <2>4
<1>4. CASE Later(approvals, approvals') /\ ~\E d \in Calls : Ask(d)
  <2>1. phase'[c] \in {"idle", "called", "asking", "waiting"} => clearance'[c] = "none"
    BY <1>1 DEF Moves, Origins, ClearedAs
  <2>2. clearance'[c] = "approved" => approvals'[c].decision \in {"approved", "none"}
    BY <1>0, <1>1, <1>4 DEF Moves, Later, ClearedAs, NoRequest, Request,
       Decisions
  <2>3. clearance'[c] = "bypassed" =>
          approvals'[c] = NoRequest /\ phase'[c] \notin {"idle", "called", "asking"}
    BY <1>1, <1>4 DEF Moves, Origins, Later, ClearedAs, Asked
  <2>4. approvals'[c].decision = "approved" \/ clearance'[c] = "approved" =>
          "approved" \in told'[c]
    BY <1>1, <1>2, <1>4, ApprovedNewly DEF Moves, ClearedAs
  <2>5. QED
    BY <2>1, <2>2, <2>3, <2>4
<1>5. QED
  BY <1>3, <1>4, ApprovalsStep

\* A call that writes was cleared.
WritesCleared ==
    \A c \in Calls :
        /\ committed[c] => phase[c] \in {"applied", "done"}
        /\ phase[c] \in MayWrite \/ committed[c] => clearance[c] # "none"

LEMMA JudgedCleared ==
    ASSUME TypeInv, NEW c \in Calls, Judge(c), phase'[c] \in MayWrite
    PROVE  /\ clearance[c] # "none" /\ clearance'[c] = clearance[c]
           /\ \E g \in Covering(c) : Stands(c, g) /\ under'[c] = {g}
BY DEF Judge, End, Goto, MayWrite, TypeInv, TypeOK

LEMMA WritesClearedStep == TypeInv /\ WritesCleared /\ [Next]_vars => WritesCleared'
<1> SUFFICES ASSUME TypeInv, WritesCleared, [Next]_vars, NEW c \in Calls
             PROVE  /\ committed'[c] => phase'[c] \in {"applied", "done"}
                    /\ phase'[c] \in MayWrite \/ committed'[c] => clearance'[c] # "none"
  BY DEF WritesCleared
<1>1. Moves(c)
  BY CallMoves
<1>2. Judge(c) => phase[c] = "leased"
  BY DEF Judge
<1>3. QED
  BY <1>1, <1>2, JudgedCleared DEF Moves, WritesCleared, MayWrite

\* The request of a call that was told no, or too late, is never approved again.
Dead(c) ==
    /\ phase[c] \notin {"idle", "called", "asking"}
    /\ clearance[c] = "none"
    /\ approvals[c].decision # "approved"
    /\ Pending(c) => approvals[c].deadline <= now

LEMMA TimePasses ==
    ASSUME TypeInv, [Next]_vars
    PROVE  now \in Nat /\ now' \in Nat /\ now <= now'
<1>0. now \in Nat
  BY McpAssumption DEF TypeInv, TypeOK
<1>1. CASE Tick
  BY <1>0, <1>1 DEF Tick
<1>2. CASE \E c \in Calls : Agent(c) \/ Handler(c)
  BY <1>0, <1>2 DEF Agent, Call, Cancel, Handler, Await, Ask, Poll, SeeCancel, TakePermit,
     OpenSession, Judge, Reserve, CheckRevoked, Execute, Run, Finish
<1>3. CASE (\E s \in Servers : Process(s)) \/ Person \/ UNCHANGED vars
  <2>1. now' = now
    BY <1>3 DEF Process, Start, Stop, Kill, Gone, Person, Give, TakeBack, ListPending,
       Answer, Explain, Dismiss, StopAsking, others, vars
  <2>2. QED
    BY <1>0, <2>1
<1>4. QED
  BY <1>1, <1>2, <1>3 DEF Next

LEMMA DeadStays ==
    ASSUME TypeInv, [Next]_vars, NEW c \in Calls, Dead(c)
    PROVE  Dead(c)'
<1>0. /\ approvals[c] \in Request \cup {NoRequest} /\ phase[c] \in Phases
      /\ approvals'[c] \in Request \cup {NoRequest} /\ phase'[c] \in Phases
  BY StepType DEF TypeInv, TypeOK, LedgerTypeOK
<1>1. Moves(c) /\ Origins(c)
  BY CallMoves, CallOrigins
<1>2. phase'[c] \notin {"idle", "called", "asking"} /\ clearance'[c] = "none"
  BY <1>1 DEF Moves, Origins, Dead
<1>3. ~Ask(c)
  BY DEF Ask, Dead
<1>4. approvals'[c].decision # "approved"
  <2> SUFFICES ASSUME approvals'[c].decision = "approved"
               PROVE  FALSE
    OBVIOUS
  <2>1. CanSettle(approvals, c, "approved", now)
    BY <1>3, ApprovedNewly DEF Dead
  <2>2. Pending(c) /\ approvals[c].deadline > now /\ approvals[c] \in Request
    BY <1>0, <2>1 DEF CanSettle, Pending, NoRequest
  <2>3. approvals[c].deadline \in Nat /\ now \in Nat
    BY <2>2, TimePasses DEF Request
  <2>4. QED
    BY <2>2, <2>3 DEF Dead
<1>5. ASSUME Pending(c)'
      PROVE  approvals'[c].deadline <= now'
  <2>1. Pending(c) /\ approvals[c] \in Request
    BY <1>0, <1>3, <1>5, PendingFrom DEF Pending, NoRequest
  <2>2. approvals'[c].deadline = approvals[c].deadline
    <3>1. CASE Later(approvals, approvals')
      BY <1>5, <3>1 DEF Later, Pending, NoRequest
    <3>2. ASSUME NEW d \in Calls, Ask(d)
          PROVE  approvals'[c] = approvals[c]
      <4>1. d # c
        BY <1>3, <3>2
      <4>2. QED
        BY <3>2, <4>1 DEF Ask, RequestApproval, TypeInv, TypeOK, LedgerTypeOK
    <3>3. QED
      BY <3>1, <3>2, ApprovalsStep
  <2>3. approvals[c].deadline \in Nat
    BY <2>1 DEF Request
  <2>4. QED
    BY <2>1, <2>2, <2>3, TimePasses DEF Dead
<1>6. QED
  BY <1>2, <1>4, <1>5 DEF Dead, Pending

\* What the person was told, or will be by an answer under way, holds.
ToldTrue ==
    /\ \A c \in Calls : told[c] \cap {"denied", "timed_out"} # {} => Dead(c)
    /\ \A u \in Screens :
          /\ screen[u].at = "missed" => screen[u].since <= now
          /\ screen[u].at = "settling" /\ screen[u].late =>
                \A c \in Calls : c = screen[u].call => Dead(c)

\* The person is told no, or too late, of nothing else.
LEMMA ToldNewly ==
    ASSUME TypeInv, Asked, ClearedAs, ToldTrue, [Next]_vars, NEW c \in Calls,
           told'[c] \cap {"denied", "timed_out"} # {}
    PROVE  Dead(c)'
<1>0. /\ approvals[c] \in Request \cup {NoRequest} /\ phase[c] \in Phases
      /\ clearance[c] \in {"none", "approved", "bypassed"}
      /\ approvals \in ApprovalTable
  BY DEF TypeInv, TypeOK, LedgerTypeOK, ApprovalTable
<1>1. CASE told[c] \cap {"denied", "timed_out"} # {}
  BY <1>1, DeadStays DEF ToldTrue
<1>2. CASE told[c] \cap {"denied", "timed_out"} = {}
  <2>1. told'[c] # told[c]
    BY <1>2
  <2>a. ~UNCHANGED told
    BY <2>1
  <2>2. PICK u \in Screens :
            \/ \E approve, stop \in BOOLEAN, d \in Calls : Answer(u, d, approve, stop)
            \/ Explain(u) \/ Dismiss(u)
    BY <2>a DEF Next, Agent, Call, Cancel, Handler, Await, Ask, Poll, SeeCancel,
       TakePermit, OpenSession, Judge, Reserve, CheckRevoked, Execute, Run, Finish, Process,
       Start, Stop, Kill, Gone, Person, Give, TakeBack, ListPending, StopAsking, Tick,
       personVars, vars
  <2>3. ASSUME NEW d \in Calls, NEW answer, Tell(d, answer),
               answer \in {"denied", "timed_out"} => Dead(d) \/ Dead(d)'
        PROVE  Dead(c)'
    <3>1. d = c
      BY <2>1, <2>3 DEF Tell, TypeInv, TypeOK
    <3>2. answer \in {"denied", "timed_out"}
      BY <1>2, <2>3, <3>1 DEF Tell, TypeInv, TypeOK
    <3>3. QED
      BY <2>3, <3>1, <3>2, DeadStays
  <2>4. ASSUME NEW approve \in BOOLEAN, NEW stop \in BOOLEAN, NEW d \in Calls,
               Answer(u, d, approve, stop)
        PROVE  Dead(c)'
    <3>1. CASE approve
      <4>1. Tell(d, "approved")
        BY <2>a, <2>4, <3>1 DEF Answer
      <4>2. QED
        BY <2>3, <4>1
    <3>2. CASE ~approve
      <4>1. /\ CanSettle(approvals, d, "denied", now) /\ Tell(d, "denied")
            /\ approvals' = Settled(approvals, d, "denied", now)
            /\ UNCHANGED <<phase, clearance, now>>
        BY <2>a, <2>4, <3>2 DEF Answer, others, callVars
      <4>2. approvals'[d].decision = "denied"
        BY <1>0, <4>1, SettledDecision
      <4>3. Pending(d) /\ approvals[d] # NoRequest
        BY <4>1 DEF CanSettle, Pending, NoRequest
      <4>4. phase[d] \notin {"idle", "called", "asking"}
        BY <4>3 DEF Asked
      <4>5. clearance[d] = "none"
        <5>1. clearance[d] \in {"none", "approved", "bypassed"}
          BY DEF TypeInv, TypeOK
        <5>2. QED
          BY <4>3, <5>1 DEF ClearedAs, Pending
      <4>6. Dead(d)'
        BY <4>1, <4>2, <4>4, <4>5 DEF Dead, Pending
      <4>7. QED
        BY <2>3, <4>1, <4>6
    <3>3. QED
      BY <3>1, <3>2
  <2>5. CASE Explain(u)
    <3> DEFINE d == screen[u].call
    <3>1. d \in Calls
      BY <2>5 DEF Explain, TypeInv, TypeOK, Screen, Idle
    <3>2. PICK answer : /\ Tell(d, answer)
                        /\ answer = "timed_out" => approvals[d].decision = "expired"
                        /\ answer \in {"timed_out", "already", "nobody"}
      BY <2>a, <2>5 DEF Explain
    <3>3. ASSUME approvals[d].decision = "expired"
          PROVE  Dead(d)
      <4>1. approvals[d] # NoRequest
        BY <3>3 DEF NoRequest
      <4>2. phase[d] \notin {"idle", "called", "asking"}
        BY <3>1, <4>1 DEF Asked
      <4>3. clearance[d] \in {"none", "approved", "bypassed"}
        BY <3>1 DEF TypeInv, TypeOK
      <4>4. clearance[d] = "none"
        BY <3>1, <3>3, <4>1, <4>3 DEF ClearedAs
      <4>5. QED
        BY <3>3, <4>2, <4>4 DEF Dead, Pending
    <3>4. QED
      BY <2>3, <3>1, <3>2, <3>3
  <2>6. CASE Dismiss(u)
    <3> DEFINE d == screen[u].call
    <3>1. d \in Calls
      BY <2>6 DEF Dismiss, TypeInv, TypeOK, Screen, Idle
    <3>2. /\ screen[u].at = "settling"
          /\ Tell(d, IF screen[u].late THEN "timed_out" ELSE "nobody")
      BY <2>6 DEF Dismiss
    <3>3. CASE screen[u].late
      BY <2>3, <3>1, <3>2, <3>3 DEF ToldTrue
    <3>4. CASE ~screen[u].late
      BY <2>3, <3>1, <3>2, <3>4
    <3>5. QED
      BY <3>3, <3>4
  <2>7. QED
    BY <2>2, <2>4, <2>5, <2>6
<1>3. QED
  BY <1>1, <1>2

\* What an answer under way is about to say stays true while it is under way.
LEMMA ScreenTrue ==
    ASSUME TypeInv, Asked, ClearedAs, ToldTrue, [Next]_vars, NEW u \in Screens
    PROVE  /\ screen'[u].at = "missed" => screen'[u].since <= now'
           /\ screen'[u].at = "settling" /\ screen'[u].late =>
                 \A c \in Calls : c = screen'[u].call => Dead(c)'
<1> DEFINE Goal == /\ screen'[u].at = "missed" => screen'[u].since <= now'
                   /\ screen'[u].at = "settling" /\ screen'[u].late =>
                         \A c \in Calls : c = screen'[u].call => Dead(c)'
<1>0. now \in Nat /\ now' \in Nat /\ now <= now'
  BY TimePasses
<1>1. CASE screen'[u] = screen[u]
  <2>1. ASSUME screen[u].at = "missed"
        PROVE  screen[u].since <= now'
    <3>1. screen[u].since \in Nat /\ screen[u].since <= now
      BY <2>1 DEF ToldTrue, TypeInv, TypeOK, Screen, Idle
    <3>2. QED
      BY <1>0, <3>1
  <2>2. ASSUME screen[u].at = "settling", screen[u].late, NEW c \in Calls, c = screen[u].call
        PROVE  Dead(c)'
    <3>1. Dead(c)
      BY <2>2 DEF ToldTrue
    <3>2. QED
      BY <3>1, DeadStays
  <2>3. QED
    BY <1>1, <2>1, <2>2
<1>2. CASE screen'[u] # screen[u]
  <2>0. ~UNCHANGED screen
    BY <1>2
  <2>1. ASSUME NEW v \in Screens, NEW what, Show(v, what),
               what.at = "missed" => what.since <= now',
               what.at = "settling" /\ what.late =>
                   \A c \in Calls : c = what.call => Dead(c)'
        PROVE  Goal
    <3>1. screen' = [screen EXCEPT ![v] = what] /\ screen \in [Screens -> Screen]
      BY <2>1 DEF Show, TypeInv, TypeOK
    <3>2. screen'[u] = what
      BY <1>2, <3>1
    <3>3. QED
      BY <2>1, <3>2
  <2>2. PICK v \in Screens :
            \/ \E approve, stop \in BOOLEAN, d \in Calls : Answer(v, d, approve, stop)
            \/ Explain(v) \/ Dismiss(v) \/ StopAsking(v)
    BY <2>0 DEF Next, Agent, Call, Cancel, Handler, Await, Ask, Poll, SeeCancel,
       TakePermit, OpenSession, Judge, Reserve, CheckRevoked, Execute, Run, Finish, Process,
       Start, Stop, Kill, Gone, Person, Give, TakeBack, ListPending, Tick, personVars, vars
  <2>3. Show(v, Idle) => Goal
    BY <2>1 DEF Idle
  <2>4. CASE \E approve, stop \in BOOLEAN, d \in Calls : Answer(v, d, approve, stop)
    <3>1. PICK approve \in BOOLEAN, stop \in BOOLEAN, d \in Calls :
              Answer(v, d, approve, stop)
      BY <2>4
    <3>2. \/ \E g, asked : Show(v, [at |-> "stop_asking", grant |-> g, asked |-> asked])
          \/ Show(v, Idle)
          \/ Show(v, [at |-> "missed", call |-> d, since |-> now])
      BY <3>1 DEF Answer
    <3>3. ASSUME NEW g, NEW asked,
                 Show(v, [at |-> "stop_asking", grant |-> g, asked |-> asked])
          PROVE  Goal
      BY <2>1, <3>3
    <3>4. Show(v, [at |-> "missed", call |-> d, since |-> now]) => Goal
      BY <1>0, <2>1
    <3>5. QED
      BY <2>3, <3>2, <3>3, <3>4
  <2>5. CASE Explain(v)
    <3>1. /\ screen[v].call \in Calls /\ screen[v].since \in Nat /\ screen[v].since <= now
      BY <2>5 DEF Explain, ToldTrue, TypeInv, TypeOK, Screen, Idle
    <3>2. PICK d \in Calls : d = screen[v].call
      BY <3>1
    <3>3. CASE Pending(d)
      <4>1. PICK late : /\ late => approvals[d].deadline <= screen[v].since
                        /\ Show(v, [at |-> "settling", call |-> d, late |-> late])
        BY <2>5, <3>2, <3>3 DEF Explain, Pending
      <4>2. ASSUME late
            PROVE  Dead(d)'
        <5>1. approvals[d] \in Request
          BY <3>3 DEF Pending, NoRequest, TypeInv, TypeOK, LedgerTypeOK
        <5>2. approvals[d].deadline <= now
          BY <1>0, <3>1, <4>1, <4>2, <5>1 DEF Request
        <5>3. phase[d] \notin {"idle", "called", "asking"}
          BY <3>3 DEF Asked, Pending, NoRequest
        <5>4. clearance[d] \in {"none", "approved", "bypassed"}
          BY DEF TypeInv, TypeOK
        <5>5. clearance[d] = "none"
          BY <3>3, <5>4 DEF ClearedAs, Pending, NoRequest
        <5>6. Dead(d)
          BY <3>3, <5>2, <5>3, <5>5 DEF Dead, Pending
        <5>7. QED
          BY <5>6, DeadStays
      <4>3. QED
        BY <2>1, <4>1, <4>2
    <3>4. CASE ~Pending(d)
      BY <2>3, <2>5, <3>2, <3>4 DEF Explain, Pending
    <3>5. QED
      BY <3>3, <3>4
  <2>6. CASE Dismiss(v) \/ StopAsking(v)
    BY <2>3, <2>6 DEF Dismiss, StopAsking
  <2>7. QED
    BY <2>2, <2>4, <2>5, <2>6
<1>3. QED
  BY <1>1, <1>2

ToldInv == AskedInv /\ ClearedAs /\ WritesCleared /\ ToldTrue

LEMMA ToldStep == TypeInv /\ ToldInv /\ [Next]_vars => ToldInv'
<1> SUFFICES ASSUME TypeInv, ToldInv, [Next]_vars
             PROVE  ToldInv'
  OBVIOUS
<1>1. AskedInv' /\ ClearedAs' /\ WritesCleared'
  BY AskedStep, ClearedStep, WritesClearedStep DEF ToldInv, AskedInv
<1>2. \A c \in Calls : told'[c] \cap {"denied", "timed_out"} # {} => Dead(c)'
  BY ToldNewly DEF ToldInv, AskedInv
<1>3. \A u \in Screens :
          /\ screen'[u].at = "missed" => screen'[u].since <= now'
          /\ screen'[u].at = "settling" /\ screen'[u].late =>
                \A c \in Calls : c = screen'[u].call => Dead(c)'
  BY ScreenTrue DEF ToldInv, AskedInv
<1>4. ToldTrue'
  BY <1>2, <1>3 DEF ToldTrue
<1>5. QED
  BY <1>1, <1>4 DEF ToldInv

LEMMA ToldInvariant == Spec => []ToldInv
<1>1. Init => AskedInv
  BY DEF Init, LedgerInit, AskedInv, Asked, ApprovedUnder
<1>2. Init => ClearedAs /\ WritesCleared
  BY DEF Init, LedgerInit, ClearedAs, WritesCleared, MayWrite, NoRequest
<1>3. Init => ToldTrue
  BY DEF Init, ToldTrue, Idle
<1>4. Init => ToldInv
  BY <1>1, <1>2, <1>3 DEF ToldInv
<1>5. QED
  BY <1>4, ToldStep, TypeInvariant, PTL DEF Spec

\* For any number of answers, screens and seconds: a write a person was told was denied or
\* too late is never made.
THEOREM SaidSo == Spec => []NothingRunsOnceSaidSo
<1>1. ToldInv => NothingRunsOnceSaidSo
  BY DEF ToldInv, ToldTrue, WritesCleared, Dead, NothingRunsOnceSaidSo
<1>2. QED
  BY <1>1, ToldInvariant, PTL

-----------------------------------------------------------------------------
(* What is written was cleared. *)

\* An access lets through operations of its own kinds only.
OwnKinds ==
    \A g \in Grants : grants[g] # NoGrant =>
        \A o \in grants[g].bypass : KindOf[o] \in grants[g].kinds

\* No access is deleted, none is of anything else than it was, none loses what runs under it
\* without asking; and it is given once and taken back once.
AccessKept(g) ==
    /\ grants[g] # NoGrant =>
          /\ grants'[g] # NoGrant /\ grants[g].bypass \subseteq grants'[g].bypass
          /\ grants'[g].profile = grants[g].profile /\ grants'[g].conn = grants[g].conn
          /\ grants'[g].kinds = grants[g].kinds
    /\ grants'[g] # NoGrant => \A o \in grants'[g].bypass : KindOf[o] \in grants'[g].kinds
    /\ \/ grants'[g].status = grants[g].status
       \/ grants[g] = NoGrant /\ grants'[g].status = "live"
       \/ grants[g].status = "live" /\ grants'[g].status = "revoked"

LEMMA GrantsStep ==
    ASSUME TypeInv, OwnKinds, [Next]_vars, NEW g \in Grants
    PROVE  AccessKept(g)
<1> USE DEF TypeInv, TypeOK
<1>0. grants \in GrantTable
  BY DEF LedgerTypeOK, GrantTable
<1>1. CASE UNCHANGED grants
  BY <1>1 DEF OwnKinds, AccessKept
<1>2. ASSUME NEW S \in SUBSET Live
      PROVE  /\ Revoked(S)[g] = NoGrant <=> grants[g] = NoGrant
             /\ grants[g] # NoGrant => /\ Revoked(S)[g].bypass = grants[g].bypass
                                       /\ Revoked(S)[g].kinds = grants[g].kinds
                                       /\ Revoked(S)[g].profile = grants[g].profile
                                       /\ Revoked(S)[g].conn = grants[g].conn
             /\ \/ Revoked(S)[g].status = grants[g].status
                \/ grants[g].status = "live" /\ Revoked(S)[g].status = "revoked"
  <2>1. CASE g \in S
    <3>1. grants[g] \in GrantRow
      BY <1>0, <1>2, <2>1 DEF GrantTable, Live, NoGrant
    <3>2. /\ [grants[g] EXCEPT !.status = "revoked"].bypass = grants[g].bypass
          /\ [grants[g] EXCEPT !.status = "revoked"].kinds = grants[g].kinds
          /\ [grants[g] EXCEPT !.status = "revoked"].profile = grants[g].profile
          /\ [grants[g] EXCEPT !.status = "revoked"].conn = grants[g].conn
          /\ [grants[g] EXCEPT !.status = "revoked"].status = "revoked"
          /\ grants[g].status = "live"
          /\ [grants[g] EXCEPT !.status = "revoked"] \in GrantRow
      BY <1>2, <2>1, <3>1 DEF GrantRow, Live
    <3>3. NoGrant \notin GrantRow
      BY DEF NoGrant, GrantRow
    <3>4. QED
      BY <2>1, <3>1, <3>2, <3>3 DEF Revoked
  <2>2. CASE g \notin S
    BY <2>2 DEF Revoked
  <2>3. QED
    BY <2>1, <2>2
<1>3. CASE TakeBack
  <2>1. \E S \in SUBSET Live : grants' = Revoked(S)
    <3>1. \A p, k : LiveOn(p, k) \in SUBSET Live
      BY DEF LiveOn
    <3>2. \A p : {h \in Live : grants[h].profile = p} \in SUBSET Live
      OBVIOUS
    <3>3. QED
      BY <1>3, <3>1, <3>2 DEF TakeBack, RevokeGrant, RevokeConnection, RevokeProfile,
         RevokeAll, Revoking
  <2>2. QED
    BY <1>2, <2>1 DEF OwnKinds, AccessKept
<1>4. ASSUME NEW h \in Grants, NEW r \in GrantRow, NEW bypass \in SUBSET Operations,
             r.status = "live", InsertGrant(h, WithBypass(r, bypass))
      PROVE  AccessKept(g)
  <2> DEFINE row == WithBypass(r, bypass)
             S == LiveOn(row.profile, row.conn)
  <2>1. /\ row \in GrantRow /\ \A o \in row.bypass : KindOf[o] \in row.kinds
        /\ row.status = "live"
    BY <1>4, WithBypassType DEF WithBypass, GrantRow
  <2> HIDE DEF row
  <2>2. grants[h] = NoGrant /\ grants' = [Revoked(S) EXCEPT ![h] = row]
    BY <1>4 DEF InsertGrant, Revoking, row
  <2>3. S \in SUBSET Live
    BY DEF LiveOn
  <2>4. Revoked(S) \in GrantTable
    BY <1>0, <2>3, RevokedType
  <2>5. CASE g = h
    BY <2>1, <2>2, <2>4, <2>5 DEF GrantTable, AccessKept
  <2>6. CASE g # h
    <3>1. grants'[g] = Revoked(S)[g]
      BY <2>2, <2>4, <2>6 DEF GrantTable
    <3>2. QED
      BY <1>2, <2>3, <3>1 DEF OwnKinds, AccessKept
  <2>7. QED
    BY <2>5, <2>6
<1>5. ASSUME NEW p \in Profiles, NEW k \in Conns, NEW h \in Grants,
             NEW ks \in SUBSET Kinds, NEW bypass \in SUBSET Operations, NEW ask \in Asks,
             NEW ttl \in Ttls, Give(h, p, k, ks, bypass, ask, ttl)
      PROVE  AccessKept(g)
  <2>1. [status |-> "live", profile |-> p, conn |-> k, kinds |-> ks,
         expires |-> now + ttl, ask |-> ask, bypass |-> {}] \in GrantRow
    BY McpAssumption DEF GrantRow
  <2>2. QED
    BY <1>4, <1>5, <2>1 DEF Give
<1>6. ASSUME NEW u \in Screens, StopAsking(u)
      PROVE  AccessKept(g)
  <2> DEFINE h == screen[u].grant
             asked == screen[u].asked
             row == WithBypass(grants[h], grants[h].bypass \cup asked)
  <2>1. CASE h \in Live
    <3>0. grants' = [grants EXCEPT ![h] = row]
      BY <1>6, <2>1 DEF StopAsking, AddBypass
    <3>1. /\ grants[h] \in GrantRow /\ asked \in SUBSET Operations
          /\ grants[h] # NoGrant /\ h \in Grants
      BY <1>0, <1>6, <2>1 DEF StopAsking, Screen, Idle, Live, GrantTable, NoGrant
    <3>2. grants[h].bypass \cup asked \in SUBSET Operations
      BY <3>1 DEF GrantRow
    <3>3. row \in GrantRow
      BY <3>1, <3>2, WithBypassType
    <3>4. row.bypass = {o \in grants[h].bypass \cup asked : KindOf[o] \in grants[h].kinds}
      BY <3>1 DEF WithBypass, GrantRow
    <3>5. /\ row.kinds = grants[h].kinds /\ row.status = grants[h].status
          /\ row.profile = grants[h].profile /\ row.conn = grants[h].conn
      BY <3>1 DEF WithBypass, GrantRow
    <3>6. row # NoGrant
      BY <3>3 DEF GrantRow, NoGrant
    <3> HIDE DEF row
    <3>7. grants[h].bypass \subseteq row.bypass
      BY <3>1, <3>4 DEF OwnKinds
    <3>8. \A o \in row.bypass : KindOf[o] \in row.kinds
      BY <3>4, <3>5
    <3>9. CASE g = h
      BY <1>0, <3>0, <3>1, <3>5, <3>6, <3>7, <3>8, <3>9 DEF GrantTable, AccessKept
    <3>10. CASE g # h
      <4>1. grants'[g] = grants[g]
        BY <1>0, <3>0, <3>1, <3>10 DEF GrantTable
      <4>2. QED
        BY <4>1 DEF OwnKinds, AccessKept
    <3>11. QED
      BY <3>9, <3>10
  <2>2. CASE h \notin Live
    BY <1>1, <1>6, <2>2 DEF StopAsking, AddBypass
  <2>3. QED
    BY <2>1, <2>2
<1>7. CASE \E d \in Calls : Agent(d) \/ Handler(d)
  BY <1>1, <1>7 DEF Agent, Call, Cancel, Handler, Await, Ask, RequestApproval, Poll,
     SeeCancel, TakePermit, OpenSession, Judge, Reserve, CheckRevoked, Execute, Run, Finish,
     ledgerVars
<1>8. CASE (\E s \in Servers : Process(s)) \/ Tick \/ UNCHANGED vars
  BY <1>1, <1>8 DEF Process, Start, Stop, Kill, Gone, Tick, ledgerVars, vars
<1>9. CASE Person
  BY <1>1, <1>3, <1>5, <1>6, <1>9 DEF Person, ListPending, Answer, Explain, Dismiss
<1>10. QED
  BY <1>7, <1>8, <1>9 DEF Next

\* A call that may write, or wrote, does so under one access: the one its approval was
\* given under, or one that lets its operations run without asking.
RanUnder ==
    \A c \in Calls : phase[c] \in MayWrite \/ committed[c] =>
        \E g \in Grants :
            /\ under[c] = {g} /\ grants[g] # NoGrant
            /\ \/ clearance[c] = "approved" /\ draft[c].grant = g
               \/ clearance[c] = "bypassed" /\ Bypasses(g, Write(c))

LEMMA RanStep ==
    TypeInv /\ Asked /\ WritesCleared /\ OwnKinds /\ RanUnder /\ [Next]_vars => RanUnder'
<1> SUFFICES ASSUME TypeInv, Asked, WritesCleared, OwnKinds, RanUnder, [Next]_vars,
                    NEW c \in Calls, phase'[c] \in MayWrite \/ committed'[c]
             PROVE  \E g \in Grants :
                        /\ under'[c] = {g} /\ grants'[g] # NoGrant
                        /\ \/ clearance'[c] = "approved" /\ draft'[c].grant = g
                           \/ clearance'[c] = "bypassed" /\ Bypasses(g, Write(c))'
  BY DEF RanUnder
<1>1. Moves(c) /\ Origins(c)
  BY CallMoves, CallOrigins
<1>2. CASE phase[c] \in MayWrite \/ committed[c]
  <2>1. phase[c] \in MayWrite \cup {"applied", "done"}
    BY <1>2 DEF WritesCleared
  <2>2. /\ under'[c] = under[c] /\ draft'[c] = draft[c] /\ clearance'[c] = clearance[c]
        /\ args'[c] = args[c]
    BY <1>1, <2>1, ArgsStay DEF Moves, Origins, MayWrite
  <2>3. PICK g \in Grants : /\ under[c] = {g} /\ grants[g] # NoGrant
                            /\ \/ clearance[c] = "approved" /\ draft[c].grant = g
                               \/ clearance[c] = "bypassed" /\ Bypasses(g, Write(c))
    BY <1>2 DEF RanUnder
  <2>4. grants'[g] # NoGrant /\ grants[g].bypass \subseteq grants'[g].bypass
    BY <2>3, GrantsStep DEF AccessKept
  <2>5. Bypasses(g, Write(c)) => Bypasses(g, Write(c))'
    BY <2>2, <2>4 DEF Bypasses, Write
  <2>6. QED
    BY <2>2, <2>3, <2>4, <2>5
<1>3. CASE ~(phase[c] \in MayWrite \/ committed[c])
  <2>1. Judge(c) /\ phase'[c] \in MayWrite
    BY <1>1, <1>3 DEF Moves, MayWrite
  <2>2. PICK g \in Covering(c) : Stands(c, g) /\ under'[c] = {g}
    BY <2>1, JudgedCleared
  <2>3. g \in Grants /\ grants[g] # NoGrant
    BY <2>2 DEF Covering, ActiveGrants, Live, NoGrant
  <2>4. UNCHANGED <<grants, draft, args, clearance>>
    BY <2>1 DEF Judge, ledgerVars
  <2>5. clearance[c] \in {"approved", "bypassed"}
    BY <2>1, JudgedCleared DEF TypeInv, TypeOK
  <2>6. CASE clearance[c] = "approved"
    <3>1. approvals[c].decision = "approved" /\ approvals[c].grant = g
      BY <2>2, <2>6, Zenon DEF Stands
    <3>2. draft[c].grant = g
      BY <3>1 DEF Asked, NoRequest
    <3>3. QED
      BY <2>2, <2>3, <2>4, <2>6, <3>2
  <2>7. CASE clearance[c] = "bypassed"
    <3>1. Bypasses(g, Write(c))
      BY <2>2, <2>7 DEF Stands
    <3>2. Bypasses(g, Write(c))'
      BY <2>4, <3>1 DEF Bypasses, Write
    <3>3. QED
      BY <2>2, <2>3, <2>4, <2>7, <3>2
  <2>8. QED
    BY <2>5, <2>6, <2>7
<1>4. QED
  BY <1>2, <1>3

LEMMA RanInvariant == Spec => [](OwnKinds /\ RanUnder)
<1>1. Init => OwnKinds /\ RanUnder
  BY DEF Init, LedgerInit, OwnKinds, RanUnder, MayWrite
<1>2. TypeInv /\ OwnKinds /\ [Next]_vars => OwnKinds'
  <2> SUFFICES ASSUME TypeInv, OwnKinds, [Next]_vars, NEW g \in Grants, grants'[g] # NoGrant
               PROVE  \A o \in grants'[g].bypass : KindOf[o] \in grants'[g].kinds
    BY DEF OwnKinds
  <2>1. QED
    BY GrantsStep DEF AccessKept
<1>3. TypeInv /\ ToldInv /\ OwnKinds /\ RanUnder /\ [Next]_vars => RanUnder'
  BY RanStep DEF ToldInv, AskedInv
<1>4. QED
  BY <1>1, <1>2, <1>3, TypeInvariant, ToldInvariant, PTL DEF Spec

\* For any number of calls, accesses and servers: no write is in the database that a person
\* did not approve, under the access it ran under, or whose operations do not run there
\* without asking.
THEOREM WrittenWasCleared == Spec => []CommittedWasCleared
<1>1. ToldInv /\ RanUnder => CommittedWasCleared
  <2> SUFFICES ASSUME ToldInv, RanUnder, NEW c \in Calls, committed[c]
               PROVE  \E g \in under[c] :
                         \/ /\ clearance[c] = "approved" /\ "approved" \in told[c]
                            /\ draft[c].grant = g
                         \/ clearance[c] = "bypassed" /\ Bypasses(g, Write(c))
    BY DEF CommittedWasCleared
  <2>1. PICK g \in Grants : /\ under[c] = {g}
                            /\ \/ clearance[c] = "approved" /\ draft[c].grant = g
                               \/ clearance[c] = "bypassed" /\ Bypasses(g, Write(c))
    BY DEF RanUnder
  <2>2. clearance[c] = "approved" => "approved" \in told[c]
    BY DEF ToldInv, ClearedAs
  <2>3. QED
    BY <2>1, <2>2
<1>2. QED
  BY <1>1, RanInvariant, ToldInvariant, PTL

-----------------------------------------------------------------------------
(* Permits and sessions. *)

Holders(s) == {c \in CallsOf(s) : phase[c] \in HasPermit}

Slots ==
    \A s \in Servers :
        /\ IsFiniteSet(Holders(s))
        /\ permits[s] + Cardinality(Holders(s)) = Permits
        /\ \A k \in Conns, c \in Calls :
              session[s][k] = c <=> c \in CallsOf(s) /\ Conn(c) = k /\ phase[c] \in HasSession

\* What a step of call c does to the permits ...
PermitMoves(c) ==
    \/ /\ permits' = permits
       /\ phase'[c] \in HasPermit <=> phase[c] \in HasPermit
    \/ /\ phase[c] \notin HasPermit /\ phase'[c] \in HasPermit
       /\ permits' = [permits EXCEPT ![Srv(c)] = @ - 1]
    \/ /\ phase[c] \in HasPermit /\ phase'[c] \notin HasPermit
       /\ permits' = [permits EXCEPT ![Srv(c)] = @ + 1]

\* ... and to the sessions.
SessionMoves(c) ==
    \/ /\ session' = session
       /\ phase'[c] \in HasSession <=> phase[c] \in HasSession
    \/ /\ phase[c] \notin HasSession /\ phase'[c] \in HasSession
       /\ session[Srv(c)][Conn(c)] = Free
       /\ session' = [session EXCEPT ![Srv(c)][Conn(c)] = c]
    \/ /\ phase[c] \in HasSession /\ phase'[c] \notin HasSession
       /\ session' = [session EXCEPT ![Srv(c)][Conn(c)] = Free]

LEMMA SlotMoves ==
    ASSUME TypeInv, NEW c \in Calls, Agent(c) \/ Handler(c)
    PROVE  /\ PermitMoves(c) /\ SessionMoves(c)
           /\ \A d \in Calls : d # c => phase'[d] = phase[d] /\ args'[d] = args[d]
<1> USE DEF TypeInv, TypeOK, PermitMoves, SessionMoves, HasPermit, HasSession
<1>1. CASE Agent(c)
  BY <1>1 DEF Agent, Call, Cancel, Goto, slotVars
<1>2. CASE Await(c) \/ Ask(c)
  BY <1>2 DEF Await, Ask, Uncleared, Cleared, End, Goto, slotVars
<1>3. CASE Poll(c) \/ SeeCancel(c)
  BY <1>3 DEF Poll, SeeCancel, Cleared, End, Goto
<1>4. CASE TakePermit(c) \/ OpenSession(c)
  BY <1>4 DEF TakePermit, OpenSession, End, Goto
<1>5. CASE Judge(c)
  BY <1>5 DEF Judge, End, Goto, slotVars
<1>6. CASE Reserve(c) \/ CheckRevoked(c)
  BY <1>6 DEF Reserve, CheckRevoked, End, Goto, slotVars
<1>7. CASE Execute(c) \/ Run(c) \/ Finish(c)
  BY <1>7 DEF Execute, Run, Finish, End, Goto, slotVars
<1>8. QED
  BY <1>1, <1>2, <1>3, <1>4, <1>5, <1>6, <1>7 DEF Handler

\* A call's step moves no other call among the holders, nor to another server.
LEMMA PermitsStep ==
    ASSUME TypeInv, Slots, [Next]_vars, NEW c \in Calls, Agent(c) \/ Handler(c),
           NEW s \in Servers
    PROVE  /\ IsFiniteSet(Holders(s)')
           /\ permits'[s] + Cardinality(Holders(s)') = Permits
<1>1. /\ PermitMoves(c)
      /\ \A d \in Calls : d # c => phase'[d] = phase[d] /\ args'[d] = args[d]
  BY SlotMoves
<1>2. permits \in [Servers -> Nat] /\ IsFiniteSet(Holders(s))
      /\ permits[s] + Cardinality(Holders(s)) = Permits
  BY DEF Slots, TypeInv, TypeOK
<1>3. Cardinality(Holders(s)) \in Nat
  BY <1>2, FS_CardinalityType
<1>4. \A d \in Calls : d # c => (d \in Holders(s)' <=> d \in Holders(s))
  BY <1>1 DEF Holders, CallsOf, Srv
<1>5. phase[c] \in HasPermit \/ phase'[c] \in HasPermit =>
          /\ Srv(c)' = Srv(c) /\ Srv(c) \in Servers
          /\ phase[c] # "idle"
  BY ArgsStay, ArgsType DEF HasPermit, Srv
<1>6. Holders(s) \subseteq Calls /\ Holders(s)' \subseteq Calls
  BY DEF Holders, CallsOf
<1>7. CASE permits'[s] = permits[s] /\ (c \in Holders(s)' <=> c \in Holders(s))
  <2>1. Holders(s)' = Holders(s)
    BY <1>4, <1>6, <1>7
  <2>2. QED
    BY <1>2, <1>7, <2>1
<1>8. CASE c \notin Holders(s) /\ c \in Holders(s)' /\ permits'[s] = permits[s] - 1
  <2>1. Holders(s)' = Holders(s) \cup {c}
    BY <1>4, <1>6, <1>8
  <2>2. /\ IsFiniteSet(Holders(s)')
        /\ Cardinality(Holders(s)') = Cardinality(Holders(s)) + 1
    BY <1>2, <1>8, <2>1, FS_AddElement
  <2>3. QED
    BY <1>2, <1>3, <1>8, <2>2, McpAssumption
<1>9. CASE c \in Holders(s) /\ c \notin Holders(s)' /\ permits'[s] = permits[s] + 1
  <2>1. Holders(s)' = Holders(s) \ {c}
    BY <1>4, <1>6, <1>9
  <2>2. /\ IsFiniteSet(Holders(s)')
        /\ Cardinality(Holders(s)') = Cardinality(Holders(s)) - 1
    BY <1>2, <1>9, <2>1, FS_RemoveElement
  <2>3. QED
    BY <1>2, <1>3, <1>9, <2>2, McpAssumption
<1>10. c \in Holders(s) <=> phase[c] \in HasPermit /\ Srv(c) = s
  BY DEF Holders, CallsOf, HasPermit
<1>11. c \in Holders(s)' <=> phase'[c] \in HasPermit /\ Srv(c)' = s
  BY DEF Holders, CallsOf, HasPermit
<1>12. QED
  BY <1>1, <1>2, <1>5, <1>7, <1>8, <1>9, <1>10, <1>11 DEF PermitMoves

LEMMA SessionsStep ==
    ASSUME TypeInv, Slots, [Next]_vars, NEW c \in Calls, Agent(c) \/ Handler(c),
           NEW s \in Servers, NEW k \in Conns, NEW d \in Calls
    PROVE  session'[s][k] = d <=>
               d \in CallsOf(s)' /\ Conn(d)' = k /\ phase'[d] \in HasSession
<1>1. /\ SessionMoves(c)
      /\ d # c => phase'[d] = phase[d] /\ args'[d] = args[d]
  BY SlotMoves
<1>2. session \in [Servers -> [Conns -> Calls \cup {Free}]]
  BY DEF TypeInv, TypeOK
<1>3. \A e \in Calls :
          session[s][k] = e <=> e \in CallsOf(s) /\ Conn(e) = k /\ phase[e] \in HasSession
  BY DEF Slots
<1>4. \A e \in {c, d} : phase[e] \in HasSession \/ phase'[e] \in HasSession =>
          /\ phase[e] # "idle" /\ Srv(e) \in Servers /\ Conn(e) \in Conns
          /\ Srv(e)' = Srv(e) /\ Conn(e)' = Conn(e)
  BY ArgsStay, ArgsType DEF HasSession, Srv, Conn, Write
<1>5. \A e \in Calls : e \in CallsOf(s) /\ phase[e] \in HasSession <=>
                           phase[e] \in HasSession /\ Srv(e) = s
  BY DEF CallsOf, HasSession
<1>6. \A e \in Calls : e \in CallsOf(s)' /\ phase'[e] \in HasSession <=>
                           phase'[e] \in HasSession /\ Srv(e)' = s
  BY DEF CallsOf, HasSession
<1>7. CASE session' = session /\ (phase'[c] \in HasSession <=> phase[c] \in HasSession)
  BY <1>1, <1>3, <1>4, <1>5, <1>6, <1>7
<1>8. CASE /\ phase[c] \notin HasSession /\ phase'[c] \in HasSession
           /\ session[Srv(c)][Conn(c)] = Free
           /\ session' = [session EXCEPT ![Srv(c)][Conn(c)] = c]
  <2>1. CASE s = Srv(c) /\ k = Conn(c)
    <3>1. session'[s][k] = c
      BY <1>2, <1>8, <2>1
    <3>2. \A e \in Calls : ~(phase[e] \in HasSession /\ Srv(e) = s /\ Conn(e) = k)
      BY <1>3, <1>5, <1>8, <2>1, FreeAssumption
    <3>3. QED
      BY <1>1, <1>4, <1>6, <1>8, <2>1, <3>1, <3>2
  <2>2. CASE ~(s = Srv(c) /\ k = Conn(c))
    <3>1. session'[s][k] = session[s][k]
      BY <1>2, <1>8, <2>2
    <3>2. QED
      BY <1>1, <1>3, <1>4, <1>5, <1>6, <1>8, <2>2, <3>1
  <2>3. QED
    BY <2>1, <2>2
<1>9. CASE /\ phase[c] \in HasSession /\ phase'[c] \notin HasSession
           /\ session' = [session EXCEPT ![Srv(c)][Conn(c)] = Free]
  <2>1. CASE s = Srv(c) /\ k = Conn(c)
    <3>1. session'[s][k] = Free
      BY <1>2, <1>4, <1>9, <2>1
    <3>2. session[s][k] = c
      BY <1>3, <1>5, <1>9, <2>1
    <3>3. \A e \in Calls : phase[e] \in HasSession /\ Srv(e) = s /\ Conn(e) = k => e = c
      BY <1>3, <1>5, <3>2
    <3>4. QED
      BY <1>1, <1>4, <1>6, <1>9, <2>1, <3>1, <3>3, FreeAssumption
  <2>2. CASE ~(s = Srv(c) /\ k = Conn(c))
    <3>1. session'[s][k] = session[s][k]
      BY <1>2, <1>4, <1>9, <2>2
    <3>2. QED
      BY <1>1, <1>3, <1>4, <1>5, <1>6, <1>9, <2>2, <3>1
  <2>3. QED
    BY <2>1, <2>2
<1>10. QED
  BY <1>1, <1>7, <1>8, <1>9 DEF SessionMoves

\* A server that is gone holds nothing; the others hold what they held.
LEMMA GoneSlots ==
    ASSUME TypeInv, Slots, NEW t \in Servers, Gone(t)
    PROVE  Slots'
<1> SUFFICES ASSUME NEW s \in Servers
             PROVE  /\ IsFiniteSet(Holders(s)')
                    /\ permits'[s] + Cardinality(Holders(s)') = Permits
                    /\ \A k \in Conns, c \in Calls :
                          session'[s][k] = c <=>
                              c \in CallsOf(s)' /\ Conn(c)' = k /\ phase'[c] \in HasSession
  BY DEF Slots
<1>1. /\ args' = args
      /\ phase' = [c \in Calls |-> IF c \in CallsOf(t) THEN "done" ELSE phase[c]]
      /\ permits' = [permits EXCEPT ![t] = Permits]
      /\ session' = [session EXCEPT ![t] = [k \in Conns |-> Free]]
  BY DEF Gone
<1>2. permits \in [Servers -> Nat] /\ session \in [Servers -> [Conns -> Calls \cup {Free}]]
  BY DEF TypeInv, TypeOK
<1>3. CASE s = t
  <2>1. CallsOf(s)' = {}
    BY <1>1, <1>3 DEF CallsOf, Srv
  <2>2. Holders(s)' = {}
    BY <2>1 DEF Holders
  <2>3. permits'[s] = Permits /\ \A k \in Conns : session'[s][k] = Free
    BY <1>1, <1>2, <1>3
  <2>4. QED
    BY <2>1, <2>2, <2>3, FS_EmptySet, FreeAssumption, McpAssumption
<1>4. CASE s # t
  <2>1. \A c \in Calls : c \in CallsOf(s)' <=> c \in CallsOf(s)
    BY <1>1, <1>4 DEF CallsOf, Srv
  <2>2. \A c \in CallsOf(s) : phase'[c] = phase[c]
    BY <1>1, <1>4 DEF CallsOf
  <2>3. Holders(s)' = Holders(s)
    BY <2>1, <2>2 DEF Holders, CallsOf
  <2>4. permits'[s] = permits[s] /\ session'[s] = session[s]
    BY <1>1, <1>2, <1>4
  <2>5. \A c \in Calls : Conn(c)' = Conn(c)
    BY <1>1 DEF Conn, Write
  <2>6. QED
    BY <2>1, <2>2, <2>3, <2>4, <2>5 DEF Slots
<1>5. QED
  BY <1>3, <1>4

LEMMA SlotsStep == TypeInv /\ Slots /\ [Next]_vars => Slots'
<1> SUFFICES ASSUME TypeInv, Slots, [Next]_vars
             PROVE  Slots'
  OBVIOUS
<1>1. CASE \E c \in Calls : Agent(c) \/ Handler(c)
  BY <1>1, PermitsStep, SessionsStep DEF Slots
<1>2. CASE \E s \in Servers : Gone(s)
  BY <1>2, GoneSlots
<1>3. CASE UNCHANGED <<phase, args, permits, session>>
  BY <1>3 DEF Slots, Holders, CallsOf, Srv, Conn, Write
<1>4. CASE \E s \in Servers : Start(s)
  BY <1>3, <1>4 DEF Start, callVars, slotVars
<1>5. CASE Person
  <2>1. UNCHANGED <<phase, args, permits, session>>
    BY <1>5 DEF Person, Give, TakeBack, ListPending, Answer, Explain, Dismiss, StopAsking,
       others, callVars, slotVars
  <2>2. QED
    BY <1>3, <2>1
<1>6. CASE Tick \/ UNCHANGED vars
  BY <1>3, <1>6 DEF Tick, callVars, slotVars, vars
<1>7. QED
  BY <1>1, <1>2, <1>4, <1>5, <1>6 DEF Next, Process, Kill, Stop

\* For any number of calls, permits and connections, through every way a call ends: no
\* permit is lost or given twice, and no session is left taken.
THEOREM SlotsKept == Spec => []SlotsAccounted
<1>1. Init => Slots
  <2> SUFFICES ASSUME Init, NEW s \in Servers
               PROVE  /\ IsFiniteSet(Holders(s))
                      /\ permits[s] + Cardinality(Holders(s)) = Permits
                      /\ \A k \in Conns, c \in Calls :
                            session[s][k] = c <=>
                                c \in CallsOf(s) /\ Conn(c) = k /\ phase[c] \in HasSession
    BY DEF Slots
  <2>1. CallsOf(s) = {}
    BY DEF Init, CallsOf
  <2>2. Holders(s) = {}
    BY <2>1 DEF Holders
  <2>3. permits[s] = Permits /\ \A k \in Conns : session[s][k] = Free
    BY DEF Init
  <2>4. QED
    BY <2>1, <2>2, <2>3, FS_EmptySet, FreeAssumption, McpAssumption
<1>2. Slots => SlotsAccounted
  BY DEF Slots, SlotsAccounted, Holders
<1>3. QED
  BY <1>1, <1>2, SlotsStep, TypeInvariant, PTL DEF Spec

-----------------------------------------------------------------------------
(***************************************************************************)
(* The write path implements GuardedWrite.  Each part of what the promise  *)
(* speaks of is changed by few actions only: the lemmas say by which.  A   *)
(* step that is none of these is a Turn.                                   *)
(***************************************************************************)

Answered(c) ==
    \E u \in Screens, approve, stop \in BOOLEAN :
        /\ Answer(u, c, approve, stop)
        /\ CanSettle(approvals, c, IF approve THEN "approved" ELSE "denied", now)

LEMMA DraftFrom ==
    ASSUME TypeInv, [Next]_vars, NEW c \in Calls
    PROVE  draft'[c] = draft[c] \/ (Await(c) /\ phase'[c] = "asking")
<1>1. ASSUME NEW d \in Calls, Await(d)
      PROVE  draft'[c] = draft[c] \/ (Await(c) /\ phase'[c] = "asking")
  BY <1>1 DEF Await, Goto, TypeInv, TypeOK
<1>2. CASE \E d \in Calls : Agent(d) \/ (Handler(d) /\ ~Await(d))
  BY <1>2 DEF Agent, Call, Cancel, Handler, Ask, Poll, SeeCancel, TakePermit, OpenSession,
     Judge, Reserve, CheckRevoked, Execute, Run, Finish
<1>3. CASE (\E s \in Servers : Process(s)) \/ Person \/ Tick \/ UNCHANGED vars
  BY <1>3 DEF Process, Start, Stop, Kill, Gone, Person, Give, TakeBack, ListPending, Answer,
     Explain, Dismiss, StopAsking, others, Tick, callVars, vars
<1>4. QED
  BY <1>1, <1>2, <1>3 DEF Next

LEMMA UnderFrom ==
    ASSUME TypeInv, [Next]_vars, NEW c \in Calls
    PROVE  under'[c] = under[c] \/ (Judge(c) /\ phase'[c] = "judged")
<1>1. ASSUME NEW d \in Calls, Judge(d)
      PROVE  under'[c] = under[c] \/ (Judge(c) /\ phase'[c] = "judged")
  BY <1>1 DEF Judge, Goto, TypeInv, TypeOK
<1>2. CASE \E d \in Calls : Agent(d) \/ (Handler(d) /\ ~Judge(d))
  BY <1>2 DEF Agent, Call, Cancel, Handler, Await, Ask, Poll, SeeCancel, TakePermit,
     OpenSession, Reserve, CheckRevoked, Execute, Run, Finish
<1>3. CASE (\E s \in Servers : Process(s)) \/ Person \/ Tick \/ UNCHANGED vars
  BY <1>3 DEF Process, Start, Stop, Kill, Gone, Person, Give, TakeBack, ListPending, Answer,
     Explain, Dismiss, StopAsking, others, Tick, callVars, vars
<1>4. QED
  BY <1>1, <1>2, <1>3 DEF Next

LEMMA WrittenFrom ==
    ASSUME TypeInv, WritesCleared, [Next]_vars, NEW c \in Calls
    PROVE  committed'[c] = committed[c] \/ (Run(c) /\ ~committed[c] /\ committed'[c])
<1>1. ASSUME NEW d \in Calls, Run(d)
      PROVE  committed'[c] = committed[c] \/ (Run(c) /\ ~committed[c] /\ committed'[c])
  <2>1. ~committed[d] /\ committed[d] \in BOOLEAN /\ committed'[d] \in BOOLEAN
    BY <1>1, StepType DEF Run, WritesCleared, TypeInv, TypeOK
  <2>2. d # c => committed'[c] = committed[c]
    BY <1>1 DEF Run, TypeInv, TypeOK
  <2>3. CASE d = c
    BY <1>1, <2>1, <2>3, Zenon
  <2>4. QED
    BY <2>2, <2>3
<1>2. CASE \E d \in Calls : Agent(d) \/ (Handler(d) /\ ~Run(d))
  BY <1>2 DEF Agent, Call, Cancel, Handler, Await, Ask, Poll, SeeCancel, TakePermit,
     OpenSession, Judge, Reserve, CheckRevoked, Execute, Finish
<1>3. CASE (\E s \in Servers : Process(s)) \/ Person \/ Tick \/ UNCHANGED vars
  BY <1>3 DEF Process, Start, Stop, Kill, Gone, Person, Give, TakeBack, ListPending, Answer,
     Explain, Dismiss, StopAsking, others, Tick, vars
<1>4. QED
  BY <1>1, <1>2, <1>3 DEF Next

\* A call is made once; an id is claimed by its reservation.
LEMMA MadeFrom ==
    ASSUME TypeInv, [Next]_vars, NEW c \in Calls, phase[c] = "idle", phase'[c] # "idle"
    PROVE  \E s \in Servers, o \in OpIds, w \in Writes : Call(c, s, o, w)
<1>1. ASSUME NEW d \in Calls, Agent(d) \/ Handler(d)
      PROVE  \E s \in Servers, o \in OpIds, w \in Writes : Call(c, s, o, w)
  <2>1. CASE d = c
    BY <1>1, <2>1 DEF Agent, Cancel, Handler, Await, Ask, Poll, SeeCancel, TakePermit,
       OpenSession, Judge, Reserve, CheckRevoked, Execute, Run, Finish
  <2>2. CASE d # c
    BY <1>1, <2>2 DEF Agent, Call, Cancel, Handler, Await, Ask, Poll, SeeCancel, TakePermit,
       OpenSession, Judge, Reserve, CheckRevoked, Execute, Run, Finish, Uncleared, Cleared,
       End, Goto, TypeInv, TypeOK
  <2>3. QED
    BY <2>1, <2>2
<1>2. ASSUME NEW s \in Servers, Process(s)
      PROVE  phase'[c] = "idle"
  BY <1>2 DEF Process, Start, Stop, Kill, Gone, CallsOf, callVars
<1>3. CASE Person \/ Tick \/ UNCHANGED vars
  BY <1>3 DEF Person, Give, TakeBack, ListPending, Answer, Explain, Dismiss, StopAsking, others,
     Tick, callVars, vars
<1>4. QED
  BY <1>1, <1>2, <1>3 DEF Next

LEMMA ClaimedFrom ==
    ASSUME TypeInv, [Next]_vars, NEW s \in Servers, NEW o \in OpIds,
           records[s][o] = NoRecord, records'[s][o] # NoRecord
    PROVE  \E c \in Calls : Reserve(c) /\ phase'[c] = "reserved"
<1>1. ASSUME NEW c \in Calls, Reserve(c)
      PROVE  phase'[c] = "reserved"
  BY <1>1 DEF Reserve, Goto, TypeInv, TypeOK
<1>2. ASSUME NEW c \in Calls, CheckRevoked(c) \/ Finish(c)
      PROVE  FALSE
  <2>1. phase[c] \in Holding
    BY <1>2 DEF CheckRevoked, Finish, Holding
  <2>2. Rec(c) # NoRecord /\ Srv(c) \in Servers /\ args[c].op \in OpIds
    BY <2>1, ArgsType DEF TypeInv, RecordKept, Holding
  <2>3. records' # records
    OBVIOUS
  <2>4. \E state, effect : Finished(c, state, effect)
    BY <1>2, <2>3 DEF CheckRevoked, Finish
  <2>5. records'[s][o] = records[s][o] \/ <<s, o>> = <<Srv(c), args[c].op>>
    BY <2>2, <2>4 DEF Finished, TypeInv, TypeOK
  <2>6. QED
    BY <2>2, <2>5 DEF Rec
<1>3. CASE \E d \in Calls : Agent(d) \/ Handler(d)
  BY <1>1, <1>2, <1>3 DEF Agent, Call, Cancel, Handler, Await, Ask, Poll, SeeCancel,
     TakePermit, OpenSession, Judge, Execute, Run
<1>4. CASE (\E t \in Servers : Process(t)) \/ Person \/ Tick \/ UNCHANGED vars
  BY <1>4 DEF Process, Start, Stop, Kill, Gone, Person, Give, TakeBack, ListPending, Answer,
     Explain, Dismiss, StopAsking, others, Tick, vars
<1>5. QED
  BY <1>3, <1>4 DEF Next

LEMMA WordFrom ==
    ASSUME TypeInv, [Next]_vars, NEW c \in Calls
    PROVE  told'[c] \cap {"approved", "denied"} = told[c] \cap {"approved", "denied"} \/ Answered(c)
<1>1. CASE \E d \in Calls : Agent(d) \/ Handler(d)
  BY <1>1 DEF Agent, Call, Cancel, Handler, Await, Ask, Poll, SeeCancel, TakePermit,
     OpenSession, Judge, Reserve, CheckRevoked, Execute, Run, Finish, personVars
<1>2. CASE (\E s \in Servers : Process(s)) \/ Tick \/ UNCHANGED vars
  BY <1>2 DEF Process, Start, Stop, Kill, Gone, Tick, personVars, vars
<1>3. ASSUME NEW u \in Screens, Explain(u) \/ Dismiss(u)
      PROVE  told'[c] \cap {"approved", "denied"} = told[c] \cap {"approved", "denied"}
  <2>1. told' = told \/ \E d, a : a \notin {"approved", "denied"} /\ Tell(d, a)
    BY <1>3 DEF Explain, Dismiss
  <2>2. QED
    BY <2>1 DEF Tell, TypeInv, TypeOK
<1>4. ASSUME NEW u \in Screens, NEW d \in Calls, NEW approve \in BOOLEAN, NEW stop \in BOOLEAN,
             Answer(u, d, approve, stop), ~Answered(c)
      PROVE  told'[c] = told[c]
  BY <1>4 DEF Answer, Answered, Tell, TypeInv, TypeOK
<1>5. CASE Person
  BY <1>3, <1>4, <1>5 DEF Person, Give, TakeBack, ListPending, StopAsking, personVars
<1>6. QED
  BY <1>1, <1>2, <1>5 DEF Next

LEMMA StageFrom ==
    ASSUME TypeInv, [Next]_vars, NEW c \in Calls
    PROVE  \/ StageOf(c)' \in {StageOf(c), "over"}
           \/ Judge(c) /\ phase'[c] = "judged"
           \/ Reserve(c) /\ phase'[c] = "reserved"
           \/ Execute(c) /\ phase'[c] = "running"
<1> USE DEF TypeInv, TypeOK
<1>0. phase'[c] = phase[c] => StageOf(c)' = StageOf(c)
  BY DEF StageOf
<1>1. ASSUME NEW d \in Calls, Agent(d)
      PROVE  StageOf(c)' \in {StageOf(c), "over"}
  BY <1>1 DEF Agent, Call, Cancel, Goto, StageOf
<1>2. ASSUME NEW d \in Calls, Handler(d), d # c
      PROVE  phase'[c] = phase[c]
  BY <1>2 DEF Handler, Await, Ask, Poll, SeeCancel, TakePermit, OpenSession, Judge, Reserve,
     CheckRevoked, Execute, Run, Finish, Uncleared, Cleared, End, Goto
<1>3. CASE Await(c) \/ Ask(c) \/ TakePermit(c) \/ OpenSession(c)
  BY <1>3 DEF Await, Uncleared, Cleared, Ask, TakePermit, OpenSession, End, Goto, StageOf
<1>4. CASE Poll(c) \/ SeeCancel(c)
  BY <1>4 DEF Poll, SeeCancel, Cleared, End, Goto, StageOf
<1>5. CASE Judge(c)
  BY <1>5 DEF Judge, End, Goto, StageOf
<1>6. CASE Reserve(c) \/ CheckRevoked(c)
  BY <1>6 DEF Reserve, CheckRevoked, End, Goto, StageOf
<1>7. CASE Execute(c) \/ Run(c) \/ Finish(c)
  BY <1>7 DEF Execute, Run, Finish, End, Goto, StageOf
<1>8. ASSUME NEW s \in Servers, Process(s)
      PROVE  phase'[c] \in {phase[c], "done"}
  BY <1>8 DEF Process, Start, Stop, Kill, Gone, callVars
<1>9. CASE Person \/ Tick \/ UNCHANGED vars
  BY <1>0, <1>9 DEF Person, Give, TakeBack, ListPending, Answer, Explain, Dismiss, StopAsking,
     others, Tick, callVars, vars
<1>10. phase'[c] = "done" => StageOf(c)' = "over"
  BY DEF StageOf
<1>11. QED
  BY <1>0, <1>1, <1>2, <1>3, <1>4, <1>5, <1>6, <1>7, <1>8, <1>9, <1>10 DEF Next, Handler

\* A request was drafted before it was inserted, and by no call that runs without asking.
DraftKnown ==
    \A c \in Calls :
        /\ phase[c] \in {"idle", "called"} => draft[c] = NoRequest
        /\ phase[c] = "asking" \/ approvals[c] # NoRequest => draft[c] # NoRequest
        /\ clearance[c] = "bypassed" => draft[c] = NoRequest

LEMMA DraftStep == TypeInv /\ Asked /\ ClearedAs /\ DraftKnown /\ [Next]_vars => DraftKnown'
<1> SUFFICES ASSUME TypeInv, Asked, ClearedAs, DraftKnown, [Next]_vars, NEW c \in Calls
             PROVE  /\ phase'[c] \in {"idle", "called"} => draft'[c] = NoRequest
                    /\ phase'[c] = "asking" \/ approvals'[c] # NoRequest => draft'[c] # NoRequest
                    /\ clearance'[c] = "bypassed" => draft'[c] = NoRequest
  BY DEF DraftKnown
<1>1. Moves(c) /\ Origins(c)
  BY CallMoves, CallOrigins
<1>2. draft'[c] = draft[c] \/ (phase[c] = "called" /\ phase'[c] = "asking")
  BY DraftFrom DEF Await
<1>3. phase'[c] \in {"idle", "called"} => draft'[c] = NoRequest
  BY <1>1, <1>2 DEF Origins, DraftKnown
<1>4. phase'[c] = "asking" => draft'[c] # NoRequest
  BY <1>1, <1>2 DEF Origins, DraftKnown, NoRequest
<1>5. approvals'[c] # NoRequest => draft'[c] # NoRequest
  <2>1. approvals'[c] # NoRequest => approvals[c] # NoRequest \/ phase[c] = "asking"
    <3>1. CASE Later(approvals, approvals')
      BY <3>1 DEF Later
    <3>2. ASSUME NEW d \in Calls, Ask(d)
          PROVE  approvals'[c] # NoRequest => approvals[c] # NoRequest \/ phase[c] = "asking"
      BY <3>2 DEF Ask, RequestApproval, TypeInv, TypeOK, LedgerTypeOK
    <3>3. QED
      BY <3>1, <3>2, ApprovalsStep
  <2>2. approvals[c] # NoRequest \/ phase[c] = "asking" =>
            draft[c] # NoRequest /\ phase[c] # "called"
    BY DEF DraftKnown, Asked
  <2>3. QED
    BY <1>2, <2>1, <2>2
<1>6. clearance'[c] = "bypassed" => draft'[c] = NoRequest
  BY <1>1, <1>2 DEF Moves, DraftKnown, ClearedAs
<1>7. QED
  BY <1>3, <1>4, <1>5, <1>6

\* The request of a call is answered by the person, or turned down, or forgotten.
LEMMA AnswerFades ==
    ASSUME TypeInv, Asked, DraftKnown, [Next]_vars, NEW c \in Calls, draft'[c] = draft[c],
           approvals'[c].decision = "approved" => approvals[c].decision = "approved"
    PROVE  Guard!Fades(AnswerOf(c), AnswerOf(c)')
<1>0. /\ approvals[c] \in Request \cup {NoRequest}
      /\ approvals'[c] \in Request \cup {NoRequest}
  BY StepType DEF TypeInv, TypeOK, LedgerTypeOK
<1>1. CASE draft[c] = NoRequest
  BY <1>1 DEF AnswerOf, Guard!Fades
<1>2. CASE draft[c] # NoRequest /\ Later(approvals, approvals')
  <2>1. phase[c] # "asking" => phase'[c] # "asking"
    BY <1>2, CallOrigins DEF Origins, DraftKnown
  <2>2. CASE phase[c] = "asking"
    <3>1. approvals'[c] = NoRequest
      BY <1>2, <2>2 DEF Asked, Later
    <3>2. AnswerOf(c)' \in {"open", "gone"}
      BY <1>2, <3>1 DEF AnswerOf, Pending, NoRequest
    <3>3. AnswerOf(c) = "open"
      BY <1>2, <2>2 DEF AnswerOf
    <3>4. QED
      BY <3>2, <3>3 DEF Guard!Fades
  <2>3. CASE phase[c] # "asking" /\ Pending(c)
    <3>1. AnswerOf(c) = "open"
      BY <1>2, <2>3 DEF AnswerOf
    <3>2. AnswerOf(c)' \in {"open", "no", "gone"}
      BY <1>0, <1>2, <2>1, <2>3 DEF AnswerOf, Pending, Request, NoRequest, Decisions
    <3>3. QED
      BY <3>1, <3>2 DEF Guard!Fades
  <2>4. CASE phase[c] # "asking" /\ ~Pending(c)
    <3>1. approvals'[c] = approvals[c] \/ approvals'[c] = NoRequest
      BY <1>0, <1>2, <2>4 DEF Later, Pending, Request, NoRequest, Decisions
    <3>2. approvals'[c] = approvals[c] => AnswerOf(c)' = AnswerOf(c)
      BY <1>2, <2>1, <2>4 DEF AnswerOf, Pending
    <3>3. approvals'[c] = NoRequest => AnswerOf(c)' = "gone"
      BY <1>2, <2>1, <2>4 DEF AnswerOf, Pending, NoRequest
    <3>4. AnswerOf(c) # "none"
      BY <1>2 DEF AnswerOf
    <3>5. QED
      BY <3>1, <3>2, <3>3, <3>4 DEF Guard!Fades
  <2>5. QED
    BY <2>2, <2>3, <2>4
<1>3. ASSUME NEW d \in Calls, Ask(d), draft[c] # NoRequest
      PROVE  AnswerOf(c)' = AnswerOf(c)
  <2>1. CASE d = c
    <3>1. phase[c] = "asking" /\ approvals'[c] = draft[c]
      BY <1>3, <2>1 DEF Ask, RequestApproval, TypeInv, TypeOK, LedgerTypeOK
    <3>2. approvals'[c].decision = "pending"
      BY <3>1 DEF Asked
    <3>3. QED
      BY <1>3, <3>1, <3>2 DEF AnswerOf, Pending
  <2>2. CASE d # c
    BY <1>3, <2>2 DEF Ask, RequestApproval, Goto, AnswerOf, Pending, TypeInv, TypeOK,
       LedgerTypeOK
  <2>3. QED
    BY <2>1, <2>2
<1>4. QED
  BY <1>1, <1>2, <1>3, ApprovalsStep DEF Guard!Fades

\* What an access covers, and lets run without asking, it does as long as it is known.
LEMMA CoverGrows ==
    ASSUME TypeInv, OwnKinds, [Next]_vars, NEW c \in Calls
    PROVE  CoveredBy(c) \subseteq CoveredBy(c)' /\ ExemptBy(c) \subseteq ExemptBy(c)'
<1>1. phase[c] # "idle" => phase'[c] # "idle" /\ args'[c] = args[c]
  BY ArgsStay
<1>2. ASSUME NEW g \in CoveredBy(c)
      PROVE  g \in CoveredBy(c)'
  <2>1. AccessKept(g) /\ phase[c] # "idle" /\ grants[g] # NoGrant
    BY <1>2, GrantsStep DEF CoveredBy
  <2>2. QED
    BY <1>1, <1>2, <2>1 DEF CoveredBy, AccessKept, Srv, Write, Conn
<1>3. ASSUME NEW g \in ExemptBy(c)
      PROVE  g \in ExemptBy(c)'
  <2>1. AccessKept(g) /\ phase[c] # "idle" /\ grants[g] # NoGrant
    BY <1>3, GrantsStep DEF ExemptBy
  <2>2. QED
    BY <1>1, <1>3, <2>1 DEF ExemptBy, AccessKept, Bypasses, Write
<1>4. QED
  BY <1>2, <1>3

LEMMA AccessTurns ==
    ASSUME TypeInv, OwnKinds, [Next]_vars, NEW g \in Grants
    PROVE  <<grants[g].status, grants'[g].status>> \in
               {<<grants[g].status, grants[g].status>>, <<"none", "live">>, <<"live", "revoked">>}
<1>1. AccessKept(g)
  BY GrantsStep
<1>2. QED
  BY <1>1 DEF AccessKept, NoGrant

\* What the promise speaks of stays where the tables, and what is known of each call, stay.
LEMMA TablesStay ==
    ASSUME UNCHANGED <<grants, args, draft>>,
           \A c \in Calls : phase'[c] = "idle" <=> phase[c] = "idle"
    PROVE  /\ \A c \in Calls : CoveredBy(c)' = CoveredBy(c) /\ ExemptBy(c)' = ExemptBy(c)
           /\ [g \in Grants |-> grants[g].status]' = [g \in Grants |-> grants[g].status]
           /\ [c \in Calls |-> CoveredBy(c)]' = [c \in Calls |-> CoveredBy(c)]
           /\ [c \in Calls |-> ExemptBy(c)]' = [c \in Calls |-> ExemptBy(c)]
           /\ [c \in Calls |-> IF phase[c] = "idle" THEN {} ELSE {<<Srv(c), args[c].op>>}]'
                  = [c \in Calls |-> IF phase[c] = "idle" THEN {} ELSE {<<Srv(c), args[c].op>>}]
           /\ [c \in Calls |-> IF draft[c] = NoRequest THEN {} ELSE {draft[c].grant}]'
                  = [c \in Calls |-> IF draft[c] = NoRequest THEN {} ELSE {draft[c].grant}]
<1>1. \A c \in Calls : CoveredBy(c)' = CoveredBy(c) /\ ExemptBy(c)' = ExemptBy(c)
  BY DEF CoveredBy, ExemptBy, Bypasses, Srv, Write, Conn
<1>2. QED
  BY <1>1 DEF Srv

\* ... and the rest of it where the requests, the answers, the records and the writes stay.
LEMMA AnswersStay ==
    ASSUME UNCHANGED <<approvals, draft>>,
           \A c \in Calls : phase'[c] = "asking" <=> phase[c] = "asking"
    PROVE  [c \in Calls |-> AnswerOf(c)]' = [c \in Calls |-> AnswerOf(c)]
<1>1. \A c \in Calls : AnswerOf(c)' = AnswerOf(c)
  BY DEF AnswerOf, Pending
<1>2. QED
  BY <1>1

LEMMA RestStays ==
    /\ UNCHANGED told =>
          [c \in Calls |-> told[c] \cap {"approved", "denied"}]'
              = [c \in Calls |-> told[c] \cap {"approved", "denied"}]
    /\ UNCHANGED records =>
          {i \in Servers \X OpIds : records[i[1]][i[2]] # NoRecord}'
              = {i \in Servers \X OpIds : records[i[1]][i[2]] # NoRecord}
    /\ UNCHANGED committed =>
          {c \in Calls : committed[c]}' = {c \in Calls : committed[c]}
OBVIOUS

LEMMA StageMoves ==
    ASSUME NEW c \in Calls, NEW to, TypeInv, Goto(c, to),
           \A d \in Calls : d # c => phase'[d] = phase[d]
    PROVE  [d \in Calls |-> StageOf(d)]'
               = [[d \in Calls |-> StageOf(d)] EXCEPT ![c] = StageOf(c)']
<1>1. \A d \in Calls : d # c => StageOf(d)' = StageOf(d)
  BY DEF StageOf
<1>2. QED
  BY <1>1

-----------------------------------------------------------------------------
(* The steps that are not a Turn. *)

PromiseInv == TypeInv /\ ToldInv /\ DraftKnown /\ OwnKinds /\ RanUnder

LEMMA ClearStep ==
    ASSUME PromiseInv, NEW c \in Calls, Judge(c), phase'[c] = "judged"
    PROVE  \E g \in Grants : Guard!Clear(c, g)
<1> USE DEF PromiseInv, TypeInv, TypeOK
<1>1. PICK g \in Covering(c) :
          /\ Stands(c, g) /\ clearance[c] # "none"
          /\ Goto(c, "judged") /\ under' = [under EXCEPT ![c] = {g}]
  BY DEF Judge, End, Goto
<1>2. /\ g \in Grants /\ grants[g].status = "live" /\ grants[g] # NoGrant
      /\ grants[g].profile = ProfileOf[Srv(c)] /\ grants[g].conn = Conn(c)
      /\ KindOfWrite[Write(c)] \in grants[g].kinds
  BY DEF Covering, ActiveGrants, Live, NoGrant
<1>3. phase[c] = "leased" /\ g \in CoveredBy(c)
  BY <1>2 DEF Judge, CoveredBy
<1>4. \/ AnswerOf(c) = "yes" /\ draft[c] # NoRequest /\ draft[c].grant = g
      \/ AnswerOf(c) = "none" /\ g \in ExemptBy(c)
  <2>1. CASE clearance[c] = "approved"
    <3>1. approvals[c].decision = "approved" /\ approvals[c].grant = g
      BY <1>1, <2>1, Zenon DEF Stands
    <3>2. approvals[c] # NoRequest
      BY <3>1 DEF NoRequest
    <3>3. draft[c] # NoRequest /\ draft[c].grant = g
      BY <3>1, <3>2 DEF DraftKnown, ToldInv, AskedInv, Asked
    <3>4. AnswerOf(c) = "yes"
      BY <1>3, <3>1, <3>3 DEF AnswerOf, Pending
    <3>5. QED
      BY <3>3, <3>4
  <2>2. CASE clearance[c] = "bypassed"
    <3>1. Bypasses(g, Write(c)) /\ draft[c] = NoRequest
      BY <1>1, <2>2 DEF Stands, DraftKnown
    <3>2. QED
      BY <1>2, <1>3, <3>1 DEF AnswerOf, ExemptBy
  <2>3. QED
    BY <1>1, <2>1, <2>2
<1>5. \A d \in Calls : d # c => phase'[d] = phase[d]
  BY <1>1 DEF Goto
<1>6. StageOf(c) = "waits" /\ StageOf(c)' = "cleared"
  BY <1>3 DEF StageOf
<1>7. UNCHANGED <<grants, args, draft, approvals, told, records, committed>>
  BY DEF Judge, ledgerVars, personVars
<1>8. \A d \in Calls : /\ phase'[d] = "idle" <=> phase[d] = "idle"
                       /\ phase'[d] = "asking" <=> phase[d] = "asking"
  BY <1>3, <1>5
<1>9. Guard!Clear(c, g)
  BY <1>1, <1>2, <1>3, <1>4, <1>5, <1>6, <1>7, <1>8, TablesStay, AnswersStay, RestStays, StageMoves
     DEF Guard!Clear
<1>10. QED
  BY <1>2, <1>9

LEMMA ClaimStep ==
    ASSUME PromiseInv, NEW c \in Calls, Reserve(c), phase'[c] = "reserved"
    PROVE  Guard!Claim(c)
<1> USE DEF PromiseInv, TypeInv, TypeOK
<1>1. /\ phase[c] = "judged" /\ Goto(c, "reserved") /\ Rec(c) = NoRecord
      /\ records' = [records EXCEPT ![Srv(c)][args[c].op] =
                        [state |-> "running", write |-> Write(c), effect |-> "unknown"]]
      /\ UNCHANGED <<grants, args, draft, approvals, told, under, committed>>
  BY DEF Reserve, End, Goto, ledgerVars, personVars
<1>2. Srv(c) \in Servers /\ args[c].op \in OpIds
  BY <1>1, ArgsType
<1>3. \A d \in Calls : d # c => phase'[d] = phase[d]
  BY <1>1 DEF Goto
<1>4. StageOf(c) = "cleared" /\ StageOf(c)' = "claimed"
  BY <1>1 DEF StageOf
<1>5. \A d \in Calls : /\ phase'[d] = "idle" <=> phase[d] = "idle"
                       /\ phase'[d] = "asking" <=> phase[d] = "asking"
  BY <1>1, <1>3
<1>6. \A s \in Servers, o \in OpIds :
          records'[s][o] # NoRecord <=> records[s][o] # NoRecord \/ <<s, o>> = <<Srv(c), args[c].op>>
  BY <1>1, <1>2 DEF NoRecord
<1>7. /\ <<Srv(c), args[c].op>> \notin {i \in Servers \X OpIds : records[i[1]][i[2]] # NoRecord}
      /\ {i \in Servers \X OpIds : records[i[1]][i[2]] # NoRecord}'
             = {i \in Servers \X OpIds : records[i[1]][i[2]] # NoRecord}
                   \cup {<<Srv(c), args[c].op>>}
  BY <1>1, <1>2, <1>6 DEF Rec
<1> DEFINE ids == [d \in Calls |-> IF phase[d] = "idle" THEN {} ELSE {<<Srv(d), args[d].op>>}]
           taken == {i \in Servers \X OpIds : records[i[1]][i[2]] # NoRecord}
<1>8. ids[c] \cap taken = {} /\ taken' = taken \cup ids[c]
  <2>1. ids[c] = {<<Srv(c), args[c].op>>}
    BY <1>1
  <2> HIDE DEF ids, taken
  <2>2. QED
    BY <1>7, <2>1 DEF taken
<1>9. QED
  BY <1>1, <1>3, <1>4, <1>5, <1>8, TablesStay, AnswersStay, RestStays, StageMoves DEF Guard!Claim

LEMMA StartStep ==
    ASSUME PromiseInv, NEW c \in Calls, Execute(c), phase'[c] = "running"
    PROVE  Guard!Start(c)
<1> USE DEF PromiseInv, TypeInv, TypeOK
<1>1. /\ phase[c] = "checked" /\ ~UnderRevoked(c) /\ Goto(c, "running")
      /\ UNCHANGED <<grants, args, draft, approvals, told, under, records, committed>>
  BY DEF Execute, Goto, ledgerVars, personVars
<1>2. \A g \in under[c] : grants[g].status = "live"
  <2>1. PICK g \in Grants : under[c] = {g} /\ grants[g] # NoGrant
    BY <1>1 DEF RanUnder, MayWrite
  <2>2. grants[g].status \in {"live", "revoked"}
    BY <2>1 DEF LedgerTypeOK, GrantRow
  <2>3. QED
    BY <1>1, <2>1, <2>2 DEF UnderRevoked, IsRevoked
<1>3. \A d \in Calls : d # c => phase'[d] = phase[d]
  BY <1>1 DEF Goto
<1>4. StageOf(c) = "claimed" /\ StageOf(c)' = "running"
  BY <1>1 DEF StageOf
<1>5. \A d \in Calls : /\ phase'[d] = "idle" <=> phase[d] = "idle"
                       /\ phase'[d] = "asking" <=> phase[d] = "asking"
  BY <1>1, <1>3
<1>6. under[c] \subseteq Grants
  OBVIOUS
<1>7. QED
  BY <1>1, <1>2, <1>3, <1>4, <1>5, <1>6, TablesStay, AnswersStay, RestStays, StageMoves
     DEF Guard!Start

LEMMA CommitStep ==
    ASSUME PromiseInv, NEW c \in Calls, Run(c), ~committed[c], committed'[c]
    PROVE  Guard!Commit(c)
<1> USE DEF PromiseInv, TypeInv, TypeOK
<1>1. /\ phase[c] = "running" /\ Goto(c, "applied")
      /\ \E w : committed' = [committed EXCEPT ![c] = w]
      /\ UNCHANGED <<grants, args, draft, approvals, told, under, records>>
  BY DEF Run, ledgerVars, personVars
<1>2. \A d \in Calls : d # c => phase'[d] = phase[d] /\ committed'[d] = committed[d]
  BY <1>1 DEF Goto
<1>3. StageOf(c) = "running" /\ StageOf(c)' = "over"
  BY <1>1 DEF StageOf, Goto
<1>4. \A d \in Calls : /\ phase'[d] = "idle" <=> phase[d] = "idle"
                       /\ phase'[d] = "asking" <=> phase[d] = "asking"
  BY <1>1, <1>2 DEF Goto
<1>5. {d \in Calls : committed[d]}' = {d \in Calls : committed[d]} \cup {c}
  BY <1>2
<1>6. QED
  BY <1>1, <1>2, <1>3, <1>4, <1>5, TablesStay, AnswersStay, RestStays, StageMoves DEF Guard!Commit

LEMMA AskForStep ==
    ASSUME PromiseInv, NEW c \in Calls, Await(c), phase'[c] = "asking"
    PROVE  \E g \in Grants : Guard!AskFor(c, g)
<1> USE DEF PromiseInv, TypeInv, TypeOK
<1>1. PICK g \in Covering(c) :
          /\ ~Bypasses(g, Write(c)) /\ Goto(c, "asking")
          /\ draft' = [draft EXCEPT ![c] =
                [decision |-> "pending", grant |-> g, heartbeat |-> now,
                 deadline |-> LowerOf(LowerOf(now + grants[g].ask, MaxNow), grants[g].expires),
                 asked |-> OpsOf[Write(c)] \ grants[g].bypass]]
  BY DEF Await, Uncleared, Cleared, End, Goto
<1>2. /\ g \in Grants /\ grants[g].status = "live" /\ grants[g] # NoGrant
      /\ grants[g].profile = ProfileOf[Srv(c)] /\ grants[g].conn = Conn(c)
      /\ KindOfWrite[Write(c)] \in grants[g].kinds
  BY DEF Covering, ActiveGrants, Live, NoGrant
<1>3. phase[c] = "called" /\ draft[c] = NoRequest
  BY DEF Await, DraftKnown
<1>4. g \in CoveredBy(c) \ ExemptBy(c)
  BY <1>1, <1>2, <1>3 DEF CoveredBy, ExemptBy
<1>5. draft'[c] # NoRequest /\ draft'[c].grant = g
  BY <1>1 DEF NoRequest
<1>6. UNCHANGED <<grants, args, approvals, told, under, records, committed>>
  BY DEF Await, ledgerVars, personVars
<1>7. \A d \in Calls : d # c => phase'[d] = phase[d] /\ draft'[d] = draft[d]
  BY <1>1 DEF Goto
<1>8. phase'[c] = "asking"
  OBVIOUS
<1>9. AnswerOf(c) = "none" /\ AnswerOf(c)' = "open"
  BY <1>3, <1>5, <1>8 DEF AnswerOf
<1>10. \A d \in Calls : d # c => AnswerOf(d)' = AnswerOf(d)
  BY <1>6, <1>7 DEF AnswerOf, Pending
<1>11. StageOf(c) = "waits" /\ \A d \in Calls : StageOf(d)' = StageOf(d)
  BY <1>3, <1>7, <1>8 DEF StageOf
<1>12. \A d \in Calls : CoveredBy(d)' = CoveredBy(d) /\ ExemptBy(d)' = ExemptBy(d)
  BY <1>3, <1>6, <1>7, <1>8 DEF CoveredBy, ExemptBy, Bypasses, Srv, Write, Conn
<1>13. [d \in Calls |-> IF phase[d] = "idle" THEN {} ELSE {<<Srv(d), args[d].op>>}]'
           = [d \in Calls |-> IF phase[d] = "idle" THEN {} ELSE {<<Srv(d), args[d].op>>}]
  BY <1>3, <1>6, <1>7, <1>8 DEF Srv
<1>14. [d \in Calls |-> IF draft[d] = NoRequest THEN {} ELSE {draft[d].grant}]'
           = [[d \in Calls |-> IF draft[d] = NoRequest THEN {} ELSE {draft[d].grant}]
                 EXCEPT ![c] = {g}]
  BY <1>5, <1>7
<1>15. [d \in Calls |-> AnswerOf(d)]' = [[d \in Calls |-> AnswerOf(d)] EXCEPT ![c] = "open"]
  BY <1>9, <1>10
<1>16. /\ [d \in Calls |-> StageOf(d)]' = [d \in Calls |-> StageOf(d)]
       /\ [d \in Calls |-> CoveredBy(d)]' = [d \in Calls |-> CoveredBy(d)]
       /\ [d \in Calls |-> ExemptBy(d)]' = [d \in Calls |-> ExemptBy(d)]
       /\ [h \in Grants |-> grants[h].status]' = [h \in Grants |-> grants[h].status]
  BY <1>6, <1>11, <1>12
<1>17. Guard!AskFor(c, g)
  BY <1>2, <1>4, <1>6, <1>9, <1>11, <1>13, <1>14, <1>15, <1>16, RestStays DEF Guard!AskFor
<1>18. QED
  BY <1>2, <1>17

LEMMA ArriveStep ==
    ASSUME PromiseInv, [Next]_vars, NEW c \in Calls, NEW s \in Servers, NEW o \in OpIds,
           NEW w \in Writes, Call(c, s, o, w)
    PROVE  Guard!Arrive(c, <<s, o>>)
<1> USE DEF PromiseInv, TypeInv, TypeOK
<1>1. /\ phase[c] = "idle" /\ phase'[c] \in {"called", "done"}
      /\ args' = [args EXCEPT ![c] = [server |-> s, op |-> o, write |-> w]]
      /\ UNCHANGED <<grants, draft, approvals, told, under, records, committed>>
      /\ \A d \in Calls : d # c => phase'[d] = phase[d]
  BY DEF Call, Goto, ledgerVars, personVars
<1>2. args'[c].server = s /\ args'[c].op = o /\ \A d \in Calls : d # c => args'[d] = args[d]
  BY <1>1
<1>3. [d \in Calls |-> IF phase[d] = "idle" THEN {} ELSE {<<Srv(d), args[d].op>>}]'
          = [[d \in Calls |-> IF phase[d] = "idle" THEN {} ELSE {<<Srv(d), args[d].op>>}]
                EXCEPT ![c] = {<<s, o>>}]
  BY <1>1, <1>2 DEF Srv
<1>4. /\ StageOf(c) = "waits" /\ StageOf(c)' \in {"waits", "over"}
      /\ \A d \in Calls : d # c => StageOf(d)' = StageOf(d)
  BY <1>1 DEF StageOf
<1>5. [d \in Calls |-> StageOf(d)]' \in
          {[d \in Calls |-> StageOf(d)], [[d \in Calls |-> StageOf(d)] EXCEPT ![c] = "over"]}
  BY <1>4
<1>6. \A d \in Calls : CoveredBy(d) \subseteq CoveredBy(d)' /\ ExemptBy(d) \subseteq ExemptBy(d)'
  BY CoverGrows
<1>7. [d \in Calls |-> AnswerOf(d)]' = [d \in Calls |-> AnswerOf(d)]
  BY <1>1, AnswersStay
<1>8. [d \in Calls |-> IF draft[d] = NoRequest THEN {} ELSE {draft[d].grant}]'
          = [d \in Calls |-> IF draft[d] = NoRequest THEN {} ELSE {draft[d].grant}]
  BY <1>1
<1>9. QED
  BY <1>1, <1>3, <1>5, <1>6, <1>7, <1>8, RestStays DEF Guard!Arrive, Guard!Widen

LEMMA AnsweredStep ==
    ASSUME PromiseInv, NEW c \in Calls, Answered(c)
    PROVE  Guard!Approve(c) \/ Guard!Deny(c)
<1> USE DEF PromiseInv, TypeInv, TypeOK
<1>0. approvals \in ApprovalTable
  BY DEF LedgerTypeOK, ApprovalTable
<1>1. PICK decision \in {"approved", "denied"} :
          /\ CanSettle(approvals, c, decision, now) /\ Tell(c, decision)
          /\ approvals' = Settled(approvals, c, decision, now)
          /\ UNCHANGED <<grants, args, phase, draft, under, records, committed>>
  BY DEF Answered, Answer, others, callVars
<1>2. /\ approvals[c].decision = "pending" /\ approvals'[c].decision = decision
      /\ \A d \in Calls : d # c => approvals'[d] = approvals[d]
  <2>1. approvals' = [approvals EXCEPT ![c].decision = decision]
    BY <1>1 DEF Settled
  <2>2. approvals'[c].decision = decision
    BY <1>1, SettledDecision, <1>0
  <2>3. QED
    BY <1>0, <1>1, <2>1, <2>2 DEF CanSettle, ApprovalTable
<1>3. draft[c] # NoRequest /\ phase[c] # "asking"
  BY <1>2 DEF DraftKnown, ToldInv, AskedInv, Asked, NoRequest
<1>4. /\ AnswerOf(c) = "open"
      /\ AnswerOf(c)' = IF decision = "approved" THEN "yes" ELSE "no"
  BY <1>1, <1>2, <1>3 DEF AnswerOf, Pending
<1>5. \A d \in Calls : d # c => AnswerOf(d)' = AnswerOf(d)
  BY <1>1, <1>2 DEF AnswerOf, Pending
<1>6. [d \in Calls |-> AnswerOf(d)]' =
          [[d \in Calls |-> AnswerOf(d)] EXCEPT ![c] = AnswerOf(c)']
  BY <1>5
<1>7. [d \in Calls |-> told[d] \cap {"approved", "denied"}]'
          = [[d \in Calls |-> told[d] \cap {"approved", "denied"}] EXCEPT ![c] = @ \cup {decision}]
  <2>1. /\ told'[c] = told[c] \cup {decision}
        /\ \A d \in Calls : d # c => told'[d] = told[d]
    BY <1>1 DEF Tell
  <2>2. told'[c] \cap {"approved", "denied"} = (told[c] \cap {"approved", "denied"}) \cup {decision}
    BY <2>1
  <2>3. QED
    BY <2>1, <2>2
<1>8. [d \in Calls |-> StageOf(d)]' = [d \in Calls |-> StageOf(d)]
  <2>1. \A d \in Calls : StageOf(d)' = StageOf(d)
    BY <1>1 DEF StageOf
  <2>2. QED
    BY <2>1
<1>9. ASSUME NEW to, AnswerOf(c)' = to
      PROVE  Guard!Say(c, to, decision)
  BY <1>1, <1>4, <1>6, <1>7, <1>8, <1>9, TablesStay, RestStays DEF Guard!Say
<1>10. CASE decision = "approved"
  BY <1>4, <1>9, <1>10 DEF Guard!Approve
<1>11. CASE decision = "denied"
  BY <1>4, <1>9, <1>11 DEF Guard!Deny
<1>12. QED
  BY <1>10, <1>11

-----------------------------------------------------------------------------
(* The steps that are. *)

\* The step is none of those above.
Elsewhere ==
    \A c \in Calls :
        /\ ~(Judge(c) /\ phase'[c] = "judged")
        /\ ~(Reserve(c) /\ phase'[c] = "reserved")
        /\ ~(Execute(c) /\ phase'[c] = "running")
        /\ ~(Run(c) /\ ~committed[c] /\ committed'[c])
        /\ ~(Await(c) /\ phase'[c] = "asking")
        /\ ~Answered(c)
        /\ \A s \in Servers, o \in OpIds, w \in Writes : ~Call(c, s, o, w)

LEMMA TurnStep ==
    ASSUME PromiseInv, [Next]_vars, Elsewhere
    PROVE  Guard!Turn
<1> USE DEF PromiseInv
<1>1. \A g \in Grants : <<grants[g].status, grants'[g].status>> \in
          {<<grants[g].status, grants[g].status>>, <<"none", "live">>, <<"live", "revoked">>}
  BY AccessTurns
<1>2. \A c \in Calls : draft'[c] = draft[c] /\ under'[c] = under[c]
  BY DraftFrom, UnderFrom DEF Elsewhere
<1>3. ASSUME NEW c \in Calls
      PROVE  Guard!Fades(AnswerOf(c), AnswerOf(c)')
  <2>1. approvals'[c].decision = "approved" => approvals[c].decision = "approved"
    <3>1. ~Ask(c) \/ approvals'[c].decision # "approved"
      <4>1. Ask(c) => approvals'[c] = draft[c] /\ phase[c] = "asking"
        BY DEF Ask, RequestApproval, TypeInv, TypeOK, LedgerTypeOK
      <4>2. QED
        BY <4>1 DEF ToldInv, AskedInv, Asked
    <3>2. ASSUME NEW u \in Screens, NEW stop \in BOOLEAN, Answer(u, c, TRUE, stop),
                 CanSettle(approvals, c, "approved", now)
          PROVE  FALSE
      BY <3>2 DEF Elsewhere, Answered
    <3>3. QED
      BY <3>1, <3>2, ApprovedNewly
  <2>2. QED
    BY <1>2, <2>1, AnswerFades DEF ToldInv, AskedInv
<1>4. \A c \in Calls : StageOf(c)' \in {StageOf(c), "over"}
  BY StageFrom DEF Elsewhere
<1>5. \A c \in Calls : CoveredBy(c) \subseteq CoveredBy(c)' /\ ExemptBy(c) \subseteq ExemptBy(c)'
  BY CoverGrows
<1>6. [c \in Calls |-> IF phase[c] = "idle" THEN {} ELSE {<<Srv(c), args[c].op>>}]'
          = [c \in Calls |-> IF phase[c] = "idle" THEN {} ELSE {<<Srv(c), args[c].op>>}]
  <2>1. ASSUME NEW c \in Calls
        PROVE  /\ phase'[c] = "idle" <=> phase[c] = "idle"
               /\ phase[c] # "idle" => args'[c] = args[c]
    BY ArgsStay, MadeFrom DEF Elsewhere
  <2>2. QED
    BY <2>1 DEF Srv
<1>7. [c \in Calls |-> IF draft[c] = NoRequest THEN {} ELSE {draft[c].grant}]'
          = [c \in Calls |-> IF draft[c] = NoRequest THEN {} ELSE {draft[c].grant}]
  BY <1>2
<1>8. [c \in Calls |-> told[c] \cap {"approved", "denied"}]'
          = [c \in Calls |-> told[c] \cap {"approved", "denied"}]
  BY WordFrom DEF Elsewhere
<1>9. under' = under
  BY <1>2, StepType DEF TypeInv, TypeOK
<1>10. {i \in Servers \X OpIds : records[i[1]][i[2]] # NoRecord}'
           = {i \in Servers \X OpIds : records[i[1]][i[2]] # NoRecord}
  BY ClaimedFrom, RecordsStay DEF Elsewhere
<1>11. {c \in Calls : committed[c]}' = {c \in Calls : committed[c]}
  BY WrittenFrom DEF Elsewhere, ToldInv
<1>12. QED
  BY <1>1, <1>3, <1>4, <1>5, <1>6, <1>7, <1>8, <1>9, <1>10, <1>11 DEF Guard!Turn, Guard!Widen

LEMMA PromiseInit == Init => Guard!GuardInit
BY DEF Init, LedgerInit, Guard!GuardInit, CoveredBy, ExemptBy, AnswerOf, StageOf, NoGrant

LEMMA PromiseNext == PromiseInv /\ [Next]_vars => [Guard!GuardNext]_(Guard!guardVars)
<1> SUFFICES ASSUME PromiseInv, [Next]_vars
             PROVE  Guard!GuardNext
  OBVIOUS
<1>1. CASE Elsewhere
  BY <1>1, TurnStep DEF Guard!GuardNext
<1>2. ASSUME NEW c \in Calls,
             \/ Judge(c) /\ phase'[c] = "judged"
             \/ Reserve(c) /\ phase'[c] = "reserved"
             \/ Execute(c) /\ phase'[c] = "running"
             \/ Run(c) /\ ~committed[c] /\ committed'[c]
             \/ Await(c) /\ phase'[c] = "asking"
             \/ Answered(c)
      PROVE  Guard!GuardNext
  <2>1. \/ \E g \in Grants : Guard!AskFor(c, g) \/ Guard!Clear(c, g)
        \/ Guard!Approve(c) \/ Guard!Deny(c)
        \/ Guard!Claim(c) \/ Guard!Start(c) \/ Guard!Commit(c)
    BY <1>2, ClearStep, ClaimStep, StartStep, CommitStep, AskForStep, AnsweredStep
  <2>2. QED
    BY <2>1 DEF Guard!GuardNext
<1>3. ASSUME NEW c \in Calls, NEW s \in Servers, NEW o \in OpIds, NEW w \in Writes,
             Call(c, s, o, w)
      PROVE  Guard!GuardNext
  <2>1. Guard!Arrive(c, <<s, o>>) /\ <<s, o>> \in Servers \X OpIds
    BY <1>3, ArriveStep
  <2>2. QED
    BY <2>1 DEF Guard!GuardNext
<1>4. QED
  BY <1>1, <1>2, <1>3 DEF Elsewhere

\* The write path implements GuardedWrite, for any calls, accesses and servers: a write starts
\* under an access that covers it and stands, cleared under that very access by the person's
\* yes or by what runs there without asking; it is claimed once; and answers are final.
THEOREM GuardedWriteImplemented == Spec => WritesAreGuarded
<1>1. Init => DraftKnown
  BY DEF Init, LedgerInit, DraftKnown
<1>2. TypeInv /\ ToldInv /\ DraftKnown /\ [Next]_vars => DraftKnown'
  BY DraftStep DEF ToldInv, AskedInv
<1>3. Spec => []PromiseInv
  BY <1>1, <1>2, TypeInvariant, ToldInvariant, RanInvariant, PTL DEF Spec, PromiseInv
<1>4. QED
  BY <1>3, PromiseInit, PromiseNext, PTL DEF Spec, WritesAreGuarded, Guard!GuardedSpec
=============================================================================
