--------------------------- MODULE PgSessionProofs ---------------------------
(***************************************************************************)
(* Proofs about a PostgreSQL session, for any runs, batches and fetches,   *)
(* of any length, in any order: what was reported done is kept unless two  *)
(* shared a transaction, and the screen shows the transaction there is     *)
(* unless it changed where the session does not look.                      *)
(***************************************************************************)
EXTENDS PgSession, SequenceTheorems, TLAPS

Ops == Runs \cup Batches \cup Reads
Phases == {"idle", "running", "failed", "heard", "said", "over", "writing", "closing", "undoing",
           "beginning", "reading", "fenced"}
States == {"idle", "active", "failed"}
Notes == [kind : {"changed", "noted"}, state : States]

ServerOK ==
    /\ tx \in {"none", "open", "aborted"} /\ readOnly \in BOOLEAN
    /\ inTx \subseteq Writes /\ committed \subseteq Writes
    /\ fence = NoFence \/ fence \subseteq Writes
OpsOK ==
    /\ op \in [Ops -> Phases]
    /\ \A r \in Runs : op[r] \in {"idle", "running", "failed", "heard", "said", "over"}
    /\ \A b \in Batches : op[b] \in {"idle", "writing", "closing", "undoing", "over"}
    /\ \A f \in Reads : op[f] \in {"idle", "beginning", "reading", "fenced", "over"}
RestOK ==
    /\ state \in States /\ screen \in States
    /\ news \in Seq(Notes)
    /\ count \in [Runs -> 0..MaxStatements]
    /\ noted \in [Runs -> {"nothing", "active", "idle"}]
    /\ personal \in 0..MaxPersonal
    /\ done \subseteq Writes /\ withdrawn \subseteq Writes /\ crowded \subseteq Writes
    /\ misled \subseteq Ways

\* The type, in three parts.
PgTyped == ServerOK /\ OpsOK /\ RestOK

\* What a statement makes of the server, whoever sends it.
LEMMA ServerType ==
    ASSUME ServerOK,
           \/ \E no \in BOOLEAN : ServerBegins(no)
           \/ ServerCommits \/ ServerRollsBack \/ ServerFails
           \/ \E w \in Writes : ServerTakes(w)
           \/ UNCHANGED serverVars
    PROVE  ServerOK'
<1>1. CASE \E no \in BOOLEAN : ServerBegins(no)
  BY <1>1 DEF ServerOK, ServerBegins
<1>2. CASE ServerCommits \/ ServerRollsBack
  BY <1>2 DEF ServerOK, ServerCommits, ServerRollsBack, NoTransaction
<1>3. CASE ServerFails
  BY <1>3 DEF ServerOK, ServerFails
<1>4. CASE \E w \in Writes : ServerTakes(w)
  BY <1>4 DEF ServerOK, ServerTakes
<1>5. CASE UNCHANGED serverVars
  BY <1>5 DEF ServerOK, serverVars
<1>6. QED
  BY <1>1, <1>2, <1>3, <1>4, <1>5

\* What is told to the loop.
LEMMA NewsType ==
    ASSUME RestOK, NEW k \in {"changed", "noted"}, NEW s \in States
    PROVE  /\ Append(news, [kind |-> k, state |-> s]) \in Seq(Notes)
           /\ \A l \in {"changed", "noted"}, t \in States :
                 news \o <<[kind |-> k, state |-> s]>> \o <<[kind |-> l, state |-> t]>> \in Seq(Notes)
           /\ news \o <<[kind |-> k, state |-> s]>> \o <<>> \in Seq(Notes)
<1>1. news \in Seq(Notes)
  BY DEF RestOK
<1>2. \A l \in {"changed", "noted"}, t \in States : [kind |-> l, state |-> t] \in Notes
  BY DEF Notes
<1>3. \A l \in {"changed", "noted"}, t \in States : <<[kind |-> l, state |-> t]>> \in Seq(Notes)
  BY <1>2
<1>4. <<>> \in Seq(Notes)
  OBVIOUS
<1>5. Append(news, [kind |-> k, state |-> s]) \in Seq(Notes)
  BY <1>1, <1>2, AppendProperties
<1>6. news \o <<[kind |-> k, state |-> s]>> \in Seq(Notes)
  BY <1>1, <1>3, ConcatProperties
<1>7. QED
  BY <1>3, <1>4, <1>5, <1>6, ConcatProperties

LEMMA KindsOfOps ==
    /\ \A r \in Runs : r \in Ops /\ r \notin Batches /\ r \notin Reads
    /\ \A b \in Batches : b \in Ops /\ b \notin Runs /\ b \notin Reads
    /\ \A f \in Reads : f \in Ops /\ f \notin Runs /\ f \notin Batches
BY PgSessionAssumption DEF Ops

LEMMA OpsMove ==
    ASSUME OpsOK, NEW o \in Ops, NEW p \in Phases, op' = [op EXCEPT ![o] = p],
           o \in Runs => p \in {"idle", "running", "failed", "heard", "said", "over"},
           o \in Batches => p \in {"idle", "writing", "closing", "undoing", "over"},
           o \in Reads => p \in {"idle", "beginning", "reading", "fenced", "over"}
    PROVE  OpsOK'
<1>1. \A q \in Ops : op'[q] = IF q = o THEN p ELSE op[q]
  BY DEF OpsOK
<1>2. op' \in [Ops -> Phases]
  BY DEF OpsOK
<1>3. QED
  BY <1>1, <1>2, KindsOfOps DEF OpsOK

LEMMA PgInitType == PgInit => PgTyped
<1> SUFFICES ASSUME PgInit
             PROVE  PgTyped
  OBVIOUS
<1>1. OpsOK
  BY DEF PgInit, OpsOK, Ops, Phases
<1>2. news \in Seq(Notes)
  BY DEF PgInit
<1>3. 0 \in 0..MaxStatements /\ 0 \in 0..MaxPersonal
  BY PgSessionAssumption
<1>4. QED
  BY <1>1, <1>2, <1>3 DEF PgInit, ServerOK, RestOK, States, PgTyped

LEMMA CrowdsType ==
    ASSUME ServerOK, RestOK, NEW by
    PROVE  /\ crowded \cup Crowds(by) \subseteq Writes /\ crowded \cup inTx \subseteq Writes
           /\ \A w \in Writes : crowded \cup CrowdsWith(by, w) \subseteq Writes
BY DEF ServerOK, RestOK, Crowds, CrowdsWith

LEMMA PersonType ==
    ASSUME PgTyped, PersonBegins \/ PersonCommits \/ PersonRollsBack
    PROVE  PgTyped'
<1>1. ServerOK /\ OpsOK /\ RestOK
  BY DEF PgTyped
<1>2. UNCHANGED <<screen, op, count, noted, done>> /\ personal' \in 0..MaxPersonal
  <2>1. Commands(TRUE)
    BY DEF PersonBegins, PersonCommits, PersonRollsBack, Commands
  <2>2. QED
    BY <1>1, <2>1, PgSessionAssumption DEF Commands, RestOK
<1>3. ServerOK'
  BY <1>1, ServerType DEF PersonBegins, PersonCommits, PersonRollsBack, PgTyped, ServerOK
<1>4. crowded' \subseteq Writes
  BY <1>1, CrowdsType DEF PersonBegins, PersonCommits, PersonRollsBack
<1>5. withdrawn' \subseteq Writes
  BY <1>1 DEF PersonBegins, PersonCommits, PersonRollsBack, ServerOK, RestOK
<1>6. state' \in States /\ news' \in Seq(Notes)
  BY <1>1, NewsType DEF PersonBegins, PersonCommits, PersonRollsBack, Tells, PgTyped, RestOK, States
<1>7. misled' \subseteq Ways
  BY <1>1 DEF PersonBegins, PersonCommits, PersonRollsBack, RestOK, SetRight, Misled, Ways
<1>8. QED
  BY <1>1, <1>2, <1>3, <1>4, <1>5, <1>6, <1>7 DEF OpsOK, RestOK, PgTyped

LEMMA HearType ==
    ASSUME PgTyped, HearSession
    PROVE  PgTyped'
<1>1. ServerOK /\ OpsOK /\ RestOK
  BY DEF PgTyped
<1>2. news' \in Seq(Notes) /\ Head(news) \in Notes
  BY <1>1, HeadTailProperties DEF HearSession, RestOK
<1>3. screen' \in States
  BY <1>2 DEF HearSession, Notes
<1>4. QED
  BY <1>1, <1>2, <1>3
     DEF HearSession, serverVars, pgHistory, ServerOK, OpsOK, RestOK, PgTyped

LEMMA RunFailsType ==
    ASSUME PgTyped, NEW r \in Runs, RunFails(r)
    PROVE  ServerOK' /\ OpsOK' /\ news' \in Seq(Notes)
<1>1. ServerOK /\ OpsOK /\ RestOK
  BY DEF PgTyped
<1>2. ServerOK'
  BY <1>1, ServerType DEF RunFails, PgTyped, ServerOK
<1>3. OpsOK'
  BY <1>1, OpsMove, KindsOfOps DEF RunFails, At, Phases
<1>4. news' \in Seq(Notes)
  BY <1>1, NewsType DEF RunFails, PgTyped, RestOK, States
<1>5. QED
  BY <1>2, <1>3, <1>4

LEMMA StatementType ==
    ASSUME PgTyped, NEW r \in Runs, Statement(r)
    PROVE  /\ count' \in [Runs -> 0..MaxStatements] /\ <<r, count[r] + 1>> \in Writes
           /\ UNCHANGED <<state, screen, personal>>
<1>1. count[r] \in 0..MaxStatements /\ count[r] < MaxStatements /\ count \in [Runs -> 0..MaxStatements]
  BY DEF PgTyped, RestOK, Statement
<1>2. count[r] + 1 \in 1..MaxStatements /\ count[r] + 1 \in 0..MaxStatements
  BY <1>1, PgSessionAssumption
<1>3. QED
  BY <1>1, <1>2 DEF Statement, Writes

LEMMA RunType ==
    ASSUME PgTyped, NEW r \in Runs,
           \/ RunBegins(r) \/ RunWrites(r) \/ RunTypesBegin(r) \/ RunTypesEnd(r)
           \/ SessionHearsOfFailure(r) \/ FailedRunTells(r) \/ RunEnds(r)
    PROVE  PgTyped'
<1>1. ServerOK /\ OpsOK /\ RestOK
  BY DEF PgTyped
<1>2. CASE RunBegins(r)
  <2>1. OpsOK'
    BY <1>1, <1>2, OpsMove, KindsOfOps DEF RunBegins, At, Phases
  <2>2. QED
    BY <1>1, <1>2, <2>1 DEF RunBegins, serverVars, pgHistory, ServerOK, RestOK, PgTyped
<1>3. CASE RunWrites(r)
  <2>1. /\ count' \in [Runs -> 0..MaxStatements] /\ <<r, count[r] + 1>> \in Writes
        /\ UNCHANGED <<state, screen, personal, noted, withdrawn, misled>>
    BY <1>3, StatementType DEF RunWrites
  <2>2. ServerOK'
    <3>1. CASE ServerTakes(<<r, count[r] + 1>>)
      BY <2>1, <3>1, ServerType DEF PgTyped, ServerOK
    <3>2. CASE RunFails(r)
      BY <3>2, RunFailsType
    <3>3. QED
      BY <1>3, <3>1, <3>2 DEF RunWrites
  <2>3. OpsOK' /\ news' \in Seq(Notes)
    BY <1>1, <1>3, RunFailsType DEF RunWrites, OpsOK, RestOK
  <2>4. done' \subseteq Writes /\ crowded' \subseteq Writes
    BY <1>1, <1>3, <2>1, CrowdsType DEF RunWrites, RestOK
  <2>5. QED
    BY <1>1, <2>1, <2>2, <2>3, <2>4 DEF RestOK, PgTyped
<1>4. CASE RunTypesBegin(r)
  <2>1. /\ count' \in [Runs -> 0..MaxStatements]
        /\ UNCHANGED <<state, screen, personal, done, withdrawn>>
    BY <1>4, StatementType DEF RunTypesBegin
  <2>2. ServerOK' /\ OpsOK' /\ news' \in Seq(Notes)
    <3>1. CASE ServerBegins(FALSE) /\ UNCHANGED <<op, news>>
      BY <1>1, <3>1, ServerType DEF PgTyped, ServerOK, OpsOK, RestOK
    <3>2. CASE RunFails(r)
      BY <3>2, RunFailsType
    <3>3. QED
      BY <1>4, <3>1, <3>2 DEF RunTypesBegin
  <2>3. crowded' \subseteq Writes /\ misled' \subseteq Ways
    BY <1>1, <1>4, CrowdsType DEF RunTypesBegin, RestOK, Misled, Ways
  <2>4. noted' \in [Runs -> {"nothing", "active", "idle"}]
    BY <1>1, <1>4 DEF RunTypesBegin, RestOK
  <2>5. QED
    BY <1>1, <2>1, <2>2, <2>3, <2>4 DEF RestOK, PgTyped
<1>5. CASE RunTypesEnd(r)
  <2>1. /\ count' \in [Runs -> 0..MaxStatements]
        /\ UNCHANGED <<state, screen, personal, op, news, done>>
    BY <1>5, StatementType DEF RunTypesEnd
  <2>2. ServerOK'
    BY <1>5, ServerType DEF RunTypesEnd, PgTyped, ServerOK
  <2>3. crowded' \subseteq Writes /\ withdrawn' \subseteq Writes
    BY <1>1, <1>5, CrowdsType DEF RunTypesEnd, RestOK, ServerOK
  <2>4. noted' \in [Runs -> {"nothing", "active", "idle"}] /\ misled' \subseteq Ways
    BY <1>1, <1>5 DEF RunTypesEnd, RestOK, Misled, Ways
  <2>5. QED
    BY <1>1, <2>1, <2>2, <2>3, <2>4 DEF OpsOK, RestOK, PgTyped
<1>6. CASE SessionHearsOfFailure(r)
  <2>1. OpsOK'
    BY <1>1, <1>6, OpsMove, KindsOfOps DEF SessionHearsOfFailure, At, Phases
  <2>2. state' \in States
    BY <1>1, <1>6 DEF SessionHearsOfFailure, Aborted, RestOK, States
  <2>3. misled' \subseteq Ways
    BY <1>1, <1>6 DEF SessionHearsOfFailure, RestOK, Misled, Ways
  <2>4. QED
    BY <1>1, <1>6, <2>1, <2>2, <2>3 DEF SessionHearsOfFailure, serverVars, ServerOK, RestOK, PgTyped
<1>7. CASE FailedRunTells(r)
  <2>1. OpsOK'
    BY <1>1, <1>7, OpsMove, KindsOfOps DEF FailedRunTells, At, Phases
  <2>2. news' \in Seq(Notes)
    BY <1>1, <1>7, NewsType DEF FailedRunTells, Tells, RestOK, PgTyped
  <2>3. QED
    BY <1>1, <1>7, <2>1, <2>2
       DEF FailedRunTells, serverVars, pgHistory, ServerOK, RestOK, PgTyped
<1>8. CASE RunEnds(r)
  <2>1. OpsOK'
    BY <1>1, <1>8, OpsMove, KindsOfOps DEF RunEnds, At, Phases
  <2>2. news' \in Seq(Notes)
    BY <1>1, <1>8, NewsType DEF RunEnds, RestOK, PgTyped, States
  <2>3. QED
    BY <1>1, <1>8, <2>1, <2>2
       DEF RunEnds, serverVars, pgHistory, ServerOK, RestOK, PgTyped
<1>9. QED
  BY <1>2, <1>3, <1>4, <1>5, <1>6, <1>7, <1>8

LEMMA BatchType ==
    ASSUME PgTyped, NEW b \in Batches, BatchBegins(b) \/ BatchWrites(b) \/ BatchCloses(b)
    PROVE  PgTyped'
<1>1. ServerOK /\ OpsOK /\ RestOK /\ <<b, 1>> \in Writes
  BY DEF PgTyped, Writes
<1>2. UNCHANGED <<state, screen, news, count, noted, personal, withdrawn>>
  BY DEF BatchBegins, BatchWrites, BatchCloses, batchKept
<1>3. ServerOK'
  BY <1>1, ServerType DEF BatchBegins, BatchWrites, BatchCloses, PgTyped, ServerOK
<1>4. OpsOK'
  BY <1>1, OpsMove, KindsOfOps DEF BatchBegins, BatchWrites, BatchCloses, At, Phases
<1>5. crowded' \subseteq Writes
  BY <1>1, CrowdsType DEF BatchBegins, BatchWrites, BatchCloses
<1>6. done' \subseteq Writes /\ misled' \subseteq Ways
  BY <1>1 DEF BatchBegins, BatchWrites, BatchCloses, RestOK, Misled, Ways
<1>7. QED
  BY <1>1, <1>2, <1>3, <1>4, <1>5, <1>6 DEF RestOK, PgTyped

LEMMA FetchType ==
    ASSUME PgTyped, NEW f \in Reads,
           FetchBegins(f) \/ FetchBeginsOwn(f) \/ FetchReads(f) \/ FetchEnds(f)
    PROVE  PgTyped'
<1>1. ServerOK /\ OpsOK /\ RestOK
  BY DEF PgTyped
<1>2. UNCHANGED <<state, screen, news, count, noted, personal, done, withdrawn>>
  BY DEF FetchBegins, FetchBeginsOwn, FetchReads, FetchEnds, fetchKept
<1>3. ServerOK'
  <2>1. CASE FetchBegins(f)
    BY <1>1, <2>1 DEF FetchBegins, ServerOK
  <2>2. CASE FetchBeginsOwn(f) \/ FetchReads(f)
    BY <2>2, ServerType DEF FetchBeginsOwn, FetchReads, PgTyped, ServerOK
  <2>3. CASE FetchEnds(f)
    <3>1. CASE ServerRollsBack \/ ServerFails
      BY <3>1, ServerType DEF PgTyped, ServerOK
    <3>2. CASE ~(ServerRollsBack \/ ServerFails)
      BY <1>1, <2>3, <3>2 DEF FetchEnds, ServerOK
    <3>3. QED
      BY <3>1, <3>2
  <2>4. QED
    BY <2>1, <2>2, <2>3
<1>4. OpsOK'
  <2>1. CASE FetchReads(f)
    BY <1>1, <2>1 DEF FetchReads, OpsOK
  <2>2. CASE FetchBegins(f) \/ FetchBeginsOwn(f) \/ FetchEnds(f)
    BY <1>1, <2>2, OpsMove, KindsOfOps DEF FetchBegins, FetchBeginsOwn, FetchEnds, At, Phases
  <2>3. QED
    BY <2>1, <2>2
<1>5. crowded' \subseteq Writes
  BY <1>1, CrowdsType DEF FetchBegins, FetchBeginsOwn, FetchReads, FetchEnds
<1>6. misled' \subseteq Ways
  BY <1>1 DEF FetchBegins, FetchBeginsOwn, FetchReads, FetchEnds, RestOK, Misled, Ways
<1>7. QED
  BY <1>1, <1>2, <1>3, <1>4, <1>5, <1>6 DEF RestOK, PgTyped

LEMMA PgNextType == PgTyped /\ [PgNext]_pgVars => PgTyped'
<1> SUFFICES ASSUME PgTyped, [PgNext]_pgVars
             PROVE  PgTyped'
  OBVIOUS
<1>1. CASE UNCHANGED pgVars
  BY <1>1 DEF pgVars, serverVars, pgHistory, PgTyped, ServerOK, OpsOK, RestOK
<1>2. CASE PgNext
  BY <1>2, PersonType, HearType, RunType, BatchType, FetchType DEF PgNext
<1>3. QED
  BY <1>1, <1>2

\* For any runs, batches and fetches, the session, the server and the screen keep their types.
THEOREM PgTypes == PgSpec => []PgTypeOK
<1>1. PgTyped => PgTypeOK
  BY DEF PgTyped, ServerOK, OpsOK, RestOK, PgTypeOK, Notes, States
<1>2. QED
  BY <1>1, PgInitType, PgNextType, PTL DEF PgSpec

-----------------------------------------------------------------------------
(* What was reported done is kept. *)

\* A batch, and a fetch in a transaction of its own, end the transaction that is open.
Ending(o) ==
    \/ o \in Batches /\ op[o] \in {"writing", "closing", "undoing"}
    \/ o \in Reads /\ op[o] = "reading"
Safe == committed \cup withdrawn \cup crowded

\* What somebody is about to roll back was not done, or is crowded; a batch that has its
\* write has it in an open transaction, or elsewhere.
DoneInv ==
    /\ tx = "none" => inTx = {} /\ fence = NoFence
    /\ done \subseteq Safe \cup inTx
    /\ \A o \in Ops : Ending(o) => done \cap inTx \subseteq crowded
    /\ fence # NoFence =>
          /\ \E f \in Reads : op[f] = "fenced"
          /\ (done \cap inTx) \ fence \subseteq crowded
    /\ \A b \in Batches :
          /\ op[b] # "over" => <<b, 1>> \notin done
          /\ op[b] = "closing" => <<b, 1>> \in Safe \/ (<<b, 1>> \in inTx /\ tx = "open")

LEMMA KeptInit == PgInit => DoneInv
BY KindsOfOps DEF PgInit, DoneInv, Ending, Ops

LEMMA InOthersBrackets ==
    ASSUME NEW o \in Ops, NEW by, o # by,
           Ending(o) \/ (o \in Reads /\ op[o] = "fenced")
    PROVE  InBrackets \ {by} # {}
BY DEF Ending, InBrackets

\* Steps that take no write out of the transaction but to where it is safe, and add none
\* that is done.
LEMMA NothingLost ==
    ASSUME PgTyped, DoneInv, done' = done, committed \subseteq committed',
           withdrawn \subseteq withdrawn', crowded \subseteq crowded',
           inTx' \subseteq inTx, done \cap inTx \subseteq inTx' \cup Safe',
           tx' = "none" => inTx' = {} /\ fence' = NoFence,
           \A b \in Batches :
               op[b] = "closing" /\ op'[b] = "closing" /\ <<b, 1>> \in inTx /\ tx = "open" =>
                   <<b, 1>> \in Safe' \/ (<<b, 1>> \in inTx' /\ tx' = "open"),
           fence' \in {fence, NoFence},
           NEW o, NEW p, op' = op \/ (o \in Ops /\ op' = [op EXCEPT ![o] = p]),
           op' # op => /\ p \notin {"writing", "closing", "undoing", "reading"}
                       /\ o \in Batches => p = "over" \/ op[o] # "over"
                       /\ op[o] = "fenced" => fence' = NoFence
    PROVE  DoneInv'
<1>1. \A q \in Ops : op'[q] = op[q] \/ (q = o /\ op'[q] = p /\ op' # op)
  BY DEF PgTyped, OpsOK
<1>2. \A q \in Ops : Ending(q)' => Ending(q)
  BY <1>1, KindsOfOps DEF Ending
<1>3. done' \subseteq Safe' \cup inTx'
  BY DEF DoneInv, Safe
<1>4. \A q \in Ops : Ending(q)' => done' \cap inTx' \subseteq crowded'
  BY <1>2 DEF DoneInv
<1>5. fence' # NoFence =>
          /\ \E f \in Reads : op'[f] = "fenced"
          /\ (done' \cap inTx') \ fence' \subseteq crowded'
  <2> SUFFICES ASSUME fence' # NoFence
               PROVE  /\ \E f \in Reads : op'[f] = "fenced"
                      /\ (done' \cap inTx') \ fence' \subseteq crowded'
    OBVIOUS
  <2>1. fence' = fence /\ fence # NoFence
    OBVIOUS
  <2>2. PICK f \in Reads : op[f] = "fenced"
    BY <2>1 DEF DoneInv
  <2>3. op'[f] = "fenced"
    BY <1>1, <2>2, KindsOfOps
  <2>4. QED
    BY <2>1, <2>3 DEF DoneInv
<1>6. ASSUME NEW b \in Batches
      PROVE  /\ op'[b] # "over" => <<b, 1>> \notin done'
             /\ op'[b] = "closing" => <<b, 1>> \in Safe' \/ (<<b, 1>> \in inTx' /\ tx' = "open")
  <2>1. op'[b] # "over" => op[b] # "over"
    BY <1>1, KindsOfOps
  <2>2. op'[b] = "closing" => op[b] = "closing"
    BY <1>1, KindsOfOps
  <2>3. <<b, 1>> \in Safe => <<b, 1>> \in Safe'
    BY DEF Safe
  <2>4. QED
    BY <2>1, <2>2, <2>3 DEF DoneInv
<1>7. QED
  BY <1>3, <1>4, <1>5, <1>6 DEF DoneInv

LEMMA PersonKeeps ==
    ASSUME PgTyped, DoneInv, PersonBegins \/ PersonCommits \/ PersonRollsBack
    PROVE  DoneInv'
<1>1. /\ done' = done /\ op' = op /\ committed \subseteq committed'
      /\ withdrawn \subseteq withdrawn' /\ crowded \subseteq crowded'
  BY DEF PersonBegins, PersonCommits, PersonRollsBack, Commands, ServerBegins, ServerCommits,
         ServerRollsBack, serverVars
<1>2. CASE PersonBegins
  <2>1. inTx' = inTx /\ fence' = fence /\ (tx = "open" => tx' = "open") /\ (tx' = "none" => tx = "none")
    BY <1>2 DEF PersonBegins, ServerBegins, serverVars
  <2>2. QED
    BY <1>1, <2>1, NothingLost DEF DoneInv
<1>3. CASE PersonCommits \/ PersonRollsBack
  <2>1. inTx' = {} /\ fence' = NoFence /\ tx' = "none"
    BY <1>3 DEF PersonCommits, PersonRollsBack, ServerCommits, ServerRollsBack, NoTransaction
  <2>2. inTx \subseteq Safe'
    BY <1>3 DEF PersonCommits, PersonRollsBack, ServerCommits, ServerRollsBack, DoneInv, Safe,
                PgTyped, ServerOK
  <2>3. QED
    BY <1>1, <2>1, <2>2, NothingLost
<1>4. QED
  BY <1>2, <1>3

\* Who sends a statement while a batch has its write crowds it.
LEMMA ClosingIsCrowded ==
    ASSUME PgTyped, NEW b \in Batches, op[b] = "closing", NEW by, by # b
    PROVE  Crowds(by) = inTx /\ \A w \in Writes : CrowdsWith(by, w) = inTx \cup {w}
BY KindsOfOps, InOthersBrackets DEF Crowds, CrowdsWith, Ending

\* A statement that fails takes nothing out.
LEMMA FailureKeeps ==
    ASSUME PgTyped, DoneInv, ServerFails, done' = done, withdrawn' = withdrawn, NEW by,
           crowded \cup Crowds(by) \subseteq crowded',
           NEW p, op' = op \/ (by \in Ops /\ op' = [op EXCEPT ![by] = p]),
           by \in Batches => op'[by] # "closing",
           op' # op => /\ p \notin {"writing", "closing", "undoing", "reading"}
                       /\ by \in Batches => p = "over" \/ op[by] # "over"
                       /\ op[by] # "fenced"
    PROVE  DoneInv'
<1>1. /\ committed' = committed /\ inTx' = inTx /\ fence' = fence
      /\ tx' = "none" => tx = "none"
  BY DEF ServerFails
<1>2. \A b \in Batches : op[b] = "closing" /\ op'[b] = "closing" => inTx \subseteq Safe'
  BY ClosingIsCrowded DEF Safe
<1>3. QED
  BY <1>1, <1>2, NothingLost DEF DoneInv

\* A write that the server takes.
LEMMA RunWritesKeeps ==
    ASSUME PgTyped, DoneInv, NEW r \in Runs, RunWrites(r)
    PROVE  DoneInv'
<1> DEFINE w == <<r, count[r] + 1>>
<1>1. w \in Writes
  BY StatementType DEF RunWrites
<1>2. r \in Ops /\ \A b \in Batches : w # <<b, 1>>
  BY KindsOfOps
<1> HIDE DEF w
<1>3. CASE RunFails(r) /\ done' = done
  <2>1. op' = [op EXCEPT ![r] = "failed"] /\ ServerFails /\ op[r] = "running"
    BY <1>3 DEF RunWrites, RunFails, At, Statement
  <2>2. withdrawn' = withdrawn /\ crowded \cup Crowds(r) \subseteq crowded'
    BY DEF RunWrites, Crowds, CrowdsWith
  <2>3. QED
    BY <1>2, <1>3, <2>1, <2>2, KindsOfOps, FailureKeeps
<1>4. CASE ServerTakes(w) /\ done' = done \cup {w} /\ op' = op
  <2>1. withdrawn' = withdrawn /\ crowded' = crowded \cup CrowdsWith(r, w)
    BY DEF RunWrites, w
  <2>2. /\ tx' = tx /\ fence' = fence /\ committed \subseteq committed' /\ inTx \subseteq inTx'
        /\ inTx' \subseteq inTx \cup {w} /\ w \in inTx' \cup committed'
        /\ tx = "none" => inTx' = inTx
    BY <1>4 DEF ServerTakes
  <2>3. \A q \in Ops : Ending(q)' <=> Ending(q)
    BY <1>4 DEF Ending
  <2>4. \A q \in Ops : Ending(q) \/ (q \in Reads /\ op[q] = "fenced") => inTx' \subseteq crowded'
    <3>1. \A q \in Ops : Ending(q) \/ (q \in Reads /\ op[q] = "fenced") => q # r
      BY KindsOfOps DEF Ending
    <3>2. QED
      BY <2>1, <2>2, <3>1, InOthersBrackets DEF CrowdsWith
  <2>5. done' \subseteq Safe' \cup inTx'
    BY <1>4, <2>1, <2>2 DEF DoneInv, Safe
  <2>6. fence' # NoFence =>
            /\ \E f \in Reads : op'[f] = "fenced"
            /\ (done' \cap inTx') \ fence' \subseteq crowded'
    BY <1>4, <2>2, <2>4, KindsOfOps DEF DoneInv
  <2>7. ASSUME NEW b \in Batches
        PROVE  /\ op'[b] # "over" => <<b, 1>> \notin done'
               /\ op'[b] = "closing" => <<b, 1>> \in Safe' \/ (<<b, 1>> \in inTx' /\ tx' = "open")
    BY <1>2, <1>4, <2>1, <2>2 DEF DoneInv, Safe
  <2>8. tx' = "none" => inTx' = {} /\ fence' = NoFence
    BY <2>2 DEF DoneInv
  <2>9. QED
    BY <2>3, <2>4, <2>5, <2>6, <2>7, <2>8 DEF DoneInv
<1>5. QED
  BY <1>3, <1>4 DEF RunWrites, w

LEMMA RunKeeps ==
    ASSUME PgTyped, DoneInv, NEW r \in Runs,
           \/ RunBegins(r) \/ RunTypesBegin(r) \/ RunTypesEnd(r)
           \/ SessionHearsOfFailure(r) \/ FailedRunTells(r) \/ RunEnds(r)
    PROVE  DoneInv'
<1>1. r \in Ops /\ r \notin Batches /\ r \notin Reads
  BY KindsOfOps
<1>2. CASE RunBegins(r) \/ SessionHearsOfFailure(r) \/ FailedRunTells(r) \/ RunEnds(r)
  <2>1. UNCHANGED <<tx, inTx, committed, fence, done, withdrawn, crowded>>
    BY <1>2 DEF RunBegins, SessionHearsOfFailure, FailedRunTells, RunEnds, serverVars, pgHistory
  <2>2. \E p \in {"running", "heard", "said", "over"} : op' = [op EXCEPT ![r] = p]
    BY <1>2 DEF RunBegins, SessionHearsOfFailure, FailedRunTells, RunEnds, At
  <2>3. op[r] # "fenced"
    BY <1>1 DEF PgTyped, OpsOK
  <2>4. QED
    BY <1>1, <2>1, <2>2, <2>3, NothingLost DEF DoneInv
<1>3. CASE RunTypesBegin(r)
  <2>1. done' = done /\ withdrawn' = withdrawn /\ crowded' = crowded \cup Crowds(r)
    BY <1>3 DEF RunTypesBegin
  <2>2. CASE ServerBegins(FALSE) /\ op' = op
    <3>1. /\ inTx' = inTx /\ fence' = fence /\ committed' = committed
          /\ tx' = "open"
      BY <2>2 DEF ServerBegins
    <3>2. QED
      BY <2>1, <2>2, <3>1, NothingLost DEF DoneInv
  <2>3. CASE RunFails(r)
    <3>1. op' = [op EXCEPT ![r] = "failed"] /\ ServerFails /\ op[r] = "running"
      BY <1>3, <2>3 DEF RunTypesBegin, RunFails, At, Statement
    <3>2. QED
      BY <1>1, <2>1, <3>1, FailureKeeps
  <2>4. QED
    BY <1>3, <2>2, <2>3 DEF RunTypesBegin
<1>4. CASE RunTypesEnd(r)
  <2>1. /\ inTx' = {} /\ fence' = NoFence /\ tx' = "none"
        /\ done' = done /\ op' = op /\ committed \subseteq committed'
        /\ withdrawn \subseteq withdrawn' /\ crowded \subseteq crowded'
    BY <1>4 DEF RunTypesEnd, ServerCommits, ServerRollsBack, NoTransaction
  <2>2. inTx \subseteq Safe'
    BY <1>4 DEF RunTypesEnd, ServerCommits, ServerRollsBack, DoneInv, Safe, PgTyped, ServerOK
  <2>3. QED
    BY <2>1, <2>2, NothingLost
<1>5. QED
  BY <1>2, <1>3, <1>4

LEMMA BatchBeginsKeeps ==
    ASSUME PgTyped, DoneInv, NEW b \in Batches, BatchBegins(b)
    PROVE  DoneInv'
<1>1. b \in Ops /\ b \notin Runs /\ b \notin Reads /\ op[b] = "idle"
  BY KindsOfOps DEF BatchBegins, AtStart
<1>2. done' = done /\ withdrawn' = withdrawn /\ crowded' = crowded \cup inTx
  BY DEF BatchBegins, batchKept
<1>3. CASE op' = [op EXCEPT ![b] = "over"] /\ UNCHANGED serverVars
  BY <1>1, <1>2, <1>3, NothingLost DEF DoneInv, serverVars
<1>4. CASE op' = [op EXCEPT ![b] = "writing"] /\ ServerBegins(FALSE)
  <2>1. inTx' = inTx /\ fence' = fence /\ committed' = committed /\ tx' = "open"
    BY <1>4 DEF ServerBegins
  <2>2. \A q \in Ops : op'[q] = IF q = b THEN "writing" ELSE op[q]
    BY <1>4 DEF PgTyped, OpsOK
  <2>3. \A f \in Reads : f \in Ops /\ f # b
    BY <1>1 DEF Ops
  <2>4. \A c \in Batches : c \in Ops
    BY DEF Ops
  <2>5. QED
    BY <1>1, <1>2, <2>1, <2>2, <2>3, <2>4 DEF DoneInv, Safe
<1>5. QED
  BY <1>3, <1>4 DEF BatchBegins, At

LEMMA BatchWritesKeeps ==
    ASSUME PgTyped, DoneInv, NEW b \in Batches, BatchWrites(b)
    PROVE  DoneInv'
<1>1. b \in Ops /\ b \notin Runs /\ b \notin Reads /\ op[b] = "writing" /\ <<b, 1>> \in Writes
  BY KindsOfOps DEF BatchWrites, Writes
<1>2. /\ done' = done /\ withdrawn' = withdrawn
      /\ crowded' = crowded \cup CrowdsWith(b, <<b, 1>>)
  BY DEF BatchWrites, batchKept
<1>3. Ending(b) /\ <<b, 1>> \notin done /\ done \cap inTx \subseteq crowded
  BY <1>1 DEF Ending, DoneInv
<1>4. \A f \in Reads : f \in Ops /\ f # b
  BY <1>1 DEF Ops
<1>5. \A c \in Batches : c \in Ops
  BY DEF Ops
<1>6. CASE ServerTakes(<<b, 1>>) /\ op' = [op EXCEPT ![b] = "closing"]
  <2>1. \A q \in Ops : op'[q] = IF q = b THEN "closing" ELSE op[q]
    BY <1>6 DEF PgTyped, OpsOK
  <2>2. /\ tx' = tx /\ fence' = fence /\ committed \subseteq committed' /\ inTx \subseteq inTx'
        /\ inTx' \subseteq inTx \cup {<<b, 1>>}
        /\ <<b, 1>> \in committed' \/ (<<b, 1>> \in inTx' /\ tx' = "open")
        /\ tx = "none" => inTx' = inTx
    BY <1>6 DEF ServerTakes
  <2>3. done' \cap inTx' \subseteq crowded'
    BY <1>2, <1>3, <2>2
  <2>4. QED
    BY <1>1, <1>2, <1>4, <1>5, <2>1, <2>2, <2>3 DEF DoneInv, Safe
<1>7. CASE ServerFails /\ op' = [op EXCEPT ![b] = "undoing"]
  <2>1. \A q \in Ops : op'[q] = IF q = b THEN "undoing" ELSE op[q]
    BY <1>7 DEF PgTyped, OpsOK
  <2>2. committed' = committed /\ inTx' = inTx /\ fence' = fence /\ (tx' = "none" => tx = "none")
    BY <1>7 DEF ServerFails
  <2>3. \A c \in Batches : op'[c] = "closing" => <<c, 1>> \in Safe'
    <3>1. ASSUME NEW c \in Batches, op'[c] = "closing"
          PROVE  <<c, 1>> \in Safe'
      <4>1. c # b /\ op[c] = "closing"
        BY <1>5, <2>1, <3>1
      <4>2. inTx \subseteq crowded'
        BY <1>1, <1>2, <4>1, ClosingIsCrowded
      <4>3. QED
        BY <1>2, <2>2, <4>1, <4>2 DEF DoneInv, Safe
    <3>2. QED
      BY <3>1
  <2>4. QED
    BY <1>1, <1>2, <1>3, <1>4, <1>5, <2>1, <2>2, <2>3 DEF DoneInv, Safe
<1>8. QED
  BY <1>6, <1>7 DEF BatchWrites, At

LEMMA BatchClosesKeeps ==
    ASSUME PgTyped, DoneInv, NEW b \in Batches, BatchCloses(b)
    PROVE  DoneInv'
<1>1. b \in Ops /\ b \notin Reads /\ op[b] \in {"closing", "undoing"} /\ Ending(b)
  BY KindsOfOps DEF BatchCloses, Ending
<1>2. /\ inTx' = {} /\ fence' = NoFence /\ tx' = "none"
      /\ withdrawn' = withdrawn /\ crowded' = crowded \cup Crowds(b)
      /\ op' = [op EXCEPT ![b] = "over"]
  BY DEF BatchCloses, batchKept, ServerCommits, ServerRollsBack, NoTransaction, At
<1>3. committed \subseteq committed'
  BY DEF BatchCloses, ServerCommits, ServerRollsBack
<1>4. \A q \in Ops : op'[q] = IF q = b THEN "over" ELSE op[q]
  BY <1>2 DEF PgTyped, OpsOK
<1>5. done' \subseteq Safe'
  <2>1. done \subseteq Safe'
    BY <1>1, <1>2, <1>3 DEF DoneInv, Safe
  <2>2. CASE done' = done
    BY <2>1, <2>2
  <2>3. CASE op[b] = "closing" /\ ServerCommits /\ done' = done \cup {<<b, 1>>}
    BY <1>2, <1>3, <2>1, <2>3 DEF DoneInv, Safe, ServerCommits
  <2>4. QED
    BY <2>2, <2>3 DEF BatchCloses
<1>6. ASSUME NEW c \in Batches
      PROVE  /\ op'[c] # "over" => <<c, 1>> \notin done'
             /\ op'[c] = "closing" => <<c, 1>> \in Safe'
  <2>1. c \in Ops
    BY DEF Ops
  <2>2. op'[c] # "over" => c # b /\ <<c, 1>> \notin done
    BY <1>4, <2>1 DEF DoneInv
  <2>3. done' \subseteq done \cup {<<b, 1>>}
    BY DEF BatchCloses
  <2>4. ASSUME op'[c] = "closing"
        PROVE  <<c, 1>> \in Safe'
    <3>1. c # b /\ op[c] = "closing"
      BY <1>4, <2>1, <2>4
    <3>2. inTx \subseteq crowded'
      BY <1>2, <3>1, ClosingIsCrowded
    <3>3. QED
      BY <1>2, <1>3, <3>1, <3>2 DEF DoneInv, Safe
  <2>5. QED
    BY <2>2, <2>3, <2>4
<1>7. QED
  BY <1>2, <1>5, <1>6 DEF DoneInv

LEMMA FetchKeeps ==
    ASSUME PgTyped, DoneInv, NEW f \in Reads,
           FetchBegins(f) \/ FetchBeginsOwn(f) \/ FetchReads(f) \/ FetchEnds(f)
    PROVE  DoneInv'
<1>1. f \in Ops /\ f \notin Batches /\ f \notin Runs
  BY KindsOfOps
<1>2. done' = done /\ withdrawn' = withdrawn /\ crowded \subseteq crowded'
  BY DEF FetchBegins, FetchBeginsOwn, FetchReads, FetchEnds, fetchKept
<1>3. \A p : op' = [op EXCEPT ![f] = p] => \A q \in Ops : op'[q] = IF q = f THEN p ELSE op[q]
  BY DEF PgTyped, OpsOK
<1>4. CASE FetchBegins(f)
  <2>1. UNCHANGED <<tx, inTx, committed>> /\ op[f] = "idle"
    BY <1>4 DEF FetchBegins, AtStart
  <2>2. CASE tx = "open" /\ fence' = inTx /\ op' = [op EXCEPT ![f] = "fenced"]
    <3>1. \A q \in Ops : op'[q] = IF q = f THEN "fenced" ELSE op[q]
      BY <1>3, <2>2
    <3>2. op'[f] = "fenced" /\ \A b \in Batches : b \in Ops /\ b # f
      BY <1>1, <3>1 DEF Ops
    <3>3. \A q \in Ops : Ending(q)' => Ending(q)
      BY <1>1, <3>1, <3>2 DEF Ending
    <3>4. QED
      BY <1>2, <2>1, <2>2, <3>1, <3>2, <3>3 DEF DoneInv, Safe
  <2>3. CASE UNCHANGED fence /\ \E p \in {"beginning", "over"} : op' = [op EXCEPT ![f] = p]
    BY <1>1, <1>2, <2>1, <2>3, NothingLost DEF DoneInv
  <2>4. QED
    BY <1>4, <2>2, <2>3 DEF FetchBegins, At
<1>5. CASE FetchBeginsOwn(f)
  <2>1. op[f] = "beginning" /\ crowded' = crowded \cup inTx
    BY <1>5 DEF FetchBeginsOwn
  <2>2. CASE ServerBegins(TRUE) /\ op' = [op EXCEPT ![f] = "reading"]
    <3>1. inTx' = inTx /\ fence' = fence /\ committed' = committed /\ tx' = "open"
      BY <2>2 DEF ServerBegins
    <3>2. \A q \in Ops : op'[q] = IF q = f THEN "reading" ELSE op[q]
      BY <1>3, <2>2
    <3>3. \A g \in Reads : g \in Ops
      BY DEF Ops
    <3>4. \A b \in Batches : b \in Ops /\ b # f
      BY <1>1 DEF Ops
    <3>5. QED
      BY <1>2, <2>1, <3>1, <3>2, <3>3, <3>4 DEF DoneInv, Safe
  <2>3. CASE UNCHANGED serverVars /\ op' = [op EXCEPT ![f] = "over"]
    BY <1>1, <1>2, <2>1, <2>3, NothingLost DEF DoneInv, serverVars
  <2>4. QED
    BY <1>5, <2>2, <2>3 DEF FetchBeginsOwn, At
<1>6. CASE FetchReads(f)
  BY <1>1, <1>2, <1>6, FailureKeeps DEF FetchReads
<1>7. CASE FetchEnds(f)
  <2>1. op' = [op EXCEPT ![f] = "over"] /\ crowded' = crowded \cup Crowds(f)
    BY <1>7 DEF FetchEnds, At
  <2>2. \A b \in Batches : op[b] = "closing" => inTx \subseteq Safe'
    <3>1. \A b \in Batches : b # f
      BY <1>1
    <3>2. QED
      BY <2>1, <3>1, ClosingIsCrowded DEF Safe
  <2>3. CASE op[f] = "reading" /\ ServerRollsBack
    <3>1. inTx' = {} /\ fence' = NoFence /\ tx' = "none" /\ committed' = committed
      BY <2>3 DEF ServerRollsBack, NoTransaction
    <3>2. done \cap inTx \subseteq Safe'
      BY <1>1, <1>2, <2>3 DEF DoneInv, Ending, Safe
    <3>3. QED
      BY <1>1, <1>2, <2>1, <2>2, <2>3, <3>1, <3>2, NothingLost
  <2>4. CASE /\ op[f] = "fenced" /\ fence # NoFence /\ tx' = "open" /\ inTx' = inTx \cap fence
             /\ fence' = NoFence /\ committed' = committed
    <3>1. done \cap inTx \subseteq inTx' \cup Safe'
      BY <1>2, <2>4 DEF DoneInv, Safe
    <3>2. QED
      BY <1>1, <1>2, <2>1, <2>2, <2>4, <3>1, NothingLost
  <2>5. CASE op[f] = "fenced" /\ fence = NoFence /\ ServerFails
    <3>1. committed' = committed /\ inTx' = inTx /\ fence' = NoFence /\ (tx' = "none" => tx = "none")
      BY <2>5 DEF ServerFails
    <3>2. QED
      BY <1>1, <1>2, <2>1, <2>2, <2>5, <3>1, NothingLost DEF DoneInv
  <2>6. QED
    BY <1>7, <2>3, <2>4, <2>5 DEF FetchEnds
<1>8. QED
  BY <1>4, <1>5, <1>6, <1>7

LEMMA DoneNext == PgTyped /\ DoneInv /\ [PgNext]_pgVars => DoneInv'
<1> SUFFICES ASSUME PgTyped, DoneInv, [PgNext]_pgVars
             PROVE  DoneInv'
  OBVIOUS
<1>1. CASE UNCHANGED pgVars \/ HearSession
  <2>1. UNCHANGED <<tx, inTx, committed, fence, op, done, withdrawn, crowded>>
    BY <1>1 DEF pgVars, HearSession, serverVars, pgHistory
  <2>2. QED
    BY <2>1 DEF DoneInv, Safe, Ending
<1>2. CASE PersonBegins \/ PersonCommits \/ PersonRollsBack
  BY <1>2, PersonKeeps
<1>3. ASSUME NEW r \in Runs,
             \/ RunBegins(r) \/ RunWrites(r) \/ RunTypesBegin(r) \/ RunTypesEnd(r)
             \/ SessionHearsOfFailure(r) \/ FailedRunTells(r) \/ RunEnds(r)
      PROVE  DoneInv'
  BY <1>3, RunKeeps, RunWritesKeeps
<1>4. ASSUME NEW b \in Batches, BatchBegins(b) \/ BatchWrites(b) \/ BatchCloses(b)
      PROVE  DoneInv'
  BY <1>4, BatchBeginsKeeps, BatchWritesKeeps, BatchClosesKeeps
<1>5. ASSUME NEW f \in Reads,
             FetchBegins(f) \/ FetchBeginsOwn(f) \/ FetchReads(f) \/ FetchEnds(f)
      PROVE  DoneInv'
  BY <1>5, FetchKeeps
<1>6. QED
  BY <1>1, <1>2, <1>3, <1>4, <1>5 DEF PgNext

\* For any runs, batches and fetches of one session: a write reported done is in for good, in
\* the open transaction, or was given up by the person or the script that ended it, unless two
\* used one transaction at a time.
THEOREM DoneKept == PgSpec => []DoneIsKept
<1>1. DoneInv => DoneIsKept
  BY DEF DoneInv, Safe, DoneIsKept
<1>2. QED
  BY <1>1, PgInitType, PgNextType, KeptInit, DoneNext, PTL DEF PgSpec

-----------------------------------------------------------------------------
(* What the screen shows is the transaction there is. *)

\* What the screen will show once it has heard all.
Coming(s) == IF news = <<>> THEN screen = s ELSE news[Len(news)].state = s

\* One whose own transaction is still to end, and one that an aborted transaction is still to
\* be heard of from, or brought back by.
Closes(o) == op[o] \in {"writing", "closing", "undoing", "reading"}
Owes(o) == op[o] \in {"failed", "said", "undoing", "reading"} \/ (op[o] = "fenced" /\ fence # NoFence)

\* What the session takes the transaction for, with what is under way, is what it is.
IdleFits == state = "idle" => tx = "none" \/ \E o \in Ops : Closes(o)
ActiveFits == state = "active" => tx # "none" /\ (tx = "aborted" => \E o \in Ops : Owes(o))
FailedFits == state = "failed" => tx = "aborted"
Fits == IdleFits /\ ActiveFits /\ FailedFits

\* ... and the screen is told it, or about to be.
HasHeard == Coming(state) \/ \E o \in Ops : op[o] = "heard"

FenceHeld == fence # NoFence => tx # "none"
NotedInv ==
    \A r \in Runs : noted[r] = "nothing" \/ op[r] = "over" \/ ("typed" \in misled /\ op[r] # "idle")
SeenInv == FenceHeld /\ NotedInv /\ (misled = {} => Fits /\ HasHeard)

LEMMA SeenInit == PgInit => SeenInv
<1> SUFFICES ASSUME PgInit
             PROVE  SeenInv
  OBVIOUS
<1>1. Fits /\ HasHeard
  BY DEF PgInit, Fits, IdleFits, ActiveFits, FailedFits, HasHeard, Coming
<1>2. QED
  BY <1>1 DEF PgInit, SeenInv, FenceHeld, NotedInv

\* What was told last is what comes.
LEMMA TellsComes ==
    ASSUME PgTyped, NEW s \in States, Tells(s)
    PROVE  Coming(s)'
<1>1. news \in Seq(Notes) /\ [kind |-> "changed", state |-> s] \in Notes
  BY DEF PgTyped, RestOK, Notes
<1>2. /\ Len(news') = Len(news) + 1 /\ Len(news) \in Nat
      /\ news'[Len(news) + 1] = [kind |-> "changed", state |-> s]
  BY <1>1, AppendProperties, LenProperties DEF Tells
<1>3. news' # <<>>
  BY <1>2
<1>4. QED
  BY <1>2, <1>3 DEF Coming

\* A run that ends well tells the session's state last, when nothing was typed in it.
LEMMA EndComes ==
    ASSUME PgTyped, NEW r \in Runs, RunEnds(r), noted[r] = "nothing"
    PROVE  Coming(state)'
<1> DEFINE told == [kind |-> "changed", state |-> state]
<1>1. news \in Seq(Notes) /\ told \in Notes
  BY DEF PgTyped, RestOK, Notes
<1>2. <<told>> \in Seq(Notes) /\ Len(<<told>>) = 1 /\ <<told>>[1] = told
  BY <1>1
<1>3. news \o <<told>> \in Seq(Notes) /\ <<>> \in Seq(Notes) /\ Len(<<>>) = 0
  BY <1>1, <1>2, ConcatProperties, EmptySeq
<1>4. news' = (news \o <<told>>) \o <<>> /\ state' = state
  BY DEF RunEnds
<1>5. news' = news \o <<told>>
  BY <1>3, <1>4, ConcatEmptySeq
<1>6. /\ Len(news') = Len(news) + 1 /\ Len(news) \in Nat
      /\ news'[Len(news) + 1] = told
  <2>1. /\ Len(news \o <<told>>) = Len(news) + Len(<<told>>)
        /\ \A i \in 1..Len(news) + Len(<<told>>) :
              (news \o <<told>>)[i] = IF i <= Len(news) THEN news[i] ELSE <<told>>[i - Len(news)]
    BY <1>1, <1>2, ConcatProperties
  <2>2. Len(news) \in Nat
    BY <1>1, LenProperties
  <2>3. Len(news) + 1 \in 1..(Len(news) + Len(<<told>>)) /\ ~(Len(news) + 1 <= Len(news))
        /\ (Len(news) + 1) - Len(news) = 1
    BY <1>2, <2>2
  <2>4. (news \o <<told>>)[Len(news) + 1] = <<told>>[1]
    BY <2>1, <2>3
  <2>5. QED
    BY <1>2, <1>5, <2>1, <2>2, <2>4
<1>7. news' # <<>>
  BY <1>6, EmptySeq
<1>8. QED
  BY <1>4, <1>6, <1>7 DEF Coming

\* A savepoint is in a transaction.
LEMMA FenceNext == PgTyped /\ FenceHeld /\ [PgNext]_pgVars => FenceHeld'
<1> SUFFICES ASSUME PgTyped, FenceHeld, [PgNext]_pgVars
             PROVE  FenceHeld'
  OBVIOUS
<1> USE DEF FenceHeld, ServerBegins, ServerCommits, ServerRollsBack, ServerFails, ServerTakes,
            NoTransaction, serverVars
<1>1. CASE PersonBegins \/ PersonCommits \/ PersonRollsBack \/ HearSession \/ UNCHANGED pgVars
  BY <1>1 DEF PersonBegins, PersonCommits, PersonRollsBack, HearSession, pgVars
<1>2. ASSUME NEW r \in Runs,
             \/ RunBegins(r) \/ RunWrites(r) \/ RunTypesBegin(r) \/ RunTypesEnd(r)
             \/ SessionHearsOfFailure(r) \/ FailedRunTells(r) \/ RunEnds(r)
      PROVE  FenceHeld'
  BY <1>2 DEF RunBegins, RunWrites, RunTypesBegin, RunTypesEnd, RunFails, SessionHearsOfFailure,
              FailedRunTells, RunEnds
<1>3. ASSUME NEW b \in Batches, BatchBegins(b) \/ BatchWrites(b) \/ BatchCloses(b)
      PROVE  FenceHeld'
  BY <1>3 DEF BatchBegins, BatchWrites, BatchCloses
<1>4. ASSUME NEW f \in Reads, FetchBegins(f) \/ FetchBeginsOwn(f) \/ FetchReads(f) \/ FetchEnds(f)
      PROVE  FenceHeld'
  BY <1>4 DEF FetchBegins, FetchBeginsOwn, FetchReads, FetchEnds
<1>5. QED
  BY <1>1, <1>2, <1>3, <1>4 DEF PgNext

\* What was typed in a run is noted once, and the person sets right only what no run has yet to
\* note.
LEMMA NotedNext == PgTyped /\ NotedInv /\ [PgNext]_pgVars => NotedInv'
<1> SUFFICES ASSUME PgTyped, NotedInv, [PgNext]_pgVars, NEW r \in Runs
             PROVE  noted'[r] = "nothing" \/ op'[r] = "over" \/ ("typed" \in misled' /\ op'[r] # "idle")
  BY DEF NotedInv
<1>1. /\ r \in Ops /\ op \in [Ops -> Phases]
      /\ noted \in [Runs -> {"nothing", "active", "idle"}]
      /\ noted[r] = "nothing" \/ op[r] = "over" \/ ("typed" \in misled /\ op[r] # "idle")
  BY DEF Ops, PgTyped, OpsOK, RestOK, NotedInv
<1>2. CASE PersonBegins \/ HearSession \/ UNCHANGED pgVars
  BY <1>1, <1>2 DEF PersonBegins, HearSession, Commands, pgVars, pgHistory
<1>3. CASE PersonCommits \/ PersonRollsBack
  <2>1. op' = op /\ noted' = noted
    BY <1>3 DEF PersonCommits, PersonRollsBack, Commands
  <2>2. SetRight \/ Misled("refused", TRUE)
    BY <1>3 DEF PersonCommits, PersonRollsBack
  <2>3. QED
    BY <1>1, <2>1, <2>2 DEF SetRight, Misled
<1>4. ASSUME NEW q \in Runs, RunBegins(q)
      PROVE  noted'[r] = "nothing" \/ op'[r] = "over" \/ ("typed" \in misled' /\ op'[r] # "idle")
  BY <1>1, <1>4 DEF RunBegins, AtStart, At, pgHistory
<1>5. ASSUME NEW q \in Runs, RunWrites(q)
      PROVE  noted'[r] = "nothing" \/ op'[r] = "over" \/ ("typed" \in misled' /\ op'[r] # "idle")
  BY <1>1, <1>5 DEF RunWrites, RunFails, Statement, At
<1>6. ASSUME NEW q \in Runs, RunTypesBegin(q) \/ RunTypesEnd(q)
      PROVE  noted'[r] = "nothing" \/ op'[r] = "over" \/ ("typed" \in misled' /\ op'[r] # "idle")
  BY <1>1, <1>6 DEF RunTypesBegin, RunTypesEnd, RunFails, Statement, At, Misled
<1>7. ASSUME NEW q \in Runs, SessionHearsOfFailure(q) \/ FailedRunTells(q) \/ RunEnds(q)
      PROVE  noted'[r] = "nothing" \/ op'[r] = "over" \/ ("typed" \in misled' /\ op'[r] # "idle")
  <2>1. noted' = noted /\ misled \subseteq misled'
    BY <1>7 DEF SessionHearsOfFailure, FailedRunTells, RunEnds, pgHistory, Misled
  <2>2. \E p \in {"over", "heard", "said"} : op' = [op EXCEPT ![q] = p] /\ op[q] # "over"
    BY <1>7 DEF SessionHearsOfFailure, FailedRunTells, RunEnds, At
  <2>3. QED
    BY <1>1, <2>1, <2>2
<1>8. ASSUME NEW b \in Batches, BatchBegins(b) \/ BatchWrites(b) \/ BatchCloses(b)
      PROVE  noted'[r] = "nothing" \/ op'[r] = "over" \/ ("typed" \in misled' /\ op'[r] # "idle")
  <2>1. noted' = noted /\ misled \subseteq misled'
    BY <1>8 DEF BatchBegins, BatchWrites, BatchCloses, batchKept, Misled
  <2>2. b # r /\ \E p \in Phases : op' = [op EXCEPT ![b] = p]
    BY <1>8, PgSessionAssumption DEF BatchBegins, BatchWrites, BatchCloses, At, Phases
  <2>3. QED
    BY <1>1, <2>1, <2>2
<1>9. ASSUME NEW f \in Reads, FetchBegins(f) \/ FetchBeginsOwn(f) \/ FetchReads(f) \/ FetchEnds(f)
      PROVE  noted'[r] = "nothing" \/ op'[r] = "over" \/ ("typed" \in misled' /\ op'[r] # "idle")
  <2>1. noted' = noted /\ misled \subseteq misled'
    BY <1>9 DEF FetchBegins, FetchBeginsOwn, FetchReads, FetchEnds, fetchKept, Misled
  <2>2. f # r /\ (op' = op \/ \E p \in Phases : op' = [op EXCEPT ![f] = p])
    BY <1>9, PgSessionAssumption DEF FetchBegins, FetchBeginsOwn, FetchReads, FetchEnds, At, Phases
  <2>3. QED
    BY <1>1, <2>1, <2>2
<1>10. QED
  BY <1>2, <1>3, <1>4, <1>5, <1>6, <1>7, <1>8, <1>9 DEF PgNext

\* A session that is not misled after a step that may mislead it was not before.
LEMMA MisledBefore ==
    ASSUME NEW way, NEW when, Misled(way, when), misled' = {}
    PROVE  misled = {} /\ ~when
BY DEF Misled

\* What comes still comes when the loop has heard the first of it.
LEMMA HearTells ==
    ASSUME PgTyped, HearSession, NEW s, Coming(s)
    PROVE  IF news' = <<>> THEN screen' = s ELSE news'[Len(news')].state = s
<1>1. news \in Seq(Notes) /\ news # <<>>
  BY DEF PgTyped, RestOK, HearSession
<1>2. /\ Head(news) = news[1] /\ Len(news) \in Nat /\ Len(news) > 0
      /\ Tail(news) \in Seq(Notes) /\ Len(Tail(news)) = Len(news) - 1
      /\ \A i \in 1..Len(Tail(news)) : Tail(news)[i] = news[i + 1]
  BY <1>1, HeadTailProperties, LenProperties
<1>3. news' = Tail(news) /\ screen' = news[1].state
  BY <1>2 DEF HearSession
<1>4. Len(Tail(news)) = 0 <=> Tail(news) = <<>>
  BY <1>2, EmptySeq
<1>5. CASE Tail(news) = <<>>
  BY <1>1, <1>2, <1>3, <1>4, <1>5 DEF Coming
<1>6. CASE Tail(news) # <<>>
  <2>1. Len(Tail(news)) \in 1..Len(Tail(news))
    BY <1>2, <1>4, <1>6
  <2>2. Tail(news)[Len(Tail(news))] = news[Len(news)]
    BY <1>2, <2>1
  <2>3. QED
    BY <1>1, <1>3, <1>6, <2>2 DEF Coming
<1>7. QED
  BY <1>5, <1>6

LEMMA HearSees ==
    ASSUME PgTyped, Fits, HasHeard, HearSession
    PROVE  Fits' /\ HasHeard'
<1>1. UNCHANGED <<tx, fence, state, op>>
  BY DEF HearSession, serverVars
<1>2. Fits'
  BY <1>1 DEF Fits, IdleFits, ActiveFits, FailedFits, Closes, Owes
<1>3. HasHeard'
  BY <1>1, HearTells DEF HasHeard, Coming
<1>4. QED
  BY <1>2, <1>3

\* The person's own: what they make of the transaction the session knows, and tells.
LEMMA PersonSees ==
    ASSUME PgTyped, misled = {} => Fits /\ HasHeard, misled' = {},
           PersonBegins \/ PersonCommits \/ PersonRollsBack
    PROVE  Fits' /\ HasHeard'
<1>1. op' = op /\ screen' = screen
  BY DEF PersonBegins, PersonCommits, PersonRollsBack, Commands
<1>2. CASE PersonBegins
  <2>1. CASE ServerBegins(FALSE) /\ state' = "active" /\ Tells("active")
    <3>1. Fits'
      BY <2>1 DEF ServerBegins, Fits, IdleFits, ActiveFits, FailedFits
    <3>2. HasHeard'
      BY <2>1, TellsComes DEF HasHeard, Coming, States
    <3>3. QED
      BY <3>1, <3>2
  <2>2. CASE UNCHANGED <<serverVars, state, news>>
    <3>1. Fits /\ HasHeard
      BY <1>2 DEF PersonBegins
    <3>2. QED
      BY <1>1, <2>2, <3>1
         DEF serverVars, Fits, IdleFits, ActiveFits, FailedFits, Closes, Owes, HasHeard, Coming
  <2>3. QED
    BY <1>2, <2>1, <2>2 DEF PersonBegins
<1>3. CASE PersonCommits \/ PersonRollsBack
  <2>1. tx' = "none" /\ state' = "idle" /\ Tells("idle")
    BY <1>3, MisledBefore
       DEF PersonCommits, PersonRollsBack, ServerCommits, ServerRollsBack, NoTransaction
  <2>2. Fits'
    BY <2>1 DEF Fits, IdleFits, ActiveFits, FailedFits
  <2>3. HasHeard'
    BY <2>1, TellsComes DEF HasHeard, Coming, States
  <2>4. QED
    BY <2>2, <2>3
<1>4. QED
  BY <1>2, <1>3

\* Of the others, nothing changes when one moves.
LEMMA Moves ==
    ASSUME PgTyped, NEW o \in Ops, NEW p, op' = [op EXCEPT ![o] = p]
    PROVE  /\ op'[o] = p
           /\ (Closes(o) => Closes(o)') /\ (\E q \in Ops : Closes(q)) => \E q \in Ops : Closes(q)'
           /\ (op[o] = "heard" => p = "heard") /\ (\E q \in Ops : op[q] = "heard") =>
                 \E q \in Ops : op'[q] = "heard"
           /\ /\ Owes(o) => Owes(o)'
              /\ fence # NoFence => fence' # NoFence
              /\ \E q \in Ops : Owes(q)
              => \E q \in Ops : Owes(q)'
<1>1. \A q \in Ops : op'[q] = IF q = o THEN p ELSE op[q]
  BY DEF PgTyped, OpsOK
<1>2. ASSUME Closes(o) => Closes(o)', NEW q \in Ops, Closes(q)
      PROVE  Closes(q)'
  BY <1>1, <1>2 DEF Closes
<1>3. ASSUME Owes(o) => Owes(o)', fence # NoFence => fence' # NoFence, NEW q \in Ops, Owes(q)
      PROVE  Owes(q)'
  BY <1>1, <1>3 DEF Owes
<1>4. QED
  BY <1>1, <1>2, <1>3

\* A statement of a run that fails: the run owes what the session is to hear.
LEMMA FailsSees ==
    ASSUME PgTyped, Fits, HasHeard, NEW r \in Runs, op[r] = "running", noted[r] = "nothing", RunFails(r),
           UNCHANGED <<state, screen>>
    PROVE  Fits' /\ HasHeard'
<1>1. r \in Ops /\ op' = [op EXCEPT ![r] = "failed"] /\ news' = news /\ fence' = fence
      /\ tx' = IF tx = "none" THEN "none" ELSE "aborted"
  BY DEF Ops, RunFails, At, ServerFails
<1>2. op'[r] = "failed" /\ Owes(r)'
  BY <1>1, Moves DEF Owes
<1>3. IdleFits'
  BY <1>1, Moves DEF Fits, IdleFits, Closes
<1>4. ActiveFits' /\ FailedFits'
  BY <1>1, <1>2 DEF Fits, ActiveFits, FailedFits
<1>5. HasHeard'
  BY <1>1, Moves DEF HasHeard, Coming
<1>6. QED
  BY <1>3, <1>4, <1>5 DEF Fits

LEMMA RunSees ==
    ASSUME PgTyped, NotedInv, misled = {} => Fits /\ HasHeard, misled' = {}, NEW r \in Runs,
           \/ RunBegins(r) \/ RunWrites(r) \/ RunTypesBegin(r) \/ RunTypesEnd(r)
           \/ SessionHearsOfFailure(r) \/ FailedRunTells(r) \/ RunEnds(r)
    PROVE  Fits' /\ HasHeard'
<1>1. r \in Ops /\ state \in States /\ tx \in {"none", "open", "aborted"}
  BY DEF Ops, PgTyped, RestOK, ServerOK
<1>2. CASE RunBegins(r)
  <2>1. /\ op[r] = "idle" /\ op' = [op EXCEPT ![r] = "running"] /\ Fits /\ HasHeard
        /\ UNCHANGED <<tx, fence, state, screen, news>>
    BY <1>2 DEF RunBegins, AtStart, At, serverVars, pgHistory
  <2>2. Fits'
    BY <1>1, <2>1, Moves DEF Fits, IdleFits, ActiveFits, FailedFits, Closes, Owes
  <2>3. HasHeard'
    BY <1>1, <2>1, Moves DEF HasHeard, Coming
  <2>4. QED
    BY <2>2, <2>3
<1>3. CASE RunWrites(r)
  <2>1. op[r] = "running" /\ misled = {} /\ UNCHANGED <<state, screen>>
    BY <1>3 DEF RunWrites, Statement
  <2>2. noted[r] = "nothing" /\ Fits /\ HasHeard
    BY <2>1 DEF NotedInv
  <2>3. CASE (\E w \in {<<r, count[r] + 1>>} : ServerTakes(w)) /\ UNCHANGED <<op, news>>
    BY <2>1, <2>2, <2>3
       DEF ServerTakes, Fits, IdleFits, ActiveFits, FailedFits, Closes, Owes, HasHeard, Coming
  <2>4. CASE RunFails(r)
    BY <2>1, <2>2, <2>4, FailsSees
  <2>5. QED
    BY <1>3, <2>3, <2>4 DEF RunWrites
<1>4. CASE RunTypesBegin(r)
  <2>1. op[r] = "running" /\ misled = {} /\ RunFails(r) /\ UNCHANGED <<state, screen>>
    BY <1>4 DEF RunTypesBegin, Statement, Misled
  <2>2. noted[r] = "nothing" /\ Fits /\ HasHeard
    BY <2>1 DEF NotedInv
  <2>3. QED
    BY <2>1, <2>2, FailsSees
<1>5. ~RunTypesEnd(r)
  BY DEF RunTypesEnd, Misled
<1>6. CASE SessionHearsOfFailure(r)
  <2>1. Misled("late", state = "active" /\ (op[r] = "said" \/ tx # "aborted"))
    BY <1>6 DEF SessionHearsOfFailure
  <2>2. Fits /\ HasHeard /\ ~(state = "active" /\ (op[r] = "said" \/ tx # "aborted"))
    BY <2>1, MisledBefore
  <2>3. /\ op[r] \in {"failed", "said"} /\ state' = Aborted
        /\ op' = [op EXCEPT ![r] = IF op[r] = "said" THEN "over" ELSE "heard"]
        /\ UNCHANGED <<tx, fence, screen, news>>
    BY <1>6 DEF SessionHearsOfFailure, At, serverVars
  <2>4. CASE state = "active"
    <3>1. op'[r] = "heard" /\ state' = "failed" /\ tx' = "aborted"
      BY <1>1, <2>2, <2>3, <2>4, Moves DEF Aborted
    <3>2. QED
      BY <1>1, <3>1 DEF Fits, IdleFits, ActiveFits, FailedFits, HasHeard
  <2>5. CASE state # "active"
    <3>1. state' = state
      BY <2>3, <2>5 DEF Aborted
    <3>2. Fits'
      BY <1>1, <2>2, <2>3, <2>5, <3>1, Moves DEF Fits, IdleFits, ActiveFits, FailedFits, Closes
    <3>3. HasHeard'
      BY <1>1, <2>2, <2>3, <3>1, Moves DEF HasHeard, Coming
    <3>4. QED
      BY <3>2, <3>3
  <2>6. QED
    BY <2>4, <2>5
<1>7. CASE FailedRunTells(r)
  <2>1. /\ op[r] \in {"failed", "heard"} /\ Tells(state) /\ Fits
        /\ op' = [op EXCEPT ![r] = IF op[r] = "heard" THEN "over" ELSE "said"]
        /\ UNCHANGED <<tx, fence, state>>
    BY <1>7 DEF FailedRunTells, At, serverVars, pgHistory
  <2>2. Fits'
    BY <1>1, <2>1, Moves DEF Fits, IdleFits, ActiveFits, FailedFits, Closes, Owes
  <2>3. Coming(state)'
    <3>1. \A t \in States : t = state => Coming(t)'
      BY <2>1, TellsComes
    <3>2. QED
      BY <1>1, <2>1, <3>1 DEF Coming
  <2>4. QED
    BY <2>2, <2>3 DEF HasHeard
<1>8. CASE RunEnds(r)
  <2>1. /\ op[r] = "running" /\ misled = {} /\ Fits
        /\ op' = [op EXCEPT ![r] = "over"] /\ UNCHANGED <<tx, fence, state>>
    BY <1>8 DEF RunEnds, At, serverVars, pgHistory
  <2>2. Fits'
    BY <1>1, <2>1, Moves DEF Fits, IdleFits, ActiveFits, FailedFits, Closes, Owes
  <2>3. noted[r] = "nothing"
    BY <2>1 DEF NotedInv
  <2>4. QED
    BY <1>8, <2>2, <2>3, EndComes DEF HasHeard
<1>9. QED
  BY <1>2, <1>3, <1>4, <1>5, <1>6, <1>7, <1>8

LEMMA BatchSees ==
    ASSUME PgTyped, misled = {} => Fits /\ HasHeard, misled' = {}, NEW b \in Batches,
           BatchBegins(b) \/ BatchWrites(b) \/ BatchCloses(b)
    PROVE  Fits' /\ HasHeard'
<1>1. b \in Ops /\ UNCHANGED <<state, screen, news>> /\ state \in States
      /\ tx \in {"none", "open", "aborted"}
  BY DEF Ops, BatchBegins, BatchWrites, BatchCloses, batchKept, PgTyped, RestOK, ServerOK
<1>2. PICK p \in {"writing", "closing", "undoing", "over"} : op' = [op EXCEPT ![b] = p]
  BY DEF BatchBegins, BatchWrites, BatchCloses, At
<1>3. op[b] \in {"idle", "writing", "closing", "undoing"} /\ op'[b] = p
  BY <1>1, <1>2, Moves DEF BatchBegins, BatchWrites, BatchCloses, AtStart
<1>4. misled = {} /\ Fits /\ HasHeard
  BY MisledBefore DEF BatchBegins, BatchWrites, BatchCloses
<1>5. HasHeard'
  BY <1>1, <1>2, <1>3, <1>4, Moves DEF HasHeard, Coming
<1>6. CASE BatchBegins(b)
  <2>1. CASE ServerBegins(FALSE) /\ At(b, "writing")
    <3>1. p = "writing" /\ tx' = "open" /\ tx # "aborted"
      BY <1>1, <1>2, <1>3, <2>1, Moves DEF At, ServerBegins
    <3>2. QED
      BY <1>1, <1>3, <1>4, <1>5, <3>1 DEF Fits, IdleFits, ActiveFits, FailedFits, Closes
  <2>2. CASE At(b, "over") /\ UNCHANGED serverVars
    <3>1. op[b] = "idle" /\ UNCHANGED <<tx, fence>>
      BY <1>6, <2>2 DEF BatchBegins, AtStart, serverVars
    <3>2. Fits'
      BY <1>1, <1>2, <1>4, <3>1, Moves DEF Fits, IdleFits, ActiveFits, FailedFits, Closes, Owes
    <3>3. QED
      BY <1>5, <3>2
  <2>3. QED
    BY <1>6, <2>1, <2>2 DEF BatchBegins
<1>7. CASE BatchWrites(b)
  <2>1. op[b] = "writing" /\ p \in {"closing", "undoing"} /\ fence' = fence
    BY <1>1, <1>2, <1>3, <1>7, Moves DEF BatchWrites, At, ServerTakes, ServerFails
  <2>2. \/ tx' = tx
        \/ p = "undoing" /\ tx' = IF tx = "none" THEN "none" ELSE "aborted"
    BY <1>1, <1>2, <1>3, <1>7, Moves DEF BatchWrites, At, ServerTakes, ServerFails
  <2>3. IdleFits'
    BY <1>1, <1>3, <2>1 DEF IdleFits, Closes
  <2>4. ActiveFits'
    <3>1. CASE p = "undoing"
      BY <1>1, <1>3, <1>4, <2>2, <3>1 DEF Fits, ActiveFits, Owes
    <3>2. CASE tx' = tx
      BY <1>1, <1>2, <1>3, <1>4, <2>1, <3>2, Moves DEF Fits, ActiveFits, Owes
    <3>3. QED
      BY <2>2, <3>1, <3>2
  <2>5. FailedFits'
    BY <1>1, <1>4, <2>2 DEF Fits, FailedFits
  <2>6. QED
    BY <1>5, <2>3, <2>4, <2>5 DEF Fits
<1>8. CASE BatchCloses(b)
  <2>1. tx' = "none"
    BY <1>8 DEF BatchCloses, ServerCommits, ServerRollsBack, NoTransaction
  <2>2. Misled("shared", ThePersons)
    BY <1>8 DEF BatchCloses
  <2>3. state = "idle" \/ tx = "none"
    BY <2>2, MisledBefore DEF ThePersons
  <2>4. QED
    BY <1>1, <1>4, <1>5, <2>1, <2>3 DEF Fits, IdleFits, ActiveFits, FailedFits
<1>9. QED
  BY <1>6, <1>7, <1>8

LEMMA FetchSees ==
    ASSUME PgTyped, FenceHeld, misled = {} => Fits /\ HasHeard, misled' = {}, NEW f \in Reads,
           FetchBegins(f) \/ FetchBeginsOwn(f) \/ FetchReads(f) \/ FetchEnds(f)
    PROVE  Fits' /\ HasHeard'
<1>1. f \in Ops /\ UNCHANGED <<state, screen, news>> /\ state \in States
      /\ tx \in {"none", "open", "aborted"}
  BY DEF Ops, FetchBegins, FetchBeginsOwn, FetchReads, FetchEnds, fetchKept, PgTyped, RestOK, ServerOK
<1>2. PICK p \in {"fenced", "beginning", "reading", "over"} : op' = [op EXCEPT ![f] = p]
  BY <1>1 DEF FetchBegins, FetchBeginsOwn, FetchReads, FetchEnds, At, PgTyped, OpsOK
<1>3. op[f] \in {"idle", "beginning", "reading", "fenced"} /\ op'[f] = p
  BY <1>1, <1>2, Moves DEF FetchBegins, FetchBeginsOwn, FetchReads, FetchEnds, AtStart
<1>4. misled = {} /\ Fits /\ HasHeard
  BY MisledBefore DEF FetchBegins, FetchBeginsOwn, FetchReads, FetchEnds
<1>5. HasHeard'
  BY <1>1, <1>2, <1>3, <1>4, Moves DEF HasHeard, Coming
<1>6. CASE FetchBegins(f)
  <2>1. op[f] = "idle" /\ tx' = tx /\ (fence' = fence \/ tx = "open")
    BY <1>6 DEF FetchBegins, AtStart
  <2>2. IdleFits' /\ FailedFits'
    BY <1>1, <1>2, <1>4, <2>1, Moves DEF Fits, IdleFits, FailedFits, Closes
  <2>3. ActiveFits'
    BY <1>1, <1>2, <1>4, <2>1, Moves DEF Fits, ActiveFits, Owes
  <2>4. QED
    BY <1>5, <2>2, <2>3 DEF Fits
<1>7. CASE FetchBeginsOwn(f)
  <2>1. CASE ServerBegins(TRUE) /\ At(f, "reading")
    <3>1. p = "reading" /\ tx' = "open" /\ tx # "aborted"
      BY <1>1, <1>2, <1>3, <2>1, Moves DEF At, ServerBegins
    <3>2. QED
      BY <1>1, <1>3, <1>4, <1>5, <3>1 DEF Fits, IdleFits, ActiveFits, FailedFits, Closes
  <2>2. CASE At(f, "over") /\ UNCHANGED serverVars
    <3>1. op[f] = "beginning" /\ UNCHANGED <<tx, fence>>
      BY <1>7, <2>2 DEF FetchBeginsOwn, serverVars
    <3>2. Fits'
      BY <1>1, <1>2, <1>4, <3>1, Moves DEF Fits, IdleFits, ActiveFits, FailedFits, Closes, Owes
    <3>3. QED
      BY <1>5, <3>2
  <2>3. QED
    BY <1>7, <2>1, <2>2 DEF FetchBeginsOwn
<1>8. CASE FetchReads(f)
  <2>1. op' = op /\ fence' = fence /\ tx = "open" /\ tx' = "aborted" /\ op[f] \in {"reading", "fenced"}
    BY <1>8 DEF FetchReads, ServerFails
  <2>2. Misled("fence", op[f] = "fenced" /\ fence = NoFence /\ state = "active")
    BY <1>8 DEF FetchReads
  <2>3. state = "active" => Owes(f)'
    BY <2>1, <2>2, MisledBefore DEF Owes
  <2>4. QED
    BY <1>1, <1>4, <1>5, <2>1, <2>3 DEF Fits, IdleFits, ActiveFits, FailedFits, Closes
<1>9. CASE FetchEnds(f)
  <2>1. p = "over"
    BY <1>1, <1>2, <1>3, <1>9, Moves DEF FetchEnds, At
  <2>2. CASE op[f] = "reading" /\ ServerRollsBack /\ Misled("shared", ThePersons)
    <3>1. tx' = "none" /\ (state = "idle" \/ tx = "none")
      BY <2>2, MisledBefore DEF ServerRollsBack, NoTransaction, ThePersons
    <3>2. QED
      BY <1>1, <1>4, <1>5, <3>1 DEF Fits, IdleFits, ActiveFits, FailedFits
  <2>3. CASE op[f] = "fenced" /\ fence # NoFence /\ tx' = "open" /\ Misled("fence", state = "failed")
    <3>1. tx # "none" /\ state # "failed"
      BY <2>3, MisledBefore DEF FenceHeld
    <3>2. IdleFits'
      BY <1>1, <1>2, <1>4, <2>3, <3>1, Moves DEF Fits, IdleFits, Closes
    <3>3. QED
      BY <1>1, <1>5, <2>3, <3>1, <3>2 DEF Fits, ActiveFits, FailedFits
  <2>4. CASE /\ op[f] = "fenced" /\ fence = NoFence
             /\ ServerFails /\ Misled("fence", tx = "open" /\ state = "active")
    <3>1. fence' = fence /\ tx' = (IF tx = "none" THEN "none" ELSE "aborted")
          /\ ~(tx = "open" /\ state = "active") /\ ~Owes(f) /\ ~Closes(f)
      BY <2>4, MisledBefore DEF ServerFails, Owes, Closes
    <3>2. IdleFits' /\ FailedFits'
      BY <1>1, <1>2, <1>4, <3>1, Moves DEF Fits, IdleFits, FailedFits
    <3>3. ActiveFits'
      BY <1>1, <1>2, <1>4, <3>1, Moves DEF Fits, ActiveFits
    <3>4. QED
      BY <1>5, <3>2, <3>3 DEF Fits
  <2>5. QED
    BY <1>9, <2>2, <2>3, <2>4 DEF FetchEnds
<1>10. QED
  BY <1>6, <1>7, <1>8, <1>9

LEMMA SeenNext == PgTyped /\ SeenInv /\ [PgNext]_pgVars => SeenInv'
<1> SUFFICES ASSUME PgTyped, SeenInv, [PgNext]_pgVars
             PROVE  SeenInv'
  OBVIOUS
<1>1. FenceHeld' /\ NotedInv'
  BY FenceNext, NotedNext DEF SeenInv
<1>2. ASSUME misled' = {}
      PROVE  Fits' /\ HasHeard'
  <2>1. CASE HearSession
    BY <1>2, <2>1, HearSees DEF SeenInv, HearSession, pgHistory
  <2>2. CASE UNCHANGED pgVars
    BY <1>2, <2>2 DEF SeenInv, pgVars, serverVars, pgHistory, Fits, IdleFits, ActiveFits,
                      FailedFits, Closes, Owes, HasHeard, Coming
  <2>3. CASE PgNext /\ ~HearSession
    BY <1>2, <2>3, PersonSees, RunSees, BatchSees, FetchSees DEF SeenInv, PgNext
  <2>4. QED
    BY <2>1, <2>2, <2>3
<1>3. QED
  BY <1>1, <1>2 DEF SeenInv

\* For any runs, batches and reads, and however their steps and the person's commands fall
\* together: at rest the screen shows the transaction the server has, so that quitting asks what
\* becomes of it -- unless, since the person last ended one, it changed where the session does
\* not look: typed in a run, a COMMIT refused, ended by a batch or a read, lost or brought back by
\* a read's fence, or a failure heard late.
THEOREM ScreenShown == PgSpec => []ScreenShowsTransaction
<1>1. PgInit => PgTyped /\ SeenInv
  BY PgInitType, SeenInit
<1>2. PgTyped /\ SeenInv /\ [PgNext]_pgVars => (PgTyped /\ SeenInv)'
  BY PgNextType, SeenNext
<1>3. PgTyped /\ SeenInv => ScreenShowsTransaction
  <2> SUFFICES ASSUME PgTyped, SeenInv, SessionAtRest, misled = {}
               PROVE  screen = ToShow
    BY DEF ScreenShowsTransaction
  <2>1. \A o \in Ops : op[o] \in {"idle", "over"}
    BY DEF SessionAtRest, PgTyped, OpsOK
  <2>2. Fits /\ screen = state
    BY <2>1 DEF SeenInv, SessionAtRest, HasHeard, Coming
  <2>3. \A o \in Ops : ~Closes(o) /\ ~Owes(o)
    BY <2>1 DEF Closes, Owes
  <2>4. state \in States /\ tx \in {"none", "open", "aborted"}
    BY DEF PgTyped, RestOK, ServerOK
  <2>5. QED
    BY <2>2, <2>3, <2>4 DEF Fits, IdleFits, ActiveFits, FailedFits, ToShow, States
<1>4. QED
  BY <1>1, <1>2, <1>3, PTL DEF PgSpec
===========================================================================
