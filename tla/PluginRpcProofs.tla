--------------------------- MODULE PluginRpcProofs ---------------------------
(***************************************************************************)
(* Proofs about one conversation with a plugin, for any calls: its types,  *)
(* that nobody is left waiting when it ends, that it implements            *)
(* Conversation, and that every cursor of the plugin has an owner.         *)
(***************************************************************************)
EXTENDS PluginRpc, SequenceTheorems, TLAPS

Words == {"value", "last", "error"}
Lines == [kind : {"request", "cancel", "close"}, call : Calls]
AnswerLines == [call : Calls, says : Words]
Reading == [at : {"answering", "unclaimed"}, answer : AnswerLines]

LEMMA LineType ==
    ASSUME NEW c \in Calls, NEW k \in {"request", "cancel", "close"}
    PROVE  Line(k, c) \in Lines
BY DEF Line, Lines

LEMMA LineAt ==
    ASSUME NEW s \in Seq(Lines), NEW i \in 1..Len(s)
    PROVE  s[i] \in Lines /\ s[i].call \in Calls
<1>1. s[i] \in Lines
  BY ElementOfSeq
<1>2. QED
  BY <1>1 DEF Lines

LEMMA AnswerAt ==
    ASSUME NEW s \in Seq(AnswerLines), NEW i \in 1..Len(s)
    PROVE  s[i] \in AnswerLines /\ s[i].call \in Calls /\ s[i].says \in Words
<1>1. s[i] \in AnswerLines
  BY ElementOfSeq
<1>2. QED
  BY <1>1 DEF AnswerLines

LEMMA NotifiedType ==
    ASSUME toPlugin \in Seq(Lines), NEW ls \in Seq(Lines)
    PROVE  Notified(ls) \in Seq(Lines)
BY ConcatProperties DEF Notified

LEMMA FetchIsOfExecute ==
    ASSUME NEW c \in Fetches
    PROVE  FetchOf[c] \in Executes /\ FetchOf[c] \in Calls
BY RpcAssumption DEF Calls

LEMMA NextAnswer ==
    ASSUME RpcTypeOK, toHost # <<>>
    PROVE  Head(toHost) \in AnswerLines /\ Tail(toHost) \in Seq(AnswerLines)
BY HeadTailProperties DEF RpcTypeOK, AnswerLines, Words

LEMMA RpcInitType == RpcInit => RpcTypeOK
<1> SUFFICES ASSUME RpcInit
             PROVE  RpcTypeOK
  OBVIOUS
<1>1. toPlugin \in Seq([kind : {"request", "cancel", "close"}, call : Calls])
  BY DEF RpcInit
<1>2. toHost \in Seq([call : Calls, says : {"value", "last", "error"}])
  BY DEF RpcInit
<1>3. QED
  BY <1>1, <1>2 DEF RpcInit, RpcTypeOK, Ended

LEMMA RpcNextType == RpcTypeOK /\ [RpcNext]_rpcVars => RpcTypeOK'
<1> SUFFICES ASSUME RpcTypeOK, [RpcNext]_rpcVars
             PROVE  RpcTypeOK'
  OBVIOUS
<1> USE DEF RpcTypeOK
<1>1. ASSUME NEW c \in Calls, Enter(c)
      PROVE  RpcTypeOK'
  <2>1. outcome' \in [Calls -> Ended \cup {"none"}]
    BY <1>1 DEF Enter, Ended
  <2>2. pages' \in [Executes -> {"none", "held", "ended", "failed", "dropped"}]
    BY <1>1, FetchIsOfExecute DEF Enter
  <2>3. QED
    BY <1>1, <2>1, <2>2 DEF Enter, pluginVars
<1>2. ASSUME NEW c \in Calls, Send(c)
      PROVE  RpcTypeOK'
  BY <1>2, LineType, AppendProperties DEF Send, pluginVars, Lines
<1>3. ASSUME NEW c \in Calls, SendFails(c)
      PROVE  RpcTypeOK'
  BY <1>3 DEF SendFails, Shut, pluginVars
<1>4. ASSUME NEW c \in Calls, Receive(c)
      PROVE  RpcTypeOK'
  <2>1. outcome' \in [Calls -> Ended \cup {"none"}]
    BY <1>4 DEF Receive, Ended
  <2>2. pages' \in [Executes -> {"none", "held", "ended", "failed", "dropped"}]
    BY <1>4, FetchIsOfExecute DEF Receive, Result
  <2>3. QED
    BY <1>4, <2>1, <2>2 DEF Receive, pluginVars
<1>5. ASSUME NEW c \in Calls, GiveUp(c)
      PROVE  RpcTypeOK'
  BY <1>5 DEF GiveUp, Drops, pluginVars
<1>6. ASSUME NEW c \in Calls, NoteAbandoned(c)
      PROVE  RpcTypeOK'
  BY <1>6 DEF NoteAbandoned, pluginVars
<1>7. ASSUME NEW c \in Calls, LeavePending(c)
      PROVE  RpcTypeOK'
  BY <1>7 DEF LeavePending, pluginVars
<1>8. ASSUME NEW c \in Calls, TellCancel(c)
      PROVE  RpcTypeOK'
  <2> DEFINE held == IF c \in Fetches THEN pages[FetchOf[c]] = "held" ELSE FALSE
             ls == <<Line("cancel", c)>> \o IF held THEN <<Line("close", FetchOf[c])>> ELSE <<>>
  <2>1. ls \in Seq(Lines)
    <3>1. CASE held
      <4>1. Line("close", FetchOf[c]) \in Lines
        BY <3>1, FetchIsOfExecute, LineType
      <4>2. QED
        BY <3>1, <4>1, LineType
    <3>2. CASE ~held
      BY <3>2, LineType
    <3>3. QED
      BY <3>1, <3>2
  <2>2. toPlugin' \in Seq(Lines)
    BY <1>8, <2>1, NotifiedType DEF TellCancel, Lines
  <2>3. pages' \in [Executes -> {"none", "held", "ended", "failed", "dropped"}]
    BY <1>8, FetchIsOfExecute DEF TellCancel
  <2>4. outcome' \in [Calls -> Ended \cup {"none"}]
    BY <1>8 DEF TellCancel, Ended
  <2>5. QED
    BY <1>8, <2>2, <2>3, <2>4 DEF TellCancel, pluginVars, Lines
<1>9. ASSUME NEW c \in Calls, Answers(c)
      PROVE  RpcTypeOK'
  <2>1. PICK r \in Words :
            /\ work' = [work EXCEPT ![c] = r]
            /\ toHost' = Append(toHost, Answer(c, r))
            /\ cursors' = IF c \in Executes /\ r = "value" THEN cursors \cup {c}
                          ELSE IF c \in Fetches /\ r = "last" THEN cursors \ {FetchOf[c]}
                          ELSE cursors
    BY <1>9 DEF Answers, Words
  <2>2. toHost' \in Seq(AnswerLines)
    BY <2>1, AppendProperties DEF Answer, AnswerLines, Words
  <2>3. QED
    BY <1>9, <2>1, <2>2 DEF Answers, hostVars, Words, AnswerLines
<1>10. ASSUME NEW c \in Calls, AbortSeen(c)
       PROVE  RpcTypeOK'
  BY <1>10 DEF AbortSeen, hostVars
<1>11. ASSUME NEW e \in Executes, DropPages(e)
       PROVE  RpcTypeOK'
  <2>1. Line("close", e) \in Lines
    BY LineType DEF Calls
  <2>2. toPlugin' \in Seq(Lines)
    <3>1. <<Line("close", e)>> \in Seq(Lines) /\ toPlugin \in Seq(Lines)
      BY <2>1 DEF Lines
    <3>2. QED
      BY <1>11, <3>1, NotifiedType DEF DropPages
  <2>3. QED
    BY <1>11, <2>2 DEF DropPages, pluginVars, Lines
<1>12. CASE Close
  BY <1>12 DEF Close, Shut, pluginVars
<1>13. CASE ReadAnswer
  <2>1. Head(toHost) \in AnswerLines /\ toHost' \in Seq(AnswerLines)
    BY <1>13, NextAnswer DEF ReadAnswer
  <2>2. reader' \in Reading
    BY <1>13, <2>1 DEF ReadAnswer, Reading
  <2>3. QED
    BY <1>13, <2>1, <2>2 DEF ReadAnswer, pluginVars, Reading, AnswerLines, Words
<1>14. CASE Deliver
  <2>1. reader \in Reading
    BY <1>14 DEF Deliver, Listening, Stopped, Reading, AnswerLines, Words
  <2>2. QED
    BY <1>14, <2>1 DEF Deliver, pluginVars, Reading, AnswerLines, Words
<1>15. CASE Judge
  <2>1. reader \in Reading
    BY <1>15 DEF Judge, Listening, Stopped, Reading, AnswerLines, Words
  <2>2. toPlugin' \in Seq(Lines)
    <3>1. Line("close", reader.answer.call) \in Lines
      BY <2>1, LineType DEF Reading, AnswerLines
    <3>2. QED
      <4>1. <<Line("close", reader.answer.call)>> \in Seq(Lines) /\ toPlugin \in Seq(Lines)
        BY <3>1 DEF Lines
      <4>2. QED
        BY <1>15, <4>1, NotifiedType DEF Judge
  <2>3. QED
    BY <1>15, <2>1, <2>2 DEF Judge, pluginVars, Lines
<1>16. CASE ReadEnd
  BY <1>16 DEF ReadEnd, Shut, pluginVars
<1>17. CASE TakeLine
  <2>1. Head(toPlugin) \in Lines /\ toPlugin' \in Seq(Lines)
    BY <1>17, HeadTailProperties DEF TakeLine, Lines
  <2>2. QED
    BY <1>17, <2>1 DEF TakeLine, hostVars, Lines
<1>18. CASE PluginEnds
  <2>1. PICK n \in 0..Len(toHost) : toHost' = SubSeq(toHost, 1, n)
    BY <1>18 DEF PluginEnds
  <2>2. toHost' \in Seq(AnswerLines)
    <3>1. toHost \in Seq(AnswerLines) /\ n \in Nat /\ n <= Len(toHost)
      BY DEF AnswerLines, Words
    <3>2. QED
      BY <2>1, <3>1, SubSeqProperties
  <2>3. QED
    BY <1>18, <2>2 DEF PluginEnds, hostVars, AnswerLines, Words
<1>19. CASE UNCHANGED rpcVars
  BY <1>19 DEF rpcVars
<1>20. QED
  BY <1>1, <1>2, <1>3, <1>4, <1>5, <1>6, <1>7, <1>8, <1>9, <1>10, <1>11, <1>12, <1>13, <1>14,
     <1>15, <1>16, <1>17, <1>18, <1>19
     DEF RpcNext, CallStep, TaskStep, ReaderStep

\* Every call, answer and cursor stays what it may be, whatever crosses on the pipes.
THEOREM RpcTypes == RpcSpec => []RpcTypeOK
BY RpcInitType, RpcNextType, PTL DEF RpcSpec

-----------------------------------------------------------------------------
(* Nobody is left waiting. *)

\* A call that has nothing in hand is in the table, or the reading thread has its answer; and
\* the table is empty once the conversation is over.
AnswerComes(c) == c \in pending \/ (reader.at = "answering" /\ reader.answer.call = c)
Waits(c) == call[c] \in {"entered", "waiting"} /\ slot[c] = "empty"
WaitInv ==
    /\ \A c \in Calls : Waits(c) => AnswerComes(c)
    /\ closed => pending = {}

LEMMA WaitInit == RpcInit => WaitInv
BY DEF RpcInit, WaitInv, Waits, AnswerComes

\* After the drain every call that waits has its failure, or its answer on the way.
LEMMA ShutKeepsWaits ==
    ASSUME RpcTypeOK, WaitInv, Shut, UNCHANGED reader,
           \A c \in Calls : call'[c] = call[c] \/ (call[c] = "entered" /\ call'[c] = "waiting")
    PROVE  WaitInv'
<1>1. ASSUME NEW c \in Calls, Waits(c)'
      PROVE  AnswerComes(c)'
  <2>1. c \notin pending /\ slot[c] = "empty"
    BY <1>1 DEF Waits, Shut, RpcTypeOK
  <2>2. Waits(c)
    BY <1>1, <2>1 DEF Waits
  <2>3. QED
    BY <2>1, <2>2 DEF WaitInv, AnswerComes
<1>2. QED
  BY <1>1 DEF WaitInv, Shut

LEMMA WaitNext == RpcTypeOK /\ WaitInv /\ [RpcNext]_rpcVars => WaitInv'
<1> SUFFICES ASSUME RpcTypeOK, WaitInv, [RpcNext]_rpcVars
             PROVE  WaitInv'
  OBVIOUS
<1>1. ASSUME NEW c \in Calls, Enter(c)
      PROVE  WaitInv'
  BY <1>1 DEF Enter, WaitInv, Waits, AnswerComes, RpcTypeOK
<1>2. ASSUME NEW c \in Calls, Send(c)
      PROVE  WaitInv'
  BY <1>2 DEF Send, WaitInv, Waits, AnswerComes, RpcTypeOK
<1>3. ASSUME NEW c \in Calls, SendFails(c)
      PROVE  WaitInv'
  <2>1. \A d \in Calls : call'[d] = call[d] \/ (call[d] = "entered" /\ call'[d] = "waiting")
    BY <1>3 DEF SendFails, RpcTypeOK
  <2>2. QED
    BY <1>3, <2>1, ShutKeepsWaits DEF SendFails
<1>4. ASSUME NEW c \in Calls, Receive(c)
      PROVE  WaitInv'
  BY <1>4 DEF Receive, WaitInv, Waits, AnswerComes, RpcTypeOK
<1>5. ASSUME NEW c \in Calls, GiveUp(c)
      PROVE  WaitInv'
  BY <1>5 DEF GiveUp, WaitInv, Waits, AnswerComes, RpcTypeOK
<1>6. ASSUME NEW c \in Calls, NoteAbandoned(c)
      PROVE  WaitInv'
  BY <1>6 DEF NoteAbandoned, WaitInv, Waits, AnswerComes, RpcTypeOK
<1>7. ASSUME NEW c \in Calls, LeavePending(c)
      PROVE  WaitInv'
  BY <1>7 DEF LeavePending, WaitInv, Waits, AnswerComes, RpcTypeOK
<1>8. ASSUME NEW c \in Calls, TellCancel(c)
      PROVE  WaitInv'
  BY <1>8 DEF TellCancel, WaitInv, Waits, AnswerComes, RpcTypeOK
<1>9. ASSUME NEW c \in Calls, TaskStep(c)
      PROVE  WaitInv'
  BY <1>9 DEF TaskStep, Answers, AbortSeen, hostVars, WaitInv, Waits, AnswerComes
<1>10. ASSUME NEW e \in Executes, DropPages(e)
       PROVE  WaitInv'
  BY <1>10 DEF DropPages, WaitInv, Waits, AnswerComes
<1>11. CASE Close
  BY <1>11, ShutKeepsWaits DEF Close
<1>12. CASE ReadAnswer
  <2>1. Head(toHost).call \in Calls
    BY <1>12, NextAnswer DEF ReadAnswer, AnswerLines
  <2>2. QED
    BY <1>12, <2>1 DEF ReadAnswer, Listening, WaitInv, Waits, AnswerComes, RpcTypeOK
<1>13. CASE Deliver
  <2>1. reader.answer.call \in Calls /\ reader.answer.says # "empty"
    BY <1>13 DEF Deliver, Listening, Stopped, RpcTypeOK
  <2>2. ASSUME NEW c \in Calls, Waits(c)'
        PROVE  AnswerComes(c)'
    <3>1. c # reader.answer.call /\ Waits(c)
      BY <1>13, <2>1, <2>2 DEF Deliver, Waits, RpcTypeOK
    <3>2. QED
      BY <1>13, <3>1 DEF Deliver, WaitInv, AnswerComes
  <2>3. QED
    BY <1>13, <2>2 DEF Deliver, WaitInv
<1>14. CASE Judge
  BY <1>14 DEF Judge, WaitInv, Waits, AnswerComes
<1>15. CASE ReadEnd
  <2>1. ASSUME NEW c \in Calls, Waits(c)'
        PROVE  FALSE
    BY <1>15, <2>1 DEF ReadEnd, Shut, Listening, WaitInv, Waits, AnswerComes, RpcTypeOK
  <2>2. QED
    BY <1>15, <2>1 DEF ReadEnd, Shut, WaitInv
<1>16. CASE TakeLine \/ PluginEnds
  BY <1>16 DEF TakeLine, PluginEnds, hostVars, WaitInv, Waits, AnswerComes
<1>17. CASE UNCHANGED rpcVars
  BY <1>17 DEF rpcVars, WaitInv, Waits, AnswerComes
<1>18. QED
  BY <1>1, <1>2, <1>3, <1>4, <1>5, <1>6, <1>7, <1>8, <1>9, <1>10, <1>11, <1>12, <1>13, <1>14,
     <1>15, <1>16, <1>17
     DEF RpcNext, CallStep, ReaderStep

\* However a call's entry crosses the end of the conversation, it is told: by the drain, by
\* the answer being handed over, or by call() itself.
THEOREM NobodyWaits == RpcSpec => []NobodyLeftWaiting
<1>1. WaitInv => NobodyLeftWaiting
  BY DEF WaitInv, Waits, AnswerComes, NobodyLeftWaiting
<1>2. QED
  BY <1>1, WaitInit, WaitNext, RpcInitType, RpcNextType, PTL DEF RpcSpec

-----------------------------------------------------------------------------
(* The client implements Conversation. *)

\* A request is on its way once, before there is work for it.
RequestsAreNew(lines) ==
    \A i \in 1..Len(lines) : lines[i].kind = "request" =>
        call[lines[i].call] \notin {"idle", "entered"} /\ work[lines[i].call] = "none"
RequestsAreOnce(lines) ==
    \A i, j \in 1..Len(lines) :
        lines[i].kind = "request" /\ lines[j].kind = "request" /\ lines[i].call = lines[j].call
            => i = j
\* One answer per call, the same wherever it is on its way.
WorkInv ==
    /\ \A c \in Calls : work[c] # "none" => call[c] \notin {"idle", "entered"}
    /\ RequestsAreNew(toPlugin)
    /\ RequestsAreOnce(toPlugin)
    /\ \A i \in 1..Len(toHost) : work[toHost[i].call] = toHost[i].says
    /\ reader.at \in {"answering", "unclaimed"} => work[reader.answer.call] = reader.answer.says
    /\ \A c \in Calls : slot[c] \in Words => work[c] = slot[c]
    /\ \A c \in Calls : slot[c] = "closed" => closed

LEMMA WorkInit == RpcInit => WorkInv
BY DEF RpcInit, WorkInv, RequestsAreNew, RequestsAreOnce, Listening, Words

LEMMA OneNotice ==
    ASSUME NEW l \in Lines, l.kind # "request"
    PROVE  /\ <<l>> \o <<>> \in Seq(Lines)
           /\ \A i \in 1..Len(<<l>> \o <<>>) : (<<l>> \o <<>>)[i].kind # "request"
<1>1. <<l>> \o <<>> = <<l>>
  BY ConcatEmptySeq
<1>2. QED
  BY <1>1

LEMMA TwoNotices ==
    ASSUME NEW k \in Lines, NEW l \in Lines, k.kind # "request", l.kind # "request"
    PROVE  /\ <<k>> \o <<l>> \in Seq(Lines)
           /\ \A i \in 1..Len(<<k>> \o <<l>>) : (<<k>> \o <<l>>)[i].kind # "request"
<1>1. <<k>> \in Seq(Lines) /\ <<l>> \in Seq(Lines) /\ Len(<<k>>) = 1 /\ Len(<<l>>) = 1
  OBVIOUS
<1>2. QED
  BY <1>1, ConcatProperties

\* Lines that ask for nothing new change nothing.
LEMMA NoticesKeepRequests ==
    ASSUME RpcTypeOK, RequestsAreNew(toPlugin), RequestsAreOnce(toPlugin), NEW ls \in Seq(Lines),
           \A i \in 1..Len(ls) : ls[i].kind # "request"
    PROVE  RequestsAreNew(Notified(ls)) /\ RequestsAreOnce(Notified(ls))
<1> DEFINE lines == toPlugin \o ls
<1>1. toPlugin \in Seq(Lines)
  BY DEF RpcTypeOK, Lines
<1>2. /\ Len(lines) = Len(toPlugin) + Len(ls)
      /\ \A i \in 1..Len(lines) :
            lines[i] = IF i <= Len(toPlugin) THEN toPlugin[i] ELSE ls[i - Len(toPlugin)]
  BY <1>1, ConcatProperties
<1>3. Len(toPlugin) \in Nat /\ Len(ls) \in Nat
  BY <1>1, LenProperties
<1> HIDE DEF lines
<1>4. ASSUME NEW i \in 1..Len(lines), lines[i].kind = "request"
      PROVE  i \in 1..Len(toPlugin) /\ lines[i] = toPlugin[i]
  BY <1>2, <1>3, <1>4
<1>5. RequestsAreNew(lines)
  BY <1>4 DEF RequestsAreNew
<1>6. RequestsAreOnce(lines)
  BY <1>4 DEF RequestsAreOnce
<1>7. QED
  BY <1>5, <1>6 DEF Notified, lines

\* So does the loss of a line, and of what the plugin had not written.
LEMMA TakenKeepsRequests ==
    ASSUME RpcTypeOK, RequestsAreNew(toPlugin), RequestsAreOnce(toPlugin), toPlugin # <<>>
    PROVE  RequestsAreNew(Tail(toPlugin)) /\ RequestsAreOnce(Tail(toPlugin))
<1>1. toPlugin \in Seq(Lines)
  BY DEF RpcTypeOK, Lines
<1>2. Len(Tail(toPlugin)) = Len(toPlugin) - 1 /\ Len(toPlugin) \in Nat
      /\ \A i \in 1..Len(Tail(toPlugin)) : Tail(toPlugin)[i] = toPlugin[i + 1]
  BY <1>1, HeadTailProperties, LenProperties
<1>3. \A i \in 1..Len(Tail(toPlugin)) : i + 1 \in 1..Len(toPlugin)
  BY <1>2
<1>4. RequestsAreNew(Tail(toPlugin))
  BY <1>2, <1>3 DEF RequestsAreNew
<1>5. ASSUME NEW i \in 1..Len(Tail(toPlugin)), NEW j \in 1..Len(Tail(toPlugin)), i + 1 = j + 1
      PROVE  i = j
  BY <1>5
<1>6. RequestsAreOnce(Tail(toPlugin))
  BY <1>2, <1>3, <1>5 DEF RequestsAreOnce
<1>7. QED
  BY <1>4, <1>6

LEMMA TypedLines ==
    ASSUME RpcTypeOK
    PROVE  /\ toPlugin \in Seq(Lines) /\ toHost \in Seq(AnswerLines)
           /\ reader.at \in {"answering", "unclaimed"} => reader \in Reading
BY DEF RpcTypeOK, Lines, AnswerLines, Words, Reading, Listening, Stopped

\* Steps that begin no call but c, take no line and do no work.
LEMMA CallsKeepWork ==
    ASSUME RpcTypeOK, WorkInv, UNCHANGED <<work, toHost>>,
           \A d \in Calls : call'[d] \in {"idle", "entered"} => call[d] \in {"idle", "entered"},
           \A d \in Calls : slot'[d] \in Words => slot'[d] = slot[d],
           \A d \in Calls : slot'[d] = "closed" => closed',
           reader' = reader \/ reader' \in {Listening, Stopped},
           RequestsAreNew(toPlugin'), RequestsAreOnce(toPlugin'), toPlugin' \in Seq(Lines)
    PROVE  WorkInv'
<1>1. RequestsAreNew(toPlugin)'
  <2>1. \A i \in 1..Len(toPlugin') : toPlugin'[i].call \in Calls
    BY LineAt
  <2>2. QED
    BY <2>1 DEF RequestsAreNew
<1>2. RequestsAreOnce(toPlugin)'
  BY DEF RequestsAreOnce
<1>3. \A c \in Calls : work'[c] # "none" => call'[c] \notin {"idle", "entered"}
  BY DEF WorkInv
<1>4. \A i \in 1..Len(toHost') : work'[toHost'[i].call] = toHost'[i].says
  BY DEF WorkInv
<1>5. reader'.at \in {"answering", "unclaimed"} => work'[reader'.answer.call] = reader'.answer.says
  BY DEF WorkInv, Listening, Stopped
<1>6. \A c \in Calls : slot'[c] \in Words => work'[c] = slot'[c]
  BY DEF WorkInv
<1>7. QED
  BY <1>1, <1>2, <1>3, <1>4, <1>5, <1>6 DEF WorkInv

\* Tasks do their work once.
LEMMA TasksKeepWork ==
    ASSUME RpcTypeOK, WorkInv, NEW c \in Calls, work[c] \in {"running", "aborting"},
           NEW r \in Words \cup {"dropped"}, work' = [work EXCEPT ![c] = r],
           \/ toHost' = toHost
           \/ r \in Words /\ toHost' = Append(toHost, Answer(c, r)),
           UNCHANGED <<call, slot, closed, reader, toPlugin>>
    PROVE  WorkInv'
<1>1. RequestsAreNew(toPlugin)'
  <2>1. \A i \in 1..Len(toPlugin) : toPlugin[i].call \in Calls
    BY TypedLines, LineAt
  <2>2. QED
    BY <2>1 DEF WorkInv, RequestsAreNew, RpcTypeOK
<1>2. RequestsAreOnce(toPlugin)'
  BY DEF WorkInv, RequestsAreOnce
<1>3. \A d \in Calls : work'[d] # "none" => call'[d] \notin {"idle", "entered"}
  BY DEF WorkInv, RpcTypeOK
<1>4. \A i \in 1..Len(toHost') : work'[toHost'[i].call] = toHost'[i].says
  <2>1. \A i \in 1..Len(toHost) : toHost[i].call \in Calls /\ toHost[i].call # c
    <3>1. \A i \in 1..Len(toHost) : toHost[i].call \in Calls /\ toHost[i].says \in Words
      BY TypedLines, AnswerAt
    <3>2. QED
      BY <3>1 DEF WorkInv, Words
  <2>2. CASE toHost' = toHost
    BY <2>1, <2>2 DEF WorkInv, RpcTypeOK
  <2>3. CASE r \in Words /\ toHost' = Append(toHost, Answer(c, r))
    <3>1. toHost \in Seq(AnswerLines)
      BY TypedLines
    <3>2. Answer(c, r).call = c /\ Answer(c, r).says = r
      BY DEF Answer
    <3>3. QED
      BY <2>1, <2>3, <3>1, <3>2, AppendProperties DEF WorkInv, RpcTypeOK
  <2>4. QED
    BY <2>2, <2>3
<1>5. reader'.at \in {"answering", "unclaimed"} => work'[reader'.answer.call] = reader'.answer.says
  <2>1. reader.at \in {"answering", "unclaimed"} =>
            reader.answer.call \in Calls /\ reader.answer.says \in Words
    BY TypedLines DEF Reading, AnswerLines
  <2>2. QED
    BY <2>1 DEF WorkInv, Words, RpcTypeOK
<1>6. \A d \in Calls : slot'[d] \in Words => work'[d] = slot'[d]
  BY DEF WorkInv, Words, RpcTypeOK
<1>7. \A d \in Calls : slot'[d] = "closed" => closed'
  BY DEF WorkInv
<1>8. QED
  BY <1>1, <1>2, <1>3, <1>4, <1>5, <1>6, <1>7 DEF WorkInv
LEMMA WorkNext == RpcTypeOK /\ RpcTypeOK' /\ WorkInv /\ [RpcNext]_rpcVars => WorkInv'
<1> SUFFICES ASSUME RpcTypeOK, RpcTypeOK', WorkInv, [RpcNext]_rpcVars
             PROVE  WorkInv'
  OBVIOUS
<1> USE TypedLines
<1>0. /\ RequestsAreNew(toPlugin) /\ RequestsAreOnce(toPlugin)
      /\ toPlugin' \in Seq(Lines)
      /\ \A c \in Calls : slot[c] = "closed" => closed
  BY DEF WorkInv, RpcTypeOK, Lines
<1>1. ASSUME NEW c \in Calls, Enter(c)
      PROVE  WorkInv'
  BY <1>0, <1>1, CallsKeepWork DEF Enter, pluginVars, RpcTypeOK
<1>2. ASSUME NEW c \in Calls, Send(c)
      PROVE  WorkInv'
  <2>1. work[c] = "none"
    BY <1>2 DEF Send, WorkInv
  <2>2. \A i \in 1..Len(toPlugin) : toPlugin[i].kind = "request" => toPlugin[i].call # c
    BY <1>0, <1>2 DEF Send, RequestsAreNew
  <2>3. CASE toPlugin' = Append(toPlugin, Line("request", c))
    <3>1. /\ Len(toPlugin') = Len(toPlugin) + 1 /\ Len(toPlugin) \in Nat
          /\ \A i \in 1..Len(toPlugin) : toPlugin'[i] = toPlugin[i]
          /\ toPlugin'[Len(toPlugin) + 1] = Line("request", c)
      BY <2>3, AppendProperties, LenProperties
    <3>2. \A i \in 1..Len(toPlugin') :
              i \in 1..Len(toPlugin) \/ i = Len(toPlugin) + 1
      BY <3>1
    <3>3. Line("request", c).call = c
      BY DEF Line
    <3>4. \A d \in Calls : call'[d] = IF d = c THEN "waiting" ELSE call[d]
      BY <1>2 DEF Send, RpcTypeOK
    <3>5. \A i \in 1..Len(toPlugin) : toPlugin[i].call \in Calls
      BY LineAt
    <3>6. RequestsAreNew(toPlugin)'
      BY <1>0, <1>2, <2>1, <2>2, <3>1, <3>2, <3>3, <3>4, <3>5
         DEF Send, pluginVars, RequestsAreNew
    <3>7. RequestsAreOnce(toPlugin)'
      BY <1>0, <2>2, <3>1, <3>2, <3>3 DEF RequestsAreOnce
    <3>8. QED
      BY <1>2, <3>4, <3>6, <3>7 DEF Send, pluginVars, WorkInv
  <2>4. CASE toPlugin' = toPlugin
    BY <1>0, <1>2, <2>4, CallsKeepWork DEF Send, pluginVars, RpcTypeOK
  <2>5. QED
    BY <1>2, <2>3, <2>4 DEF Send
<1>3. ASSUME Shut, UNCHANGED <<work, toHost, toPlugin>>,
             reader' = reader \/ reader' = Stopped,
             \A d \in Calls : call'[d] \in {"idle", "entered"} => call[d] \in {"idle", "entered"}
      PROVE  WorkInv'
  BY <1>0, <1>3, CallsKeepWork DEF Shut, Words, RpcTypeOK
<1>4. ASSUME NEW c \in Calls, SendFails(c)
      PROVE  WorkInv'
  BY <1>3, <1>4 DEF SendFails, pluginVars, RpcTypeOK
<1>5. ASSUME NEW c \in Calls, Receive(c) \/ GiveUp(c)
      PROVE  WorkInv'
  BY <1>0, <1>5, CallsKeepWork DEF Receive, GiveUp, pluginVars, Words, RpcTypeOK
<1>6. ASSUME NEW c \in Calls, NoteAbandoned(c) \/ LeavePending(c)
      PROVE  WorkInv'
  BY <1>0, <1>6, CallsKeepWork DEF NoteAbandoned, LeavePending, pluginVars, RpcTypeOK
<1>7. ASSUME NEW ls \in Seq(Lines), \A i \in 1..Len(ls) : ls[i].kind # "request",
             toPlugin' = Notified(ls) \/ toPlugin' = toPlugin,
             UNCHANGED <<work, toHost, slot, closed>>,
             reader' = reader \/ reader' = Listening,
             \A d \in Calls : call'[d] \in {"idle", "entered"} => call[d] \in {"idle", "entered"}
      PROVE  WorkInv'
  <2>1. RequestsAreNew(toPlugin') /\ RequestsAreOnce(toPlugin')
    BY <1>0, <1>7, NoticesKeepRequests
  <2>2. QED
    BY <1>0, <1>7, <2>1, CallsKeepWork
<1>8. ASSUME NEW c \in Calls, TellCancel(c)
      PROVE  WorkInv'
  <2> DEFINE held == IF c \in Fetches THEN pages[FetchOf[c]] = "held" ELSE FALSE
             ls == <<Line("cancel", c)>> \o IF held THEN <<Line("close", FetchOf[c])>> ELSE <<>>
  <2>1. ls \in Seq(Lines) /\ \A i \in 1..Len(ls) : ls[i].kind # "request"
    <3>1. Line("cancel", c) \in Lines /\ Line("cancel", c).kind # "request"
      BY LineType DEF Line
    <3>2. CASE held
      <4>1. Line("close", FetchOf[c]) \in Lines /\ Line("close", FetchOf[c]).kind # "request"
        BY <3>2, FetchIsOfExecute, LineType DEF Line
      <4>2. QED
        BY <3>1, <3>2, <4>1, TwoNotices
    <3>3. CASE ~held
      BY <3>1, <3>3, OneNotice
    <3>4. QED
      BY <3>2, <3>3
  <2>2. toPlugin' = Notified(ls)
    BY <1>8 DEF TellCancel
  <2> HIDE DEF ls
  <2>3. QED
    BY <1>7, <1>8, <2>1, <2>2 DEF TellCancel, pluginVars, RpcTypeOK
<1>9. ASSUME NEW e \in Executes, DropPages(e)
      PROVE  WorkInv'
  <2> DEFINE ls == <<Line("close", e)>>
  <2>1. ls \in Seq(Lines) /\ \A i \in 1..Len(ls) : ls[i].kind # "request"
    <3>1. Line("close", e) \in Lines
      BY LineType DEF Calls
    <3>2. QED
      BY <3>1 DEF Line
  <2>2. toPlugin' = Notified(ls)
    BY <1>9 DEF DropPages
  <2> HIDE DEF ls
  <2>3. QED
    BY <1>7, <1>9, <2>1, <2>2 DEF DropPages, pluginVars
<1>10. CASE Judge
  <2> DEFINE ls == <<Line("close", reader.answer.call)>>
  <2>1. reader \in Reading
    BY <1>10 DEF Judge
  <2>2. ls \in Seq(Lines) /\ \A i \in 1..Len(ls) : ls[i].kind # "request"
    <3>1. Line("close", reader.answer.call) \in Lines
      BY <2>1, LineType DEF Reading, AnswerLines
    <3>2. QED
      BY <3>1 DEF Line
  <2>3. toPlugin' = Notified(ls) \/ toPlugin' = toPlugin
    BY <1>10 DEF Judge
  <2> HIDE DEF ls
  <2>4. QED
    BY <1>7, <1>10, <2>2, <2>3 DEF Judge, pluginVars
<1>11. CASE Close
  BY <1>3, <1>11 DEF Close, pluginVars
<1>12. CASE ReadAnswer
  <2>1. /\ Head(toHost) = toHost[1] /\ 1 \in 1..Len(toHost)
        /\ Len(Tail(toHost)) = Len(toHost) - 1 /\ Len(toHost) \in Nat
        /\ \A i \in 1..Len(Tail(toHost)) : Tail(toHost)[i] = toHost[i + 1]
    BY <1>12, HeadTailProperties, LenProperties DEF ReadAnswer
  <2>2. \A i \in 1..Len(Tail(toHost)) : i + 1 \in 1..Len(toHost)
    BY <2>1
  <2>3. \A i \in 1..Len(toHost) : work[toHost[i].call] = toHost[i].says
    BY DEF WorkInv
  <2>4. \A i \in 1..Len(toHost') : work'[toHost'[i].call] = toHost'[i].says
    BY <1>12, <2>1, <2>2, <2>3 DEF ReadAnswer, pluginVars
  <2>5. work'[reader'.answer.call] = reader'.answer.says
    BY <1>12, <2>1, <2>3 DEF ReadAnswer, pluginVars
  <2>6. QED
    BY <1>12, <2>4, <2>5
       DEF ReadAnswer, pluginVars, WorkInv, RequestsAreNew, RequestsAreOnce
<1>13. CASE Deliver
  <2>1. reader \in Reading /\ work[reader.answer.call] = reader.answer.says
    BY <1>13 DEF Deliver, WorkInv
  <2>2. reader.answer.call \in Calls /\ reader.answer.says \in Words
    BY <2>1 DEF Reading, AnswerLines
  <2>3. \A d \in Calls : slot'[d] \in Words => work'[d] = slot'[d]
    BY <1>13, <2>1, <2>2 DEF Deliver, pluginVars, WorkInv, RpcTypeOK
  <2>4. \A d \in Calls : slot'[d] = "closed" => closed'
    BY <1>0, <1>13, <2>2 DEF Deliver, Words, RpcTypeOK
  <2>5. QED
    BY <1>13, <2>3, <2>4
       DEF Deliver, Listening, pluginVars, WorkInv, RequestsAreNew, RequestsAreOnce
<1>14. CASE ReadEnd
  BY <1>3, <1>14 DEF ReadEnd, pluginVars
<1>15. ASSUME NEW c \in Calls, Answers(c)
       PROVE  WorkInv'
  <2>1. PICK r \in Words : work' = [work EXCEPT ![c] = r] /\ toHost' = Append(toHost, Answer(c, r))
    BY <1>15 DEF Answers, Words
  <2>2. QED
    BY <1>15, <2>1, TasksKeepWork DEF Answers, hostVars
<1>16. ASSUME NEW c \in Calls, AbortSeen(c)
       PROVE  WorkInv'
  BY <1>16, TasksKeepWork DEF AbortSeen, hostVars
<1>17. CASE TakeLine
  <2> DEFINE line == Head(toPlugin)
  <2>1. /\ line = toPlugin[1] /\ 1 \in 1..Len(toPlugin)
        /\ Len(Tail(toPlugin)) = Len(toPlugin) - 1 /\ Len(toPlugin) \in Nat
        /\ \A i \in 1..Len(Tail(toPlugin)) :
              Tail(toPlugin)[i] = toPlugin[i + 1] /\ i + 1 \in 1..Len(toPlugin) /\ i + 1 # 1
    BY <1>17, HeadTailProperties, LenProperties DEF TakeLine
  <2>2. line.call \in Calls
    BY <2>1, LineAt
  <2>3. RequestsAreNew(Tail(toPlugin)) /\ RequestsAreOnce(Tail(toPlugin))
    BY <1>0, <1>17, TakenKeepsRequests DEF TakeLine
  <2>4. \A i \in 1..Len(Tail(toPlugin)) : Tail(toPlugin)[i].call \in Calls
    BY <2>1, LineAt
  <2>5. CASE line.kind = "request"
    <3>1. work[line.call] = "none" /\ call[line.call] \notin {"idle", "entered"}
      BY <1>0, <2>1, <2>5 DEF RequestsAreNew
    <3>2. \A i \in 1..Len(Tail(toPlugin)) :
              Tail(toPlugin)[i].kind = "request" => Tail(toPlugin)[i].call # line.call
      BY <1>0, <2>1, <2>5 DEF RequestsAreOnce
    <3>3. work' = [work EXCEPT ![line.call] = "running"] /\ toPlugin' = Tail(toPlugin)
      BY <1>17, <2>5 DEF TakeLine
    <3>4. \A d \in Calls : work'[d] = IF d = line.call THEN "running" ELSE work[d]
      BY <2>2, <3>3 DEF RpcTypeOK
    <3>5. RequestsAreNew(toPlugin)'
      BY <1>17, <2>3, <2>4, <3>2, <3>3, <3>4 DEF TakeLine, hostVars, RequestsAreNew
    <3>6. RequestsAreOnce(toPlugin)'
      BY <2>3, <3>3 DEF RequestsAreOnce
    <3>7. \A d \in Calls : work'[d] # "none" => call'[d] \notin {"idle", "entered"}
      BY <1>17, <3>1, <3>4 DEF TakeLine, hostVars, WorkInv
    <3>8. \A i \in 1..Len(toHost) : work'[toHost[i].call] = toHost[i].says
      BY <3>1, <3>4, AnswerAt DEF WorkInv, Words
    <3>9. reader.at \in {"answering", "unclaimed"} =>
              work'[reader.answer.call] = reader.answer.says
      <4>1. reader.at \in {"answering", "unclaimed"} =>
                reader.answer.call \in Calls /\ reader.answer.says \in Words
        BY DEF Reading, AnswerLines
      <4>2. QED
        BY <3>1, <3>4, <4>1 DEF WorkInv, Words
    <3>10. \A d \in Calls : slot[d] \in Words => work'[d] = slot[d]
      BY <3>1, <3>4 DEF WorkInv, Words
    <3>11. QED
      BY <1>0, <1>17, <3>5, <3>6, <3>7, <3>8, <3>9, <3>10 DEF TakeLine, hostVars, WorkInv
  <2>6. CASE line.kind # "request" /\ work' = work
    BY <1>0, <1>17, <2>3, <2>6, CallsKeepWork DEF TakeLine, hostVars
  <2>7. CASE line.kind = "cancel" /\ work[line.call] = "running"
    <3>1. \A d \in Calls : work'[d] = IF d = line.call THEN "aborting" ELSE work[d]
      BY <1>17, <2>2, <2>7 DEF TakeLine, RpcTypeOK
    <3>2. RequestsAreNew(toPlugin)'
      BY <1>17, <2>3, <2>4, <2>7, <3>1 DEF TakeLine, hostVars, RequestsAreNew
    <3>3. RequestsAreOnce(toPlugin)'
      BY <1>17, <2>3 DEF TakeLine, RequestsAreOnce
    <3>4. \A d \in Calls : work'[d] # "none" => call'[d] \notin {"idle", "entered"}
      BY <1>17, <2>7, <3>1 DEF TakeLine, hostVars, WorkInv
    <3>5. \A i \in 1..Len(toHost) : work'[toHost[i].call] = toHost[i].says
      BY <2>7, <3>1, AnswerAt DEF WorkInv, Words
    <3>6. reader.at \in {"answering", "unclaimed"} =>
              work'[reader.answer.call] = reader.answer.says
      <4>1. reader.at \in {"answering", "unclaimed"} =>
                reader.answer.call \in Calls /\ reader.answer.says \in Words
        BY DEF Reading, AnswerLines
      <4>2. QED
        BY <2>7, <3>1, <4>1 DEF WorkInv, Words
    <3>7. \A d \in Calls : slot[d] \in Words => work'[d] = slot[d]
      BY <2>7, <3>1 DEF WorkInv, Words
    <3>8. QED
      BY <1>0, <1>17, <3>2, <3>3, <3>4, <3>5, <3>6, <3>7 DEF TakeLine, hostVars, WorkInv
  <2>8. QED
    BY <1>17, <2>5, <2>6, <2>7 DEF TakeLine
<1>18. CASE PluginEnds
  <2>1. PICK n \in 0..Len(toHost) : toHost' = SubSeq(toHost, 1, n)
    BY <1>18 DEF PluginEnds
  <2>2. Len(toHost') = n /\ \A i \in 1..Len(toHost') : toHost'[i] = toHost[i] /\ i \in 1..Len(toHost)
    <3>1. Len(toHost) \in Nat /\ \A i \in 1..n : toHost[i] \in AnswerLines
      BY AnswerAt, LenProperties
    <3>2. QED
      BY <2>1, <3>1, SubSeqProperties
  <2>3. RequestsAreNew(<<>>) /\ RequestsAreOnce(<<>>)
    BY DEF RequestsAreNew, RequestsAreOnce
  <2>4. QED
    BY <1>18, <2>2, <2>3 DEF PluginEnds, hostVars, WorkInv, RequestsAreNew, RequestsAreOnce
<1>19. CASE UNCHANGED rpcVars
  BY <1>19 DEF rpcVars, WorkInv, RequestsAreNew, RequestsAreOnce
<1>20. QED
  BY <1>1, <1>2, <1>4, <1>5, <1>6, <1>8, <1>9, <1>10, <1>11, <1>12, <1>13, <1>14, <1>15, <1>16,
     <1>17, <1>18, <1>19
     DEF RpcNext, CallStep, TaskStep, ReaderStep

-----------------------------------------------------------------------------
(* What each step is to the promise. *)

Fates == [c \in Calls |-> FateOf(c)]
Saids == [c \in Calls |-> Saying(work[c])]

\* Steps that leave every fate and every answer as it was are no step, or the end.
LEMMA QuietSteps ==
    ASSUME \A c \in Calls : FateOf(c)' = FateOf(c), \A c \in Calls : Saying(work[c])' = Saying(work[c]),
           closed' = closed \/ closed' = TRUE
    PROVE  [Promise!ConvNext]_(Promise!convVars)
<1>1. Fates' = Fates /\ Saids' = Saids
  BY DEF Fates, Saids
<1>2. CASE closed' = closed
  BY <1>1, <1>2 DEF Promise!convVars, Fates, Saids
<1>3. CASE closed' = TRUE
  BY <1>1, <1>3 DEF Promise!ConvNext, Promise!End, Fates, Saids
<1>4. QED
  BY <1>2, <1>3

LEMMA PromiseInit == RpcInit => Promise!ConvInit
BY DEF RpcInit, Promise!ConvInit, FateOf, Saying

\* A call that moves on while its fate stays open, or stays given up.
LEMMA CallMovesOn ==
    ASSUME RpcTypeOK, NEW c \in Calls, NEW to, call' = [call EXCEPT ![c] = to],
           \/ call[c] \in {"entered", "waiting"} /\ to \in {"entered", "waiting"}
           \/ call[c] \in {"dropping", "noted", "left"} /\ to \in {"dropping", "noted", "left"},
           UNCHANGED <<outcome, work>>,
           closed' = closed \/ closed' = TRUE
    PROVE  [Promise!ConvNext]_(Promise!convVars)
<1>1. \A d \in Calls : FateOf(d)' = FateOf(d)
  BY DEF FateOf, RpcTypeOK
<1>2. \A d \in Calls : Saying(work[d])' = Saying(work[d])
  BY DEF Saying
<1>3. QED
  BY <1>1, <1>2, QuietSteps
\* A call whose fate alone changes.
LEMMA FateChanges ==
    ASSUME RpcTypeOK, NEW c \in Calls, NEW f,
           \A d \in Calls \ {c} : call'[d] = call[d] /\ outcome'[d] = outcome[d],
           FateOf(c)' = f, UNCHANGED <<work, closed>>
    PROVE  Fates' = [Fates EXCEPT ![c] = f] /\ UNCHANGED <<Saids, closed>>
<1>1. \A d \in Calls \ {c} : FateOf(d)' = FateOf(d)
  BY DEF FateOf
<1>2. QED
  BY <1>1 DEF Fates, Saids

LEMMA PromiseNext ==
    RpcTypeOK /\ WorkInv /\ [RpcNext]_rpcVars => [Promise!ConvNext]_(Promise!convVars)
<1> SUFFICES ASSUME RpcTypeOK, WorkInv, [RpcNext]_rpcVars
             PROVE  [Promise!ConvNext]_(Promise!convVars)
  OBVIOUS
<1> USE DEF Fates, Saids
<1>1. ASSUME NEW c \in Calls, Enter(c)
      PROVE  Promise!ConvNext
  <2>1. FateOf(c) = "new" /\ \A d \in Calls \ {c} : call'[d] = call[d] /\ outcome'[d] = outcome[d]
    BY <1>1 DEF Enter, FateOf, RpcTypeOK
  <2>2. CASE closed
    <3>1. FateOf(c)' = "closed"
      BY <1>1, <2>2 DEF Enter, FateOf, RpcTypeOK
    <3>2. Promise!Fail(c)
      BY <1>1, <2>1, <2>2, <3>1, FateChanges DEF Enter, pluginVars, Promise!Fail
    <3>3. QED
      BY <3>2 DEF Promise!ConvNext
  <2>3. CASE ~closed
    <3>1. FateOf(c)' = "open"
      BY <1>1, <2>3 DEF Enter, FateOf, RpcTypeOK
    <3>2. Promise!Begin(c)
      BY <1>1, <2>1, <2>3, <3>1, FateChanges DEF Enter, pluginVars, Promise!Begin
    <3>3. QED
      BY <3>2 DEF Promise!ConvNext
  <2>4. QED
    BY <2>2, <2>3
<1>2. ASSUME NEW c \in Calls, Send(c)
      PROVE  [Promise!ConvNext]_(Promise!convVars)
  BY <1>2, CallMovesOn DEF Send, pluginVars
<1>3. ASSUME NEW c \in Calls, SendFails(c)
      PROVE  [Promise!ConvNext]_(Promise!convVars)
  BY <1>3, CallMovesOn DEF SendFails, Shut, pluginVars
<1>4. ASSUME NEW c \in Calls, Receive(c)
      PROVE  Promise!ConvNext
  <2>1. FateOf(c) = "open" /\ \A d \in Calls \ {c} : call'[d] = call[d] /\ outcome'[d] = outcome[d]
    BY <1>4 DEF Receive, FateOf, RpcTypeOK
  <2>2. FateOf(c)' = IF slot[c] = "last" THEN "value" ELSE slot[c]
    BY <1>4 DEF Receive, FateOf, RpcTypeOK
  <2>3. CASE slot[c] \in Words
    <3>1. work[c] = slot[c]
      BY <2>3 DEF WorkInv
    <3>2. Saying(work[c]) = FateOf(c)' /\ Saying(work[c]) # "nothing"
      BY <2>2, <2>3, <3>1 DEF Saying, Words
    <3>3. Promise!Finish(c)
      BY <1>4, <2>1, <3>2, FateChanges DEF Receive, pluginVars, Promise!Finish
    <3>4. QED
      BY <3>3 DEF Promise!ConvNext
  <2>4. CASE slot[c] = "closed"
    <3>1. closed
      BY <2>4 DEF WorkInv
    <3>2. Promise!Fail(c)
      BY <1>4, <2>1, <2>2, <2>4, <3>1, FateChanges DEF Receive, pluginVars, Promise!Fail
    <3>3. QED
      BY <3>2 DEF Promise!ConvNext
  <2>5. QED
    BY <1>4, <2>3, <2>4 DEF Receive, RpcTypeOK, Words
<1>5. ASSUME NEW c \in Calls, GiveUp(c)
      PROVE  Promise!ConvNext
  <2>1. FateOf(c) = "open" /\ \A d \in Calls \ {c} : call'[d] = call[d] /\ outcome'[d] = outcome[d]
    BY <1>5 DEF GiveUp, FateOf, RpcTypeOK
  <2>2. FateOf(c)' = "given up"
    BY <1>5 DEF GiveUp, FateOf, RpcTypeOK
  <2>3. Promise!Abandon(c)
    BY <1>5, <2>1, <2>2, FateChanges DEF GiveUp, pluginVars, Promise!Abandon
  <2>4. QED
    BY <2>3 DEF Promise!ConvNext
<1>6. ASSUME NEW c \in Calls, NoteAbandoned(c) \/ LeavePending(c)
      PROVE  [Promise!ConvNext]_(Promise!convVars)
  BY <1>6, CallMovesOn DEF NoteAbandoned, LeavePending, pluginVars
<1>7. ASSUME NEW c \in Calls, TellCancel(c)
      PROVE  [Promise!ConvNext]_(Promise!convVars)
  <2>1. \A d \in Calls : FateOf(d)' = FateOf(d)
    BY <1>7 DEF TellCancel, FateOf, RpcTypeOK
  <2>2. QED
    BY <1>7, <2>1, QuietSteps DEF TellCancel, pluginVars, Saying
<1>8. ASSUME NEW c \in Calls, Answers(c)
      PROVE  Promise!ConvNext
  <2>1. PICK r \in Words : work' = [work EXCEPT ![c] = r]
    BY <1>8 DEF Answers, Words
  <2>2. Saying(work[c]) = "nothing" /\ Saying(work[c])' \in {"value", "error"}
    BY <1>8, <2>1 DEF Answers, Saying, Words, RpcTypeOK
  <2>3. FateOf(c) # "new"
    BY <1>8 DEF Answers, WorkInv, FateOf, RpcTypeOK, Ended
  <2>4. \A d \in Calls : FateOf(d)' = FateOf(d)
    BY <1>8 DEF Answers, hostVars, FateOf
  <2>5. \A d \in Calls \ {c} : Saying(work[d])' = Saying(work[d])
    BY <2>1 DEF Saying, RpcTypeOK
  <2>6. Fates' = Fates /\ Saids' = [Saids EXCEPT ![c] = Saying(work[c])']
    BY <2>4, <2>5
  <2>7. Promise!Say(c)
    BY <1>8, <2>2, <2>3, <2>6 DEF Answers, hostVars, Promise!Say
  <2>8. QED
    BY <2>7 DEF Promise!ConvNext
<1>9. ASSUME UNCHANGED <<call, outcome>>,
             \A c \in Calls : Saying(work[c])' = Saying(work[c]),
             closed' = closed \/ closed' = TRUE
      PROVE  [Promise!ConvNext]_(Promise!convVars)
  BY <1>9, QuietSteps DEF FateOf
<1>10. ASSUME NEW c \in Calls, AbortSeen(c)
       PROVE  [Promise!ConvNext]_(Promise!convVars)
  <2>1. \A d \in Calls : Saying(work[d])' = Saying(work[d])
    BY <1>10 DEF AbortSeen, Saying, RpcTypeOK
  <2>2. QED
    BY <1>9, <1>10, <2>1 DEF AbortSeen, hostVars
<1>11. CASE TakeLine
  <2> DEFINE c == Head(toPlugin).call
  <2>1. c \in Calls /\ (Head(toPlugin).kind = "request" => work[c] = "none")
    <3>1. Head(toPlugin) = toPlugin[1] /\ 1 \in 1..Len(toPlugin)
      BY <1>11, TypedLines, HeadTailProperties, LenProperties DEF TakeLine
    <3>2. QED
      BY <3>1, TypedLines, LineAt DEF WorkInv, RequestsAreNew
  <2>2. \/ work' = work
        \/ work[c] = "none" /\ work' = [work EXCEPT ![c] = "running"]
        \/ work[c] = "running" /\ work' = [work EXCEPT ![c] = "aborting"]
    BY <1>11, <2>1 DEF TakeLine
  <2> HIDE DEF c
  <2>3. \A d \in Calls : Saying(work[d])' = Saying(work[d])
    BY <2>1, <2>2 DEF Saying, RpcTypeOK
  <2>4. QED
    BY <1>9, <1>11, <2>3 DEF TakeLine, hostVars
<1>12. CASE (\E e \in Executes : DropPages(e)) \/ Close \/ ReaderStep
  BY <1>9, <1>12
     DEF DropPages, Close, ReaderStep, ReadAnswer, Deliver, Judge, ReadEnd, Shut, pluginVars
<1>13. CASE PluginEnds \/ UNCHANGED rpcVars
  BY <1>9, <1>13 DEF PluginEnds, rpcVars, hostVars
<1>14. QED
  BY <1>1, <1>2, <1>3, <1>4, <1>5, <1>6, <1>7, <1>8, <1>10, <1>11, <1>12, <1>13
     DEF RpcNext, CallStep, TaskStep

\* The client implements Conversation, for any number of calls: an answer goes to the call it
\* is of, a failure for the end comes only with the end, what was given up stays so.
THEOREM ConversationImplemented == RpcSpec => ConversationKept
<1>1. RpcSpec => [](RpcTypeOK /\ WorkInv)
  BY RpcInitType, RpcNextType, WorkInit, WorkNext, PTL DEF RpcSpec
<1>2. QED
  BY <1>1, PromiseInit, PromiseNext, PTL DEF RpcSpec, ConversationKept, Promise!ConvSpec

-----------------------------------------------------------------------------
(* Every cursor has an owner. *)

\* A call's answer was not read yet: it is not made, or it is on its way.
InFlight(c) == \E i \in 1..Len(toHost) : toHost[i].call = c
Unread(c) == work[c] \in {"none", "running", "aborting"} \/ InFlight(c)

\* An answer comes once.
ReadOnce ==
    /\ \A i, j \in 1..Len(toHost) : toHost[i].call = toHost[j].call => i = j
    /\ reader.at \in {"answering", "unclaimed"} => ~InFlight(reader.answer.call)

\* Whoever's answer is still to be read waits for it or has noted that it does not.
OwedInv ==
    \A e \in Executes : ~closed =>
        /\ call[e] # "idle" /\ Unread(e) => e \in pending \/ e \in abandoned
        /\ call[e] = "noted" /\ Unread(e) => e \in abandoned
        /\ reader.at = "unclaimed" /\ reader.answer.call = e => e \in abandoned

\* A cursor is of a query that was answered, and goes with the last of its pages.
CursorsSaid ==
    /\ \A e \in cursors : work[e] = "value"
    /\ \A f \in Fetches :
          work[f] = "last" => work[FetchOf[f]] = "value" /\ FetchOf[f] \notin cursors

\* Stdin is closed, and the reading thread stops, only with the end.
OpenInv == ~out \/ reader = Stopped => closed

CursorInv == ReadOnce /\ OwedInv /\ CursorsSaid /\ OpenInv /\ CursorsAccounted

LEMMA CursorInit == RpcInit => CursorInv
<1> SUFFICES ASSUME RpcInit
             PROVE  CursorInv
  OBVIOUS
<1>1. ReadOnce /\ OpenInv
  BY DEF RpcInit, ReadOnce, OpenInv, Listening, Stopped
<1>2. OwedInv
  BY DEF RpcInit, OwedInv, Listening, Calls
<1>3. CursorsSaid /\ CursorsAccounted
  BY DEF RpcInit, CursorsSaid, CursorsAccounted, Calls
<1>4. QED
  BY <1>1, <1>2, <1>3 DEF CursorInv

\* What a step does to the answers on their way: nothing, but in these three.
LEMMA FlightsKept ==
    ASSUME [RpcNext]_rpcVars
    PROVE  \/ /\ toHost' = toHost
              /\ reader' = reader \/ reader' \in {Listening, Stopped}
           \/ \E c \in Calls : Answers(c)
           \/ ReadAnswer
           \/ PluginEnds
<1>1. CASE \E c \in Calls : CallStep(c)
  BY <1>1 DEF CallStep, Enter, Send, SendFails, Receive, GiveUp, NoteAbandoned, LeavePending,
              TellCancel, Shut
<1>2. CASE (\E c \in Calls : AbortSeen(c)) \/ TakeLine
  BY <1>2 DEF AbortSeen, TakeLine, hostVars
<1>3. CASE (\E e \in Executes : DropPages(e)) \/ Close
  BY <1>3 DEF DropPages, Close
<1>4. CASE Deliver \/ Judge \/ ReadEnd
  BY <1>4 DEF Deliver, Judge, ReadEnd
<1>5. CASE UNCHANGED rpcVars
  BY <1>5 DEF rpcVars
<1>6. QED
  BY <1>1, <1>2, <1>3, <1>4, <1>5 DEF RpcNext, TaskStep, ReaderStep

LEMMA FlightSent ==
    ASSUME RpcTypeOK, NEW c \in Calls, NEW r \in Words, toHost' = Append(toHost, Answer(c, r))
    PROVE  /\ Len(toHost) \in Nat /\ Len(toHost') = Len(toHost) + 1
           /\ \A i \in 1..Len(toHost) : toHost'[i] = toHost[i]
           /\ toHost'[Len(toHost')] = Answer(c, r)
BY AppendProperties, LenProperties DEF RpcTypeOK, Answer, Words

LEMMA FlightRead ==
    ASSUME RpcTypeOK, ReadAnswer
    PROVE  /\ Len(toHost) \in Nat \ {0} /\ Len(toHost') = Len(toHost) - 1
           /\ \A i \in 1..Len(toHost') : toHost'[i] = toHost[i + 1] /\ i + 1 \in 1..Len(toHost)
           /\ reader'.answer = toHost[1] /\ toHost[1] \in AnswerLines
           /\ reader'.at \in {"answering", "unclaimed"}
<1>1. toHost \in Seq(AnswerLines) /\ toHost # <<>>
  BY DEF RpcTypeOK, AnswerLines, Words, ReadAnswer
<1>2. /\ Head(toHost) = toHost[1] /\ 1 \in 1..Len(toHost)
      /\ Len(Tail(toHost)) = Len(toHost) - 1 /\ Len(toHost) \in Nat
      /\ \A i \in 1..Len(Tail(toHost)) : Tail(toHost)[i] = toHost[i + 1]
  BY <1>1, HeadTailProperties, LenProperties
<1>3. toHost[1] \in AnswerLines
  BY <1>1, <1>2, AnswerAt
<1>4. QED
  BY <1>2, <1>3 DEF ReadAnswer

LEMMA FlightLost ==
    ASSUME RpcTypeOK, PluginEnds
    PROVE  /\ Len(toHost) \in Nat /\ Len(toHost') \in Nat /\ Len(toHost') <= Len(toHost)
           /\ \A i \in 1..Len(toHost') : toHost'[i] = toHost[i]
           /\ reader' = reader
<1>1. toHost \in Seq(AnswerLines)
  BY DEF RpcTypeOK, AnswerLines, Words
<1>2. PICK n \in 0..Len(toHost) : toHost' = SubSeq(toHost, 1, n)
  BY DEF PluginEnds
<1>3. Len(toHost) \in Nat /\ \A i \in 1..n : toHost[i] \in AnswerLines
  BY <1>1, AnswerAt, LenProperties
<1>4. Len(toHost') = n /\ \A i \in 1..n : toHost'[i] = toHost[i]
  BY <1>2, <1>3, SubSeqProperties
<1>5. QED
  BY <1>3, <1>4 DEF PluginEnds, hostVars

LEMMA ReadOnceNext ==
    RpcTypeOK /\ WorkInv /\ ReadOnce /\ [RpcNext]_rpcVars => ReadOnce'
<1> SUFFICES ASSUME RpcTypeOK, WorkInv, ReadOnce, [RpcNext]_rpcVars
             PROVE  ReadOnce'
  OBVIOUS
<1>1. CASE toHost' = toHost /\ (reader' = reader \/ reader' \in {Listening, Stopped})
  BY <1>1 DEF ReadOnce, InFlight, Listening, Stopped
<1>2. ASSUME NEW c \in Calls, Answers(c)
      PROVE  ReadOnce'
  <2>1. PICK r \in Words : toHost' = Append(toHost, Answer(c, r))
    BY <1>2 DEF Answers, Words
  <2>2. reader' = reader /\ work[c] \notin Words
    BY <1>2 DEF Answers, hostVars, Words
  <2>3. \A i \in 1..Len(toHost) : toHost[i].call # c
    BY <2>2, TypedLines, AnswerAt DEF WorkInv
  <2>4. reader.at \in {"answering", "unclaimed"} => reader.answer.call # c
    BY <2>2 DEF WorkInv, RpcTypeOK, Words, Listening, Stopped
  <2>5. Answer(c, r).call = c
    BY DEF Answer
  <2>6. QED
    BY <2>1, <2>2, <2>3, <2>4, <2>5, FlightSent DEF ReadOnce, InFlight
<1>3. CASE ReadAnswer
  BY <1>3, FlightRead DEF ReadOnce, InFlight
<1>4. CASE PluginEnds
  BY <1>4, FlightLost DEF ReadOnce, InFlight
<1>5. QED
  BY <1>1, <1>2, <1>3, <1>4, FlightsKept

\* An answer that was read is not made, nor sent, again.
LEMMA UnreadNext ==
    ASSUME RpcTypeOK, WorkInv, [RpcNext]_rpcVars, NEW c \in Calls, Unread(c)'
    PROVE  Unread(c)
<1>1. CASE InFlight(c)'
  <2>1. CASE toHost' = toHost
    BY <1>1, <2>1 DEF InFlight, Unread
  <2>2. ASSUME NEW d \in Calls, Answers(d)
        PROVE  Unread(c)
    <3>1. PICK r \in Words : toHost' = Append(toHost, Answer(d, r))
      BY <2>2 DEF Answers, Words
    <3>2. Answer(d, r).call = d /\ work[d] \in {"running", "aborting"}
      BY <2>2 DEF Answer, Answers
    <3>3. QED
      BY <1>1, <3>1, <3>2, FlightSent DEF InFlight, Unread
  <2>3. CASE ReadAnswer
    BY <1>1, <2>3, FlightRead DEF InFlight, Unread
  <2>4. CASE PluginEnds
    BY <1>1, <2>4, FlightLost DEF InFlight, Unread
  <2>5. QED
    BY <2>1, <2>2, <2>3, <2>4, FlightsKept
<1>2. CASE work'[c] \in {"none", "running", "aborting"}
  <2>1. CASE work' = work
    BY <1>2, <2>1 DEF Unread
  <2>2. CASE TakeLine
    <3>1. Head(toPlugin).call \in Calls /\
          (Head(toPlugin).kind = "request" => work[Head(toPlugin).call] = "none")
      <4>1. Head(toPlugin) = toPlugin[1] /\ 1 \in 1..Len(toPlugin)
        BY <2>2, TypedLines, HeadTailProperties, LenProperties DEF TakeLine
      <4>2. QED
        BY <4>1, TypedLines, LineAt DEF WorkInv, RequestsAreNew
    <3>2. QED
      BY <1>2, <2>2, <3>1 DEF TakeLine, Unread, RpcTypeOK
  <2>3. ASSUME NEW d \in Calls, TaskStep(d)
        PROVE  Unread(c)
    BY <1>2, <2>3 DEF TaskStep, Answers, AbortSeen, Unread, RpcTypeOK
  <2>4. work' = work \/ TakeLine \/ \E d \in Calls : TaskStep(d)
    BY DEF RpcNext, rpcVars, CallStep, ReaderStep, Enter, Send, SendFails, Receive, GiveUp,
           NoteAbandoned, LeavePending, TellCancel, DropPages, Close, ReadAnswer, Deliver, Judge,
           ReadEnd, PluginEnds, pluginVars
  <2>5. QED
    BY <2>1, <2>2, <2>3, <2>4
<1>3. QED
  BY <1>1, <1>2 DEF Unread

\* The end is for good, and nothing closes stdin or stops the thread without it.
LEMMA OpenNext ==
    RpcTypeOK /\ OpenInv /\ [RpcNext]_rpcVars => OpenInv' /\ (closed => closed')
<1> SUFFICES ASSUME RpcTypeOK, OpenInv, [RpcNext]_rpcVars
             PROVE  OpenInv' /\ (closed => closed')
  OBVIOUS
<1>1. ASSUME NEW c \in Calls, CallStep(c)
      PROVE  OpenInv' /\ (closed => closed')
  <2>1. CASE SendFails(c)
    BY <2>1 DEF SendFails, Shut, OpenInv
  <2>2. CASE ~SendFails(c)
    <3>1. UNCHANGED <<closed, out, reader>>
      BY <1>1, <2>2 DEF CallStep, Enter, Send, Receive, GiveUp, NoteAbandoned, LeavePending,
                        TellCancel
    <3>2. QED
      BY <3>1 DEF OpenInv
  <2>3. QED
    BY <2>1, <2>2
<1>2. CASE (\E c \in Calls : TaskStep(c)) \/ TakeLine \/ PluginEnds
  BY <1>2 DEF TaskStep, Answers, AbortSeen, TakeLine, PluginEnds, hostVars, OpenInv
<1>3. CASE (\E e \in Executes : DropPages(e)) \/ Close
  BY <1>3 DEF DropPages, Close, Shut, OpenInv
<1>4. CASE ReaderStep
  BY <1>4 DEF ReaderStep, ReadAnswer, Deliver, Judge, ReadEnd, Shut, OpenInv, Listening, Stopped
<1>5. CASE UNCHANGED rpcVars
  BY <1>5 DEF rpcVars, OpenInv
<1>6. QED
  BY <1>1, <1>2, <1>3, <1>4, <1>5 DEF RpcNext

\* Only the reader, the end and the call itself take a call out of the table; only the
\* reader takes one from those that were noted.
LEMMA TablesKept ==
    ASSUME RpcTypeOK, [RpcNext]_rpcVars, ~closed', NEW e \in Executes
    PROVE  /\ e \in pending => \/ e \in pending'
                               \/ ReadAnswer /\ toHost[1].call = e
                               \/ LeavePending(e)
           /\ e \in abandoned => \/ e \in abandoned'
                                 \/ Judge /\ reader.answer.call = e
<1>1. ASSUME NEW c \in Calls, CallStep(c)
      PROVE  /\ e \in pending => e \in pending' \/ LeavePending(e)
             /\ e \in abandoned => e \in abandoned'
  BY <1>1 DEF CallStep, Enter, Send, SendFails, Receive, GiveUp, NoteAbandoned, LeavePending,
              TellCancel, Shut
<1>2. CASE (\E c \in Calls : TaskStep(c)) \/ TakeLine \/ PluginEnds
  BY <1>2 DEF TaskStep, Answers, AbortSeen, TakeLine, PluginEnds, hostVars
<1>3. CASE (\E d \in Executes : DropPages(d)) \/ Close
  BY <1>3 DEF DropPages, Close, Shut
<1>4. CASE ReadAnswer
  <2>1. Head(toHost) = toHost[1]
    BY <1>4, TypedLines, HeadTailProperties DEF ReadAnswer
  <2>2. QED
    BY <1>4, <2>1 DEF ReadAnswer
<1>5. CASE Deliver \/ ReadEnd
  BY <1>5 DEF Deliver, ReadEnd, Shut
<1>6. CASE Judge
  BY <1>6 DEF Judge
<1>7. CASE UNCHANGED rpcVars
  BY <1>7 DEF rpcVars
<1>8. QED
  BY <1>1, <1>2, <1>3, <1>4, <1>5, <1>6, <1>7 DEF RpcNext, ReaderStep

\* Where a call comes from.
LEMMA CallFrom ==
    ASSUME RpcTypeOK, [RpcNext]_rpcVars, ~closed', NEW e \in Executes
    PROVE  /\ call'[e] # "idle" => call[e] # "idle" \/ e \in pending'
           /\ call'[e] = "noted" => call[e] = "noted" \/ e \in abandoned'
           /\ LeavePending(e) => call'[e] # "noted"
<1>0. e \in Calls
  BY DEF Calls
<1>1. ASSUME NEW c \in Calls, CallStep(c)
      PROVE  /\ call'[e] # "idle" => call[e] # "idle" \/ e \in pending'
             /\ call'[e] = "noted" => call[e] = "noted" \/ e \in abandoned'
  <2>1. CASE Enter(c)
    BY <1>0, <2>1, ~closed' DEF Enter, RpcTypeOK
  <2>2. CASE NoteAbandoned(c)
    BY <1>0, <2>2 DEF NoteAbandoned, RpcTypeOK
  <2>3. CASE ~Enter(c) /\ ~NoteAbandoned(c)
    <3>1. /\ call[c] # "idle"
          /\ \E to \in {"waiting", "done", "dropping", "left"} : call' = [call EXCEPT ![c] = to]
      BY <1>1, <2>3
         DEF CallStep, Send, SendFails, Receive, GiveUp, LeavePending, TellCancel
    <3>2. QED
      BY <1>0, <3>1 DEF RpcTypeOK
  <2>4. QED
    BY <2>1, <2>2, <2>3
<1>2. call' = call \/ \E c \in Calls : CallStep(c)
  BY DEF RpcNext, rpcVars, TaskStep, ReaderStep, Answers, AbortSeen, TakeLine, PluginEnds,
         DropPages, Close, ReadAnswer, Deliver, Judge, ReadEnd, hostVars
<1>3. LeavePending(e) => call'[e] # "noted"
  BY <1>0 DEF LeavePending, RpcTypeOK
<1>4. QED
  BY <1>1, <1>2, <1>3

LEMMA OwedNext ==
    /\ RpcTypeOK /\ WorkInv /\ ReadOnce /\ ReadOnce' /\ OpenInv /\ OwedInv
    /\ [RpcNext]_rpcVars
    => OwedInv'
<1> SUFFICES ASSUME RpcTypeOK, WorkInv, ReadOnce, ReadOnce', OpenInv, OwedInv,
                    [RpcNext]_rpcVars, NEW e \in Executes, ~closed'
             PROVE  /\ call'[e] # "idle" /\ Unread(e)' => e \in pending' \/ e \in abandoned'
                    /\ call'[e] = "noted" /\ Unread(e)' => e \in abandoned'
                    /\ reader'.at = "unclaimed" /\ reader'.answer.call = e => e \in abandoned'
  BY DEF OwedInv
<1>0. e \in Calls /\ ~closed
  BY OpenNext DEF Calls
<1>1. ASSUME Judge, reader.answer.call = e
      PROVE  ~Unread(e)
  <2>1. reader \in Reading
    BY <1>1, TypedLines DEF Judge
  <2>2. work[e] \in Words
    BY <1>1, <2>1 DEF Judge, WorkInv, Reading, AnswerLines
  <2>3. QED
    BY <1>1, <2>2 DEF Judge, ReadOnce, Unread, Words
<1>2. ASSUME ReadAnswer, toHost[1].call = e
      PROVE  /\ ~Unread(e)' /\ InFlight(e) /\ call[e] # "idle"
             /\ reader'.answer.call = e
  <2>1. /\ reader'.answer.call = e /\ InFlight(e) /\ reader'.at \in {"answering", "unclaimed"}
        /\ 1 \in 1..Len(toHost) /\ toHost[1].says \in Words
    BY <1>2, FlightRead DEF InFlight, AnswerLines
  <2>2. work[e] \in Words /\ work' = work
    BY <1>2, <2>1 DEF WorkInv, ReadAnswer, pluginVars
  <2>3. call[e] # "idle"
    BY <1>0, <2>2 DEF WorkInv, Words
  <2>4. ~Unread(e)'
    BY <2>1, <2>2 DEF ReadOnce, Unread, Words
  <2>5. QED
    BY <2>1, <2>3, <2>4
<1>3. ASSUME Unread(e)'
      PROVE  Unread(e) /\ (e \in abandoned => e \in abandoned')
  BY <1>0, <1>1, <1>3, UnreadNext, TablesKept
<1>4. ASSUME call'[e] = "noted", Unread(e)'
      PROVE  e \in abandoned'
  BY <1>0, <1>3, <1>4, CallFrom DEF OwedInv
<1>5. ASSUME call'[e] # "idle", Unread(e)'
      PROVE  e \in pending' \/ e \in abandoned'
  <2>1. CASE call[e] = "idle"
    BY <1>5, <2>1, CallFrom
  <2>2. CASE e \in pending /\ ~LeavePending(e)
    BY <1>2, <1>5, <2>2, TablesKept
  <2>3. CASE LeavePending(e)
    BY <1>0, <1>3, <1>5, <2>3 DEF LeavePending, OwedInv
  <2>4. CASE call[e] # "idle" /\ e \notin pending
    BY <1>0, <1>3, <1>5, <2>4 DEF OwedInv
  <2>5. QED
    BY <2>1, <2>2, <2>3, <2>4
<1>6. ASSUME reader'.at = "unclaimed", reader'.answer.call = e
      PROVE  e \in abandoned'
  <2>1. CASE ReadAnswer
    <3>1. toHost[1].call = e /\ e \notin pending
      <4>1. toHost[1].call = e /\ Head(toHost) = toHost[1]
        BY <1>6, <2>1, FlightRead, TypedLines, HeadTailProperties DEF ReadAnswer
      <4>2. QED
        BY <1>6, <2>1, <4>1 DEF ReadAnswer
    <3>2. e \in abandoned
      BY <1>0, <1>2, <2>1, <3>1 DEF OwedInv, Unread
    <3>3. QED
      BY <2>1, <3>2 DEF ReadAnswer
  <2>2. CASE reader' = reader /\ ~Judge
    BY <1>0, <1>6, <2>2, TablesKept DEF OwedInv
  <2>3. CASE reader' \in {Listening, Stopped}
    BY <1>6, <2>3 DEF Listening, Stopped
  <2>4. reader' = reader \/ reader' \in {Listening, Stopped} \/ ReadAnswer
    BY FlightsKept, FlightLost DEF Answers, hostVars
  <2>5. Judge => reader' = Listening
    BY DEF Judge
  <2>6. QED
    BY <2>1, <2>2, <2>3, <2>4, <2>5
<1>7. QED
  BY <1>4, <1>5, <1>6

LEMMA SaidNext ==
    RpcTypeOK /\ WorkInv /\ CursorsSaid /\ [RpcNext]_rpcVars => CursorsSaid'
<1> SUFFICES ASSUME RpcTypeOK, WorkInv, CursorsSaid, [RpcNext]_rpcVars
             PROVE  CursorsSaid'
  OBVIOUS
<1>0. \A f \in Fetches :
          FetchOf[f] \in Executes /\ FetchOf[f] \in Calls /\ f \in Calls /\ f \notin Executes
  BY FetchIsOfExecute, RpcAssumption DEF Calls
<1>1. ASSUME NEW c \in Calls, Answers(c)
      PROVE  CursorsSaid'
  <2>1. PICK r \in Words :
            /\ work' = [work EXCEPT ![c] = r]
            /\ c \in Executes => r # "last"
            /\ c \in Fetches /\ c \notin Executes /\ r = "last" => FetchOf[c] \in cursors
            /\ cursors' = IF c \in Executes /\ r = "value" THEN cursors \cup {c}
                          ELSE IF c \in Fetches /\ r = "last" THEN cursors \ {FetchOf[c]}
                          ELSE cursors
    BY <1>1 DEF Answers, Words
  <2>2. work[c] \in {"running", "aborting"}
    BY <1>1 DEF Answers
  <2>3. \A d \in Calls : work'[d] = IF d = c THEN r ELSE work[d]
    BY <2>1 DEF RpcTypeOK
  <2>4. \A e \in cursors' : work'[e] = "value"
    BY <2>1, <2>2, <2>3 DEF CursorsSaid, RpcTypeOK, Calls
  <2>5. ASSUME NEW f \in Fetches, work'[f] = "last"
        PROVE  work'[FetchOf[f]] = "value" /\ FetchOf[f] \notin cursors'
    <3>1. CASE f = c
      BY <1>0, <2>1, <2>2, <2>3, <2>5, <3>1 DEF CursorsSaid
    <3>2. CASE f # c
      <4>1. work[f] = "last" /\ work[FetchOf[f]] = "value" /\ FetchOf[f] \notin cursors
        BY <1>0, <2>3, <2>5, <3>2 DEF CursorsSaid
      <4>2. FetchOf[f] # c
        BY <2>2, <4>1
      <4>3. QED
        BY <1>0, <2>1, <2>3, <4>1, <4>2
    <3>3. QED
      BY <3>1, <3>2
  <2>6. QED
    BY <2>4, <2>5 DEF CursorsSaid
<1>2. ASSUME cursors' \subseteq cursors,
             \A c \in Calls :
                 work'[c] = work[c] \/ (work[c] \notin Words /\ work'[c] \notin Words)
      PROVE  CursorsSaid'
  <2>1. \A e \in cursors' : work'[e] = "value"
    BY <1>2 DEF CursorsSaid, RpcTypeOK, Calls, Words
  <2>2. \A f \in Fetches : work'[f] = "last" =>
            work'[FetchOf[f]] = "value" /\ FetchOf[f] \notin cursors'
    BY <1>0, <1>2 DEF CursorsSaid, Words
  <2>3. QED
    BY <2>1, <2>2 DEF CursorsSaid
<1>3. CASE TakeLine
  <2>1. Head(toPlugin).call \in Calls /\
        (Head(toPlugin).kind = "request" => work[Head(toPlugin).call] = "none")
    <3>1. Head(toPlugin) = toPlugin[1] /\ 1 \in 1..Len(toPlugin)
      BY <1>3, TypedLines, HeadTailProperties, LenProperties DEF TakeLine
    <3>2. QED
      BY <3>1, TypedLines, LineAt DEF WorkInv, RequestsAreNew
  <2>2. cursors' \subseteq cursors
    BY <1>3 DEF TakeLine
  <2>3. \A c \in Calls : work'[c] = work[c] \/ (work[c] \notin Words /\ work'[c] \notin Words)
    BY <1>3, <2>1 DEF TakeLine, Words, RpcTypeOK
  <2>4. QED
    BY <1>2, <2>2, <2>3
<1>4. ASSUME NEW c \in Calls, AbortSeen(c)
      PROVE  CursorsSaid'
  <2>1. \A d \in Calls : work'[d] = work[d] \/ (work[d] \notin Words /\ work'[d] \notin Words)
    BY <1>4 DEF AbortSeen, Words, RpcTypeOK
  <2>2. QED
    BY <1>2, <1>4, <2>1 DEF AbortSeen
<1>5. CASE work' = work /\ (cursors' = cursors \/ cursors' = {})
  BY <1>2, <1>5
<1>6. \/ work' = work /\ (cursors' = cursors \/ cursors' = {})
      \/ TakeLine
      \/ \E c \in Calls : TaskStep(c)
  BY DEF RpcNext, rpcVars, CallStep, ReaderStep, Enter, Send, SendFails, Receive, GiveUp,
         NoteAbandoned, LeavePending, TellCancel, DropPages, Close, ReadAnswer, Deliver, Judge,
         ReadEnd, PluginEnds, pluginVars, hostVars
<1>7. QED
  BY <1>1, <1>3, <1>4, <1>5, <1>6 DEF TaskStep

\* A line sent stays on its way, and what it is sent with too.
CloseSent(e) == \E i \in 1..Len(toPlugin) : toPlugin[i] = Line("close", e)

LEMMA CloseStays ==
    ASSUME RpcTypeOK, NEW e \in Executes, NEW ls \in Seq(Lines), toPlugin' = toPlugin \o ls,
           CloseSent(e) \/ \E j \in 1..Len(ls) : ls[j] = Line("close", e)
    PROVE  CloseSent(e)'
<1>1. toPlugin \in Seq(Lines)
  BY TypedLines
<1>2. /\ Len(toPlugin') = Len(toPlugin) + Len(ls) /\ Len(toPlugin) \in Nat /\ Len(ls) \in Nat
      /\ \A i \in 1..Len(toPlugin') :
            toPlugin'[i] = IF i <= Len(toPlugin) THEN toPlugin[i] ELSE ls[i - Len(toPlugin)]
  BY <1>1, ConcatProperties, LenProperties
<1>3. CASE CloseSent(e)
  BY <1>2, <1>3 DEF CloseSent
<1>4. ASSUME NEW j \in 1..Len(ls), ls[j] = Line("close", e)
      PROVE  CloseSent(e)'
  <2>1. /\ Len(toPlugin) + j \in 1..Len(toPlugin') /\ ~(Len(toPlugin) + j <= Len(toPlugin))
        /\ (Len(toPlugin) + j) - Len(toPlugin) = j
    BY <1>2
  <2>2. toPlugin'[Len(toPlugin) + j] = Line("close", e)
    BY <1>2, <1>4, <2>1
  <2>3. QED
    BY <2>1, <2>2 DEF CloseSent
<1>5. QED
  BY <1>3, <1>4

\* What owns cursor e while the conversation lasts.
Owned(e) ==
    OnItsWay(e) \/ pages[e] \in {"held", "failed"} \/ CloseSent(e)

LEMMA OwnedSaid ==
    ASSUME CursorsAccounted, NEW e \in cursors, e \notin missed, ~closed
    PROVE  Owned(e)
BY DEF CursorsAccounted, Owned, CloseSent

LEMMA CursorsNext ==
    /\ RpcTypeOK /\ RpcTypeOK' /\ WorkInv /\ OwedInv /\ CursorsSaid /\ CursorsSaid' /\ OpenInv
    /\ CursorsAccounted /\ [RpcNext]_rpcVars
    => CursorsAccounted'
<1> SUFFICES ASSUME RpcTypeOK, RpcTypeOK', WorkInv, OwedInv, CursorsSaid, CursorsSaid',
                    OpenInv, CursorsAccounted, [RpcNext]_rpcVars,
                    NEW e \in cursors', e \notin missed', ~closed'
             PROVE  Owned(e)'
  BY DEF CursorsAccounted, Owned, CloseSent
<1>0. /\ e \in Executes /\ e \in Calls /\ e \notin Fetches /\ ~closed /\ out /\ reader # Stopped
      /\ work'[e] = "value"
      /\ e \in cursors => work[e] = "value"
  BY OpenNext, RpcAssumption DEF RpcTypeOK, Calls, CursorsSaid, OpenInv
<1>1. ASSUME e \in cursors, e \notin missed
      PROVE  Owned(e)
  BY <1>0, <1>1, OwnedSaid
<1>2. ASSUME NEW c \in Calls, Enter(c)
      PROVE  Owned(e)'
  <2>1. UNCHANGED <<slot, reader, missed, toPlugin, toHost, cursors>> /\ pages' = pages
    BY <1>0, <1>2 DEF Enter, pluginVars
  <2>2. call'[e] = call[e] \/ call[e] = "idle"
    BY <1>0, <1>2 DEF Enter, RpcTypeOK
  <2>3. OnItsWay(e) => OnItsWay(e)'
    BY <2>1, <2>2 DEF OnItsWay
  <2>4. QED
    BY <1>1, <2>1, <2>3 DEF Owned, CloseSent
<1>3. ASSUME NEW c \in Calls, Send(c)
      PROVE  Owned(e)'
  <2>1. UNCHANGED <<slot, reader, missed, pages, toHost, cursors>>
    BY <1>3 DEF Send, pluginVars
  <2>2. call'[e] = call[e] \/ call[e] = "entered"
    BY <1>0, <1>3 DEF Send, RpcTypeOK
  <2>3. OnItsWay(e) => OnItsWay(e)'
    BY <2>1, <2>2 DEF OnItsWay
  <2>4. CloseSent(e) => CloseSent(e)'
    <3>1. CASE toPlugin' = toPlugin
      BY <3>1 DEF CloseSent
    <3>2. CASE toPlugin' = Append(toPlugin, Line("request", c))
      <4>1. /\ Len(toPlugin') = Len(toPlugin) + 1 /\ Len(toPlugin) \in Nat
            /\ \A i \in 1..Len(toPlugin) : toPlugin'[i] = toPlugin[i]
        BY <3>2, LineType, TypedLines, AppendProperties, LenProperties
      <4>2. QED
        BY <4>1 DEF CloseSent
    <3>3. QED
      BY <1>3, <3>1, <3>2 DEF Send
  <2>5. QED
    BY <1>1, <2>1, <2>3, <2>4 DEF Owned
<1>4. ASSUME NEW c \in Calls, SendFails(c) \/ Close \/ ReadEnd
      PROVE  Owned(e)'
  BY <1>4, ~closed' DEF SendFails, Close, ReadEnd, Shut
<1>5. ASSUME NEW c \in Calls, Receive(c)
      PROVE  Owned(e)'
  <2>1. UNCHANGED <<reader, missed, toPlugin, toHost, cursors, work>>
    BY <1>5 DEF Receive, pluginVars
  <2>2. CASE c = e
    <3>1. CASE slot[e] = "value"
      <4>1. pages'[e] = "held"
        BY <1>0, <1>5, <2>2, <3>1 DEF Receive, Result, RpcTypeOK
      <4>2. QED
        BY <4>1 DEF Owned
    <3>2. CASE slot[e] # "value"
      <4>1. slot[e] \notin Words /\ slot[e] # "closed"
        BY <1>0, <2>1, <3>2 DEF WorkInv
      <4>2. FALSE
        BY <1>0, <1>5, <2>2, <4>1 DEF Receive, RpcTypeOK, Words
      <4>3. QED
        BY <4>2
    <3>3. QED
      BY <3>1, <3>2
  <2>3. CASE c # e
    <3>1. call'[e] = call[e] /\ slot'[e] = slot[e]
      BY <1>0, <1>5, <2>3 DEF Receive, RpcTypeOK
    <3>2. OnItsWay(e) => OnItsWay(e)'
      BY <2>1, <3>1 DEF OnItsWay
    <3>3. CloseSent(e) => CloseSent(e)'
      BY <2>1 DEF CloseSent
    <3>4. pages[e] \in {"held", "failed"} => pages'[e] \in {"held", "failed"}
      <4>1. CASE Result(c) # e
        BY <1>0, <1>5, <4>1 DEF Receive, RpcTypeOK
      <4>2. CASE Result(c) = e
        <5>1. c \in Fetches /\ FetchOf[c] = e /\ c \notin Executes
          BY <2>3, <4>2, RpcAssumption DEF Result
        <5>2. slot[c] # "last"
          BY <2>1, <5>1 DEF WorkInv, CursorsSaid, Words
        <5>3. QED
          BY <1>0, <1>5, <4>2, <5>1, <5>2 DEF Receive, RpcTypeOK
      <4>3. QED
        BY <4>1, <4>2
    <3>5. QED
      BY <1>1, <2>1, <3>2, <3>3, <3>4 DEF Owned
  <2>4. QED
    BY <2>2, <2>3
<1>6. ASSUME NEW c \in Calls, GiveUp(c)
      PROVE  Owned(e)'
  <2>1. UNCHANGED <<reader, pages, toPlugin, toHost, cursors>> /\ e \notin missed
    BY <1>6 DEF GiveUp, pluginVars
  <2>2. c = e => slot[e] # "value"
    BY <1>0, <1>6 DEF GiveUp, Drops
  <2>3. slot[e] = "value" => call'[e] = call[e] /\ slot'[e] = slot[e]
    BY <1>0, <1>6, <2>2 DEF GiveUp, RpcTypeOK
  <2>4. OnItsWay(e) => OnItsWay(e)'
    BY <2>1, <2>3 DEF OnItsWay
  <2>5. QED
    BY <1>1, <2>1, <2>4 DEF Owned, CloseSent
<1>7. ASSUME NEW c \in Calls, NoteAbandoned(c) \/ LeavePending(c)
      PROVE  Owned(e)'
  <2>1. UNCHANGED <<slot, reader, pages, missed, toPlugin, toHost, cursors>>
    BY <1>7 DEF NoteAbandoned, LeavePending, pluginVars
  <2>2. call[e] = "waiting" => call'[e] = "waiting"
    <3>1. call[c] # "waiting" /\ \E to \in {"noted", "left"} : call' = [call EXCEPT ![c] = to]
      BY <1>7 DEF NoteAbandoned, LeavePending
    <3>2. QED
      BY <1>0, <3>1 DEF RpcTypeOK
  <2>3. OnItsWay(e) => OnItsWay(e)'
    BY <2>1, <2>2 DEF OnItsWay
  <2>4. QED
    BY <1>1, <2>1, <2>3 DEF Owned, CloseSent
<1>8. ASSUME NEW c \in Calls, TellCancel(c)
      PROVE  Owned(e)'
  <2> DEFINE held == IF c \in Fetches THEN pages[FetchOf[c]] = "held" ELSE FALSE
             ls == <<Line("cancel", c)>> \o IF held THEN <<Line("close", FetchOf[c])>> ELSE <<>>
  <2>1. UNCHANGED <<slot, reader, missed, toHost, cursors>>
    BY <1>8 DEF TellCancel, pluginVars
  <2>2. call[e] = "waiting" => call'[e] = "waiting"
    <3>1. call[c] = "left" /\ call' = [call EXCEPT ![c] = "done"]
      BY <1>8 DEF TellCancel
    <3>2. QED
      BY <1>0, <3>1 DEF RpcTypeOK
  <2>3. OnItsWay(e) => OnItsWay(e)'
    BY <2>1, <2>2 DEF OnItsWay
  <2>4. /\ ls \in Seq(Lines)
        /\ held => \E j \in 1..Len(ls) : ls[j] = Line("close", FetchOf[c])
    <3>1. Line("cancel", c) \in Lines
      BY LineType
    <3>2. CASE held
      <4>1. Line("close", FetchOf[c]) \in Lines
        BY <3>2, FetchIsOfExecute, LineType
      <4>2. /\ <<Line("cancel", c)>> \in Seq(Lines) /\ <<Line("close", FetchOf[c])>> \in Seq(Lines)
            /\ Len(<<Line("cancel", c)>>) = 1 /\ Len(<<Line("close", FetchOf[c])>>) = 1
            /\ ls = <<Line("cancel", c)>> \o <<Line("close", FetchOf[c])>>
        BY <3>1, <3>2, <4>1
      <4>3. Len(ls) = 2 /\ ls \in Seq(Lines) /\ ls[2] = Line("close", FetchOf[c])
        BY <4>2, ConcatProperties
      <4>4. QED
        BY <4>3
    <3>3. CASE ~held
      BY <3>1, <3>3
    <3>4. QED
      BY <3>2, <3>3
  <2>5. /\ toPlugin' = toPlugin \o ls
        /\ pages' = IF held THEN [pages EXCEPT ![FetchOf[c]] = "dropped"] ELSE pages
    BY <1>0, <1>8 DEF TellCancel, Notified
  <2>6. held => FetchOf[c] \in Executes
    BY FetchIsOfExecute
  <2> HIDE DEF ls, held
  <2>7. CASE held /\ FetchOf[c] = e
    BY <1>0, <2>4, <2>5, <2>7, CloseStays DEF Owned
  <2>8. CASE ~(held /\ FetchOf[c] = e)
    <3>1. pages'[e] = pages[e]
      BY <1>0, <2>5, <2>6, <2>8 DEF RpcTypeOK
    <3>2. CloseSent(e) => CloseSent(e)'
      BY <1>0, <2>4, <2>5, CloseStays
    <3>3. QED
      BY <1>1, <2>1, <2>3, <3>1, <3>2 DEF Owned
  <2>9. QED
    BY <2>7, <2>8
<1>9. ASSUME NEW d \in Executes, DropPages(d)
      PROVE  Owned(e)'
  <2> DEFINE ls == <<Line("close", d)>>
  <2>1. UNCHANGED <<call, slot, reader, missed, toHost, cursors>>
    BY <1>9 DEF DropPages, pluginVars
  <2>2. OnItsWay(e) => OnItsWay(e)'
    BY <2>1 DEF OnItsWay
  <2>3. ls \in Seq(Lines) /\ ls[1] = Line("close", d) /\ 1 \in 1..Len(ls)
    <3>1. Line("close", d) \in Lines
      BY LineType DEF Calls
    <3>2. QED
      BY <3>1
  <2>4. toPlugin' = toPlugin \o ls /\ pages' = [pages EXCEPT ![d] = "dropped"]
    BY <1>0, <1>9 DEF DropPages, Notified
  <2> HIDE DEF ls
  <2>5. CASE d = e
    BY <1>0, <2>3, <2>4, <2>5, CloseStays DEF Owned
  <2>6. CASE d # e
    <3>1. pages'[e] = pages[e]
      BY <1>0, <2>4, <2>6 DEF RpcTypeOK
    <3>2. CloseSent(e) => CloseSent(e)'
      BY <1>0, <2>3, <2>4, CloseStays
    <3>3. QED
      BY <1>1, <2>1, <2>2, <3>1, <3>2 DEF Owned
  <2>7. QED
    BY <2>5, <2>6
<1>10. CASE ReadAnswer
  <2>1. UNCHANGED <<call, slot, missed, pages, toPlugin, cursors>>
    BY <1>10 DEF ReadAnswer, pluginVars
  <2>2. OnItsWay(e) => OnItsWay(e)'
    <3>1. CASE \E i \in 1..Len(toHost) : toHost[i] = Answer(e, "value")
      <4>1. PICK i \in 1..Len(toHost) : toHost[i] = Answer(e, "value")
        BY <3>1
      <4>2. CASE i = 1
        <5>1. reader'.answer.call = e /\ reader'.at \in {"answering", "unclaimed"}
          BY <1>10, <4>1, <4>2, FlightRead DEF Answer
        <5>2. QED
          BY <5>1 DEF OnItsWay, Stopped
      <4>3. CASE i # 1
        <5>1. i - 1 \in 1..Len(toHost') /\ toHost'[i - 1] = toHost[i]
          BY <1>10, <4>3, FlightRead
        <5>2. QED
          BY <4>1, <5>1 DEF OnItsWay
      <4>4. QED
        BY <4>2, <4>3
    <3>2. QED
      BY <1>10, <2>1, <3>1 DEF OnItsWay, ReadAnswer, Listening
  <2>3. QED
    BY <1>1, <2>1, <2>2 DEF Owned, CloseSent
<1>11. CASE Deliver
  <2>1. UNCHANGED <<call, pages, toPlugin, toHost, cursors, work>> /\ e \notin missed
    BY <1>11 DEF Deliver, pluginVars
  <2>2. CASE reader.answer.call = e
    <3>1. reader.answer.says = "value" /\ call[e] \notin {"idle", "entered"}
      BY <1>0, <1>11, <2>1, <2>2 DEF Deliver, WorkInv
    <3>2. call[e] = "waiting" /\ slot'[e] = "value"
      BY <1>0, <1>11, <2>2, <3>1 DEF Deliver, RpcTypeOK
    <3>3. QED
      BY <2>1, <3>2 DEF Owned, OnItsWay
  <2>3. CASE reader.answer.call # e
    <3>1. slot'[e] = slot[e]
      BY <1>0, <1>11, <2>3 DEF Deliver, RpcTypeOK
    <3>2. OnItsWay(e) => OnItsWay(e)'
      BY <2>1, <2>3, <3>1 DEF OnItsWay
    <3>3. QED
      BY <1>1, <2>1, <3>2 DEF Owned, CloseSent
  <2>4. QED
    BY <2>2, <2>3
<1>12. CASE Judge
  <2> DEFINE ls == <<Line("close", reader.answer.call)>>
  <2>1. UNCHANGED <<call, slot, pages, missed, toHost, cursors, work>> /\ reader \in Reading
    BY <1>12, TypedLines DEF Judge, pluginVars
  <2>2. ls \in Seq(Lines) /\ ls[1] = Line("close", reader.answer.call) /\ 1 \in 1..Len(ls)
    <3>1. Line("close", reader.answer.call) \in Lines
      BY <2>1, LineType DEF Reading, AnswerLines
    <3>2. QED
      BY <3>1
  <2>3. toPlugin' = toPlugin \/ toPlugin' = toPlugin \o ls
    BY <1>0, <1>12 DEF Judge, Notified
  <2>4. reader.answer.call = e => toPlugin' = toPlugin \o ls
    <3>1. ASSUME reader.answer.call = e
          PROVE  e \in abandoned /\ reader.answer.says = "value"
      BY <1>0, <1>12, <2>1, <3>1 DEF Judge, OwedInv, WorkInv
    <3>2. QED
      BY <1>0, <1>12, <3>1 DEF Judge, Notified
  <2> HIDE DEF ls
  <2>5. CASE reader.answer.call = e
    BY <1>0, <2>2, <2>4, <2>5, CloseStays DEF Owned
  <2>6. CASE reader.answer.call # e
    <3>1. OnItsWay(e) => OnItsWay(e)'
      BY <2>1, <2>6 DEF OnItsWay
    <3>2. CloseSent(e) => CloseSent(e)'
      <4>1. CASE toPlugin' = toPlugin
        BY <4>1 DEF CloseSent
      <4>2. QED
        BY <1>0, <2>2, <2>3, <4>1, CloseStays
    <3>3. QED
      BY <1>1, <2>1, <3>1, <3>2 DEF Owned
  <2>7. QED
    BY <2>5, <2>6
<1>13. CASE TakeLine
  <2>1. /\ Head(toPlugin) = toPlugin[1] /\ toPlugin' = Tail(toPlugin)
        /\ Len(Tail(toPlugin)) = Len(toPlugin) - 1 /\ Len(toPlugin) \in Nat
        /\ \A i \in 1..Len(Tail(toPlugin)) : Tail(toPlugin)[i] = toPlugin[i + 1]
    BY <1>13, TypedLines, HeadTailProperties, LenProperties DEF TakeLine
  <2>2. UNCHANGED <<call, slot, reader, pages, missed, toHost>>
    BY <1>13 DEF TakeLine, hostVars
  <2>3. e \in cursors /\ toPlugin[1] # Line("close", e)
    BY <1>13, <2>1 DEF TakeLine, Line
  <2>4. ASSUME CloseSent(e)
        PROVE  CloseSent(e)'
    <3>1. PICK i \in 1..Len(toPlugin) : toPlugin[i] = Line("close", e)
      BY <2>4 DEF CloseSent
    <3>2. i - 1 \in 1..Len(toPlugin') /\ toPlugin'[i - 1] = toPlugin[i]
      BY <2>1, <2>3, <3>1
    <3>3. QED
      BY <3>1, <3>2 DEF CloseSent
  <2>5. OnItsWay(e) => OnItsWay(e)'
    BY <2>2 DEF OnItsWay
  <2>6. QED
    BY <1>1, <2>2, <2>3, <2>4, <2>5 DEF Owned
<1>14. ASSUME NEW c \in Calls, Answers(c)
       PROVE  Owned(e)'
  <2>1. PICK r \in Words :
            /\ work' = [work EXCEPT ![c] = r]
            /\ toHost' = Append(toHost, Answer(c, r))
            /\ cursors' = IF c \in Executes /\ r = "value" THEN cursors \cup {c}
                          ELSE IF c \in Fetches /\ r = "last" THEN cursors \ {FetchOf[c]}
                          ELSE cursors
    BY <1>14 DEF Answers, Words
  <2>2. UNCHANGED <<call, slot, reader, pages, missed, toPlugin>>
    BY <1>14 DEF Answers, hostVars
  <2>3. CASE e \in cursors
    <3>1. OnItsWay(e) => OnItsWay(e)'
      BY <2>1, <2>2, FlightSent DEF OnItsWay
    <3>2. QED
      BY <1>1, <2>2, <2>3, <3>1 DEF Owned, CloseSent
  <2>4. CASE e \notin cursors
    <3>1. c = e /\ r = "value"
      BY <2>1, <2>4
    <3>2. Len(toHost') \in 1..Len(toHost') /\ toHost'[Len(toHost')] = Answer(e, "value")
      BY <2>1, <3>1, FlightSent
    <3>3. QED
      BY <3>2 DEF Owned, OnItsWay
  <2>5. QED
    BY <2>3, <2>4
<1>15. ASSUME NEW c \in Calls, AbortSeen(c)
       PROVE  Owned(e)'
  BY <1>1, <1>15 DEF AbortSeen, hostVars, Owned, OnItsWay, CloseSent
<1>16. CASE PluginEnds
  BY <1>16 DEF PluginEnds
<1>17. CASE UNCHANGED rpcVars
  BY <1>1, <1>17 DEF rpcVars, Owned, OnItsWay, CloseSent
<1>18. QED
  BY <1>0, <1>2, <1>3, <1>4, <1>5, <1>6, <1>7, <1>8, <1>9, <1>10, <1>11, <1>12, <1>13, <1>14,
     <1>15, <1>16, <1>17
     DEF RpcNext, CallStep, TaskStep, ReaderStep

\* However an answer crosses the giving up of its call, its cursor has an owner: Dexo reads
\* it or has it closed, unless the answer was taken out of the table before the call was
\* done giving up, or the conversation is over.
THEOREM CursorsOwned == RpcSpec => []CursorsAccounted
<1>1. RpcSpec => [](RpcTypeOK /\ WorkInv)
  BY RpcInitType, RpcNextType, WorkInit, WorkNext, PTL DEF RpcSpec
<1>2. /\ RpcTypeOK /\ RpcTypeOK' /\ WorkInv /\ CursorInv /\ [RpcNext]_rpcVars
      => CursorInv'
  BY ReadOnceNext, OpenNext, OwedNext, SaidNext, CursorsNext DEF CursorInv
<1>3. CursorInv => CursorsAccounted
  BY DEF CursorInv
<1>4. QED
  BY <1>1, <1>2, <1>3, CursorInit, PTL DEF RpcSpec
=============================================================================
