------------------------ MODULE WorkbenchRunsProofs ------------------------
(***************************************************************************)
(* Proofs about the workbench's runs, for any scripts, re-runs and plans,  *)
(* any lengths and any queue: types, that a script that was struck stops,  *)
(* and that scripts which nothing disturbs run one at a time.              *)
(***************************************************************************)
EXTENDS WorkbenchRuns, SequenceTheorems, TLAPS

Kinds == {"started", "output", "failed", "finished", "cancelled", "refused", "explained"}
\* What fails that is no run: a file's autosave, the history's read.
OthersEnd == Says("failed", NoRun)
Acts == [kind : Kinds, run : Runs] \cup {OthersEnd}
Posting == [at : {"posting"},
            action : [kind : {"cancelled", "refused", "explained"}, run : Runs]]
             \cup [at : {"posting"}, action : {OthersEnd}]
LoopStates == {Selecting} \cup [at : {"cancelling"}, run : Runs] \cup Posting
Places == {"idle", "announcing", "between", "started", "heading", "consuming", "forwarding",
           "reporting", "finishing", "clearing", "done"}

\* The type invariant, by the names used here.
Typed ==
    /\ policy \in {"stop", "continue"}
    /\ activeQuery \in Scripts \cup {NoRun}
    /\ activeOperation \in Runs \cup {NoRun}
    /\ loop \in LoopStates
    /\ actions \in Seq(Acts)
    /\ liveSlot \in [run : Runs \cup {NoRun}, nth : Nat]
    /\ script \in [Runs -> Places]
    /\ nth \in [Runs -> Nat] /\ \A r \in Runs : nth[r] <= LastOf(r)
    /\ token \subseteq Runs
    /\ hasFailed \in [Runs -> BOOLEAN]
    /\ asked \subseteq Runs
    /\ struckAt \in [Runs -> Nat]
    /\ beside \subseteq Runs
    /\ elsewhere \in Nat
    /\ overheard \subseteq Runs
    /\ Len(actions) <= Capacity

LEMMA WorkTypes == WorkTypeOK <=> Typed
<1>1. LoopStates =
        {Selecting}
         \cup [at : {"cancelling"}, run : Runs]
         \cup [at : {"posting"}, action : [kind : {"cancelled", "refused", "explained"}, run : Runs]]
         \cup [at : {"posting"}, action : {Says("failed", NoRun)}]
  BY Zenon DEF LoopStates, Posting, OthersEnd
<1>2. QED
  BY <1>1, Zenon DEF WorkTypeOK, Typed, Acts, OthersEnd, Kinds, Places

\* An action is of a run, or the failure of what is none.
LEMMA ActIs ==
    ASSUME NEW a \in Acts
    PROVE  /\ a.run \in Runs \cup {NoRun} /\ a.kind \in Kinds
           /\ a.run \notin Runs => a = OthersEnd /\ a.run = NoRun /\ a.kind = "failed"
BY DEF Acts, OthersEnd, Says, Kinds

LEMMA OthersEndIs ==
    /\ OthersEnd \in Acts /\ OthersEnd.run = NoRun /\ OthersEnd.kind = "failed"
    /\ NoRun \notin Runs
BY RunsAssumption DEF Acts, OthersEnd, Says

LEMMA LoopActIs ==
    ASSUME Typed, loop.at = "posting"
    PROVE  /\ loop.action \in Acts
           /\ loop.action.kind \in {"cancelled", "refused", "explained", "failed"}
BY DEF Typed, LoopStates, Selecting, Posting, Acts, Kinds, OthersEnd, Says

LEMMA ActType ==
    ASSUME NEW k \in Kinds, NEW r \in Runs
    PROVE  Says(k, r) \in Acts
BY DEF Says, Acts

LEMMA PostType ==
    ASSUME actions \in Seq(Acts), Len(actions) <= Capacity, NEW a \in Acts, Post(a)
    PROVE  actions' \in Seq(Acts) /\ Len(actions') <= Capacity
BY RunsAssumption, AppendProperties DEF Post

LEMMA HeadAct ==
    ASSUME actions \in Seq(Acts), actions # <<>>
    PROVE  /\ Head(actions) \in Acts /\ Head(actions).run \in Runs \cup {NoRun}
           /\ Head(actions).kind \in Kinds
           /\ Tail(actions) \in Seq(Acts) /\ Len(Tail(actions)) <= Len(actions)
<1>1. /\ Head(actions) \in Acts
      /\ Tail(actions) \in Seq(Acts) /\ Len(Tail(actions)) <= Len(actions)
  BY HeadTailProperties
<1>2. QED
  BY <1>1, ActIs

LEMMA ActAt ==
    ASSUME NEW s \in Seq(Acts), NEW i \in 1..Len(s)
    PROVE  /\ s[i] \in Acts /\ s[i].run \in Runs \cup {NoRun} /\ s[i].kind \in Kinds
           /\ s[i].kind = "started" => s[i].run \in Runs
<1>1. s[i] \in Acts
  BY ElementOfSeq
<1>2. QED
  BY <1>1, ActIs

LEMMA WorkInitType == WorkInit => Typed
<1> SUFFICES ASSUME WorkInit
             PROVE  Typed
  OBVIOUS
<1>1. actions \in Seq(Acts) /\ Len(actions) <= Capacity
  BY RunsAssumption DEF WorkInit
<1>2. \A r \in Runs : nth[r] <= LastOf(r)
  BY RunsAssumption DEF WorkInit, LastOf
<1>3. loop \in LoopStates
  BY DEF WorkInit, LoopStates
<1>4. QED
  BY <1>1, <1>2, <1>3 DEF WorkInit, NoStatement, Places, Typed

LEMMA ReceivedOperation ==
    ASSUME ReceiveAction
    PROVE  activeOperation' \in {NoRun, activeOperation, Head(actions).run}
<1> DEFINE a == Head(actions)
           over == a.kind \in Ends
           planned == a.kind = "explained" /\ activeOperation = a.run
<1>1. activeOperation' = CASE a.kind = "started" -> a.run
                           [] over -> NoRun
                           [] planned -> NoRun
                           [] OTHER -> activeOperation
  BY DEF ReceiveAction
<1> HIDE DEF a, over, planned
<1>2. QED
  BY <1>1, Zenon DEF a

\* What the loop's steps do to the fields the screen goes by.
LEMMA ReceiveType ==
    ASSUME Typed, ReceiveAction
    PROVE  /\ activeQuery' \in Scripts \cup {NoRun}
           /\ activeOperation' \in Runs \cup {NoRun}
           /\ actions' \in Seq(Acts) /\ Len(actions') <= Capacity
<1>1. /\ Head(actions).run \in Runs \cup {NoRun}
      /\ Tail(actions) \in Seq(Acts) /\ Len(Tail(actions)) <= Len(actions)
  BY HeadAct DEF ReceiveAction, Typed
<1>2. activeQuery' \in {NoRun, activeQuery}
  BY DEF ReceiveAction
<1>3. activeOperation' \in {NoRun, activeOperation, Head(actions).run}
  BY ReceivedOperation
<1>4. QED
  BY <1>1, <1>2, <1>3, RunsAssumption DEF ReceiveAction, Typed

LEMMA LastOfType == \A r \in Runs : LastOf(r) \in Nat \ {0}
BY RunsAssumption DEF LastOf

LEMMA FirstNth ==
    ASSUME NEW r \in Runs, nth \in [Runs -> Nat], \A s \in Runs : nth[s] <= LastOf(s),
           nth' = nth \/ nth' = [nth EXCEPT ![r] = 1] \/ nth' = [nth EXCEPT ![r] = 0]
    PROVE  nth' \in [Runs -> Nat] /\ \A s \in Runs : nth'[s] <= LastOf(s)
<1>1. ASSUME NEW n \in 0..1, nth' = [nth EXCEPT ![r] = n]
      PROVE  nth' \in [Runs -> Nat] /\ \A s \in Runs : nth'[s] <= LastOf(s)
  <2>1. n <= LastOf(r)
    BY LastOfType
  <2>2. QED
    BY <1>1, <2>1
<1>2. CASE nth' = nth
  BY <1>2
<1>3. QED
  BY <1>1, <1>2

LEMMA WorkNextType == Typed /\ [WorkNext]_workVars => Typed'
<1> SUFFICES ASSUME Typed, [WorkNext]_workVars
             PROVE  Typed'
  OBVIOUS
<1> USE DEF Typed
<1>1. CASE CancelQuery
  <2>1. loop' \in LoopStates
    BY <1>1 DEF CancelQuery, TakesSlot, LoopStates
  <2>2. token' \subseteq Runs
    BY <1>1 DEF CancelQuery, TakesSlot, Executing, Runs
  <2>3. QED
    BY <1>1, <2>1, <2>2 DEF CancelQuery, TakesSlot, NoStatement
<1>2. CASE CancelAnswered
  <2>1. loop' \in LoopStates
    <3>1. loop.run \in Runs
      BY <1>2 DEF CancelAnswered, LoopStates, Selecting, Posting
    <3>2. QED
      BY <1>2, <3>1 DEF CancelAnswered, LoopStates, Posting, Says
  <2>2. QED
    BY <1>2, <2>1 DEF CancelAnswered, taskVars, runHistory
<1>3. CASE LoopPosts
  <2>1. loop.action \in Acts
    BY <1>3, LoopActIs DEF LoopPosts
  <2>2. actions' \in Seq(Acts) /\ Len(actions') <= Capacity
    BY <1>3, <2>1, PostType DEF LoopPosts
  <2>3. QED
    BY <1>3, <2>2 DEF LoopPosts, LoopStates, taskVars, runHistory
<1>4. CASE ReceiveAction
  <2>1. /\ activeQuery' \in Scripts \cup {NoRun}
        /\ activeOperation' \in Runs \cup {NoRun}
        /\ actions' \in Seq(Acts) /\ Len(actions') <= Capacity
    BY <1>4, ReceiveType
  <2>2. UNCHANGED <<policy, loop, liveSlot, taskVars, asked, struckAt, beside, elsewhere>>
    BY <1>4 DEF ReceiveAction
  <2>3. overheard' \subseteq Runs
    BY <1>4 DEF ReceiveAction, Overhear
  <2>4. QED
    BY <2>1, <2>2, <2>3 DEF taskVars
<1>5. ASSUME NEW r \in Runs, Launch(r)
      PROVE  Typed'
  <2>1. loop' \in LoopStates
    <3>1. loop' = loop \/ \E k \in {"explained", "refused"} :
                              loop' = [at |-> "posting", action |-> Says(k, r)]
      BY <1>5 DEF Launch
    <3>2. QED
      BY <3>1 DEF LoopStates, Posting, Says
  <2>2. nth' \in [Runs -> Nat] /\ \A s \in Runs : nth'[s] <= LastOf(s)
    <3>1. nth' = nth \/ nth' = [nth EXCEPT ![r] = 1] \/ nth' = [nth EXCEPT ![r] = 0]
      BY <1>5 DEF Launch
    <3>2. QED
      BY <3>1, FirstNth
  <2>3. /\ script' \in [Runs -> Places]
        /\ liveSlot' \in [run : Runs \cup {NoRun}, nth : Nat]
        /\ activeQuery' \in Scripts \cup {NoRun}
        /\ activeOperation' \in Runs \cup {NoRun}
        /\ beside' \subseteq Runs
    <3>1. script' \in [Runs -> Places]
      BY <1>5 DEF Launch, Places
    <3>2. liveSlot' = liveSlot \/ liveSlot' = [run |-> r, nth |-> 1]
      BY <1>5 DEF Launch
    <3>3. activeQuery' \in Scripts \cup {NoRun} /\ activeOperation' \in Runs \cup {NoRun}
      BY <1>5 DEF Launch
    <3>4. beside' \subseteq Runs
      BY <1>5 DEF Launch
    <3>5. QED
      BY <3>1, <3>2, <3>3, <3>4
  <2>4. QED
    BY <1>5, <2>1, <2>2, <2>3 DEF Launch
<1>6. ASSUME NEW r \in Runs, NEW k \in Kinds, Post(Says(k, r)),
             UNCHANGED <<loopVars, liveSlot, nth, token, runHistory>>,
             script' \in [Runs -> Places], hasFailed' \in [Runs -> BOOLEAN]
      PROVE  Typed'
  <2>1. actions' \in Seq(Acts) /\ Len(actions') <= Capacity
    BY <1>6, ActType, PostType
  <2>2. QED
    BY <1>6, <2>1 DEF loopVars, runHistory
<1>7. ASSUME NEW r \in Runs, NEW k \in {"started", "output", "finished", "explained"},
             NEW f, NEW t \in Places, Goes(r, f, t), Post(Says(k, r)),
             UNCHANGED <<loopVars, liveSlot, nth, token, hasFailed, runHistory>>
      PROVE  Typed'
  <2>1. k \in Kinds
    BY DEF Kinds
  <2>2. script' \in [Runs -> Places]
    BY <1>7 DEF Goes
  <2>3. QED
    BY <1>6, <1>7, <2>1, <2>2
<1>8. ASSUME NEW r \in Runs,
             Announce(r) \/ Headline(r) \/ Forward(r) \/ FinishScript(r) \/ AnswerPlan(r)
      PROVE  Typed'
  <2>1. {"between", "consuming", "done", "clearing"} \subseteq Places
    BY DEF Places
  <2>2. QED
    BY <1>7, <1>8, <2>1 DEF Announce, Headline, Forward, FinishScript, AnswerPlan
<1>9. ASSUME NEW r \in Runs, ReportFailure(r)
      PROVE  Typed'
  <2>1. script' \in [Runs -> Places] /\ hasFailed' \in [Runs -> BOOLEAN] /\ "failed" \in Kinds
    BY <1>9 DEF ReportFailure, Goes, Places, Kinds
  <2>2. QED
    BY <1>6, <1>9, <2>1 DEF ReportFailure
<1>10. ASSUME NEW r \in Runs, StartStatement(r)
       PROVE  Typed'
  <2>1. nth' \in [Runs -> Nat] /\ \A s \in Runs : nth'[s] <= LastOf(s)
    BY <1>10, LastOfType DEF StartStatement
  <2>2. QED
    BY <1>10, <2>1 DEF StartStatement, Goes, Places, loopVars, runHistory
<1>11. ASSUME NEW r \in Runs, SetSlot(r)
       PROVE  Typed'
  BY <1>11 DEF SetSlot, Goes, Places, loopVars, runHistory
<1>12. ASSUME NEW r \in Runs, ReadRows(r) \/ SeeEnd(r) \/ SeeFailure(r)
       PROVE  Typed'
  BY <1>12 DEF ReadRows, SeeEnd, SeeFailure, Goes, Places, loopVars, runHistory
<1>13. ASSUME NEW r \in Runs, SeeCancelled(r) \/ TimesOut(r)
       PROVE  Typed'
  <2>1. script' = [script EXCEPT ![r] = "reporting"] /\ token' = token \ {r}
    BY <1>13 DEF SeeCancelled, TimesOut, Goes
  <2>2. struckAt' = [struckAt EXCEPT ![r] = nth[r]]
    BY <1>13 DEF SeeCancelled, TimesOut
  <2>3. UNCHANGED <<loopVars, actions, liveSlot, nth, hasFailed, asked, beside, elsewhere,
                   overheard>>
    BY <1>13 DEF SeeCancelled, TimesOut
  <2>4. script' \in [Runs -> Places] /\ struckAt' \in [Runs -> Nat] /\ token' \subseteq Runs
    BY <2>1, <2>2 DEF Places
  <2>5. QED
    BY <2>3, <2>4 DEF loopVars
<1>14. ASSUME NEW r \in Runs, LeaveStatements(r)
       PROVE  Typed'
  <2>1. script' \in [Runs -> Places]
    BY <1>14 DEF LeaveStatements, Places
  <2>2. CASE UNCHANGED actions
    BY <1>14, <2>1, <2>2 DEF LeaveStatements, loopVars, runHistory
  <2>3. CASE Post(Says("output", r))
    BY <1>6, <1>14, <2>1, <2>3 DEF LeaveStatements, Kinds
  <2>4. QED
    BY <1>14, <2>2, <2>3 DEF LeaveStatements
<1>15. ASSUME NEW r \in Runs, ClearSlot(r)
       PROVE  Typed'
  BY <1>15 DEF ClearSlot, Goes, Places, NoStatement, loopVars, runHistory
<1>16. CASE UNCHANGED workVars
  BY <1>16 DEF workVars
<1>17. CASE AutosaveFails
  <2>1. loop' \in LoopStates
    BY <1>17 DEF AutosaveFails, LoopStates, Posting, OthersEnd
  <2>2. QED
    BY <1>17, <2>1 DEF AutosaveFails, FailsElsewhere, taskVars
<1>18. CASE OtherTaskFails
  <2>1. Post(OthersEnd)
    BY <1>18 DEF OtherTaskFails, OthersEnd
  <2>2. actions' \in Seq(Acts) /\ Len(actions') <= Capacity
    BY <2>1, PostType, OthersEndIs
  <2>3. QED
    BY <1>18, <2>2 DEF OtherTaskFails, FailsElsewhere, loopVars, taskVars
<1>19. QED
  BY <1>1, <1>2, <1>3, <1>4, <1>5, <1>8, <1>9, <1>10, <1>11, <1>12, <1>13, <1>14, <1>15, <1>16,
     <1>17, <1>18
     DEF WorkNext, LoopStep, ScriptStep

\* What the loop, its queue and every run's task may hold.
THEOREM WorkTyped == WorkSpec => []WorkTypeOK
BY WorkInitType, WorkNextType, WorkTypes, PTL DEF WorkSpec

-----------------------------------------------------------------------------
(* A script that was struck starts nothing more. *)

\* It is to report the failure, or has, and is then between statements or past them.
StruckInv ==
    policy = "stop" =>
        \A r \in Runs : struckAt[r] # 0 =>
            /\ nth[r] = struckAt[r]
            /\ \/ script[r] = "reporting"
               \/ hasFailed[r] /\ script[r] \in {"between", "done"}

LEMMA StruckInitially == WorkInit => StruckInv
BY DEF WorkInit, StruckInv

\* A task that was struck is at none of the other places, so that what is done there is not its.
LEMMA StruckElsewhere ==
    ASSUME Typed, StruckInv, NEW r \in Runs, NEW t,
           script[r] \notin {"reporting", "between", "done"},
           script' = [script EXCEPT ![r] = t],
           UNCHANGED <<policy, hasFailed, struckAt>>,
           \A s \in Runs \ {r} : nth'[s] = nth[s]
    PROVE  StruckInv'
<1> SUFFICES ASSUME policy = "stop", NEW s \in Runs, struckAt[s] # 0
             PROVE  /\ nth'[s] = struckAt[s]
                    /\ \/ script'[s] = "reporting"
                       \/ hasFailed[s] /\ script'[s] \in {"between", "done"}
  BY DEF StruckInv
<1>1. s # r
  BY DEF StruckInv
<1>2. script'[s] = script[s]
  BY <1>1 DEF Typed
<1>3. QED
  BY <1>1, <1>2 DEF StruckInv

LEMMA StruckStays == Typed /\ StruckInv /\ [WorkNext]_workVars => StruckInv'
<1> SUFFICES ASSUME Typed, StruckInv, [WorkNext]_workVars
             PROVE  StruckInv'
  OBVIOUS
<1>1. CASE LoopStep \/ OtherTaskFails \/ UNCHANGED workVars
  <2>1. UNCHANGED <<policy, script, nth, hasFailed, struckAt>>
    BY <1>1 DEF LoopStep, CancelQuery, TakesSlot, CancelAnswered, LoopPosts, ReceiveAction,
                AutosaveFails, OtherTaskFails, FailsElsewhere, loopVars, taskVars, runHistory,
                workVars
  <2>2. QED
    BY <2>1 DEF StruckInv
<1>2. ASSUME NEW r \in Runs, Launch(r)
      PROVE  StruckInv'
  <2>1. \E t \in Places : script' = [script EXCEPT ![r] = t]
    BY <1>2 DEF Launch, Places
  <2>2. \A s \in Runs \ {r} : nth'[s] = nth[s]
    BY <1>2 DEF Launch, Typed
  <2>3. script[r] \notin {"reporting", "between", "done"} /\ UNCHANGED <<policy, hasFailed, struckAt>>
    BY <1>2 DEF Launch
  <2>4. QED
    BY <2>1, <2>2, <2>3, StruckElsewhere
<1>3. ASSUME NEW r \in Runs, \/ Announce(r) \/ SetSlot(r) \/ Headline(r) \/ ReadRows(r)
                             \/ Forward(r) \/ SeeEnd(r) \/ SeeFailure(r) \/ FinishScript(r)
                             \/ AnswerPlan(r) \/ ClearSlot(r)
      PROVE  StruckInv'
  <2>1. \E t \in Places : script' = [script EXCEPT ![r] = t]
    BY <1>3 DEF Announce, SetSlot, Headline, ReadRows, Forward, SeeEnd, SeeFailure, FinishScript,
                AnswerPlan, ClearSlot, Goes, Places
  <2>2. /\ script[r] \notin {"reporting", "between", "done"}
        /\ UNCHANGED <<policy, nth, hasFailed, struckAt>>
    BY <1>3 DEF Announce, SetSlot, Headline, ReadRows, Forward, SeeEnd, SeeFailure, FinishScript,
                AnswerPlan, ClearSlot, Goes, loopVars, runHistory
  <2>3. QED
    BY <2>1, <2>2, StruckElsewhere
<1>4. ASSUME NEW r \in Runs, StartStatement(r)
      PROVE  StruckInv'
  <2> SUFFICES ASSUME policy = "stop", NEW s \in Runs, struckAt[s] # 0
               PROVE  /\ nth'[s] = struckAt[s]
                      /\ \/ script'[s] = "reporting"
                         \/ hasFailed[s] /\ script'[s] \in {"between", "done"}
    BY <1>4 DEF StruckInv, StartStatement, loopVars, runHistory
  <2>1. s # r
    BY <1>4 DEF StartStatement, Goes, StruckInv
  <2>2. script'[s] = script[s] /\ nth'[s] = nth[s]
    BY <1>4, <2>1 DEF StartStatement, Goes, Typed
  <2>3. QED
    BY <2>2 DEF StruckInv
<1>5. ASSUME NEW r \in Runs, SeeCancelled(r) \/ TimesOut(r)
      PROVE  StruckInv'
  <2>1. /\ script' = [script EXCEPT ![r] = "reporting"]
        /\ struckAt' = [struckAt EXCEPT ![r] = nth[r]]
        /\ UNCHANGED <<policy, nth, hasFailed>>
    BY <1>5 DEF SeeCancelled, TimesOut, Goes, loopVars
  <2>2. QED
    BY <2>1 DEF StruckInv, Typed
<1>6. ASSUME NEW r \in Runs, ReportFailure(r)
      PROVE  StruckInv'
  <2>1. /\ script' = [script EXCEPT ![r] = "between"]
        /\ hasFailed' = [hasFailed EXCEPT ![r] = TRUE]
        /\ UNCHANGED <<policy, nth, struckAt>>
    BY <1>6 DEF ReportFailure, Goes, loopVars, runHistory
  <2>2. QED
    BY <2>1 DEF StruckInv, Typed
<1>7. ASSUME NEW r \in Runs, LeaveStatements(r)
      PROVE  StruckInv'
  <2>1. /\ script[r] = "between"
        /\ script' = [script EXCEPT ![r] = IF hasFailed[r] THEN "done" ELSE "finishing"]
        /\ UNCHANGED <<policy, nth, hasFailed, struckAt>>
    BY <1>7 DEF LeaveStatements, loopVars, runHistory
  <2>2. QED
    BY <2>1 DEF StruckInv, Typed
<1>8. QED
  BY <1>1, <1>2, <1>3, <1>4, <1>5, <1>6, <1>7 DEF WorkNext, ScriptStep

\* StopOnError: a script whose statement a cancel or its time limit ended starts no further one.
THEOREM StruckStops == WorkSpec => []StruckScriptStops
<1>1. StruckInv => StruckScriptStops
  BY DEF StruckInv, StruckScriptStops
<1>2. QED
  BY <1>1, WorkInitType, WorkNextType, StruckInitially, StruckStays, PTL DEF WorkSpec
-----------------------------------------------------------------------------
(* What nothing disturbs runs one at a time. *)

EndAt(i) == actions[i].run \in Runs /\ actions[i].kind \in Ends
PostsOfRun == loop.at = "posting" /\ loop.action.run \in Runs

\* Whatever the loop knows of has been launched.
KnownInv ==
    /\ activeOperation # NoRun => script[activeOperation] # "idle"
    /\ \A i \in 1..Len(actions) : actions[i].run \in Runs => script[actions[i].run] # "idle"
    /\ PostsOfRun => script[loop.action.run] # "idle"
    /\ loop.at = "cancelling" => script[loop.run] # "idle"

\* The script that is on is the one active_query says; the one end of a run on its way, in the
\* queue or in the loop's hands, is of that one, and nothing of it is on any more.
OverInv ==
    /\ loop.at # "cancelling"
    /\ \A s \in Scripts : InProgress(s) => activeQuery = s
    /\ \A i \in 1..Len(actions) : EndAt(i) =>
         /\ activeQuery = actions[i].run
         /\ script[actions[i].run] = "done"
         /\ ~PostsOfRun
         /\ \A j \in 1..Len(actions) : EndAt(j) => i = j
    /\ PostsOfRun => activeQuery = loop.action.run /\ script[loop.action.run] = "done"

AloneInv == Undisturbed => OverInv

LEMMA AloneInitially == WorkInit => KnownInv /\ AloneInv
<1> SUFFICES ASSUME WorkInit
             PROVE  KnownInv /\ OverInv
  BY DEF AloneInv
<1>1. 1..Len(actions) = {}
  BY DEF WorkInit
<1>2. loop.at = "select" /\ activeOperation = NoRun
  BY DEF WorkInit, Selecting
<1>3. \A s \in Scripts : ~InProgress(s)
  BY DEF WorkInit, InProgress, Runs
<1>4. QED
  BY <1>1, <1>2, <1>3 DEF KnownInv, OverInv, PostsOfRun

\* The queue after an action was added: what was there, and the action.
LEMMA PostAdds ==
    ASSUME actions \in Seq(Acts), NEW a \in Acts, Post(a)
    PROVE  /\ Len(actions') = Len(actions) + 1
           /\ actions'[Len(actions) + 1] = a
           /\ \A i \in 1..Len(actions) : actions'[i] = actions[i]
BY AppendProperties DEF Post

LEMMA TailShifts ==
    ASSUME actions \in Seq(Acts), actions # <<>>, actions' = Tail(actions)
    PROVE  /\ Len(actions') = Len(actions) - 1
           /\ Head(actions) = actions[1] /\ 1 \in 1..Len(actions)
           /\ \A i \in 1..Len(actions') :
                i + 1 \in 1..Len(actions) /\ actions'[i] = actions[i + 1]
<1>1. Len(actions) \in Nat /\ Len(actions) # 0
  BY EmptySeq, LenProperties
<1>2. QED
  BY <1>1, HeadTailProperties

\* No step makes a run idle, forgets that one was asked to stop or that it failed.
LEMMA OnlyForward ==
    ASSUME Typed, [WorkNext]_workVars
    PROVE  /\ asked \subseteq asked'
           /\ overheard \subseteq overheard'
           /\ \A r \in Runs : hasFailed[r] => hasFailed'[r]
           /\ \A r \in Runs : script[r] # "idle" => script'[r] # "idle"
<1>1. CASE LoopStep \/ OtherTaskFails \/ UNCHANGED workVars
  BY <1>1 DEF LoopStep, CancelQuery, TakesSlot, CancelAnswered, LoopPosts, ReceiveAction, Overhear,
              AutosaveFails, OtherTaskFails, FailsElsewhere, loopVars, taskVars, runHistory, workVars
<1>2. ASSUME NEW r \in Runs, Launch(r) \/ ScriptStep(r)
      PROVE  /\ asked \subseteq asked' /\ overheard \subseteq overheard'
             /\ \A s \in Runs : hasFailed[s] => hasFailed'[s]
             /\ \A s \in Runs : script[s] # "idle" => script'[s] # "idle"
  <2>1. \E t \in Places \ {"idle"} : script' = [script EXCEPT ![r] = t]
    BY <1>2 DEF Launch, ScriptStep, Announce, StartStatement, SetSlot, Headline, ReadRows, Forward,
                SeeEnd, SeeFailure, SeeCancelled, TimesOut, ReportFailure, LeaveStatements,
                FinishScript, AnswerPlan, ClearSlot, Goes, Places
  <2>2. hasFailed' = hasFailed \/ hasFailed' = [hasFailed EXCEPT ![r] = TRUE]
    BY <1>2 DEF Launch, ScriptStep, Announce, StartStatement, SetSlot, Headline, ReadRows, Forward,
                SeeEnd, SeeFailure, SeeCancelled, TimesOut, ReportFailure, LeaveStatements,
                FinishScript, AnswerPlan, ClearSlot
  <2>3. asked' = asked /\ overheard' = overheard
    BY <1>2 DEF Launch, ScriptStep, Announce, StartStatement, SetSlot, Headline, ReadRows, Forward,
                SeeEnd, SeeFailure, SeeCancelled, TimesOut, ReportFailure, LeaveStatements,
                FinishScript, AnswerPlan, ClearSlot, runHistory
  <2>4. QED
    BY <2>1, <2>2, <2>3 DEF Typed
<1>3. QED
  BY <1>1, <1>2 DEF WorkNext

LEMMA UndisturbedBefore ==
    ASSUME Typed, [WorkNext]_workVars, Undisturbed'
    PROVE  Undisturbed
<1>1. \A r \in Runs : script'[r] = "idle" => script[r] = "idle"
  BY OnlyForward
<1>2. \A r \in Runs : ~hasFailed'[r] => ~hasFailed[r]
  BY OnlyForward
<1>3. \A p \in Scripts : p \notin asked' => p \notin asked
  BY OnlyForward
<1>4. overheard \subseteq overheard'
  BY OnlyForward
<1>5. QED
  BY <1>1, <1>2, <1>3, <1>4 DEF Undisturbed, Unasked, Runs

LEMMA KnownStays == Typed /\ KnownInv /\ [WorkNext]_workVars => KnownInv'
<1> SUFFICES ASSUME Typed, KnownInv, [WorkNext]_workVars
             PROVE  KnownInv'
  OBVIOUS
<1>1. \A r \in Runs : script[r] # "idle" => script'[r] # "idle"
  BY OnlyForward
<1>2. ASSUME actions' = actions
      PROVE  \A i \in 1..Len(actions') : actions'[i].run \in Runs => script'[actions'[i].run] # "idle"
  BY <1>1, <1>2 DEF KnownInv
<1>3. ASSUME NEW a \in Acts, a.run \in Runs => script'[a.run] # "idle", Post(a)
      PROVE  \A i \in 1..Len(actions') : actions'[i].run \in Runs => script'[actions'[i].run] # "idle"
  <2>1. /\ Len(actions') = Len(actions) + 1 /\ Len(actions) \in Nat
        /\ actions'[Len(actions) + 1] = a
        /\ \A i \in 1..Len(actions) : actions'[i] = actions[i]
    BY <1>3, PostAdds, LenProperties DEF Typed
  <2>2. \A i \in 1..Len(actions') : i \in 1..Len(actions) \/ i = Len(actions) + 1
    BY <2>1
  <2>3. QED
    BY <1>1, <1>3, <2>1, <2>2 DEF KnownInv
<1>4. ASSUME UNCHANGED loopVars
      PROVE  /\ activeOperation' # NoRun => script'[activeOperation'] # "idle"
             /\ loop'.at = "posting" /\ loop'.action.run \in Runs =>
                  script'[loop'.action.run] # "idle"
             /\ loop'.at = "cancelling" => script'[loop'.run] # "idle"
  <2>1. loop.at = "cancelling" => loop.run \in Runs
    BY DEF Typed, LoopStates, Posting, Selecting
  <2>2. activeOperation # NoRun => activeOperation \in Runs
    BY DEF Typed
  <2>3. QED
    BY <1>1, <1>4, <2>1, <2>2 DEF loopVars, KnownInv, PostsOfRun
<1>5. CASE CancelQuery
  <2>1. script' = script /\ activeOperation' = activeOperation /\ actions' = actions
        /\ loop' = [at |-> "cancelling", run |-> activeOperation] /\ activeOperation # NoRun
    BY <1>5 DEF CancelQuery, TakesSlot
  <2>2. QED
    BY <2>1 DEF KnownInv, PostsOfRun
<1>6. CASE CancelAnswered
  <2>1. script' = script /\ activeOperation' = activeOperation /\ actions' = actions
        /\ loop' = [at |-> "posting", action |-> Says("cancelled", loop.run)]
        /\ loop.at = "cancelling"
    BY <1>6 DEF CancelAnswered, taskVars
  <2>2. QED
    BY <2>1 DEF KnownInv, Says, PostsOfRun
<1>7. CASE LoopPosts
  <2>1. script' = script /\ activeOperation' = activeOperation /\ loop' = Selecting
        /\ loop.at = "posting" /\ Post(loop.action)
    BY <1>7 DEF LoopPosts, taskVars
  <2>2. loop.action \in Acts
    BY <2>1, LoopActIs
  <2>3. \A i \in 1..Len(actions') : actions'[i].run \in Runs => script'[actions'[i].run] # "idle"
    BY <1>3, <2>1, <2>2 DEF KnownInv, PostsOfRun
  <2>4. QED
    BY <2>1, <2>3 DEF KnownInv, Selecting, PostsOfRun
<1>8. CASE ReceiveAction
  <2>1. script' = script /\ loop' = loop /\ loop = Selecting /\ actions # <<>>
        /\ actions' = Tail(actions)
    BY <1>8 DEF ReceiveAction, taskVars
  <2>2. /\ Head(actions) = actions[1] /\ 1 \in 1..Len(actions)
        /\ \A i \in 1..Len(actions') :
             i + 1 \in 1..Len(actions) /\ actions'[i] = actions[i + 1]
    BY <2>1, TailShifts DEF Typed
  <2>3. \A i \in 1..Len(actions') : actions'[i].run \in Runs => script'[actions'[i].run] # "idle"
    BY <2>1, <2>2 DEF KnownInv
  <2>4. activeOperation' \in {NoRun, activeOperation, Head(actions).run}
    BY <1>8, ReceivedOperation
  <2>5. activeOperation' # NoRun => script'[activeOperation'] # "idle"
    <3>1. Head(actions).run \in Runs \cup {NoRun}
      BY <2>1, HeadAct DEF Typed
    <3>2. QED
      BY <2>1, <2>2, <2>4, <3>1 DEF KnownInv
  <2>6. QED
    BY <2>1, <2>3, <2>5 DEF KnownInv, Selecting, PostsOfRun
<1>9. ASSUME NEW r \in Runs, Launch(r)
      PROVE  KnownInv'
  <2>1. actions' = actions /\ activeOperation' = r
    BY <1>9 DEF Launch
  <2>2. script'[r] # "idle"
    BY <1>9 DEF Launch, Typed
  <2>3. loop' = Selecting \/ (loop'.at = "posting" /\ loop'.action.run = r)
    BY <1>9 DEF Launch, Says
  <2>4. QED
    BY <1>2, <2>1, <2>2, <2>3 DEF KnownInv, Selecting, PostsOfRun
<1>10. ASSUME NEW r \in Runs, ScriptStep(r)
       PROVE  KnownInv'
  <2>1. UNCHANGED loopVars
    BY <1>10 DEF ScriptStep, Announce, StartStatement, SetSlot, Headline, ReadRows, Forward,
                 SeeEnd, SeeFailure, SeeCancelled, TimesOut, ReportFailure, LeaveStatements,
                 FinishScript, AnswerPlan, ClearSlot
  <2>2. actions' = actions \/ \E k \in Kinds : Post(Says(k, r))
    BY <1>10 DEF ScriptStep, Announce, StartStatement, SetSlot, Headline, ReadRows, Forward,
                 SeeEnd, SeeFailure, SeeCancelled, TimesOut, ReportFailure, LeaveStatements,
                 FinishScript, AnswerPlan, ClearSlot, Kinds
  <2>3. script[r] # "idle"
    BY <1>10 DEF ScriptStep, Announce, StartStatement, SetSlot, Headline, ReadRows, Forward,
                 SeeEnd, SeeFailure, SeeCancelled, TimesOut, ReportFailure, LeaveStatements,
                 FinishScript, AnswerPlan, ClearSlot, Goes
  <2>4. \A k \in Kinds : Says(k, r) \in Acts /\ script'[Says(k, r).run] # "idle"
    BY <1>1, <2>3, ActType DEF Says
  <2>5. \A i \in 1..Len(actions') : actions'[i].run \in Runs => script'[actions'[i].run] # "idle"
    BY <1>2, <1>3, <2>2, <2>4
  <2>6. QED
    BY <1>4, <2>1, <2>5 DEF KnownInv, PostsOfRun
<1>11. CASE UNCHANGED workVars
  BY <1>2, <1>4, <1>11 DEF workVars, loopVars, KnownInv, PostsOfRun
<1>12. CASE AutosaveFails
  <2>1. actions' = actions /\ UNCHANGED <<activeOperation, script>>
        /\ loop' = [at |-> "posting", action |-> OthersEnd]
    BY <1>12 DEF AutosaveFails, OthersEnd, taskVars
  <2>2. QED
    BY <1>2, <2>1, OthersEndIs DEF KnownInv, PostsOfRun
<1>13. CASE OtherTaskFails
  <2>1. Post(OthersEnd) /\ UNCHANGED loopVars
    BY <1>13 DEF OtherTaskFails, OthersEnd
  <2>2. QED
    BY <1>3, <1>4, <2>1, OthersEndIs DEF KnownInv, PostsOfRun
<1>14. QED
  BY <1>5, <1>6, <1>7, <1>8, <1>9, <1>10, <1>11, <1>12, <1>13 DEF WorkNext, LoopStep

\* One step that nothing disturbed, nor anything before it.
LEMMA OverStays ==
    ASSUME Typed, KnownInv, OverInv, Undisturbed, Undisturbed', [WorkNext]_workVars
    PROVE  OverInv'
<1>1. \A r \in Runs : script[r] # "idle" \/ script'[r] # "idle" => r \in Scripts
  BY DEF Undisturbed, Unasked, Runs
<1> DEFINE EndNext(i) == actions'[i].run \in Runs /\ actions'[i].kind \in Ends
<1>2. CASE CancelQuery
  <2>1. activeOperation \in Runs /\ activeOperation \in asked'
    BY <1>2 DEF CancelQuery, TakesSlot, Typed
  <2>2. activeOperation \in Scripts
    BY <1>1, <1>2, <2>1 DEF CancelQuery, KnownInv
  <2>3. QED
    BY <2>1, <2>2 DEF Undisturbed, Unasked
<1>3. CASE CancelAnswered
  BY <1>3 DEF CancelAnswered, OverInv
<1>4. CASE LoopPosts
  <2>1. script' = script /\ activeQuery' = activeQuery /\ loop' = Selecting
        /\ loop.at = "posting" /\ Post(loop.action)
    BY <1>4 DEF LoopPosts, taskVars
  <2>2. loop.action \in Acts
    BY <2>1, LoopActIs
  <2>3. /\ Len(actions') = Len(actions) + 1 /\ Len(actions) \in Nat
        /\ actions'[Len(actions) + 1] = loop.action
        /\ \A i \in 1..Len(actions) : actions'[i] = actions[i]
    BY <2>1, <2>2, PostAdds, LenProperties DEF Typed
  <2>4. \A s \in Scripts : InProgress(s)' => activeQuery' = s
    BY <2>1 DEF OverInv, InProgress
  <2>5. \A i \in 1..Len(actions') : i \in 1..Len(actions) \/ i = Len(actions) + 1
    BY <2>3
  <2>6. CASE PostsOfRun
    <3>1. \A i \in 1..Len(actions) : ~EndAt(i)
      BY <2>6 DEF OverInv
    <3>2. \A i \in 1..Len(actions') : EndNext(i) => i = Len(actions) + 1
      BY <2>3, <2>5, <3>1 DEF EndAt
    <3>3. activeQuery = loop.action.run /\ script[loop.action.run] = "done"
      BY <2>6 DEF OverInv
    <3>4. QED
      BY <2>1, <2>3, <2>4, <3>2, <3>3 DEF OverInv, EndAt, PostsOfRun, Selecting
  <2>7. CASE ~PostsOfRun
    <3>1. loop.action.run \notin Runs
      BY <2>1, <2>7 DEF PostsOfRun
    <3>2. \A i \in 1..Len(actions') : EndNext(i) => i \in 1..Len(actions) /\ EndAt(i)
      BY <2>3, <2>5, <3>1 DEF EndAt
    <3>3. QED
      BY <2>1, <2>3, <2>4, <3>2 DEF OverInv, EndAt, PostsOfRun, Selecting
  <2>8. QED
    BY <2>6, <2>7
<1>5. CASE ReceiveAction
  <2>1. script' = script /\ loop' = loop /\ loop.at = "select" /\ actions # <<>>
        /\ actions' = Tail(actions)
    BY <1>5 DEF ReceiveAction, taskVars, Selecting
  <2>2. /\ Head(actions) = actions[1] /\ 1 \in 1..Len(actions)
        /\ \A i \in 1..Len(actions') :
             i \in Nat /\ i > 0 /\ i + 1 \in 1..Len(actions) /\ actions'[i] = actions[i + 1]
    BY <2>1, TailShifts DEF Typed
  <2>3. CASE EndAt(1)
    <3>1. \A i \in 1..Len(actions') : ~EndNext(i)
      <4>1. \A j \in 1..Len(actions) : EndAt(j) => j = 1
        BY <2>2, <2>3 DEF OverInv
      <4>2. \A i \in 1..Len(actions') : i + 1 # 1
        BY <2>2
      <4>3. QED
        BY <2>2, <4>1, <4>2 DEF EndAt
    <3>2. \A s \in Scripts : ~InProgress(s)
      BY <2>2, <2>3 DEF OverInv, InProgress
    <3>3. QED
      BY <2>1, <3>1, <3>2 DEF OverInv, EndAt, InProgress, PostsOfRun
  <2>4. CASE Head(actions).run \notin Runs
    <3>1. \A r \in Runs : ~Heard(r)
      <4>1. Head(actions).run = NoRun
        BY <2>1, <2>4, HeadAct DEF Typed
      <4>2. overheard' = {}
        BY DEF Undisturbed
      <4>3. QED
        BY <1>5, <4>1, <4>2 DEF ReceiveAction, Overhear
    <3>2. \A s \in Scripts : ~InProgress(s)
      BY <3>1 DEF Heard, Runs
    <3>3. \A i \in 1..Len(actions') : ~EndNext(i)
      BY <2>2, <3>1 DEF Heard
    <3>4. QED
      BY <2>1, <3>2, <3>3 DEF OverInv, EndAt, InProgress, PostsOfRun
  <2>5. CASE Head(actions).run \in Runs /\ ~EndAt(1)
    <3>1. activeQuery' = activeQuery
      BY <1>5, <2>2, <2>5 DEF ReceiveAction, EndAt
    <3>2. ASSUME NEW i \in 1..Len(actions'), EndNext(i)
          PROVE  /\ activeQuery' = actions'[i].run
                 /\ script'[actions'[i].run] = "done"
                 /\ \A j \in 1..Len(actions') : EndNext(j) => i = j
      <4>1. EndAt(i + 1) /\ i + 1 \in 1..Len(actions) /\ actions'[i] = actions[i + 1]
        BY <2>2, <3>2 DEF EndAt
      <4>2. \A j \in 1..Len(actions') : EndNext(j) => i + 1 = j + 1
        BY <2>2, <4>1 DEF OverInv, EndAt
      <4>3. \A j \in 1..Len(actions') : i + 1 = j + 1 => i = j
        BY <2>2
      <4>4. QED
        BY <2>1, <3>1, <4>1, <4>2, <4>3 DEF OverInv
    <3>3. QED
      BY <2>1, <3>1, <3>2 DEF OverInv, EndAt, InProgress, PostsOfRun
  <2>6. QED
    BY <2>3, <2>4, <2>5
<1>6. ASSUME NEW r \in Runs, Launch(r)
      PROVE  OverInv'
  <2>1. actions' = actions /\ script[r] = "idle"
    BY <1>6 DEF Launch
  <2>2. \E t \in Places \ {"idle"} : script' = [script EXCEPT ![r] = t]
    BY <1>6 DEF Launch, Places
  <2>3. r \in Scripts
    BY <1>1, <2>2 DEF Typed
  <2>4. activeQuery = NoRun /\ activeQuery' = r
    BY <1>6, <2>3 DEF Launch, MayLaunch
  <2>5. \A i \in 1..Len(actions) : ~EndAt(i)
    BY <2>4, RunsAssumption DEF OverInv, EndAt
  <2>6. \A s \in Scripts : ~InProgress(s)
    BY <2>4, RunsAssumption DEF OverInv, Runs
  <2>7. \A s \in Scripts : InProgress(s)' => activeQuery' = s
    BY <2>2, <2>4, <2>6 DEF InProgress, Typed, Runs
  <2>8. \/ loop' = loop
        \/ /\ loop' = [at |-> "posting", action |-> Says("refused", r)]
           /\ script' = [script EXCEPT ![r] = "done"]
    <3>1. r \notin Explains
      BY <2>3, RunsAssumption
    <3>2. QED
      BY <1>6, <3>1 DEF Launch
  <2>9. /\ loop'.at # "cancelling"
        /\ loop'.at = "posting" /\ loop'.action.run \in Runs =>
             activeQuery' = loop'.action.run /\ script'[loop'.action.run] = "done"
    <3>1. loop.at = "select"
      BY <1>6 DEF Launch, Selecting
    <3>2. QED
      BY <2>4, <2>8, <3>1 DEF Says, Typed
  <2>10. QED
    BY <2>1, <2>5, <2>7, <2>9 DEF OverInv, EndAt, PostsOfRun
<1>7. ASSUME NEW r \in Runs, ScriptStep(r)
      PROVE  OverInv'
  <2>1. script[r] \notin {"idle", "done"}
    BY <1>7 DEF ScriptStep, Announce, StartStatement, SetSlot, Headline, ReadRows, Forward,
                SeeEnd, SeeFailure, SeeCancelled, TimesOut, ReportFailure, LeaveStatements,
                FinishScript, AnswerPlan, ClearSlot, Goes
  <2>2. \E t \in Places \ {"idle"} : script' = [script EXCEPT ![r] = t]
    BY <1>7 DEF ScriptStep, Announce, StartStatement, SetSlot, Headline, ReadRows, Forward,
                SeeEnd, SeeFailure, SeeCancelled, TimesOut, ReportFailure, LeaveStatements,
                FinishScript, AnswerPlan, ClearSlot, Goes, Places
  <2>3. activeQuery' = activeQuery /\ loop' = loop
    BY <1>7 DEF ScriptStep, Announce, StartStatement, SetSlot, Headline, ReadRows, Forward,
                SeeEnd, SeeFailure, SeeCancelled, TimesOut, ReportFailure, LeaveStatements,
                FinishScript, AnswerPlan, ClearSlot, loopVars
  <2>4. r \in Scripts /\ activeQuery = r
    BY <1>1, <2>1 DEF OverInv, InProgress
  <2>5. \A i \in 1..Len(actions) : ~EndAt(i)
    BY <2>1, <2>4 DEF OverInv
  <2>6. loop.at # "cancelling" /\ ~PostsOfRun
    BY <2>1, <2>4 DEF OverInv
  <2>7. \A s \in Scripts : InProgress(s)' => activeQuery' = s
    BY <2>2, <2>3, <2>4 DEF OverInv, InProgress, Typed, Runs
  <2>8. CASE FinishScript(r)
    <3>1. Post(Says("finished", r)) /\ script' = [script EXCEPT ![r] = "done"]
      BY <2>8 DEF FinishScript, Goes
    <3>2. Says("finished", r) \in Acts
      BY ActType DEF Kinds
    <3>3. /\ Len(actions') = Len(actions) + 1 /\ Len(actions) \in Nat
          /\ actions'[Len(actions) + 1] = Says("finished", r)
          /\ \A i \in 1..Len(actions) : actions'[i] = actions[i]
      BY <3>1, <3>2, PostAdds, LenProperties DEF Typed
    <3>4. ASSUME NEW i \in 1..Len(actions'), EndNext(i)
          PROVE  i = Len(actions) + 1
      BY <2>5, <3>3, <3>4 DEF EndAt
    <3>5. script'[r] = "done"
      BY <3>1 DEF Typed
    <3>6. Says("finished", r).run = r
      BY DEF Says
    <3>7. QED
      BY <2>3, <2>4, <2>6, <2>7, <3>3, <3>4, <3>5, <3>6 DEF OverInv, EndAt, PostsOfRun
  <2>9. CASE ~FinishScript(r)
    <3>1. actions' = actions \/ \E k \in Kinds \ Ends : Post(Says(k, r))
      <4>1. ~hasFailed'[r]
        BY <2>4 DEF Undisturbed, Unasked
      <4>2. ~ReportFailure(r)
        BY <4>1 DEF ReportFailure, Typed
      <4>3. QED
        BY <1>7, <2>9, <4>2
           DEF ScriptStep, Announce, StartStatement, SetSlot, Headline, ReadRows, Forward, SeeEnd,
               SeeFailure, SeeCancelled, TimesOut, LeaveStatements, AnswerPlan, ClearSlot,
               Kinds, Ends
    <3>2. \A i \in 1..Len(actions') : ~EndNext(i)
      <4>1. ASSUME NEW k \in Kinds \ Ends, Post(Says(k, r))
            PROVE  \A i \in 1..Len(actions') : ~EndNext(i)
        <5>1. Says(k, r) \in Acts /\ Says(k, r).kind = k
          BY ActType DEF Says
        <5>2. /\ Len(actions') = Len(actions) + 1 /\ Len(actions) \in Nat
              /\ actions'[Len(actions) + 1] = Says(k, r)
              /\ \A i \in 1..Len(actions) : actions'[i] = actions[i]
          BY <4>1, <5>1, PostAdds, LenProperties DEF Typed
        <5>3. \A i \in 1..Len(actions') : i \in 1..Len(actions) \/ i = Len(actions) + 1
          BY <5>2
        <5>4. QED
          BY <2>5, <5>1, <5>2, <5>3 DEF EndAt
      <4>2. QED
        BY <2>5, <3>1, <4>1 DEF EndAt
    <3>3. QED
      BY <2>3, <2>6, <2>7, <3>2 DEF OverInv, EndAt, PostsOfRun
  <2>10. QED
    BY <2>8, <2>9
<1>8. CASE UNCHANGED workVars
  BY <1>8 DEF workVars, OverInv, EndAt, InProgress, PostsOfRun
<1>9. CASE AutosaveFails
  <2>1. UNCHANGED <<activeQuery, actions, script>> /\ loop' = [at |-> "posting", action |-> OthersEnd]
    BY <1>9 DEF AutosaveFails, OthersEnd, taskVars
  <2>2. loop'.at = "posting" /\ loop'.action.run \notin Runs
    BY <2>1, OthersEndIs
  <2>3. QED
    BY <2>1, <2>2 DEF OverInv, EndAt, InProgress, PostsOfRun
<1>10. CASE OtherTaskFails
  <2>1. UNCHANGED <<activeQuery, loop, script>> /\ Post(OthersEnd)
    BY <1>10 DEF OtherTaskFails, OthersEnd, loopVars, taskVars
  <2>2. /\ Len(actions') = Len(actions) + 1 /\ Len(actions) \in Nat
        /\ actions'[Len(actions) + 1] = OthersEnd
        /\ \A i \in 1..Len(actions) : actions'[i] = actions[i]
    BY <2>1, OthersEndIs, PostAdds, LenProperties DEF Typed
  <2>3. \A i \in 1..Len(actions') : EndNext(i) => i \in 1..Len(actions) /\ EndAt(i)
    BY <2>2, OthersEndIs DEF EndAt
  <2>4. QED
    BY <2>1, <2>2, <2>3 DEF OverInv, EndAt, InProgress, PostsOfRun
<1>11. QED
  BY <1>2, <1>3, <1>4, <1>5, <1>6, <1>7, <1>8, <1>9, <1>10 DEF WorkNext, LoopStep

\* "One run at a time", for any scripts.
THEOREM OneAtATime == WorkSpec => []OneRunAtATime
<1>1. Typed /\ KnownInv /\ AloneInv /\ [WorkNext]_workVars => AloneInv'
  BY UndisturbedBefore, OverStays DEF AloneInv
<1>2. AloneInv => OneRunAtATime
  BY DEF AloneInv, OverInv, OneRunAtATime, AtMostOneScript
<1>3. QED
  BY <1>1, <1>2, WorkInitType, WorkNextType, AloneInitially, KnownStays, PTL DEF WorkSpec
-----------------------------------------------------------------------------
(* The run on screen, and the statement in the slot. *)

EndsOf(i, r) == actions[i].run = r /\ actions[i].kind \in Ends \cup {"explained"}
\* On, and with its end still to say.
Owes(r) == InProgress(r) /\ ~hasFailed[r] /\ script[r] # "clearing"
Held(r) == \/ loop.at = "posting" /\ loop.action.run = r
           \/ loop.at = "cancelling" /\ loop.run = r
Around(r) == Heard(r) \/ Held(r)

\* An end that is on its way is of a run that is over, failed or was asked to stop.
EndIs(a) ==
    /\ a.run \in Runs /\ a.kind \in Ends =>
         script[a.run] = "done" \/ hasFailed[a.run] \/ a.run \in asked
    /\ a.kind = "explained" => a.run \in Explains
EndInv ==
    /\ \A i \in 1..Len(actions) : EndIs(actions[i])
    /\ loop.at = "cancelling" => loop.run \in asked
    /\ loop.at = "posting" => EndIs(loop.action)
    /\ \A r \in Runs : script[r] \in {"idle", "announcing"} => ~hasFailed[r]

\* What the screen shows has its end to come, and so has what is about to be shown.
OwedInv ==
    /\ \A o \in Runs : activeOperation = o =>
         Owes(o) \/ (loop.at = "posting" /\ loop.action.run = o)
           \/ \E j \in 1..Len(actions) : EndsOf(j, o)
    /\ \A i \in 1..Len(actions) : actions[i].kind = "started" =>
         Owes(actions[i].run) \/ \E j \in 1..Len(actions) : j > i /\ EndsOf(j, actions[i].run)

BesideInv == \A r, s \in Runs : r # s /\ Around(r) /\ Around(s) => r \in beside

LEMMA ScreenInitially ==
    WorkInit => EndInv /\ OwedInv /\ BesideInv /\ TheRunIsOnScreen /\ TheSlotHoldsTheStatement
<1> SUFFICES ASSUME WorkInit
             PROVE  EndInv /\ OwedInv /\ BesideInv /\ TheRunIsOnScreen /\ TheSlotHoldsTheStatement
  OBVIOUS
<1>1. 1..Len(actions) = {}
  BY DEF WorkInit
<1>2. loop.at = "select" /\ activeOperation \notin Runs
  BY RunsAssumption DEF WorkInit, Selecting
<1>3. \A s \in Runs : script[s] = "idle" /\ ~hasFailed[s]
  BY DEF WorkInit
<1>4. EndInv /\ OwedInv
  BY <1>1, <1>2, <1>3 DEF EndInv, OwedInv
<1>5. \A s \in Runs : ~Around(s)
  BY <1>1, <1>2, <1>3 DEF Around, Held, Heard, InProgress
<1>6. TheRunIsOnScreen /\ TheSlotHoldsTheStatement
  BY <1>3 DEF TheRunIsOnScreen, TheSlotHoldsTheStatement, InProgress, Runs
<1>7. QED
  BY <1>4, <1>5, <1>6 DEF BesideInv

\* The ways the queue changes.
LEMMA QueueSteps ==
    ASSUME Typed, [WorkNext]_workVars
    PROVE  \/ actions' = actions
           \/ ReceiveAction
           \/ \E a \in Acts : /\ Len(actions') = Len(actions) + 1
                              /\ actions'[Len(actions) + 1] = a
                              /\ \A i \in 1..Len(actions) : actions'[i] = actions[i]
                              /\ \/ LoopPosts /\ a = loop.action
                                 \/ OtherTaskFails /\ a = OthersEnd
                                 \/ \E r \in Runs : ScriptStep(r) /\ a.run = r
<1>1. ASSUME NEW a \in Acts, Post(a)
      PROVE  /\ Len(actions') = Len(actions) + 1
             /\ actions'[Len(actions) + 1] = a
             /\ \A i \in 1..Len(actions) : actions'[i] = actions[i]
  BY <1>1, PostAdds DEF Typed
<1>2. CASE LoopPosts
  <2>1. loop.action \in Acts /\ Post(loop.action)
    BY <1>2, LoopActIs DEF LoopPosts
  <2>2. QED
    BY <1>1, <1>2, <2>1
<1>3. ASSUME NEW r \in Runs, ScriptStep(r)
      PROVE  actions' = actions \/ \E k \in Kinds : Post(Says(k, r))
  BY <1>3 DEF ScriptStep, Announce, StartStatement, SetSlot, Headline, ReadRows, Forward,
              SeeEnd, SeeFailure, SeeCancelled, TimesOut, ReportFailure, LeaveStatements,
              FinishScript, AnswerPlan, ClearSlot, Kinds
<1>4. ASSUME NEW r \in Runs, ScriptStep(r), NEW k \in Kinds, Post(Says(k, r))
      PROVE  \E a \in Acts : /\ Len(actions') = Len(actions) + 1
                             /\ actions'[Len(actions) + 1] = a
                             /\ \A i \in 1..Len(actions) : actions'[i] = actions[i]
                             /\ \E q \in Runs : ScriptStep(q) /\ a.run = q
  <2>1. Says(k, r) \in Acts /\ Says(k, r).run = r
    BY ActType DEF Says
  <2>2. QED
    BY <1>1, <1>4, <2>1
<1>5. CASE CancelQuery \/ CancelAnswered \/ AutosaveFails \/ UNCHANGED workVars
  BY <1>5 DEF CancelQuery, CancelAnswered, AutosaveFails, workVars
<1>6. ASSUME NEW r \in Runs, Launch(r)
      PROVE  actions' = actions
  BY <1>6 DEF Launch
<1>7. CASE OtherTaskFails
  <2>1. Post(OthersEnd)
    BY <1>7 DEF OtherTaskFails, OthersEnd
  <2>2. QED
    BY <1>1, <1>7, <2>1, OthersEndIs
<1>8. QED
  BY <1>2, <1>3, <1>4, <1>5, <1>6, <1>7 DEF WorkNext, LoopStep

\* An action of the queue was in it before, or is the one that was added.
LEMMA InQueue ==
    ASSUME Typed, [WorkNext]_workVars, NEW i \in 1..Len(actions')
    PROVE  \/ \E j \in 1..Len(actions) : actions'[i] = actions[j]
           \/ LoopPosts /\ actions'[i] = loop.action
           \/ OtherTaskFails /\ actions'[i] = OthersEnd
           \/ \E r \in Runs : ScriptStep(r) /\ actions'[i].run = r
<1>1. CASE actions' = actions
  BY <1>1
<1>2. CASE ReceiveAction
  BY <1>2, TailShifts DEF ReceiveAction, Typed
<1>3. ASSUME NEW a \in Acts, Len(actions') = Len(actions) + 1,
             actions'[Len(actions) + 1] = a,
             \A j \in 1..Len(actions) : actions'[j] = actions[j]
      PROVE  actions'[i] = a \/ \E j \in 1..Len(actions) : actions'[i] = actions[j]
  <2>1. Len(actions) \in Nat
    BY LenProperties DEF Typed
  <2>2. i \in 1..Len(actions) \/ i = Len(actions) + 1
    BY <1>3, <2>1
  <2>3. QED
    BY <1>3, <2>2
<1>4. QED
  BY <1>1, <1>2, <1>3, QueueSteps

\* Only being launched puts a run on.
LEMMA LaunchedOrOn ==
    ASSUME Typed, [WorkNext]_workVars, NEW q \in Runs, InProgress(q)', ~InProgress(q)
    PROVE  Launch(q)
<1>1. CASE LoopStep \/ OtherTaskFails \/ UNCHANGED workVars
  BY <1>1 DEF LoopStep, CancelQuery, TakesSlot, CancelAnswered, LoopPosts, ReceiveAction,
              AutosaveFails, OtherTaskFails, taskVars, workVars, InProgress
<1>2. ASSUME NEW r \in Runs, Launch(r)
      PROVE  r = q
  <2>1. \E t \in Places : script' = [script EXCEPT ![r] = t]
    BY <1>2 DEF Launch, Places
  <2>2. QED
    BY <2>1 DEF InProgress, Typed
<1>3. ASSUME NEW r \in Runs, ScriptStep(r)
      PROVE  FALSE
  <2>1. script[r] \notin {"idle", "done"} /\ \E t \in Places : script' = [script EXCEPT ![r] = t]
    BY <1>3 DEF ScriptStep, Announce, StartStatement, SetSlot, Headline, ReadRows, Forward,
                SeeEnd, SeeFailure, SeeCancelled, TimesOut, ReportFailure, LeaveStatements,
                FinishScript, AnswerPlan, ClearSlot, Goes, Places
  <2>2. QED
    BY <2>1 DEF InProgress, Typed
<1>4. QED
  BY <1>1, <1>2, <1>3 DEF WorkNext

\* Who is around was around before, or was launched.
LEMMA AroundBefore ==
    ASSUME Typed, KnownInv, OwedInv, [WorkNext]_workVars, NEW q \in Runs, Around(q)'
    PROVE  Around(q) \/ Launch(q)
<1>1. InProgress(q)' => InProgress(q) \/ Launch(q)
  BY LaunchedOrOn
<1>2. ASSUME NEW i \in 1..Len(actions'), actions'[i].run = q
      PROVE  Around(q)
  <2>1. ASSUME NEW r \in Runs, ScriptStep(r)
        PROVE  InProgress(r)
    BY <2>1 DEF ScriptStep, Announce, StartStatement, SetSlot, Headline, ReadRows, Forward,
                SeeEnd, SeeFailure, SeeCancelled, TimesOut, ReportFailure, LeaveStatements,
                FinishScript, AnswerPlan, ClearSlot, Goes, InProgress
  <2>2. LoopPosts => loop.at = "posting"
    BY DEF LoopPosts
  <2>3. QED
    BY <1>2, <2>1, <2>2, InQueue, OthersEndIs DEF Around, Heard, Held
<1>3. ASSUME Held(q)'
      PROVE  Around(q) \/ Launch(q)
  <2>1. CASE CancelQuery
    <3>1. activeOperation = q
      BY <1>3, <2>1 DEF CancelQuery, TakesSlot, Held
    <3>2. QED
      BY <3>1 DEF OwedInv, Owes, EndsOf, Around, Heard, Held
  <2>2. CASE CancelAnswered
    BY <1>3, <2>2 DEF CancelAnswered, Held, Says, Around
  <2>3. ASSUME NEW r \in Runs, Launch(r)
        PROVE  r = q
    BY <1>3, <2>3 DEF Launch, Held, Says, Selecting
  <2>4. ASSUME LoopPosts \/ ReceiveAction \/ AutosaveFails
        PROVE  FALSE
    <3>1. loop' = Selecting \/ loop' = [at |-> "posting", action |-> OthersEnd]
      BY <2>4 DEF LoopPosts, ReceiveAction, AutosaveFails, OthersEnd
    <3>2. QED
      BY <1>3, <3>1, OthersEndIs DEF Held, Selecting
  <2>5. ASSUME NEW r \in Runs, ScriptStep(r)
        PROVE  Held(q)
    BY <1>3, <2>5 DEF ScriptStep, Announce, StartStatement, SetSlot, Headline, ReadRows, Forward,
                      SeeEnd, SeeFailure, SeeCancelled, TimesOut, ReportFailure, LeaveStatements,
                      FinishScript, AnswerPlan, ClearSlot, loopVars, Held
  <2>6. CASE OtherTaskFails \/ UNCHANGED workVars
    BY <1>3, <2>6 DEF OtherTaskFails, loopVars, workVars, Held, Around
  <2>7. QED
    BY <2>1, <2>2, <2>3, <2>4, <2>5, <2>6 DEF WorkNext, LoopStep, Around
<1>4. QED
  BY <1>1, <1>2, <1>3 DEF Around, Heard

LEMMA BesideGrows ==
    ASSUME Typed, [WorkNext]_workVars
    PROVE  beside \subseteq beside'
BY DEF WorkNext, LoopStep, CancelQuery, TakesSlot, CancelAnswered, LoopPosts, ReceiveAction,
       AutosaveFails, OtherTaskFails, FailsElsewhere, Launch, ScriptStep, Announce, StartStatement, SetSlot, Headline, ReadRows, Forward,
       SeeEnd, SeeFailure, SeeCancelled, TimesOut, ReportFailure, LeaveStatements,
       FinishScript, AnswerPlan, ClearSlot, runHistory, workVars

LEMMA BesideStays ==
    Typed /\ KnownInv /\ OwedInv /\ BesideInv /\ [WorkNext]_workVars => BesideInv'
<1> SUFFICES ASSUME Typed, KnownInv, OwedInv, BesideInv, [WorkNext]_workVars,
                    NEW r \in Runs, NEW s \in Runs, r # s, Around(r)', Around(s)'
             PROVE  r \in beside'
  BY DEF BesideInv
<1>1. CASE Around(r) /\ Around(s)
  BY <1>1, BesideGrows DEF BesideInv
<1>2. ASSUME NEW q \in Runs, Launch(q)
      PROVE  \A p \in Runs : Around(p) => Heard(p)
  BY <1>2 DEF Launch, Around, Held, Selecting
<1>3. CASE Launch(r) /\ Around(s)
  <2>1. Heard(s) /\ s \in Runs \ {r}
    BY <1>2, <1>3
  <2>2. QED
    BY <1>3, <2>1 DEF Launch
<1>4. CASE Launch(s) /\ Around(r)
  <2>1. Heard(r) /\ r \in Runs \ {s}
    BY <1>2, <1>4
  <2>2. QED
    BY <1>4, <2>1 DEF Launch
<1>5. Around(r) \/ Launch(r)
  BY AroundBefore
<1>6. Around(s) \/ Launch(s)
  BY AroundBefore
<1>7. ~(Launch(r) /\ Launch(s))
  <2>1. Launch(r) => activeOperation' = r
    BY DEF Launch
  <2>2. Launch(s) => activeOperation' = s
    BY DEF Launch
  <2>3. QED
    BY <2>1, <2>2
<1>8. QED
  BY <1>1, <1>3, <1>4, <1>5, <1>6, <1>7
\* A step of a run's task, as the screen would tell it.
LEMMA StepOf ==
    ASSUME Typed, EndInv, NEW r \in Runs, ScriptStep(r)
    PROVE  /\ UNCHANGED <<loopVars, asked, beside>>
           /\ script[r] \notin {"idle", "done"}
           /\ \E t \in Places \ {"idle", "announcing"} : script' = [script EXCEPT ![r] = t]
           /\ hasFailed' \in {hasFailed, [hasFailed EXCEPT ![r] = TRUE]}
           /\ \/ actions' = actions /\ (Owes(r) => Owes(r)')
              \/ \E k \in {"started", "output"} : Post(Says(k, r)) /\ (Owes(r) => Owes(r)')
              \/ Post(Says("finished", r)) /\ script'[r] = "done"
              \/ Post(Says("failed", r)) /\ hasFailed'[r]
              \/ Post(Says("explained", r)) /\ r \in Explains
           /\ \A k \in Kinds : Post(Says(k, r)) /\ k = "started" => Owes(r)'
<1>1. /\ UNCHANGED <<loopVars, asked, beside>>
      /\ script[r] \notin {"idle", "done"}
      /\ \E t \in Places \ {"idle", "announcing"} : script' = [script EXCEPT ![r] = t]
      /\ hasFailed' \in {hasFailed, [hasFailed EXCEPT ![r] = TRUE]}
  BY DEF ScriptStep, Announce, StartStatement, SetSlot, Headline, ReadRows, Forward,
         SeeEnd, SeeFailure, SeeCancelled, TimesOut, ReportFailure, LeaveStatements,
         FinishScript, AnswerPlan, ClearSlot, Goes, Places, runHistory
<1>2. ASSUME Announce(r)
      PROVE  Post(Says("started", r)) /\ Owes(r)'
  BY <1>2 DEF Announce, Goes, Owes, InProgress, EndInv, Typed
<1>3. ASSUME \/ StartStatement(r) \/ SetSlot(r) \/ ReadRows(r) \/ SeeEnd(r) \/ SeeFailure(r)
             \/ SeeCancelled(r) \/ TimesOut(r)
      PROVE  actions' = actions /\ (Owes(r) => Owes(r)')
  BY <1>3 DEF StartStatement, SetSlot, ReadRows, SeeEnd, SeeFailure, SeeCancelled, TimesOut,
              Goes, Owes, InProgress, Typed
<1>4. ASSUME Headline(r) \/ Forward(r)
      PROVE  Post(Says("output", r)) /\ (Owes(r) => Owes(r)')
  BY <1>4 DEF Headline, Forward, Goes, Owes, InProgress, Typed
<1>5. ASSUME LeaveStatements(r)
      PROVE  /\ actions' = actions \/ Post(Says("output", r))
             /\ Owes(r) => Owes(r)'
  BY <1>5 DEF LeaveStatements, Owes, InProgress, Typed
<1>6. ASSUME ReportFailure(r)
      PROVE  Post(Says("failed", r)) /\ hasFailed'[r]
  BY <1>6 DEF ReportFailure, Typed
<1>7. ASSUME FinishScript(r)
      PROVE  Post(Says("finished", r)) /\ script'[r] = "done"
  BY <1>7 DEF FinishScript, Goes, Typed
<1>8. ASSUME AnswerPlan(r)
      PROVE  Post(Says("explained", r)) /\ r \in Explains
  BY <1>8 DEF AnswerPlan
<1>9. ASSUME ClearSlot(r)
      PROVE  actions' = actions /\ ~Owes(r)
  BY <1>9 DEF ClearSlot, Goes, Owes
<1>10. \/ actions' = actions /\ (Owes(r) => Owes(r)')
       \/ \E k \in {"started", "output"} : Post(Says(k, r)) /\ (Owes(r) => Owes(r)')
       \/ Post(Says("finished", r)) /\ script'[r] = "done"
       \/ Post(Says("failed", r)) /\ hasFailed'[r]
       \/ Post(Says("explained", r)) /\ r \in Explains
  BY <1>2, <1>3, <1>4, <1>5, <1>6, <1>7, <1>8, <1>9 DEF ScriptStep
<1>11. ASSUME NEW k \in Kinds, Post(Says(k, r)), k = "started"
       PROVE  Announce(r)
  <2>1. actions'[Len(actions) + 1] = Says("started", r) /\ Len(actions') = Len(actions) + 1
    BY <1>11, PostAdds, ActType DEF Typed
  <2>2. ASSUME NEW n \in Kinds, Post(Says(n, r))
        PROVE  n = "started"
    BY <2>1, <2>2, PostAdds, ActType DEF Says, Typed
  <2>3. ~(actions' = actions)
    BY <2>1, LenProperties DEF Typed
  <2>4. QED
    BY <1>3, <1>4, <1>5, <1>6, <1>7, <1>8, <1>9, <2>2, <2>3 DEF ScriptStep, Kinds
<1>12. QED
  BY <1>1, <1>2, <1>10, <1>11

LEMMA EndStays == Typed /\ KnownInv /\ EndInv /\ [WorkNext]_workVars => EndInv'
<1> SUFFICES ASSUME Typed, KnownInv, EndInv, [WorkNext]_workVars
             PROVE  EndInv'
  OBVIOUS
<1>1. ASSUME NEW r \in Runs, script[r] = "done"
      PROVE  script'[r] = "done"
  <2>1. ASSUME NEW q \in Runs, Launch(q)
        PROVE  script[q] # "done" /\ \E t \in Places : script' = [script EXCEPT ![q] = t]
    BY <2>1 DEF Launch, Places
  <2>2. ASSUME NEW q \in Runs, ScriptStep(q)
        PROVE  script[q] # "done" /\ \E t \in Places : script' = [script EXCEPT ![q] = t]
    BY <2>2, StepOf
  <2>3. CASE LoopStep \/ OtherTaskFails \/ UNCHANGED workVars
    BY <1>1, <2>3 DEF LoopStep, CancelQuery, TakesSlot, CancelAnswered, LoopPosts, ReceiveAction,
                      AutosaveFails, OtherTaskFails, taskVars, workVars
  <2>4. QED
    BY <1>1, <2>1, <2>2, <2>3 DEF WorkNext, Typed
<1>2. ASSUME NEW a \in Acts, EndIs(a)
      PROVE  EndIs(a)'
  BY <1>1, <1>2, OnlyForward DEF EndIs
<1>3. \A i \in 1..Len(actions) : actions[i] \in Acts /\ EndIs(actions[i])
  BY ActAt DEF EndInv, Typed
<1>4. loop.at = "posting" => loop.action \in Acts /\ EndIs(loop.action)
  BY LoopActIs DEF EndInv
<1>5. \A i \in 1..Len(actions') : actions'[i].kind \in Ends \cup {"explained"} =>
        /\ actions'[i].run \in Runs /\ actions'[i].kind \in Ends =>
             \/ script'[actions'[i].run] = "done" \/ hasFailed'[actions'[i].run]
             \/ actions'[i].run \in asked'
        /\ actions'[i].kind = "explained" => actions'[i].run \in Explains
  <2> SUFFICES ASSUME NEW i \in 1..Len(actions')
               PROVE  /\ actions'[i].run \in Runs /\ actions'[i].kind \in Ends =>
                           \/ script'[actions'[i].run] = "done" \/ hasFailed'[actions'[i].run]
                           \/ actions'[i].run \in asked'
                      /\ actions'[i].kind = "explained" => actions'[i].run \in Explains
    OBVIOUS
  <2>1. CASE \E a \in Acts : EndIs(a) /\ actions'[i] = a
    BY <1>2, <2>1 DEF EndIs
  <2>2. CASE actions'[i] = OthersEnd
    BY <2>2, OthersEndIs
  <2>3. ASSUME NEW r \in Runs, ScriptStep(r), actions'[i] \notin {actions[j] : j \in 1..Len(actions)}
        PROVE  /\ actions'[i].run \in Runs /\ actions'[i].kind \in Ends =>
                    \/ script'[actions'[i].run] = "done" \/ hasFailed'[actions'[i].run]
                    \/ actions'[i].run \in asked'
               /\ actions'[i].kind = "explained" => actions'[i].run \in Explains
    <3>1. actions' # actions
      BY <2>3
    <3>2. ASSUME NEW k \in Kinds, Post(Says(k, r))
          PROVE  actions'[i].kind = k /\ actions'[i].run = r
      <4>1. /\ Len(actions') = Len(actions) + 1 /\ Len(actions) \in Nat
            /\ actions'[Len(actions) + 1] = Says(k, r)
            /\ \A j \in 1..Len(actions) : actions'[j] = actions[j]
        BY <3>2, PostAdds, ActType, LenProperties DEF Typed
      <4>2. i \in 1..Len(actions) \/ i = Len(actions) + 1
        BY <4>1
      <4>3. QED
        BY <2>3, <4>1, <4>2 DEF Says
    <3>3. QED
      BY <2>3, <3>1, <3>2, StepOf DEF Kinds, Ends
  <2>4. QED
    BY <1>3, <1>4, <2>1, <2>3, <2>2, InQueue DEF LoopPosts
<1>6. ASSUME loop' = loop
      PROVE  /\ loop'.at = "cancelling" => loop'.run \in asked'
             /\ loop'.at = "posting" => EndIs(loop.action)'
  BY <1>2, <1>4, <1>6, OnlyForward DEF EndInv
<1>7. /\ loop'.at = "cancelling" => loop'.run \in asked'
      /\ loop'.at = "posting" =>
           LET a == loop'.action IN
           /\ a.run \in Runs /\ a.kind \in Ends =>
                script'[a.run] = "done" \/ hasFailed'[a.run] \/ a.run \in asked'
           /\ a.kind = "explained" => a.run \in Explains
  <2>1. CASE CancelQuery
    BY <2>1 DEF CancelQuery, TakesSlot
  <2>2. CASE CancelAnswered
    BY <2>2, OnlyForward DEF CancelAnswered, EndInv, Says
  <2>3. CASE LoopPosts
    BY <2>3 DEF LoopPosts, Selecting
  <2>4. CASE ReceiveAction \/ OtherTaskFails \/ UNCHANGED workVars
    BY <1>6, <2>4 DEF ReceiveAction, OtherTaskFails, loopVars, workVars, EndIs
  <2>5. CASE AutosaveFails
    <3>1. loop' = [at |-> "posting", action |-> OthersEnd]
      BY <2>5 DEF AutosaveFails, OthersEnd
    <3>2. QED
      BY <3>1, OthersEndIs
  <2>6. ASSUME NEW r \in Runs, Launch(r)
        PROVE  \/ loop' = loop
               \/ \E k \in {"explained", "refused"} :
                    /\ loop' = [at |-> "posting", action |-> Says(k, r)]
                    /\ script'[r] = "done" /\ (k = "explained" => r \in Explains)
    BY <2>6 DEF Launch, Typed
  <2>7. ASSUME NEW r \in Runs, ScriptStep(r)
        PROVE  loop' = loop
    BY <2>7, StepOf DEF loopVars
  <2>8. QED
    BY <1>6, <2>1, <2>2, <2>3, <2>4, <2>6, <2>7, <2>5 DEF WorkNext, LoopStep, EndIs, Says
<1>8. \A q \in Runs : script'[q] \in {"idle", "announcing"} => ~hasFailed'[q]
  <2>1. CASE LoopStep \/ OtherTaskFails \/ UNCHANGED workVars
    BY <2>1 DEF LoopStep, CancelQuery, TakesSlot, CancelAnswered, LoopPosts, ReceiveAction,
                AutosaveFails, OtherTaskFails, taskVars, workVars, EndInv
  <2>2. ASSUME NEW r \in Runs, Launch(r)
        PROVE  \A q \in Runs : script'[q] \in {"idle", "announcing"} => ~hasFailed'[q]
    <3>1. script[r] = "idle" /\ hasFailed' = hasFailed
          /\ \E t \in Places : script' = [script EXCEPT ![r] = t]
      BY <2>2 DEF Launch, Places
    <3>2. QED
      BY <3>1 DEF EndInv, Typed
  <2>3. ASSUME NEW r \in Runs, ScriptStep(r)
        PROVE  \A q \in Runs : script'[q] \in {"idle", "announcing"} => ~hasFailed'[q]
    <3>1. /\ \E t \in Places \ {"idle", "announcing"} : script' = [script EXCEPT ![r] = t]
          /\ hasFailed' \in {hasFailed, [hasFailed EXCEPT ![r] = TRUE]}
      BY <2>3, StepOf
    <3>2. QED
      BY <3>1 DEF EndInv, Typed
  <2>4. QED
    BY <2>1, <2>2, <2>3 DEF WorkNext
<1>9. QED
  BY <1>5, <1>7, <1>8 DEF EndInv, EndIs
\* What is neither a start, an end nor a plan leaves the screen as it is.
LEMMA KeptOperation ==
    ASSUME ReceiveAction, Head(actions).kind # "started",
           Head(actions).kind \notin Ends \cup {"explained"}
    PROVE  activeOperation' = activeOperation
<1> DEFINE a == Head(actions)
           over == a.kind \in Ends
           planned == a.kind = "explained" /\ activeOperation = a.run
<1>1. activeOperation' = CASE a.kind = "started" -> a.run
                           [] over -> NoRun
                           [] planned -> NoRun
                           [] OTHER -> activeOperation
  BY DEF ReceiveAction
<1>2. ~over /\ ~planned
  BY DEF Ends
<1> HIDE DEF over, planned
<1>3. QED
  BY <1>1, <1>2, Zenon

\* What is no start puts nothing on the screen.
LEMMA HeldOperation ==
    ASSUME ReceiveAction, Head(actions).kind # "started"
    PROVE  activeOperation' \in {activeOperation, NoRun}
<1> DEFINE a == Head(actions)
           over == a.kind \in Ends
           planned == a.kind = "explained" /\ activeOperation = a.run
<1>1. activeOperation' = CASE a.kind = "started" -> a.run
                           [] over -> NoRun
                           [] planned -> NoRun
                           [] OTHER -> activeOperation
  BY DEF ReceiveAction
<1> HIDE DEF a, over, planned
<1>2. a.kind # "started"
  BY DEF a
<1>3. QED
  BY <1>1, <1>2, Zenon

\* A run that owes its end says it as it comes to owe it no more.
LEMMA OwesOrEnds ==
    ASSUME Typed, EndInv, [WorkNext]_workVars, NEW o \in Runs, Owes(o), ~Owes(o)'
    PROVE  /\ Len(actions') = Len(actions) + 1
           /\ actions'[Len(actions) + 1].run = o
           /\ actions'[Len(actions) + 1].kind \in Ends \cup {"explained"}
           /\ \A i \in 1..Len(actions) : actions'[i] = actions[i]
<1>1. ~(LoopStep \/ OtherTaskFails \/ UNCHANGED workVars)
  BY DEF LoopStep, CancelQuery, TakesSlot, CancelAnswered, LoopPosts, ReceiveAction,
         AutosaveFails, OtherTaskFails, taskVars, workVars, Owes, InProgress
<1>2. ASSUME NEW r \in Runs, Launch(r)
      PROVE  FALSE
  <2>1. script[r] = "idle" /\ hasFailed' = hasFailed
        /\ \E t \in Places : script' = [script EXCEPT ![r] = t]
    BY <1>2 DEF Launch, Places
  <2>2. QED
    BY <2>1 DEF Owes, InProgress, Typed
<1>3. PICK r \in Runs : ScriptStep(r)
  BY <1>1, <1>2 DEF WorkNext
<1>4. r = o
  <2>1. /\ \E t \in Places : script' = [script EXCEPT ![r] = t]
        /\ hasFailed' \in {hasFailed, [hasFailed EXCEPT ![r] = TRUE]}
    BY <1>3, StepOf
  <2>2. QED
    BY <2>1 DEF Owes, InProgress, Typed
<1>5. \E k \in {"finished", "failed", "explained"} : Post(Says(k, o))
  BY <1>3, <1>4, StepOf
<1>6. PICK k \in {"finished", "failed", "explained"} : Post(Says(k, o))
  BY <1>5
<1>7. k \in Kinds /\ k \in Ends \cup {"explained"}
  BY DEF Kinds, Ends
<1>8. QED
  BY <1>6, <1>7, PostAdds, ActType DEF Says, Typed

LEMMA OwedStays == Typed /\ KnownInv /\ EndInv /\ OwedInv /\ [WorkNext]_workVars => OwedInv'
<1> SUFFICES ASSUME Typed, KnownInv, EndInv, OwedInv, [WorkNext]_workVars
             PROVE  OwedInv'
  OBVIOUS
<1> DEFINE OwesNext(r) == /\ script'[r] \notin {"idle", "done", "clearing"}
                          /\ ~hasFailed'[r]
           EndNext(j, o) == /\ actions'[j].run = o
                            /\ actions'[j].kind \in Ends \cup {"explained"}
           ShownNext == \A o \in Runs : activeOperation' = o =>
                          OwesNext(o) \/ (loop'.at = "posting" /\ loop'.action.run = o)
                            \/ \E j \in 1..Len(actions') : EndNext(j, o)
           StartedNext == \A i \in 1..Len(actions') : actions'[i].kind = "started" =>
                            \/ OwesNext(actions'[i].run)
                            \/ \E j \in 1..Len(actions') : j > i /\ EndNext(j, actions'[i].run)
<1> SUFFICES ShownNext /\ StartedNext
  BY DEF OwedInv, EndsOf, Owes, InProgress
<1>1. /\ Len(actions) \in Nat
      /\ \A i \in 1..Len(actions) : actions[i].kind = "started" => actions[i].run \in Runs
  BY ActAt, LenProperties DEF Typed
<1>2. ASSUME NEW o \in Runs, Owes(o), ~OwesNext(o)
      PROVE  /\ Len(actions) + 1 \in 1..Len(actions') /\ EndNext(Len(actions) + 1, o)
             /\ \A i \in 1..Len(actions) : actions'[i] = actions[i]
  BY <1>1, <1>2, OwesOrEnds DEF Owes, InProgress
<1>3. ASSUME actions' = actions
      PROVE  StartedNext
  <2>1. \A o \in Runs : Owes(o) => OwesNext(o)
    BY <1>1, <1>2, <1>3
  <2>2. QED
    BY <1>1, <1>3, <2>1 DEF OwedInv, EndsOf
<1>4. ASSUME NEW a \in Acts, Len(actions') = Len(actions) + 1, actions'[Len(actions) + 1] = a,
             \A i \in 1..Len(actions) : actions'[i] = actions[i],
             a.kind = "started" => OwesNext(a.run)
      PROVE  StartedNext
  <2> SUFFICES ASSUME NEW i \in 1..Len(actions'), actions'[i].kind = "started"
               PROVE  \/ OwesNext(actions'[i].run)
                      \/ \E j \in 1..Len(actions') : j > i /\ EndNext(j, actions'[i].run)
    OBVIOUS
  <2>1. CASE i = Len(actions) + 1
    BY <1>4, <2>1
  <2>2. CASE i \in 1..Len(actions)
    <3>1. actions'[i] = actions[i] /\ actions[i].run \in Runs /\ actions[i].kind = "started"
      BY <1>1, <1>4, <2>2
    <3>2. CASE Owes(actions[i].run)
      <4>1. Len(actions) + 1 > i
        BY <1>1, <2>2
      <4>2. QED
        BY <1>2, <3>1, <3>2, <4>1
    <3>3. CASE \E j \in 1..Len(actions) : j > i /\ EndsOf(j, actions[i].run)
      <4>1. 1..Len(actions) \subseteq 1..Len(actions')
        BY <1>1, <1>4
      <4>2. QED
        BY <1>4, <3>1, <3>3, <4>1 DEF EndsOf
    <3>4. QED
      BY <2>2, <3>1, <3>2, <3>3 DEF OwedInv
  <2>3. QED
    BY <1>1, <1>4, <2>1, <2>2
<1>5. ASSUME activeOperation' = activeOperation, loop' = loop \/ loop.at # "posting",
             1..Len(actions) \subseteq 1..Len(actions'),
             \A i \in 1..Len(actions) : actions'[i] = actions[i]
      PROVE  ShownNext
  BY <1>2, <1>5 DEF OwedInv, EndsOf
<1>6. CASE CancelQuery \/ CancelAnswered \/ AutosaveFails \/ UNCHANGED workVars
  <2>1. actions' = actions /\ activeOperation' = activeOperation
        /\ (loop' = loop \/ loop.at # "posting")
    BY <1>6 DEF CancelQuery, TakesSlot, CancelAnswered, AutosaveFails, workVars, Selecting
  <2>2. QED
    BY <1>3, <1>5, <2>1
<1>7. CASE LoopPosts
  <2>1. loop.at = "posting" /\ Post(loop.action) /\ script' = script /\ hasFailed' = hasFailed
        /\ activeOperation' = activeOperation
    BY <1>7 DEF LoopPosts, taskVars
  <2>2. loop.action \in Acts /\ loop.action.kind \in Ends \cup {"explained"}
        /\ loop.action.kind # "started"
    BY <2>1, LoopActIs DEF Ends
  <2>3. /\ Len(actions') = Len(actions) + 1 /\ actions'[Len(actions) + 1] = loop.action
        /\ \A i \in 1..Len(actions) : actions'[i] = actions[i]
    BY <2>1, <2>2, PostAdds DEF Typed
  <2>4. ShownNext
    <3>1. 1..Len(actions) \subseteq 1..Len(actions') /\ Len(actions) + 1 \in 1..Len(actions')
      BY <1>1, <2>3
    <3>2. \A o \in Runs : Owes(o) => OwesNext(o)
      BY <2>1 DEF Owes, InProgress
    <3>3. QED
      BY <2>1, <2>2, <2>3, <3>1, <3>2 DEF OwedInv, EndsOf
  <2>5. QED
    BY <1>4, <2>2, <2>3, <2>4
<1>8. CASE ReceiveAction
  <2>1. script' = script /\ hasFailed' = hasFailed /\ loop' = loop /\ loop = Selecting
        /\ actions # <<>> /\ actions' = Tail(actions)
    BY <1>8 DEF ReceiveAction, taskVars
  <2>2. /\ Head(actions) = actions[1] /\ 1 \in 1..Len(actions)
        /\ Len(actions') = Len(actions) - 1
        /\ \A i \in 1..Len(actions') :
             i \in Nat /\ i + 1 \in 1..Len(actions) /\ actions'[i] = actions[i + 1]
    BY <2>1, TailShifts DEF Typed
  <2>3. \A o \in Runs : Owes(o) => OwesNext(o)
    BY <2>1 DEF Owes, InProgress
  <2>4. ASSUME NEW i \in 1..Len(actions), NEW j \in 1..Len(actions), j > i, NEW o, EndsOf(j, o)
        PROVE  j - 1 \in 1..Len(actions') /\ EndNext(j - 1, o) /\ j - 1 > i - 1
    <3>1. j - 1 \in 1..Len(actions') /\ j - 1 > i - 1 /\ (j - 1) + 1 = j
      BY <1>1, <2>2, <2>4
    <3>2. actions'[j - 1] = actions[j]
      BY <2>2, <3>1
    <3>3. QED
      BY <2>4, <3>1, <3>2 DEF EndsOf
  <2>5. StartedNext
    <3> SUFFICES ASSUME NEW i \in 1..Len(actions'), actions'[i].kind = "started"
                 PROVE  \/ OwesNext(actions'[i].run)
                        \/ \E j \in 1..Len(actions') : j > i /\ EndNext(j, actions'[i].run)
      OBVIOUS
    <3>1. i + 1 \in 1..Len(actions) /\ actions'[i] = actions[i + 1] /\ (i + 1) - 1 = i
      BY <2>2
    <3>2. CASE Owes(actions[i + 1].run)
      BY <1>1, <2>3, <3>1, <3>2
    <3>3. CASE \E j \in 1..Len(actions) : j > i + 1 /\ EndsOf(j, actions[i + 1].run)
      <4>1. PICK j \in 1..Len(actions) : j > i + 1 /\ EndsOf(j, actions[i + 1].run)
        BY <3>3
      <4>2. j - 1 \in 1..Len(actions') /\ EndNext(j - 1, actions[i + 1].run) /\ j - 1 > (i + 1) - 1
        BY <2>4, <3>1, <4>1
      <4>3. QED
        BY <3>1, <4>2
    <3>4. QED
      BY <3>1, <3>2, <3>3 DEF OwedInv
  <2>6. ShownNext
    <3> SUFFICES ASSUME NEW o \in Runs, activeOperation' = o
                 PROVE  OwesNext(o) \/ \E j \in 1..Len(actions') : EndNext(j, o)
      OBVIOUS
    <3>1. CASE actions[1].kind = "started"
      <4>1. o = actions[1].run
        BY <1>8, <2>2, <3>1 DEF ReceiveAction, Ends
      <4>2. Owes(o) \/ \E j \in 1..Len(actions) : j > 1 /\ EndsOf(j, o)
        BY <2>2, <3>1, <4>1 DEF OwedInv
      <4>3. QED
        BY <2>2, <2>3, <2>4, <4>2
    <3>2. CASE actions[1].kind # "started"
      <4>1. activeOperation = o /\ ~EndsOf(1, o)
        <5>1. o # NoRun
          BY RunsAssumption
        <5>2. actions[1].kind \notin Ends
          BY <1>8, <2>2, <3>2, <5>1 DEF ReceiveAction, Ends
        <5>3. ~(actions[1].kind = "explained" /\ activeOperation = actions[1].run)
          BY <1>8, <2>2, <3>2, <5>1, <5>2 DEF ReceiveAction, Ends
        <5>4. activeOperation' \in {activeOperation, NoRun}
          BY <1>8, <2>2, <3>2, <5>2, <5>3, HeldOperation DEF Ends
        <5>5. QED
          BY <5>1, <5>2, <5>3, <5>4 DEF EndsOf
      <4>2. loop.at # "posting"
        BY <2>1 DEF Selecting
      <4>3. Owes(o) \/ \E j \in 1..Len(actions) : j > 1 /\ EndsOf(j, o)
        <5>1. \A j \in 1..Len(actions) : j = 1 \/ j > 1
          BY <1>1
        <5>2. QED
          BY <4>1, <4>2, <5>1 DEF OwedInv
      <4>4. QED
        BY <2>2, <2>3, <2>4, <4>3
    <3>3. QED
      BY <3>1, <3>2
  <2>7. QED
    BY <2>5, <2>6
<1>9. ASSUME NEW r \in Runs, Launch(r)
      PROVE  ShownNext /\ StartedNext
  <2>1. actions' = actions /\ activeOperation' = r /\ hasFailed' = hasFailed /\ script[r] = "idle"
    BY <1>9 DEF Launch
  <2>2. \/ loop'.at = "posting" /\ loop'.action.run = r
        \/ script'[r] \in {"consuming", "announcing"}
    BY <1>9 DEF Launch, Says, Typed
  <2>3. script'[r] \in {"consuming", "announcing"} => OwesNext(r)
    BY <2>1 DEF EndInv
  <2>4. QED
    BY <1>3, <2>1, <2>2, <2>3
<1>10. ASSUME NEW r \in Runs, ScriptStep(r)
       PROVE  ShownNext /\ StartedNext
  <2>1. activeOperation' = activeOperation /\ loop' = loop
    BY <1>10, StepOf DEF loopVars
  <2>2. CASE actions' = actions
    BY <1>3, <1>5, <2>1, <2>2
  <2>3. ASSUME NEW k \in Kinds, Post(Says(k, r))
        PROVE  ShownNext /\ StartedNext
    <3>1. Says(k, r) \in Acts /\ Says(k, r).run = r /\ Says(k, r).kind = k
      BY ActType DEF Says
    <3>2. /\ Len(actions') = Len(actions) + 1 /\ actions'[Len(actions) + 1] = Says(k, r)
          /\ \A i \in 1..Len(actions) : actions'[i] = actions[i]
      BY <2>3, <3>1, PostAdds DEF Typed
    <3>3. k = "started" => OwesNext(r)
      BY <1>10, <2>3, StepOf DEF Owes, InProgress
    <3>4. 1..Len(actions) \subseteq 1..Len(actions')
      BY <1>1, <3>2
    <3>5. QED
      BY <1>4, <1>5, <2>1, <3>1, <3>2, <3>3, <3>4
  <2>4. QED
    BY <1>10, <2>2, <2>3, StepOf DEF Kinds
<1>11. CASE OtherTaskFails
  <2>1. Post(OthersEnd) /\ activeOperation' = activeOperation /\ loop' = loop
    BY <1>11 DEF OtherTaskFails, OthersEnd, loopVars
  <2>2. /\ Len(actions') = Len(actions) + 1 /\ actions'[Len(actions) + 1] = OthersEnd
        /\ \A i \in 1..Len(actions) : actions'[i] = actions[i]
    BY <2>1, OthersEndIs, PostAdds DEF Typed
  <2>3. 1..Len(actions) \subseteq 1..Len(actions')
    BY <1>1, <2>2
  <2>4. QED
    BY <1>4, <1>5, <2>1, <2>2, <2>3, OthersEndIs
<1>12. QED
  BY <1>6, <1>7, <1>8, <1>9, <1>10, <1>11 DEF WorkNext, LoopStep

LEMMA ScreenStays ==
    ASSUME Typed, EndInv, BesideInv, BesideInv', TheRunIsOnScreen, [WorkNext]_workVars
    PROVE  TheRunIsOnScreen'
<1> SUFFICES ASSUME NEW r \in Scripts \cup Reruns,
                    InProgress(r)', r \notin beside', r \notin asked', r \notin overheard',
                    ~hasFailed'[r]
             PROVE  activeOperation' = r
  BY DEF TheRunIsOnScreen
<1>1. /\ r \in Runs /\ r \notin Explains /\ ~hasFailed[r]
      /\ r \notin beside /\ r \notin asked /\ r \notin overheard
  BY BesideGrows, OnlyForward, RunsAssumption DEF Runs
<1>2. CASE Launch(r)
  BY <1>2 DEF Launch
<1>3. ASSUME NEW q \in Runs, Launch(q), q # r
      PROVE  FALSE
  <2>1. Around(r)'
    BY DEF Around, Heard
  <2>2. Around(q)'
    <3>1. \/ loop'.at = "posting" /\ loop'.action.run = q
          \/ script'[q] \in {"consuming", "announcing"}
      BY <1>3 DEF Launch, Says, Typed
    <3>2. QED
      BY <3>1 DEF Around, Heard, Held, InProgress
  <2>3. QED
    BY <1>1, <1>3, <2>1, <2>2 DEF BesideInv
<1>4. CASE ~\E q \in Runs : Launch(q)
  <2>1. InProgress(r) /\ activeOperation = r
    BY <1>1, <1>4, LaunchedOrOn DEF TheRunIsOnScreen
  <2>2. CASE ReceiveAction
    <3> DEFINE a == Head(actions)
    <3>1. a = actions[1] /\ 1 \in 1..Len(actions) /\ a.run \in Runs
      <4>1. a = actions[1] /\ 1 \in 1..Len(actions) /\ a.run \in Runs \cup {NoRun}
        BY <2>2, TailShifts, HeadAct DEF ReceiveAction, Typed
      <4>2. a.run # NoRun
        BY <1>1, <2>1, <2>2 DEF ReceiveAction, Overhear, Heard
      <4>3. QED
        BY <4>1, <4>2
    <3>2. a.run = r
      BY <1>1, <2>1, <3>1 DEF BesideInv, Around, Heard
    <3>3. EndIs(a)
      BY <3>1 DEF EndInv
    <3>4. a.kind \notin Ends \cup {"explained"}
      BY <1>1, <2>1, <3>2, <3>3 DEF EndIs, InProgress
    <3> HIDE DEF a
    <3>5. CASE a.kind = "started"
      BY <2>2, <3>2, <3>5 DEF ReceiveAction, Ends, a
    <3>6. CASE a.kind # "started"
      BY <2>1, <2>2, <3>4, <3>6, KeptOperation DEF a
    <3>7. QED
      BY <3>5, <3>6
  <2>3. CASE ~ReceiveAction
    <3>1. activeOperation' = activeOperation
      <4>1. CASE \/ CancelQuery \/ CancelAnswered \/ LoopPosts \/ AutosaveFails \/ OtherTaskFails
                 \/ UNCHANGED workVars
        BY <4>1 DEF CancelQuery, CancelAnswered, LoopPosts, AutosaveFails, OtherTaskFails, loopVars,
                    workVars
      <4>2. ASSUME NEW q \in Runs, ScriptStep(q)
            PROVE  activeOperation' = activeOperation
        BY <4>2, StepOf DEF loopVars
      <4>3. QED
        BY <1>4, <2>3, <4>1, <4>2 DEF WorkNext, LoopStep
    <3>2. QED
      BY <2>1, <3>1
  <2>4. QED
    BY <2>2, <2>3
<1>5. QED
  BY <1>2, <1>3, <1>4

LEMMA SlotStays ==
    ASSUME Typed, EndInv, OwedInv, BesideInv, BesideInv', TheSlotHoldsTheStatement,
           [WorkNext]_workVars
    PROVE  TheSlotHoldsTheStatement'
<1> DEFINE With == {"heading", "consuming", "forwarding"}
<1> SUFFICES ASSUME NEW r \in Runs, r \notin beside', r \notin asked', script'[r] \in With
             PROVE  liveSlot' = [run |-> r, nth |-> nth'[r]]
  BY DEF TheSlotHoldsTheStatement
<1>1. r \notin beside /\ r \notin asked
  BY BesideGrows, OnlyForward
<1>2. script[r] \in With => Around(r) /\ liveSlot = [run |-> r, nth |-> nth[r]]
  BY <1>1 DEF TheSlotHoldsTheStatement, Around, Heard, InProgress
<1>3. Around(r)'
  BY DEF Around, Heard, InProgress
<1>4. CASE CancelQuery
  <2>1. activeOperation \in Runs /\ activeOperation \in asked' /\ script' = script
    BY <1>4 DEF CancelQuery, TakesSlot, Typed
  <2>2. Around(activeOperation)
    BY <2>1 DEF OwedInv, Owes, EndsOf, Around, Heard, Held
  <2>3. activeOperation = r
    BY <1>1, <1>2, <2>1, <2>2 DEF BesideInv
  <2>4. QED
    BY <2>1, <2>3
<1>5. CASE \/ CancelAnswered \/ LoopPosts \/ ReceiveAction \/ AutosaveFails \/ OtherTaskFails
           \/ UNCHANGED workVars
  BY <1>2, <1>5 DEF CancelAnswered, LoopPosts, ReceiveAction, AutosaveFails, OtherTaskFails,
                    taskVars, workVars
<1>6. ASSUME NEW q \in Runs, Launch(q)
      PROVE  liveSlot' = [run |-> r, nth |-> nth'[r]]
  <2>1. Around(q)'
    <3>1. \/ loop'.at = "posting" /\ loop'.action.run = q
          \/ script'[q] \in {"consuming", "announcing"}
      BY <1>6 DEF Launch, Says, Typed
    <3>2. QED
      BY <3>1 DEF Around, Heard, Held, InProgress
  <2>2. q = r
    BY <1>3, <2>1 DEF BesideInv
  <2>3. CASE loop' = loop /\ r \in Explains
    <3>1. nth' = [nth EXCEPT ![r] = 1] /\ liveSlot' = [run |-> r, nth |-> 1]
      BY <1>6, <2>2, <2>3 DEF Launch, Says, Selecting
    <3>2. QED
      BY <3>1 DEF Typed
  <2>4. CASE ~(loop' = loop /\ r \in Explains)
    <3>1. script'[r] \in {"announcing", "done"}
      BY <1>6, <2>2, <2>4 DEF Launch, Typed
    <3>2. QED
      BY <3>1
  <2>5. QED
    BY <2>3, <2>4
<1>7. ASSUME NEW q \in Runs, ScriptStep(q)
      PROVE  liveSlot' = [run |-> r, nth |-> nth'[r]]
  <2>1. InProgress(q) /\ \E t \in Places : script' = [script EXCEPT ![q] = t]
    BY <1>7, StepOf DEF InProgress
  <2>2. q = r
    <3>1. CASE q # r
      <4>1. script'[r] = script[r]
        BY <2>1, <3>1 DEF Typed
      <4>2. QED
        BY <1>1, <1>2, <2>1, <3>1, <4>1 DEF BesideInv, Around, Heard
    <3>2. QED
      BY <3>1
  <2>3. CASE SetSlot(r)
    BY <2>3 DEF SetSlot
  <2>4. CASE Headline(r) \/ ReadRows(r) \/ Forward(r)
    BY <1>2, <2>4 DEF Headline, ReadRows, Forward, Goes
  <2>5. ASSUME \/ Announce(r) \/ StartStatement(r) \/ SeeEnd(r) \/ SeeFailure(r) \/ SeeCancelled(r)
               \/ TimesOut(r) \/ ReportFailure(r) \/ LeaveStatements(r) \/ FinishScript(r)
               \/ AnswerPlan(r) \/ ClearSlot(r)
        PROVE  FALSE
    <3>1. \E t \in {"between", "started", "reporting", "finishing", "clearing", "done"} :
             script' = [script EXCEPT ![r] = t]
      BY <2>5 DEF Announce, StartStatement, SeeEnd, SeeFailure, SeeCancelled, TimesOut,
                  ReportFailure, LeaveStatements, FinishScript, AnswerPlan, ClearSlot, Goes
    <3>2. QED
      BY <3>1 DEF Typed
  <2>6. QED
    BY <1>7, <2>2, <2>3, <2>4, <2>5 DEF ScriptStep
<1>8. QED
  BY <1>4, <1>5, <1>6, <1>7 DEF WorkNext, LoopStep

\* Ctrl+F2 and quitting reach a run that was never beside another, for as long as it is on.
THEOREM OnScreen == WorkSpec => []TheRunIsOnScreen
<1>1. BesideInv /\ Typed /\ EndInv /\ BesideInv' /\ TheRunIsOnScreen /\ [WorkNext]_workVars
        => TheRunIsOnScreen'
  BY ScreenStays
<1>2. QED
  BY <1>1, WorkInitType, WorkNextType, AloneInitially, KnownStays, ScreenInitially, EndStays,
     OwedStays, BesideStays, PTL DEF WorkSpec

\* What a cancel takes is what is with the database.
THEOREM SlotHolds == WorkSpec => []TheSlotHoldsTheStatement
<1>1. Typed /\ EndInv /\ OwedInv /\ BesideInv /\ BesideInv' /\ TheSlotHoldsTheStatement
        /\ [WorkNext]_workVars => TheSlotHoldsTheStatement'
  BY SlotStays
<1>2. QED
  BY <1>1, WorkInitType, WorkNextType, AloneInitially, KnownStays, ScreenInitially, EndStays,
     OwedStays, BesideStays, PTL DEF WorkSpec
=============================================================================
