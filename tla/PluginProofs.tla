---------------------------- MODULE PluginProofs ----------------------------
(***************************************************************************)
(* Proofs about a plugin's process, for any connections, processes and     *)
(* times: what it keeps is of its type, its sessions are counted, it is    *)
(* never left running without someone to stop it, an idle timer spares     *)
(* the sessions there are, and it is not started again and again.          *)
(*                                                                         *)
(* About the plugin's folder and its entry, for any number of Dexos: the   *)
(* locks exclude, the entry agrees with the folder whenever no command is  *)
(* under way, and a disabled plugin stays disabled.                        *)
(*                                                                         *)
(* And about one connection of the driver that ships as a plugin, DuckDB,  *)
(* for any queries, works and number of marks kept: an interrupt reaches   *)
(* only what someone asked to stop, which goes no further.                 *)
(***************************************************************************)
EXTENDS PluginHost, PluginInstall, DuckdbCancel, FiniteSetTheorems, SequenceTheorems, WellFoundedInduction, TLAPS

(***************************************************************************)
(* The process.                                                            *)
(***************************************************************************)

ConnStates == Active \cup {"idle", "closed", "dropped"}
Starting == {"spawning", "handshaking"}

HostKinds ==
    /\ conn \in [Connects -> ConnStates]
    /\ on \in [Connects -> Nat]
    /\ starting \in Connects \cup {Nobody}
    /\ live \in Nat
    /\ started \in Nat
    /\ running \subseteq Nat \ {0}
    /\ timers \in [Tickets -> 0..(Idle + 2)]

\* The mutex is held by the one that starts the process, and nothing is live meanwhile.
StartInv ==
    /\ \A c \in Connects : conn[c] \in Starting <=> starting = c
    /\ starting # Nobody => live = 0

\* Fields that a step of one kind leaves alone.
LEMMA HostKindsInit == HostInit => HostKinds
BY HostAssumption DEF HostInit, HostKinds, ConnStates, Tickets, None

LEMMA TimersType ==
    ASSUME timers \in [Tickets -> 0..(Idle + 2)], [HostNext]_hostStateVars
    PROVE  timers' \in [Tickets -> 0..(Idle + 2)]
<1>i. Idle \in Nat \ {0}
  BY HostAssumption
<1>1. ASSUME NEW c \in Connects, SessionClosed(c)
      PROVE  timers' \in [Tickets -> 0..(Idle + 2)]
  <2>1. timers' = IF sessions' = 0 THEN [timers EXCEPT ![ticket'] = Idle] ELSE timers
    BY <1>1 DEF SessionClosed
  <2>2. Idle \in 0..(Idle + 2)
    BY <1>i
  <2>3. QED
    BY <2>1, <2>2
<1>2. ASSUME NEW c \in Connects, ConnStep(c), ~SessionClosed(c)
      PROVE  timers' = timers
  BY <1>2 DEF ConnStep, Connect, Reuse, Look, Spawn, SpawnFails, Publish, HandshakeFails, Opened,
              OpenFails, Timeout, Kill, timeVars
<1>3. ASSUME NEW p \in Procs, ProcStep(p)
      PROVE  timers' = timers
  BY <1>3 DEF ProcStep, Crash, BreaksProtocol, StopTaken, timeVars
<1>4. ASSUME NEW t \in Tickets, TimerStep(t)
      PROVE  timers' \in [Tickets -> 0..(Idle + 2)]
  BY <1>i, <1>4 DEF TimerStep, TimerDecides, TimerStops, Decided, None
<1>5. CASE Unregister
  BY <1>5 DEF Unregister, timeVars
<1>6. CASE Tick
  <2>1. timers' = [t \in Tickets |-> IF timers[t] \in 1..Idle THEN timers[t] - 1 ELSE timers[t]]
    BY <1>6 DEF Tick
  <2>2. QED
    BY <1>i, <2>1
<1>7. CASE UNCHANGED hostStateVars
  BY <1>7 DEF hostStateVars, timeVars
<1>8. QED
  BY <1>1, <1>2, <1>3, <1>4, <1>5, <1>6, <1>7 DEF HostNext

LEMMA RunningType ==
    ASSUME running \subseteq Nat \ {0}, started \in Nat, [HostNext]_hostStateVars
    PROVE  running' \subseteq Nat \ {0}
<1>1. ASSUME NEW c \in Connects, ConnStep(c), ~Spawn(c)
      PROVE  running' \subseteq running
  BY <1>1 DEF ConnStep, Connect, Reuse, Look, SpawnFails, Publish, HandshakeFails, Opened, OpenFails,
              SessionClosed, Timeout, Kill, StopLive, procVars
<1>2. ASSUME NEW c \in Connects, Spawn(c)
      PROVE  running' \subseteq Nat \ {0}
  BY <1>2 DEF Spawn
<1>3. ASSUME NEW p \in Procs, ProcStep(p)
      PROVE  running' \subseteq running
  BY <1>3 DEF ProcStep, Crash, BreaksProtocol, StopTaken, StopLive
<1>4. ASSUME NEW t \in Tickets, TimerStep(t)
      PROVE  running' = running
  BY <1>4 DEF TimerStep, TimerDecides, TimerStops, procVars
<1>5. CASE Unregister \/ Tick \/ UNCHANGED hostStateVars
  BY <1>5 DEF Unregister, Tick, hostStateVars, procVars
<1>6. QED
  BY <1>1, <1>2, <1>3, <1>4, <1>5 DEF HostNext

LEMMA HostKindsNext == HostKinds /\ [HostNext]_hostStateVars => HostKinds'
<1> SUFFICES ASSUME HostKinds, [HostNext]_hostStateVars
             PROVE  HostKinds'
  OBVIOUS
<1>t. timers' \in [Tickets -> 0..(Idle + 2)]
  BY TimersType DEF HostKinds
<1> DEFINE Rest == /\ conn \in [Connects -> ConnStates]
                   /\ on \in [Connects -> Nat]
                   /\ starting \in Connects \cup {Nobody}
                   /\ live \in Nat
                   /\ started \in Nat
<1>r. Rest
  BY DEF HostKinds
<1>1. ASSUME NEW c \in Connects, ConnStep(c)
      PROVE  Rest'
  <2>1. CASE Connect(c) \/ Reuse(c) \/ Look(c)
    BY <1>r, <2>1 DEF Connect, Reuse, Look, procVars, ConnStates, Active, Connecting
  <2>2. CASE Spawn(c) \/ SpawnFails(c) \/ Publish(c) \/ HandshakeFails(c)
    BY <1>r, <2>2 DEF Spawn, SpawnFails, Publish, HandshakeFails, procVars, ConnStates, Active,
                      Connecting
  <2>3. CASE Opened(c) \/ OpenFails(c) \/ SessionClosed(c) \/ Timeout(c) \/ Kill(c)
    BY <1>r, <2>3 DEF Opened, OpenFails, SessionClosed, Timeout, Kill, procVars, ConnStates, Active,
                      Connecting
  <2>4. QED
    BY <1>1, <2>1, <2>2, <2>3 DEF ConnStep
<1>2. ASSUME NEW p \in Procs, ProcStep(p)
      PROVE  Rest'
  BY <1>r, <1>2 DEF ProcStep, Crash, BreaksProtocol, StopTaken
<1>3. ASSUME NEW t \in Tickets, TimerStep(t)
      PROVE  Rest'
  BY <1>r, <1>3 DEF TimerStep, TimerDecides, TimerStops, TakeLive, procVars
<1>4. ASSUME Unregister \/ Tick
      PROVE  Rest'
  BY <1>r, <1>4 DEF Unregister, Tick, TakeLive, procVars
<1>5. ASSUME UNCHANGED hostStateVars
      PROVE  Rest'
  BY <1>r, <1>5 DEF hostStateVars, procVars
<1>6. Rest'
  BY <1>1, <1>2, <1>3, <1>4, <1>5 DEF HostNext
<1>7. running' \subseteq Nat \ {0}
  BY RunningType DEF HostKinds
<1>8. QED
  BY <1>t, <1>6, <1>7 DEF HostKinds

LEMMA StartNext == HostKinds /\ StartInv /\ [HostNext]_hostStateVars => StartInv'
<1> SUFFICES ASSUME HostKinds, StartInv, [HostNext]_hostStateVars
             PROVE  StartInv'
  OBVIOUS
<1>t. /\ conn \in [Connects -> ConnStates]
      /\ starting \in Connects \cup {Nobody}
      /\ Nobody \notin Connects
  BY HostAssumption DEF HostKinds
<1> USE DEF StartInv, Starting
<1>1. ASSUME NEW c \in Connects, ConnStep(c)
      PROVE  StartInv'
  <2>1. CASE Connect(c) \/ Reuse(c)
    BY <1>t, <2>1 DEF Connect, Reuse
  <2>2. CASE Look(c)
    BY <1>t, <2>2 DEF Look
  <2>3. CASE Spawn(c) \/ SpawnFails(c)
    BY <1>t, <2>3 DEF Spawn, SpawnFails
  <2>4. CASE Publish(c) \/ HandshakeFails(c)
    BY <1>t, <2>4 DEF Publish, HandshakeFails
  <2>5. CASE Opened(c) \/ OpenFails(c) \/ SessionClosed(c) \/ Kill(c)
    BY <1>t, <2>5 DEF Opened, OpenFails, SessionClosed, Kill
  <2>6. CASE Timeout(c)
    BY <1>t, <2>6 DEF Timeout
  <2>7. QED
    BY <1>1, <2>1, <2>2, <2>3, <2>4, <2>5, <2>6 DEF ConnStep
<1>2. ASSUME NEW p \in Procs, ProcStep(p)
      PROVE  StartInv'
  BY <1>2 DEF ProcStep, Crash, BreaksProtocol, StopTaken
<1>3. ASSUME NEW t \in Tickets, TimerStep(t)
      PROVE  StartInv'
  BY <1>3 DEF TimerStep, TimerDecides, TimerStops, TakeLive
<1>4. CASE Unregister \/ Tick
  BY <1>4 DEF Unregister, Tick, TakeLive
<1>5. CASE UNCHANGED hostStateVars
  BY <1>5 DEF hostStateVars
<1>6. QED
  BY <1>1, <1>2, <1>3, <1>4, <1>5 DEF HostNext

LEMMA StartInit == HostInit => StartInv
BY HostAssumption DEF HostInit, StartInv, Starting

-----------------------------------------------------------------------------
(* Every process that runs can be stopped. *)

LEMMA ProcessKeptNext ==
    HostKinds /\ StartInv /\ EveryProcessKept /\ [HostNext]_hostStateVars => EveryProcessKept'
<1> SUFFICES ASSUME HostKinds, StartInv, EveryProcessKept, [HostNext]_hostStateVars
             PROVE  EveryProcessKept'
  OBVIOUS
<1>t. /\ conn \in [Connects -> ConnStates]
      /\ on \in [Connects -> Nat]
      /\ starting \in Connects \cup {Nobody}
      /\ Nobody \notin Connects
      /\ started \in Nat
      /\ 0 \notin running
  BY HostAssumption DEF HostKinds
<1> USE DEF EveryProcessKept
<1>1. ASSUME NEW c \in Connects, ConnStep(c)
      PROVE  EveryProcessKept'
  <2> USE DEF StartInv, Starting
  <2>1. CASE Connect(c) \/ Reuse(c)
    BY <1>t, <2>1 DEF Connect, Reuse, procVars
  <2>2. CASE Look(c)
    BY <1>t, <2>2 DEF Look
  <2>3. CASE Spawn(c)
    BY <1>t, <2>3 DEF Spawn
  <2>4. CASE SpawnFails(c)
    BY <1>t, <2>4 DEF SpawnFails, procVars
  <2>5. CASE Publish(c)
    BY <1>t, <2>5 DEF Publish, procVars
  <2>6. CASE HandshakeFails(c)
    BY <1>t, <2>6 DEF HandshakeFails
  <2>7. CASE Opened(c) \/ OpenFails(c) \/ SessionClosed(c)
    BY <1>t, <2>7 DEF Opened, OpenFails, SessionClosed, procVars
  <2>8. CASE Kill(c)
    BY <1>t, <2>8 DEF Kill, StopLive
  <2>9. CASE Timeout(c)
    BY <1>t, <2>9 DEF Timeout
  <2>10. QED
    BY <1>1, <2>1, <2>2, <2>3, <2>4, <2>5, <2>6, <2>7, <2>8, <2>9 DEF ConnStep
<1>2. ASSUME NEW p \in Procs, ProcStep(p)
      PROVE  EveryProcessKept'
  BY <1>2 DEF ProcStep, Crash, BreaksProtocol, StopTaken, StopLive
<1>3. ASSUME NEW t \in Tickets, TimerStep(t)
      PROVE  EveryProcessKept'
  <2>1. CASE TimerDecides(t)
    BY <2>1 DEF TimerDecides, procVars
  <2>2. CASE TimerStops(t)
    <3>1. /\ stopping' = IF live # 0 THEN stopping \cup {live} ELSE stopping
          /\ live' = 0
          /\ UNCHANGED <<running, adrift, starting, conn, on>>
      BY <2>2 DEF TimerStops, TakeLive
    <3>2. QED
      BY <3>1
  <2>3. QED
    BY <1>3, <2>1, <2>2 DEF TimerStep
<1>4. CASE Unregister \/ Tick
  BY <1>4 DEF Unregister, Tick, TakeLive, procVars
<1>5. CASE UNCHANGED hostStateVars
  BY <1>5 DEF hostStateVars, procVars
<1>6. QED
  BY <1>1, <1>2, <1>3, <1>4, <1>5 DEF HostNext

\* A plugin's process is live, being started or being stopped for as long as it runs, whatever
\* crashes, fails or is given up on the way.
THEOREM ProcessesKept == HostSpec => []EveryProcessKept
<1>1. HostInit => EveryProcessKept
  BY DEF HostInit, EveryProcessKept
<1>2. QED
  BY <1>1, HostKindsInit, HostKindsNext, StartInit, StartNext, ProcessKeptNext, PTL DEF HostSpec

-----------------------------------------------------------------------------
(* The sessions are counted. *)

Counted == {c \in Connects : conn[c] \in Active \cup {"dropped"}}
CountInv == sessions = Cardinality(Counted)

LEMMA CountedFinite ==
    HostKinds => /\ IsFiniteSet(Counted) /\ Cardinality(Counted) \in Nat
                 /\ (Cardinality(Counted) = 0 <=> Counted = {})
BY HostAssumption, FS_Subset, FS_CardinalityType, FS_EmptySet DEF Counted

LEMMA CountNext == HostKinds /\ CountInv /\ [HostNext]_hostStateVars => CountInv'
<1> SUFFICES ASSUME HostKinds, CountInv, [HostNext]_hostStateVars
             PROVE  CountInv'
  OBVIOUS
<1>t. conn \in [Connects -> ConnStates]
  BY DEF HostKinds
<1>f. IsFiniteSet(Counted) /\ Cardinality(Counted) \in Nat
  BY CountedFinite
<1> USE DEF CountInv
<1>1. ASSUME NEW c \in Connects, Connect(c)
      PROVE  CountInv'
  <2>1. conn[c] = "idle" /\ conn' = [conn EXCEPT ![c] = "counted"] /\ sessions' = sessions + 1
    BY <1>1 DEF Connect
  <2>2. c \notin Counted /\ Counted' = Counted \cup {c}
    BY <1>t, <2>1 DEF Counted, Active, Connecting
  <2>3. Cardinality(Counted') = Cardinality(Counted) + 1
    BY <1>f, <2>2, FS_AddElement
  <2>4. QED
    BY <2>1, <2>3
<1>2. ASSUME NEW c \in Connects, SessionClosed(c)
      PROVE  CountInv'
  <2>1. /\ conn[c] \in {"failing", "open"}
        /\ conn' = [conn EXCEPT ![c] = "closed"]
        /\ sessions' = IF sessions = 0 THEN 0 ELSE sessions - 1
    BY <1>2 DEF SessionClosed
  <2>2. c \in Counted /\ Counted' = Counted \ {c}
    BY <1>t, <2>1 DEF Counted, Active, Connecting
  <2>3. Cardinality(Counted') = Cardinality(Counted) - 1
    BY <1>f, <2>2, FS_RemoveElement
  <2>4. sessions # 0
    BY <2>2, CountedFinite
  <2>5. QED
    BY <2>1, <2>3, <2>4
<1>3. ASSUME NEW c \in Connects, ConnStep(c), ~Connect(c), ~SessionClosed(c)
      PROVE  CountInv'
  <2>1. sessions' = sessions
    BY <1>3 DEF ConnStep, Reuse, Look, Spawn, SpawnFails, Publish, HandshakeFails, Opened, OpenFails,
                Timeout, Kill
  <2>2. \A d \in Connects : conn[d] \in Active \cup {"dropped"}
                              <=> conn'[d] \in Active \cup {"dropped"}
    <3>1. CASE Reuse(c) \/ Look(c)
      BY <1>t, <3>1 DEF Reuse, Look, Active, Connecting
    <3>2. CASE Spawn(c) \/ SpawnFails(c) \/ Publish(c)
      BY <1>t, <3>2 DEF Spawn, SpawnFails, Publish, Active, Connecting
    <3>3. CASE HandshakeFails(c)
      BY <1>t, <3>3 DEF HandshakeFails, Active, Connecting
    <3>4. CASE Opened(c) \/ OpenFails(c) \/ Timeout(c)
      BY <1>t, <3>4 DEF Opened, OpenFails, Timeout, Active, Connecting
    <3>5. CASE Kill(c)
      BY <3>5 DEF Kill
    <3>6. QED
      BY <1>3, <3>1, <3>2, <3>3, <3>4, <3>5 DEF ConnStep
  <2>3. Counted' = Counted
    BY <2>2 DEF Counted
  <2>4. QED
    BY <2>1, <2>3
<1>4. ASSUME UNCHANGED <<sessions, conn>>
      PROVE  CountInv'
  BY <1>4 DEF Counted
<1>5. ASSUME NEW p \in Procs, ProcStep(p)
      PROVE  CountInv'
  BY <1>4, <1>5 DEF ProcStep, Crash, BreaksProtocol, StopTaken
<1>6. ASSUME NEW t \in Tickets, TimerStep(t)
      PROVE  CountInv'
  BY <1>4, <1>6 DEF TimerStep, TimerDecides, TimerStops
<1>7. CASE Unregister \/ Tick
  BY <1>4, <1>7 DEF Unregister, Tick
<1>8. CASE UNCHANGED hostStateVars
  BY <1>4, <1>8 DEF hostStateVars
<1>9. QED
  BY <1>1, <1>2, <1>3, <1>5, <1>6, <1>7, <1>8 DEF HostNext

LEMMA CountInit == HostInit => CountInv
<1> SUFFICES ASSUME HostInit
             PROVE  CountInv
  OBVIOUS
<1>1. Counted = {}
  BY DEF HostInit, Counted, Active, Connecting
<1>2. QED
  BY <1>1, FS_EmptySet DEF HostInit, CountInv

\* The count is of the sessions there are, those being opened and those dropped on the way, in
\* whatever order they come and go.
THEOREM SessionsAreCounted == HostSpec => []SessionsCounted
<1>1. CountInv => SessionsCounted
  BY DEF CountInv, Counted, SessionsCounted
<1>2. QED
  BY <1>1, HostKindsInit, HostKindsNext, CountInit, CountNext, PTL DEF HostSpec

-----------------------------------------------------------------------------
(* An idle timer spares the sessions there are. *)

\* Who is there while a timer has decided came after it looked; what a timer took is not live
\* any more, nor in its handshake.
SpareInv ==
    /\ live <= started
    /\ idled \subseteq 1..started
    /\ live \notin idled
    /\ \A c \in Connects : conn[c] = "handshaking" => on[c] \in 1..started /\ on[c] \notin idled
    /\ (\E t \in Tickets : timers[t] = Decided) =>
           \A c \in Connects : conn[c] \in Active => c \in hasty
    /\ IdleSparesSessions

LEMMA SpareNext ==
    HostKinds /\ StartInv /\ CountInv /\ SpareInv /\ [HostNext]_hostStateVars => SpareInv'
<1> SUFFICES ASSUME HostKinds, StartInv, CountInv, SpareInv, [HostNext]_hostStateVars
             PROVE  SpareInv'
  OBVIOUS
<1>t. /\ conn \in [Connects -> ConnStates]
      /\ on \in [Connects -> Nat]
      /\ live \in Nat /\ started \in Nat
      /\ timers \in [Tickets -> 0..(Idle + 2)]
      /\ Idle \in Nat \ {0}
  BY HostAssumption DEF HostKinds
<1> USE DEF SpareInv, IdleSparesSessions
<1>1. ASSUME NEW c \in Connects, ConnStep(c)
      PROVE  SpareInv'
  <2> USE DEF Active, Connecting
  <2>1. CASE Connect(c)
    BY <1>t, <2>1 DEF Connect, procVars
  <2>2. CASE Reuse(c)
    BY <1>t, <2>2 DEF Reuse, procVars, timeVars
  <2>3. CASE Look(c)
    BY <1>t, <2>3 DEF Look, timeVars
  <2>4. CASE Spawn(c)
    BY <1>t, <2>4 DEF Spawn, timeVars
  <2>5. CASE SpawnFails(c)
    BY <1>t, <2>5 DEF SpawnFails, procVars, timeVars
  <2>6. CASE Publish(c)
    BY <1>t, <2>6 DEF Publish, procVars, timeVars
  <2>7. CASE HandshakeFails(c)
    BY <1>t, <2>7 DEF HandshakeFails, timeVars
  <2>8. CASE Opened(c) \/ OpenFails(c)
    BY <1>t, <2>8 DEF Opened, OpenFails, procVars, timeVars
  <2>9. CASE SessionClosed(c)
    BY <1>t, <2>9 DEF SessionClosed, procVars, Decided
  <2>10. CASE Timeout(c)
    BY <1>t, <2>10 DEF Timeout, timeVars
  <2>11. CASE Kill(c)
    BY <1>t, <2>11 DEF Kill, timeVars
  <2>12. QED
    BY <1>1, <2>1, <2>2, <2>3, <2>4, <2>5, <2>6, <2>7, <2>8, <2>9, <2>10, <2>11 DEF ConnStep
<1>2. ASSUME NEW p \in Procs, ProcStep(p)
      PROVE  SpareInv'
  BY <1>2 DEF ProcStep, Crash, BreaksProtocol, StopTaken, timeVars
<1>3. ASSUME NEW t \in Tickets, TimerDecides(t)
      PROVE  SpareInv'
  <2>1. UNCHANGED <<live, started, idled, conn, on, hasty>>
    BY <1>3 DEF TimerDecides, procVars
  <2>2. CASE sessions = 0
    <3>1. Counted = {}
      BY <2>2, CountedFinite DEF CountInv
    <3>2. \A c \in Connects : conn[c] \notin Active
      BY <3>1 DEF Counted
    <3>3. QED
      BY <2>1, <3>2
  <2>3. CASE sessions # 0
    <3>1. timers' = [timers EXCEPT ![t] = None]
      BY <1>3, <2>3 DEF TimerDecides
    <3>2. \A u \in Tickets : timers'[u] = Decided => timers[u] = Decided
      BY <1>t, <3>1 DEF None, Decided
    <3>3. QED
      BY <2>1, <3>2
  <2>4. QED
    BY <2>2, <2>3
<1>4. ASSUME NEW t \in Tickets, TimerStops(t)
      PROVE  SpareInv'
  <2>1. /\ timers[t] = Decided /\ timers' = [timers EXCEPT ![t] = None]
        /\ live' = 0 /\ idled' = IF live # 0 THEN idled \cup {live} ELSE idled
        /\ UNCHANGED <<started, conn, on, hasty>>
    BY <1>4 DEF TimerStops, TakeLive
  <2>2. \A u \in Tickets : timers'[u] = Decided => timers[u] = Decided
    BY <1>t, <2>1 DEF None, Decided
  <2>3. \A c \in Connects : conn[c] \in Active => c \in hasty
    BY <2>1
  <2>4. \A c \in Connects : conn[c] = "handshaking" => live = 0
    BY HostAssumption DEF StartInv, Starting
  <2>5. idled' \subseteq 1..started /\ 0 \notin idled'
    BY <1>t, <2>1
  <2>6. \A c \in Connects : conn[c] \in {"opening", "open"} => c \in hasty
    BY <2>3 DEF Active, Connecting
  <2>7. QED
    BY <1>t, <2>1, <2>2, <2>3, <2>4, <2>5, <2>6
<1>5. CASE Unregister
  BY <1>t, <1>5 DEF Unregister, TakeLive, timeVars
<1>6. CASE Tick
  <2>1. /\ timers' = [t \in Tickets |-> IF timers[t] \in 1..Idle THEN timers[t] - 1 ELSE timers[t]]
        /\ UNCHANGED <<live, started, idled, conn, on, hasty>>
    BY <1>6 DEF Tick, procVars
  <2>2. \A u \in Tickets : timers'[u] = Decided => timers[u] = Decided
    BY <1>t, <2>1 DEF Decided
  <2>3. QED
    BY <2>1, <2>2
<1>7. CASE UNCHANGED hostStateVars
  BY <1>7 DEF hostStateVars, procVars, timeVars
<1>8. QED
  BY <1>1, <1>2, <1>3, <1>4, <1>5, <1>6, <1>7 DEF HostNext, TimerStep

\* No session, and none that was being opened when the timer looked, is on a process that an
\* idle timer stopped.
THEOREM TimersSpare == HostSpec => []IdleSparesSessions
<1>1. HostInit => SpareInv
  BY HostAssumption DEF HostInit, SpareInv, IdleSparesSessions, Decided, None
<1>2. SpareInv => IdleSparesSessions
  BY DEF SpareInv
<1>3. QED
  BY <1>1, <1>2, HostKindsInit, HostKindsNext, StartInit, StartNext, CountInit, CountNext, SpareNext, PTL
     DEF HostSpec

-----------------------------------------------------------------------------
(* Crashes and their ages. *)

Ages == Seq(0..Window)
Old(s) == {i \in DOMAIN s : s[i] >= Window}
OldestFirst(s) == \A i, j \in 1..Len(s) : i <= j => s[j] <= s[i]

\* `short` is what is left of `long` without some that are old.
TailOf(short, long) ==
    LET d == Len(long) - Len(short) IN
    /\ d >= 0
    /\ \A i \in 1..Len(long) : IF i <= d THEN long[i] >= Window ELSE long[i] = short[i - d]

LEMMA OldIsFirst ==
    ASSUME NEW s \in Ages, OldestFirst(s)
    PROVE  Cardinality(Old(s)) \in 0..Len(s) /\ Old(s) = 1..Cardinality(Old(s))
<1>1. Len(s) \in Nat /\ DOMAIN s = 1..Len(s) /\ \A i \in 1..Len(s) : s[i] \in 0..Window
  BY ElementOfSeq, LenProperties DEF Ages
<1>2. Window \in Nat \ {0}
  BY HostAssumption
<1>3. IsFiniteSet(1..Len(s)) /\ Cardinality(1..Len(s)) = Len(s)
  BY <1>1, FS_Interval
<1>4. Old(s) \in SUBSET 1..Len(s)
  BY <1>1 DEF Old
<1>5. IsFiniteSet(Old(s)) /\ Cardinality(Old(s)) <= Len(s) /\ Cardinality(Old(s)) \in Nat
  BY <1>3, <1>4, FS_Subset, FS_CardinalityType
<1> DEFINE k == Cardinality(Old(s))
<1>6. ASSUME NEW i \in Old(s)
      PROVE  i \in 1..k
  <2>1. i \in 1..Len(s) /\ s[i] >= Window
    BY <1>1 DEF Old
  <2>2. 1..i \in SUBSET Old(s)
    BY <1>1, <1>2, <2>1 DEF Old, OldestFirst
  <2>3. Cardinality(1..i) = i
    BY <1>1, <2>1, FS_Interval
  <2>4. Cardinality(1..i) <= Cardinality(Old(s))
    BY <1>5, <2>2, FS_Subset
  <2>5. QED
    BY <1>1, <1>5, <2>1, <2>3, <2>4
<1>7. IsFiniteSet(1..k) /\ Cardinality(1..k) = k
  BY <1>5, FS_Interval
<1>8. Old(s) \in SUBSET 1..k
  BY <1>6
<1>9. 1..k = Old(s)
  BY <1>7, <1>8, FS_Subset
<1>10. QED
  BY <1>1, <1>5, <1>9

LEMMA RecentIs ==
    ASSUME NEW s \in Ages, OldestFirst(s)
    PROVE  /\ Recent(s) \in Ages /\ OldestFirst(Recent(s))
           /\ Len(Recent(s)) = Len(s) - Cardinality(Old(s))
           /\ TailOf(Recent(s), s)
<1> DEFINE k == Cardinality(Old(s))
<1>1. Len(s) \in Nat /\ k \in 0..Len(s) /\ Old(s) = 1..k /\ DOMAIN s = 1..Len(s)
  BY OldIsFirst DEF Ages
<1>2. Recent(s) = SubSeq(s, k + 1, Len(s))
  BY DEF Recent, Old
<1> HIDE DEF k
<1>3. /\ Recent(s) \in Seq(0..Window) /\ Len(Recent(s)) = Len(s) - k
      /\ \A i \in 1..(Len(s) - k) : Recent(s)[i] = s[i + k]
  <2>1. /\ k + 1 \in Int /\ Len(s) \in Int
        /\ \A i \in (k + 1)..Len(s) : s[i] \in 0..Window
    <3>1. \A i \in 1..Len(s) : s[i] \in 0..Window
      BY ElementOfSeq DEF Ages
    <3>2. k \in Nat /\ Len(s) \in Nat
      BY <1>1
    <3>3. QED
      BY <3>1, <3>2
  <2> DEFINE n == k + 1
             l == Len(s)
  <2>2. n \in Int /\ l \in Int /\ \A i \in n..l : s[i] \in 0..Window
    BY <2>1
  <2> HIDE DEF n, l
  <2>3. /\ SubSeq(s, n, l) \in Seq(0..Window)
        /\ Len(SubSeq(s, n, l)) = IF n <= l THEN l - n + 1 ELSE 0
        /\ \A i \in 1..(l - n + 1) : SubSeq(s, n, l)[i] = s[n + i - 1]
    BY <2>2, SubSeqProperties
  <2> DEFINE rec == SubSeq(s, n, l)
  <2>4. Recent(s) = rec
    BY <1>2 DEF n, l
  <2> HIDE DEF rec
  <2>5. /\ rec \in Seq(0..Window) /\ Len(rec) = Len(s) - k
        /\ \A i \in 1..(Len(s) - k) : rec[i] = s[i + k]
    <3>0. rec \in Seq(0..Window)
      BY <2>3 DEF rec
    <3>1. Len(rec) = l - k
      <4>1. Len(rec) = IF n <= l THEN l - n + 1 ELSE 0
        BY <2>3 DEF rec
      <4>2. k \in Nat /\ l \in Nat /\ k <= l /\ n = k + 1
        BY <1>1 DEF n, l
      <4> HIDE DEF rec, n, l
      <4>3. QED
        BY <4>1, <4>2
    <3>2. ASSUME NEW i \in 1..(Len(s) - k)
          PROVE  rec[i] = s[i + k]
      <4>1. i \in 1..(l - n + 1) /\ n + i - 1 = i + k
        BY <1>1 DEF n, l
      <4>2. QED
        BY <2>3, <4>1 DEF rec
    <3>3. QED
      BY <3>0, <3>1, <3>2 DEF l
  <2>6. QED
    BY <2>4, <2>5
<1>4. OldestFirst(Recent(s))
  BY <1>1, <1>3 DEF OldestFirst
<1>5. TailOf(Recent(s), s)
  BY <1>1, <1>3 DEF TailOf, Old
<1>6. QED
  BY <1>3, <1>4, <1>5 DEF Ages, k

\* Both have the same young ones.
LEMMA TailRecent ==
    ASSUME NEW s \in Ages, NEW t \in Ages, OldestFirst(s), OldestFirst(t), TailOf(s, t)
    PROVE  Len(Recent(s)) = Len(Recent(t))
<1> DEFINE d == Len(t) - Len(s)
           k == Cardinality(Old(s))
           m == Cardinality(Old(t))
<1>1. /\ Len(s) \in Nat /\ Len(t) \in Nat /\ DOMAIN s = 1..Len(s) /\ DOMAIN t = 1..Len(t)
      /\ k \in 0..Len(s) /\ m \in 0..Len(t) /\ Old(s) = 1..k /\ Old(t) = 1..m
  BY OldIsFirst DEF Ages
<1> HIDE DEF k, m
<1>2. d \in Nat /\ \A i \in 1..Len(t) : IF i <= d THEN t[i] >= Window ELSE t[i] = s[i - d]
  BY <1>1 DEF TailOf
<1>3. \A i \in 1..Len(t) : i <= m <=> t[i] >= Window
  BY <1>1 DEF Old
<1>4. \A i \in 1..Len(s) : i <= k <=> s[i] >= Window
  BY <1>1 DEF Old
<1>d. d <= Len(t) /\ Len(t) = Len(s) + d
  BY <1>1, <1>2
<1>5. m >= d
  <2>1. d = 0 \/ d \in 1..Len(t)
    <3>1. d \in Nat /\ d <= Len(t) /\ Len(t) \in Nat
      BY <1>1, <1>2, <1>d
    <3> HIDE DEF d
    <3>2. QED
      BY <3>1
  <2>2. d \in 1..Len(t) => t[d] >= Window
    BY <1>2, <2>1
  <2> HIDE DEF d
  <2>3. QED
    BY <1>1, <1>3, <2>1, <2>2
<1>6. ASSUME NEW i \in 1..Len(s)
      PROVE  i + d <= m <=> i <= k
  <2>1. i + d \in 1..Len(t) /\ ~(i + d <= d) /\ i + d - d = i
    BY <1>1, <1>2, <1>d
  <2>2. t[i + d] = s[i]
    BY <1>2, <2>1
  <2> HIDE DEF d
  <2>3. QED
    BY <1>3, <1>4, <2>1, <2>2
<1>7. m = k + d
  <2>1. CASE m - d > k
    BY <1>1, <1>2, <1>5, <1>6, <2>1
  <2>2. CASE m - d < k
    BY <1>1, <1>2, <1>5, <1>6, <2>2
  <2>3. QED
    BY <1>1, <1>2, <2>1, <2>2
<1>8. QED
  BY <1>1, <1>7, RecentIs DEF k, m

LEMMA AppendAge ==
    ASSUME NEW s \in Ages, OldestFirst(s)
    PROVE  /\ Append(s, 0) \in Ages /\ OldestFirst(Append(s, 0))
           /\ Len(Recent(Append(s, 0))) = Len(Recent(s)) + 1
           /\ \A t \in Ages : TailOf(t, s) => TailOf(Append(t, 0), Append(s, 0))
<1>1. /\ Len(s) \in Nat /\ DOMAIN s = 1..Len(s) /\ \A i \in 1..Len(s) : s[i] \in 0..Window
      /\ Window \in Nat \ {0}
  BY HostAssumption DEF Ages
<1> DEFINE a == Append(s, 0)
<1>2. /\ a \in Seq(0..Window) /\ Len(a) = Len(s) + 1 /\ a[Len(s) + 1] = 0
      /\ DOMAIN a = 1..(Len(s) + 1)
      /\ \A i \in 1..Len(s) : a[i] = s[i]
  BY <1>1 DEF Ages
<1>3. OldestFirst(a)
  BY <1>1, <1>2 DEF OldestFirst
<1>4. Old(a) = Old(s)
  BY <1>1, <1>2 DEF Old
<1>5. ASSUME NEW t \in Ages, TailOf(t, s)
      PROVE  TailOf(Append(t, 0), a)
  <2>1. /\ Len(t) \in Nat /\ Len(Append(t, 0)) = Len(t) + 1 /\ Append(t, 0)[Len(t) + 1] = 0
        /\ \A i \in 1..Len(t) : Append(t, 0)[i] = t[i]
    BY <1>1 DEF Ages
  <2> DEFINE d == Len(s) - Len(t)
             b == Append(t, 0)
  <2>2. d \in Nat /\ \A i \in 1..Len(s) : IF i <= d THEN s[i] >= Window ELSE s[i] = t[i - d]
    BY <1>1, <1>5, <2>1 DEF TailOf
  <2>3. Len(a) - Len(b) = d
    BY <1>1, <1>2, <2>1
  <2> HIDE DEF a
  <2>4. ASSUME NEW i \in 1..Len(a)
        PROVE  IF i <= d THEN a[i] >= Window ELSE a[i] = b[i - d]
    <3>1. CASE i = Len(s) + 1
      <4>1. ~(i <= d) /\ i - d = Len(t) + 1
        BY <1>1, <2>1, <3>1
      <4>2. a[i] = 0 /\ b[i - d] = 0
        BY <1>2, <2>1, <3>1, <4>1
      <4>3. QED
        BY <4>1, <4>2
    <3>2. CASE i # Len(s) + 1
      <4>1. i \in 1..Len(s) /\ a[i] = s[i]
        BY <1>1, <1>2, <3>2
      <4>2. ~(i <= d) => i - d \in 1..Len(t) /\ b[i - d] = t[i - d]
        BY <1>1, <2>1, <4>1
      <4>3. QED
        BY <2>2, <4>1, <4>2
    <3>3. QED
      BY <3>1, <3>2
  <2>5. Len(a) - Len(b) >= 0
    BY <2>2, <2>3
  <2>6. \A i \in 1..Len(a) : IF i <= Len(a) - Len(b) THEN a[i] >= Window ELSE a[i] = b[i - (Len(a) - Len(b))]
    BY <2>3, <2>4
  <2>7. QED
    BY <2>5, <2>6 DEF TailOf
<1> HIDE DEF a
<1>6. Len(Recent(a)) = Len(a) - Cardinality(Old(a)) /\ Len(Recent(s)) = Len(s) - Cardinality(Old(s))
  BY <1>2, <1>3, RecentIs DEF Ages
<1>7. Cardinality(Old(s)) \in Nat
  BY OldIsFirst, <1>1
<1>8. Len(Recent(a)) = Len(Recent(s)) + 1
  BY <1>1, <1>2, <1>4, <1>6, <1>7
<1>9. QED
  BY <1>2, <1>3, <1>5, <1>8 DEF a, Ages

LEMMA OlderAge ==
    ASSUME NEW s \in Ages, OldestFirst(s)
    PROVE  /\ Older(s) \in Ages /\ OldestFirst(Older(s))
           /\ Len(Recent(Older(s))) <= Len(Recent(s))
           /\ \A t \in Ages : TailOf(t, s) => TailOf(Older(t), Older(s))
<1>1. /\ Len(s) \in Nat /\ DOMAIN s = 1..Len(s) /\ \A i \in 1..Len(s) : s[i] \in 0..Window
      /\ Window \in Nat \ {0}
  BY HostAssumption DEF Ages
<1>2. ASSUME NEW t \in Ages
      PROVE  /\ Older(t) \in Ages /\ Len(Older(t)) = Len(t) /\ Len(t) \in Nat
             /\ \A i \in 1..Len(t) :
                   t[i] \in 0..Window /\ Older(t)[i] = IF t[i] < Window THEN t[i] + 1 ELSE Window
  <2>1. Len(t) \in Nat /\ DOMAIN t = 1..Len(t) /\ \A i \in 1..Len(t) : t[i] \in 0..Window
    BY ElementOfSeq, LenProperties DEF Ages
  <2>2. Older(t) \in [1..Len(t) -> 0..Window]
    BY <1>1, <2>1 DEF Older
  <2>3. QED
    BY <1>1, <2>1, <2>2 DEF Older, Ages
<1>3. OldestFirst(Older(s))
  BY <1>1, <1>2 DEF OldestFirst
<1>4. ASSUME NEW t \in Ages, TailOf(t, s)
      PROVE  TailOf(Older(t), Older(s))
  <2> DEFINE d == Len(s) - Len(t)
  <2>1. d \in Nat /\ \A i \in 1..Len(s) : IF i <= d THEN s[i] >= Window ELSE s[i] = t[i - d]
    BY <1>1, <1>2, <1>4 DEF TailOf
  <2>2. Len(Older(s)) - Len(Older(t)) = d /\ Len(Older(s)) = Len(s)
    BY <1>2
  <2>3. ASSUME NEW i \in 1..Len(s)
        PROVE  IF i <= d THEN Older(s)[i] >= Window ELSE Older(s)[i] = Older(t)[i - d]
    <3>1. ~(i <= d) => i - d \in 1..Len(t)
      BY <1>1, <1>2, <2>1
    <3> HIDE DEF d
    <3>2. Older(s)[i] = IF s[i] < Window THEN s[i] + 1 ELSE Window
      BY <1>2, <2>3
    <3>3. CASE i <= d
      BY <1>1, <2>1, <2>3, <3>2, <3>3
    <3>4. CASE ~(i <= d)
      <4>1. Older(t)[i - d] = IF t[i - d] < Window THEN t[i - d] + 1 ELSE Window
        BY <1>2, <3>1, <3>4
      <4>2. s[i] = t[i - d]
        BY <2>1, <2>3, <3>4
      <4>3. QED
        BY <3>2, <3>4, <4>1, <4>2
    <3>5. QED
      BY <3>3, <3>4
  <2>4. QED
    BY <2>1, <2>2, <2>3 DEF TailOf
<1>5. Len(Recent(Older(s))) = Len(s) - Cardinality(Old(Older(s)))
  BY <1>2, <1>3, RecentIs
<1>6. Len(Recent(s)) = Len(s) - Cardinality(Old(s))
  BY RecentIs
<1>7. Old(s) \subseteq Old(Older(s))
  BY <1>1, <1>2 DEF Old, Ages
<1>8. /\ Cardinality(Old(s)) \in 0..Len(s) /\ Old(s) = 1..Cardinality(Old(s))
      /\ Cardinality(Old(Older(s))) \in 0..Len(s) /\ Old(Older(s)) = 1..Cardinality(Old(Older(s)))
  BY <1>2, <1>3, OldIsFirst
<1>9. Cardinality(Old(s)) <= Cardinality(Old(Older(s)))
  <2> DEFINE k == Cardinality(Old(s))
             m == Cardinality(Old(Older(s)))
  <2>1. 1..k \subseteq 1..m
    BY <1>7, <1>8
  <2>0. k \in Nat /\ m \in Nat
    BY <1>1, <1>8
  <2> HIDE DEF k, m
  <2>2. k <= m
    BY <2>0, <2>1
  <2>3. QED
    BY <2>2 DEF k, m
<1>10. QED
  BY <1>1, <1>2, <1>3, <1>4, <1>5, <1>6, <1>8, <1>9

-----------------------------------------------------------------------------
(* The budget. *)

\* What is counted is what failed, but for what is old; a start is only tried, and a process
\* only live, while there is one failure more to spend.
BudgetInv ==
    /\ crashes \in Ages /\ failed \in Ages /\ OldestFirst(crashes) /\ OldestFirst(failed)
    /\ TailOf(crashes, failed)
    /\ Len(Recent(failed)) <= Restarts + 1
    /\ starting # Nobody \/ live # 0 => Len(Recent(failed)) <= Restarts

LEMMA TailOfTail ==
    ASSUME NEW s \in Ages, NEW t \in Ages, NEW u \in Ages, TailOf(s, t), TailOf(t, u)
    PROVE  TailOf(s, u)
<1>1. Len(s) \in Nat /\ Len(t) \in Nat /\ Len(u) \in Nat
  BY DEF Ages
<1> DEFINE d == Len(t) - Len(s)
           e == Len(u) - Len(t)
<1>2. d \in Nat /\ \A i \in 1..Len(t) : IF i <= d THEN t[i] >= Window ELSE t[i] = s[i - d]
  BY <1>1 DEF TailOf
<1>3. e \in Nat /\ \A i \in 1..Len(u) : IF i <= e THEN u[i] >= Window ELSE u[i] = t[i - e]
  BY <1>1 DEF TailOf
<1>4. Len(u) - Len(s) = d + e /\ Len(u) = Len(t) + e
  BY <1>1
<1> HIDE DEF d, e
<1>5. ASSUME NEW i \in 1..Len(u)
      PROVE  IF i <= d + e THEN u[i] >= Window ELSE u[i] = s[i - (d + e)]
  <2>1. CASE i <= e
    BY <1>2, <1>3, <1>5, <2>1
  <2>2. CASE ~(i <= e)
    <3>1. i - e \in 1..Len(t) /\ u[i] = t[i - e]
      BY <1>1, <1>3, <1>4, <1>5, <2>2
    <3>2. IF i - e <= d THEN t[i - e] >= Window ELSE t[i - e] = s[i - e - d]
      BY <1>2, <3>1
    <3>3. (i - e <= d <=> i <= d + e) /\ i - e - d = i - (d + e)
      BY <1>2, <1>3, <1>5
    <3>4. QED
      BY <3>1, <3>2, <3>3
  <2>3. QED
    BY <2>1, <2>2
<1>6. QED
  BY <1>2, <1>3, <1>4, <1>5 DEF TailOf

LEMMA BudgetNext ==
    HostKinds /\ StartInv /\ BudgetInv /\ [HostNext]_hostStateVars => BudgetInv'
<1> SUFFICES ASSUME HostKinds, StartInv, BudgetInv, [HostNext]_hostStateVars
             PROVE  BudgetInv'
  OBVIOUS
<1>t. /\ conn \in [Connects -> ConnStates]
      /\ on \in [Connects -> Nat]
      /\ starting \in Connects \cup {Nobody}
      /\ Nobody \notin Connects
      /\ Restarts \in Nat
  BY HostAssumption DEF HostKinds
<1>b. /\ crashes \in Ages /\ failed \in Ages /\ OldestFirst(crashes) /\ OldestFirst(failed)
      /\ TailOf(crashes, failed)
      /\ Len(Recent(failed)) <= Restarts + 1
      /\ starting # Nobody \/ live # 0 => Len(Recent(failed)) <= Restarts
  BY DEF BudgetInv
<1>n. Len(Recent(failed)) \in Nat
  <2>1. Recent(failed) \in Ages
    BY <1>b, RecentIs
  <2>2. QED
    BY <2>1, LenProperties DEF Ages
<1>1. ASSUME UNCHANGED budgetVars,
             starting' # Nobody \/ live' # 0 => starting # Nobody \/ live # 0
      PROVE  BudgetInv'
  BY <1>1, <1>b DEF BudgetInv, budgetVars
<1>2. ASSUME NEW c \in Connects, Look(c)
      PROVE  BudgetInv'
  <2> DEFINE crashed == live # 0 /\ live \notin stopped
             now == IF crashed THEN Append(crashes, 0) ELSE crashes
             fails == IF crashed THEN Append(failed, 0) ELSE failed
  <2>1. /\ now \in Ages /\ fails \in Ages /\ OldestFirst(now) /\ OldestFirst(fails)
        /\ TailOf(now, fails)
        /\ Len(Recent(fails)) = Len(Recent(failed)) + (IF crashed THEN 1 ELSE 0)
    BY <1>b, <1>n, AppendAge
  <2>2. /\ crashes' = Recent(now) /\ failed' = fails /\ live' = 0
        /\ starting' # Nobody => ~Spent(Recent(now))
    BY <1>2, <1>t DEF Look
  <2> HIDE DEF now, fails, crashed
  <2>3. Recent(now) \in Ages /\ OldestFirst(Recent(now)) /\ TailOf(Recent(now), fails)
    <3>1. Recent(now) \in Ages /\ OldestFirst(Recent(now)) /\ TailOf(Recent(now), now)
      BY <2>1, RecentIs
    <3>2. QED
      BY <2>1, <3>1, TailOfTail
  <2>4. Len(Recent(now)) = Len(Recent(fails))
    BY <2>1, TailRecent
  <2>5. Len(Recent(fails)) <= Restarts + 1
    BY <1>b, <1>n, <1>t, <2>1 DEF crashed
  <2>6. starting' # Nobody => Len(Recent(fails)) <= Restarts
    <3>1. Recent(fails) \in Ages
      BY <2>1, RecentIs
    <3>2. Len(Recent(fails)) \in Nat
      BY <3>1, LenProperties DEF Ages
    <3>3. QED
      BY <1>t, <2>2, <2>4, <3>2 DEF Spent
  <2>7. QED
    BY <2>1, <2>2, <2>3, <2>5, <2>6 DEF BudgetInv
<1>3. ASSUME NEW c \in Connects, HandshakeFails(c)
      PROVE  BudgetInv'
  <2>1. starting = c /\ starting # Nobody /\ live = 0
    BY <1>3, <1>t DEF HandshakeFails, StartInv, Starting
  <2>2. /\ crashes' = Append(crashes, 0) /\ failed' = Append(failed, 0)
        /\ starting' = Nobody /\ live' = 0
    BY <1>3, <2>1 DEF HandshakeFails
  <2>3. /\ crashes' \in Ages /\ failed' \in Ages /\ OldestFirst(crashes') /\ OldestFirst(failed')
        /\ TailOf(crashes', failed')
        /\ Len(Recent(failed')) = Len(Recent(failed)) + 1
    BY <1>b, <2>2, AppendAge
  <2>4. Len(Recent(failed')) <= Restarts + 1
    BY <1>b, <1>n, <1>t, <2>1, <2>3
  <2>5. QED
    BY <2>2, <2>3, <2>4 DEF BudgetInv
<1>4. ASSUME NEW c \in Connects, ConnStep(c), ~Look(c), ~HandshakeFails(c)
      PROVE  BudgetInv'
  <2>1. UNCHANGED budgetVars
    BY <1>4 DEF ConnStep, Connect, Reuse, Spawn, SpawnFails, Publish, Opened, OpenFails,
                SessionClosed, Timeout, Kill
  <2>2. CASE Publish(c)
    <3>1. starting = c /\ starting # Nobody
      BY <1>t, <2>2 DEF Publish, StartInv, Starting
    <3>2. QED
      BY <1>1, <2>1, <3>1
  <2>3. CASE ~Publish(c)
    <3>1. live' = live /\ (starting' # Nobody => starting # Nobody)
      BY <1>4, <2>3 DEF ConnStep, Connect, Reuse, Spawn, SpawnFails, Opened, OpenFails,
                        SessionClosed, Timeout, Kill
    <3>2. QED
      BY <1>1, <2>1, <3>1
  <2>4. QED
    BY <2>2, <2>3
<1>5. ASSUME NEW p \in Procs, ProcStep(p)
      PROVE  BudgetInv'
  BY <1>1, <1>5 DEF ProcStep, Crash, BreaksProtocol, StopTaken
<1>6. ASSUME NEW t \in Tickets, TimerStep(t)
      PROVE  BudgetInv'
  BY <1>1, <1>6 DEF TimerStep, TimerDecides, TimerStops, TakeLive
<1>7. CASE Unregister
  BY <1>1, <1>7 DEF Unregister, TakeLive
<1>8. CASE Tick
  <2>1. /\ crashes' = Older(crashes) /\ failed' = Older(failed) /\ UNCHANGED <<live, starting>>
    BY <1>8 DEF Tick
  <2>2. /\ crashes' \in Ages /\ failed' \in Ages /\ OldestFirst(crashes') /\ OldestFirst(failed')
        /\ TailOf(crashes', failed')
        /\ Len(Recent(failed')) <= Len(Recent(failed))
    BY <1>b, <2>1, OlderAge
  <2>3. Len(Recent(failed')) \in Nat
    <3>1. Recent(failed') \in Ages
      BY <2>2, RecentIs
    <3>2. QED
      BY <3>1, LenProperties DEF Ages
  <2>4. QED
    BY <1>b, <1>n, <1>t, <2>1, <2>2, <2>3 DEF BudgetInv
<1>9. CASE UNCHANGED hostStateVars
  BY <1>1, <1>9 DEF hostStateVars, budgetVars
<1>10. QED
  BY <1>2, <1>3, <1>4, <1>5, <1>6, <1>7, <1>8, <1>9 DEF HostNext

LEMMA BudgetInit == HostInit => BudgetInv
<1> SUFFICES ASSUME HostInit
             PROVE  BudgetInv
  OBVIOUS
<1>1. /\ crashes = <<>> /\ failed = <<>> /\ starting = Nobody /\ live = 0
      /\ <<>> \in Ages /\ OldestFirst(<<>>) /\ TailOf(<<>>, <<>>)
  BY DEF HostInit, Ages, OldestFirst, TailOf
<1>2. Len(Recent(<<>>)) <= Restarts + 1
  <2>1. Cardinality(Old(<<>>)) \in 0..Len(<<>>)
    BY <1>1, OldIsFirst
  <2>2. Len(Recent(<<>>)) = Len(<<>>) - Cardinality(Old(<<>>))
    BY <1>1, RecentIs
  <2>3. QED
    BY <2>1, <2>2, HostAssumption
<1>3. QED
  BY <1>1, <1>2 DEF BudgetInv

\* However connections race, processes crash or fail their handshake and timers stop them, at
\* most the first start and RESTARTS more fail within a minute.
THEOREM StartsBounded == HostSpec => []FailedStartsBounded
<1>1. BudgetInv => FailedStartsBounded
  BY DEF BudgetInv, FailedStartsBounded
<1>2. QED
  BY <1>1, HostKindsInit, HostKindsNext, StartInit, StartNext, BudgetInit, BudgetNext, PTL DEF HostSpec

-----------------------------------------------------------------------------
(* Types. *)

\* Whoever has a process has one that was started.
ProcsInv ==
    /\ started \in 0..MaxProcs
    /\ live \in 0..started
    /\ on \in [Connects -> 0..started]
    /\ \A c \in Connects : conn[c] \in {"handshaking", "opening", "open"} => on[c] # 0
    /\ running \subseteq 1..started /\ over \subseteq 1..started /\ stopped \subseteq over
    /\ stopping \subseteq 1..started /\ idled \subseteq 1..started /\ adrift \subseteq 1..started
    /\ removed \in BOOLEAN /\ hasty \subseteq Connects

LEMMA ProcsNext == HostKinds /\ ProcsInv /\ [HostNext]_hostStateVars => ProcsInv'
<1> SUFFICES ASSUME HostKinds, ProcsInv, [HostNext]_hostStateVars
             PROVE  ProcsInv'
  OBVIOUS
<1>t. conn \in [Connects -> ConnStates] /\ MaxProcs \in Nat \ {0} /\ started \in Nat
  BY HostAssumption DEF HostKinds
<1>o. \A c \in Connects :
         conn[c] \in {"handshaking", "opening", "open"} => on[c] \in 1..started
  <2>1. \A n \in 0..started : n # 0 => n \in 1..started
    BY <1>t
  <2>2. QED
    BY <2>1 DEF ProcsInv
<1> USE DEF ProcsInv
<1>1. ASSUME NEW c \in Connects, ConnStep(c)
      PROVE  ProcsInv'
  <2>1. CASE Connect(c)
    BY <1>t, <2>1 DEF Connect, procVars
  <2>2. CASE Reuse(c)
    BY <1>t, <2>2 DEF Reuse, procVars, timeVars
  <2>3. CASE Look(c)
    BY <1>t, <2>3 DEF Look, timeVars
  <2>4. CASE Spawn(c)
    <3>1. /\ started' = started + 1 /\ running' = running \cup {started'}
          /\ on' = [on EXCEPT ![c] = started'] /\ started' \in 0..MaxProcs
          /\ conn' = [conn EXCEPT ![c] = "handshaking"]
          /\ UNCHANGED <<live, over, stopped, stopping, adrift, timeVars, removed>>
      BY <1>t, <2>4 DEF Spawn
    <3>2. 0..started \subseteq 0..started' /\ 1..started \subseteq 1..started' /\ started' \in 1..started'
      BY <1>t, <3>1
    <3>3. on' \in [Connects -> 0..started']
      BY <1>t, <3>1, <3>2
    <3>4. \A d \in Connects : conn'[d] \in {"handshaking", "opening", "open"} => on'[d] # 0
      BY <1>t, <3>1, <3>2
    <3>5. QED
      BY <3>1, <3>2, <3>3, <3>4 DEF timeVars
  <2>5. CASE SpawnFails(c)
    BY <1>t, <2>5 DEF SpawnFails, procVars, timeVars
  <2>6. CASE Publish(c)
    BY <1>t, <2>6 DEF Publish, procVars, timeVars
  <2>7. CASE HandshakeFails(c)
    <3>1. /\ conn[c] = "handshaking" /\ conn' = [conn EXCEPT ![c] = "failing"]
          /\ stopped' = stopped \cup {on[c]} /\ over' = over \cup {on[c]}
          /\ running' = running \ {on[c]}
          /\ UNCHANGED <<live, on, started, stopping, adrift, timeVars, removed>>
      BY <2>7 DEF HandshakeFails
    <3>2. on[c] \in 1..started
      BY <1>t, <1>o, <3>1
    <3>3. \A d \in Connects : conn'[d] \in {"handshaking", "opening", "open"} => on'[d] # 0
      BY <1>t, <3>1
    <3>4. QED
      BY <3>1, <3>2, <3>3 DEF timeVars
  <2>8. CASE Opened(c) \/ OpenFails(c)
    BY <1>t, <2>8 DEF Opened, OpenFails, procVars, timeVars
  <2>9. CASE SessionClosed(c)
    BY <1>t, <2>9 DEF SessionClosed, procVars
  <2>10. CASE Timeout(c)
    <3>1. /\ conn' = [conn EXCEPT ![c] = "dropped"]
          /\ adrift' = IF conn[c] = "handshaking" THEN adrift \cup {on[c]} ELSE adrift
          /\ UNCHANGED <<live, on, started, running, over, stopped, stopping, timeVars, removed>>
      BY <2>10 DEF Timeout
    <3>2. conn[c] = "handshaking" => on[c] \in 1..started
      BY <1>t, <1>o
    <3>3. \A d \in Connects : conn'[d] \in {"handshaking", "opening", "open"} => on'[d] # 0
      BY <1>t, <3>1
    <3>4. QED
      BY <3>1, <3>2, <3>3 DEF timeVars
  <2>11. CASE Kill(c)
    <3>1. /\ conn[c] = "open"
          /\ stopped' = stopped \cup {on[c]} /\ over' = over \cup {on[c]}
          /\ running' = running \ {on[c]}
          /\ UNCHANGED <<live, conn, on, started, stopping, adrift, timeVars, removed>>
      BY <2>11 DEF Kill, StopLive
    <3>2. on[c] \in 1..started
      BY <1>t, <1>o, <3>1
    <3>3. QED
      BY <3>1, <3>2 DEF timeVars
  <2>12. QED
    BY <1>1, <2>1, <2>2, <2>3, <2>4, <2>5, <2>6, <2>7, <2>8, <2>9, <2>10, <2>11 DEF ConnStep
<1>2. ASSUME NEW p \in Procs, ProcStep(p)
      PROVE  ProcsInv'
  BY <1>t, <1>2 DEF ProcStep, Crash, BreaksProtocol, StopTaken, StopLive, timeVars
<1>3. ASSUME NEW t \in Tickets, TimerDecides(t)
      PROVE  ProcsInv'
  BY <1>3 DEF TimerDecides, procVars
<1>4. ASSUME NEW t \in Tickets, TimerStops(t)
      PROVE  ProcsInv'
  BY <1>t, <1>4 DEF TimerStops, TakeLive
<1>5. CASE Unregister
  BY <1>t, <1>5 DEF Unregister, TakeLive, timeVars
<1>6. CASE Tick
  BY <1>6 DEF Tick, procVars
<1>7. CASE UNCHANGED hostStateVars
  BY <1>7 DEF hostStateVars, procVars, timeVars
<1>8. QED
  BY <1>1, <1>2, <1>3, <1>4, <1>5, <1>6, <1>7 DEF HostNext, TimerStep

\* A connection takes a ticket as it begins and one as it is closed.
Begun == {c \in Connects : conn[c] # "idle"}
Closed == {c \in Connects : conn[c] = "closed"}
TicketInv == ticket = Cardinality(Begun) + Cardinality(Closed)

LEMMA TicketNext == HostKinds /\ TicketInv /\ [HostNext]_hostStateVars => TicketInv'
<1> SUFFICES ASSUME HostKinds, TicketInv, [HostNext]_hostStateVars
             PROVE  TicketInv'
  OBVIOUS
<1>t. conn \in [Connects -> ConnStates]
  BY DEF HostKinds
<1>f. /\ IsFiniteSet(Begun) /\ IsFiniteSet(Closed)
      /\ Cardinality(Begun) \in Nat /\ Cardinality(Closed) \in Nat
  <2>1. Begun \in SUBSET Connects /\ Closed \in SUBSET Connects
    BY DEF Begun, Closed
  <2>2. IsFiniteSet(Begun) /\ IsFiniteSet(Closed)
    BY <2>1, HostAssumption, FS_Subset
  <2>3. QED
    BY <2>2, FS_CardinalityType
<1>1. ASSUME NEW c \in Connects, Connect(c)
      PROVE  TicketInv'
  <2>1. conn[c] = "idle" /\ conn' = [conn EXCEPT ![c] = "counted"] /\ ticket' = ticket + 1
    BY <1>1 DEF Connect
  <2>2. c \notin Begun /\ Begun' = Begun \cup {c} /\ Closed' = Closed
    BY <1>t, <2>1 DEF Begun, Closed
  <2>3. Cardinality(Begun') = Cardinality(Begun) + 1
    BY <1>f, <2>2, FS_AddElement
  <2>4. QED
    BY <1>f, <2>1, <2>2, <2>3 DEF TicketInv
<1>2. ASSUME NEW c \in Connects, SessionClosed(c)
      PROVE  TicketInv'
  <2>1. /\ conn[c] \in {"failing", "open"} /\ conn' = [conn EXCEPT ![c] = "closed"]
        /\ ticket' = ticket + 1
    BY <1>2 DEF SessionClosed
  <2>2. c \notin Closed /\ Closed' = Closed \cup {c} /\ Begun' = Begun
    BY <1>t, <2>1 DEF Begun, Closed
  <2>3. Cardinality(Closed') = Cardinality(Closed) + 1
    BY <1>f, <2>2, FS_AddElement
  <2>4. QED
    BY <1>f, <2>1, <2>2, <2>3 DEF TicketInv
<1>3. ASSUME NEW c \in Connects, ConnStep(c), ~Connect(c), ~SessionClosed(c)
      PROVE  TicketInv'
  <2>1. ticket' = ticket
    BY <1>3 DEF ConnStep, Reuse, Look, Spawn, SpawnFails, Publish, HandshakeFails, Opened, OpenFails,
                Timeout, Kill
  <2>2. \A d \in Connects : (conn[d] = "idle" <=> conn'[d] = "idle")
                              /\ (conn[d] = "closed" <=> conn'[d] = "closed")
    <3>1. CASE Reuse(c) \/ Look(c)
      BY <1>t, <3>1 DEF Reuse, Look
    <3>2. CASE Spawn(c) \/ SpawnFails(c) \/ Publish(c)
      BY <1>t, <3>2 DEF Spawn, SpawnFails, Publish
    <3>3. CASE HandshakeFails(c)
      BY <1>t, <3>3 DEF HandshakeFails
    <3>4. CASE Opened(c) \/ OpenFails(c) \/ Timeout(c)
      BY <1>t, <3>4 DEF Opened, OpenFails, Timeout, Connecting
    <3>5. CASE Kill(c)
      BY <3>5 DEF Kill
    <3>6. QED
      BY <1>3, <3>1, <3>2, <3>3, <3>4, <3>5 DEF ConnStep
  <2>3. Begun' = Begun /\ Closed' = Closed
    BY <2>2 DEF Begun, Closed
  <2>4. QED
    BY <2>1, <2>3 DEF TicketInv
<1>4. ASSUME UNCHANGED <<ticket, conn>>
      PROVE  TicketInv'
  BY <1>4 DEF TicketInv, Begun, Closed
<1>5. ASSUME NEW p \in Procs, ProcStep(p)
      PROVE  TicketInv'
  BY <1>4, <1>5 DEF ProcStep, Crash, BreaksProtocol, StopTaken
<1>6. ASSUME NEW t \in Tickets, TimerStep(t)
      PROVE  TicketInv'
  BY <1>4, <1>6 DEF TimerStep, TimerDecides, TimerStops
<1>7. CASE Unregister \/ Tick \/ UNCHANGED hostStateVars
  BY <1>4, <1>7 DEF Unregister, Tick, hostStateVars
<1>8. QED
  BY <1>1, <1>2, <1>3, <1>5, <1>6, <1>7 DEF HostNext

\* The types of a plugin's process and connections, for any number of them.
THEOREM HostTypes == HostSpec => []HostTypeOK
<1>1. HostInit => ProcsInv /\ TicketInv
  <2> SUFFICES ASSUME HostInit
               PROVE  ProcsInv /\ TicketInv
    OBVIOUS
  <2>1. Begun = {} /\ Closed = {}
    BY DEF HostInit, Begun, Closed
  <2>2. Cardinality(Begun) = 0 /\ Cardinality(Closed) = 0
    BY <2>1, FS_EmptySet
  <2>3. TicketInv
    BY <2>2 DEF HostInit, TicketInv
  <2>4. /\ started = 0 /\ live = 0 /\ on = [c \in Connects |-> 0]
        /\ conn = [c \in Connects |-> "idle"] /\ removed = FALSE
        /\ running = {} /\ over = {} /\ stopped = {} /\ stopping = {} /\ idled = {}
        /\ adrift = {} /\ hasty = {}
    BY DEF HostInit
  <2>5. 0 \in 0..MaxProcs /\ 0 \in 0..0
    BY HostAssumption
  <2>6. on \in [Connects -> 0..started]
    BY <2>4, <2>5
  <2>7. QED
    BY <2>3, <2>4, <2>5, <2>6 DEF ProcsInv
<1>2. HostKinds /\ ProcsInv /\ CountInv /\ TicketInv /\ BudgetInv => HostTypeOK
  <2> SUFFICES ASSUME HostKinds, ProcsInv, CountInv, TicketInv, BudgetInv
               PROVE  HostTypeOK
    OBVIOUS
  <2>1. Cardinality(Connects) \in Nat
    BY HostAssumption, FS_CardinalityType
  <2>2. ASSUME NEW S \in SUBSET Connects
        PROVE  Cardinality(S) \in 0..Cardinality(Connects)
    <3>1. IsFiniteSet(S) /\ Cardinality(S) <= Cardinality(Connects)
      BY <2>2, HostAssumption, FS_Subset
    <3>2. QED
      BY <2>1, <3>1, FS_CardinalityType
  <2>3. /\ Cardinality(Counted) \in 0..Cardinality(Connects)
        /\ Cardinality(Begun) \in 0..Cardinality(Connects)
        /\ Cardinality(Closed) \in 0..Cardinality(Connects)
    BY <2>2 DEF Counted, Begun, Closed
  <2>4. sessions \in 0..Cardinality(Connects) /\ ticket \in Tickets
    BY <2>1, <2>3 DEF CountInv, TicketInv, Tickets
  <2>5. live \in 0..MaxProcs /\ on \in [Connects -> 0..MaxProcs]
    BY HostAssumption DEF ProcsInv
  <2>6. QED
    BY <2>4, <2>5 DEF HostTypeOK, HostKinds, ProcsInv, BudgetInv, Ages, ConnStates
<1>3. QED
  BY <1>1, <1>2, HostKindsInit, HostKindsNext, StartInit, StartNext, CountInit, CountNext, BudgetInit,
     BudgetNext, ProcsNext, TicketNext, PTL DEF HostSpec

-----------------------------------------------------------------------------
(***************************************************************************)
(* The folder and its entry.                                               *)
(***************************************************************************)

LEMMA EntryType ==
    ASSUME NEW v \in Versions \cup {Nothing}, NEW turnedOn \in BOOLEAN
    PROVE  Entry(v, turnedOn) \in [version : Versions \cup {Nothing}, enabled : BOOLEAN]
BY DEF Entry

LEMMA NoEntryType == NoEntry \in [version : Versions \cup {Nothing}, enabled : BOOLEAN]
BY DEF NoEntry

LEMMA EditedType ==
    ASSUME InstallTypeOK, NEW d \in Dexos
    PROVE  Edited(d) \in [version : Versions \cup {Nothing}, enabled : BOOLEAN]
<1>1. Loaded \in [version : Versions \cup {Nothing}, enabled : BOOLEAN]
  BY EntryType, NoEntryType DEF InstallTypeOK, Loaded
<1>2. Entry(d, Loaded = NoEntry \/ Loaded.enabled)
         \in [version : Versions \cup {Nothing}, enabled : BOOLEAN]
  BY <1>1, EntryType DEF Versions
<1>3. QED
  BY <1>1, <1>2, NoEntryType DEF Edited

\* Dropping locks keeps the types of what it touches.
LEMMA UnlockType ==
    ASSUME InstallTypeOK, NEW d \in Dexos, NEW ls \in SUBSET Locks, Unlock(d, ls)
    PROVE  /\ file' \in [Locks -> Dexos \cup {Free}]
           /\ old' \in [Locks -> BOOLEAN]
           /\ holds' \in [Dexos -> SUBSET Locks]
           /\ wronged' \subseteq Locks
BY DEF InstallTypeOK, Unlock

LEMMA InstallInitType == InstallInit => InstallTypeOK
<1> SUFFICES ASSUME InstallInit
             PROVE  InstallTypeOK
  OBVIOUS
<1>1. entry \in [version : Versions \cup {Nothing}, enabled : BOOLEAN]
  BY EntryType, NoEntryType DEF InstallInit, Versions
<1>2. tries \in [Dexos -> 0..2] /\ aged \in 0..MaxAged
  BY InstallAssumption DEF InstallInit
<1>3. QED
  BY <1>1, <1>2, NoEntryType, InstallAssumption DEF InstallInit, InstallTypeOK, Locks, Versions

\* A lock file is judged stale by one who has a try left.
TriesInv == \A d \in Dexos : at[d] = "removing lock" => tries[d] > 0

LEMMA TriesNext == InstallTypeOK /\ TriesInv /\ [InstallNext]_installVars => TriesInv'
<1> SUFFICES ASSUME InstallTypeOK, TriesInv, [InstallNext]_installVars
             PROVE  TriesInv'
  OBVIOUS
<1>t. /\ tries \in [Dexos -> 0..2]
      /\ \E S : at \in [Dexos -> S]
  BY DEF InstallTypeOK
<1> USE DEF TriesInv
<1>1. ASSUME NEW d \in Dexos, DexoStep(d)
      PROVE  TriesInv'
  <2>1. \A e \in Dexos : e # d => at'[e] = at[e] /\ tries'[e] = tries[e]
    <3>1. CASE \/ Begin(d) \/ MoveAside(d) \/ Place(d) \/ TryAgain(d) \/ RemoveStale(d)
               \/ Create(d) \/ JudgeStale(d) \/ GiveUpLock(d) \/ Refuse(d)
      BY <1>t, <3>1 DEF Begin, MoveAside, Place, TryAgain, RemoveStale, Seek, Create, JudgeStale,
                        GiveUpLock, Refuse, lockVars
    <3>2. CASE \/ NothingThere(d) \/ PutBack(d) \/ Edit(d) \/ Save(d) \/ SaveFails(d)
               \/ Saved(d) \/ Leave(d) \/ Die(d)
      BY <1>t, <3>2 DEF NothingThere, PutBack, Edit, Save, SaveFails, Saved, Leave, Die, lockVars
    <3>3. QED
      BY <1>1, <3>1, <3>2 DEF DexoStep
  <2>2. at'[d] = "removing lock" => tries'[d] > 0
    <3>1. CASE \/ Begin(d) \/ MoveAside(d) \/ Place(d) \/ TryAgain(d) \/ RemoveStale(d)
               \/ Create(d) \/ JudgeStale(d) \/ GiveUpLock(d) \/ Refuse(d)
      BY <1>t, <3>1 DEF Begin, MoveAside, Place, TryAgain, RemoveStale, Create, JudgeStale,
                        GiveUpLock, Refuse, After, lockVars
    <3>2. CASE \/ NothingThere(d) \/ PutBack(d) \/ Edit(d) \/ Save(d) \/ SaveFails(d)
               \/ Saved(d) \/ Leave(d) \/ Die(d)
      BY <1>t, <3>2 DEF NothingThere, PutBack, Edit, Save, SaveFails, Saved, Leave, Die, lockVars
    <3>3. QED
      BY <1>1, <3>1, <3>2 DEF DexoStep
  <2>3. QED
    BY <2>1, <2>2
<1>2. ASSUME NEW l \in Locks, GrowOld(l)
      PROVE  TriesInv'
  BY <1>2 DEF GrowOld
<1>3. CASE UNCHANGED installVars
  BY <1>3 DEF installVars
<1>4. QED
  BY <1>1, <1>2, <1>3 DEF InstallNext

LEMMA CountsType ==
    ASSUME InstallTypeOK, TriesInv, [InstallNext]_installVars
    PROVE  tries' \in [Dexos -> 0..2] /\ aged' \in 0..MaxAged
<1>t. tries \in [Dexos -> 0..2] /\ aged \in 0..MaxAged /\ MaxAged \in Nat
  BY InstallAssumption DEF InstallTypeOK
<1>1. ASSUME NEW d \in Dexos, DexoStep(d)
      PROVE  tries' \in [Dexos -> 0..2] /\ aged' = aged
  <2>1. CASE Begin(d) \/ MoveAside(d) \/ Place(d) \/ TryAgain(d)
    BY <1>t, <2>1 DEF Begin, MoveAside, Place, TryAgain, Seek, storeVars
  <2>2. CASE RemoveStale(d)
    <3>1. aged' = aged /\ tries' = [tries EXCEPT ![d] = @ - 1]
      BY <2>2 DEF RemoveStale
    <3>2. tries[d] - 1 \in 0..2
      <4>1. at[d] = "removing lock"
        BY <2>2 DEF RemoveStale
      <4>2. tries[d] > 0
        BY <4>1 DEF TriesInv
      <4>3. QED
        BY <1>t, <4>2
    <3>3. QED
      BY <1>t, <3>1, <3>2
  <2>3. CASE \/ Create(d) \/ JudgeStale(d) \/ GiveUpLock(d) \/ Refuse(d) \/ NothingThere(d)
             \/ PutBack(d) \/ Edit(d) \/ Save(d) \/ SaveFails(d) \/ Saved(d) \/ Leave(d)
             \/ Die(d)
    BY <1>t, <2>3 DEF Create, JudgeStale, GiveUpLock, Refuse, NothingThere, PutBack, Edit, Save,
                      SaveFails, Saved, Leave, Die, lockVars, Unlock
  <2>4. QED
    BY <1>1, <2>1, <2>2, <2>3 DEF DexoStep
<1>2. ASSUME NEW l \in Locks, GrowOld(l)
      PROVE  tries' = tries /\ aged' \in 0..MaxAged
  BY <1>t, <1>2 DEF GrowOld
<1>3. CASE UNCHANGED installVars
  BY <1>t, <1>3 DEF installVars
<1>4. QED
  BY <1>t, <1>1, <1>2, <1>3 DEF InstallNext

LEMMA InstallNextType == InstallTypeOK /\ TriesInv /\ [InstallNext]_installVars => InstallTypeOK'
<1> SUFFICES ASSUME InstallTypeOK, TriesInv, [InstallNext]_installVars
             PROVE  InstallTypeOK'
  OBVIOUS
<1>c. tries' \in [Dexos -> 0..2] /\ aged' \in 0..MaxAged
  BY CountsType
<1> USE DEF InstallTypeOK
<1>1. ASSUME NEW d \in Dexos, Begin(d)
      PROVE  InstallTypeOK'
  BY <1>1, <1>c DEF Begin, Seek, Locks, storeVars
<1>2. ASSUME NEW d \in Dexos, Create(d)
      PROVE  InstallTypeOK'
  BY <1>2 DEF Create, After, Locks, storeVars
<1>3. ASSUME NEW d \in Dexos, JudgeStale(d)
      PROVE  InstallTypeOK'
  BY <1>3 DEF JudgeStale, lockVars, storeVars
<1>4. ASSUME NEW d \in Dexos, RemoveStale(d)
      PROVE  InstallTypeOK'
  <2>1. want[d] \in Locks
    OBVIOUS
  <2>2. file' \in [Locks -> Dexos \cup {Free}] /\ old' \in [Locks -> BOOLEAN]
    BY <1>4, <2>1 DEF RemoveStale
  <2>3. wronged' \subseteq Locks
    BY <1>4, <2>1 DEF RemoveStale
  <2>4. at' = [at EXCEPT ![d] = "seeking"]
        /\ UNCHANGED <<order, want, aged, holds, halfway, storeVars>>
    BY <1>4 DEF RemoveStale
  <2>5. QED
    BY <2>2, <2>3, <2>4, <1>c DEF storeVars
<1>5. ASSUME NEW d \in Dexos, GiveUpLock(d)
      PROVE  InstallTypeOK'
  BY <1>5, UnlockType DEF GiveUpLock, storeVars
<1>6. ASSUME NEW d \in Dexos, TryAgain(d)
      PROVE  InstallTypeOK'
  BY <1>6, <1>c DEF TryAgain, storeVars
<1>7. ASSUME NEW d \in Dexos, Refuse(d)
      PROVE  InstallTypeOK'
  BY <1>7, UnlockType DEF Refuse, storeVars
<1>8. ASSUME NEW d \in Dexos, MoveAside(d)
      PROVE  InstallTypeOK'
  BY <1>8, <1>c DEF MoveAside, Seek, Locks
<1>9. ASSUME NEW d \in Dexos, NothingThere(d)
      PROVE  InstallTypeOK'
  BY <1>9, UnlockType DEF NothingThere, storeVars
<1>10. ASSUME NEW d \in Dexos, Place(d)
       PROVE  InstallTypeOK'
  BY <1>10, <1>c DEF Place, Seek, Locks, Versions
<1>11. ASSUME NEW d \in Dexos, PutBack(d)
       PROVE  InstallTypeOK'
  BY <1>11, UnlockType DEF PutBack
<1>12. ASSUME NEW d \in Dexos, Edit(d)
       PROVE  InstallTypeOK'
  <2>1. copy' \in [Dexos -> [version : Versions \cup {Nothing}, enabled : BOOLEAN]]
    BY <1>12, EditedType DEF Edit
  <2>2. QED
    BY <1>12, <2>1 DEF Edit, lockVars
<1>13. ASSUME NEW d \in Dexos, Save(d)
       PROVE  InstallTypeOK'
  BY <1>13 DEF Save, lockVars
<1>14. ASSUME NEW d \in Dexos, Saved(d)
       PROVE  InstallTypeOK'
  <2>1. {"state"} \in SUBSET Locks
    BY DEF Locks
  <2>2. QED
    BY <1>14, <2>1, UnlockType DEF Saved, storeVars
<1>15. ASSUME NEW d \in Dexos, Leave(d)
       PROVE  InstallTypeOK'
  <2>1. {"plugin"} \in SUBSET Locks
    BY DEF Locks
  <2>2. QED
    BY <1>15, <2>1, UnlockType DEF Leave, storeVars
<1>16. ASSUME NEW d \in Dexos, Die(d)
       PROVE  InstallTypeOK'
  BY <1>16 DEF Die, storeVars
<1>17. ASSUME NEW l \in Locks, GrowOld(l)
       PROVE  InstallTypeOK'
  BY <1>17, <1>c DEF GrowOld, storeVars
<1>18. ASSUME NEW d \in Dexos, SaveFails(d)
       PROVE  InstallTypeOK'
  BY <1>18 DEF SaveFails, storeVars
<1>19. CASE UNCHANGED installVars
  BY <1>19 DEF installVars
<1>20. QED
  BY <1>1, <1>2, <1>3, <1>4, <1>5, <1>6, <1>7, <1>8, <1>9, <1>10, <1>11, <1>12, <1>13, <1>14,
     <1>15, <1>16, <1>17, <1>18, <1>19 DEF InstallNext, DexoStep

\* What the lock files, the folder, the entry and every Dexo's copy of it may be.
THEOREM InstallTypes == InstallSpec => []InstallTypeOK
<1>1. InstallInit => TriesInv
  BY DEF InstallInit, TriesInv
<1>2. QED
  BY <1>1, InstallInitType, InstallNextType, TriesNext, PTL DEF InstallSpec

-----------------------------------------------------------------------------
(* The locks exclude: a lock that was never wronged names its holder. *)

HolderInv == \A l \in Locks \ wronged : \A d \in Dexos : l \in holds[d] => file[l] = d

LEMMA HolderNext == InstallTypeOK /\ HolderInv /\ [InstallNext]_installVars => HolderInv'
<1> SUFFICES ASSUME InstallTypeOK, HolderInv, [InstallNext]_installVars
             PROVE  HolderInv'
  OBVIOUS
<1>t. /\ file \in [Locks -> Dexos \cup {Free}]
      /\ holds \in [Dexos -> SUBSET Locks]
      /\ Free \notin Dexos
      /\ want \in [Dexos -> Locks]
  BY InstallAssumption DEF InstallTypeOK
<1> USE DEF HolderInv
<1>1. ASSUME NEW d \in Dexos, NEW ls \in SUBSET Locks, Unlock(d, ls)
      PROVE  HolderInv'
  <2>1. /\ file' = [l \in Locks |-> IF l \in ls THEN Free ELSE file[l]]
        /\ holds' = [holds EXCEPT ![d] = @ \ ls]
        /\ wronged' = wronged \cup {l \in ls : file[l] # d
                                        /\ \E e \in Dexos : e = file[l] /\ l \in holds[e]}
    BY <1>1 DEF Unlock
  <2>2. ASSUME NEW l \in Locks \ wronged', NEW e \in Dexos, l \in holds'[e]
        PROVE  file'[l] = e
    <3>1. l \in holds[e] /\ l \notin wronged /\ file[l] = e
      BY <1>t, <2>1, <2>2
    <3>2. l \notin ls
      BY <1>t, <2>1, <2>2, <3>1
    <3>3. QED
      BY <2>1, <3>1, <3>2
  <2>3. QED
    BY <2>2
<1>2. ASSUME NEW d \in Dexos, Create(d)
      PROVE  HolderInv'
  BY <1>2, <1>t DEF Create
<1>3. ASSUME NEW d \in Dexos, RemoveStale(d)
      PROVE  HolderInv'
  <2> DEFINE l == want[d]
  <2>1. /\ file' = [file EXCEPT ![l] = Free]
        /\ holds' = holds
        /\ wronged' = IF \E e \in Dexos : e = file[l] /\ l \in holds[e]
                      THEN wronged \cup {l} ELSE wronged
    BY <1>3 DEF RemoveStale
  <2>2. l \in Locks
    BY <1>t
  <2> HIDE DEF l
  <2>3. QED
    BY <1>t, <2>1, <2>2
<1>4. ASSUME NEW d \in Dexos, GiveUpLock(d) \/ Refuse(d) \/ PutBack(d)
      PROVE  HolderInv'
  BY <1>4, <1>1, <1>t DEF GiveUpLock, Refuse, PutBack
<1>5. ASSUME NEW d \in Dexos, NothingThere(d)
      PROVE  HolderInv'
  BY <1>5, <1>1, <1>t DEF NothingThere
<1>6. ASSUME NEW d \in Dexos, Saved(d) \/ Leave(d)
      PROVE  HolderInv'
  BY <1>6, <1>1 DEF Saved, Leave, Locks
<1>7. ASSUME NEW d \in Dexos, Die(d)
      PROVE  HolderInv'
  BY <1>7, <1>t DEF Die
<1>8. ASSUME NEW d \in Dexos, Begin(d) \/ JudgeStale(d) \/ TryAgain(d) \/ MoveAside(d) \/ Place(d)
                                \/ Edit(d) \/ Save(d) \/ SaveFails(d)
      PROVE  HolderInv'
  BY <1>8 DEF Begin, JudgeStale, TryAgain, MoveAside, Place, Edit, Save, SaveFails, lockVars
<1>9. ASSUME NEW l \in Locks, GrowOld(l)
      PROVE  HolderInv'
  BY <1>9 DEF GrowOld
<1>10. CASE UNCHANGED installVars
  BY <1>10 DEF installVars
<1>11. QED
  BY <1>2, <1>3, <1>4, <1>5, <1>6, <1>7, <1>8, <1>9, <1>10 DEF InstallNext, DexoStep

\* Two Dexos never hold one lock, whatever they do, wherever they die, as long as no lock file
\* is removed from under a Dexo that holds it.
THEOREM LocksDoExclude == InstallSpec => []LocksExclude
<1>1. InstallInit => HolderInv
  BY DEF InstallInit, HolderInv
<1>2. HolderInv => LocksExclude
  <2> SUFFICES ASSUME HolderInv, NEW l \in Locks \ wronged
               PROVE  Cardinality({d \in Dexos : l \in holds[d]}) <= 1
    BY DEF LocksExclude
  <2>1. {d \in Dexos : l \in holds[d]} \subseteq {file[l]}
    BY DEF HolderInv
  <2>2. IsFiniteSet({file[l]}) /\ Cardinality({file[l]}) = 1
    BY FS_Singleton
  <2>3. QED
    BY <2>1, <2>2, FS_Subset
<1>3. QED
  BY <1>1, <1>2, InstallTypes, HolderNext, PTL DEF InstallSpec

-----------------------------------------------------------------------------
(* What a Dexo holds at each point, and that the others are left alone. *)

Own(d) == IF order[d] \in {"install", "remove"} THEN {"plugin"} ELSE {}
Seeking == {"seeking", "removing lock"}
Phase(d) ==
    /\ at[d] \in {"idle", "done", "dead"} => holds[d] = {}
    /\ at[d] \in {"holding", "placing", "leaving"} => holds[d] = {"plugin"} /\ Own(d) = {"plugin"}
    /\ at[d] = "placing" => order[d] = "install"
    /\ at[d] \in Seeking => holds[d] = IF want[d] = "plugin" THEN {} ELSE Own(d)
    /\ at[d] \in Seeking /\ want[d] = "plugin" => Own(d) = {"plugin"}
    /\ at[d] \in {"editing", "saving", "saved"} => holds[d] = Own(d) \cup {"state"}
    /\ at[d] \in {"idle", "holding"} => aside[d] = Nothing
    /\ at[d] \in Seeking /\ want[d] = "plugin" => aside[d] = Nothing
PhaseInv == \A d \in Dexos : Phase(d)

LEMMA DexoTypes ==
    ASSUME InstallTypeOK
    PROVE  /\ \E S : at \in [Dexos -> S]
           /\ want \in [Dexos -> Locks]
           /\ holds \in [Dexos -> SUBSET Locks]
           /\ \E S : aside \in [Dexos -> S]
           /\ \E S : copy \in [Dexos -> S]
BY DEF InstallTypeOK

LEMMA Dropped ==
    ASSUME NEW d \in Dexos, NEW ls, Unlock(d, ls)
    PROVE  holds' = [holds EXCEPT ![d] = @ \ ls]
BY DEF Unlock

LEMMA Others ==
    ASSUME InstallTypeOK, NEW d \in Dexos, DexoStep(d), NEW e \in Dexos, e # d
    PROVE  /\ order' = order
           /\ at'[e] = at[e] /\ want'[e] = want[e] /\ holds'[e] = holds[e]
           /\ aside'[e] = aside[e] /\ copy'[e] = copy[e]
<1>t. /\ \E S : at \in [Dexos -> S]
      /\ want \in [Dexos -> Locks]
      /\ holds \in [Dexos -> SUBSET Locks]
      /\ \E S : aside \in [Dexos -> S]
      /\ \E S : copy \in [Dexos -> S]
  BY DexoTypes
<1>1. CASE Begin(d) \/ Create(d) \/ JudgeStale(d) \/ RemoveStale(d) \/ TryAgain(d)
  BY <1>t, <1>1 DEF Begin, Create, JudgeStale, RemoveStale, TryAgain, Seek, lockVars, storeVars
<1>2. CASE GiveUpLock(d) \/ Refuse(d)
  BY <1>t, <1>2, Dropped DEF GiveUpLock, Refuse, storeVars
<1>3. CASE MoveAside(d)
  BY <1>t, <1>3 DEF MoveAside, Seek
<1>4. CASE NothingThere(d)
  BY <1>t, <1>4, Dropped DEF NothingThere, storeVars
<1>5. CASE Place(d)
  BY <1>t, <1>5 DEF Place, Seek
<1>6. CASE PutBack(d)
  BY <1>t, <1>6 DEF PutBack, Unlock
<1>7. CASE Edit(d) \/ Save(d) \/ SaveFails(d)
  BY <1>t, <1>7 DEF Edit, Save, SaveFails, lockVars, storeVars
<1>8. CASE Saved(d) \/ Leave(d) \/ Die(d)
  BY <1>t, <1>8 DEF Saved, Leave, Die, Unlock, storeVars
<1>9. QED
  BY <1>1, <1>2, <1>3, <1>4, <1>5, <1>6, <1>7, <1>8 DEF DexoStep

LEMMA PhaseNext == InstallTypeOK /\ PhaseInv /\ [InstallNext]_installVars => PhaseInv'
<1> SUFFICES ASSUME InstallTypeOK, PhaseInv, [InstallNext]_installVars
             PROVE  PhaseInv'
  OBVIOUS
<1>1. ASSUME NEW d \in Dexos, DexoStep(d)
      PROVE  PhaseInv'
  <2> USE DexoTypes DEF Phase, Seeking, Own
  <2>1. ASSUME NEW e \in Dexos, e # d
        PROVE  Phase(e)'
    <3>1. Phase(e)
      BY DEF PhaseInv
    <3>2. QED
      BY <1>1, <2>1, <3>1, Others
  <2>2. Phase(d)
    BY DEF PhaseInv
  <2>3. Phase(d)'
    <3>1. CASE Begin(d)
      BY <2>2, <3>1 DEF Begin, Seek, storeVars
    <3>2. CASE Create(d)
      BY <2>2, <3>2 DEF Create, After, Locks, storeVars
    <3>3. CASE JudgeStale(d) \/ RemoveStale(d) \/ TryAgain(d)
      BY <2>2, <3>3 DEF JudgeStale, RemoveStale, TryAgain, lockVars, storeVars
    <3>4. CASE GiveUpLock(d) \/ Refuse(d)
      <4>1. holds' = [holds EXCEPT ![d] = @ \ holds[d]]
        BY <3>4, Dropped DEF GiveUpLock, Refuse
      <4>2. holds'[d] = {}
        BY <4>1
      <4>3. at' = [at EXCEPT ![d] = "done"]
        BY <3>4 DEF GiveUpLock, Refuse
      <4>4. QED
        BY <4>2, <4>3
    <3>5. CASE MoveAside(d)
      BY <2>2, <3>5 DEF MoveAside, Seek
    <3>6. CASE NothingThere(d)
      <4>1. CASE order[d] = "install"
        BY <2>2, <3>6, <4>1 DEF NothingThere, storeVars
      <4>2. CASE order[d] # "install"
        <5>1. holds' = [holds EXCEPT ![d] = @ \ holds[d]] /\ at' = [at EXCEPT ![d] = "done"]
          BY <3>6, <4>2, Dropped DEF NothingThere
        <5>2. holds'[d] = {}
          BY <5>1
        <5>3. QED
          BY <5>1, <5>2
      <4>3. QED
        BY <4>1, <4>2
    <3>7. CASE Place(d)
      BY <2>2, <3>7 DEF Place, Seek
    <3>8. CASE PutBack(d)
      BY <2>2, <3>8 DEF PutBack, Unlock
    <3>9. CASE Edit(d) \/ Save(d) \/ SaveFails(d)
      BY <2>2, <3>9 DEF Edit, Save, SaveFails, lockVars, storeVars
    <3>10. CASE Saved(d) \/ Leave(d)
      <4>1. CASE Saved(d)
        <5>1. holds' = [holds EXCEPT ![d] = @ \ {"state"}] /\ order' = order
          BY <4>1, Dropped DEF Saved
        <5>2. holds[d] = Own(d) \cup {"state"}
          BY <2>2, <4>1 DEF Saved
        <5>3. holds'[d] = Own(d)'
          BY <5>1, <5>2
        <5>4. at' = [at EXCEPT ![d] = IF order[d] \in {"install", "remove"} THEN "leaving"
                                     ELSE "done"]
          BY <4>1 DEF Saved
        <5>5. QED
          BY <5>1, <5>3, <5>4
      <4>2. CASE Leave(d)
        <5>1. holds' = [holds EXCEPT ![d] = @ \ {"plugin"}] /\ at' = [at EXCEPT ![d] = "done"]
          BY <4>2, Dropped DEF Leave
        <5>2. holds'[d] = {}
          BY <2>2, <4>2, <5>1 DEF Leave
        <5>3. QED
          BY <5>1, <5>2
      <4>3. QED
        BY <3>10, <4>1, <4>2
    <3>11. CASE Die(d)
      BY <2>2, <3>11 DEF Die, storeVars
    <3>12. QED
      BY <1>1, <3>1, <3>2, <3>3, <3>4, <3>5, <3>6, <3>7, <3>8, <3>9, <3>10, <3>11 DEF DexoStep
  <2>4. QED
    BY <2>1, <2>3 DEF PhaseInv
<1>2. ASSUME NEW l \in Locks, GrowOld(l)
      PROVE  PhaseInv'
  BY <1>2 DEF GrowOld, PhaseInv, Phase, Own, storeVars
<1>3. CASE UNCHANGED installVars
  BY <1>3 DEF installVars, PhaseInv, Phase, Own
<1>4. QED
  BY <1>1, <1>2, <1>3 DEF InstallNext

-----------------------------------------------------------------------------
(* The entry agrees with the folder, but for a command that has changed    *)
(* the folder and has its entry still to write, and for the version of an  *)
(* install that could not write it.                                        *)

Changed(d) == "plugin" \in holds[d] /\ at[d] \in Seeking \cup {"editing", "saving"}
Suits(x, f) == x = NoEntry \/ f = Nothing \/ x.version = f \/ f \in halfway
\* What is moved aside may come back.
Agrees(x) ==
    /\ Suits(x, folder)
    /\ \A d \in Dexos : at[d] = "placing" => Suits(x, aside[d])
Sound == wronged = {} /\ \A d \in Dexos : at[d] # "dead"

Placing == \A d \in Dexos : at[d] = "placing" => folder = Nothing
Placed == \A d \in Dexos : Changed(d) => folder = IF order[d] = "install" THEN d ELSE Nothing
Settled == (\A d \in Dexos : ~Changed(d)) => Agrees(entry)
Copied ==
    \A d \in Dexos :
        at[d] = "saving" /\ ((\A e \in Dexos : ~Changed(e)) \/ Changed(d)) => Agrees(copy[d])
EntryInv == Sound => Placing /\ Placed /\ Settled /\ Copied

LEMMA SoundBefore == ASSUME [InstallNext]_installVars, InstallTypeOK, Sound'
                     PROVE  Sound
<1>1. ASSUME NEW d \in Dexos, DexoStep(d)
      PROVE  Sound
  <2>1. wronged \subseteq wronged'
    <3>1. CASE Begin(d) \/ Create(d) \/ JudgeStale(d) \/ RemoveStale(d) \/ TryAgain(d) \/ MoveAside(d)
               \/ Place(d) \/ Edit(d) \/ Save(d) \/ SaveFails(d) \/ Die(d)
      BY <3>1 DEF Begin, Create, JudgeStale, RemoveStale, TryAgain, MoveAside, Place, Edit, Save,
                  SaveFails, Die, lockVars
    <3>2. CASE \/ GiveUpLock(d) \/ Refuse(d) \/ NothingThere(d) \/ PutBack(d) \/ Saved(d)
               \/ Leave(d)
      BY <3>2 DEF GiveUpLock, Refuse, NothingThere, PutBack, Saved, Leave, Unlock
    <3>3. QED
      BY <1>1, <3>1, <3>2 DEF DexoStep
  <2>2. at[d] # "dead"
    BY <1>1 DEF DexoStep, Begin, Create, JudgeStale, RemoveStale, TryAgain, MoveAside, Place, Edit,
                Save, SaveFails, Die, GiveUpLock, Refuse, NothingThere, PutBack, Saved, Leave
  <2>3. \A e \in Dexos : e # d => at'[e] = at[e]
    BY <1>1, Others
  <2>4. QED
    BY <2>1, <2>2, <2>3 DEF Sound
<1>2. ASSUME NEW l \in Locks, GrowOld(l)
      PROVE  Sound
  BY <1>2 DEF GrowOld, Sound
<1>3. CASE UNCHANGED installVars
  BY <1>3 DEF installVars, Sound
<1>4. QED
  BY <1>1, <1>2, <1>3 DEF InstallNext

\* While nothing was wronged, one Dexo at most has a lock.
LEMMA OneHolds ==
    ASSUME HolderInv, Sound, NEW l \in Locks, NEW d \in Dexos, NEW e \in Dexos,
           l \in holds[d], l \in holds[e]
    PROVE  d = e
BY DEF HolderInv, Sound

\* An install that could not write its entry is remembered.
LEMMA HalfwayGrows ==
    ASSUME NEW d \in Dexos, DexoStep(d)
    PROVE  halfway \subseteq halfway'
<1>1. CASE GiveUpLock(d) \/ SaveFails(d)
  BY <1>1 DEF GiveUpLock, SaveFails
<1>2. CASE ~(GiveUpLock(d) \/ SaveFails(d))
  BY <1>2 DEF DexoStep, Begin, Create, JudgeStale, RemoveStale, TryAgain, Refuse, MoveAside,
              NothingThere, Place, PutBack, Edit, Save, Saved, Leave, Die, lockVars
<1>3. QED
  BY <1>1, <1>2

\* A step that leaves the folder, the entry and what is aside alone, and where the Dexo neither
\* places nor changes anything it did not before, nor comes to save.
LEMMA EntryLeft ==
    ASSUME EntryInv, Sound, InstallTypeOK, NEW d \in Dexos, DexoStep(d),
           UNCHANGED <<order, folder, aside, entry, copy>>,
           at'[d] \notin {"placing", "saving"},
           Changed(d)' <=> Changed(d)
    PROVE  EntryInv'
<1>1. \A e \in Dexos : e # d => at'[e] = at[e] /\ holds'[e] = holds[e]
  BY Others
<1>2. \A e \in Dexos : Changed(e)' <=> Changed(e)
  BY <1>1 DEF Changed
<1>3. \A e \in Dexos : at'[e] \in {"placing", "saving"} => at[e] = at'[e]
  BY <1>1
<1>4. \A x : Agrees(x) => Agrees(x)'
  <2>1. \A x, f : Suits(x, f) => Suits(x, f)'
    BY HalfwayGrows DEF Suits
  <2>2. QED
    BY <1>3, <2>1 DEF Agrees
<1>5. QED
  BY <1>2, <1>3, <1>4 DEF EntryInv, Placing, Placed, Settled, Copied

\* Who has the plugin's lock is the only one to place or to have changed anything.
LEMMA OneChanges ==
    ASSUME PhaseInv, HolderInv, Sound, NEW d \in Dexos, "plugin" \in holds[d]
    PROVE  \A e \in Dexos : e # d => ~Changed(e) /\ at[e] # "placing"
<1> SUFFICES ASSUME NEW e \in Dexos, e # d
             PROVE  "plugin" \notin holds[e] /\ at[e] # "placing"
  BY DEF Changed
<1>1. "plugin" \notin holds[e]
  BY OneHolds DEF Locks
<1>2. QED
  BY <1>1 DEF PhaseInv, Phase

\* An edit of one that changed nothing keeps the version the entry has.
LEMMA EditedAgrees ==
    ASSUME InstallTypeOK, Placing, NEW d \in Dexos, Agrees(entry),
           order[d] \notin {"install", "remove"}
    PROVE  Agrees(Edited(d))
<1>1. Suits(Loaded, folder) /\ (folder = Nothing => Loaded = NoEntry)
  BY DEF Agrees, Suits, Loaded, Entry
<1>2. Edited(d) = Loaded \/ (Loaded # NoEntry /\ Edited(d).version = Loaded.version)
  <2>1. Loaded \in [version : Versions \cup {Nothing}, enabled : BOOLEAN]
    BY EntryType, NoEntryType DEF InstallTypeOK, Loaded
  <2>2. QED
    BY <2>1 DEF Edited
<1>3. Suits(Edited(d), folder)
  BY <1>1, <1>2 DEF Suits
<1>4. folder = Nothing => Edited(d) = NoEntry
  BY <1>1, <1>2
<1>5. QED
  BY <1>3, <1>4 DEF Agrees, Placing, Suits

\* One that changed the folder ends without its entry: there is nothing in the folder, or the
\* version that it leaves halfway.
LEMMA LeftHalfway ==
    ASSUME InstallTypeOK, PhaseInv, HolderInv, EntryInv, Sound, NEW d \in Dexos, DexoStep(d),
           UNCHANGED <<order, folder, aside, entry, copy>>,
           at'[d] \in {"saved", "done"}, Changed(d), d \in halfway'
    PROVE  EntryInv'
<1>1. \A e \in Dexos : e # d => at'[e] = at[e] /\ holds'[e] = holds[e]
  BY Others
<1>2. \A e \in Dexos : e # d => ~Changed(e) /\ at[e] # "placing"
  BY OneChanges DEF Changed
<1>3. \A e \in Dexos : ~Changed(e)' /\ at'[e] # "placing"
  BY <1>1, <1>2 DEF Changed, Seeking
<1>4. folder' = d \/ folder' = Nothing
  BY DEF EntryInv, Placed
<1>5. \A x : Agrees(x)'
  BY <1>3, <1>4 DEF Agrees, Suits
<1>6. QED
  BY <1>3, <1>5 DEF EntryInv, Placing, Placed, Settled, Copied

LEMMA EntryNext ==
    InstallTypeOK /\ PhaseInv /\ HolderInv /\ EntryInv /\ [InstallNext]_installVars => EntryInv'
<1> SUFFICES ASSUME InstallTypeOK, PhaseInv, HolderInv, EntryInv, [InstallNext]_installVars, Sound'
             PROVE  EntryInv'
  BY DEF EntryInv
<1>s. Sound
  BY SoundBefore
<1>i. Placing /\ Placed /\ Settled /\ Copied
  BY <1>s DEF EntryInv
<1>1. ASSUME NEW d \in Dexos, DexoStep(d)
      PROVE  EntryInv'
  <2>p. Phase(d)
    BY DEF PhaseInv
  <2>t. /\ \E S : at \in [Dexos -> S]
        /\ want \in [Dexos -> Locks]
        /\ holds \in [Dexos -> SUBSET Locks]
        /\ \E S : aside \in [Dexos -> S]
        /\ \E S : copy \in [Dexos -> S]
    BY DexoTypes
  <2>o. \A e \in Dexos : e # d => /\ at'[e] = at[e] /\ holds'[e] = holds[e]
                                  /\ aside'[e] = aside[e] /\ copy'[e] = copy[e]
    BY <1>1, Others
  <2>c. \A e \in Dexos : e # d => (Changed(e)' <=> Changed(e))
    BY <2>o DEF Changed
  <2>e. \A x, f : Suits(x, f) => Suits(x, f)'
    BY <1>1, HalfwayGrows DEF Suits
  <2>1. CASE Begin(d)
    <3>1. UNCHANGED <<order, folder, aside, entry, copy, holds>> /\ at'[d] = "seeking"
      BY <2>1, <2>t DEF Begin, storeVars
    <3>2. holds[d] = {}
      BY <2>1, <2>p DEF Begin, Phase
    <3>3. QED
      BY <1>1, <1>s, <3>1, <3>2, EntryLeft DEF Changed
  <2>2. CASE Create(d)
    <3>1. /\ UNCHANGED <<order, folder, aside, entry, copy>>
          /\ at'[d] = After(want[d]) /\ at[d] = "seeking"
          /\ holds'[d] = holds[d] \cup {want[d]}
      BY <2>2, <2>t DEF Create, storeVars
    <3>2. Changed(d)' <=> Changed(d)
      <4>1. CASE want[d] = "plugin"
        BY <2>p, <3>1, <4>1 DEF Changed, After, Phase, Seeking
      <4>2. CASE want[d] = "state"
        BY <3>1, <4>2 DEF Changed, After, Seeking
      <4>3. QED
        BY <2>t, <4>1, <4>2 DEF Locks
    <3>3. QED
      BY <1>1, <1>s, <3>1, <3>2, EntryLeft DEF After
  <2>3. CASE JudgeStale(d) \/ RemoveStale(d) \/ TryAgain(d)
    <3>1. /\ UNCHANGED <<order, folder, aside, entry, copy, holds>>
          /\ at[d] \in Seeking /\ at'[d] \in Seeking
      BY <2>3, <2>t DEF JudgeStale, RemoveStale, TryAgain, lockVars, storeVars, Seeking
    <3>2. QED
      BY <1>1, <1>s, <3>1, EntryLeft DEF Changed, Seeking
  <2>4. CASE GiveUpLock(d)
    <3>1. /\ UNCHANGED <<order, folder, aside, entry, copy>>
          /\ at'[d] = "done"
          /\ "plugin" \in holds[d] => d \in halfway'
      BY <2>4, <2>t DEF GiveUpLock, storeVars
    <3>2. CASE Changed(d)
      BY <1>1, <1>s, <3>1, <3>2, LeftHalfway DEF Changed
    <3>3. CASE ~Changed(d)
      BY <1>1, <1>s, <3>1, <3>3, EntryLeft DEF Changed, Seeking
    <3>4. QED
      BY <3>2, <3>3
  <2>5. CASE Refuse(d)
    <3>1. /\ UNCHANGED <<order, folder, aside, entry, copy>>
          /\ at[d] = "holding" /\ at'[d] = "done"
      BY <2>5, <2>t DEF Refuse, storeVars
    <3>2. QED
      BY <1>1, <1>s, <3>1, EntryLeft DEF Changed, Seeking
  <2>6. CASE MoveAside(d)
    <3>1. /\ UNCHANGED <<order, entry, copy, holds>>
          /\ at[d] = "holding"
          /\ folder' = Nothing /\ aside'[d] = folder
          /\ at'[d] = IF order[d] = "install" THEN "placing" ELSE "seeking"
      BY <2>6, <2>t DEF MoveAside
    <3>2. holds[d] = {"plugin"}
      BY <2>p, <3>1 DEF Phase
    <3>3. \A e \in Dexos : ~Changed(e) /\ (e # d => at[e] # "placing")
      BY <1>s, <3>1, <3>2, OneChanges DEF Changed, Seeking
    <3>4. Settled' /\ Copied'
      <4>1. \A x : Agrees(x) => Agrees(x)'
        BY <2>o, <2>e, <3>1, <3>3 DEF Agrees, Suits
      <4>2. Agrees(entry)'
        BY <1>i, <3>1, <3>3, <4>1 DEF Settled
      <4>3. \A e \in Dexos : at[e] = "saving" => Agrees(copy[e])'
        BY <1>i, <3>1, <3>3, <4>1 DEF Copied
      <4>4. QED
        BY <2>o, <3>1, <4>2, <4>3 DEF Settled, Copied
    <3>5. Placing' /\ Placed'
      BY <2>c, <3>1, <3>3 DEF Placing, Placed, Changed, Seeking
    <3>6. QED
      BY <3>4, <3>5 DEF EntryInv
  <2>7. CASE NothingThere(d)
    <3>1. /\ UNCHANGED <<order, folder, aside, entry, copy>>
          /\ at[d] = "holding" /\ folder = Nothing
          /\ at'[d] = IF order[d] = "install" THEN "placing" ELSE "done"
      BY <2>7, <2>t DEF NothingThere, storeVars
    <3>2. holds[d] = {"plugin"} /\ aside[d] = Nothing
      BY <2>p, <3>1 DEF Phase
    <3>3. \A e \in Dexos : ~Changed(e) /\ (e # d => at[e] # "placing")
      BY <1>s, <3>1, <3>2, OneChanges DEF Changed, Seeking
    <3>4. \A x : Agrees(x)'
      BY <2>o, <2>e, <3>1, <3>2, <3>3 DEF Agrees, Suits
    <3>5. Placing' /\ Placed' /\ Settled' /\ Copied'
      BY <2>c, <3>1, <3>3, <3>4 DEF Placing, Placed, Settled, Copied, Changed, Seeking
    <3>6. QED
      BY <3>5 DEF EntryInv
  <2>8. CASE Place(d)
    <3>1. /\ UNCHANGED <<order, entry, copy, holds>>
          /\ at[d] = "placing" /\ at'[d] = "seeking" /\ folder' = d
      BY <2>8, <2>t DEF Place
    <3>2. holds[d] = {"plugin"} /\ order[d] = "install"
      BY <2>p, <3>1 DEF Phase
    <3>3. \A e \in Dexos : e # d => ~Changed(e) /\ at[e] # "placing"
      BY <1>s, <3>2, OneChanges
    <3>4. Changed(d)'
      BY <3>1, <3>2 DEF Changed, Seeking
    <3>5. Placing' /\ Placed'
      BY <2>c, <2>o, <3>1, <3>2, <3>3 DEF Placing, Placed
    <3>6. Settled' /\ Copied'
      BY <2>c, <2>o, <3>1, <3>3, <3>4 DEF Settled, Copied
    <3>7. QED
      BY <3>5, <3>6 DEF EntryInv
  <2>9. CASE PutBack(d)
    <3>1. /\ UNCHANGED <<order, entry, copy>>
          /\ at[d] = "placing" /\ at'[d] = "done"
          /\ folder' = IF folder = Nothing THEN aside[d] ELSE folder
      BY <2>9, <2>t DEF PutBack
    <3>2. holds[d] = {"plugin"} /\ folder' = aside[d]
      BY <1>i, <2>p, <3>1 DEF Phase, Placing
    <3>3. \A e \in Dexos : ~Changed(e) /\ (e # d => at[e] # "placing")
      BY <1>s, <3>1, <3>2, OneChanges DEF Changed, Seeking
    <3>4. \A x : Agrees(x) => Agrees(x)'
      BY <2>o, <2>e, <3>1, <3>2, <3>3 DEF Agrees
    <3>5. Placing' /\ Placed' /\ Settled' /\ Copied'
      BY <1>i, <2>c, <2>o, <3>1, <3>3, <3>4 DEF Placing, Placed, Settled, Copied, Changed, Seeking
    <3>6. QED
      BY <3>5 DEF EntryInv
  <2>10. CASE Edit(d)
    <3>1. /\ UNCHANGED <<order, folder, aside, entry, holds>>
          /\ at[d] = "editing" /\ at'[d] = "saving" /\ copy'[d] = Edited(d)
      BY <2>10, <2>t DEF Edit, lockVars
    <3>2. \A e \in Dexos : Changed(e)' <=> Changed(e)
      BY <2>c, <3>1 DEF Changed
    <3>3. \A x : Agrees(x) => Agrees(x)'
      BY <2>o, <2>e, <3>1 DEF Agrees
    <3>4. Placing' /\ Placed' /\ Settled'
      BY <1>i, <2>o, <3>1, <3>2, <3>3 DEF Placing, Placed, Settled
    <3>5. ASSUME Changed(d)
          PROVE  Agrees(Edited(d))
      <4>1. order[d] \in {"install", "remove"} /\ "plugin" \in holds[d]
        BY <2>p, <3>1, <3>5 DEF Phase, Own, Changed
      <4>2. \A e \in Dexos : at[e] # "placing"
        BY <1>s, <3>1, <4>1, OneChanges
      <4>3. Suits(Edited(d), folder)
        <5>1. CASE order[d] = "install"
          <6>1. folder = d
            BY <1>i, <3>5, <5>1 DEF Placed
          <6>2. Edited(d).version = d
            BY <5>1 DEF Edited, Entry
          <6>3. QED
            BY <6>1, <6>2 DEF Suits
        <5>2. CASE order[d] = "remove"
          BY <5>2 DEF Edited, Suits
        <5>3. QED
          BY <4>1, <5>1, <5>2
      <4>4. QED
        BY <4>2, <4>3 DEF Agrees
    <3>6. ASSUME \A e \in Dexos : ~Changed(e)
          PROVE  Agrees(Edited(d))
      <4>1. order[d] \notin {"install", "remove"}
        BY <2>p, <3>1, <3>6 DEF Phase, Own, Changed
      <4>2. QED
        BY <1>i, <3>6, <4>1, EditedAgrees DEF Settled
    <3>7. Copied'
      BY <1>i, <2>o, <3>1, <3>2, <3>3, <3>5, <3>6 DEF Copied
    <3>8. QED
      BY <3>4, <3>7 DEF EntryInv
  <2>11. CASE Save(d)
    <3>1. /\ UNCHANGED <<order, folder, aside, copy, holds>>
          /\ at[d] = "saving" /\ at'[d] = "saved" /\ entry' = copy[d]
      BY <2>11, <2>t DEF Save, lockVars
    <3>2. \A e \in Dexos : e # d => at[e] # "saving"
      BY <1>s, <2>p, <3>1, OneHolds DEF PhaseInv, Phase, Locks
    <3>3. ~Changed(d)'
      BY <3>1 DEF Changed, Seeking
    <3>4. \A x : Agrees(x) => Agrees(x)'
      BY <2>o, <2>e, <3>1 DEF Agrees
    <3>5. ASSUME \A e \in Dexos : ~Changed(e)'
          PROVE  Agrees(entry)'
      <4>1. (\A e \in Dexos : ~Changed(e)) \/ Changed(d)
        BY <2>c, <3>5
      <4>2. QED
        BY <1>i, <3>1, <3>4, <4>1 DEF Copied
    <3>6. Placing' /\ Placed' /\ Copied'
      BY <1>i, <2>c, <2>o, <3>1, <3>2, <3>3 DEF Placing, Placed, Copied
    <3>7. QED
      BY <3>5, <3>6 DEF EntryInv, Settled
  <2>12. CASE Saved(d) \/ Leave(d)
    <3>1. /\ UNCHANGED <<order, folder, aside, entry, copy>>
          /\ at[d] \in {"saved", "leaving"} /\ at'[d] \in {"leaving", "done"}
      BY <2>12, <2>t DEF Saved, Leave, storeVars
    <3>2. QED
      BY <1>1, <1>s, <3>1, EntryLeft DEF Changed, Seeking
  <2>13. CASE Die(d)
    BY <2>13, <2>t DEF Die, Sound
  <2>14. CASE SaveFails(d)
    <3>1. /\ UNCHANGED <<order, folder, aside, entry, copy, holds>>
          /\ at[d] = "saving" /\ at'[d] = "saved"
          /\ "plugin" \in holds[d] => d \in halfway'
      BY <2>14, <2>t DEF SaveFails, storeVars
    <3>2. CASE Changed(d)
      BY <1>1, <1>s, <3>1, <3>2, LeftHalfway DEF Changed
    <3>3. CASE ~Changed(d)
      BY <1>1, <1>s, <3>1, <3>3, EntryLeft DEF Changed, Seeking
    <3>4. QED
      BY <3>2, <3>3
  <2>15. QED
    BY <1>1, <2>1, <2>2, <2>3, <2>4, <2>5, <2>6, <2>7, <2>8, <2>9, <2>10, <2>11, <2>12, <2>13,
       <2>14
       DEF DexoStep
<1>2. ASSUME NEW l \in Locks, GrowOld(l)
      PROVE  EntryInv'
  BY <1>2 DEF GrowOld, storeVars, EntryInv, Sound, Placing, Placed, Settled, Copied, Changed, Agrees,
              Suits
<1>3. CASE UNCHANGED installVars
  BY <1>3 DEF installVars, EntryInv, Sound, Placing, Placed, Settled, Copied, Changed, Agrees, Suits
<1>4. QED
  BY <1>1, <1>2, <1>3 DEF InstallNext

\* The state file describes the plugin in place whenever every command has ended, though a write
\* of it may fail -- only the version of an install that could not write its entry goes without
\* one: the plugin's lock keeps apart those that change the folder, the state's those that write.
THEOREM EntryFits == InstallSpec => []EntryMatchesFolder
<1>1. InstallInit => PhaseInv /\ HolderInv /\ EntryInv
  BY DEF InstallInit, PhaseInv, Phase, Own, Seeking, HolderInv, EntryInv, Placing, Placed, Settled,
         Copied, Changed, Agrees, Suits, Entry
<1>2. EntryInv => EntryMatchesFolder
  <2> SUFFICES ASSUME EntryInv, AtRest, wronged = {}
               PROVE  Loaded.version = folder \/ folder \in halfway
    BY DEF EntryMatchesFolder
  <2>1. Sound /\ \A d \in Dexos : ~Changed(d)
    BY DEF Sound, AtRest, Changed, Seeking
  <2>2. Suits(entry, folder)
    BY <2>1 DEF EntryInv, Settled, Agrees
  <2>3. QED
    BY <2>2 DEF Suits, Loaded, Entry, NoEntry
<1>3. QED
  BY <1>1, <1>2, InstallTypes, PhaseNext, HolderNext, EntryNext, PTL DEF InstallSpec

-----------------------------------------------------------------------------
(* A disabled plugin stays so. *)

LeftDisabled ==
    /\ began = Entry(Shipped, FALSE)
    /\ \A d \in Dexos : order[d] \in {"install", "disable", "other"}
    /\ ~unseen
Off(x) == x.version # Nothing /\ ~x.enabled
OffInv == LeftDisabled => Off(entry) /\ \A d \in Dexos : at[d] = "saving" => Off(copy[d])

LEMMA OffIsEntry ==
    ASSUME Off(entry)
    PROVE  entry # NoEntry
BY DEF Off, NoEntry

LEMMA EditedOff ==
    ASSUME InstallTypeOK, NEW d \in Dexos, Off(entry), folder # Nothing,
           order[d] \in {"install", "disable", "other"}
    PROVE  Off(Edited(d))
<1>1. entry # NoEntry /\ Loaded = entry
  <2>1. entry # NoEntry
    BY OffIsEntry
  <2>2. QED
    BY <2>1 DEF Loaded
<1>2. CASE order[d] = "install"
  <2>1. d # Nothing
    BY InstallAssumption
  <2>2. Edited(d) = Entry(d, FALSE)
    BY <1>1, <1>2 DEF Edited, Off, InstallTypeOK
  <2>3. QED
    BY <2>1, <2>2 DEF Off, Entry
<1>3. CASE order[d] = "disable"
  <2>1. Edited(d) = [entry EXCEPT !.enabled = FALSE]
    BY <1>1, <1>3 DEF Edited
  <2>2. QED
    BY <2>1 DEF Off, InstallTypeOK
<1>4. CASE order[d] = "other"
  BY <1>1, <1>4 DEF Edited
<1>5. QED
  BY <1>2, <1>3, <1>4

LEMMA OffNext == InstallTypeOK /\ OffInv /\ [InstallNext]_installVars => OffInv'
<1> SUFFICES ASSUME InstallTypeOK, OffInv, [InstallNext]_installVars, LeftDisabled'
             PROVE  OffInv'
  BY DEF OffInv
<1>1. ASSUME NEW d \in Dexos, DexoStep(d)
      PROVE  OffInv'
  <2>t. /\ \E S : at \in [Dexos -> S]
        /\ \E S : copy \in [Dexos -> S]
    BY DexoTypes
  <2>o. \A e \in Dexos : e # d => at'[e] = at[e] /\ copy'[e] = copy[e]
    BY <1>1, Others
  <2>1. CASE Edit(d)
    <3>1. /\ UNCHANGED <<order, began, entry, folder>>
          /\ copy'[d] = Edited(d)
          /\ unseen' = (unseen \/ (folder = Nothing /\ entry # NoEntry))
      BY <2>1, <2>t DEF Edit, lockVars
    <3>2. LeftDisabled
      BY <3>1 DEF LeftDisabled
    <3>3. Off(entry) /\ \A e \in Dexos : at[e] = "saving" => Off(copy[e])
      BY <3>2 DEF OffInv
    <3>4. folder # Nothing
      <4>1. entry # NoEntry
        BY <3>3, OffIsEntry
      <4>2. QED
        BY <3>1, <4>1 DEF LeftDisabled
    <3>5. Off(Edited(d))
      BY <3>2, <3>3, <3>4, EditedOff DEF LeftDisabled
    <3>6. QED
      BY <2>o, <3>1, <3>3, <3>5 DEF OffInv, Off
  <2>2. CASE Save(d)
    <3>1. /\ UNCHANGED <<order, began, unseen, copy>>
          /\ at[d] = "saving" /\ at'[d] = "saved" /\ entry' = copy[d]
      BY <2>2, <2>t DEF Save, lockVars
    <3>2. LeftDisabled
      BY <3>1 DEF LeftDisabled
    <3>3. QED
      BY <2>o, <3>1, <3>2 DEF OffInv, Off
  <2>3. CASE ~Edit(d) /\ ~Save(d)
    <3>1. UNCHANGED <<order, began, unseen, entry, copy>>
      <4>1. CASE Begin(d) \/ Create(d) \/ JudgeStale(d) \/ RemoveStale(d) \/ TryAgain(d)
        BY <4>1 DEF Begin, Create, JudgeStale, RemoveStale, TryAgain, lockVars, storeVars
      <4>2. CASE \/ GiveUpLock(d) \/ Refuse(d) \/ NothingThere(d) \/ SaveFails(d) \/ Saved(d)
                 \/ Leave(d) \/ Die(d)
        BY <4>2 DEF GiveUpLock, Refuse, NothingThere, SaveFails, Saved, Leave, Die, storeVars
      <4>3. CASE MoveAside(d) \/ Place(d) \/ PutBack(d)
        BY <4>3 DEF MoveAside, Place, PutBack
      <4>4. QED
        BY <1>1, <2>3, <4>1, <4>2, <4>3 DEF DexoStep
    <3>2. at'[d] # "saving"
      <4>1. CASE Begin(d) \/ Create(d) \/ JudgeStale(d) \/ RemoveStale(d) \/ TryAgain(d)
        BY <2>t, <4>1 DEF Begin, Create, JudgeStale, RemoveStale, TryAgain, After
      <4>2. CASE \/ GiveUpLock(d) \/ Refuse(d) \/ NothingThere(d) \/ SaveFails(d) \/ Saved(d)
                 \/ Leave(d) \/ Die(d)
        BY <2>t, <4>2 DEF GiveUpLock, Refuse, NothingThere, SaveFails, Saved, Leave, Die
      <4>3. CASE MoveAside(d) \/ Place(d) \/ PutBack(d)
        BY <2>t, <4>3 DEF MoveAside, Place, PutBack
      <4>4. QED
        BY <1>1, <2>3, <4>1, <4>2, <4>3 DEF DexoStep
    <3>3. LeftDisabled
      BY <3>1 DEF LeftDisabled
    <3>4. QED
      BY <2>o, <3>1, <3>2, <3>3 DEF OffInv, Off
  <2>4. QED
    BY <2>1, <2>2, <2>3
<1>2. ASSUME NEW l \in Locks, GrowOld(l)
      PROVE  OffInv'
  BY <1>2 DEF GrowOld, storeVars, OffInv, LeftDisabled, Off
<1>3. CASE UNCHANGED installVars
  BY <1>3 DEF installVars, OffInv, LeftDisabled, Off
<1>4. QED
  BY <1>1, <1>2, <1>3 DEF InstallNext

\* No update and no change to another plugin enables a plugin that was disabled, with its locks
\* or without, unless one reads the state file while the folder is moved aside.
THEOREM DisabledStays == InstallSpec => []StaysDisabled
<1>1. InstallInit => OffInv
  BY DEF InstallInit, OffInv, LeftDisabled, Off, Entry, Shipped, Nothing
<1>2. OffInv => StaysDisabled
  BY DEF OffInv, LeftDisabled, Off, StaysDisabled
<1>3. QED
  BY <1>1, <1>2, InstallTypes, OffNext, PTL DEF InstallSpec
-----------------------------------------------------------------------------
(* The DuckDB connection. *)

(* The marks: what forgetting one, adding one and dropping the oldest keep. *)

LEMMA FirstOfThem ==
    ASSUME NEW I \in SUBSET Nat, I # {}
    PROVE  \E i \in I : \A k \in I : i <= k
<1> DEFINE R == OpToRel(<, Nat)
<1>1. \E i \in I : \A k \in I : ~(<<k, i>> \in R)
  <2>1. IsWellFoundedOn(R, Nat)
    BY NatLessThanWellFounded
  <2> HIDE DEF R
  <2>2. QED
    BY <2>1, WFMin
<1>2. \A k, i \in Nat : k < i => <<k, i>> \in R
  BY DEF OpToRel
<1> HIDE DEF R
<1>3. PICK i \in I : \A k \in I : ~(<<k, i>> \in R)
  BY <1>1
<1>4. ASSUME NEW k \in I
      PROVE  i <= k
  <2>1. ~(k < i)
    BY <1>2, <1>3
  <2>2. QED
    BY <2>1
<1>5. QED
  BY <1>4

LEMMA Forgotten ==
    ASSUME NEW S, marks \in Seq(S), NEW q
    PROVE  /\ Forget(q) \in Seq(S)
           /\ Len(Forget(q)) <= Len(marks)
           /\ \A p : p # q /\ Contains(marks, p) => Contains(Forget(q), p)
<1>1. CASE ~Contains(marks, q)
  BY <1>1 DEF Forget, RemoveFirst, Contains
<1>2. CASE Contains(marks, q)
  <2> DEFINE I == {i \in 1..Len(marks) : marks[i] = q}
             n == SelectInSeq(marks, LAMBDA m : m = q)
             older == SubSeq(marks, 1, n - 1)
             newer == SubSeq(marks, n + 1, Len(marks))
  <2>1. n \in 1..Len(marks) /\ marks[n] = q
    <3>1. I # {} /\ I \subseteq Nat
      BY <1>2 DEF Contains
    <3>2. \E i \in I : \A k \in I : i <= k
      BY <3>1, FirstOfThem
    <3>3. n = CHOOSE i \in I : \A k \in I : i <= k
      BY <3>1 DEF SelectInSeq, Min
    <3>4. QED
      BY <3>2, <3>3
  <2>2. Forget(q) = older \o newer
    BY <1>2 DEF Forget, RemoveFirst, RemoveAt, Contains
  <2>3. \A i \in 1..Len(marks) : marks[i] \in S
    BY ElementOfSeq
  <2> HIDE DEF n
  <2>4. /\ older \in Seq(S) /\ Len(older) = n - 1
        /\ \A i \in 1..(n - 1) : older[i] = marks[i]
    BY <2>1, <2>3, SubSeqProperties
  <2>5. /\ newer \in Seq(S) /\ Len(newer) = Len(marks) - n
        /\ \A i \in 1..(Len(marks) - n) : newer[i] = marks[n + i]
    BY <2>1, <2>3, SubSeqProperties
  <2> HIDE DEF older, newer
  <2>6. /\ older \o newer \in Seq(S)
        /\ Len(older \o newer) = Len(marks) - 1
        /\ \A i \in 1..(n - 1) : (older \o newer)[i] = marks[i]
        /\ \A i \in n..(Len(marks) - 1) : (older \o newer)[i] = marks[i + 1]
    <3>1. /\ older \o newer \in Seq(S)
          /\ Len(older \o newer) = Len(older) + Len(newer)
          /\ \A i \in 1..(Len(older) + Len(newer)) :
                (older \o newer)[i] = IF i <= Len(older) THEN older[i] ELSE newer[i - Len(older)]
      BY <2>4, <2>5, ConcatProperties
    <3>2. n \in Nat /\ Len(marks) \in Nat
      BY <2>1
    <3>3. \A i \in 1..(n - 1) : (older \o newer)[i] = marks[i]
      BY <2>1, <2>4, <2>5, <3>1, <3>2
    <3>4. ASSUME NEW i \in n..(Len(marks) - 1)
          PROVE  (older \o newer)[i] = marks[i + 1]
      <4>1. (older \o newer)[i] = newer[i - (n - 1)]
        BY <2>1, <2>4, <2>5, <3>1, <3>2
      <4>2. i - (n - 1) \in 1..(Len(marks) - n) /\ n + (i - (n - 1)) = i + 1
        BY <2>1, <3>2
      <4>3. QED
        BY <2>5, <4>1, <4>2
    <3>5. QED
      BY <2>1, <2>4, <2>5, <3>1, <3>2, <3>3, <3>4
  <2>7. ASSUME NEW p, p # q, Contains(marks, p)
        PROVE  Contains(older \o newer, p)
    <3>1. PICK i \in 1..Len(marks) : marks[i] = p
      BY <2>7 DEF Contains
    <3>2. CASE i < n
      <4>1. i \in 1..Len(older \o newer) /\ (older \o newer)[i] = p
        BY <2>1, <2>6, <3>1, <3>2
      <4>2. QED
        BY <4>1 DEF Contains
    <3>3. CASE i > n
      <4>1. i - 1 \in n..(Len(marks) - 1) /\ (i - 1) + 1 = i
        BY <2>1, <3>1, <3>3
      <4>2. (older \o newer)[i - 1] = p
        BY <2>6, <3>1, <4>1
      <4>3. i - 1 \in 1..Len(older \o newer)
        BY <2>1, <2>6, <4>1
      <4>4. QED
        BY <4>2, <4>3 DEF Contains
    <3>4. QED
      BY <2>1, <2>7, <3>1, <3>2, <3>3
  <2>8. QED
    BY <2>2, <2>6, <2>7
<1>3. QED
  BY <1>1, <1>2

LEMMA Noted ==
    ASSUME NEW S, marks \in Seq(S), NEW q \in S
    PROVE  /\ Append(marks, q) \in Seq(S)
           /\ Len(Append(marks, q)) = Len(marks) + 1
           /\ Contains(Append(marks, q), q)
           /\ \A p : Contains(marks, p) => Contains(Append(marks, q), p)
<1>1. /\ Append(marks, q) \in Seq(S)
      /\ Len(Append(marks, q)) = Len(marks) + 1
      /\ \A i \in 1..Len(marks) : Append(marks, q)[i] = marks[i]
      /\ Append(marks, q)[Len(marks) + 1] = q
  BY AppendProperties
<1>2. Len(marks) \in Nat
  OBVIOUS
<1>3. Contains(Append(marks, q), q)
  BY <1>1, <1>2 DEF Contains
<1>4. ASSUME NEW p, Contains(marks, p)
      PROVE  Contains(Append(marks, q), p)
  BY <1>1, <1>2, <1>4 DEF Contains
<1>5. QED
  BY <1>1, <1>3, <1>4

LEMMA OldestDropped ==
    ASSUME NEW S, NEW s \in Seq(S), s # <<>>
    PROVE  /\ Tail(s) \in Seq(S)
           /\ Len(Tail(s)) = Len(s) - 1
           /\ Contains(s, Head(s))
           /\ \A p : p # Head(s) /\ Contains(s, p) => Contains(Tail(s), p)
<1>1. /\ Tail(s) \in Seq(S)
      /\ Len(Tail(s)) = Len(s) - 1
      /\ \A i \in 1..Len(Tail(s)) : Tail(s)[i] = s[i + 1]
      /\ Head(s) = s[1]
      /\ Len(s) \in Nat \ {0}
  BY HeadTailProperties
<1>2. ASSUME NEW p, p # Head(s), Contains(s, p)
      PROVE  Contains(Tail(s), p)
  <2>1. PICK i \in 1..Len(s) : s[i] = p
    BY <1>2 DEF Contains
  <2>2. i - 1 \in 1..Len(Tail(s)) /\ Tail(s)[i - 1] = p
    BY <1>1, <1>2, <2>1
  <2>3. QED
    BY <2>2 DEF Contains
<1>3. QED
  BY <1>1, <1>2 DEF Contains

-----------------------------------------------------------------------------
(* Types, and who has the connection. *)

\* A statement that is looked for, or executes, is one the script has left.
LeftInv == \A q \in Queries : job[q] \in {"ready", "executing"} => left[q] > 0
DuckInv == DuckTypeOK /\ LeftInv

LEMMA DuckInitInv == DuckInit => DuckInv
<1> SUFFICES ASSUME DuckInit
             PROVE  DuckInv
  OBVIOUS
<1>1. marks \in Seq(asked) /\ Len(marks) <= Kept
  BY DuckAssumption DEF DuckInit
<1>2. QED
  BY <1>1, DuckAssumption DEF DuckInit, DuckInv, DuckTypeOK, LeftInv, Jobs

LEMMA DuckNextInv == DuckInv /\ [DuckNext]_duckVars => DuckInv'
<1> SUFFICES ASSUME DuckInv, [DuckNext]_duckVars
             PROVE  DuckInv'
  OBVIOUS
<1> USE DEF DuckInv, DuckTypeOK, LeftInv
<1>1. ASSUME NEW j \in Jobs, Submit(j) \/ TakeConnection(j) \/ LetGo(j)
      PROVE  DuckInv'
  <2>1. CASE Submit(j)
    BY <2>1 DEF Submit, Step, Jobs, duckHistory
  <2>2. CASE TakeConnection(j)
    BY <2>2 DEF TakeConnection, Step, Jobs, duckHistory
  <2>3. CASE LetGo(j)
    BY <2>3 DEF LetGo, Step, Jobs, duckHistory
  <2>4. QED
    BY <1>1, <2>1, <2>2, <2>3
<1>2. ASSUME NEW q \in Queries, StartQuery(q)
      PROVE  DuckInv'
  <2>1. Forget(q) \in Seq(asked) /\ Len(Forget(q)) <= Len(marks) /\ Len(marks) \in Nat
    BY Forgotten
  <2>2. Len(Forget(q)) <= Kept
    BY <2>1, DuckAssumption
  <2>3. QED
    BY <1>2, <2>1, <2>2 DEF StartQuery, Jobs, duckHistory
<1>3. ASSUME NEW q \in Queries, LookAtMark(q)
      PROVE  DuckInv'
  BY <1>3 DEF LookAtMark, Step, Jobs, duckHistory
<1>4. ASSUME NEW q \in Queries, BeginStatement(q)
      PROVE  DuckInv'
  BY <1>4 DEF BeginStatement, Step, Jobs
<1>5. ASSUME NEW q \in Queries, StatementEnds(q)
      PROVE  DuckInv'
  BY <1>5, DuckAssumption DEF StatementEnds, Step, Jobs, duckHistory
<1>6. ASSUME NEW q \in Queries, StatementFails(q)
      PROVE  DuckInv'
  BY <1>6 DEF StatementFails, Step, Jobs, duckHistory
<1>7. ASSUME NEW q \in Queries, EndQuery(q)
      PROVE  DuckInv'
  <2>1. Forget(q) \in Seq(asked) /\ Len(Forget(q)) <= Len(marks) /\ Len(marks) \in Nat
    BY Forgotten
  <2>2. Len(Forget(q)) <= Kept
    BY <2>1, DuckAssumption
  <2>3. QED
    BY <1>7, <2>1, <2>2 DEF EndQuery, Step, Jobs, duckHistory
<1>8. ASSUME NEW q \in Queries, Stop(q)
      PROVE  DuckInv'
  <2> DEFINE newer == IF Marked(q) THEN marks ELSE Append(marks, q)
             full == Len(newer) > Kept
  <2>1. /\ newer \in Seq(asked \cup {q})
        /\ Len(newer) <= Kept + 1
    <3>1. marks \in Seq(asked \cup {q})
      BY SeqMonotonic
    <3>2. QED
      BY <3>1, Noted, DuckAssumption
  <2>2. full => newer # <<>>
    BY <2>1, DuckAssumption
  <2>3. full => /\ Head(newer) \in asked \cup {q}
                /\ Tail(newer) \in Seq(asked \cup {q})
                /\ Len(Tail(newer)) <= Kept
    BY <2>1, <2>2, HeadTailProperties, DuckAssumption
  <2>4. /\ asked' = asked \cup {q}
        /\ marks' = IF full THEN Tail(newer) ELSE newer
        /\ evicted' = IF full THEN evicted \cup {Head(newer)} ELSE evicted
    BY <1>8 DEF Stop
  <2>5. ~full => Len(newer) <= Kept
    BY <2>1, DuckAssumption
  <2> HIDE DEF newer, full
  <2>6. marks' \in Seq(asked') /\ Len(marks') <= Kept /\ evicted' \subseteq asked'
    BY <2>1, <2>3, <2>4, <2>5
  <2>7. struck' \subseteq Jobs
    BY <1>8 DEF Stop, Executing
  <2>8. QED
    BY <1>8, <2>4, <2>6, <2>7 DEF Stop
<1>9. ASSUME NEW w \in Works, StartWork(w)
      PROVE  DuckInv'
  BY <1>9, DuckAssumption DEF StartWork, Jobs, duckHistory
<1>10. ASSUME NEW w \in Works, EndWork(w)
       PROVE  DuckInv'
  BY <1>10 DEF EndWork, Step, Jobs, duckHistory
<1>11. ASSUME NEW w \in Works, Abandon(w)
       PROVE  DuckInv'
  BY <1>11 DEF Abandon, duckHistory
<1>12. ASSUME NEW w \in Works, InterruptWork(w)
       PROVE  DuckInv'
  BY <1>12 DEF InterruptWork, Executing
<1>13. CASE UNCHANGED duckVars
  BY <1>13 DEF duckVars
<1>14. QED
  BY <1>1, <1>2, <1>3, <1>4, <1>5, <1>6, <1>7, <1>8, <1>9, <1>10, <1>11, <1>12, <1>13
     DEF DuckNext, QueryStep, WorkStep

\* What every variable of the connection may hold: the marks are of queries someone asked to
\* stop, and no more than are kept.
THEOREM DuckTypes == DuckSpec => []DuckTypeOK
<1>1. DuckInv => DuckTypeOK
  BY DEF DuckInv
<1>2. QED
  BY <1>1, DuckInitInv, DuckNextInv, PTL DEF DuckSpec

-----------------------------------------------------------------------------
(* Who is on the connection: one job, and Live names the query if it is one. *)

OnConnection == {"holding", "between", "ready", "executing", "ending", "leaving"}
InScript == {"between", "ready", "executing", "ending"}
OneInv ==
    /\ \A j \in Jobs : job[j] \in OnConnection => holder = j
    /\ \A q \in Queries : job[q] \in InScript => liveQuery = q
    /\ liveQuery # NoJob => job[liveQuery] \in InScript

LEMMA OneInit == DuckInit => OneInv
BY DEF DuckInit, OneInv, OnConnection, InScript, Jobs

LEMMA OneNext == DuckTypeOK /\ OneInv /\ [DuckNext]_duckVars => OneInv'
<1> SUFFICES ASSUME DuckTypeOK, OneInv, [DuckNext]_duckVars
             PROVE  OneInv'
  OBVIOUS
<1>t. /\ job \in [Jobs -> {"idle", "waiting", "holding", "between", "ready", "executing", "ending",
                            "leaving", "done"}]
      /\ liveQuery \in Queries \cup {NoJob}
      /\ NoJob \notin Jobs
      /\ Queries \subseteq Jobs /\ Works \subseteq Jobs /\ Queries \cap Works = {}
  BY DuckAssumption DEF DuckTypeOK, Jobs
<1> USE DEF OneInv, OnConnection, InScript
<1>1. ASSUME NEW j \in Jobs, Submit(j)
      PROVE  OneInv'
  BY <1>1, <1>t DEF Submit, Step
<1>2. ASSUME NEW j \in Jobs, TakeConnection(j)
      PROVE  OneInv'
  BY <1>2, <1>t DEF TakeConnection, Step
<1>3. ASSUME NEW j \in Jobs, LetGo(j)
      PROVE  OneInv'
  BY <1>3, <1>t DEF LetGo, Step
<1>4. ASSUME NEW q \in Queries, StartQuery(q)
      PROVE  OneInv'
  BY <1>4, <1>t DEF StartQuery
<1>5. ASSUME NEW q \in Queries, LookAtMark(q)
      PROVE  OneInv'
  BY <1>5, <1>t DEF LookAtMark, Step
<1>6. ASSUME NEW q \in Queries, BeginStatement(q)
      PROVE  OneInv'
  BY <1>6, <1>t DEF BeginStatement, Step
<1>7. ASSUME NEW q \in Queries, StatementEnds(q)
      PROVE  OneInv'
  BY <1>7, <1>t DEF StatementEnds, Step
<1>8. ASSUME NEW q \in Queries, StatementFails(q)
      PROVE  OneInv'
  BY <1>8, <1>t DEF StatementFails, Step
<1>9. ASSUME NEW q \in Queries, EndQuery(q)
      PROVE  OneInv'
  BY <1>9, <1>t DEF EndQuery, Step
<1>10. ASSUME NEW q \in Queries, Stop(q)
       PROVE  OneInv'
  BY <1>10 DEF Stop
<1>11. ASSUME NEW w \in Works, StartWork(w) \/ EndWork(w)
       PROVE  OneInv'
  BY <1>11, <1>t DEF StartWork, EndWork, Step
<1>12. ASSUME NEW w \in Works, Abandon(w) \/ InterruptWork(w)
       PROVE  OneInv'
  BY <1>12 DEF Abandon, InterruptWork
<1>13. CASE UNCHANGED duckVars
  BY <1>13 DEF duckVars
<1>14. QED
  BY <1>1, <1>2, <1>3, <1>4, <1>5, <1>6, <1>7, <1>8, <1>9, <1>10, <1>11, <1>12, <1>13
     DEF DuckNext, QueryStep, WorkStep

\* What executes while Live names a query is a statement of that query.
LEMMA OnlyItExecutes ==
    ASSUME DuckTypeOK, OneInv, NEW q \in Queries, liveQuery = q
    PROVE  Executing \subseteq {q}
BY DuckAssumption DEF OneInv, Executing, OnConnection, InScript, Jobs

LEMMA StruckNext ==
    DuckTypeOK /\ OneInv /\ OnlyTheAskedAreStruck /\ [DuckNext]_duckVars => OnlyTheAskedAreStruck'
<1> SUFFICES ASSUME DuckTypeOK, OneInv, OnlyTheAskedAreStruck, [DuckNext]_duckVars
             PROVE  OnlyTheAskedAreStruck'
  OBVIOUS
<1> USE DEF OnlyTheAskedAreStruck
<1>1. ASSUME NEW j \in Jobs, Submit(j) \/ TakeConnection(j) \/ LetGo(j)
      PROVE  OnlyTheAskedAreStruck'
  BY <1>1 DEF Submit, TakeConnection, LetGo, duckHistory
<1>2. ASSUME NEW q \in Queries, \/ StartQuery(q) \/ LookAtMark(q) \/ BeginStatement(q)
                                \/ StatementEnds(q) \/ StatementFails(q) \/ EndQuery(q)
      PROVE  OnlyTheAskedAreStruck'
  BY <1>2 DEF StartQuery, LookAtMark, BeginStatement, StatementEnds, StatementFails, EndQuery,
              duckHistory
<1>3. ASSUME NEW q \in Queries, Stop(q)
      PROVE  OnlyTheAskedAreStruck'
  BY <1>3, OnlyItExecutes DEF Stop
<1>4. ASSUME NEW w \in Works, StartWork(w) \/ EndWork(w) \/ Abandon(w)
      PROVE  OnlyTheAskedAreStruck'
  BY <1>4 DEF StartWork, EndWork, Abandon, duckHistory
<1>5. ASSUME NEW w \in Works, InterruptWork(w)
      PROVE  OnlyTheAskedAreStruck'
  BY <1>5, DuckAssumption DEF InterruptWork
<1>6. CASE UNCHANGED duckVars
  BY <1>6 DEF duckVars
<1>7. QED
  BY <1>1, <1>2, <1>3, <1>4, <1>5, <1>6 DEF DuckNext, QueryStep, WorkStep

\* An interrupt that is meant for a query reaches that query: stop() holds the lock of Live,
\* where the query that runs is named for as long as it is on the connection.
THEOREM OnlyAskedStruck == DuckSpec => []OnlyTheAskedAreStruck
<1>1. DuckInit => OnlyTheAskedAreStruck
  BY DEF DuckInit, OnlyTheAskedAreStruck
<1>2. DuckInv => DuckTypeOK
  BY DEF DuckInv
<1>3. QED
  BY <1>1, <1>2, DuckInitInv, DuckNextInv, OneInit, OneNext, StruckNext, PTL DEF DuckSpec

-----------------------------------------------------------------------------
(* What was asked to stop goes no further. *)

\* The mark of a query stays until its script has seen it, wherever the request landed: only
\* a statement already looked for may still begin, and none has since the query was asked.
Unseen == {"waiting", "holding", "between", "ready", "executing"}
NoneBegan == {"idle", "waiting", "holding", "ready"}
MarkInv ==
    \A q \in Queries \ evicted :
        /\ begun[q] <= 1
        /\ q \notin asked => begun[q] = 0
        /\ q \in asked => job[q] # "idle"
        /\ q \in asked /\ job[q] \in Unseen => Marked(q)
        /\ q \in asked /\ job[q] \in NoneBegan => begun[q] = 0

\* A step that leaves the marks, the requests and the counts alone, and brings a query that
\* was asked to stop no nearer to a statement.
LEMMA MarksKept ==
    ASSUME MarkInv, UNCHANGED <<marks, asked, evicted, begun>>,
           \A q \in Queries \ evicted :
               \/ job'[q] = job[q]
               \/ job'[q] \in {"ending", "leaving", "done"}
               \/ job[q] = "idle" /\ job'[q] = "waiting"
               \/ job[q] = "waiting" /\ job'[q] = "holding"
               \/ job[q] = "executing" /\ job'[q] = "between"
    PROVE  MarkInv'
BY DEF MarkInv, Marked, Unseen, NoneBegan

LEMMA MarkNext == DuckTypeOK /\ MarkInv /\ [DuckNext]_duckVars => MarkInv'
<1> SUFFICES ASSUME DuckTypeOK, MarkInv, [DuckNext]_duckVars
             PROVE  MarkInv'
  OBVIOUS
<1>t. /\ job \in [Jobs -> {"idle", "waiting", "holding", "between", "ready", "executing", "ending",
                            "leaving", "done"}]
      /\ Queries \subseteq Jobs /\ Works \subseteq Jobs /\ Queries \cap Works = {}
      /\ marks \in Seq(asked) /\ asked \subseteq Queries /\ evicted \subseteq asked
      /\ begun \in [Queries -> Nat]
  BY DuckAssumption DEF DuckTypeOK, Jobs
<1>1. ASSUME NEW j \in Jobs, Submit(j) \/ TakeConnection(j) \/ LetGo(j)
      PROVE  MarkInv'
  <2>1. CASE Submit(j)
    BY <1>t, <2>1, MarksKept DEF Submit, Step, duckHistory
  <2>2. CASE TakeConnection(j)
    BY <1>t, <2>2, MarksKept DEF TakeConnection, Step, duckHistory
  <2>3. CASE LetGo(j)
    BY <1>t, <2>3, MarksKept DEF LetGo, Step, duckHistory
  <2>4. QED
    BY <1>1, <2>1, <2>2, <2>3
<1>2. ASSUME NEW q \in Queries, StartQuery(q)
      PROVE  MarkInv'
  <2>1. UNCHANGED <<asked, evicted, begun>>
    BY <1>2 DEF StartQuery, duckHistory
  <2>2. CASE Marked(q)
    <3>1. marks' = Forget(q) /\ job' = [job EXCEPT ![q] = "leaving"]
      BY <1>2, <2>2 DEF StartQuery
    <3>2. \A p : p # q /\ Marked(p) => Marked(p)'
      BY <1>t, <3>1, Forgotten DEF Marked
    <3>3. QED
      BY <1>t, <2>1, <3>1, <3>2 DEF MarkInv, Unseen, NoneBegan
  <2>3. CASE ~Marked(q)
    <3>1. marks' = marks /\ job' = [job EXCEPT ![q] = "between"] /\ job[q] = "holding"
      BY <1>2, <2>3 DEF StartQuery
    <3>2. QED
      BY <1>t, <2>1, <2>3, <3>1 DEF MarkInv, Marked, Unseen, NoneBegan
  <2>4. QED
    BY <2>2, <2>3
<1>3. ASSUME NEW q \in Queries, LookAtMark(q)
      PROVE  MarkInv'
  <2>1. UNCHANGED <<marks, asked, evicted, begun>> /\ job[q] = "between"
    BY <1>3 DEF LookAtMark, Step, duckHistory
  <2>2. CASE Marked(q)
    <3>1. job' = [job EXCEPT ![q] = "ending"]
      BY <1>3, <2>2 DEF LookAtMark, Step
    <3>2. QED
      BY <1>t, <2>1, <3>1, MarksKept
  <2>3. CASE ~Marked(q)
    <3>1. job' = [job EXCEPT ![q] = "ready"]
      BY <1>3, <2>3 DEF LookAtMark, Step
    <3>2. QED
      BY <1>t, <2>1, <2>3, <3>1 DEF MarkInv, Marked, Unseen, NoneBegan
  <2>4. QED
    BY <2>2, <2>3
<1>4. ASSUME NEW q \in Queries, BeginStatement(q)
      PROVE  MarkInv'
  <2>1. /\ UNCHANGED <<marks, asked, evicted>>
        /\ job[q] = "ready" /\ job' = [job EXCEPT ![q] = "executing"]
        /\ begun' = IF q \in asked THEN [begun EXCEPT ![q] = @ + 1] ELSE begun
    BY <1>4 DEF BeginStatement, Step
  <2>2. QED
    BY <1>t, <2>1 DEF MarkInv, Marked, Unseen, NoneBegan
<1>5. ASSUME NEW q \in Queries, StatementEnds(q)
      PROVE  MarkInv'
  BY <1>5, <1>t, MarksKept DEF StatementEnds, Step, duckHistory
<1>6. ASSUME NEW q \in Queries, StatementFails(q)
      PROVE  MarkInv'
  BY <1>6, <1>t, MarksKept DEF StatementFails, Step, duckHistory
<1>7. ASSUME NEW q \in Queries, EndQuery(q)
      PROVE  MarkInv'
  <2>1. /\ UNCHANGED <<asked, evicted, begun>>
        /\ job[q] = "ending" /\ job' = [job EXCEPT ![q] = "leaving"]
        /\ marks' = Forget(q)
    BY <1>7 DEF EndQuery, Step, duckHistory
  <2>2. \A p : p # q /\ Marked(p) => Marked(p)'
    BY <1>t, <2>1, Forgotten DEF Marked
  <2>3. QED
    BY <1>t, <2>1, <2>2 DEF MarkInv, Unseen, NoneBegan
<1>8. ASSUME NEW q \in Queries, Stop(q)
      PROVE  MarkInv'
  <2> DEFINE newer == IF Marked(q) THEN marks ELSE Append(marks, q)
             full == Len(newer) > Kept
  <2>1. /\ newer \in Seq(Queries)
        /\ Contains(newer, q)
        /\ \A p : Marked(p) => Contains(newer, p)
    <3>1. marks \in Seq(Queries)
      BY <1>t, SeqMonotonic
    <3>2. QED
      BY <3>1, Noted DEF Marked
  <2>2. /\ UNCHANGED <<job, begun>>
        /\ job[q] # "idle"
        /\ asked' = asked \cup {q}
        /\ marks' = IF full THEN Tail(newer) ELSE newer
        /\ evicted' = IF full THEN evicted \cup {Head(newer)} ELSE evicted
    BY <1>8 DEF Stop
  <2>3. full => newer # <<>>
    BY <2>1, DuckAssumption
  <2> HIDE DEF newer, full
  <2>4. \A p \in Queries \ evicted' : p = q \/ Marked(p) => Marked(p)'
    BY <2>1, <2>2, <2>3, OldestDropped DEF Marked
  <2>5. evicted \subseteq evicted'
    BY <2>2
  <2>6. QED
    BY <1>t, <2>2, <2>4, <2>5 DEF MarkInv, NoneBegan
<1>9. ASSUME NEW w \in Works, WorkStep(w)
      PROVE  MarkInv'
  <2>1. UNCHANGED <<marks, asked, evicted, begun>>
    BY <1>9 DEF WorkStep, StartWork, EndWork, Abandon, InterruptWork, duckHistory
  <2>2. \A q \in Queries : job'[q] = job[q]
    BY <1>9, <1>t DEF WorkStep, StartWork, EndWork, Abandon, InterruptWork, Step
  <2>3. QED
    BY <2>1, <2>2, MarksKept
<1>10. CASE UNCHANGED duckVars
  BY <1>10, MarksKept DEF duckVars
<1>11. QED
  BY <1>1, <1>2, <1>3, <1>4, <1>5, <1>6, <1>7, <1>8, <1>9, <1>10 DEF DuckNext, QueryStep

\* A script asked to stop begins no statement beyond the one it had already looked for: it
\* finds its mark between any two, for its mark leaves with the script only.
THEOREM NoFurther == DuckSpec => []AskedBeginsNoFurther
<1>1. DuckInit => MarkInv
  BY DEF DuckInit, MarkInv
<1>2. DuckInv => DuckTypeOK
  BY DEF DuckInv
<1>3. MarkInv => AskedBeginsNoFurther
  BY DEF MarkInv, AskedBeginsNoFurther
<1>4. QED
  BY <1>1, <1>2, <1>3, DuckInitInv, DuckNextInv, MarkNext, PTL DEF DuckSpec
=============================================================================
