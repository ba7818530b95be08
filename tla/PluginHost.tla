----------------------------- MODULE PluginHost -----------------------------
(***************************************************************************)
(* The process of one plugin (plugin/host.rs): started by the first        *)
(* connection that needs it, shared by all its sessions, stopped once it   *)
(* has been idle, started again after a crash within a budget.  With the   *)
(* connections that count themselves in and out (plugin/proxy.rs), the     *)
(* caller that may drop one while it opens (app/connect.rs), the timers,   *)
(* and the removal of the plugin (plugin/mod.rs).                          *)
(*                                                                         *)
(* Time is what is left of each timer and the age of each crash.           *)
(***************************************************************************)
EXTENDS Naturals, Sequences, FiniteSets

CONSTANTS
    Connects,   \* connections made, each a session once open
    MaxProcs,   \* bound: how many times the process is started
    Restarts,   \* RESTARTS
    Window,     \* the minute the crashes are counted in
    Idle        \* IDLE

Nobody == "nobody"

ASSUME HostAssumption ==
    /\ MaxProcs \in Nat \ {0}
    /\ Restarts \in Nat
    /\ Window \in Nat \ {0}
    /\ Idle \in Nat \ {0}
    /\ IsFiniteSet(Connects)
    /\ Nobody \notin Connects

Procs == 1..MaxProcs
Tickets == 0..(2 * Cardinality(Connects))

VARIABLES
    live,      \* HostState.live: a process, or 0
    sessions,  \* HostState.sessions
    ticket,    \* HostState.ticket
    crashes,   \* HostState.crashes: the age of each
    starting,  \* who holds the `starting` mutex
    conn,      \* where each connection is in its life
    on,        \* the process it is on, or 0
    started,   \* how many processes were started
    running,   \* the processes that run
    over,    \* those whose conversation is over
    stopped,   \* those stopped on purpose
    stopping,  \* taken out of HostState by stop(), to be stopped next
    timers,    \* idle timers: what is left of each, by its ticket; see None
    removed,   \* the plugin was removed, disabled or updated
    failed,    \* history: the age of every start that failed
    hasty,     \* history: connections made while an idle timer had decided
    idled,     \* history: processes an idle timer stopped
    adrift     \* history: processes whose connection was dropped in the handshake

budgetVars == <<crashes, failed>>
timeVars == <<timers, hasty, idled>>
procVars == <<started, running, over, stopped, stopping, adrift>>
hostStateVars == <<live, sessions, ticket, crashes, starting, conn, on, started, running, over,
                   stopped, stopping, timers, removed, failed, hasty, idled, adrift>>

None == Idle + 1        \* no timer with this ticket
Decided == Idle + 2     \* it looked, and is about to call stop()
Connecting == {"counted", "spawning", "handshaking", "opening"}
Active == Connecting \cup {"open", "failing"}

HostInit ==
    /\ live = 0
    /\ sessions = 0
    /\ ticket = 0
    /\ crashes = <<>>
    /\ starting = Nobody
    /\ conn = [c \in Connects |-> "idle"]
    /\ on = [c \in Connects |-> 0]
    /\ started = 0
    /\ running = {}
    /\ over = {}
    /\ stopped = {}
    /\ stopping = {}
    /\ timers = [t \in Tickets |-> None]
    /\ removed = FALSE
    /\ failed = <<>>
    /\ hasty = {}
    /\ idled = {}
    /\ adrift = {}

-----------------------------------------------------------------------------
(* A connection, PluginFactory::connect. *)

\* session_opened: counted from the start.
Connect(c) ==
    /\ conn[c] = "idle"
    /\ ~removed
    /\ conn' = [conn EXCEPT ![c] = "counted"]
    /\ sessions' = sessions + 1
    /\ ticket' = ticket + 1
    /\ hasty' = IF \E t \in Tickets : timers[t] = Decided THEN hasty \cup {c} ELSE hasty
    /\ UNCHANGED <<live, starting, on, procVars, timers, removed, idled, budgetVars>>

\* The crashes of the last minute -- they are kept oldest first -- and whether one more start
\* is allowed.
Recent(ages) == SubSeq(ages, Cardinality({i \in DOMAIN ages : ages[i] >= Window}) + 1, Len(ages))
Spent(ages) == Len(ages) > Restarts

\* live(), up to the start: the process there is, or the end of one that is over and a look
\* at the crashes.  The reap ends a process that broke the protocol and still runs.
Reuse(c) ==
    /\ conn[c] = "counted"
    /\ starting = Nobody
    /\ live # 0 /\ live \notin over
    /\ conn' = [conn EXCEPT ![c] = "opening"]
    /\ on' = [on EXCEPT ![c] = live]
    /\ UNCHANGED <<live, sessions, ticket, starting, procVars, timeVars, removed, budgetVars>>

Look(c) ==
    LET crashed == live # 0 /\ live \notin stopped
        ages == Recent(IF crashed THEN Append(crashes, 0) ELSE crashes) IN
    /\ conn[c] = "counted"
    /\ starting = Nobody
    /\ live = 0 \/ live \in over
    /\ live' = 0
    /\ running' = running \ {live}
    /\ crashes' = ages
    /\ failed' = IF crashed THEN Append(failed, 0) ELSE failed
    /\ IF Spent(ages)
       THEN conn' = [conn EXCEPT ![c] = "failing"] /\ UNCHANGED starting
       ELSE conn' = [conn EXCEPT ![c] = "spawning"] /\ starting' = c
    /\ UNCHANGED <<sessions, ticket, on, started, over, stopped, stopping, adrift, timeVars,
                   removed>>

Spawn(c) ==
    /\ conn[c] = "spawning"
    /\ started < MaxProcs
    /\ started' = started + 1
    /\ running' = running \cup {started'}
    /\ on' = [on EXCEPT ![c] = started']
    /\ conn' = [conn EXCEPT ![c] = "handshaking"]
    /\ UNCHANGED <<live, sessions, ticket, starting, over, stopped, stopping, adrift, timeVars,
                   removed, budgetVars>>

\* The executable is not there, or does not run: nothing crashed.
SpawnFails(c) ==
    /\ conn[c] = "spawning"
    /\ conn' = [conn EXCEPT ![c] = "failing"]
    /\ starting' = Nobody
    /\ UNCHANGED <<live, sessions, ticket, on, procVars, timeVars, removed, budgetVars>>

Publish(c) ==
    /\ conn[c] = "handshaking"
    /\ on[c] \notin over
    /\ live' = on[c]
    /\ starting' = Nobody
    /\ conn' = [conn EXCEPT ![c] = "opening"]
    /\ UNCHANGED <<sessions, ticket, on, procVars, timeVars, removed, budgetVars>>

\* Mutant of HandshakeFails: it is not a crash.
HandshakeFailsFreely(c) ==
    /\ conn[c] = "handshaking"
    /\ stopped' = stopped \cup {on[c]}
    /\ over' = over \cup {on[c]}
    /\ running' = running \ {on[c]}
    /\ failed' = Append(failed, 0)
    /\ starting' = Nobody
    /\ conn' = [conn EXCEPT ![c] = "failing"]
    /\ UNCHANGED <<live, sessions, ticket, crashes, on, started, stopping, adrift, timeVars,
                   removed>>

\* No answer in time, the wrong protocol, a driver missing, or it died: stopped and counted.
HandshakeFails(c) ==
    /\ conn[c] = "handshaking"
    /\ stopped' = stopped \cup {on[c]}
    /\ over' = over \cup {on[c]}
    /\ running' = running \ {on[c]}
    /\ crashes' = Append(crashes, 0)
    /\ failed' = Append(failed, 0)
    /\ starting' = Nobody
    /\ conn' = [conn EXCEPT ![c] = "failing"]
    /\ UNCHANGED <<live, sessions, ticket, on, started, stopping, adrift, timeVars, removed>>

\* session/open answered; or the database turned it down, or the conversation is over.
Opened(c) ==
    /\ conn[c] = "opening"
    /\ on[c] \notin over
    /\ conn' = [conn EXCEPT ![c] = "open"]
    /\ UNCHANGED <<live, sessions, ticket, starting, on, procVars, timeVars, removed, budgetVars>>

\* Mutant of OpenFails: the count is left as it was.
OpenFailsUncounted(c) ==
    /\ conn[c] = "opening"
    /\ conn' = [conn EXCEPT ![c] = "closed"]
    /\ UNCHANGED <<live, sessions, ticket, starting, on, procVars, timeVars, removed, budgetVars>>

OpenFails(c) ==
    /\ conn[c] = "opening"
    /\ conn' = [conn EXCEPT ![c] = "failing"]
    /\ UNCHANGED <<live, sessions, ticket, starting, on, procVars, timeVars, removed, budgetVars>>

\* Mutant of SessionClosed: the timer is set by the count there was.
SessionClosedLate(c) ==
    /\ conn[c] \in {"failing", "open"}
    /\ conn' = [conn EXCEPT ![c] = "closed"]
    /\ sessions' = IF sessions = 0 THEN 0 ELSE sessions - 1
    /\ ticket' = ticket + 1
    /\ timers' = IF sessions = 0 THEN [timers EXCEPT ![ticket'] = Idle] ELSE timers
    /\ UNCHANGED <<live, starting, on, procVars, hasty, idled, removed, budgetVars>>

\* session_closed, of a connection that failed or a session closed or dropped: the last one
\* sets a timer.
SessionClosed(c) ==
    /\ conn[c] \in {"failing", "open"}
    /\ conn' = [conn EXCEPT ![c] = "closed"]
    /\ sessions' = IF sessions = 0 THEN 0 ELSE sessions - 1
    /\ ticket' = ticket + 1
    /\ timers' = IF sessions' = 0 THEN [timers EXCEPT ![ticket'] = Idle] ELSE timers
    /\ UNCHANGED <<live, starting, on, procVars, hasty, idled, removed, budgetVars>>

\* The caller's connect_timeout is up and it drops the connection's future where it waits:
\* for the mutex, the spawn, the handshake or the answer to session/open.  The mutex is let
\* go; a process spawned for nobody sees its stdin end.  session_closed is not called.
Timeout(c) ==
    /\ conn[c] \in Connecting
    /\ conn' = [conn EXCEPT ![c] = "dropped"]
    /\ starting' = IF starting = c THEN Nobody ELSE starting
    /\ adrift' = IF conn[c] = "handshaking" THEN adrift \cup {on[c]} ELSE adrift
    /\ UNCHANGED <<live, sessions, ticket, on, started, running, over, stopped, stopping,
                   timeVars, removed, budgetVars>>

-----------------------------------------------------------------------------
(* The process and those who stop it. *)

Crash(p) ==
    /\ p \in running
    /\ running' = running \ {p}
    /\ over' = over \cup {p}
    /\ UNCHANGED <<live, sessions, ticket, starting, conn, on, started, stopped, stopping, adrift,
                   timeVars, removed, budgetVars>>

\* It writes something that is not the protocol, or closes its output: it runs, unheard.
BreaksProtocol(p) ==
    /\ p \in running \ over
    /\ over' = over \cup {p}
    /\ UNCHANGED <<live, sessions, ticket, starting, conn, on, started, running, stopped, stopping,
                   adrift, timeVars, removed, budgetVars>>

\* Mutant of StopLive: the conversation is left open.
StopLiveUnclosed(p) ==
    /\ stopped' = stopped \cup {p}
    /\ running' = running \ {p}
    /\ UNCHANGED over

\* stop_live.
StopLive(p) ==
    /\ stopped' = stopped \cup {p}
    /\ over' = over \cup {p}
    /\ running' = running \ {p}

\* A session's cancel is not answered in time: kill() leaves HostState as it is.
Kill(c) ==
    /\ conn[c] = "open"
    /\ on[c] \notin stopped
    /\ StopLive(on[c])
    /\ UNCHANGED <<live, sessions, ticket, starting, conn, on, started, stopping, adrift, timeVars,
                   removed, budgetVars>>

\* Mutant of TakeLive: the process is forgotten.
TakeLiveForgetting == live' = 0 /\ UNCHANGED stopping

\* stop(), its first step: the process is taken out of HostState.
TakeLive ==
    /\ stopping' = IF live # 0 THEN stopping \cup {live} ELSE stopping
    /\ live' = 0

StopTaken(p) ==
    /\ p \in stopping
    /\ StopLive(p)
    /\ stopping' = stopping \ {p}
    /\ UNCHANGED <<live, sessions, ticket, starting, conn, on, started, adrift, timeVars, removed,
                   budgetVars>>

\* Mutant of TimerDecides: the timer does not look at who came since.
TimerDecidesBlind(t) ==
    /\ timers[t] = 0
    /\ timers' = [timers EXCEPT ![t] = Decided]
    /\ UNCHANGED <<live, sessions, ticket, starting, conn, on, procVars, removed, hasty, idled,
                   budgetVars>>

\* The timer's look is under the lock of HostState; what it decides is done after.
TimerDecides(t) ==
    /\ timers[t] = 0
    /\ timers' = [timers EXCEPT ![t] = IF sessions = 0 /\ ticket = t THEN Decided ELSE None]
    /\ UNCHANGED <<live, sessions, ticket, starting, conn, on, procVars, removed, hasty, idled,
                   budgetVars>>

TimerStops(t) ==
    /\ timers[t] = Decided
    /\ timers' = [timers EXCEPT ![t] = None]
    /\ TakeLive
    /\ idled' = IF live # 0 THEN idled \cup {live} ELSE idled
    /\ UNCHANGED <<sessions, ticket, starting, conn, on, started, running, over, stopped, adrift,
                   removed, hasty, budgetVars>>

\* unregister: no connection is made through this host any more.
Unregister ==
    /\ ~removed
    /\ removed' = TRUE
    /\ TakeLive
    /\ UNCHANGED <<sessions, ticket, starting, conn, on, started, running, over, stopped, adrift,
                   timeVars, budgetVars>>

Older(ages) == [i \in DOMAIN ages |-> IF ages[i] < Window THEN ages[i] + 1 ELSE Window]

Tick ==
    /\ timers' = [t \in Tickets |->
                     IF timers[t] \in 1..Idle THEN timers[t] - 1 ELSE timers[t]]
    /\ crashes' = Older(crashes)
    /\ failed' = Older(failed)
    /\ UNCHANGED <<live, sessions, ticket, starting, conn, on, procVars, removed, hasty, idled>>

ConnStep(c) ==
    \/ Connect(c) \/ Reuse(c) \/ Look(c) \/ Spawn(c) \/ SpawnFails(c) \/ Publish(c)
    \/ HandshakeFails(c) \/ Opened(c) \/ OpenFails(c) \/ SessionClosed(c) \/ Timeout(c) \/ Kill(c)
ProcStep(p) == Crash(p) \/ BreaksProtocol(p) \/ StopTaken(p)
TimerStep(t) == TimerDecides(t) \/ TimerStops(t)

HostNext ==
    \/ \E c \in Connects : ConnStep(c)
    \/ \E p \in Procs : ProcStep(p)
    \/ \E t \in Tickets : TimerStep(t)
    \/ Unregister
    \/ Tick

HostSpec == HostInit /\ [][HostNext]_hostStateVars

(***************************************************************************)
(* Time passes, a timer's thread runs once its time is up, a stop begun is *)
(* carried through.  Nothing makes a session close or a process answer.    *)
(***************************************************************************)
HostFairness ==
    /\ WF_hostStateVars(Tick)
    /\ \A t \in Tickets : WF_hostStateVars(TimerStep(t))
    /\ \A p \in Procs : WF_hostStateVars(StopTaken(p))

-----------------------------------------------------------------------------
HostTypeOK ==
    /\ live \in 0..MaxProcs
    /\ sessions \in 0..Cardinality(Connects)
    /\ ticket \in Tickets
    /\ crashes \in Seq(0..Window)
    /\ starting \in Connects \cup {Nobody}
    /\ conn \in [Connects -> Active \cup {"idle", "closed", "dropped"}]
    /\ on \in [Connects -> 0..MaxProcs]
    /\ started \in 0..MaxProcs
    /\ running \subseteq 1..started
    /\ over \subseteq 1..started
    /\ stopped \subseteq over
    /\ stopping \subseteq 1..started
    /\ timers \in [Tickets -> 0..(Idle + 2)]
    /\ removed \in BOOLEAN
    /\ failed \in Seq(0..Window)
    /\ hasty \subseteq Connects
    /\ idled \subseteq 1..started
    /\ adrift \subseteq 1..started

\* The count an idle timer goes by is the sessions there are and those being opened -- and,
\* for good, the connections dropped while they opened.
SessionsCounted == sessions = Cardinality({c \in Connects : conn[c] \in Active \cup {"dropped"}})

\* A process that runs is the one HostState has, or in its handshake, or about to be stopped:
\* someone can still stop it.  But for one whose connection was dropped in its handshake.
EveryProcessKept ==
    \A p \in running \ adrift :
        \/ p = live
        \/ p \in stopping
        \/ starting # Nobody /\ conn[starting] = "handshaking" /\ on[starting] = p

\* However processes crash, hang or fail their handshake, and connections race to start them,
\* no more than the first start and RESTARTS more fail within a minute.
FailedStartsBounded == Len(Recent(failed)) <= Restarts + 1

\* An idle timer takes the process from under a connection only if that one began after the
\* timer had looked.
IdleSparesSessions ==
    \A c \in Connects : conn[c] \in {"opening", "open"} /\ on[c] \in idled => c \in hasty

\* "Stopped a minute after the last one closes" (host.rs:1-3): with every connection closed
\* in order, the process does not stay.
Quiet == \A c \in Connects : conn[c] \in {"idle", "closed"}
IdleProcessStops == Quiet ~> (live = 0 \/ ~Quiet)
=============================================================================
