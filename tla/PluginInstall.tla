---------------------------- MODULE PluginInstall ----------------------------
(***************************************************************************)
(* One plugin's folder and its entry in plugins/state.json, changed by     *)
(* several Dexos at once: installing or updating it, removing it, enabling *)
(* or disabling it, or changing another plugin's entry in the same file    *)
(* (plugin/install.rs, plugin/state.rs).  Two lock files keep them apart:  *)
(* the plugin's own and the state's; a lock file older than STALE is taken *)
(* to be a dead Dexo's.  A Dexo may die at any point.                      *)
(***************************************************************************)
EXTENDS Naturals, FiniteSets

CONSTANTS
    Dexos,      \* processes, each at one command
    Orders,     \* the commands the user may give: see OrderKinds
    MaxAged     \* bound: how often a lock file grows older than STALE

OrderKinds == {"install", "remove", "enable", "disable", "other"}
Locks == {"plugin", "state"}
Free == "free"
Shipped == "shipped"    \* the version that was there before
Nothing == "nothing"

ASSUME InstallAssumption ==
    /\ Orders \subseteq OrderKinds
    /\ MaxAged \in Nat
    /\ {Free, Shipped, Nothing} \cap Dexos = {}

VARIABLES
    order,      \* each Dexo's command
    at,         \* where it is in it
    want,       \* the lock it is after
    tries,      \* the tries Lock::acquire has left
    file,       \* each lock file: who made it
    old,        \* it is older than STALE
    aged,       \* how often that happened
    holds,      \* the Locks each Dexo has and will drop
    folder,     \* what plugins/<id> holds: the Dexo that installed it, see Shipped
    aside,      \* what the Dexo moved aside
    entry,      \* the plugin's entry in state.json
    copy,       \* the State a Dexo read and edited
    began,      \* history: the entry there was at first
    wronged,    \* history: Locks whose file was removed while its maker held it
    unseen,     \* history: the folder was moved aside when a Dexo read the state
    halfway     \* history: Dexos that changed the folder and then could not write the entry

lockVars == <<want, tries, file, old, aged, holds, wronged, halfway>>
storeVars == <<folder, aside, entry, copy, began, unseen>>
installVars == <<order, at, want, tries, file, old, aged, holds, folder, aside, entry, copy, began,
                 wronged, unseen, halfway>>

Versions == Dexos \cup {Shipped}
NoEntry == [version |-> Nothing, enabled |-> FALSE]
Entry(v, on) == [version |-> v, enabled |-> on]

InstallInit ==
    /\ order \in [Dexos -> Orders]
    /\ at = [d \in Dexos |-> "idle"]
    /\ want = [d \in Dexos |-> "state"]
    /\ tries = [d \in Dexos |-> 0]
    /\ file = [l \in Locks |-> Free]
    /\ old = [l \in Locks |-> FALSE]
    /\ aged = 0
    /\ holds = [d \in Dexos |-> {}]
    /\ \/ folder = Nothing /\ entry = NoEntry
       \/ folder = Shipped /\ \E on \in BOOLEAN : entry = Entry(Shipped, on)
    /\ aside = [d \in Dexos |-> Nothing]
    /\ copy = [d \in Dexos |-> NoEntry]
    /\ began = entry
    /\ wronged = {}
    /\ unseen = FALSE
    /\ halfway = {}

-----------------------------------------------------------------------------
(* Lock: made by create_new, tried twice, dropped by removing the file. *)

After(l) == IF l = "plugin" THEN "holding" ELSE "editing"

Seek(d, l) ==
    /\ want' = [want EXCEPT ![d] = l]
    /\ tries' = [tries EXCEPT ![d] = 2]

\* The Lock goes with its path, whoever made the file that is there now.
Unlock(d, ls) ==
    /\ file' = [l \in Locks |-> IF l \in ls THEN Free ELSE file[l]]
    /\ old' = [l \in Locks |-> IF l \in ls THEN FALSE ELSE old[l]]
    /\ holds' = [holds EXCEPT ![d] = @ \ ls]
    /\ wronged' = wronged \cup {l \in ls : file[l] # d /\ \E e \in Dexos : e = file[l] /\ l \in holds[e]}

\* Mutant of Create: the file is opened, made or not.
CreateAnyway(d) ==
    LET l == want[d] IN
    /\ at[d] = "seeking"
    /\ tries[d] > 0
    /\ file' = [file EXCEPT ![l] = d]
    /\ old' = [old EXCEPT ![l] = FALSE]
    /\ holds' = [holds EXCEPT ![d] = @ \cup {l}]
    /\ at' = [at EXCEPT ![d] = After(l)]
    /\ UNCHANGED <<order, want, tries, aged, wronged, halfway, storeVars>>

Create(d) ==
    LET l == want[d] IN
    /\ at[d] = "seeking"
    /\ tries[d] > 0
    /\ file[l] = Free
    /\ file' = [file EXCEPT ![l] = d]
    /\ old' = [old EXCEPT ![l] = FALSE]
    /\ holds' = [holds EXCEPT ![d] = @ \cup {l}]
    /\ at' = [at EXCEPT ![d] = After(l)]
    /\ UNCHANGED <<order, want, tries, aged, wronged, halfway, storeVars>>

\* The file is there and its age is read: too old, it is removed next.
JudgeStale(d) ==
    /\ at[d] = "seeking"
    /\ tries[d] > 0
    /\ file[want[d]] # Free
    /\ old[want[d]]
    /\ at' = [at EXCEPT ![d] = "removing lock"]
    /\ UNCHANGED <<order, lockVars, storeVars>>

RemoveStale(d) ==
    LET l == want[d] IN
    /\ at[d] = "removing lock"
    /\ file' = [file EXCEPT ![l] = Free]
    /\ old' = [old EXCEPT ![l] = FALSE]
    /\ wronged' = IF \E e \in Dexos : e = file[l] /\ l \in holds[e] THEN wronged \cup {l} ELSE wronged
    /\ tries' = [tries EXCEPT ![d] = @ - 1]
    /\ at' = [at EXCEPT ![d] = "seeking"]
    /\ UNCHANGED <<order, want, aged, holds, halfway, storeVars>>

\* acquire gives up at once.  Lock::wait, for the state's, tries again -- or gives up after
\* its three seconds.  What the command did so far stays; its own lock is dropped.
GiveUpLock(d) ==
    /\ at[d] = "seeking"
    /\ (file[want[d]] # Free /\ ~old[want[d]]) \/ tries[d] = 0
    /\ at' = [at EXCEPT ![d] = "done"]
    /\ Unlock(d, holds[d])
    /\ halfway' = IF "plugin" \in holds[d] THEN halfway \cup {d} ELSE halfway
    /\ UNCHANGED <<order, want, tries, aged, storeVars>>

\* Mutant of TryAgain: the new tries are added to those left.
TryAgainMore(d) ==
    /\ at[d] = "seeking"
    /\ want[d] = "state"
    /\ tries[d] < 2
    /\ tries' = [tries EXCEPT ![d] = @ + 2]
    /\ UNCHANGED <<order, at, want, file, old, aged, holds, wronged, halfway, storeVars>>

TryAgain(d) ==
    /\ at[d] = "seeking"
    /\ want[d] = "state"
    /\ tries[d] < 2
    /\ tries' = [tries EXCEPT ![d] = 2]
    /\ UNCHANGED <<order, at, want, file, old, aged, holds, wronged, halfway, storeVars>>

\* Ten minutes pass: its maker died, or was suspended with the machine.
GrowOld(l) ==
    /\ file[l] # Free
    /\ ~old[l]
    /\ aged < MaxAged
    /\ old' = [old EXCEPT ![l] = TRUE]
    /\ aged' = aged + 1
    /\ UNCHANGED <<order, at, want, tries, file, holds, wronged, halfway, storeVars>>

-----------------------------------------------------------------------------
(* The commands. *)

Begin(d) ==
    /\ at[d] = "idle"
    /\ order[d] = "remove" => folder # Nothing
    /\ at' = [at EXCEPT ![d] = "seeking"]
    /\ Seek(d, IF order[d] \in {"install", "remove"} THEN "plugin" ELSE "state")
    /\ UNCHANGED <<order, file, old, aged, holds, wronged, halfway, storeVars>>

\* commit: the staged driver does not pass its handshake here, or cannot be hashed.
Refuse(d) ==
    /\ at[d] = "holding"
    /\ order[d] = "install"
    /\ at' = [at EXCEPT ![d] = "done"]
    /\ Unlock(d, holds[d])
    /\ UNCHANGED <<order, want, tries, aged, halfway, storeVars>>

\* swap and remove: what is there is moved aside.  The rename fails when there is nothing.
MoveAside(d) ==
    /\ at[d] = "holding"
    /\ folder # Nothing
    /\ aside' = [aside EXCEPT ![d] = folder]
    /\ folder' = Nothing
    /\ IF order[d] = "install"
       THEN at' = [at EXCEPT ![d] = "placing"] /\ UNCHANGED <<want, tries>>
       ELSE at' = [at EXCEPT ![d] = "seeking"] /\ Seek(d, "state")
    /\ UNCHANGED <<order, file, old, aged, holds, wronged, entry, copy, began, unseen, halfway>>

NothingThere(d) ==
    /\ at[d] = "holding"
    /\ folder = Nothing
    /\ IF order[d] = "install"
       THEN at' = [at EXCEPT ![d] = "placing"] /\ UNCHANGED <<file, old, holds, wronged>>
       ELSE at' = [at EXCEPT ![d] = "done"] /\ Unlock(d, holds[d])
    /\ UNCHANGED <<order, want, tries, aged, halfway, storeVars>>

Place(d) ==
    /\ at[d] = "placing"
    /\ folder = Nothing
    /\ folder' = d
    /\ aside' = [aside EXCEPT ![d] = Nothing]
    /\ at' = [at EXCEPT ![d] = "seeking"]
    /\ Seek(d, "state")
    /\ UNCHANGED <<order, file, old, aged, holds, wronged, entry, copy, began, unseen, halfway>>

\* The move fails: what was set aside is put back.
PutBack(d) ==
    /\ at[d] = "placing"
    /\ folder' = IF folder = Nothing THEN aside[d] ELSE folder
    /\ aside' = [aside EXCEPT ![d] = Nothing]
    /\ at' = [at EXCEPT ![d] = "done"]
    /\ Unlock(d, holds[d])
    /\ UNCHANGED <<order, want, tries, aged, entry, copy, began, unseen, halfway>>

\* state::load: the file, checked against the folders.
Loaded ==
    CASE folder = Nothing -> NoEntry
      [] folder # Nothing /\ entry = NoEntry -> Entry(folder, TRUE)
      [] OTHER -> entry

\* Mutants of Edited: an update leaves the entry there is; or enables the plugin.
EditedKeeping(d) ==
    CASE order[d] = "install" -> IF Loaded = NoEntry THEN Entry(d, TRUE) ELSE Loaded
      [] order[d] = "remove" -> NoEntry
      [] order[d] = "enable" /\ Loaded # NoEntry -> [Loaded EXCEPT !.enabled = TRUE]
      [] order[d] = "disable" /\ Loaded # NoEntry -> [Loaded EXCEPT !.enabled = FALSE]
      [] OTHER -> Loaded
EditedEnabling(d) ==
    CASE order[d] = "install" -> Entry(d, TRUE)
      [] order[d] = "remove" -> NoEntry
      [] order[d] = "enable" /\ Loaded # NoEntry -> [Loaded EXCEPT !.enabled = TRUE]
      [] order[d] = "disable" /\ Loaded # NoEntry -> [Loaded EXCEPT !.enabled = FALSE]
      [] OTHER -> Loaded

Edited(d) ==
    CASE order[d] = "install" -> Entry(d, Loaded = NoEntry \/ Loaded.enabled)
      [] order[d] = "remove" -> NoEntry
      [] order[d] = "enable" /\ Loaded # NoEntry -> [Loaded EXCEPT !.enabled = TRUE]
      [] order[d] = "disable" /\ Loaded # NoEntry -> [Loaded EXCEPT !.enabled = FALSE]
      [] OTHER -> Loaded

Edit(d) ==
    /\ at[d] = "editing"
    /\ copy' = [copy EXCEPT ![d] = Edited(d)]
    /\ unseen' = (unseen \/ (folder = Nothing /\ entry # NoEntry))
    /\ at' = [at EXCEPT ![d] = "saving"]
    /\ UNCHANGED <<order, lockVars, folder, aside, entry, began>>

\* Written through a rename.
Save(d) ==
    /\ at[d] = "saving"
    /\ entry' = copy[d]
    /\ at' = [at EXCEPT ![d] = "saved"]
    /\ UNCHANGED <<order, lockVars, folder, aside, copy, began, unseen>>

\* state::save fails: the disk is full, a directory or a file of it cannot be written.  The
\* state file stays what it was; the command ends in the error and drops its locks.
SaveFails(d) ==
    /\ at[d] = "saving"
    /\ at' = [at EXCEPT ![d] = "saved"]
    /\ halfway' = IF "plugin" \in holds[d] THEN halfway \cup {d} ELSE halfway
    /\ UNCHANGED <<order, want, tries, file, old, aged, holds, wronged, storeVars>>

Saved(d) ==
    /\ at[d] = "saved"
    /\ Unlock(d, {"state"})
    /\ at' = [at EXCEPT ![d] = IF order[d] \in {"install", "remove"} THEN "leaving" ELSE "done"]
    /\ UNCHANGED <<order, want, tries, aged, halfway, storeVars>>

Leave(d) ==
    /\ at[d] = "leaving"
    /\ Unlock(d, {"plugin"})
    /\ at' = [at EXCEPT ![d] = "done"]
    /\ UNCHANGED <<order, want, tries, aged, halfway, storeVars>>

\* The process dies: its lock files stay, and what it moved aside stays in .staging.
Die(d) ==
    /\ at[d] \notin {"idle", "done", "dead"}
    /\ at' = [at EXCEPT ![d] = "dead"]
    /\ holds' = [holds EXCEPT ![d] = {}]
    /\ UNCHANGED <<order, want, tries, file, old, aged, wronged, halfway, storeVars>>

DexoStep(d) ==
    \/ Begin(d) \/ Create(d) \/ JudgeStale(d) \/ RemoveStale(d) \/ GiveUpLock(d) \/ TryAgain(d)
    \/ Refuse(d) \/ MoveAside(d) \/ NothingThere(d) \/ Place(d) \/ PutBack(d)
    \/ Edit(d) \/ Save(d) \/ SaveFails(d) \/ Saved(d) \/ Leave(d) \/ Die(d)

InstallNext == (\E d \in Dexos : DexoStep(d)) \/ (\E l \in Locks : GrowOld(l))

InstallSpec == InstallInit /\ [][InstallNext]_installVars

-----------------------------------------------------------------------------
InstallTypeOK ==
    /\ order \in [Dexos -> Orders]
    /\ at \in [Dexos -> {"idle", "seeking", "removing lock", "holding", "placing", "editing",
                         "saving", "saved", "leaving", "done", "dead"}]
    /\ want \in [Dexos -> Locks]
    /\ tries \in [Dexos -> 0..2]
    /\ file \in [Locks -> Dexos \cup {Free}]
    /\ old \in [Locks -> BOOLEAN]
    /\ aged \in 0..MaxAged
    /\ holds \in [Dexos -> SUBSET Locks]
    /\ folder \in Versions \cup {Nothing}
    /\ aside \in [Dexos -> Versions \cup {Nothing}]
    /\ entry \in [version : Versions \cup {Nothing}, enabled : BOOLEAN]
    /\ copy \in [Dexos -> [version : Versions \cup {Nothing}, enabled : BOOLEAN]]
    /\ began \in [version : Versions \cup {Nothing}, enabled : BOOLEAN]
    /\ halfway \subseteq Dexos
    /\ wronged \subseteq Locks
    /\ unseen \in BOOLEAN

\* Two Dexos never hold one lock, whoever died and left its file, unless a lock file was
\* removed from under a Dexo that held it (Lock::acquire, Lock::drop).
LocksExclude ==
    \A l \in Locks \ wronged : Cardinality({d \in Dexos : l \in holds[d]}) <= 1

\* The state file describes the plugin that is in place whenever no command is under way (and
\* none died), unless the version in place is one whose own install could not write the state
\* after the swap: it did not get the state's lock (state.rs:105), or the file could not be
\* written (state.rs:108, install.rs:322).  An install that comes after mends it (commit:
\* "the state written last").
AtRest == \A d \in Dexos : at[d] \in {"idle", "done"}
EntryMatchesFolder ==
    AtRest /\ wronged = {} => Loaded.version = folder \/ folder \in halfway

\* A plugin that was disabled is not enabled by updates, or by changes to other plugins: but
\* for a change that reads the state while an update has the folder moved aside, which drops
\* the entry, and with it that the plugin was disabled (state::load, commit's is_none_or).
StaysDisabled ==
    /\ began = Entry(Shipped, FALSE)
    /\ \A d \in Dexos : order[d] \in {"install", "disable", "other"}
    /\ ~unseen
    => ~entry.enabled
=============================================================================
