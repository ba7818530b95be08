------------------------------- MODULE Drafts --------------------------------
(***************************************************************************)
(* What the workbench keeps of the texts in its tabs, and what it shows of *)
(* them after it ended, well or not.  A text with a file is written to the *)
(* file every two seconds, one without to a recovery copy (update.rs,      *)
(* checkpoint_dirty); the tabs are written to the local database when it   *)
(* quits, and when a temporary connection is saved.  One thread does what  *)
(* concerns the database, in the order it is told (storage_worker.rs).     *)
(*                                                                         *)
(* One project and one Dexo at a time.  A text is the number of the edit   *)
(* that made it, 0 the first: an undo makes a text too.  Layouts, titles   *)
(* and what else changes a file are left out.                              *)
(***************************************************************************)
EXTENDS Integers, Sequences, FiniteSets

CONSTANTS
    Documents,  \* tabs, by id
    Files,      \* those that are opened from a file; the others begin empty
    MaxEdits,   \* bound: edits of all documents
    MaxStarts,  \* bound: how often Dexo starts
    MaxCommands \* bound: what the storage thread has yet to do

ASSUME DraftsAssumption ==
    /\ Files \subseteq Documents
    /\ MaxEdits \in Nat
    /\ MaxStarts \in Nat
    /\ MaxCommands \in Nat

NoText == -1

VARIABLES
    loop,      \* the loop: off, at its select!, keeping dirty texts, waiting for a flush
    quitting,  \* it quits once they are kept and flushed
    todo,      \* effects of checkpoint_dirty not yet run, by document
    tabs,      \* Model.documents
    text, revision, savedRevision, hasPath,  \* of each tab
    disk,      \* what its file says
    stored,    \* its row in `documents`
    recovery,  \* its row in `recovery_documents`
    commands,  \* to the storage thread
    clearing,  \* rows that flush_documents, committed, has yet to delete
    starts,    \* how often Dexo started
    edits,     \* how many there were
    used,      \* documents there have been
    kept,      \* history: the last text written to the disk, until it is let go
    outdated,  \* history: texts that came back older than their file, until then or saved
    torn,      \* history: texts that came back older than their row, until then or saved
    lulled,    \* history: texts that count as saved and are in no file
    misnamed   \* history: tabs a save of which failed

tabVars == <<tabs, text, revision, savedRevision, hasPath>>
keptVars == <<disk, stored, recovery>>
draftHistory == <<kept, outdated, torn, lulled, misnamed>>
draftVars == <<loop, quitting, todo, tabs, text, revision, savedRevision, hasPath, disk, stored,
               recovery, commands, clearing, starts, used, edits, kept, outdated, torn, lulled,
               misnamed>>

NoRow == [text |-> NoText, hasPath |-> FALSE]

DraftsInit ==
    /\ loop = "off"
    /\ quitting = FALSE
    /\ todo = {}
    /\ tabs = {}
    /\ text = [d \in Documents |-> 0]
    /\ revision = [d \in Documents |-> 0]
    /\ savedRevision = [d \in Documents |-> 0]
    /\ hasPath = [d \in Documents |-> FALSE]
    /\ disk = [d \in Documents |-> IF d \in Files THEN 0 ELSE NoText]
    /\ stored = [d \in Documents |-> NoRow]
    /\ recovery = [d \in Documents |-> NoText]
    /\ commands = <<>>
    /\ clearing = {}
    /\ starts = 0
    /\ edits = 0
    /\ used = {}
    /\ kept = [d \in Documents |-> NoText]
    /\ outdated = {}
    /\ torn = {}
    /\ lulled = {}
    /\ misnamed = {}

TellStorage(command) == Len(commands) < MaxCommands /\ commands' = Append(commands, command)
Later(t, u) == IF t < u THEN u ELSE t
Keeps(d, t) == kept' = [kept EXCEPT ![d] = Later(@, t)]
\* The person closed the text, or saved it as t: what it came back as does not matter any more.
Settles(d, t) ==
    /\ kept' = [kept EXCEPT ![d] = t]
    /\ outdated' = outdated \ {d}
    /\ torn' = torn \ {d}
Dirty(d) == revision[d] # savedRevision[d]
\* Tabs that are no more.
TabsGone(ds) ==
    /\ tabs' = tabs \ ds
    /\ text' = [d \in Documents |-> IF d \in ds THEN 0 ELSE text[d]]
    /\ revision' = [d \in Documents |-> IF d \in ds THEN 0 ELSE revision[d]]
    /\ savedRevision' = [d \in Documents |-> IF d \in ds THEN 0 ELSE savedRevision[d]]
    /\ hasPath' = [d \in Documents |-> IF d \in ds THEN FALSE ELSE hasPath[d]]

\* Its file has it, or it is empty and has none.
HeldByFile(d) == IF hasPath[d] THEN disk[d] = text[d] ELSE text[d] = 0

-----------------------------------------------------------------------------
(* Start: the rows of `documents`, and over them the recovery copies. *)

\* Mutant of ComesBackUnsaved: a stored text counts as saved.
ComesBackSaved(d) == FALSE

\* document_from_stored: a file that is gone counts as one that says the same.
ComesBackUnsaved(d) ==
    IF stored[d].hasPath THEN disk[d] # NoText /\ disk[d] # stored[d].text ELSE stored[d].text # 0

StartDexo ==
    /\ loop = "off"
    /\ starts < MaxStarts
    /\ LET recovered == {d \in Documents : recovery[d] # NoText}
           restored == {d \in Documents : stored[d] # NoRow}
           shown == [d \in Documents |->
                        CASE d \in recovered -> recovery[d]
                          [] d \in restored \ recovered -> stored[d].text
                          [] OTHER -> 0]
       IN
       /\ tabs' = recovered \cup restored
       /\ text' = shown
       /\ revision' = [d \in Documents |->
                          IF d \in restored \ recovered /\ ComesBackUnsaved(d) THEN 1 ELSE 0]
       /\ savedRevision' = [d \in Documents |-> IF d \in recovered THEN 1 ELSE 0]
       /\ hasPath' = [d \in Documents |-> stored[d].hasPath]
       /\ outdated' = outdated \cup {d \in restored : stored[d].hasPath /\ shown[d] < disk[d]}
       /\ torn' = torn \cup {d \in recovered \cap restored : recovery[d] < stored[d].text}
       /\ lulled' = {d \in restored \ recovered : stored[d].hasPath /\ disk[d] = NoText}
    /\ loop' = "select"
    /\ starts' = starts + 1
    /\ UNCHANGED <<quitting, todo, keptVars, commands, clearing, edits, used, kept, misnamed>>

\* Killed, at any moment: what the thread was told and has not done is not done.
KillDexo ==
    /\ loop # "off"
    /\ starts < MaxStarts
    /\ loop' = "off"
    /\ quitting' = FALSE
    /\ todo' = {}
    /\ TabsGone(tabs)
    /\ commands' = <<>>
    /\ clearing' = {}
    /\ lulled' = {}
    /\ UNCHANGED <<keptVars, starts, edits, used, kept, outdated, torn, misnamed>>

-----------------------------------------------------------------------------
(* The person at the keyboard. *)

OpenTab(d) ==
    /\ loop = "select"
    /\ d \notin used
    /\ used' = used \cup {d}
    /\ tabs' = tabs \cup {d}
    /\ hasPath' = [hasPath EXCEPT ![d] = d \in Files]
    /\ UNCHANGED <<loop, quitting, todo, text, revision, savedRevision, keptVars, commands,
                   clearing, starts, edits, draftHistory>>

EditText(d) ==
    /\ loop = "select"
    /\ d \in tabs
    /\ edits < MaxEdits
    /\ edits' = edits + 1
    /\ text' = [text EXCEPT ![d] = edits']
    /\ revision' = [revision EXCEPT ![d] = @ + 1]
    /\ lulled' = IF revision'[d] = savedRevision[d] THEN lulled \cup {d} ELSE lulled \ {d}
    /\ UNCHANGED <<loop, quitting, todo, tabs, savedRevision, hasPath, keptVars, commands,
                   clearing, starts, used, kept, outdated, torn, misnamed>>

\* Ctrl+W on a text that counts as saved: no question.
CloseTab(d) ==
    /\ loop = "select"
    /\ d \in tabs
    /\ ~Dirty(d)
    /\ TabsGone({d})
    /\ Settles(d, NoText)
    /\ UNCHANGED <<loop, quitting, todo, keptVars, commands, clearing, starts, edits, used,
                   lulled, misnamed>>

\* Mutant of DiscardTab: the recovery copy stays.
DiscardTabOnly(d) ==
    /\ loop = "select"
    /\ d \in tabs
    /\ Dirty(d)
    /\ TabsGone({d})
    /\ Settles(d, NoText)
    /\ UNCHANGED <<loop, quitting, todo, keptVars, commands, clearing, starts, edits, used,
                   lulled, misnamed>>

\* "Don't save".
DiscardTab(d) ==
    /\ loop = "select"
    /\ d \in tabs
    /\ Dirty(d)
    /\ TabsGone({d})
    /\ TellStorage([kind |-> "clear", document |-> d])
    /\ Settles(d, NoText)
    /\ UNCHANGED <<loop, quitting, todo, keptVars, clearing, starts, edits, used, lulled,
                   misnamed>>

\* Ctrl+S, or "Save" as it closes: a text without a file is given one before it is written.
SaveText(d, closes) ==
    /\ loop = "select"
    /\ d \in tabs
    /\ closes => Dirty(d)
    /\ disk' = [disk EXCEPT ![d] = text[d]]
    /\ TellStorage([kind |-> "clear", document |-> d])
    /\ IF closes
       THEN TabsGone({d})
       ELSE /\ hasPath' = [hasPath EXCEPT ![d] = TRUE]
            /\ savedRevision' = [savedRevision EXCEPT ![d] = Later(@, revision[d])]
            /\ UNCHANGED <<tabs, text, revision>>
    /\ Settles(d, IF closes THEN NoText ELSE text[d])
    /\ lulled' = lulled \ {d}
    /\ UNCHANGED <<loop, quitting, todo, stored, recovery, clearing, starts, edits, used,
                   misnamed>>

\* Of a text that has a file, a save that fails changes nothing.
SaveTextFails(d) ==
    /\ loop = "select"
    /\ d \in tabs /\ ~hasPath[d]
    /\ hasPath' = [hasPath EXCEPT ![d] = TRUE]
    /\ misnamed' = misnamed \cup {d}
    /\ UNCHANGED <<loop, quitting, todo, tabs, text, revision, savedRevision, keptVars,
                   commands, clearing, starts, edits, used, kept, outdated, torn, lulled>>

-----------------------------------------------------------------------------
(* The loop: every two seconds, and as it quits. *)

\* checkpoint_dirty's effects.
KeepDirty(quits) ==
    /\ loop = "select"
    /\ quits \/ \E d \in tabs : Dirty(d)
    /\ loop' = "keeping"
    /\ todo' = {d \in tabs : Dirty(d)}
    /\ quitting' = quits
    /\ UNCHANGED <<tabVars, keptVars, commands, clearing, starts, edits, used, draftHistory>>

CheckpointDraft(d) ==
    /\ loop = "keeping"
    /\ d \in todo /\ ~hasPath[d]
    /\ todo' = todo \ {d}
    /\ TellStorage([kind |-> "checkpoint", document |-> d, text |-> text[d]])
    /\ UNCHANGED <<loop, quitting, tabVars, keptVars, clearing, starts, edits, used,
                   draftHistory>>

\* Written beside the file and renamed over it; or not, and said.
AutosaveFile(d) ==
    /\ loop = "keeping"
    /\ d \in todo /\ hasPath[d]
    /\ todo' = todo \ {d}
    /\ \/ /\ disk' = [disk EXCEPT ![d] = text[d]]
          /\ savedRevision' = [savedRevision EXCEPT ![d] = revision[d]]
          /\ Keeps(d, text[d])
       \/ UNCHANGED <<disk, savedRevision, kept>>
    /\ UNCHANGED <<loop, quitting, tabs, text, revision, hasPath, stored, recovery, commands,
                   clearing, starts, edits, used, outdated, torn, lulled, misnamed>>

EndKeeping ==
    /\ loop = "keeping"
    /\ todo = {}
    /\ ~quitting
    /\ loop' = "select"
    /\ UNCHANGED <<quitting, todo, tabVars, keptVars, commands, clearing, starts, edits, used,
                   draftHistory>>

\* Mutant of FlushTabs: the loop does not wait for it.
FlushTabsUnawaited ==
    /\ loop = "select"
    /\ TellStorage([kind |-> "flush",
                    rows |-> [d \in tabs |-> [text |-> text[d], hasPath |-> hasPath[d]]]])
    /\ UNCHANGED <<loop, quitting, todo, tabVars, keptVars, clearing, starts, edits, used,
                   draftHistory>>

\* flush_documents_effect: every tab as it is, kept or not.
FlushTabs ==
    /\ \/ loop = "select"                            \* a temporary connection was saved
       \/ loop = "keeping" /\ todo = {} /\ quitting
    /\ loop' = "flushing"
    /\ TellStorage([kind |-> "flush",
                    rows |-> [d \in tabs |-> [text |-> text[d], hasPath |-> hasPath[d]]]])
    /\ UNCHANGED <<quitting, todo, tabVars, keptVars, clearing, starts, edits, used,
                   draftHistory>>

-----------------------------------------------------------------------------
(* The storage thread. *)

StorageTold(kind) == commands # <<>> /\ Head(commands).kind = kind

\* Mutant of WriteCheckpoint: a copy that is there is not overwritten.
WriteCheckpointOnce ==
    /\ StorageTold("checkpoint")
    /\ LET c == Head(commands) IN
       /\ recovery' = [recovery EXCEPT ![c.document] = IF @ = NoText THEN c.text ELSE @]
       /\ IF c.document \in tabs THEN Keeps(c.document, c.text) ELSE UNCHANGED kept
    /\ commands' = Tail(commands)
    /\ UNCHANGED <<loop, quitting, todo, tabVars, disk, stored, clearing, starts, edits, used,
                   outdated, torn, lulled, misnamed>>

WriteCheckpoint ==
    /\ StorageTold("checkpoint")
    /\ LET c == Head(commands) IN
       /\ recovery' = [recovery EXCEPT ![c.document] = c.text]
       /\ IF c.document \in tabs THEN Keeps(c.document, c.text) ELSE UNCHANGED kept
    /\ commands' = Tail(commands)
    /\ UNCHANGED <<loop, quitting, todo, tabVars, disk, stored, clearing, starts, edits, used,
                   outdated, torn, lulled, misnamed>>

ClearRecovery ==
    /\ StorageTold("clear")
    /\ recovery' = [recovery EXCEPT ![Head(commands).document] = NoText]
    /\ commands' = Tail(commands)
    /\ UNCHANGED <<loop, quitting, todo, tabVars, disk, stored, clearing, starts, edits, used,
                   draftHistory>>

\* The transaction: the project's rows go, and every tab gets one.
FlushCommits ==
    /\ StorageTold("flush")
    /\ LET rows == Head(commands).rows IN
       /\ stored' = [d \in Documents |-> IF d \in DOMAIN rows THEN rows[d] ELSE NoRow]
       /\ kept' = [d \in Documents |->
                      IF d \in DOMAIN rows THEN Later(kept[d], rows[d].text) ELSE kept[d]]
    /\ clearing' = {d \in Documents : recovery[d] # NoText}
    /\ commands' = <<[kind |-> "committed"]>> \o Tail(commands)
    /\ UNCHANGED <<loop, quitting, todo, tabVars, disk, recovery, starts, edits, used,
                   outdated, torn, lulled, misnamed>>

\* Before the commit, or with copies left to delete.  The loop is told: a Dexo that quits
\* quits, another goes on with nothing marked saved.
FlushFails ==
    /\ StorageTold("flush") \/ (StorageTold("committed") /\ clearing # {})
    /\ commands' = Tail(commands)
    /\ clearing' = {}
    /\ loop' = IF quitting THEN "off" ELSE "select"
    /\ IF quitting THEN TabsGone(tabs) ELSE UNCHANGED tabVars
    /\ lulled' = IF quitting THEN {} ELSE lulled
    /\ quitting' = FALSE
    /\ UNCHANGED <<todo, keptVars, starts, edits, used, kept, outdated, torn, misnamed>>

ClearCopy(d) ==
    /\ StorageTold("committed")
    /\ d \in clearing
    /\ recovery' = [recovery EXCEPT ![d] = NoText]
    /\ clearing' = clearing \ {d}
    /\ UNCHANGED <<loop, quitting, todo, tabVars, disk, stored, commands, starts, edits, used,
                   draftHistory>>

\* DocumentsFlushed: every tab counts as saved, and a Dexo that quits has quit.
TabsFlushed ==
    /\ StorageTold("committed")
    /\ clearing = {}
    /\ commands' = Tail(commands)
    /\ lulled' = IF quitting THEN {} ELSE lulled \cup {d \in tabs : ~HeldByFile(d)}
    /\ loop' = IF quitting THEN "off" ELSE "select"
    /\ IF quitting
       THEN TabsGone(tabs)
       ELSE savedRevision' = revision /\ UNCHANGED <<tabs, text, revision, hasPath>>
    /\ quitting' = FALSE
    /\ UNCHANGED <<todo, keptVars, clearing, starts, edits, used, kept, outdated, torn, misnamed>>

-----------------------------------------------------------------------------
StorageStep ==
    WriteCheckpoint \/ ClearRecovery \/ FlushCommits \/ FlushFails
        \/ (\E d \in Documents : ClearCopy(d)) \/ TabsFlushed

DraftsNext ==
    \/ StartDexo \/ KillDexo \/ EndKeeping \/ FlushTabs \/ StorageStep
    \/ \E quits \in BOOLEAN : KeepDirty(quits)
    \/ \E d \in Documents :
          \/ OpenTab(d) \/ EditText(d) \/ CloseTab(d) \/ DiscardTab(d) \/ SaveTextFails(d)
          \/ CheckpointDraft(d) \/ AutosaveFile(d)
          \/ \E closes \in BOOLEAN : SaveText(d, closes)

DraftsSpec == DraftsInit /\ [][DraftsNext]_draftVars

-----------------------------------------------------------------------------
Texts == NoText..MaxEdits
DraftsTypeOK ==
    /\ loop \in {"off", "select", "keeping", "flushing"}
    /\ quitting \in BOOLEAN
    /\ todo \subseteq tabs /\ tabs \subseteq used /\ used \subseteq Documents
    /\ text \in [Documents -> 0..MaxEdits]
    /\ revision \in [Documents -> Nat] /\ savedRevision \in [Documents -> Nat]
    /\ hasPath \in [Documents -> BOOLEAN]
    /\ disk \in [Documents -> Texts] /\ recovery \in [Documents -> Texts]
    /\ stored \in [Documents -> [text : Texts, hasPath : BOOLEAN]]
    /\ \A i \in 1..Len(commands) :
          /\ commands[i].kind \in {"checkpoint", "clear", "flush", "committed"}
          /\ commands[i].kind \in {"flush", "committed"} =>
                loop = "flushing" /\ i = Len(commands)
    /\ clearing \subseteq Documents
    /\ starts \in 0..MaxStarts
    /\ kept \in [Documents -> Texts] /\ edits \in 0..MaxEdits

\* What was once written of a text and never let go is on the screen or in its file, whenever
\* Dexo ended, and however often -- unless it once came back older than its file, or than its
\* row, and was not saved since.
KeptIsNotLost ==
    loop # "off" =>
        \A d \in Documents \ (outdated \cup torn \cup misnamed) :
            kept[d] # NoText => (d \in tabs /\ text[d] >= kept[d]) \/ disk[d] >= kept[d]

\* A text that counts as saved, so that Ctrl+W closes it without a question, is in its file --
\* unless a flush said so, one edit brought a recovered text to its saved revision, or its file
\* could not be written.
SavedIsHeld ==
    loop = "select" => \A d \in tabs \ (lulled \cup misnamed) : Dirty(d) \/ HeldByFile(d)

\* A recovery copy is of a tab, or about to be deleted: what the person did not want to save
\* does not come back.
CopiesAreOfTabs ==
    loop # "off" =>
        \A d \in Documents \ (lulled \cup misnamed) : recovery[d] # NoText =>
            \/ d \in tabs
            \/ \E i \in 1..Len(commands) : commands[i] = [kind |-> "clear", document |-> d]
=============================================================================
