---------------------------- MODULE DraftsProofs -----------------------------
(***************************************************************************)
(* Proofs about the texts in the tabs, for any documents and files, any    *)
(* number of edits and of starts: a text that was written is not lost, a   *)
(* text that counts as saved is in its file, and a recovery copy is of a   *)
(* tab.                                                                    *)
(***************************************************************************)
EXTENDS Drafts, SequenceTheorems, TLAPS

Known == 0..edits
Row == [text : Known, hasPath : BOOLEAN]
Checkpoint == [kind : {"checkpoint"}, document : used, text : Known]
Clear == [kind : {"clear"}, document : used]
Flush == [kind : {"flush"}, rows : UNION {[ds -> Row] : ds \in SUBSET Documents}]
Committed == [kind : {"committed"}]
Command == Checkpoint \cup Clear \cup Flush \cup Committed

\* What each variable holds.
DraftKinds ==
    /\ loop \in {"off", "select", "keeping", "flushing"}
    /\ quitting \in BOOLEAN
    /\ edits \in 0..MaxEdits /\ starts \in 0..MaxStarts
    /\ tabs \subseteq used /\ used \subseteq Documents
    /\ text \in [Documents -> Known]
    /\ revision \in [Documents -> Nat] /\ savedRevision \in [Documents -> Nat]
    /\ hasPath \in [Documents -> BOOLEAN]
    /\ disk \in [Documents -> NoText..edits] /\ recovery \in [Documents -> NoText..edits]
    /\ stored \in [Documents -> Row \cup {NoRow}]
    /\ kept \in [Documents -> NoText..edits]
    /\ commands \in Seq(Command)
    /\ clearing \subseteq Documents

\* A flush is the last thing the storage thread was told, of the tabs as they are: the loop
\* waits for it.
QueueInv ==
    /\ \A i \in 1..Len(commands) : commands[i].kind = "flush" =>
          commands[i].rows = [d \in tabs |-> [text |-> text[d], hasPath |-> hasPath[d]]]
    /\ \A i \in 1..Len(commands) : commands[i].kind \in {"flush", "committed"} =>
          loop = "flushing" /\ i = Len(commands)
    /\ loop = "off" => commands = <<>> /\ tabs = {}
    /\ todo \subseteq tabs
    /\ todo # {} => loop = "keeping"
    /\ \A d \in todo : Dirty(d)

\* Of a document that is in no tab, or in none yet.
FreshInv ==
    /\ \A d \in Documents \ tabs :
          text[d] = 0 /\ revision[d] = 0 /\ savedRevision[d] = 0 /\ ~hasPath[d]
    /\ \A d \in Documents \ used :
          /\ recovery[d] = NoText /\ stored[d] = NoRow /\ kept[d] = NoText
          /\ disk[d] = IF d \in Files THEN 0 ELSE NoText

\* The places in the queue of what concerns d's copy.
ClearsOf(d) ==
    {i \in 1..Len(commands) : commands[i].kind = "clear" /\ commands[i].document = d}
CopiesOf(d) ==
    {i \in 1..Len(commands) : commands[i].kind = "checkpoint" /\ commands[i].document = d}
Committing == \E i \in 1..Len(commands) : commands[i].kind = "committed"

\* Once the storage thread has done what it was told, there is a copy of d.
CopyLeft(d) ==
    \/ recovery[d] # NoText /\ ClearsOf(d) = {}
    \/ \E i \in CopiesOf(d) : \A j \in ClearsOf(d) : j < i

CopiesInv ==
    /\ loop # "off" => \A d \in Documents \ misnamed : CopyLeft(d) =>
          /\ ~hasPath[d]
          /\ d \in lulled \/ (d \in tabs /\ Dirty(d))
    /\ \A d \in Documents \ misnamed : stored[d].hasPath =>
          /\ recovery[d] = NoText /\ CopiesOf(d) = {}
          /\ d \in tabs => hasPath[d]
    /\ Committing =>
          Len(commands) = 1 /\ \A d \in Documents : recovery[d] # NoText => d \in clearing

HeldInv ==
    loop # "off" => \A d \in tabs \ (lulled \cup misnamed) : Dirty(d) \/ HeldByFile(d)

Excused == outdated \cup torn \cup misnamed
InFile(d) == kept[d] = NoText \/ disk[d] >= kept[d]

\* A copy is no newer than the next that is to be written over it, nor than its tab.
Ordered(d) ==
    /\ recovery[d] <= text[d]
    /\ \A i \in CopiesOf(d) :
          /\ recovery[d] <= commands[i].text /\ commands[i].text <= text[d]
          /\ \A j \in CopiesOf(d) : i <= j => commands[i].text <= commands[j].text
          /\ hasPath[d] /\ d \notin misnamed => commands[i].text <= disk[d]
OrderInv == loop # "off" => \A d \in tabs : Ordered(d)

\* Where what was written is: before a copy is deleted, its text is in the file or the row.
Somewhere(d) == InFile(d) \/ recovery[d] >= kept[d] \/ stored[d].text >= kept[d]
Watched(d) ==
    /\ InFile(d) \/ (d \in tabs /\ text[d] >= kept[d])
    /\ d \in tabs /\ hasPath[d] => text[d] >= disk[d]
    /\ ClearsOf(d) # {} => InFile(d)
    /\ ClearsOf(d) # {} /\ d \in tabs => hasPath[d]
    /\ Committing => InFile(d) \/ stored[d].text >= kept[d]
KeptInv ==
    \A d \in Documents \ Excused : Somewhere(d) /\ (loop # "off" => Watched(d))

-----------------------------------------------------------------------------
(* What the storage thread is told. *)

LEMMA OfACommand ==
    ASSUME NEW c \in Command
    PROVE  /\ c.kind \in {"checkpoint", "clear", "flush", "committed"}
           /\ c.kind = "checkpoint" => c.document \in used /\ c.text \in Known
           /\ c.kind = "clear" =>
                 c.document \in used /\ c = [kind |-> "clear", document |-> c.document]
           /\ c.kind = "flush" => \E ds \in SUBSET Documents : c.rows \in [ds -> Row]
           /\ c.kind = "flush" => c \in Flush
<1>1. CASE c \in Checkpoint
  BY <1>1 DEF Checkpoint
<1>2. CASE c \in Clear
  BY <1>2 DEF Clear
<1>3. CASE c \in Flush
  BY <1>3 DEF Flush
<1>4. CASE c \in Committed
  BY <1>4 DEF Committed
<1>5. QED
  BY <1>1, <1>2, <1>3, <1>4 DEF Command

\* What was a command stays one as documents are opened and edited.
LEMMA StillCommands ==
    ASSUME DraftKinds, used \subseteq used', edits' \in Nat, edits <= edits'
    PROVE  /\ Known \subseteq Known' /\ Row \subseteq Row'
           /\ Command \subseteq Command'
           /\ commands \in Seq(Command')
<1>1. Known \subseteq Known'
  BY DraftsAssumption DEF Known, DraftKinds
<1>2. Row \subseteq Row'
  BY <1>1 DEF Row
<1>3. Checkpoint \subseteq Checkpoint' /\ Clear \subseteq Clear' /\ Committed \subseteq Committed'
  BY <1>1 DEF Checkpoint, Clear, Committed
<1>4. Flush \subseteq Flush'
  <2>1. ASSUME NEW ds \in SUBSET Documents
        PROVE  [ds -> Row] \subseteq [ds -> Row']
    BY <1>2
  <2>2. (UNION {[ds -> Row] : ds \in SUBSET Documents})
            \subseteq (UNION {[ds -> Row'] : ds \in SUBSET Documents})
    BY <2>1
  <2>3. QED
    BY <2>2 DEF Flush
<1>5. Command \subseteq Command'
  BY <1>3, <1>4 DEF Command
<1>6. commands \in Seq(Command')
  BY <1>5, SeqMonotonic DEF DraftKinds
<1>7. QED
  BY <1>1, <1>2, <1>5, <1>6

\* One more command.
LEMMA Told ==
    ASSUME NEW S, commands \in Seq(S), NEW c \in S, TellStorage(c)
    PROVE  /\ commands' \in Seq(S)
           /\ Len(commands) \in Nat /\ Len(commands') = Len(commands) + 1
           /\ \A i \in 1..Len(commands) : commands'[i] = commands[i]
           /\ commands'[Len(commands) + 1] = c
BY AppendProperties DEF TellStorage

\* The first command is done.
LEMMA Done ==
    ASSUME NEW S, commands \in Seq(S), commands # <<>>, commands' = Tail(commands)
    PROVE  /\ commands' \in Seq(S)
           /\ Len(commands) \in Nat \ {0} /\ Len(commands') = Len(commands) - 1
           /\ \A i \in 1..Len(commands') : commands'[i] = commands[i + 1]
           /\ Head(commands) = commands[1] /\ commands[1] \in S
BY HeadTailProperties, EmptySeq, LenProperties

\* A flush, and what is left of one, is alone in the queue.
LEMMA FlushIsLast ==
    ASSUME DraftKinds, QueueInv, StorageTold("flush") \/ StorageTold("committed")
    PROVE  /\ loop = "flushing" /\ Len(commands) = 1 /\ Tail(commands) = <<>>
           /\ Head(commands) = commands[1]
<1>1. commands \in Seq(Command) /\ commands # <<>>
  BY DEF DraftKinds, StorageTold
<1>2. Head(commands) = commands[1] /\ Len(commands) \in Nat \ {0}
  BY <1>1, HeadTailProperties, LenProperties, EmptySeq
<1>3. loop = "flushing" /\ Len(commands) = 1
  <2>1. 1 \in 1..Len(commands) /\ commands[1].kind \in {"flush", "committed"}
    BY <1>2 DEF StorageTold
  <2>2. loop = "flushing" /\ 1 = Len(commands)
    BY <2>1 DEF QueueInv
  <2>3. QED
    BY <2>2
<1>4. Tail(commands) = <<>>
  <2>1. Tail(commands) \in Seq(Command) /\ Len(Tail(commands)) = 0
    BY <1>1, <1>3, HeadTailProperties
  <2>2. QED
    BY <2>1, EmptySeq
<1>5. QED
  BY <1>2, <1>3, <1>4

-----------------------------------------------------------------------------
(* What each variable holds. *)

LEMMA StoredText ==
    ASSUME DraftKinds, NEW d \in Documents
    PROVE  /\ stored[d].text \in NoText..edits /\ stored[d].hasPath \in BOOLEAN
           /\ stored[d] # NoRow => stored[d].text \in Known /\ stored[d] \in Row
           /\ stored[d].hasPath => stored[d] # NoRow
<1>1. stored[d] \in Row \cup {NoRow} /\ edits \in Nat
  BY DraftsAssumption DEF DraftKinds
<1>2. CASE stored[d] \in Row
  <2>1. stored[d].text \in Known /\ stored[d].hasPath \in BOOLEAN
    BY <1>2 DEF Row
  <2>2. stored[d].text # NoText /\ stored[d].text \in NoText..edits
    BY <1>1, <2>1 DEF Known, NoText
  <2>3. stored[d] # NoRow
    BY <2>2 DEF NoRow
  <2>4. QED
    BY <1>2, <2>1, <2>2, <2>3
<1>3. CASE stored[d] = NoRow
  BY <1>1, <1>3 DEF NoRow, NoText
<1>4. QED
  BY <1>1, <1>2, <1>3

LEMMA TabsGoneKinds ==
    ASSUME DraftKinds, NEW ds \in SUBSET Documents, TabsGone(ds)
    PROVE  /\ tabs' = tabs \ ds
           /\ text' \in [Documents -> Known]
           /\ revision' \in [Documents -> Nat] /\ savedRevision' \in [Documents -> Nat]
           /\ hasPath' \in [Documents -> BOOLEAN]
<1>1. 0 \in Known
  BY DraftsAssumption DEF DraftKinds, Known
<1>2. text' \in [Documents -> Known]
  BY <1>1 DEF TabsGone, DraftKinds
<1>3. revision' \in [Documents -> Nat] /\ savedRevision' \in [Documents -> Nat]
  BY DEF TabsGone, DraftKinds
<1>4. QED
  BY <1>2, <1>3 DEF TabsGone, DraftKinds

LEMMA StartKinds ==
    ASSUME DraftKinds, FreshInv, StartDexo
    PROVE  DraftKinds'
<1> DEFINE recovered == {d \in Documents : recovery[d] # NoText}
           restored == {d \in Documents : stored[d] # NoRow}
           shown == [d \in Documents |->
                        CASE d \in recovered -> recovery[d]
                          [] d \in restored \ recovered -> stored[d].text
                          [] OTHER -> 0]
<1>1. edits \in Nat
  BY DraftsAssumption DEF DraftKinds
<1>2. shown \in [Documents -> Known]
  <2>1. ASSUME NEW d \in Documents
        PROVE  shown[d] \in Known
    <3>1. CASE d \in recovered
      BY <1>1, <3>1 DEF DraftKinds, Known, NoText
    <3>2. CASE d \in restored \ recovered
      BY <3>2, StoredText
    <3>3. CASE d \notin restored /\ d \notin recovered
      BY <1>1, <3>3 DEF Known
    <3>4. QED
      BY <3>1, <3>2, <3>3
  <2>2. QED
    BY <2>1
<1>3. recovered \subseteq used /\ restored \subseteq used
  BY DEF FreshInv
<1>4. [d \in Documents |-> stored[d].hasPath] \in [Documents -> BOOLEAN]
  BY StoredText
<1>5. /\ tabs' = recovered \cup restored /\ text' = shown
      /\ revision' \in [Documents -> Nat] /\ savedRevision' \in [Documents -> Nat]
      /\ hasPath' = [d \in Documents |-> stored[d].hasPath]
      /\ loop' = "select" /\ starts' = starts + 1 /\ starts' \in 0..MaxStarts
      /\ UNCHANGED <<quitting, keptVars, commands, clearing, edits, used, kept>>
  BY DraftsAssumption DEF StartDexo, DraftKinds
<1> HIDE DEF shown, recovered, restored
<1>6. Command' = Command /\ Known' = Known /\ Row' = Row
  BY <1>5 DEF Command, Checkpoint, Clear, Flush, Committed, Row, Known
<1>7. QED
  BY <1>2, <1>3, <1>4, <1>5, <1>6 DEF DraftKinds, keptVars

LEMMA KindsNext ==
    DraftKinds /\ QueueInv /\ FreshInv /\ [DraftsNext]_draftVars => DraftKinds'
<1> SUFFICES ASSUME DraftKinds, QueueInv, FreshInv, [DraftsNext]_draftVars
             PROVE  DraftKinds'
  OBVIOUS
<1>1. edits \in Nat /\ MaxEdits \in Nat /\ 0 \in Known
  BY DraftsAssumption DEF DraftKinds, Known
<1>2. ASSUME UNCHANGED <<edits, used>>
      PROVE  Command' = Command /\ Known' = Known /\ Row' = Row
  BY <1>2 DEF Command, Checkpoint, Clear, Flush, Committed, Row, Known
<1>3. CASE KillDexo
  <2>1. tabs \in SUBSET Documents /\ <<>> \in Seq(Command)
    BY EmptySeq DEF DraftKinds
  <2>2. QED
    BY <1>2, <1>3, <2>1, TabsGoneKinds DEF KillDexo, DraftKinds, keptVars
<1>4. CASE EndKeeping
  BY <1>2, <1>4 DEF EndKeeping, DraftKinds, keptVars, tabVars, draftHistory
<1>5. CASE FlushTabs
  <2> DEFINE rows == [d \in tabs |-> [text |-> text[d], hasPath |-> hasPath[d]]]
             c == [kind |-> "flush", rows |-> rows]
  <2>1. rows \in [tabs -> Row] /\ tabs \in SUBSET Documents
    BY DEF DraftKinds, Row
  <2>2. c \in Command
    BY <2>1 DEF Command, Flush
  <2>3. /\ TellStorage(c) /\ loop' = "flushing"
        /\ UNCHANGED <<quitting, todo, tabVars, keptVars, clearing, starts, edits, used,
                       draftHistory>>
    BY <1>5 DEF FlushTabs
  <2> HIDE DEF c
  <2>4. commands' \in Seq(Command)
    BY <2>2, <2>3, Told DEF DraftKinds
  <2>5. QED
    BY <1>2, <2>3, <2>4 DEF DraftKinds, keptVars, tabVars, draftHistory
<1>6. ASSUME NEW quits \in BOOLEAN, KeepDirty(quits)
      PROVE  DraftKinds'
  BY <1>2, <1>6 DEF KeepDirty, DraftKinds, keptVars, tabVars, draftHistory
<1>7. ASSUME NEW d \in Documents, OpenTab(d)
      PROVE  DraftKinds'
  <2>1. used \subseteq used' /\ edits' = edits
    BY <1>7 DEF OpenTab
  <2>2. commands' \in Seq(Command') /\ Known' = Known /\ Row' = Row
    BY <1>1, <1>7, <2>1, StillCommands DEF OpenTab, Known, Row
  <2>3. QED
    BY <1>7, <2>2 DEF OpenTab, DraftKinds, keptVars, draftHistory
<1>8. ASSUME NEW d \in Documents, EditText(d)
      PROVE  DraftKinds'
  <2>1. /\ used' = used /\ edits' = edits + 1 /\ edits' \in Nat /\ edits <= edits'
        /\ edits' \in 0..MaxEdits
    BY <1>1, <1>8 DEF EditText
  <2>2. commands' \in Seq(Command') /\ Known \subseteq Known' /\ Row \subseteq Row'
    BY <1>8, <2>1, StillCommands DEF EditText
  <2>3. NoText..edits \subseteq NoText..edits' /\ edits' \in Known'
    BY <1>1, <2>1 DEF Known, NoText
  <2>4. text' \in [Documents -> Known'] /\ revision' \in [Documents -> Nat]
    <3>1. text' = [text EXCEPT ![d] = edits'] /\ revision' = [revision EXCEPT ![d] = @ + 1]
      BY <1>8 DEF EditText
    <3>2. text' \in [Documents -> Known']
      BY <2>2, <2>3, <3>1 DEF DraftKinds
    <3>3. revision' \in [Documents -> Nat]
      BY <3>1 DEF DraftKinds
    <3>4. QED
      BY <3>2, <3>3
  <2>5. /\ disk' \in [Documents -> NoText..edits'] /\ recovery' \in [Documents -> NoText..edits']
        /\ kept' \in [Documents -> NoText..edits']
        /\ stored' \in [Documents -> Row' \cup {NoRow}]
    BY <1>8, <2>2, <2>3 DEF EditText, DraftKinds, keptVars
  <2>6. QED
    BY <1>8, <2>1, <2>2, <2>4, <2>5 DEF EditText, DraftKinds
<1>9. ASSUME NEW d \in Documents, CloseTab(d)
      PROVE  DraftKinds'
  <2>1. {d} \in SUBSET Documents
    BY <1>9
  <2>2. kept' \in [Documents -> NoText..edits]
    BY <1>1, <1>9 DEF CloseTab, Settles, DraftKinds, NoText
  <2>3. QED
    BY <1>2, <1>9, <2>1, <2>2, TabsGoneKinds DEF CloseTab, DraftKinds, keptVars
<1>10. ASSUME NEW d \in Documents, DiscardTab(d)
       PROVE  DraftKinds'
  <2>1. {d} \in SUBSET Documents /\ [kind |-> "clear", document |-> d] \in Command
    BY <1>10 DEF DiscardTab, DraftKinds, Command, Clear
  <2>2. kept' \in [Documents -> NoText..edits]
    BY <1>1, <1>10 DEF DiscardTab, Settles, DraftKinds, NoText
  <2>3. commands' \in Seq(Command)
    BY <1>10, <2>1, Told DEF DiscardTab, DraftKinds
  <2>4. QED
    BY <1>2, <1>10, <2>1, <2>2, <2>3, TabsGoneKinds DEF DiscardTab, DraftKinds, keptVars
<1>11. ASSUME NEW d \in Documents, NEW closes \in BOOLEAN, SaveText(d, closes)
       PROVE  DraftKinds'
  <2>1. {d} \in SUBSET Documents /\ [kind |-> "clear", document |-> d] \in Command
    BY <1>11 DEF SaveText, DraftKinds, Command, Clear
  <2>2. text[d] \in NoText..edits
    BY <1>1 DEF DraftKinds, Known, NoText
  <2>3. kept' \in [Documents -> NoText..edits] /\ disk' \in [Documents -> NoText..edits]
    BY <1>1, <1>11, <2>2 DEF SaveText, Settles, DraftKinds, NoText
  <2>4. commands' \in Seq(Command)
    BY <1>11, <2>1, Told DEF SaveText, DraftKinds
  <2>5. /\ tabs' \subseteq tabs /\ text' \in [Documents -> Known]
        /\ revision' \in [Documents -> Nat] /\ savedRevision' \in [Documents -> Nat]
        /\ hasPath' \in [Documents -> BOOLEAN]
    <3>1. CASE closes
      BY <1>11, <2>1, <3>1, TabsGoneKinds DEF SaveText
    <3>2. CASE ~closes
      BY <1>11, <3>2 DEF SaveText, DraftKinds, Later
    <3>3. QED
      BY <3>1, <3>2
  <2>6. QED
    BY <1>2, <1>11, <2>3, <2>4, <2>5 DEF SaveText, DraftKinds
<1>12. ASSUME NEW d \in Documents, SaveTextFails(d)
       PROVE  DraftKinds'
  BY <1>2, <1>12 DEF SaveTextFails, DraftKinds, keptVars
<1>13. ASSUME NEW d \in Documents, CheckpointDraft(d)
       PROVE  DraftKinds'
  <2>1. [kind |-> "checkpoint", document |-> d, text |-> text[d]] \in Command
    BY <1>13 DEF CheckpointDraft, DraftKinds, QueueInv, Command, Checkpoint
  <2>2. commands' \in Seq(Command)
    BY <1>13, <2>1, Told DEF CheckpointDraft, DraftKinds
  <2>3. QED
    BY <1>2, <1>13, <2>2 DEF CheckpointDraft, DraftKinds, keptVars, tabVars, draftHistory
<1>14. ASSUME NEW d \in Documents, AutosaveFile(d)
       PROVE  DraftKinds'
  <2>1. text[d] \in NoText..edits
    BY <1>1 DEF DraftKinds, Known, NoText
  <2>2. disk' \in [Documents -> NoText..edits] /\ kept' \in [Documents -> NoText..edits]
    BY <1>14, <2>1 DEF AutosaveFile, DraftKinds, Keeps, Later
  <2>3. savedRevision' \in [Documents -> Nat]
    BY <1>14 DEF AutosaveFile, DraftKinds
  <2>4. QED
    BY <1>2, <1>14, <2>2, <2>3 DEF AutosaveFile, DraftKinds
<1>15. CASE WriteCheckpoint
  <2>1. commands \in Seq(Command) /\ commands # <<>> /\ commands' = Tail(commands)
    BY <1>15 DEF WriteCheckpoint, StorageTold, DraftKinds
  <2>2. commands' \in Seq(Command) /\ Head(commands) \in Command
    BY <2>1, Done
  <2>3. Head(commands).document \in Documents /\ Head(commands).text \in NoText..edits
    BY <1>1, <1>15, <2>2, OfACommand DEF WriteCheckpoint, StorageTold, DraftKinds, Known, NoText
  <2>4. /\ recovery' \in [Documents -> NoText..edits]
        /\ kept' \in [Documents -> NoText..edits]
    BY <1>15, <2>3 DEF WriteCheckpoint, DraftKinds, Keeps, Later
  <2>5. QED
    BY <1>2, <1>15, <2>2, <2>4 DEF WriteCheckpoint, DraftKinds, tabVars
<1>16. CASE ClearRecovery
  <2>1. commands \in Seq(Command) /\ commands # <<>> /\ commands' = Tail(commands)
    BY <1>16 DEF ClearRecovery, StorageTold, DraftKinds
  <2>2. commands' \in Seq(Command)
    BY <2>1, Done
  <2>3. recovery' \in [Documents -> NoText..edits]
    <3>1. NoText \in NoText..edits
      BY <1>1 DEF NoText
    <3>2. recovery' = [recovery EXCEPT ![Head(commands).document] = NoText]
      BY <1>16 DEF ClearRecovery
    <3>3. QED
      BY <3>1, <3>2 DEF DraftKinds
  <2>4. QED
    BY <1>2, <1>16, <2>2, <2>3 DEF ClearRecovery, DraftKinds, tabVars, draftHistory
<1>17. CASE FlushCommits
  <2> DEFINE rows == Head(commands).rows
  <2>1. commands \in Seq(Command) /\ commands # <<>> /\ Head(commands).kind = "flush"
    BY <1>17 DEF FlushCommits, StorageTold, DraftKinds
  <2>2. PICK ds \in SUBSET Documents : rows \in [ds -> Row]
    BY <2>1, Done, HeadTailProperties, OfACommand
  <2>3. \A d \in Documents : d \in DOMAIN rows => rows[d] \in Row /\ rows[d].text \in NoText..edits
    BY <1>1, <2>2 DEF Row, Known, NoText
  <2>4. /\ stored' = [d \in Documents |-> IF d \in DOMAIN rows THEN rows[d] ELSE NoRow]
        /\ kept' = [d \in Documents |->
                       IF d \in DOMAIN rows THEN Later(kept[d], rows[d].text) ELSE kept[d]]
        /\ commands' = <<[kind |-> "committed"]>> \o Tail(commands)
        /\ clearing' \subseteq Documents
        /\ UNCHANGED <<loop, quitting, tabVars, disk, recovery, starts, edits, used>>
    BY <1>17 DEF FlushCommits
  <2> HIDE DEF rows
  <2>5. stored' \in [Documents -> Row \cup {NoRow}]
    BY <2>3, <2>4
  <2>6. kept' \in [Documents -> NoText..edits]
    BY <2>3, <2>4 DEF DraftKinds, Later
  <2>7. commands' \in Seq(Command)
    <3>1. [kind |-> "committed"] \in Command
      BY DEF Command, Committed
    <3>2. Tail(commands) \in Seq(Command) /\ <<[kind |-> "committed"]>> \in Seq(Command)
      BY <2>1, <3>1, HeadTailProperties
    <3>3. QED
      BY <2>4, <3>2, ConcatProperties
  <2>8. QED
    BY <1>2, <2>4, <2>5, <2>6, <2>7 DEF DraftKinds, tabVars
<1>18. CASE FlushFails
  <2>1. commands' \in Seq(Command) /\ tabs \in SUBSET Documents
    BY <1>18, Done DEF FlushFails, StorageTold, DraftKinds
  <2>2. CASE quitting
    BY <1>2, <1>18, <2>1, <2>2, TabsGoneKinds DEF FlushFails, DraftKinds, keptVars
  <2>3. CASE ~quitting
    BY <1>2, <1>18, <2>1, <2>3 DEF FlushFails, DraftKinds, keptVars, tabVars
  <2>4. QED
    BY <2>2, <2>3
<1>19. ASSUME NEW d \in Documents, ClearCopy(d)
       PROVE  DraftKinds'
  <2>1. recovery' \in [Documents -> NoText..edits]
    BY <1>1, <1>19 DEF ClearCopy, DraftKinds, NoText
  <2>2. QED
    BY <1>2, <1>19, <2>1 DEF ClearCopy, DraftKinds, tabVars, draftHistory
<1>20. CASE TabsFlushed
  <2>1. commands' \in Seq(Command) /\ tabs \in SUBSET Documents
    BY <1>20, Done DEF TabsFlushed, StorageTold, DraftKinds
  <2>2. CASE quitting
    BY <1>2, <1>20, <2>1, <2>2, TabsGoneKinds DEF TabsFlushed, DraftKinds, keptVars
  <2>3. CASE ~quitting
    BY <1>2, <1>20, <2>1, <2>3 DEF TabsFlushed, DraftKinds, keptVars, tabVars
  <2>4. QED
    BY <2>2, <2>3
<1>21. CASE UNCHANGED draftVars
  BY <1>2, <1>21 DEF draftVars, DraftKinds
<1>22. QED
  BY <1>3, <1>4, <1>5, <1>6, <1>7, <1>8, <1>9, <1>10, <1>11, <1>12, <1>13, <1>14, <1>15, <1>16,
     <1>17, <1>18, <1>19, <1>20, <1>21, StartKinds DEF DraftsNext, StorageStep

-----------------------------------------------------------------------------
(* The queue of the storage thread, and what the loop has yet to do. *)

NoFlush == \A i \in 1..Len(commands) : commands[i].kind \notin {"flush", "committed"}
TodoInv ==
    /\ loop = "off" => commands = <<>> /\ tabs = {}
    /\ todo \subseteq tabs
    /\ todo # {} => loop = "keeping"
    /\ \A d \in todo : Dirty(d)

LEMMA QueueIs ==
    ASSUME NoFlush', TodoInv'
    PROVE  QueueInv'
BY DEF NoFlush, TodoInv, QueueInv

LEMMA NobodyFlushes ==
    ASSUME QueueInv, loop # "flushing"
    PROVE  NoFlush
BY DEF QueueInv, NoFlush

LEMMA NoneFlushed ==
    ASSUME commands' = <<>>
    PROVE  NoFlush'
BY DEF NoFlush

\* A copy, or a clearing, told while nobody flushes.
LEMMA ToldNoFlush ==
    ASSUME DraftKinds, QueueInv, loop # "flushing",
           NEW c \in Command, c.kind \in {"checkpoint", "clear"}, TellStorage(c)
    PROVE  NoFlush'
<1>1. NoFlush
  BY NobodyFlushes
<1>2. /\ Len(commands) \in Nat /\ Len(commands') = Len(commands) + 1
      /\ \A i \in 1..Len(commands) : commands'[i] = commands[i]
      /\ commands'[Len(commands) + 1] = c
  BY Told DEF DraftKinds
<1>3. ASSUME NEW i \in 1..Len(commands')
      PROVE  commands'[i].kind \notin {"flush", "committed"}
  <2>1. CASE i \in 1..Len(commands)
    BY <1>1, <1>2, <2>1 DEF NoFlush
  <2>2. CASE i = Len(commands) + 1
    BY <1>2, <2>2
  <2>3. QED
    BY <1>2, <2>1, <2>2
<1>4. QED
  BY <1>3 DEF NoFlush

\* The first command done, the loop and the tabs as they were.
LEMMA DoneQueue ==
    ASSUME DraftKinds, QueueInv, commands # <<>>, commands' = Tail(commands),
           UNCHANGED <<loop, todo, tabVars>>
    PROVE  QueueInv'
<1>1. /\ Len(commands) \in Nat \ {0} /\ Len(commands') = Len(commands) - 1
      /\ \A i \in 1..Len(commands') : commands'[i] = commands[i + 1]
  BY Done DEF DraftKinds
<1>2. ASSUME NEW i \in 1..Len(commands')
      PROVE  /\ commands'[i].kind = "flush" =>
                   commands'[i].rows = [d \in tabs |-> [text |-> text[d], hasPath |-> hasPath[d]]]
             /\ commands'[i].kind \in {"flush", "committed"} =>
                   loop = "flushing" /\ i = Len(commands')
  <2>1. i + 1 \in 1..Len(commands) /\ commands'[i] = commands[i + 1]
    BY <1>1
  <2>2. commands[i + 1].kind \in {"flush", "committed"} =>
            loop = "flushing" /\ i + 1 = Len(commands)
    BY <2>1 DEF QueueInv
  <2>3. commands[i + 1].kind = "flush" =>
            commands[i + 1].rows = [d \in tabs |-> [text |-> text[d], hasPath |-> hasPath[d]]]
    BY <2>1 DEF QueueInv
  <2>4. QED
    BY <1>1, <2>1, <2>2, <2>3
<1>3. loop # "off"
  BY DEF QueueInv
<1>4. QED
  BY <1>2, <1>3 DEF QueueInv, tabVars, Dirty

LEMMA QueueNext ==
    DraftKinds /\ QueueInv /\ FreshInv /\ [DraftsNext]_draftVars => QueueInv'
<1> SUFFICES ASSUME DraftKinds, QueueInv, FreshInv, [DraftsNext]_draftVars
             PROVE  QueueInv'
  OBVIOUS
<1>1. loop # "keeping" => todo = {}
  BY DEF QueueInv
<1>2. ASSUME UNCHANGED commands, loop # "flushing"
      PROVE  NoFlush'
  BY <1>2, NobodyFlushes DEF NoFlush
<1>3. ASSUME TabsGone(tabs), commands' = <<>>, todo' = {}
      PROVE  QueueInv'
  <2>1. NoFlush' /\ TodoInv'
    BY <1>3, NoneFlushed DEF TabsGone, TodoInv
  <2>2. QED
    BY <2>1, QueueIs
<1>4. CASE StartDexo
  <2>1. commands' = <<>> /\ todo' = {} /\ loop' = "select"
    BY <1>1, <1>4 DEF StartDexo, QueueInv
  <2>2. NoFlush' /\ TodoInv'
    BY <2>1, NoneFlushed DEF TodoInv
  <2>3. QED
    BY <2>2, QueueIs
<1>5. CASE KillDexo
  BY <1>3, <1>5 DEF KillDexo
<1>6. CASE EndKeeping
  <2>1. NoFlush' /\ TodoInv'
    BY <1>2, <1>6 DEF EndKeeping, TodoInv, tabVars
  <2>2. QED
    BY <2>1, QueueIs
<1>7. CASE FlushTabs
  <2> DEFINE rows == [d \in tabs |-> [text |-> text[d], hasPath |-> hasPath[d]]]
             c == [kind |-> "flush", rows |-> rows]
  <2>1. /\ loop \in {"select", "keeping"} /\ todo = {} /\ loop' = "flushing"
        /\ TellStorage(c) /\ UNCHANGED <<todo, tabVars>>
    BY <1>1, <1>7 DEF FlushTabs
  <2>2. NoFlush
    BY <2>1, NobodyFlushes
  <2>3. c.kind = "flush" /\ c.rows = rows
    OBVIOUS
  <2> HIDE DEF c
  <2>4. commands \in Seq(Command \cup {c})
    BY SeqMonotonic DEF DraftKinds
  <2>5. /\ Len(commands) \in Nat /\ Len(commands') = Len(commands) + 1
        /\ \A i \in 1..Len(commands) : commands'[i] = commands[i]
        /\ commands'[Len(commands) + 1] = c
    <3>1. c \in Command \cup {c}
      OBVIOUS
    <3>2. QED
      BY <2>1, <2>4, <3>1, Told
  <2>6. ASSUME NEW i \in 1..Len(commands')
        PROVE  /\ commands'[i].kind \in {"flush", "committed"} => i = Len(commands')
               /\ commands'[i].kind = "flush" => commands'[i].rows = rows
    <3>1. CASE i \in 1..Len(commands)
      BY <2>2, <2>5, <3>1 DEF NoFlush
    <3>2. CASE i = Len(commands) + 1
      BY <2>3, <2>5, <3>2
    <3>3. QED
      BY <2>5, <3>1, <3>2
  <2>7. QED
    BY <2>1, <2>6 DEF QueueInv, tabVars
<1>8. ASSUME NEW quits \in BOOLEAN, KeepDirty(quits)
      PROVE  QueueInv'
  <2>1. NoFlush' /\ TodoInv'
    BY <1>2, <1>8 DEF KeepDirty, TodoInv, tabVars, Dirty
  <2>2. QED
    BY <2>1, QueueIs
<1>9. ASSUME NEW d \in Documents, OpenTab(d) \/ EditText(d) \/ SaveTextFails(d) \/ CloseTab(d)
      PROVE  QueueInv'
  <2>1. loop' = "select" /\ todo' = {} /\ UNCHANGED commands /\ loop = "select"
    BY <1>1, <1>9 DEF OpenTab, EditText, SaveTextFails, CloseTab
  <2>2. NoFlush' /\ TodoInv'
    BY <1>2, <2>1 DEF TodoInv
  <2>3. QED
    BY <2>2, QueueIs
<1>10. ASSUME NEW d \in Documents, NEW closes \in BOOLEAN, DiscardTab(d) \/ SaveText(d, closes)
       PROVE  QueueInv'
  <2>1. /\ loop' = "select" /\ todo' = {} /\ loop = "select" /\ d \in tabs
        /\ TellStorage([kind |-> "clear", document |-> d])
    BY <1>1, <1>10 DEF DiscardTab, SaveText
  <2>2. [kind |-> "clear", document |-> d] \in Command
    BY <2>1 DEF DraftKinds, Command, Clear
  <2>3. NoFlush' /\ TodoInv'
    BY <2>1, <2>2, ToldNoFlush DEF TodoInv
  <2>4. QED
    BY <2>3, QueueIs
<1>11. ASSUME NEW d \in Documents, CheckpointDraft(d)
       PROVE  QueueInv'
  <2>1. [kind |-> "checkpoint", document |-> d, text |-> text[d]] \in Command
    BY <1>11 DEF CheckpointDraft, DraftKinds, QueueInv, Command, Checkpoint
  <2>2. NoFlush' /\ TodoInv'
    BY <1>11, <2>1, ToldNoFlush DEF CheckpointDraft, TodoInv, QueueInv, tabVars, Dirty
  <2>3. QED
    BY <2>2, QueueIs
<1>12. ASSUME NEW d \in Documents, AutosaveFile(d)
       PROVE  QueueInv'
  <2>1. \A e \in todo' : e # d /\ e \in todo /\ revision' = revision
                           /\ savedRevision'[e] = savedRevision[e]
    BY <1>12 DEF AutosaveFile, DraftKinds, QueueInv
  <2>2. NoFlush' /\ TodoInv'
    BY <1>2, <1>12, <2>1 DEF AutosaveFile, TodoInv, QueueInv, Dirty
  <2>3. QED
    BY <2>2, QueueIs
<1>13. CASE WriteCheckpoint \/ ClearRecovery
  BY <1>13, DoneQueue DEF WriteCheckpoint, ClearRecovery, StorageTold, draftHistory
<1>14. CASE FlushCommits
  <2>1. loop = "flushing" /\ Tail(commands) = <<>> /\ todo = {}
    BY <1>1, <1>14, FlushIsLast DEF FlushCommits
  <2>2. commands' = <<[kind |-> "committed"]>>
    <3>1. commands' = <<[kind |-> "committed"]>> \o <<>>
      BY <1>14, <2>1 DEF FlushCommits
    <3>2. <<[kind |-> "committed"]>> \in Seq({[kind |-> "committed"]})
      OBVIOUS
    <3>3. QED
      BY <3>1, <3>2, ConcatEmptySeq
  <2>3. /\ Len(commands') = 1 /\ commands'[1].kind = "committed"
    BY <2>2
  <2>4. UNCHANGED <<loop, todo>>
    BY <1>14 DEF FlushCommits
  <2>5. QED
    BY <2>1, <2>3, <2>4 DEF QueueInv
<1>15. CASE FlushFails \/ TabsFlushed
  <2>1. commands' = <<>> /\ loop = "flushing" /\ todo' = {}
    BY <1>1, <1>15, FlushIsLast DEF FlushFails, TabsFlushed
  <2>2. CASE quitting
    BY <1>3, <1>15, <2>1, <2>2 DEF FlushFails, TabsFlushed
  <2>3. CASE ~quitting
    <3>1. loop' = "select"
      BY <1>15, <2>3 DEF FlushFails, TabsFlushed
    <3>2. NoFlush' /\ TodoInv'
      BY <2>1, <3>1, NoneFlushed DEF TodoInv
    <3>3. QED
      BY <3>2, QueueIs
  <2>4. QED
    BY <2>2, <2>3
<1>16. ASSUME NEW d \in Documents, ClearCopy(d)
       PROVE  QueueInv'
  BY <1>16 DEF ClearCopy, QueueInv, tabVars, draftHistory, Dirty
<1>17. CASE UNCHANGED draftVars
  BY <1>17 DEF draftVars, QueueInv, Dirty
<1>18. QED
  BY <1>4, <1>5, <1>6, <1>7, <1>8, <1>9, <1>10, <1>11, <1>12, <1>13, <1>14, <1>15, <1>16, <1>17
     DEF DraftsNext, StorageStep

-----------------------------------------------------------------------------
(* Documents that are in no tab, or in none yet. *)

LEMMA FreshNext ==
    DraftKinds /\ QueueInv /\ FreshInv /\ [DraftsNext]_draftVars => FreshInv'
<1> SUFFICES ASSUME DraftKinds, QueueInv, FreshInv, [DraftsNext]_draftVars
             PROVE  FreshInv'
  OBVIOUS
<1> DEFINE Fresh(d) == /\ recovery[d] = NoText /\ stored[d] = NoRow /\ kept[d] = NoText
                       /\ disk[d] = IF d \in Files THEN 0 ELSE NoText
           Empty(d) == text[d] = 0 /\ revision[d] = 0 /\ savedRevision[d] = 0 /\ ~hasPath[d]
<1>1. ASSUME TabsGone(tabs)
      PROVE  tabs' = {} /\ \A d \in Documents : Empty(d)'
  BY <1>1 DEF TabsGone, FreshInv
<1>2. ASSUME UNCHANGED <<keptVars, kept, used>>
      PROVE  \A d \in Documents \ used' : Fresh(d)'
  BY <1>2 DEF FreshInv, keptVars
<1>3. ASSUME UNCHANGED tabVars
      PROVE  \A d \in Documents \ tabs' : Empty(d)'
  BY <1>3 DEF FreshInv, tabVars
<1>4. tabs \subseteq used /\ used \subseteq Documents
  BY DEF DraftKinds
<1> HIDE DEF Fresh, Empty
<1>5. CASE StartDexo
  <2>1. \A d \in Documents \ tabs' : Empty(d)'
    <3>1. ASSUME NEW d \in Documents, d \notin tabs'
          PROVE  recovery[d] = NoText /\ stored[d] = NoRow
      BY <1>5, <3>1 DEF StartDexo
    <3>2. ASSUME NEW d \in Documents, recovery[d] = NoText, stored[d] = NoRow
          PROVE  text'[d] = 0 /\ revision'[d] = 0 /\ savedRevision'[d] = 0
      BY <1>5, <3>2 DEF StartDexo
    <3>3. ASSUME NEW d \in Documents, stored[d] = NoRow
          PROVE  ~hasPath'[d]
      BY <1>5, <3>3 DEF StartDexo, NoRow
    <3>4. QED
      BY <3>1, <3>2, <3>3 DEF Empty
  <2>2. QED
    BY <1>2, <1>5, <2>1 DEF StartDexo, FreshInv, Fresh, Empty
<1>6. CASE KillDexo
  BY <1>1, <1>2, <1>6 DEF KillDexo, FreshInv, Fresh, Empty
<1>7. CASE EndKeeping \/ FlushTabs \/ \E quits \in BOOLEAN : KeepDirty(quits)
  <2>1. UNCHANGED <<keptVars, kept, used, tabVars>>
    BY <1>7 DEF EndKeeping, FlushTabs, KeepDirty, draftHistory
  <2>2. QED
    BY <1>2, <1>3, <2>1 DEF FreshInv, Fresh, Empty
<1>8. ASSUME NEW d \in Documents, OpenTab(d)
      PROVE  FreshInv'
  BY <1>8 DEF OpenTab, FreshInv, keptVars, draftHistory, DraftKinds
<1>9. ASSUME NEW d \in Documents, EditText(d)
      PROVE  FreshInv'
  BY <1>4, <1>9 DEF EditText, FreshInv, keptVars, DraftKinds
<1>10. ASSUME NEW d \in Documents, CloseTab(d) \/ DiscardTab(d)
       PROVE  FreshInv'
  <2>1. TabsGone({d}) /\ d \in tabs /\ UNCHANGED <<keptVars, used>> /\ Settles(d, NoText)
    BY <1>10 DEF CloseTab, DiscardTab
  <2>2. \A e \in Documents \ tabs' : Empty(e)'
    BY <2>1 DEF TabsGone, FreshInv, Empty
  <2>3. \A e \in Documents \ used' : Fresh(e)'
    BY <1>4, <2>1 DEF FreshInv, Fresh, Settles, keptVars, DraftKinds
  <2>4. QED
    BY <2>2, <2>3 DEF FreshInv, Fresh, Empty
<1>11. ASSUME NEW d \in Documents, NEW closes \in BOOLEAN, SaveText(d, closes)
       PROVE  FreshInv'
  <2>1. d \in tabs /\ d \in used
    BY <1>4, <1>11 DEF SaveText
  <2>2. \A e \in Documents \ tabs' : Empty(e)'
    <3>1. CASE closes
      BY <1>11, <2>1, <3>1 DEF SaveText, TabsGone, FreshInv, Empty
    <3>2. CASE ~closes
      BY <1>11, <2>1, <3>2 DEF SaveText, FreshInv, Empty, DraftKinds
    <3>3. QED
      BY <3>1, <3>2
  <2>3. \A e \in Documents \ used' : Fresh(e)'
    BY <1>11, <2>1 DEF SaveText, Settles, FreshInv, Fresh, DraftKinds
  <2>4. QED
    BY <2>2, <2>3 DEF FreshInv, Fresh, Empty
<1>12. ASSUME NEW d \in Documents, SaveTextFails(d)
       PROVE  FreshInv'
  BY <1>4, <1>12 DEF SaveTextFails, FreshInv, keptVars, DraftKinds
<1>13. ASSUME NEW d \in Documents, CheckpointDraft(d)
       PROVE  FreshInv'
  <2>1. UNCHANGED <<keptVars, kept, used, tabVars>>
    BY <1>13 DEF CheckpointDraft, draftHistory
  <2>2. QED
    BY <1>2, <1>3, <2>1 DEF FreshInv, Fresh, Empty
<1>14. ASSUME NEW d \in Documents, AutosaveFile(d)
       PROVE  FreshInv'
  <2>1. d \in tabs /\ d \in used
    BY <1>4, <1>14 DEF AutosaveFile, QueueInv
  <2>2. \A e \in Documents \ tabs' : Empty(e)'
    BY <1>14, <2>1 DEF AutosaveFile, FreshInv, Empty, DraftKinds
  <2>3. \A e \in Documents \ used' : Fresh(e)'
    BY <1>14, <2>1 DEF AutosaveFile, Keeps, FreshInv, Fresh, DraftKinds
  <2>4. QED
    BY <2>2, <2>3 DEF FreshInv, Fresh, Empty
<1>15. CASE WriteCheckpoint \/ ClearRecovery
  <2>1. commands \in Seq(Command) /\ commands # <<>> /\ UNCHANGED <<tabVars, disk, stored, used>>
    BY <1>15 DEF WriteCheckpoint, ClearRecovery, StorageTold, DraftKinds
  <2>2. Head(commands).document \in used
    BY <1>15, <2>1, HeadTailProperties, OfACommand DEF WriteCheckpoint, ClearRecovery, StorageTold
  <2>3. \A e \in Documents \ used : recovery'[e] = recovery[e] /\ kept'[e] = kept[e]
    <3>1. CASE WriteCheckpoint
      BY <2>2, <3>1 DEF WriteCheckpoint, Keeps, DraftKinds
    <3>2. CASE ClearRecovery
      BY <2>2, <3>2 DEF ClearRecovery, draftHistory, DraftKinds
    <3>3. QED
      BY <1>15, <3>1, <3>2
  <2>4. \A e \in Documents \ used' : Fresh(e)'
    BY <2>1, <2>3 DEF Fresh, FreshInv
  <2>5. QED
    BY <1>3, <2>1, <2>4 DEF FreshInv, Fresh, Empty
<1>16. CASE FlushCommits
  <2>1. /\ Head(commands) = commands[1] /\ Len(commands) = 1 /\ Head(commands).kind = "flush"
    BY <1>16, FlushIsLast DEF FlushCommits, StorageTold
  <2>2. DOMAIN Head(commands).rows = tabs
    BY <2>1 DEF QueueInv
  <2>3. UNCHANGED <<tabVars, disk, recovery, used>>
    BY <1>16 DEF FlushCommits
  <2>4. \A e \in Documents \ used : stored'[e] = NoRow /\ kept'[e] = kept[e]
    BY <1>4, <1>16, <2>2 DEF FlushCommits
  <2>5. \A e \in Documents \ used' : Fresh(e)'
    BY <2>3, <2>4 DEF Fresh, FreshInv
  <2>6. QED
    BY <1>3, <2>3, <2>5 DEF FreshInv, Fresh, Empty
<1>17. CASE FlushFails \/ TabsFlushed
  <2>1. UNCHANGED <<keptVars, kept, used>>
    BY <1>17 DEF FlushFails, TabsFlushed
  <2>2. CASE quitting
    <3>1. TabsGone(tabs)
      BY <1>17, <2>2 DEF FlushFails, TabsFlushed
    <3>2. QED
      BY <1>1, <1>2, <2>1, <3>1 DEF FreshInv, Fresh, Empty
  <2>3. CASE ~quitting
    <3>1. \A e \in Documents \ tabs' : Empty(e)'
      BY <1>17, <2>3 DEF FlushFails, TabsFlushed, FreshInv, Empty, tabVars
    <3>2. QED
      BY <1>2, <2>1, <3>1 DEF FreshInv, Fresh, Empty
  <2>4. QED
    BY <2>2, <2>3
<1>18. ASSUME NEW d \in Documents, ClearCopy(d)
       PROVE  FreshInv'
  BY <1>18 DEF ClearCopy, FreshInv, tabVars, draftHistory, DraftKinds
<1>19. CASE UNCHANGED draftVars
  BY <1>19 DEF draftVars, FreshInv
<1>20. QED
  BY <1>5, <1>6, <1>7, <1>8, <1>9, <1>10, <1>11, <1>12, <1>13, <1>14, <1>15, <1>16, <1>17, <1>18,
     <1>19 DEF DraftsNext, StorageStep

-----------------------------------------------------------------------------
(* A text that counts as saved is in its file. *)

LEMMA HeldNext ==
    DraftKinds /\ QueueInv /\ FreshInv /\ HeldInv /\ [DraftsNext]_draftVars => HeldInv'
<1> SUFFICES ASSUME DraftKinds, QueueInv, FreshInv, HeldInv, [DraftsNext]_draftVars
             PROVE  HeldInv'
  OBVIOUS
<1> DEFINE Held(d) == d \in lulled \/ d \in misnamed \/ Dirty(d) \/ HeldByFile(d)
<1>1. ASSUME UNCHANGED <<tabVars, disk, lulled, misnamed>>, loop' # "off" => loop # "off"
      PROVE  HeldInv'
  BY <1>1 DEF HeldInv, tabVars, Dirty, HeldByFile
<1>2. ASSUME loop' = "off"
      PROVE  HeldInv'
  BY <1>2 DEF HeldInv
<1>3. ASSUME \A d \in tabs' : Held(d)'
      PROVE  HeldInv'
  BY <1>3 DEF HeldInv
<1>4. loop # "off" => \A d \in tabs : Held(d)
  BY DEF HeldInv
<1> HIDE DEF Held
<1>k. tabs \subseteq Documents /\ tabs' \subseteq Documents
  BY KindsNext DEF DraftKinds
<1>5. CASE StartDexo
  <2> DEFINE recovered == {d \in Documents : recovery[d] # NoText}
             restored == {d \in Documents : stored[d] # NoRow}
  <2>1. ASSUME NEW d \in recovered
        PROVE  Held(d)'
    <3>1. revision'[d] = 0 /\ savedRevision'[d] = 1
      BY <1>5 DEF StartDexo
    <3>2. QED
      BY <3>1 DEF Held, Dirty
  <2>2. ASSUME NEW d \in restored \ recovered, ComesBackUnsaved(d)
        PROVE  Held(d)'
    <3>1. revision'[d] = 1 /\ savedRevision'[d] = 0
      BY <1>5, <2>2 DEF StartDexo
    <3>2. QED
      BY <3>1 DEF Held, Dirty
  <2>3. ASSUME NEW d \in restored \ recovered, ~ComesBackUnsaved(d)
        PROVE  Held(d)'
    <3>1. text'[d] = stored[d].text /\ hasPath'[d] = stored[d].hasPath /\ disk' = disk
      BY <1>5 DEF StartDexo, keptVars
    <3>2. CASE stored[d].hasPath
      <4>1. disk[d] = NoText \/ disk[d] = stored[d].text
        BY <2>3, <3>2 DEF ComesBackUnsaved
      <4>2. disk[d] = NoText => d \in lulled'
        BY <1>5, <3>2 DEF StartDexo
      <4>3. QED
        BY <3>1, <3>2, <4>1, <4>2 DEF Held, HeldByFile
    <3>3. CASE ~stored[d].hasPath
      BY <2>3, <3>1, <3>3 DEF Held, HeldByFile, ComesBackUnsaved
    <3>4. QED
      BY <3>2, <3>3
  <2>4. tabs' = recovered \cup restored
    BY <1>5 DEF StartDexo
  <2>5. QED
    BY <1>3, <2>1, <2>2, <2>3, <2>4
<1>6. CASE KillDexo
  BY <1>2, <1>6 DEF KillDexo
<1>7. CASE EndKeeping \/ FlushTabs \/ \E quits \in BOOLEAN : KeepDirty(quits)
  BY <1>1, <1>7 DEF EndKeeping, FlushTabs, KeepDirty, keptVars, draftHistory
<1>8. ASSUME NEW d \in Documents, OpenTab(d)
      PROVE  HeldInv'
  <2>1. text[d] = 0 /\ disk[d] = IF d \in Files THEN 0 ELSE NoText
    BY <1>8 DEF OpenTab, DraftKinds, FreshInv
  <2>2. /\ text' = text /\ disk' = disk /\ hasPath' = [hasPath EXCEPT ![d] = d \in Files]
        /\ UNCHANGED <<revision, savedRevision, lulled, misnamed>>
        /\ tabs' = tabs \cup {d} /\ loop # "off"
    BY <1>8 DEF OpenTab, keptVars, draftHistory
  <2>3. Held(d)'
    BY <2>1, <2>2 DEF Held, HeldByFile, DraftKinds
  <2>4. ASSUME NEW e \in tabs, e # d
        PROVE  Held(e)'
    BY <1>4, <1>k, <2>2, <2>4 DEF Held, HeldByFile, Dirty, DraftKinds
  <2>5. QED
    BY <1>3, <2>2, <2>3, <2>4
<1>9. ASSUME NEW d \in Documents, EditText(d)
      PROVE  HeldInv'
  <2>1. /\ d \in tabs /\ loop # "off" /\ tabs' = tabs
        /\ text' = [text EXCEPT ![d] = edits'] /\ revision' = [revision EXCEPT ![d] = @ + 1]
        /\ lulled' = IF revision'[d] = savedRevision[d] THEN lulled \cup {d} ELSE lulled \ {d}
        /\ UNCHANGED <<disk, hasPath, savedRevision, misnamed>>
    BY <1>9 DEF EditText, keptVars
  <2>2. Held(d)'
    BY <2>1 DEF Held, Dirty
  <2>3. ASSUME NEW e \in tabs, e # d
        PROVE  Held(e)'
    BY <1>4, <1>k, <2>1, <2>3 DEF Held, HeldByFile, Dirty, DraftKinds
  <2>4. QED
    BY <1>3, <2>1, <2>2, <2>3
<1>10. ASSUME NEW d \in Documents, TabsGone({d}), UNCHANGED misnamed, loop # "off",
              \A e \in Documents \ {d} : disk'[e] = disk[e] /\ (e \in lulled => e \in lulled')
       PROVE  HeldInv'
  <2>1. ASSUME NEW e \in tabs'
        PROVE  Held(e)'
    <3>1. e \in tabs /\ e # d /\ e \in Documents
      BY <1>10, <1>k DEF TabsGone
    <3>2. QED
      BY <1>4, <1>10, <3>1 DEF TabsGone, Held, HeldByFile, Dirty
  <2>2. QED
    BY <1>3, <2>1
<1>11. ASSUME NEW d \in Documents, CloseTab(d) \/ DiscardTab(d)
       PROVE  HeldInv'
  BY <1>10, <1>11 DEF CloseTab, DiscardTab, keptVars
<1>12. ASSUME NEW d \in Documents, NEW closes \in BOOLEAN, SaveText(d, closes)
       PROVE  HeldInv'
  <2>1. /\ disk' = [disk EXCEPT ![d] = text[d]] /\ lulled' = lulled \ {d}
        /\ misnamed' = misnamed /\ loop # "off" /\ d \in tabs
    BY <1>12 DEF SaveText
  <2>2. CASE closes
    BY <1>10, <1>12, <2>1, <2>2 DEF SaveText, DraftKinds
  <2>3. CASE ~closes
    <3>1. /\ hasPath' = [hasPath EXCEPT ![d] = TRUE]
          /\ savedRevision' = [savedRevision EXCEPT ![d] = Later(@, revision[d])]
          /\ UNCHANGED <<tabs, text, revision>>
      BY <1>12, <2>3 DEF SaveText
    <3>2. Held(d)'
      BY <2>1, <3>1 DEF Held, HeldByFile, DraftKinds
    <3>3. ASSUME NEW e \in tabs, e # d
          PROVE  Held(e)'
      BY <1>4, <1>k, <2>1, <3>1, <3>3 DEF Held, HeldByFile, Dirty, DraftKinds
    <3>4. QED
      BY <1>3, <3>1, <3>2, <3>3
  <2>4. QED
    BY <2>2, <2>3
<1>13. ASSUME NEW d \in Documents, SaveTextFails(d)
       PROVE  HeldInv'
  <2>1. /\ hasPath' = [hasPath EXCEPT ![d] = TRUE] /\ misnamed' = misnamed \cup {d} /\ loop # "off"
        /\ UNCHANGED <<tabs, text, revision, savedRevision, disk, lulled>>
    BY <1>13 DEF SaveTextFails, keptVars
  <2>2. ASSUME NEW e \in tabs
        PROVE  Held(e)'
    BY <1>4, <1>k, <2>1, <2>2 DEF Held, HeldByFile, Dirty, DraftKinds
  <2>3. QED
    BY <1>3, <2>1, <2>2
<1>14. ASSUME NEW d \in Documents, CheckpointDraft(d) \/ ClearCopy(d)
       PROVE  HeldInv'
  BY <1>1, <1>14 DEF CheckpointDraft, ClearCopy, keptVars, draftHistory
<1>15. ASSUME NEW d \in Documents, AutosaveFile(d)
       PROVE  HeldInv'
  <2>1. /\ hasPath[d] /\ loop # "off"
        /\ UNCHANGED <<tabs, text, revision, hasPath, lulled, misnamed>>
    BY <1>15 DEF AutosaveFile
  <2>2. CASE /\ disk' = [disk EXCEPT ![d] = text[d]]
             /\ savedRevision' = [savedRevision EXCEPT ![d] = revision[d]]
    <3>1. ASSUME NEW e \in tabs
          PROVE  Held(e)'
      <4>1. CASE e = d
        BY <2>1, <2>2, <4>1 DEF Held, HeldByFile, DraftKinds
      <4>2. CASE e # d
        BY <1>4, <1>k, <2>1, <2>2, <3>1, <4>2 DEF Held, HeldByFile, Dirty, DraftKinds
      <4>3. QED
        BY <4>1, <4>2
    <3>2. QED
      BY <1>3, <2>1, <3>1
  <2>3. CASE UNCHANGED <<disk, savedRevision>>
    BY <1>1, <2>1, <2>3 DEF tabVars
  <2>4. QED
    BY <1>15, <2>2, <2>3 DEF AutosaveFile
<1>16. CASE WriteCheckpoint \/ ClearRecovery \/ FlushCommits
  BY <1>1, <1>16 DEF WriteCheckpoint, ClearRecovery, FlushCommits, draftHistory
<1>17. CASE FlushFails
  <2>1. CASE quitting
    BY <1>2, <1>17, <2>1 DEF FlushFails
  <2>2. CASE ~quitting
    <3>1. loop # "off"
      BY <1>17, FlushIsLast DEF FlushFails
    <3>2. QED
      BY <1>1, <1>17, <2>2, <3>1 DEF FlushFails, keptVars
  <2>3. QED
    BY <2>1, <2>2
<1>18. CASE TabsFlushed
  <2>1. CASE quitting
    BY <1>2, <1>18, <2>1 DEF TabsFlushed
  <2>2. CASE ~quitting
    BY <1>3, <1>k, <1>18, <2>2 DEF TabsFlushed, keptVars, Held, HeldByFile
  <2>3. QED
    BY <2>1, <2>2
<1>19. CASE UNCHANGED draftVars
  BY <1>1, <1>19 DEF draftVars, tabVars
<1>20. QED
  BY <1>5, <1>6, <1>7, <1>8, <1>9, <1>11, <1>12, <1>13, <1>14, <1>15, <1>16, <1>17, <1>18, <1>19
     DEF DraftsNext, StorageStep

LEMMA DraftsStart == DraftsInit => DraftKinds /\ QueueInv /\ FreshInv /\ HeldInv
<1> SUFFICES ASSUME DraftsInit
             PROVE  DraftKinds /\ QueueInv /\ FreshInv /\ HeldInv
  OBVIOUS
<1>1. QueueInv /\ FreshInv /\ HeldInv
  BY DEF DraftsInit, QueueInv, FreshInv, HeldInv
<1>2. 0 \in 0..MaxEdits /\ 0 \in 0..MaxStarts /\ edits = 0 /\ 0 \in Known
  BY DraftsAssumption DEF DraftsInit, Known
<1>3. {0, NoText} \subseteq NoText..edits
  BY <1>2 DEF NoText
<1>4. commands \in Seq(Command)
  BY EmptySeq DEF DraftsInit
<1>5. QED
  BY <1>1, <1>2, <1>3, <1>4 DEF DraftsInit, DraftKinds

\* What the workbench and its storage hold of the texts, for any documents, files, edits and
\* starts of Dexo.
THEOREM DraftsTyped == DraftsSpec => []DraftsTypeOK
<1>1. DraftKinds /\ QueueInv => DraftsTypeOK
  <2> SUFFICES ASSUME DraftKinds, QueueInv
               PROVE  DraftsTypeOK
    OBVIOUS
  <2>1. edits \in 0..MaxEdits /\ MaxEdits \in Nat
    BY DraftsAssumption DEF DraftKinds
  <2>2. Known \subseteq 0..MaxEdits /\ NoText..edits \subseteq Texts /\ Known \subseteq Texts
    BY <2>1 DEF Known, Texts, NoText
  <2>3. stored \in [Documents -> [text : Texts, hasPath : BOOLEAN]]
    <3>1. NoRow \in [text : Texts, hasPath : BOOLEAN]
      BY <2>1 DEF NoRow, Texts, NoText
    <3>2. Row \subseteq [text : Texts, hasPath : BOOLEAN]
      BY <2>2 DEF Row
    <3>3. QED
      BY <3>1, <3>2 DEF DraftKinds
  <2>4. \A i \in 1..Len(commands) :
           commands[i].kind \in {"checkpoint", "clear", "flush", "committed"}
    BY ElementOfSeq, OfACommand DEF DraftKinds
  <2>5. QED
    BY <2>2, <2>3, <2>4 DEF DraftsTypeOK, DraftKinds, QueueInv
<1>2. QED
  BY <1>1, DraftsStart, KindsNext, QueueNext, FreshNext, PTL DEF DraftsSpec

\* A text that counts as saved, so that Ctrl+W closes it without a question, is in its file --
\* unless a flush said so, one edit brought a recovered text to its saved revision, or its file
\* could not be written: for any documents, edits and starts of Dexo.
THEOREM SavedAreHeld == DraftsSpec => []SavedIsHeld
<1>1. HeldInv => SavedIsHeld
  BY DEF HeldInv, SavedIsHeld
<1>2. QED
  BY <1>1, DraftsStart, KindsNext, QueueNext, FreshNext, HeldNext, PTL DEF DraftsSpec

-----------------------------------------------------------------------------
(* What the storage thread has yet to do with the copies. *)

LEMMA PlacesType ==
    ASSUME DraftKinds, NEW d
    PROVE  /\ ClearsOf(d) \subseteq 1..Len(commands) /\ CopiesOf(d) \subseteq 1..Len(commands)
           /\ ClearsOf(d) \subseteq Nat \ {0} /\ CopiesOf(d) \subseteq Nat \ {0}
           /\ \A i \in CopiesOf(d) : i \notin ClearsOf(d) /\ commands[i].text \in Known
           /\ d \notin used => ClearsOf(d) = {} /\ CopiesOf(d) = {}
<1>1. Len(commands) \in Nat /\ \A i \in 1..Len(commands) : commands[i] \in Command
  BY ElementOfSeq, LenProperties DEF DraftKinds
<1>2. \A i \in 1..Len(commands) :
         /\ commands[i].kind = "checkpoint" => commands[i].document \in used /\ commands[i].text \in Known
         /\ commands[i].kind = "clear" => commands[i].document \in used
  BY <1>1, OfACommand
<1>3. QED
  BY <1>1, <1>2 DEF ClearsOf, CopiesOf

\* One more command.
LEMMA ToldPlaces ==
    ASSUME DraftKinds, NEW c \in Command, TellStorage(c), NEW d
    PROVE  /\ Len(commands) \in Nat
           /\ ClearsOf(d)' = ClearsOf(d) \cup {i \in {Len(commands) + 1} : c.kind = "clear" /\ c.document = d}
           /\ CopiesOf(d)' =
                 CopiesOf(d) \cup {i \in {Len(commands) + 1} : c.kind = "checkpoint" /\ c.document = d}
           /\ c.kind # "committed" /\ Committing' => Committing
<1>1. /\ Len(commands) \in Nat /\ Len(commands') = Len(commands) + 1
      /\ \A i \in 1..Len(commands) : commands'[i] = commands[i]
      /\ commands'[Len(commands) + 1] = c
  BY Told DEF DraftKinds
<1>2. 1..Len(commands') = 1..Len(commands) \cup {Len(commands) + 1}
  BY <1>1
<1>3. QED
  BY <1>1, <1>2 DEF ClearsOf, CopiesOf, Committing

\* Of the documents it is not about, nothing changes.
LEMMA ToldCopy ==
    ASSUME DraftKinds, NEW c \in Command, TellStorage(c), UNCHANGED recovery, NEW d
    PROVE  /\ CopyLeft(d)' => CopyLeft(d) \/ (c.kind = "checkpoint" /\ c.document = d)
           /\ c.kind = "clear" /\ c.document = d => ~CopyLeft(d)'
<1> DEFINE n == Len(commands) + 1
<1>1. /\ ClearsOf(d)' = ClearsOf(d) \cup {i \in {n} : c.kind = "clear" /\ c.document = d}
      /\ CopiesOf(d)' = CopiesOf(d) \cup {i \in {n} : c.kind = "checkpoint" /\ c.document = d}
      /\ n \in Nat /\ \A i \in CopiesOf(d) : i < n
  BY ToldPlaces, PlacesType
<1> HIDE DEF n
<1>2. ASSUME CopyLeft(d)', ~(c.kind = "checkpoint" /\ c.document = d)
      PROVE  CopyLeft(d)
  <2>1. CopiesOf(d)' = CopiesOf(d) /\ ClearsOf(d) \subseteq ClearsOf(d)'
    BY <1>1, <1>2
  <2>2. QED
    BY <1>2, <2>1 DEF CopyLeft
<1>3. ASSUME c.kind = "clear", c.document = d
      PROVE  ~CopyLeft(d)'
  <2>1. CopiesOf(d)' = CopiesOf(d) /\ n \in ClearsOf(d)'
    BY <1>1, <1>3
  <2>2. \A i \in CopiesOf(d)' : ~(n < i)
    BY <1>1, <2>1, PlacesType
  <2>3. QED
    BY <2>1, <2>2 DEF CopyLeft
<1>4. QED
  BY <1>2, <1>3

\* The first command done: all others come one place nearer.
LEMMA DonePlaces ==
    ASSUME DraftKinds, commands # <<>>, commands' = Tail(commands), NEW d
    PROVE  /\ \A i \in Nat \ {0} : i \in ClearsOf(d)' <=> i + 1 \in ClearsOf(d)
           /\ \A i \in Nat \ {0} : i \in CopiesOf(d)' <=> i + 1 \in CopiesOf(d)
           /\ \A i \in CopiesOf(d)' : commands'[i] = commands[i + 1]
           /\ ClearsOf(d)' \subseteq Nat \ {0} /\ CopiesOf(d)' \subseteq Nat \ {0}
           /\ 1 \in ClearsOf(d) <=> Head(commands).kind = "clear" /\ Head(commands).document = d
           /\ 1 \in CopiesOf(d) <=> Head(commands).kind = "checkpoint" /\ Head(commands).document = d
           /\ Head(commands) = commands[1]
           /\ Committing' => Committing /\ Len(commands) # 1
<1>1. /\ Len(commands) \in Nat \ {0} /\ Len(commands') = Len(commands) - 1
      /\ \A i \in 1..Len(commands') : commands'[i] = commands[i + 1]
      /\ Head(commands) = commands[1]
  BY Done DEF DraftKinds
<1>2. /\ \A i \in Nat \ {0} : i \in 1..Len(commands') <=> i + 1 \in 1..Len(commands)
      /\ 1 \in 1..Len(commands) /\ 1..Len(commands') \subseteq Nat \ {0}
  BY <1>1
<1>3. \A i \in Nat \ {0} : i \in ClearsOf(d)' <=> i + 1 \in ClearsOf(d)
  BY <1>1, <1>2 DEF ClearsOf
<1>4. \A i \in Nat \ {0} : i \in CopiesOf(d)' <=> i + 1 \in CopiesOf(d)
  BY <1>1, <1>2 DEF CopiesOf
<1>5. ClearsOf(d)' \subseteq 1..Len(commands') /\ CopiesOf(d)' \subseteq 1..Len(commands')
  BY DEF ClearsOf, CopiesOf
<1>6. Committing' => Committing /\ Len(commands) # 1
  BY <1>1, <1>2 DEF Committing
<1>7. /\ 1 \in ClearsOf(d) <=> Head(commands).kind = "clear" /\ Head(commands).document = d
      /\ 1 \in CopiesOf(d) <=> Head(commands).kind = "checkpoint" /\ Head(commands).document = d
  BY <1>1, <1>2 DEF ClearsOf, CopiesOf
<1>8. QED
  BY <1>1, <1>2, <1>3, <1>4, <1>5, <1>6, <1>7

\* A copy is left after a step of the storage thread only if one was left before it.
LEMMA CopyDone ==
    ASSUME DraftKinds, WriteCheckpoint \/ ClearRecovery, NEW d \in Documents, CopyLeft(d)'
    PROVE  CopyLeft(d)
<1>1. commands # <<>> /\ commands' = Tail(commands)
  BY DEF WriteCheckpoint, ClearRecovery, StorageTold
<1>2. \A j \in ClearsOf(d) : j = 1 \/ (j - 1 \in ClearsOf(d)' /\ j \in Nat)
  <2>1. \A j \in ClearsOf(d) : j = 1 \/ (j - 1 \in Nat \ {0} /\ (j - 1) + 1 = j /\ j \in Nat)
    BY PlacesType
  <2>2. QED
    BY <1>1, <2>1, DonePlaces
<1>3. ASSUME NEW i \in CopiesOf(d)', \A j \in ClearsOf(d)' : j < i
      PROVE  CopyLeft(d)
  <2>1. i + 1 \in CopiesOf(d) /\ i \in Nat \ {0}
    BY <1>1, <1>3, DonePlaces
  <2>2. \A j \in ClearsOf(d) : j < i + 1
    BY <1>2, <1>3, <2>1
  <2>3. QED
    BY <2>1, <2>2 DEF CopyLeft
<1>4. ASSUME recovery'[d] # NoText, ClearsOf(d)' = {}
      PROVE  CopyLeft(d)
  <2>1. CASE 1 \in CopiesOf(d)
    <3>1. 1 \notin ClearsOf(d)
      BY <2>1, PlacesType
    <3>2. ClearsOf(d) = {}
      BY <1>2, <1>4, <3>1
    <3>3. QED
      BY <2>1, <3>2 DEF CopyLeft
  <2>2. CASE 1 \notin CopiesOf(d)
    <3>1. recovery[d] # NoText /\ 1 \notin ClearsOf(d)
      <4>1. 1 \in ClearsOf(d) <=> Head(commands).kind = "clear" /\ Head(commands).document = d
        BY <1>1, DonePlaces
      <4>2. ~(Head(commands).kind = "checkpoint" /\ Head(commands).document = d)
        BY <1>1, <2>2, DonePlaces
      <4>3. CASE WriteCheckpoint
        BY <1>4, <4>1, <4>2, <4>3 DEF WriteCheckpoint, StorageTold, DraftKinds
      <4>4. CASE ClearRecovery
        BY <1>4, <4>1, <4>2, <4>4 DEF ClearRecovery, StorageTold, DraftKinds
      <4>5. QED
        BY <4>3, <4>4
    <3>2. ClearsOf(d) = {}
      BY <1>2, <1>4, <3>1
    <3>3. QED
      BY <3>1, <3>2 DEF CopyLeft
  <2>3. QED
    BY <2>1, <2>2
<1>5. QED
  BY <1>3, <1>4 DEF CopyLeft

\* Nothing to do.
LEMMA NonePlaces ==
    ASSUME commands = <<>>, NEW d
    PROVE  /\ ClearsOf(d) = {} /\ CopiesOf(d) = {} /\ ~Committing
           /\ CopyLeft(d) <=> recovery[d] # NoText
<1>1. ClearsOf(d) = {} /\ CopiesOf(d) = {} /\ ~Committing
  BY DEF ClearsOf, CopiesOf, Committing
<1>2. QED
  BY <1>1 DEF CopyLeft

\* A flush alone.
LEMMA FlushPlaces ==
    ASSUME DraftKinds, QueueInv, StorageTold("flush") \/ StorageTold("committed"), NEW d
    PROVE  /\ ClearsOf(d) = {} /\ CopiesOf(d) = {}
           /\ CopyLeft(d) <=> recovery[d] # NoText
           /\ Committing <=> StorageTold("committed")
<1>1. /\ Len(commands) = 1 /\ Head(commands) = commands[1] /\ commands # <<>>
      /\ commands[1].kind \in {"flush", "committed"}
  BY FlushIsLast DEF StorageTold
<1>2. ClearsOf(d) = {} /\ CopiesOf(d) = {}
  BY <1>1 DEF ClearsOf, CopiesOf
<1>3. CopyLeft(d) <=> recovery[d] # NoText
  BY <1>2 DEF CopyLeft
<1>4. Committing <=> StorageTold("committed")
  BY <1>1 DEF Committing, StorageTold
<1>5. QED
  BY <1>2, <1>3, <1>4

LEMMA CommitPlaces ==
    ASSUME DraftKinds, QueueInv, FlushCommits, NEW d
    PROVE  /\ ClearsOf(d)' = {} /\ CopiesOf(d)' = {} /\ Len(commands') = 1
           /\ CopyLeft(d)' <=> recovery[d] # NoText
           /\ DOMAIN Head(commands).rows = tabs
           /\ \A e \in tabs : Head(commands).rows[e] = [text |-> text[e], hasPath |-> hasPath[e]]
<1>1. /\ Len(commands) = 1 /\ Head(commands) = commands[1] /\ commands[1].kind = "flush"
      /\ Tail(commands) = <<>>
  BY FlushIsLast DEF FlushCommits, StorageTold
<1>2. commands[1].rows = [e \in tabs |-> [text |-> text[e], hasPath |-> hasPath[e]]]
  BY <1>1 DEF QueueInv
<1>3. commands' = <<[kind |-> "committed"]>>
  <2>1. commands' = <<[kind |-> "committed"]>> \o <<>>
    BY <1>1 DEF FlushCommits
  <2>2. <<[kind |-> "committed"]>> \in Seq({[kind |-> "committed"]})
    OBVIOUS
  <2>3. QED
    BY <2>1, <2>2, ConcatEmptySeq
<1>4. Len(commands') = 1 /\ commands'[1].kind = "committed"
  BY <1>3
<1>5. ClearsOf(d)' = {} /\ CopiesOf(d)' = {}
  BY <1>4 DEF ClearsOf, CopiesOf
<1>6. CopyLeft(d)' <=> recovery[d] # NoText
  BY <1>5 DEF CopyLeft, FlushCommits
<1>7. QED
  BY <1>1, <1>2, <1>4, <1>5, <1>6

-----------------------------------------------------------------------------
(* A copy that is left is of a tab that says so. *)

LEMMA CopiesNext ==
    DraftKinds /\ QueueInv /\ FreshInv /\ CopiesInv /\ [DraftsNext]_draftVars => CopiesInv'
<1> SUFFICES ASSUME DraftKinds, QueueInv, FreshInv, CopiesInv, [DraftsNext]_draftVars
             PROVE  CopiesInv'
  OBVIOUS
<1> DEFINE Shown(d) == /\ ~hasPath[d]
                       /\ d \in lulled \/ (d \in tabs /\ Dirty(d))
           Filed(d) == /\ recovery[d] = NoText /\ CopiesOf(d) = {}
                       /\ d \in tabs => hasPath[d]
           Clearing == Len(commands) = 1 /\ \A d \in Documents : recovery[d] # NoText => d \in clearing
<1>1. ASSUME loop' # "off" => \A d \in Documents : d \in misnamed' \/ ~CopyLeft(d)' \/ Shown(d)',
             \A d \in Documents : d \in misnamed' \/ ~stored'[d].hasPath \/ Filed(d)',
             Committing' => Clearing'
      PROVE  CopiesInv'
  BY <1>1 DEF CopiesInv
<1>2. /\ loop # "off" => \A d \in Documents : d \in misnamed \/ ~CopyLeft(d) \/ Shown(d)
      /\ \A d \in Documents : d \in misnamed \/ ~stored[d].hasPath \/ Filed(d)
      /\ Committing => Clearing
  BY DEF CopiesInv
<1>k. tabs \subseteq Documents /\ tabs' \subseteq Documents /\ tabs \subseteq used
  BY KindsNext DEF DraftKinds
<1>n. loop # "flushing" => ~Committing
  BY DEF QueueInv, Committing
<1>3. ASSUME UNCHANGED commands
      PROVE  /\ Committing' <=> Committing
             /\ \A d \in Documents : CopiesOf(d)' = CopiesOf(d) /\ ClearsOf(d)' = ClearsOf(d)
  BY <1>3 DEF Committing, CopiesOf, ClearsOf
<1>4. ASSUME UNCHANGED <<commands, recovery>>
      PROVE  \A d \in Documents : CopyLeft(d)' <=> CopyLeft(d)
  BY <1>3, <1>4 DEF CopyLeft
<1>5. ASSUME NEW c \in Command, c.kind \in {"clear", "flush"}, TellStorage(c), UNCHANGED recovery,
             loop # "flushing"
      PROVE  /\ ~Committing'
             /\ \A d \in Documents : /\ CopiesOf(d)' = CopiesOf(d)
                                     /\ CopyLeft(d)' => CopyLeft(d)
                                     /\ c.kind = "clear" /\ c.document = d => ~CopyLeft(d)'
  <2>1. c.kind # "checkpoint" /\ c.kind # "committed"
    BY <1>5
  <2>2. ASSUME NEW d \in Documents
        PROVE  CopiesOf(d)' = CopiesOf(d) /\ (Committing' => Committing)
    <3>1. CopiesOf(d)' =
             CopiesOf(d) \cup {i \in {Len(commands) + 1} : c.kind = "checkpoint" /\ c.document = d}
      BY <1>5, ToldPlaces
    <3>2. Committing' => Committing
      BY <1>5, <2>1, ToldPlaces
    <3>3. QED
      BY <2>1, <3>1, <3>2
  <2>3. ASSUME NEW d \in Documents
        PROVE  /\ CopyLeft(d)' => CopyLeft(d)
               /\ c.kind = "clear" /\ c.document = d => ~CopyLeft(d)'
    BY <1>5, <2>1, ToldCopy
  <2>4. Committing' => Committing
    BY <1>5, <2>1, ToldPlaces
  <2>5. QED
    BY <1>5, <1>n, <2>2, <2>3, <2>4
<1> HIDE DEF Shown, Filed, Clearing
<1>6. CASE StartDexo
  <2>1. commands = <<>> /\ commands' = <<>> /\ UNCHANGED keptVars /\ misnamed' = misnamed
    BY <1>6 DEF StartDexo, QueueInv
  <2>2. ASSUME NEW d \in Documents, d \notin misnamed, CopyLeft(d)'
        PROVE  Shown(d)'
    <3>1. recovery[d] # NoText
      BY <2>1, <2>2, NonePlaces DEF CopyLeft, ClearsOf, CopiesOf, keptVars
    <3>2. ~stored[d].hasPath
      BY <1>2, <2>2, <3>1 DEF Filed
    <3>3. d \in tabs' /\ revision'[d] = 0 /\ savedRevision'[d] = 1 /\ ~hasPath'[d]
      BY <1>6, <3>1, <3>2 DEF StartDexo
    <3>4. QED
      BY <3>3 DEF Shown, Dirty
  <2>3. \A d \in Documents : hasPath'[d] = stored[d].hasPath
    BY <1>6 DEF StartDexo
  <2>4. \A d \in Documents : d \in misnamed' \/ ~stored'[d].hasPath \/ Filed(d)'
    BY <1>2, <1>3, <2>1, <2>3 DEF Filed, keptVars
  <2>5. ~Committing'
    BY <2>1 DEF Committing
  <2>6. QED
    BY <1>1, <2>1, <2>2, <2>4, <2>5
<1>7. ASSUME commands' = <<>>, tabs' = {}, loop' = "off", UNCHANGED <<keptVars, misnamed>>
      PROVE  CopiesInv'
  <2>1. ~Committing' /\ \A d \in Documents : CopiesOf(d)' = {}
    BY <1>7 DEF Committing, CopiesOf
  <2>2. \A d \in Documents : d \in misnamed' \/ ~stored'[d].hasPath \/ Filed(d)'
    BY <1>2, <1>7, <2>1 DEF Filed, keptVars
  <2>3. QED
    BY <1>1, <1>7, <2>1, <2>2
<1>8. CASE KillDexo
  BY <1>7, <1>8 DEF KillDexo, TabsGone
<1>9. CASE EndKeeping \/ \E quits \in BOOLEAN : KeepDirty(quits)
  <2>1. /\ UNCHANGED <<tabVars, keptVars, commands, lulled, misnamed>> /\ loop # "off"
        /\ loop # "flushing"
    BY <1>9 DEF EndKeeping, KeepDirty, draftHistory
  <2>2. /\ \A d \in Documents : d \in misnamed' \/ ~CopyLeft(d)' \/ Shown(d)'
        /\ \A d \in Documents : d \in misnamed' \/ ~stored'[d].hasPath \/ Filed(d)'
    BY <1>2, <1>3, <1>4, <2>1 DEF Shown, Filed, Dirty, tabVars, keptVars
  <2>3. QED
    BY <1>1, <1>3, <1>n, <2>1, <2>2
<1>10. CASE FlushTabs
  <2> DEFINE c == [kind |-> "flush",
                   rows |-> [d \in tabs |-> [text |-> text[d], hasPath |-> hasPath[d]]]]
  <2>1. /\ TellStorage(c) /\ loop \in {"select", "keeping"}
        /\ UNCHANGED <<tabVars, keptVars, lulled, misnamed>>
    BY <1>10 DEF FlushTabs, draftHistory
  <2>2. c.kind = "flush" /\ c \in Command
    <3>1. [d \in tabs |-> [text |-> text[d], hasPath |-> hasPath[d]]] \in [tabs -> Row]
      BY DEF DraftKinds, Row
    <3>2. QED
      BY <1>k, <3>1 DEF Command, Flush
  <2>a. PICK a \in Command : TellStorage(a) /\ a.kind = "flush"
    BY <2>1, <2>2
  <2>3. ~Committing' /\ \A d \in Documents : CopiesOf(d)' = CopiesOf(d) /\ (CopyLeft(d)' => CopyLeft(d))
    BY <1>5, <2>1, <2>a DEF keptVars
  <2>4. /\ \A d \in Documents : d \in misnamed' \/ ~CopyLeft(d)' \/ Shown(d)'
        /\ \A d \in Documents : d \in misnamed' \/ ~stored'[d].hasPath \/ Filed(d)'
    BY <1>2, <2>1, <2>3 DEF Shown, Filed, Dirty, tabVars, keptVars
  <2>5. QED
    BY <1>1, <2>3, <2>4
<1>11. ASSUME NEW d \in Documents, OpenTab(d)
       PROVE  CopiesInv'
  <2>1. /\ UNCHANGED <<keptVars, commands, revision, savedRevision, lulled, misnamed>>
        /\ loop = "select" /\ tabs' = tabs \cup {d} /\ d \notin used
        /\ hasPath' = [hasPath EXCEPT ![d] = d \in Files]
    BY <1>11 DEF OpenTab, draftHistory
  <2>2. recovery[d] = NoText /\ ~stored[d].hasPath /\ CopiesOf(d) = {}
    BY <2>1, PlacesType DEF FreshInv, NoRow
  <2>3. ~CopyLeft(d)
    BY <2>2 DEF CopyLeft
  <2>4. ASSUME NEW e \in Documents
        PROVE  /\ e \in misnamed' \/ ~CopyLeft(e)' \/ Shown(e)'
               /\ e \in misnamed' \/ ~stored'[e].hasPath \/ Filed(e)'
    <3>1. CASE e = d
      BY <1>4, <2>1, <2>2, <2>3, <3>1 DEF keptVars
    <3>2. CASE e # d
      BY <1>2, <1>3, <1>4, <2>1, <3>2 DEF Shown, Filed, Dirty, keptVars, DraftKinds
    <3>3. QED
      BY <3>1, <3>2
  <2>5. QED
    BY <1>1, <1>3, <1>n, <2>1, <2>4
<1>12. ASSUME NEW d \in Documents, EditText(d)
       PROVE  CopiesInv'
  <2>1. /\ d \in tabs /\ loop = "select"
        /\ revision' = [revision EXCEPT ![d] = @ + 1]
        /\ lulled' = IF revision'[d] = savedRevision[d] THEN lulled \cup {d} ELSE lulled \ {d}
        /\ UNCHANGED <<keptVars, commands, tabs, hasPath, savedRevision, misnamed>>
    BY <1>12 DEF EditText
  <2>2. ASSUME NEW e \in Documents
        PROVE  /\ e \in misnamed' \/ ~CopyLeft(e)' \/ Shown(e)'
               /\ e \in misnamed' \/ ~stored'[e].hasPath \/ Filed(e)'
    <3>1. CASE e = d
      BY <1>2, <1>3, <1>4, <2>1, <3>1 DEF Shown, Filed, Dirty, keptVars
    <3>2. CASE e # d
      BY <1>2, <1>3, <1>4, <2>1, <2>2, <3>2 DEF Shown, Filed, Dirty, keptVars, DraftKinds
    <3>3. QED
      BY <3>1, <3>2
  <2>3. QED
    BY <1>1, <1>3, <1>n, <2>1, <2>2
<1>13. ASSUME NEW d \in Documents, CloseTab(d)
       PROVE  CopiesInv'
  <2>1. /\ TabsGone({d}) /\ d \in tabs /\ loop = "select" /\ ~Dirty(d)
        /\ UNCHANGED <<keptVars, commands, lulled, misnamed>>
    BY <1>13 DEF CloseTab
  <2>2. /\ tabs' = tabs \ {d} /\ ~hasPath'[d]
        /\ \A e \in Documents \ {d} : /\ hasPath'[e] = hasPath[e] /\ revision'[e] = revision[e]
                                      /\ savedRevision'[e] = savedRevision[e]
    BY <2>1 DEF TabsGone
  <2>3. ASSUME NEW e \in Documents
        PROVE  /\ e \in misnamed' \/ ~CopyLeft(e)' \/ Shown(e)'
               /\ e \in misnamed' \/ ~stored'[e].hasPath \/ Filed(e)'
    <3>1. CASE e = d
      BY <1>2, <1>3, <1>4, <2>1, <2>2, <3>1 DEF Shown, Filed, keptVars
    <3>2. CASE e # d
      BY <1>2, <1>3, <1>4, <2>1, <2>2, <3>2 DEF Shown, Filed, Dirty, keptVars
    <3>3. QED
      BY <3>1, <3>2
  <2>4. QED
    BY <1>1, <1>3, <1>n, <2>1, <2>3
<1>14. ASSUME NEW d \in Documents, DiscardTab(d) \/ SaveText(d, TRUE)
       PROVE  CopiesInv'
  <2> DEFINE c == [kind |-> "clear", document |-> d]
  <2>1. /\ TabsGone({d}) /\ d \in tabs /\ loop = "select" /\ TellStorage(c)
        /\ lulled \subseteq lulled' \cup {d}
        /\ UNCHANGED <<recovery, stored, misnamed>>
    BY <1>14 DEF DiscardTab, SaveText, keptVars
  <2>2. c \in Command /\ c.kind = "clear" /\ c.document = d
    BY <1>k, <2>1 DEF Command, Clear
  <2>a. PICK a \in Command : TellStorage(a) /\ a.kind = c.kind /\ a.document = d
    BY <2>1, <2>2
  <2>3. /\ tabs' = tabs \ {d}
        /\ \A e \in Documents \ {d} : /\ hasPath'[e] = hasPath[e] /\ revision'[e] = revision[e]
                                      /\ savedRevision'[e] = savedRevision[e]
    BY <2>1 DEF TabsGone
  <2>4. /\ ~Committing' /\ ~CopyLeft(d)'
        /\ \A e \in Documents : CopiesOf(e)' = CopiesOf(e) /\ (CopyLeft(e)' => CopyLeft(e))
    BY <1>5, <2>1, <2>2, <2>a
  <2>5. ASSUME NEW e \in Documents
        PROVE  /\ e \in misnamed' \/ ~CopyLeft(e)' \/ Shown(e)'
               /\ e \in misnamed' \/ ~stored'[e].hasPath \/ Filed(e)'
    <3>1. CASE e = d
      BY <1>2, <2>1, <2>3, <2>4, <3>1 DEF Filed
    <3>2. CASE e # d
      BY <1>2, <2>1, <2>3, <2>4, <3>2 DEF Shown, Filed, Dirty
    <3>3. QED
      BY <3>1, <3>2
  <2>6. QED
    BY <1>1, <2>4, <2>5
<1>15. ASSUME NEW d \in Documents, SaveText(d, FALSE)
       PROVE  CopiesInv'
  <2> DEFINE c == [kind |-> "clear", document |-> d]
  <2>1. /\ d \in tabs /\ loop = "select" /\ TellStorage(c) /\ lulled' = lulled \ {d}
        /\ hasPath' = [hasPath EXCEPT ![d] = TRUE]
        /\ savedRevision' = [savedRevision EXCEPT ![d] = Later(@, revision[d])]
        /\ UNCHANGED <<tabs, revision, recovery, stored, misnamed>>
    BY <1>15 DEF SaveText
  <2>2. c \in Command /\ c.kind = "clear" /\ c.document = d
    BY <1>k, <2>1 DEF Command, Clear
  <2>a. PICK a \in Command : TellStorage(a) /\ a.kind = c.kind /\ a.document = d
    BY <2>1, <2>2
  <2>3. /\ ~Committing' /\ ~CopyLeft(d)'
        /\ \A e \in Documents : CopiesOf(e)' = CopiesOf(e) /\ (CopyLeft(e)' => CopyLeft(e))
    BY <1>5, <2>1, <2>2, <2>a
  <2>4. ASSUME NEW e \in Documents
        PROVE  /\ e \in misnamed' \/ ~CopyLeft(e)' \/ Shown(e)'
               /\ e \in misnamed' \/ ~stored'[e].hasPath \/ Filed(e)'
    <3>1. CASE e = d
      BY <1>2, <2>1, <2>3, <3>1 DEF Filed, DraftKinds
    <3>2. CASE e # d
      BY <1>2, <2>1, <2>3, <3>2 DEF Shown, Filed, Dirty, DraftKinds
    <3>3. QED
      BY <3>1, <3>2
  <2>5. QED
    BY <1>1, <2>3, <2>4
<1>16. ASSUME NEW d \in Documents, SaveTextFails(d)
       PROVE  CopiesInv'
  <2>1. /\ UNCHANGED <<keptVars, commands, tabs, revision, savedRevision, lulled>>
        /\ loop = "select" /\ misnamed' = misnamed \cup {d}
        /\ hasPath' = [hasPath EXCEPT ![d] = TRUE]
    BY <1>16 DEF SaveTextFails
  <2>2. ASSUME NEW e \in Documents, e # d
        PROVE  /\ e \in misnamed' \/ ~CopyLeft(e)' \/ Shown(e)'
               /\ e \in misnamed' \/ ~stored'[e].hasPath \/ Filed(e)'
    BY <1>2, <1>3, <1>4, <2>1, <2>2 DEF Shown, Filed, Dirty, keptVars, DraftKinds
  <2>3. QED
    BY <1>1, <1>3, <1>n, <2>1, <2>2
<1>17. ASSUME NEW d \in Documents, CheckpointDraft(d)
       PROVE  CopiesInv'
  <2> DEFINE c == [kind |-> "checkpoint", document |-> d, text |-> text[d]]
  <2>1. /\ loop = "keeping" /\ d \in tabs /\ Dirty(d) /\ ~hasPath[d] /\ TellStorage(c)
        /\ UNCHANGED <<tabVars, keptVars, lulled, misnamed>>
    BY <1>17 DEF CheckpointDraft, QueueInv, draftHistory
  <2>2. c \in Command /\ c.kind = "checkpoint" /\ c.document = d
    BY <1>k, <2>1 DEF Command, Checkpoint, DraftKinds
  <2>a. PICK a \in Command : TellStorage(a) /\ a.kind = c.kind /\ a.document = d
    BY <2>1, <2>2
  <2>3. /\ ~Committing'
        /\ \A e \in Documents \ {d} : CopiesOf(e)' = CopiesOf(e) /\ (CopyLeft(e)' => CopyLeft(e))
    <3>1. a.kind = "checkpoint" /\ a.document = d /\ UNCHANGED recovery
      BY <2>1, <2>2, <2>a DEF keptVars
    <3>2. Committing' => Committing
      BY <2>a, <3>1, ToldPlaces
    <3>3. ASSUME NEW e \in Documents \ {d}
          PROVE  CopiesOf(e)' = CopiesOf(e)
      <4>1. CopiesOf(e)' =
               CopiesOf(e) \cup {i \in {Len(commands) + 1} : a.kind = "checkpoint" /\ a.document = e}
        BY <2>a, ToldPlaces
      <4>2. QED
        BY <3>1, <4>1
    <3>4. ASSUME NEW e \in Documents \ {d}
          PROVE  CopyLeft(e)' => CopyLeft(e)
      BY <2>a, <3>1, ToldCopy
    <3>5. QED
      BY <1>n, <2>1, <3>2, <3>3, <3>4
  <2>4. ASSUME NEW e \in Documents
        PROVE  /\ e \in misnamed' \/ ~CopyLeft(e)' \/ Shown(e)'
               /\ e \in misnamed' \/ ~stored'[e].hasPath \/ Filed(e)'
    <3>1. CASE e = d
      BY <1>2, <2>1, <3>1 DEF Shown, Filed, Dirty, tabVars, keptVars
    <3>2. CASE e # d
      BY <1>2, <2>1, <2>3, <3>2 DEF Shown, Filed, Dirty, tabVars, keptVars
    <3>3. QED
      BY <3>1, <3>2
  <2>5. QED
    BY <1>1, <2>3, <2>4
<1>18. ASSUME NEW d \in Documents, AutosaveFile(d)
       PROVE  CopiesInv'
  <2>1. /\ loop = "keeping" /\ hasPath[d]
        /\ savedRevision' = savedRevision
              \/ savedRevision' = [savedRevision EXCEPT ![d] = revision[d]]
        /\ UNCHANGED <<tabs, revision, hasPath, stored, recovery, commands, lulled, misnamed>>
    BY <1>18 DEF AutosaveFile
  <2>2. ASSUME NEW e \in Documents
        PROVE  /\ e \in misnamed' \/ ~CopyLeft(e)' \/ Shown(e)'
               /\ e \in misnamed' \/ ~stored'[e].hasPath \/ Filed(e)'
    <3>1. CASE e = d
      BY <1>2, <1>3, <1>4, <2>1, <3>1 DEF Shown, Filed
    <3>2. CASE e # d
      <4>1. savedRevision'[e] = savedRevision[e]
        BY <2>1, <2>2, <3>2 DEF DraftKinds
      <4>2. QED
        BY <1>2, <1>3, <1>4, <2>1, <4>1 DEF Shown, Filed, Dirty
    <3>3. QED
      BY <3>1, <3>2
  <2>3. QED
    BY <1>1, <1>3, <1>n, <2>1, <2>2
<1>19. CASE WriteCheckpoint \/ ClearRecovery
  <2>1. /\ commands # <<>> /\ commands' = Tail(commands)
        /\ UNCHANGED <<loop, tabVars, stored, lulled, misnamed>>
    BY <1>19 DEF WriteCheckpoint, ClearRecovery, StorageTold, draftHistory
  <2>2. ~Committing' /\ \A d \in Documents : CopiesOf(d) = {} => CopiesOf(d)' = {}
    <3>1. ~Committing'
      BY <1>2, <2>1, DonePlaces DEF Clearing
    <3>2. \A d \in Documents : CopiesOf(d) = {} => CopiesOf(d)' = {}
      BY <2>1, DonePlaces
    <3>3. QED
      BY <3>1, <3>2
  <2>3. ASSUME NEW d \in Documents, CopiesOf(d) = {}, recovery[d] = NoText
        PROVE  recovery'[d] = NoText
    <3>1. ~(Head(commands).kind = "checkpoint" /\ Head(commands).document = d)
      BY <2>1, <2>3, DonePlaces
    <3>2. CASE WriteCheckpoint
      BY <2>3, <3>1, <3>2 DEF WriteCheckpoint, StorageTold, DraftKinds
    <3>3. CASE ClearRecovery
      BY <2>3, <3>3 DEF ClearRecovery, DraftKinds
    <3>4. QED
      BY <1>19, <3>2, <3>3
  <2>4. ASSUME NEW d \in Documents
        PROVE  d \in misnamed' \/ ~stored'[d].hasPath \/ Filed(d)'
    BY <1>2, <2>1, <2>2, <2>3 DEF Filed, tabVars
  <2>5. loop' # "off" => \A d \in Documents : d \in misnamed' \/ ~CopyLeft(d)' \/ Shown(d)'
    BY <1>2, <1>19, <2>1, CopyDone DEF Shown, Dirty, tabVars
  <2>6. QED
    BY <1>1, <2>2, <2>4, <2>5
<1>20. CASE FlushCommits
  <2>1. /\ UNCHANGED <<loop, tabVars, recovery, lulled, misnamed>>
        /\ clearing' = {d \in Documents : recovery[d] # NoText}
        /\ StorageTold("flush")
        /\ stored' = [d \in Documents |-> IF d \in DOMAIN Head(commands).rows
                                          THEN Head(commands).rows[d] ELSE NoRow]
    BY <1>20 DEF FlushCommits
  <2>2. loop = "flushing"
    BY <2>1, FlushIsLast
  <2>3. ASSUME NEW d \in Documents
        PROVE  /\ d \in misnamed' \/ ~CopyLeft(d)' \/ Shown(d)'
               /\ d \in misnamed' \/ ~stored'[d].hasPath \/ Filed(d)'
    <3>1. /\ CopyLeft(d)' <=> CopyLeft(d)
          /\ CopyLeft(d) <=> recovery[d] # NoText
          /\ CopiesOf(d)' = {}
      BY <1>20, <2>1, FlushPlaces, CommitPlaces
    <3>2. d \in misnamed' \/ ~CopyLeft(d)' \/ Shown(d)'
      BY <1>2, <2>1, <2>2, <3>1 DEF Shown, Dirty, tabVars
    <3>3. ASSUME stored'[d].hasPath
          PROVE  d \in tabs /\ hasPath[d]
      <4>1. d \in DOMAIN Head(commands).rows
        BY <2>1, <3>3 DEF NoRow
      <4>2. d \in tabs /\ Head(commands).rows[d] = [text |-> text[d], hasPath |-> hasPath[d]]
        BY <1>20, <4>1, CommitPlaces
      <4>3. QED
        BY <2>1, <3>3, <4>1, <4>2
    <3>4. d \in misnamed' \/ ~stored'[d].hasPath \/ Filed(d)'
      BY <1>2, <2>1, <2>2, <3>1, <3>3 DEF Shown, Filed, tabVars
    <3>5. QED
      BY <3>2, <3>4
  <2>4. Clearing'
    BY <1>20, <2>1, CommitPlaces DEF Clearing
  <2>5. QED
    BY <1>1, <2>3, <2>4
<1>21. CASE FlushFails \/ TabsFlushed
  <2>1. /\ commands' = <<>> /\ loop = "flushing"
        /\ UNCHANGED <<keptVars, misnamed>>
        /\ StorageTold("flush") \/ StorageTold("committed")
    BY <1>21, FlushIsLast DEF FlushFails, TabsFlushed
  <2>2. CASE quitting
    BY <1>7, <1>21, <2>1, <2>2 DEF FlushFails, TabsFlushed, TabsGone
  <2>3. CASE ~quitting
    <3>1. ~Committing' /\ \A d \in Documents : CopiesOf(d)' = {} /\ ClearsOf(d)' = {}
      BY <2>1 DEF Committing, CopiesOf, ClearsOf
    <3>2. UNCHANGED <<tabs, hasPath>>
      BY <1>21, <2>3 DEF FlushFails, TabsFlushed, tabVars
    <3>3. ASSUME NEW d \in Documents, CopyLeft(d)', d \notin misnamed
          PROVE  Shown(d)'
      <4>1. recovery[d] # NoText /\ CopyLeft(d)
        BY <2>1, <3>1, <3>3, FlushPlaces DEF CopyLeft, keptVars
      <4>2. ~TabsFlushed
        BY <1>2, <2>1, <4>1, FlushPlaces DEF TabsFlushed, Clearing
      <4>3. UNCHANGED <<tabVars, lulled>>
        BY <1>21, <2>3, <4>2 DEF FlushFails
      <4>4. QED
        BY <1>2, <2>1, <3>3, <4>1, <4>3 DEF Shown, Dirty, tabVars
    <3>4. \A d \in Documents : d \in misnamed' \/ ~stored'[d].hasPath \/ Filed(d)'
      BY <1>2, <2>1, <3>1, <3>2 DEF Filed, keptVars
    <3>5. QED
      BY <1>1, <2>1, <3>1, <3>3, <3>4
  <2>4. QED
    BY <2>2, <2>3
<1>22. ASSUME NEW d \in Documents, ClearCopy(d)
       PROVE  CopiesInv'
  <2>1. /\ recovery' = [recovery EXCEPT ![d] = NoText] /\ clearing' = clearing \ {d}
        /\ UNCHANGED <<loop, tabVars, stored, commands, lulled, misnamed>>
    BY <1>22 DEF ClearCopy, draftHistory
  <2>2. \A e \in Documents : recovery'[e] # NoText => recovery[e] # NoText /\ e # d
    BY <2>1 DEF DraftKinds
  <2>3. \A e \in Documents : CopyLeft(e)' => CopyLeft(e)
    BY <1>3, <2>1, <2>2 DEF CopyLeft
  <2>4. Committing' => Clearing'
    BY <1>2, <1>3, <2>1, <2>2 DEF Clearing
  <2>5. /\ loop' # "off" => \A e \in Documents : e \in misnamed' \/ ~CopyLeft(e)' \/ Shown(e)'
        /\ \A e \in Documents : e \in misnamed' \/ ~stored'[e].hasPath \/ Filed(e)'
    BY <1>2, <1>3, <2>1, <2>2, <2>3 DEF Shown, Filed, Dirty, tabVars
  <2>6. QED
    BY <1>1, <2>4, <2>5
<1>23. CASE UNCHANGED draftVars
  BY <1>1, <1>2, <1>3, <1>4, <1>23 DEF draftVars, Shown, Filed, Clearing, Dirty
<1>24. ASSUME NEW d \in Documents, NEW closes \in BOOLEAN, SaveText(d, closes)
       PROVE  CopiesInv'
  BY <1>14, <1>15, <1>24
<1>25. QED
  BY <1>6, <1>8, <1>9, <1>10, <1>11, <1>12, <1>13, <1>14, <1>16, <1>17, <1>18, <1>19, <1>20,
     <1>21, <1>22, <1>23, <1>24 DEF DraftsNext, StorageStep

\* A recovery copy is of a tab, or about to be deleted, for any documents, edits and starts of
\* Dexo: what the person did not want to save does not come back.
THEOREM CopiesOnlyOfTabs == DraftsSpec => []CopiesAreOfTabs
<1>1. DraftsInit => CopiesInv
  BY DEF DraftsInit, CopiesInv, NoRow, Committing
<1>2. DraftKinds /\ CopiesInv => CopiesAreOfTabs
  <2> SUFFICES ASSUME DraftKinds, CopiesInv, loop # "off",
                      NEW d \in Documents \ (lulled \cup misnamed), recovery[d] # NoText, d \notin tabs
               PROVE  \E i \in 1..Len(commands) : commands[i] = [kind |-> "clear", document |-> d]
    BY DEF CopiesAreOfTabs
  <2>1. ClearsOf(d) # {}
    BY DEF CopiesInv, CopyLeft
  <2>2. PICK i \in 1..Len(commands) : commands[i].kind = "clear" /\ commands[i].document = d
    BY <2>1 DEF ClearsOf
  <2>3. commands[i] \in Command
    BY ElementOfSeq DEF DraftKinds
  <2>4. commands[i] = [kind |-> "clear", document |-> d]
    BY <2>2, <2>3, OfACommand
  <2>5. QED
    BY <2>4
<1>3. QED
  BY <1>1, <1>2, DraftsStart, KindsNext, QueueNext, FreshNext, CopiesNext, PTL DEF DraftsSpec

-----------------------------------------------------------------------------
(* Copies are written in the order of the texts. *)

\* Of a tab nothing that is older comes after what is newer, if the copies that are left to be
\* written are of those before the step, as many or without the first.
LEMMA StillOrdered ==
    ASSUME DraftKinds, DraftKinds', NEW d \in Documents, Ordered(d), NEW k \in {0, 1},
           \A i \in CopiesOf(d)' : i + k \in CopiesOf(d) /\ commands'[i].text = commands[i + k].text,
           \/ recovery'[d] \in {recovery[d], NoText}
           \/ 1 \in CopiesOf(d) /\ recovery'[d] = commands[1].text,
           text[d] <= text'[d],
           hasPath'[d] /\ d \notin misnamed' =>
              \/ text[d] <= disk'[d]
              \/ hasPath[d] /\ d \notin misnamed /\ disk[d] <= disk'[d]
    PROVE  Ordered(d)'
<1>1. /\ text[d] \in Int /\ text'[d] \in Int /\ disk[d] \in Int /\ disk'[d] \in Int
      /\ recovery[d] \in Int /\ NoText \in Int /\ edits \in Nat /\ text[d] >= 0
      /\ recovery[d] >= NoText
  BY DraftsAssumption DEF DraftKinds, Known, NoText
<1>2. \A i \in CopiesOf(d) : commands[i].text \in Int /\ commands[i].text >= NoText /\ i \in Nat \ {0}
  BY <1>1, PlacesType DEF Known, NoText
<1>3. CopiesOf(d)' \subseteq Nat \ {0}
  BY DEF CopiesOf
<1>4. recovery'[d] <= text'[d] /\ recovery'[d] \in Int
  BY <1>1, <1>2 DEF Ordered, NoText
<1>5. ASSUME NEW i \in CopiesOf(d)'
      PROVE  /\ recovery'[d] <= commands'[i].text /\ commands'[i].text <= text'[d]
             /\ \A j \in CopiesOf(d)' : i <= j => commands'[i].text <= commands'[j].text
             /\ hasPath'[d] /\ d \notin misnamed' => commands'[i].text <= disk'[d]
  <2>1. /\ i + k \in CopiesOf(d) /\ commands'[i].text = commands[i + k].text
        /\ i + k \in Nat \ {0} /\ commands[i + k].text \in Int /\ commands[i + k].text >= NoText
    BY <1>2, <1>5
  <2>2. recovery[d] <= commands[i + k].text /\ commands[i + k].text <= text[d]
    BY <2>1 DEF Ordered
  <2>3. 1 \in CopiesOf(d) => commands[1].text <= commands[i + k].text
    BY <2>1 DEF Ordered
  <2>4. recovery'[d] <= commands'[i].text
    BY <1>1, <2>1, <2>2, <2>3
  <2>5. commands'[i].text <= text'[d]
    BY <1>1, <2>1, <2>2
  <2>6. ASSUME NEW j \in CopiesOf(d)', i <= j
        PROVE  commands'[i].text <= commands'[j].text
    <3>1. j + k \in CopiesOf(d) /\ commands'[j].text = commands[j + k].text /\ i + k <= j + k
      BY <1>3, <2>6
    <3>2. QED
      BY <2>1, <3>1 DEF Ordered
  <2>7. ASSUME hasPath'[d], d \notin misnamed'
        PROVE  commands'[i].text <= disk'[d]
    <3>1. CASE text[d] <= disk'[d]
      BY <1>1, <2>1, <2>2, <3>1
    <3>2. CASE hasPath[d] /\ d \notin misnamed /\ disk[d] <= disk'[d]
      BY <1>1, <2>1, <3>2 DEF Ordered
    <3>3. QED
      BY <2>7, <3>1, <3>2
  <2>8. QED
    BY <2>4, <2>5, <2>6, <2>7
<1>6. QED
  BY <1>4, <1>5 DEF Ordered

LEMMA OrderNext ==
    /\ DraftKinds /\ DraftKinds' /\ QueueInv /\ FreshInv /\ OrderInv
    /\ [DraftsNext]_draftVars
    => OrderInv'
<1> SUFFICES ASSUME DraftKinds, DraftKinds', QueueInv, FreshInv, OrderInv, [DraftsNext]_draftVars
             PROVE  OrderInv'
  OBVIOUS
<1>1. ASSUME loop' # "off" => \A d \in tabs' : Ordered(d)'
      PROVE  OrderInv'
  BY <1>1 DEF OrderInv
<1>2. loop # "off" => \A d \in tabs : Ordered(d)
  BY DEF OrderInv
<1>3. tabs \subseteq used /\ used \subseteq Documents /\ tabs' \subseteq Documents
  BY DEF DraftKinds
<1>4. ASSUME NEW d \in Documents
      PROVE  /\ text[d] \in Int /\ text[d] >= 0 /\ text[d] <= edits /\ edits \in Int
             /\ disk[d] \in Int /\ recovery[d] \in Int /\ recovery[d] <= edits
             /\ recovery[d] >= NoText /\ NoText \in Int /\ NoText < 0
  BY DraftsAssumption DEF DraftKinds, Known, NoText
\* Of a tab that the step does not concern.
<1>5. ASSUME NEW d \in Documents, Ordered(d), UNCHANGED <<commands, recovery>>,
             text'[d] = text[d], disk'[d] = disk[d], hasPath'[d] = hasPath[d],
             misnamed \subseteq misnamed'
      PROVE  Ordered(d)'
  <2>1. CopiesOf(d)' = CopiesOf(d)
    BY <1>5 DEF CopiesOf
  <2>2. QED
    BY <1>5, <2>1 DEF Ordered
\* The same, as the storage thread is told of something else.
<1>6. ASSUME NEW c \in Command, TellStorage(c), NEW d \in Documents, Ordered(d),
             c.kind = "checkpoint" => c.document # d,
             recovery'[d] = recovery[d], text[d] = text'[d],
             hasPath'[d] /\ d \notin misnamed' =>
                 \/ text[d] <= disk'[d]
                 \/ hasPath[d] /\ d \notin misnamed /\ disk[d] = disk'[d]
      PROVE  Ordered(d)'
  <2>1. CopiesOf(d)' = CopiesOf(d)
    <3>1. CopiesOf(d)' =
             CopiesOf(d) \cup {i \in {Len(commands) + 1} : c.kind = "checkpoint" /\ c.document = d}
      BY <1>6, ToldPlaces
    <3>2. QED
      BY <1>6, <3>1
  <2>2. \A i \in CopiesOf(d) : i + 0 = i /\ commands'[i] = commands[i]
    <3>1. \A i \in 1..Len(commands) : commands'[i] = commands[i]
      BY <1>6, Told DEF DraftKinds
    <3>2. QED
      BY <3>1, PlacesType
  <2>3. \A i \in CopiesOf(d)' : i + 0 \in CopiesOf(d) /\ commands'[i].text = commands[i + 0].text
    BY <2>1, <2>2
  <2>4. QED
    BY <1>4, <1>6, <2>3, StillOrdered
<1>7. CASE StartDexo
  <2>1. commands' = <<>> /\ UNCHANGED recovery
    BY <1>7 DEF StartDexo, QueueInv, keptVars
  <2>2. ASSUME NEW d \in tabs'
        PROVE  Ordered(d)'
    <3>1. CopiesOf(d)' = {} /\ d \in Documents
      BY <1>3, <2>1 DEF CopiesOf
    <3>2. recovery[d] # NoText => text'[d] = recovery[d]
      BY <1>7, <3>1 DEF StartDexo
    <3>3. recovery'[d] <= text'[d]
      BY <1>4, <2>1, <3>1, <3>2 DEF DraftKinds, Known
    <3>4. QED
      BY <3>1, <3>3 DEF Ordered
  <2>3. QED
    BY <1>1, <2>2
<1>8. CASE KillDexo
  BY <1>1, <1>8 DEF KillDexo
<1>9. CASE EndKeeping \/ \E quits \in BOOLEAN : KeepDirty(quits)
  <2>1. /\ UNCHANGED <<tabVars, keptVars, commands, misnamed>> /\ loop # "off"
    BY <1>9 DEF EndKeeping, KeepDirty, draftHistory
  <2>2. QED
    BY <1>1, <1>2, <1>3, <1>5, <2>1 DEF tabVars, keptVars
<1>10. CASE FlushTabs
  <2> DEFINE c == [kind |-> "flush",
                   rows |-> [d \in tabs |-> [text |-> text[d], hasPath |-> hasPath[d]]]]
  <2>1. /\ TellStorage(c) /\ loop # "off" /\ UNCHANGED <<tabVars, keptVars, misnamed>>
    BY <1>10 DEF FlushTabs, draftHistory
  <2>2. c.kind = "flush" /\ c \in Command
    <3>1. [d \in tabs |-> [text |-> text[d], hasPath |-> hasPath[d]]] \in [tabs -> Row]
      BY DEF DraftKinds, Row
    <3>2. QED
      BY <1>3, <3>1 DEF Command, Flush
  <2>a. PICK a \in Command : TellStorage(a) /\ a.kind = "flush"
    BY <2>1, <2>2
  <2> HIDE DEF c
  <2>3. ASSUME NEW d \in tabs
        PROVE  Ordered(d)'
    BY <1>2, <1>3, <1>6, <2>1, <2>a DEF tabVars, keptVars
  <2>4. QED
    BY <1>1, <2>1, <2>3 DEF tabVars
<1>11. ASSUME NEW d \in Documents, OpenTab(d)
       PROVE  OrderInv'
  <2>1. /\ UNCHANGED <<keptVars, commands, text, misnamed>>
        /\ loop = "select" /\ tabs' = tabs \cup {d} /\ d \notin used
        /\ hasPath' = [hasPath EXCEPT ![d] = d \in Files]
    BY <1>11 DEF OpenTab, draftHistory
  <2>2. Ordered(d)'
    <3>1. recovery'[d] = NoText /\ CopiesOf(d)' = {}
      BY <2>1, PlacesType DEF FreshInv, keptVars, CopiesOf
    <3>2. QED
      BY <1>4, <2>1, <3>1 DEF Ordered
  <2>3. ASSUME NEW e \in tabs
        PROVE  Ordered(e)'
    BY <1>2, <1>3, <1>5, <2>1 DEF keptVars, DraftKinds
  <2>4. QED
    BY <1>1, <2>1, <2>2, <2>3
<1>12. ASSUME NEW d \in Documents, EditText(d)
       PROVE  OrderInv'
  <2>1. /\ UNCHANGED <<keptVars, commands, tabs, hasPath, misnamed>>
        /\ loop = "select" /\ d \in tabs
        /\ edits' = edits + 1 /\ text' = [text EXCEPT ![d] = edits']
    BY <1>12 DEF EditText
  <2>2. Ordered(d)'
    <3>1. \A i \in CopiesOf(d)' : i + 0 \in CopiesOf(d) /\ commands'[i].text = commands[i + 0].text
      BY <2>1, PlacesType DEF CopiesOf
    <3>2. text[d] <= text'[d]
      BY <1>4, <2>1 DEF DraftKinds
    <3>3. Ordered(d) /\ UNCHANGED <<recovery, disk, hasPath, misnamed>>
      BY <1>2, <2>1 DEF keptVars
    <3>4. QED
      BY <1>4, <3>1, <3>2, <3>3, StillOrdered
  <2>3. ASSUME NEW e \in tabs, e # d
        PROVE  Ordered(e)'
    BY <1>2, <1>3, <1>5, <2>1, <2>3 DEF keptVars, DraftKinds
  <2>4. QED
    BY <1>1, <2>1, <2>2, <2>3
<1>13. ASSUME NEW d \in Documents, CloseTab(d)
       PROVE  OrderInv'
  <2>1. /\ TabsGone({d}) /\ loop = "select" /\ UNCHANGED <<keptVars, commands, misnamed>>
    BY <1>13 DEF CloseTab
  <2>2. ASSUME NEW e \in tabs'
        PROVE  Ordered(e)'
    <3>1. e \in tabs /\ e # d /\ e \in Documents /\ text'[e] = text[e] /\ hasPath'[e] = hasPath[e]
      BY <1>3, <2>1 DEF TabsGone
    <3>2. QED
      BY <1>2, <1>5, <2>1, <3>1 DEF keptVars
  <2>3. QED
    BY <1>1, <2>2
<1>14. ASSUME NEW d \in Documents,
              DiscardTab(d) \/ \E closes \in BOOLEAN : SaveText(d, closes)
       PROVE  OrderInv'
  <2> DEFINE c == [kind |-> "clear", document |-> d]
  <2>1. /\ d \in tabs /\ loop = "select" /\ TellStorage(c) /\ UNCHANGED <<recovery, misnamed>>
        /\ disk' = disk \/ disk' = [disk EXCEPT ![d] = text[d]]
        /\ \/ TabsGone({d})
           \/ /\ UNCHANGED <<tabs, text>> /\ hasPath' = [hasPath EXCEPT ![d] = TRUE]
              /\ disk' = [disk EXCEPT ![d] = text[d]]
    BY <1>14 DEF DiscardTab, SaveText, keptVars
  <2>2. c \in Command /\ c.kind = "clear"
    BY <1>3, <2>1 DEF Command, Clear
  <2>a. PICK a \in Command : TellStorage(a) /\ a.kind = "clear"
    BY <2>1, <2>2
  <2> HIDE DEF c
  <2>3. ASSUME NEW e \in tabs'
        PROVE  Ordered(e)'
    <3>1. e \in tabs /\ e \in Documents /\ text'[e] = text[e]
      BY <1>3, <2>1 DEF TabsGone
    <3>2. CASE e # d
      <4>1. hasPath'[e] = hasPath[e] /\ disk'[e] = disk[e]
        BY <2>1, <3>1, <3>2 DEF TabsGone, DraftKinds
      <4>2. QED
        BY <1>2, <1>6, <2>1, <2>a, <3>1, <4>1
    <3>3. CASE e = d
      <4>1. text[e] <= disk'[e]
        <5>1. ~TabsGone({d})
          BY <2>3, <3>3 DEF TabsGone
        <5>2. disk'[e] = text[e]
          BY <2>1, <3>1, <3>3, <5>1 DEF DraftKinds
        <5>3. QED
          BY <1>4, <3>1, <5>2
      <4>2. QED
        BY <1>2, <1>6, <2>1, <2>a, <3>1, <4>1
    <3>4. QED
      BY <3>2, <3>3
  <2>4. QED
    BY <1>1, <2>3
<1>15. ASSUME NEW d \in Documents, SaveTextFails(d)
       PROVE  OrderInv'
  <2>1. /\ UNCHANGED <<keptVars, commands, tabs, text>>
        /\ loop = "select" /\ misnamed' = misnamed \cup {d}
        /\ hasPath' = [hasPath EXCEPT ![d] = TRUE]
    BY <1>15 DEF SaveTextFails
  <2>2. ASSUME NEW e \in tabs
        PROVE  Ordered(e)'
    <3>1. CopiesOf(e)' = CopiesOf(e) /\ Ordered(e)
      BY <1>2, <2>1 DEF CopiesOf
    <3>2. hasPath'[e] /\ e \notin misnamed' => hasPath[e] /\ e \notin misnamed
      BY <1>3, <2>1 DEF DraftKinds
    <3>3. QED
      BY <2>1, <3>1, <3>2 DEF Ordered, keptVars
  <2>3. QED
    BY <1>1, <2>1, <2>2
<1>16. ASSUME NEW d \in Documents, CheckpointDraft(d)
       PROVE  OrderInv'
  <2> DEFINE c == [kind |-> "checkpoint", document |-> d, text |-> text[d]]
  <2>1. /\ loop = "keeping" /\ d \in tabs /\ ~hasPath[d] /\ TellStorage(c)
        /\ UNCHANGED <<tabVars, keptVars, misnamed>>
    BY <1>16 DEF CheckpointDraft, QueueInv, draftHistory
  <2>2. c \in Command /\ c.kind = "checkpoint" /\ c.document = d /\ c.text = text[d]
    BY <1>3, <2>1 DEF Command, Checkpoint, DraftKinds
  <2>a. PICK a \in Command : TellStorage(a) /\ a.kind = "checkpoint" /\ a.document = d /\ a.text = text[d]
    BY <2>1, <2>2
  <2> HIDE DEF c
  <2> DEFINE n == Len(commands) + 1
  <2>3. /\ CopiesOf(d)' = CopiesOf(d) \cup {n} /\ n \in Nat /\ commands'[n] = a
        /\ \A i \in CopiesOf(d) : i \in Nat /\ i < n /\ commands'[i] = commands[i]
    <3>1. CopiesOf(d)' =
             CopiesOf(d) \cup {i \in {n} : a.kind = "checkpoint" /\ a.document = d}
      BY <2>a, ToldPlaces
    <3>2. /\ n \in Nat /\ commands'[n] = a
          /\ \A i \in 1..Len(commands) : i \in Nat /\ i < n /\ commands'[i] = commands[i]
      BY <2>a, Told DEF DraftKinds
    <3>3. QED
      BY <2>a, <3>1, <3>2, PlacesType
  <2> HIDE DEF n
  <2>4. Ordered(d)'
    <3>1. Ordered(d) /\ UNCHANGED <<text, hasPath, recovery>> /\ commands'[n].text = text[d]
      BY <1>2, <2>1, <2>a, <2>3 DEF tabVars, keptVars
    <3>2. text[d] <= text[d]
      BY <1>4
    <3>3. ASSUME NEW i \in CopiesOf(d)'
          PROVE  /\ recovery[d] <= commands'[i].text /\ commands'[i].text <= text[d]
                 /\ \A j \in CopiesOf(d)' : i <= j => commands'[i].text <= commands'[j].text
      <4>1. CASE i \in CopiesOf(d)
        BY <2>3, <3>1, <4>1 DEF Ordered
      <4>2. CASE i = n
        BY <2>3, <3>1, <3>2, <4>2 DEF Ordered
      <4>3. QED
        BY <2>3, <3>3, <4>1, <4>2
    <3>4. QED
      BY <2>1, <3>1, <3>3 DEF Ordered
  <2>5. ASSUME NEW e \in tabs, e # d
        PROVE  Ordered(e)'
    BY <1>2, <1>3, <1>6, <2>1, <2>a, <2>5 DEF tabVars, keptVars
  <2>6. QED
    BY <1>1, <2>1, <2>4, <2>5 DEF tabVars
<1>17. ASSUME NEW d \in Documents, AutosaveFile(d)
       PROVE  OrderInv'
  <2>1. /\ loop = "keeping" /\ hasPath[d]
        /\ disk' = disk \/ disk' = [disk EXCEPT ![d] = text[d]]
        /\ UNCHANGED <<tabs, text, hasPath, recovery, commands, misnamed>>
    BY <1>17 DEF AutosaveFile
  <2>2. ASSUME NEW e \in tabs
        PROVE  Ordered(e)'
    <3>1. CASE disk'[e] = disk[e]
      BY <1>2, <1>3, <1>5, <2>1, <3>1
    <3>2. CASE disk'[e] = text[e]
      <4>1. CopiesOf(e)' = CopiesOf(e) /\ Ordered(e)
        BY <1>2, <2>1 DEF CopiesOf
      <4>2. QED
        BY <2>1, <3>2, <4>1 DEF Ordered
    <3>3. disk'[e] = disk[e] \/ disk'[e] = text[e]
      BY <1>3, <2>1 DEF DraftKinds
    <3>4. QED
      BY <3>1, <3>2, <3>3
  <2>3. QED
    BY <1>1, <2>1, <2>2
<1>18. CASE WriteCheckpoint \/ ClearRecovery
  <2>1. /\ commands # <<>> /\ commands' = Tail(commands) /\ loop # "off"
        /\ UNCHANGED <<loop, tabVars, disk, misnamed>>
    BY <1>18 DEF WriteCheckpoint, ClearRecovery, StorageTold, QueueInv, draftHistory
  <2>2. ASSUME NEW d \in tabs
        PROVE  Ordered(d)'
    <3>1. d \in Documents /\ Ordered(d)
      BY <1>2, <1>3, <2>1
    <3>2. \A i \in CopiesOf(d)' : i + 1 \in CopiesOf(d) /\ commands'[i].text = commands[i + 1].text
      BY <2>1, DonePlaces
    <3>3. 1 \in CopiesOf(d) <=> Head(commands).kind = "checkpoint" /\ Head(commands).document = d
      BY <2>1, DonePlaces
    <3>4. Head(commands) = commands[1]
      BY <2>1, DonePlaces
    <3>5. \/ recovery'[d] \in {recovery[d], NoText}
          \/ 1 \in CopiesOf(d) /\ recovery'[d] = commands[1].text
      <4>1. CASE WriteCheckpoint
        BY <3>1, <3>3, <3>4, <4>1 DEF WriteCheckpoint, StorageTold, DraftKinds
      <4>2. CASE ClearRecovery
        BY <3>1, <4>2 DEF ClearRecovery, DraftKinds
      <4>3. QED
        BY <1>18, <4>1, <4>2
    <3>6. text[d] <= text'[d] /\ disk[d] <= disk'[d] /\ hasPath' = hasPath /\ misnamed' = misnamed
      BY <1>4, <2>1, <3>1 DEF tabVars
    <3>7. QED
      BY <3>1, <3>2, <3>5, <3>6, StillOrdered
  <2>3. QED
    BY <1>1, <2>1, <2>2 DEF tabVars
\* No copies are left to be written.
<1>19. ASSUME UNCHANGED tabs, text' = text, loop # "off",
              \A d \in Documents : CopiesOf(d)' = {} /\ recovery'[d] \in {recovery[d], NoText}
       PROVE  OrderInv'
  <2>1. ASSUME NEW d \in tabs
        PROVE  Ordered(d)'
    <3>1. d \in Documents /\ Ordered(d)
      BY <1>2, <1>3, <1>19
    <3>2. recovery'[d] <= text'[d]
      BY <1>4, <1>19, <3>1 DEF Ordered
    <3>3. QED
      BY <1>19, <3>1, <3>2 DEF Ordered
  <2>2. QED
    BY <1>1, <1>19, <2>1
<1>20. CASE FlushCommits
  <2>1. loop # "off"
    BY <1>20, FlushIsLast DEF FlushCommits
  <2>2. \A d \in Documents : CopiesOf(d)' = {}
    BY <1>20, CommitPlaces
  <2>3. QED
    BY <1>19, <1>20, <2>1, <2>2 DEF FlushCommits, tabVars
<1>21. CASE FlushFails \/ TabsFlushed
  <2>1. commands' = <<>> /\ loop = "flushing" /\ UNCHANGED keptVars
    BY <1>21, FlushIsLast DEF FlushFails, TabsFlushed
  <2>2. CASE quitting
    BY <1>1, <1>21, <2>2 DEF FlushFails, TabsFlushed
  <2>3. CASE ~quitting
    <3>1. UNCHANGED <<tabs, text>>
      BY <1>21, <2>3 DEF FlushFails, TabsFlushed, tabVars
    <3>2. \A d \in Documents : CopiesOf(d)' = {}
      BY <2>1 DEF CopiesOf
    <3>3. QED
      BY <1>19, <2>1, <3>1, <3>2 DEF keptVars
  <2>4. QED
    BY <2>2, <2>3
<1>22. ASSUME NEW d \in Documents, ClearCopy(d)
       PROVE  OrderInv'
  <2>1. /\ recovery' = [recovery EXCEPT ![d] = NoText] /\ StorageTold("committed")
        /\ UNCHANGED <<tabVars, commands>>
    BY <1>22 DEF ClearCopy
  <2>2. \A e \in Documents : CopiesOf(e)' = {}
    BY <2>1, FlushPlaces DEF CopiesOf
  <2>3. loop # "off"
    BY <2>1, FlushIsLast
  <2>4. QED
    BY <1>19, <2>1, <2>2, <2>3 DEF tabVars, DraftKinds
<1>23. CASE UNCHANGED draftVars
  BY <1>1, <1>2, <1>3, <1>5, <1>23 DEF draftVars
<1>24. QED
  BY <1>7, <1>8, <1>9, <1>10, <1>11, <1>12, <1>13, <1>14, <1>15, <1>16, <1>17, <1>18, <1>20,
     <1>21, <1>22, <1>23 DEF DraftsNext, StorageStep

-----------------------------------------------------------------------------
(* What was written is somewhere. *)

LEMMA DraftsInts ==
    ASSUME DraftKinds, NEW d \in Documents
    PROVE  /\ edits \in Int /\ NoText \in Int /\ NoText < 0
           /\ text[d] \in Int /\ text[d] >= 0 /\ text[d] <= edits
           /\ disk[d] \in Int /\ NoText <= disk[d] /\ disk[d] <= edits
           /\ recovery[d] \in Int /\ NoText <= recovery[d] /\ recovery[d] <= edits
           /\ kept[d] \in Int /\ NoText <= kept[d] /\ kept[d] <= edits
           /\ stored[d].text \in Int /\ NoText <= stored[d].text /\ stored[d].text <= edits
<1>1. edits \in Int /\ NoText \in Int /\ NoText < 0
  BY DraftsAssumption DEF DraftKinds, NoText
<1>2. stored[d].text \in NoText..edits
  BY StoredText
<1>3. /\ text[d] \in 0..edits /\ disk[d] \in NoText..edits /\ recovery[d] \in NoText..edits
      /\ kept[d] \in NoText..edits
  BY DEF DraftKinds, Known
<1>4. QED
  BY <1>1, <1>2, <1>3

\* Dexo starts: a text comes back from the copy, or else from its row.
LEMMA StartKept ==
    ASSUME DraftKinds, QueueInv, NEW d \in Documents, d \notin Excused', Somewhere(d), StartDexo
    PROVE  Somewhere(d)' /\ Watched(d)'
<1> DEFINE recovered == {e \in Documents : recovery[e] # NoText}
           restored == {e \in Documents : stored[e] # NoRow}
<1>1. commands' = <<>> /\ UNCHANGED <<kept, disk, recovery, stored>>
  BY DEF StartDexo, QueueInv, keptVars
<1>2. Somewhere(d)'
  BY <1>1 DEF Somewhere, InFile
<1>3. ClearsOf(d)' = {} /\ ~Committing'
  BY <1>1 DEF ClearsOf, Committing
<1>4. /\ d \in recovered => text'[d] = recovery[d]
      /\ d \in restored \ recovered => text'[d] = stored[d].text
      /\ tabs' = recovered \cup restored
      /\ hasPath'[d] = stored[d].hasPath
  BY DEF StartDexo
<1>5. d \in restored => ~(stored[d].hasPath /\ text'[d] < disk[d])
  BY DEF StartDexo, Excused
<1>6. d \in recovered \cap restored => ~(recovery[d] < stored[d].text)
  BY DEF StartDexo, Excused
<1>7. text'[d] \in Int
  BY <1>4, DraftsInts DEF StartDexo
<1>8. InFile(d) \/ (d \in tabs' /\ text'[d] >= kept[d])
  <2>1. SUFFICES ASSUME ~InFile(d)
                 PROVE  d \in tabs' /\ text'[d] >= kept[d]
    OBVIOUS
  <2>2. kept[d] > NoText /\ (recovery[d] >= kept[d] \/ stored[d].text >= kept[d])
    BY <2>1, DraftsInts DEF Somewhere, InFile
  <2>3. CASE recovery[d] >= kept[d]
    <3>1. d \in recovered
      BY <2>2, <2>3, DraftsInts
    <3>2. QED
      BY <1>4, <2>3, <3>1
  <2>4. CASE stored[d].text >= kept[d]
    <3>1. d \in restored
      BY <2>2, <2>4, DraftsInts DEF NoRow
    <3>2. CASE d \in recovered
      BY <1>4, <1>6, <2>4, <3>1, <3>2, DraftsInts
    <3>3. CASE d \notin recovered
      BY <1>4, <2>4, <3>1, <3>3
    <3>4. QED
      BY <3>2, <3>3
  <2>5. QED
    BY <2>2, <2>3, <2>4
<1>9. d \in tabs' /\ hasPath'[d] => text'[d] >= disk[d]
  <2>1. SUFFICES ASSUME hasPath'[d]
                 PROVE  text'[d] >= disk[d]
    OBVIOUS
  <2>2. stored[d].hasPath
    BY <1>4, <2>1
  <2>3. d \in restored
    BY <2>2, StoredText
  <2>4. ~(text'[d] < disk[d])
    BY <1>5, <2>2, <2>3
  <2>5. disk[d] \in Int
    BY DraftsInts
  <2>6. QED
    BY <1>7, <2>4, <2>5
<1>10. QED
  BY <1>1, <1>2, <1>3, <1>8, <1>9 DEF Watched, InFile

LEMMA KeptNext ==
    /\ DraftKinds /\ DraftKinds' /\ QueueInv /\ FreshInv /\ CopiesInv /\ OrderInv /\ KeptInv
    /\ [DraftsNext]_draftVars
    => KeptInv'
<1> SUFFICES ASSUME DraftKinds, DraftKinds', QueueInv, FreshInv, CopiesInv, OrderInv, KeptInv,
                    [DraftsNext]_draftVars
             PROVE  KeptInv'
  OBVIOUS
<1> DEFINE Well(d) == Somewhere(d) /\ (loop # "off" => Watched(d))
<1>1. ASSUME \A d \in Documents : d \in Excused' \/ Well(d)'
      PROVE  KeptInv'
  BY <1>1 DEF KeptInv
<1>2. \A d \in Documents : d \in Excused \/ Well(d)
  BY DEF KeptInv
<1>3. tabs \subseteq used /\ used \subseteq Documents
  BY DEF DraftKinds
<1>n. loop # "flushing" => ~Committing
  BY DEF QueueInv, Committing
\* Of what the step does not concern.
<1>4. ASSUME NEW d \in Documents, Somewhere(d), loop # "off" => Watched(d),
             loop' # "off" => loop # "off",
             kept'[d] = kept[d], disk'[d] = disk[d], recovery'[d] = recovery[d],
             stored'[d] = stored[d], d \in tabs' <=> d \in tabs, text'[d] = text[d],
             hasPath'[d] = hasPath[d], ClearsOf(d)' # {} => ClearsOf(d) # {},
             Committing' => Committing
      PROVE  Well(d)'
  BY <1>4 DEF Somewhere, Watched, InFile
<1>5. ASSUME UNCHANGED commands
      PROVE  (Committing' => Committing) /\ \A d \in Documents : ClearsOf(d)' = ClearsOf(d)
  BY <1>5 DEF Committing, ClearsOf
\* The storage thread is told of something.
<1>6. ASSUME NEW c \in Command, c.kind # "committed", TellStorage(c), NEW d \in Documents,
             c.kind = "clear" => c.document # d
      PROVE  (Committing' => Committing) /\ ClearsOf(d)' = ClearsOf(d)
  <2>1. ClearsOf(d)' = ClearsOf(d) \cup {i \in {Len(commands) + 1} : c.kind = "clear" /\ c.document = d}
    BY <1>6, ToldPlaces
  <2>2. Committing' => Committing
    BY <1>6, ToldPlaces
  <2>3. QED
    BY <1>6, <2>1, <2>2
<1>7. CASE StartDexo
  <2>1. ASSUME NEW d \in Documents, d \notin Excused'
        PROVE  Well(d)'
    <3>1. d \notin Excused
      BY <1>7, <2>1 DEF StartDexo, Excused
    <3>2. QED
      BY <1>2, <1>7, <2>1, <3>1, StartKept
  <2>2. QED
    BY <1>1, <2>1
\* Dexo is not there, or ends; what is kept stays.
<1>8. ASSUME loop' = "off", UNCHANGED <<keptVars, kept, outdated, torn, misnamed>>
      PROVE  KeptInv'
  <2>1. \A d \in Documents : d \in Excused' \/ Somewhere(d)'
    BY <1>2, <1>8 DEF Somewhere, InFile, keptVars, Excused
  <2>2. QED
    BY <1>1, <1>8, <2>1
<1>9. CASE KillDexo
  BY <1>8, <1>9 DEF KillDexo
<1>10. CASE EndKeeping \/ \E quits \in BOOLEAN : KeepDirty(quits)
  <2>1. /\ UNCHANGED <<tabVars, keptVars, commands, kept, outdated, torn, misnamed>> /\ loop # "off"
    BY <1>10 DEF EndKeeping, KeepDirty, draftHistory
  <2>2. QED
    BY <1>1, <1>2, <1>4, <1>5, <2>1 DEF tabVars, keptVars, Excused
<1>11. CASE FlushTabs
  <2> DEFINE c == [kind |-> "flush",
                   rows |-> [d \in tabs |-> [text |-> text[d], hasPath |-> hasPath[d]]]]
  <2>1. /\ TellStorage(c) /\ loop # "off"
        /\ UNCHANGED <<tabVars, keptVars, kept, outdated, torn, misnamed>>
    BY <1>11 DEF FlushTabs, draftHistory
  <2>2. c.kind = "flush" /\ c \in Command
    <3>1. [d \in tabs |-> [text |-> text[d], hasPath |-> hasPath[d]]] \in [tabs -> Row]
      BY DEF DraftKinds, Row
    <3>2. QED
      BY <1>3, <3>1 DEF Command, Flush
  <2>a. PICK a \in Command : TellStorage(a) /\ a.kind = "flush"
    BY <2>1, <2>2
  <2> HIDE DEF c
  <2>3. ASSUME NEW d \in Documents
        PROVE  (Committing' => Committing) /\ ClearsOf(d)' = ClearsOf(d)
    BY <1>6, <2>a
  <2>4. QED
    BY <1>1, <1>2, <1>4, <2>1, <2>3 DEF tabVars, keptVars, Excused
<1>12. ASSUME NEW d \in Documents, CheckpointDraft(d)
       PROVE  KeptInv'
  <2> DEFINE c == [kind |-> "checkpoint", document |-> d, text |-> text[d]]
  <2>1. /\ loop = "keeping" /\ d \in tabs /\ TellStorage(c)
        /\ UNCHANGED <<tabVars, keptVars, kept, outdated, torn, misnamed>>
    BY <1>12 DEF CheckpointDraft, QueueInv, draftHistory
  <2>2. c \in Command /\ c.kind = "checkpoint"
    BY <1>3, <2>1 DEF Command, Checkpoint, DraftKinds
  <2>a. PICK a \in Command : TellStorage(a) /\ a.kind = "checkpoint"
    BY <2>1, <2>2
  <2> HIDE DEF c
  <2>3. ASSUME NEW e \in Documents
        PROVE  (Committing' => Committing) /\ ClearsOf(e)' = ClearsOf(e)
    BY <1>6, <2>a
  <2>4. QED
    BY <1>1, <1>2, <1>4, <2>1, <2>3 DEF tabVars, keptVars, Excused
<1>13. ASSUME NEW d \in Documents, OpenTab(d)
       PROVE  KeptInv'
  <2>1. /\ UNCHANGED <<keptVars, commands, text, kept, outdated, torn, misnamed>>
        /\ loop = "select" /\ tabs' = tabs \cup {d} /\ d \notin used
        /\ hasPath' = [hasPath EXCEPT ![d] = d \in Files]
    BY <1>13 DEF OpenTab, draftHistory
  <2>2. Well(d)'
    <3>1. /\ kept'[d] = NoText /\ ClearsOf(d)' = {} /\ text'[d] = 0
          /\ disk'[d] \in {0, NoText}
      BY <1>3, <1>5, <2>1, PlacesType DEF FreshInv, keptVars
    <3>2. text'[d] >= disk'[d]
      BY <3>1 DEF NoText
    <3>3. QED
      BY <3>1, <3>2 DEF Somewhere, Watched, InFile
  <2>3. ASSUME NEW e \in Documents, e # d
        PROVE  e \in Excused' \/ Well(e)'
    <3>1. (e \in tabs' <=> e \in tabs) /\ hasPath'[e] = hasPath[e]
      BY <2>1, <2>3 DEF DraftKinds
    <3>2. QED
      BY <1>2, <1>4, <1>5, <2>1, <3>1 DEF keptVars, Excused
  <2>4. QED
    BY <1>1, <2>2, <2>3
<1>14. ASSUME NEW d \in Documents, EditText(d)
       PROVE  KeptInv'
  <2>1. /\ UNCHANGED <<keptVars, commands, tabs, hasPath, kept, outdated, torn, misnamed>>
        /\ loop = "select" /\ d \in tabs
        /\ edits' = edits + 1 /\ text' = [text EXCEPT ![d] = edits']
    BY <1>14 DEF EditText
  <2>2. d \in Excused' \/ Well(d)'
    <3>1. text'[d] >= disk[d] /\ text'[d] >= kept[d]
      BY <2>1, DraftsInts DEF DraftKinds
    <3>2. QED
      BY <1>2, <1>5, <2>1, <3>1 DEF Somewhere, Watched, InFile, keptVars, Excused
  <2>3. ASSUME NEW e \in Documents, e # d
        PROVE  e \in Excused' \/ Well(e)'
    <3>1. text'[e] = text[e]
      BY <2>1, <2>3 DEF DraftKinds
    <3>2. QED
      BY <1>2, <1>4, <1>5, <2>1, <3>1 DEF keptVars, Excused
  <2>4. QED
    BY <1>1, <2>2, <2>3
\* A tab that is no more is let go.
<1>15. ASSUME NEW d \in Documents, TabsGone({d}), Settles(d, NoText), loop # "off",
              UNCHANGED <<recovery, stored, misnamed>>, Committing' => Committing,
              \A e \in Documents \ {d} : disk'[e] = disk[e] /\ ClearsOf(e)' = ClearsOf(e)
       PROVE  KeptInv'
  <2>1. Well(d)'
    <3>1. kept'[d] = NoText /\ d \notin tabs'
      BY <1>15 DEF Settles, TabsGone, DraftKinds
    <3>2. QED
      BY <3>1 DEF Somewhere, Watched, InFile
  <2>2. ASSUME NEW e \in Documents, e # d
        PROVE  e \in Excused' \/ Well(e)'
    <3>1. /\ text'[e] = text[e] /\ hasPath'[e] = hasPath[e] /\ (e \in tabs' <=> e \in tabs)
          /\ kept'[e] = kept[e] /\ (e \in Excused => e \in Excused')
      BY <1>15, <2>2 DEF TabsGone, Settles, Excused, DraftKinds
    <3>2. QED
      BY <1>2, <1>4, <1>15, <2>2, <3>1
  <2>3. QED
    BY <1>1, <2>1, <2>2
<1>16. ASSUME NEW d \in Documents, CloseTab(d)
       PROVE  KeptInv'
  BY <1>5, <1>15, <1>16 DEF CloseTab, keptVars
<1>17. ASSUME NEW d \in Documents, TellStorage([kind |-> "clear", document |-> d]), d \in tabs
       PROVE  (Committing' => Committing) /\ \A e \in Documents \ {d} : ClearsOf(e)' = ClearsOf(e)
  <2>1. [kind |-> "clear", document |-> d] \in Command
    BY <1>3, <1>17 DEF Command, Clear
  <2>2. PICK a \in Command : TellStorage(a) /\ a.kind = "clear" /\ a.document = d
    BY <1>17, <2>1
  <2>3. Committing' => Committing
    BY <2>2, ToldPlaces
  <2>4. ASSUME NEW e \in Documents \ {d}
        PROVE  ClearsOf(e)' = ClearsOf(e)
    BY <1>6, <2>2
  <2>5. QED
    BY <2>3, <2>4
<1>18. ASSUME NEW d \in Documents, DiscardTab(d)
       PROVE  KeptInv'
  <2>1. /\ TabsGone({d}) /\ Settles(d, NoText) /\ loop # "off" /\ d \in tabs
        /\ UNCHANGED <<keptVars, misnamed>> /\ TellStorage([kind |-> "clear", document |-> d])
    BY <1>18 DEF DiscardTab
  <2>2. QED
    BY <1>15, <1>17, <2>1 DEF keptVars
<1>19. ASSUME NEW d \in Documents, NEW closes \in BOOLEAN, SaveText(d, closes)
       PROVE  KeptInv'
  <2>1. /\ loop = "select" /\ d \in tabs /\ disk' = [disk EXCEPT ![d] = text[d]]
        /\ TellStorage([kind |-> "clear", document |-> d])
        /\ UNCHANGED <<recovery, stored, misnamed>>
    BY <1>19 DEF SaveText
  <2>2. /\ \A e \in Documents \ {d} : disk'[e] = disk[e] /\ ClearsOf(e)' = ClearsOf(e)
        /\ Committing' => Committing
    BY <1>17, <2>1 DEF DraftKinds
  <2>3. CASE closes
    <3>1. TabsGone({d}) /\ Settles(d, NoText)
      BY <1>19, <2>3 DEF SaveText
    <3>2. QED
      BY <1>15, <2>1, <2>2, <3>1
  <2>4. CASE ~closes
    <3>1. /\ hasPath' = [hasPath EXCEPT ![d] = TRUE] /\ UNCHANGED <<tabs, text>>
          /\ Settles(d, text[d])
      BY <1>19, <2>4 DEF SaveText
    <3>2. Well(d)'
      <4>1. /\ kept'[d] = text'[d] /\ disk'[d] = text'[d] /\ hasPath'[d] /\ d \in tabs'
            /\ text'[d] >= text'[d]
        BY <2>1, <3>1, DraftsInts DEF Settles, DraftKinds
      <4>2. QED
        BY <4>1 DEF Somewhere, Watched, InFile
    <3>3. ASSUME NEW e \in Documents, e # d
          PROVE  e \in Excused' \/ Well(e)'
      <4>1. /\ hasPath'[e] = hasPath[e] /\ kept'[e] = kept[e] /\ (e \in Excused => e \in Excused')
        BY <2>1, <3>1, <3>3 DEF Settles, Excused, DraftKinds
      <4>2. QED
        BY <1>2, <1>4, <2>1, <2>2, <3>1, <3>3, <4>1
    <3>4. QED
      BY <1>1, <3>2, <3>3
  <2>5. QED
    BY <2>3, <2>4
<1>20. ASSUME NEW d \in Documents, SaveTextFails(d)
       PROVE  KeptInv'
  <2>1. /\ UNCHANGED <<keptVars, commands, tabs, text, kept, outdated, torn>>
        /\ loop = "select" /\ misnamed' = misnamed \cup {d}
        /\ hasPath' = [hasPath EXCEPT ![d] = TRUE]
    BY <1>20 DEF SaveTextFails
  <2>2. ASSUME NEW e \in Documents, e \notin Excused'
        PROVE  Well(e)'
    <3>1. e \notin Excused /\ hasPath'[e] = hasPath[e]
      BY <2>1, <2>2 DEF Excused, DraftKinds
    <3>2. QED
      BY <1>2, <1>4, <1>5, <2>1, <3>1 DEF keptVars
  <2>3. QED
    BY <1>1, <2>2
<1>21. ASSUME NEW d \in Documents, AutosaveFile(d)
       PROVE  KeptInv'
  <2>1. /\ loop = "keeping" /\ hasPath[d] /\ d \in tabs
        /\ UNCHANGED <<tabs, text, hasPath, recovery, stored, commands, outdated, torn, misnamed>>
    BY <1>21 DEF AutosaveFile, QueueInv
  <2>2. CASE UNCHANGED <<disk, kept>>
    BY <1>1, <1>2, <1>4, <1>5, <2>1, <2>2 DEF Excused
  <2>3. CASE disk' = [disk EXCEPT ![d] = text[d]] /\ Keeps(d, text[d])
    <3>1. ASSUME d \notin Excused
          PROVE  Well(d)'
      <4>1. Watched(d) /\ text[d] >= disk[d]
        BY <1>2, <2>1, <3>1 DEF Watched
      <4>2. text[d] >= kept[d]
        BY <4>1, DraftsInts DEF Watched, InFile
      <4>3. kept'[d] = text[d] /\ disk'[d] = text[d]
        BY <2>3, <4>2, DraftsInts DEF Keeps, Later, DraftKinds
      <4>4. InFile(d)' /\ text'[d] >= disk'[d]
        BY <2>1, <4>3, DraftsInts DEF InFile
      <4>5. QED
        BY <2>1, <4>4 DEF Somewhere, Watched
    <3>2. ASSUME NEW e \in Documents, e # d
          PROVE  e \in Excused' \/ Well(e)'
      <4>1. disk'[e] = disk[e] /\ kept'[e] = kept[e]
        BY <2>3, <3>2 DEF Keeps, DraftKinds
      <4>2. QED
        BY <1>2, <1>4, <1>5, <2>1, <4>1 DEF Excused
    <3>3. Excused' = Excused
      BY <2>1 DEF Excused
    <3>4. QED
      BY <1>1, <3>1, <3>2, <3>3
  <2>4. QED
    BY <1>21, <2>2, <2>3 DEF AutosaveFile
<1>22. CASE WriteCheckpoint \/ ClearRecovery
  <2>1. /\ commands # <<>> /\ commands' = Tail(commands) /\ loop # "off"
        /\ UNCHANGED <<loop, tabVars, disk, stored, outdated, torn, misnamed>>
    BY <1>22 DEF WriteCheckpoint, ClearRecovery, StorageTold, QueueInv, draftHistory
  <2>2. Head(commands).document \in Documents
    BY <1>3, <1>22, <2>1, HeadTailProperties, OfACommand
       DEF WriteCheckpoint, ClearRecovery, StorageTold, DraftKinds
  <2>3. (Committing' => Committing) /\ \A d \in Documents : ClearsOf(d)' # {} => ClearsOf(d) # {}
    <3>1. Committing' => Committing
      BY <2>1, DonePlaces
    <3>2. ASSUME NEW d \in Documents, ClearsOf(d)' # {}
          PROVE  ClearsOf(d) # {}
      BY <2>1, <3>2, DonePlaces
    <3>3. QED
      BY <3>1, <3>2
  <2>4. ~Committing'
    BY <2>1, DonePlaces DEF CopiesInv
  <2>5. ASSUME NEW e \in Documents, e # Head(commands).document
        PROVE  e \in Excused' \/ Well(e)'
    <3>1. recovery'[e] = recovery[e] /\ kept'[e] = kept[e]
      BY <1>22, <2>2, <2>5 DEF WriteCheckpoint, ClearRecovery, Keeps, draftHistory, DraftKinds
    <3>2. QED
      BY <1>2, <1>4, <2>1, <2>3, <3>1 DEF tabVars, Excused
  <2>6. ASSUME ClearRecovery, NEW d \in Documents, d = Head(commands).document, d \notin Excused
        PROVE  Well(d)'
    <3>1. ClearsOf(d) # {} /\ kept' = kept
      BY <2>1, <2>6, DonePlaces DEF ClearRecovery, StorageTold, draftHistory
    <3>2. InFile(d) /\ Watched(d)
      BY <1>2, <2>1, <2>6, <3>1 DEF Watched
    <3>3. InFile(d)'
      BY <2>1, <3>1, <3>2 DEF InFile
    <3>4. QED
      BY <2>1, <2>3, <2>4, <3>2, <3>3 DEF Somewhere, Watched, tabVars
  <2>7. ASSUME WriteCheckpoint, NEW d \in Documents, d = Head(commands).document, d \notin Excused
        PROVE  Well(d)'
    <3>1. PICK t \in Known : t = Head(commands).text
      BY <2>1, <2>7, HeadTailProperties, OfACommand DEF WriteCheckpoint, StorageTold, DraftKinds
    <3>2. t \in Int /\ recovery'[d] = t
      <4>1. t \in Int
        BY DraftsInts DEF Known
      <4>2. recovery' = [recovery EXCEPT ![d] = t]
        BY <2>7, <3>1 DEF WriteCheckpoint
      <4>3. QED
        BY <2>7, <4>1, <4>2 DEF DraftKinds
    <3>3. IF d \in tabs THEN kept'[d] = Later(kept[d], t) ELSE kept'[d] = kept[d]
      BY <2>7, <3>1 DEF WriteCheckpoint, Keeps, DraftKinds
    <3>4. Somewhere(d) /\ Watched(d)
      BY <1>2, <2>1, <2>7
    <3>5. 1 \in CopiesOf(d) /\ commands[1].text = t
      BY <2>1, <2>7, <3>1, DonePlaces DEF WriteCheckpoint, StorageTold
    <3>6. d \in tabs => /\ recovery[d] <= t /\ t <= text[d]
                        /\ hasPath[d] => t <= disk[d]
      BY <2>1, <2>7, <3>5 DEF OrderInv, Ordered, Excused
    <3>7. CASE kept'[d] = kept[d]
      <4>1. InFile(d)' <=> InFile(d)
        BY <2>1, <3>7 DEF InFile
      <4>2. Somewhere(d)'
        <5>1. CASE d \in tabs
          <6>1. recovery[d] >= kept[d] => recovery'[d] >= kept'[d]
            BY <2>7, <3>2, <3>6, <3>7, <5>1, DraftsInts
          <6>2. stored'[d].text >= kept'[d] <=> stored[d].text >= kept[d]
            BY <2>1, <3>7
          <6>3. QED
            BY <3>4, <4>1, <6>1, <6>2 DEF Somewhere
        <5>2. CASE d \notin tabs
          BY <3>4, <4>1, <5>2 DEF Somewhere, Watched
        <5>3. QED
          BY <5>1, <5>2
      <4>3. Watched(d)'
        BY <2>1, <2>3, <2>4, <3>4, <3>7, <4>1 DEF Watched, tabVars
      <4>4. QED
        BY <4>2, <4>3
    <3>8. CASE d \in tabs /\ kept'[d] = t
      <4>1. Somewhere(d)'
        <5>1. recovery'[d] >= kept'[d]
          BY <3>2, <3>8
        <5>2. QED
          BY <5>1 DEF Somewhere
      <4>2. ClearsOf(d)' # {} => hasPath[d] /\ InFile(d)'
        <5>1. ClearsOf(d)' # {} => hasPath[d]
          BY <2>3, <3>4, <3>8 DEF Watched
        <5>2. hasPath[d] => disk'[d] >= kept'[d]
          BY <2>1, <2>7, <3>2, <3>6, <3>8, DraftsInts
        <5>3. QED
          BY <5>1, <5>2 DEF InFile
      <4>3. text'[d] >= kept'[d]
        BY <2>1, <2>7, <3>2, <3>6, <3>8, DraftsInts DEF tabVars
      <4>4. d \in tabs' /\ hasPath'[d] = hasPath[d] /\ (hasPath[d] => text'[d] >= disk'[d])
        BY <2>1, <3>4, <3>8 DEF Watched, tabVars
      <4>5. QED
        BY <2>4, <4>1, <4>2, <4>3, <4>4 DEF Watched
    <3>9. QED
      BY <3>3, <3>7, <3>8 DEF Later
  <2>8. Excused' = Excused
    BY <2>1 DEF Excused
  <2>9. \A d \in Documents : d \in Excused' \/ Well(d)'
    BY <1>22, <2>5, <2>6, <2>7, <2>8
  <2>10. QED
    BY <1>1, <2>9
<1>23. CASE FlushCommits
  <2>1. /\ loop = "flushing" /\ UNCHANGED <<loop, tabVars, disk, recovery, outdated, torn, misnamed>>
    BY <1>23, FlushIsLast DEF FlushCommits
  <2>2. ASSUME NEW d \in Documents, d \notin Excused
        PROVE  Well(d)'
    <3>1. Somewhere(d) /\ Watched(d) /\ ClearsOf(d)' = {}
      BY <1>2, <1>23, <2>1, <2>2, CommitPlaces
    <3>2. CASE d \in tabs
      <4>1. kept'[d] = Later(kept[d], text[d]) /\ stored'[d].text = text[d]
        <5>1. d \in DOMAIN Head(commands).rows /\ Head(commands).rows[d].text = text[d]
          <6>1. /\ DOMAIN Head(commands).rows = tabs
                /\ \A e \in tabs : Head(commands).rows[e] = [text |-> text[e], hasPath |-> hasPath[e]]
            BY <1>23, CommitPlaces
          <6>2. Head(commands).rows[d] = [text |-> text[d], hasPath |-> hasPath[d]]
            BY <3>2, <6>1
          <6>3. QED
            BY <3>2, <6>1, <6>2
        <5>2. QED
          BY <1>23, <5>1 DEF FlushCommits
      <4>2. CASE text[d] >= kept[d]
        <5>1. kept'[d] = text[d] /\ text[d] >= text[d]
          BY <4>1, <4>2, DraftsInts DEF Later
        <5>2. QED
          BY <2>1, <3>1, <3>2, <4>1, <5>1 DEF Somewhere, Watched, tabVars
      <4>3. CASE ~(text[d] >= kept[d])
        <5>1. kept'[d] = kept[d] /\ InFile(d)
          BY <3>1, <4>1, <4>3, DraftsInts DEF Later, Watched
        <5>2. QED
          BY <2>1, <3>1, <5>1 DEF Somewhere, Watched, InFile, tabVars
      <4>4. QED
        BY <4>2, <4>3
    <3>3. CASE d \notin tabs
      <4>1. kept'[d] = kept[d] /\ InFile(d)
        BY <1>23, <3>1, <3>3, CommitPlaces DEF FlushCommits, Watched
      <4>2. QED
        BY <2>1, <3>1, <3>3, <4>1 DEF Somewhere, Watched, InFile, tabVars
    <3>4. QED
      BY <3>2, <3>3
  <2>3. Excused' = Excused
    BY <2>1 DEF Excused
  <2>4. QED
    BY <1>1, <2>2, <2>3
<1>24. CASE FlushFails \/ TabsFlushed
  <2>1. /\ commands' = <<>> /\ loop = "flushing"
        /\ UNCHANGED <<keptVars, kept, outdated, torn, misnamed>>
    BY <1>24, FlushIsLast DEF FlushFails, TabsFlushed
  <2>2. CASE quitting
    BY <1>8, <1>24, <2>1, <2>2 DEF FlushFails, TabsFlushed
  <2>3. CASE ~quitting
    <3>1. UNCHANGED <<tabs, text, hasPath>>
      BY <1>24, <2>3 DEF FlushFails, TabsFlushed, tabVars
    <3>2. ~Committing' /\ \A d \in Documents : ClearsOf(d)' = {}
      BY <2>1 DEF Committing, ClearsOf
    <3>3. QED
      BY <1>1, <1>2, <1>4, <2>1, <3>1, <3>2 DEF keptVars, Excused
  <2>4. QED
    BY <2>2, <2>3
<1>25. ASSUME NEW d \in Documents, ClearCopy(d)
       PROVE  KeptInv'
  <2>1. /\ recovery' = [recovery EXCEPT ![d] = NoText] /\ StorageTold("committed")
        /\ UNCHANGED <<tabVars, disk, stored, commands, kept, outdated, torn, misnamed, loop>>
    BY <1>25 DEF ClearCopy, draftHistory
  <2>2. loop # "off" /\ Committing
    BY <2>1, FlushIsLast, FlushPlaces
  <2>3. ASSUME NEW e \in Documents, e \notin Excused
        PROVE  Well(e)'
    <3>1. Watched(e)
      BY <1>2, <2>2, <2>3
    <3>2. Watched(e)'
      BY <1>5, <2>1, <3>1 DEF Watched, InFile, tabVars
    <3>3. Somewhere(e)'
      BY <2>1, <2>2, <3>1 DEF Watched, Somewhere, InFile
    <3>4. QED
      BY <3>2, <3>3
  <2>4. Excused' = Excused
    BY <2>1 DEF Excused
  <2>5. QED
    BY <1>1, <2>3, <2>4
<1>26. CASE UNCHANGED draftVars
  BY <1>1, <1>2, <1>4, <1>5, <1>26 DEF draftVars, Excused
<1>27. QED
  BY <1>7, <1>9, <1>10, <1>11, <1>12, <1>13, <1>14, <1>16, <1>18, <1>19, <1>20, <1>21, <1>22,
     <1>23, <1>24, <1>25, <1>26 DEF DraftsNext, StorageStep

\* What was once written of a text and never let go is on the screen or in its file, whenever
\* Dexo ended, and however often -- unless it once came back older than its file, or than its
\* row, and was not saved since: for any documents, files, edits and starts of Dexo.
THEOREM KeptIsKept == DraftsSpec => []KeptIsNotLost
<1>1. DraftsInit => CopiesInv /\ OrderInv /\ KeptInv
  BY DEF DraftsInit, CopiesInv, NoRow, Committing, OrderInv, KeptInv, Somewhere, InFile
<1>2. KeptInv => KeptIsNotLost
  BY DEF KeptInv, KeptIsNotLost, Watched, InFile, Excused
<1>3. QED
  BY <1>1, <1>2, DraftsStart, KindsNext, QueueNext, FreshNext, CopiesNext, OrderNext,
     KeptNext, PTL DEF DraftsSpec
=============================================================================
