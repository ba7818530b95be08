------------------------------ MODULE FileImport -----------------------------
(***************************************************************************)
(* An import reads a file a batch at a time, in a thread of its own, and   *)
(* writes each batch to its table in one transaction (transfer/import.rs). *)
(* A batch the database refuses goes in row by row, its bad rows skipped   *)
(* or set aside -- unless the first bad row ends the import.               *)
(*                                                                         *)
(* A row is its number in the file, and the database decides which are     *)
(* bad.  Values, mappings and formats are left out.                        *)
(***************************************************************************)
EXTENDS Integers, Sequences, FiniteSets

CONSTANTS
    FileRows,  \* how many rows the file has
    BatchRows, \* BATCH: written together
    ReadAhead  \* READ_AHEAD: batches read before they are taken

ASSUME FileImportAssumption ==
    /\ FileRows \in Nat
    /\ BatchRows \in Nat \ {0}
    /\ ReadAhead \in Nat \ {0}

VARIABLES
    strategy,  \* what a bad row does: stop, skip, reject
    read,      \* what the reader sent: -1 nothing, 0 the columns, n batches of rows
    reading,   \* the reader goes on
    channel,   \* what it sent, not yet taken
    importing, \* where the import is
    batch,     \* the batch it writes, 0 before the first
    row,       \* the row of it, one by one
    stopAsked, \* the cancel flag
    connected, \* the connection answers
    table,     \* how often each row is in the table
    inBatch,   \* the ImportReport of this batch
    report,    \* ... and of those before it
    rejects,   \* what the file of rejects says
    said,      \* what the import said in the end, and of how many rows
    unheard    \* history: rows committed without an answer

importVars == <<strategy, read, reading, channel, importing, batch, row, stopAsked, connected, table,
                inBatch, report, rejects, said, unheard>>

Rows == 1..FileRows
BatchCount == (FileRows + BatchRows - 1) \div BatchRows
RowsOf(b) == {r \in Rows : (r - 1) \div BatchRows = b - 1}
NoRows == [committed |-> 0, skipped |-> 0, rejected |-> {}]
NothingSaid == [end |-> "none", rows |-> 0]

ImportInit ==
    /\ strategy \in {"stop", "skip", "reject"}
    /\ read = -1
    /\ reading = TRUE
    /\ channel = <<>>
    /\ importing = "look"
    /\ batch = 0
    /\ row = 0
    /\ stopAsked = FALSE
    /\ connected = TRUE
    /\ table = [r \in Rows |-> 0]
    /\ inBatch = NoRows
    /\ report = NoRows
    /\ rejects = {}
    /\ said = NothingSaid
    /\ unheard = {}

importTask == <<importing, batch, row, inBatch, report, rejects, said>>
importData == <<connected, table, unheard>>

-----------------------------------------------------------------------------
(* The reader. *)

\* The columns, then the rows; at the end the channel is closed.
ReadOn ==
    /\ reading /\ importing # "over"
    /\ IF read = BatchCount
       THEN reading' = FALSE /\ UNCHANGED <<read, channel>>
       ELSE /\ Len(channel) < ReadAhead
            /\ read' = read + 1
            /\ channel' = Append(channel, IF read = -1 THEN "columns" ELSE "rows")
            /\ UNCHANGED reading
    /\ UNCHANGED <<strategy, stopAsked, importTask, importData>>

\* Text that does not decode.
ReadFails ==
    /\ reading /\ importing # "over"
    /\ Len(channel) < ReadAhead
    /\ channel' = Append(channel, "error")
    /\ reading' = FALSE
    /\ UNCHANGED <<strategy, read, stopAsked, importTask, importData>>

\* Nobody takes what it reads.
ReaderGivesUp ==
    /\ reading /\ importing = "over"
    /\ reading' = FALSE
    /\ UNCHANGED <<strategy, read, channel, stopAsked, importTask, importData>>

-----------------------------------------------------------------------------
(* The import. *)

readerVars == <<strategy, read, reading>>

StopImport ==
    /\ ~stopAsked /\ importing # "over"
    /\ stopAsked' = TRUE
    /\ UNCHANGED <<readerVars, channel, importTask, importData>>

Ends(how) ==
    /\ importing' = "closing"
    /\ said' = [end |-> how, rows |-> report.committed]
    /\ UNCHANGED <<batch, row, inBatch, report, rejects>>

\* next: the flag, then at most a tenth of a second for what was read.
LookForStop ==
    /\ importing = "look"
    /\ IF stopAsked
       THEN Ends("cancelled")
       ELSE importing' = "wait" /\ UNCHANGED <<batch, row, inBatch, report, rejects, said>>
    /\ UNCHANGED <<readerVars, channel, stopAsked, importData>>

WaitMore ==
    /\ importing = "wait" /\ channel = <<>> /\ reading
    /\ importing' = "look"
    /\ UNCHANGED <<readerVars, channel, stopAsked, batch, row, inBatch, report, rejects, said, importData>>

Take ==
    /\ importing = "wait"
    /\ channel # <<>> \/ ~reading
    /\ IF channel = <<>> THEN Ends("done") /\ UNCHANGED channel
       ELSE /\ channel' = Tail(channel)
            /\ CASE Head(channel) = "error" -> Ends("failed")
                 [] Head(channel) = "columns" ->
                      \* They fit the table, or the import ends.
                      \/ Ends("failed")
                      \/ importing' = "look" /\ UNCHANGED <<batch, row, inBatch, report, rejects, said>>
                 [] Head(channel) = "rows" ->
                      /\ importing' = "batch"
                      /\ batch' = batch + 1
                      /\ UNCHANGED <<row, inBatch, report, rejects, said>>
    /\ UNCHANGED <<readerVars, stopAsked, importData>>

\* The report of a batch is added to what came before once the batch is through.
BatchThrough(p) ==
    /\ report' = [committed |-> report.committed + p.committed,
                  skipped |-> report.skipped + p.skipped,
                  rejected |-> report.rejected \cup p.rejected]
    /\ inBatch' = NoRows
    /\ importing' = "look"
    /\ row' = 0
    /\ UNCHANGED <<batch, rejects, said>>

\* insert_batch: all the rows or none; a connection lost at the COMMIT says neither.
Insert(rows, In, Refused) ==
    \/ /\ connected
       /\ table' = [r \in Rows |-> IF r \in rows THEN table[r] + 1 ELSE table[r]]
       /\ In
       /\ UNCHANGED <<connected, unheard>>
    \/ Refused /\ UNCHANGED importData
    \/ /\ connected
       /\ table' = [r \in Rows |-> IF r \in rows THEN table[r] + 1 ELSE table[r]]
       /\ connected' = FALSE
       /\ unheard' = unheard \cup rows
       /\ Refused

\* Mutant of BatchRefused: its rows count, though the transaction was undone.
RefusedCounted ==
    IF strategy = "stop" THEN Ends("failed")
    ELSE /\ importing' = "rows"
         /\ row' = CHOOSE r \in RowsOf(batch) : \A q \in RowsOf(batch) : r <= q
         /\ inBatch' = [inBatch EXCEPT !.committed = Cardinality(RowsOf(batch))]
         /\ UNCHANGED <<batch, report, rejects, said>>

\* The first bad row ends the import, or they go in one by one.
BatchRefused ==
    IF strategy = "stop" THEN Ends("failed")
    ELSE /\ importing' = "rows"
         /\ row' = CHOOSE r \in RowsOf(batch) : \A q \in RowsOf(batch) : r <= q
         /\ UNCHANGED <<batch, inBatch, report, rejects, said>>

WriteBatch ==
    /\ importing = "batch"
    /\ IF stopAsked THEN Ends("cancelled") /\ UNCHANGED importData
       ELSE Insert(RowsOf(batch),
                   BatchThrough([NoRows EXCEPT !.committed = Cardinality(RowsOf(batch))]),
                   BatchRefused)
    /\ UNCHANGED <<readerVars, channel, stopAsked>>

RowDone(p) ==
    IF row + 1 \in RowsOf(batch)
    THEN /\ row' = row + 1
         /\ inBatch' = p
         /\ UNCHANGED <<importing, batch, report, rejects, said>>
    ELSE BatchThrough(p)

WriteRow ==
    /\ importing = "rows"
    /\ IF stopAsked THEN Ends("cancelled") /\ UNCHANGED importData
       ELSE Insert({row},
                   RowDone([inBatch EXCEPT !.committed = @ + 1]),
                   RowDone(IF strategy = "skip" THEN [inBatch EXCEPT !.skipped = @ + 1]
                           ELSE [inBatch EXCEPT !.rejected = @ \cup {row}]))
    /\ UNCHANGED <<readerVars, channel, stopAsked>>

\* What was set aside is written, however the import ended; if that fails, this is its end.
CloseImport ==
    /\ importing = "closing"
    /\ importing' = "over"
    /\ IF strategy = "reject" /\ report.rejected # {}
       THEN \/ rejects' = report.rejected /\ UNCHANGED said
            \/ said' = [end |-> "unwritten", rows |-> 0] /\ UNCHANGED rejects
       ELSE UNCHANGED <<rejects, said>>
    /\ UNCHANGED <<readerVars, channel, stopAsked, batch, row, inBatch, report, importData>>

ImportNext ==
    \/ ReadOn \/ ReadFails \/ ReaderGivesUp
    \/ StopImport \/ LookForStop \/ WaitMore \/ Take
    \/ WriteBatch \/ WriteRow \/ CloseImport

ImportSpec == ImportInit /\ [][ImportNext]_importVars

-----------------------------------------------------------------------------

ImportTypeOK ==
    /\ strategy \in {"stop", "skip", "reject"}
    /\ read \in -1..BatchCount
    /\ reading \in BOOLEAN
    /\ channel \in Seq({"columns", "rows", "error"}) /\ Len(channel) <= ReadAhead
    /\ importing \in {"look", "wait", "batch", "rows", "closing", "over"}
    /\ batch \in 0..BatchCount
    /\ row \in 0..FileRows
    /\ stopAsked \in BOOLEAN
    /\ connected \in BOOLEAN
    /\ table \in [Rows -> 0..2]
    /\ \A p \in {inBatch, report} :
          p.committed \in 0..FileRows /\ p.skipped \in 0..FileRows /\ p.rejected \subseteq Rows
    /\ rejects \subseteq Rows
    /\ said.end \in {"none", "done", "failed", "cancelled", "unwritten"}
    /\ said.rows \in 0..FileRows
    /\ unheard \subseteq Rows

\* Rows in the table, but for those whose commit nobody heard of.
InTable == {r \in Rows : table[r] > 0 /\ r \notin unheard}

\* No row is in the table twice, though a batch is written again row by row.  An import
\* that ends well has told of every row of the file; one that ends well or fails has told
\* of exactly the rows that are in; and but for a batch cut short by a cancel, every row
\* set aside is in the file of rejects.
ImportSaysWhatWentIn ==
    /\ \A r \in Rows : table[r] <= 1
    /\ importing = "over" =>
        /\ said.end = "done" =>
              said.rows + report.skipped + Cardinality(report.rejected) = FileRows
        /\ said.end \in {"done", "failed"} => said.rows = Cardinality(InTable)
        /\ strategy = "reject" /\ said.end \notin {"unwritten"} =>
              rejects = report.rejected \cup (IF said.end = "cancelled" THEN {} ELSE inBatch.rejected)
        /\ rejects \cap InTable = {}
=============================================================================
