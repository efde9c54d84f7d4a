---------------------------- MODULE ContactImport ----------------------------
(***************************************************************************)
(* One CSV import: the wizard's requests that check and confirm it          *)
(* (contacts/views.py) and the queue rows that work through its file a      *)
(* batch at a time (contacts/imports.py).                                  *)
(*                                                                         *)
(* A batch is one transaction under the import row's lock: it either        *)
(* commits whole, with the row of the next batch, or changes nothing.  The  *)
(* queue may run a row once more after that (ActionQueue).                  *)
(***************************************************************************)
EXTENDS Naturals, FiniteSets

CONSTANTS
    Job,           \* queue rows of type contact_import, reused when they are done
    Click,         \* wizard requests under way at once
    FileRows,      \* data rows in the file
    BatchRows,     \* CONTACT_IMPORT_BATCH_ROWS
    MaxRows,       \* CONTACT_IMPORT_MAX_ROWS
    MaxClicks,     \* bound: how often the wizard is used
    MaxRepeats     \* bound: how often the queue runs a row again

ASSUME ImportAssumption ==
    /\ {FileRows, MaxRows, MaxClicks, MaxRepeats} \subseteq Nat
    /\ BatchRows \in Nat \ {0}

VARIABLES
    run,           \* [status, next_offset, processed_rows, total_rows]
    batchRow,      \* [Job -> [due, mode, offset]]
    click,         \* [Click -> "none", "map", "confirm"]: checked and not saved
    written,       \* [row of the file -> how often an import applied it] (history)
    confirms,      \* how often somebody has confirmed a checked file (history)
    crossed,       \* a pass was cut short, or gone on with, by another (history)
    clicks, repeats

importVars == <<run, batchRow, click, written, confirms, crossed, clicks, repeats>>

ImportStatus == {"uploaded", "validating", "validated", "importing", "done", "failed"}
Mode == {"dry_run", "import"}
FreeJob == [due |-> FALSE, mode |-> "dry_run", offset |-> 0]
FileRow == 1..FileRows

ImportInit ==
    /\ run = [status |-> "uploaded", next_offset |-> 0, processed_rows |-> 0, total_rows |-> 0]
    /\ batchRow = [j \in Job |-> FreeJob]
    /\ click = [c \in Click |-> "none"]
    /\ written = [r \in FileRow |-> 0]
    /\ confirms = 0
    /\ crossed = FALSE
    /\ clicks = 0
    /\ repeats = 0

\* No idempotency key: every call makes a row.
Enqueue(jobs, mode, offset) ==
    \E j \in Job : /\ ~jobs[j].due
                   /\ batchRow' = [jobs EXCEPT ![j] = [due |-> TRUE, mode |-> mode, offset |-> offset]]

-----------------------------------------------------------------------------
(* The wizard.  A view reads the row, checks its status, and saves.        *)

CheckMayMap(c) ==
    /\ click[c] = "none"
    /\ clicks < MaxClicks
    /\ run.status # "importing"
    /\ click' = [click EXCEPT ![c] = "map"]
    /\ clicks' = clicks + 1
    /\ UNCHANGED <<run, batchRow, written, confirms, crossed, repeats>>

SaveMapping(c) ==
    /\ click[c] = "map"
    /\ run' = [run EXCEPT !.next_offset = 0, !.status = "validating"]
    /\ Enqueue(batchRow, "dry_run", 0)
    /\ click' = [click EXCEPT ![c] = "none"]
    /\ crossed' = (crossed \/ run.status = "importing")
    /\ UNCHANGED <<written, confirms, clicks, repeats>>

CheckValidated(c) ==
    /\ click[c] = "none"
    /\ clicks < MaxClicks
    /\ run.status = "validated"
    /\ click' = [click EXCEPT ![c] = "confirm"]
    /\ clicks' = clicks + 1
    /\ UNCHANGED <<run, batchRow, written, confirms, crossed, repeats>>

SaveConfirmed(c) ==
    /\ click[c] = "confirm"
    /\ run' = [run EXCEPT !.next_offset = 0, !.status = "importing"]
    /\ Enqueue(batchRow, "import", 0)
    /\ click' = [click EXCEPT ![c] = "none"]
    /\ confirms' = confirms + 1
    /\ UNCHANGED <<written, crossed, clicks, repeats>>

-----------------------------------------------------------------------------
(* The handler.                                                            *)

\* Done with, or on its way to run once more.
After(j, again) == [batchRow EXCEPT ![j] = IF again THEN batchRow[j] ELSE FreeJob]

Settles(j, again) ==
    /\ again => repeats < MaxRepeats
    /\ repeats' = IF again THEN repeats + 1 ELSE repeats
    /\ UNCHANGED <<click, confirms, clicks>>

\* Mutant: any row of the import works on.
NeverStale(j) == FALSE

StaleBatch(j) == batchRow[j].offset # run.next_offset

DropBatch(j, again) ==
    /\ batchRow[j].due
    /\ run.status \in {"done", "failed"} \/ StaleBatch(j)
    /\ batchRow' = After(j, again)
    /\ Settles(j, again)
    /\ UNCHANGED <<run, written, crossed>>

\* The rows a batch at the offset gets through, before the end and the cap.
BatchAt(offset) == {r \in FileRow : r > offset /\ r <= offset + BatchRows /\ r <= MaxRows}
Capped(offset) == \E r \in FileRow : r > offset /\ r <= offset + BatchRows /\ r > MaxRows

\* _begin: a pass counts from nothing.
Begun(mode, offset) ==
    IF offset # 0 THEN run
    ELSE [run EXCEPT !.status = IF mode = "dry_run" THEN "validating" ELSE "importing",
                     !.processed_rows = 0]

Recorded(mode, offset) ==
    LET begun == Begun(mode, offset)
        n == begun.processed_rows + Cardinality(BatchAt(offset))
    IN  [begun EXCEPT !.processed_rows = n,
                      !.next_offset = @ + Cardinality(BatchAt(offset)),
                      !.total_rows = IF mode = "dry_run" THEN n ELSE @]

LastBatch(offset) == Capped(offset) \/ Cardinality(BatchAt(offset)) < BatchRows

RunBatch(j, again) ==
    LET mode == batchRow[j].mode
        offset == batchRow[j].offset
        recorded == Recorded(mode, offset)
    IN  /\ batchRow[j].due
        /\ run.status \notin {"done", "failed"}
        /\ ~StaleBatch(j)
        /\ written' = [r \in FileRow |->
                         written[r] + IF mode = "import" /\ r \in BatchAt(offset) THEN 1 ELSE 0]
        /\ crossed' = (crossed \/ (mode = "import") # (run.status = "importing"))
        /\ IF LastBatch(offset)
           THEN /\ run' = [recorded EXCEPT !.next_offset = 0,
                                           !.status = IF mode = "dry_run" THEN "validated" ELSE "done"]
                /\ batchRow' = After(j, again)
           ELSE /\ run' = recorded
                /\ Enqueue(After(j, again), mode, offset + Cardinality(BatchAt(offset)))
        /\ Settles(j, again)

\* UnusableImportError, before anything of the batch: the file is gone, or the
\* mapping names a deleted field.
FailRun(j, again) ==
    /\ batchRow[j].due
    /\ run.status \notin {"done", "failed"}
    /\ ~StaleBatch(j)
    /\ run' = [run EXCEPT !.status = "failed"]
    /\ batchRow' = After(j, again)
    /\ Settles(j, again)
    /\ UNCHANGED <<written, crossed>>

\* The row runs out of attempts; nothing tells the import.
GiveUpBatch(j) ==
    /\ batchRow[j].due
    /\ batchRow' = After(j, FALSE)
    /\ UNCHANGED <<run, click, written, confirms, crossed, clicks, repeats>>

ImportNext ==
    \/ \E c \in Click : CheckMayMap(c) \/ SaveMapping(c) \/ CheckValidated(c) \/ SaveConfirmed(c)
    \/ \E j \in Job : \/ GiveUpBatch(j)
                      \/ \E again \in BOOLEAN :
                           DropBatch(j, again) \/ RunBatch(j, again) \/ FailRun(j, again)

ImportSpec == ImportInit /\ [][ImportNext]_importVars

-----------------------------------------------------------------------------
(* Properties.                                                             *)

\* Types of all variables.
ImportTypeOK ==
    /\ run \in [status : ImportStatus, next_offset : 0..FileRows,
                processed_rows : 0..FileRows, total_rows : 0..FileRows]
    /\ batchRow \in [Job -> [due : BOOLEAN, mode : Mode, offset : 0..FileRows]]
    /\ click \in [Click -> {"none", "map", "confirm"}]
    /\ written \in [FileRow -> Nat]
    /\ crossed \in BOOLEAN
    /\ {confirms, clicks, repeats} \subseteq Nat

(***************************************************************************)
(* An import that says it is done has applied every row of its file up to   *)
(* the cap, and a pass under way has counted the rows before its offset,    *)
(* each once.  No row has been applied more often than somebody confirmed,  *)
(* unless two passes met in one.  Requests overlap, checks and              *)
(* confirmations come twice, passes fail, and the queue runs rows again     *)
(* (imports.py: a retry "starts from the same next_offset and cannot        *)
(* double-create").                                                        *)
(***************************************************************************)
RowsImportedOnce ==
    /\ run.status = "done" => \A r \in FileRow : r <= MaxRows => written[r] >= 1
    /\ run.next_offset # 0 => run.processed_rows = run.next_offset
    /\ ~crossed => \A r \in FileRow : written[r] <= confirms
=============================================================================
