--------------------------- MODULE GenerationSnapshot ---------------------------
(***************************************************************************)
(* How an existing database is copied to be validated                      *)
(* (src/src/database_schema.rs, snapshot_generation): its files are copied *)
(* one after the other while a server may be writing to them, every copied *)
(* file is looked at once more, and the collection starts again, a few     *)
(* times, if anything had changed.                                         *)
(*                                                                         *)
(* The database is a live one in WAL mode (tests/sqlite_contract.rs), so   *)
(* that the third file of the code, the rollback journal, does not exist.  *)
(* Transactions are numbered; a file is described by the transactions      *)
(* whose pages it holds.  SQLite, the writer, is outside the repository.   *)
(***************************************************************************)
EXTENDS Naturals

CONSTANTS
    Attempts,       \* collections that are tried (4)
    MaxCommits      \* bound: transactions of the writer

ASSUME SnapshotAssumption == Attempts \in Nat \ {0} /\ MaxCommits \in Nat

VARIABLES
    disk,           \* the database's files
    committed,      \* the number of the last transaction
    step, file,     \* what the validation does next, and with which file
    attempt,        \* the collection under way
    before,         \* a local: the file as it was opened
    copied,         \* the private copy; what it was made of is expected again
    since,          \* history: committed when the validation began
    changes,        \* history: steps of the writer since then
    image           \* history: the files when the last copy was completed

writerVars == <<disk, committed>>
readerVars == <<step, file, attempt, before, copied>>
vars == <<writerVars, readerVars, since, changes, image>>

------------------------------------------------------------------------------
(* What the files of a database hold.                                       *)

\* The main file has all pages as of transaction base, and some of them already as
\* of transaction toward; the WAL has the pages of the transactions after from, up
\* to upto.
Absent == [present |-> FALSE, from |-> 0, upto |-> 0]
Wal(m, n) == [present |-> TRUE, from |-> m, upto |-> n]

\* The files fit together: what is missing in the main file is in the WAL, and the
\* WAL is not older than the main file.
Sound(files) ==
    IF files.wal.present
    THEN files.wal.from <= files.main.base /\ files.main.toward <= files.wal.upto
    ELSE files.main.base = files.main.toward

\* The transaction up to which SQLite reads files that fit together.
Content(files) == IF files.wal.present THEN files.wal.upto ELSE files.main.base

Checkpointed == disk.main.base = disk.wal.upto

------------------------------------------------------------------------------
Init ==
    /\ \E b \in 0..1 : disk = [main |-> [base |-> 0, toward |-> 0],
                               wal |-> IF b = 0 THEN Absent ELSE Wal(0, 1)]
    /\ committed = Content(disk)
    /\ step = "idle"
    /\ file = "main"
    /\ attempt = 1
    /\ before = disk.main
    /\ copied = disk
    /\ since = committed
    /\ changes = 0
    /\ image = disk

------------------------------------------------------------------------------
(* SQLite in the server's process.                                          *)

Writes(files) ==
    /\ disk' = files
    /\ changes' = changes + 1
    /\ UNCHANGED <<readerVars, since, image>>

\* A transaction is appended to the WAL; a WAL whose frames are all in the main
\* file may be written anew from its beginning.
Commit ==
    /\ committed < MaxCommits
    /\ committed' = committed + 1
    /\ \/ disk.wal.present /\ Writes([disk EXCEPT !.wal = [@ EXCEPT !.upto = committed + 1]])
       \/ /\ ~disk.wal.present \/ Checkpointed
          /\ Writes([disk EXCEPT !.wal = Wal(committed, committed + 1)])

\* The WAL's pages are written to the main file, some before others.
BeginCheckpoint ==
    /\ disk.wal.present /\ ~Checkpointed
    /\ disk.main.base = disk.main.toward
    /\ Writes([disk EXCEPT !.main = [@ EXCEPT !.toward = disk.wal.upto]])
    /\ UNCHANGED committed

EndCheckpoint ==
    /\ disk.main.base # disk.main.toward
    /\ Writes([disk EXCEPT !.main = [@ EXCEPT !.base = disk.main.toward]])
    /\ UNCHANGED committed

\* The last connection is closed.
RemoveWal ==
    /\ disk.wal.present /\ Checkpointed
    /\ Writes([disk EXCEPT !.wal = Absent])
    /\ UNCHANGED committed

Writer == Commit \/ BeginCheckpoint \/ EndCheckpoint \/ RemoveWal

------------------------------------------------------------------------------
(* The validation.                                                          *)

\* A start of doctor, or of another process, for which the database exists.
Begin ==
    /\ step \in {"idle", "copied", "refused"}
    /\ step' = "open" /\ file' = "main" /\ attempt' = 1
    /\ since' = committed /\ changes' = 0
    /\ UNCHANGED <<writerVars, before, copied, image>>

\* Mutant: the comparison alone is repeated.
Changed_CompareAgain ==
    /\ attempt' = IF attempt < Attempts THEN attempt + 1 ELSE attempt
    /\ step' = IF attempt < Attempts THEN "verify" ELSE "refused"
    /\ file' = "main"
    /\ UNCHANGED copied

\* Mutant: one collection too many.
Changed_OneMore ==
    /\ attempt' = attempt + 1
    /\ step' = IF attempt <= Attempts THEN "open" ELSE "refused"
    /\ file' = "main"
    /\ UNCHANGED copied

\* GenerationChanged: everything is collected again, or the database is refused.
Changed ==
    /\ attempt' = IF attempt < Attempts THEN attempt + 1 ELSE attempt
    /\ step' = IF attempt < Attempts THEN "open" ELSE "refused"
    /\ file' = "main"
    /\ UNCHANGED copied

\* What was copied of the file is what is expected of it from now on.
Collected ==
    /\ copied' = [copied EXCEPT ![file] = disk[file]]
    /\ step' = IF file = "main" THEN "open" ELSE "verify"
    /\ file' = IF file = "main" THEN "wal" ELSE "main"
    /\ image' = IF file = "main" THEN image ELSE disk
    /\ UNCHANGED attempt

\* copy_generation_file up to the copy: a file that is absent is left at that.
OpenFile ==
    /\ step = "open"
    /\ before' = disk[file]
    /\ IF file = "wal" /\ ~disk.wal.present
       THEN Collected
       ELSE step' = "copy" /\ UNCHANGED <<file, attempt, copied, image>>
    /\ UNCHANGED <<writerVars, since, changes>>

\* ... and after it: the copy is of one state of the file, or is not used.
CopyFile ==
    /\ step = "copy"
    /\ IF disk[file] = before THEN Collected ELSE Changed /\ UNCHANGED image
    /\ UNCHANGED <<writerVars, before, since, changes>>

\* Mutant: what was copied is not looked at again.
Unchanged_Trusted == TRUE

\* The file is still what was copied.
Unchanged == disk[file] = copied[file]

\* The second look at every file.
VerifyFile ==
    /\ step = "verify"
    /\ IF Unchanged
       THEN /\ step' = IF file = "main" THEN "verify" ELSE "copied"
            /\ file' = "wal"
            /\ UNCHANGED <<attempt, copied>>
       ELSE Changed
    /\ UNCHANGED <<writerVars, before, since, changes, image>>

\* Any other error: no file is read or compared any more.
Fail ==
    /\ step \in {"open", "copy", "verify"}
    /\ step' = "idle"
    /\ UNCHANGED <<writerVars, file, attempt, before, copied, since, changes, image>>

Validation == Begin \/ OpenFile \/ CopyFile \/ VerifyFile \/ Fail

Next == Writer \/ Validation

Spec == Init /\ [][Next]_vars

------------------------------------------------------------------------------
(* Properties.                                                              *)

MainFiles == [base : Nat, toward : Nat]
WalFiles == [present : BOOLEAN, from : Nat, upto : Nat]
Files == [main : MainFiles, wal : WalFiles]

\* Files and locals are of their types; the attempts stay within their number.
TypeOK ==
    /\ disk \in Files /\ copied \in Files /\ image \in Files
    /\ before \in MainFiles \cup WalFiles
    /\ committed \in Nat /\ since \in Nat /\ changes \in Nat
    /\ step \in {"idle", "open", "copy", "verify", "copied", "refused"}
    /\ file \in {"main", "wal"}
    /\ attempt \in 1..Attempts

\* The private copy is the database as some transaction left it while it was being
\* validated - never the main file of one moment with the WAL of another, which would
\* refuse a sound database or pass one that nobody ever had.
CopyIsCommitted ==
    step = "copied" => Sound(copied) /\ Content(copied) \in since..committed

\* A database is refused for having changed only if it has changed that often: an
\* idle one, or one with fewer changes than attempts, is validated.
RefusalHasCause == step = "refused" => changes >= Attempts
==============================================================================
