----------------------- MODULE GenerationSnapshot_proofs -----------------------
(***************************************************************************)
(* A private copy is the database of one moment, and a refusal has causes, *)
(* for any number of attempts and of the writer's transactions.            *)
(*                                                                         *)
(* The moment is the one at which the last file is copied: the WAL is of   *)
(* that moment, and the main file, which never takes a former state again, *)
(* is found unchanged after it.                                            *)
(***************************************************************************)
EXTENDS GenerationSnapshot, TLAPS

\* A main file only moves on.
Older(m, n) == m.base + m.toward < n.base + n.toward

\* The files on disk fit together and hold every transaction.
DiskInv ==
    /\ Sound(disk) /\ Content(disk) = committed
    /\ disk.main.base <= disk.main.toward
    /\ since <= committed

\* The main file was collected, in this attempt.
MainCollected == step \in {"verify", "copied"} \/ (step \in {"open", "copy"} /\ file = "wal")

\* What is copied was on disk when the last copy was completed.
ImageInv ==
    /\ MainCollected /\ step \in {"open", "copy"} =>
          copied.main = disk.main \/ Older(copied.main, disk.main)
    /\ step \in {"verify", "copied"} =>
          /\ Sound(image) /\ Content(image) \in since..committed
          /\ copied.wal = image.wal
          /\ copied.main = image.main \/ Older(copied.main, disk.main)
    /\ step = "copied" \/ (step = "verify" /\ file = "wal") => copied.main = image.main

\* Every attempt before this one had a change, and so had this one if something is
\* not as it was read.
CauseInv ==
    /\ changes >= attempt - 1
    /\ step = "copy" /\ disk[file] # before => changes >= attempt
    /\ MainCollected /\ step # "copied" /\ disk.main # copied.main => changes >= attempt
    /\ step = "verify" /\ disk.wal # copied.wal => changes >= attempt
    /\ step = "refused" => changes >= Attempts

SnapshotInv == TypeOK /\ DiskInv /\ ImageInv /\ CauseInv

LEMMA InitSnapshot == Init => SnapshotInv
<1>. SUFFICES ASSUME Init  PROVE SnapshotInv
  OBVIOUS
<1>1. PICK b \in 0..1 : disk = [main |-> [base |-> 0, toward |-> 0],
                               wal |-> IF b = 0 THEN Absent ELSE Wal(0, 1)]
  BY DEF Init
<1>2. disk.main = [base |-> 0, toward |-> 0] /\ disk.wal \in {Absent, Wal(0, 1)}
      /\ disk \in Files
  BY <1>1 DEF Files, MainFiles, WalFiles, Absent, Wal
<1>3. Sound(disk) /\ Content(disk) \in Nat
  BY <1>2 DEF Sound, Content, Absent, Wal
<1>4. TypeOK
  BY <1>2, <1>3, SnapshotAssumption DEF Init, TypeOK, Files
<1>5. DiskInv
  BY <1>2, <1>3 DEF Init, DiskInv
<1>. QED  BY <1>4, <1>5 DEF Init, SnapshotInv, ImageInv, CauseInv, MainCollected

\* What every step of the writer does: the files stay sound, the main file is as it
\* was or has moved on.
LEMMA WriterMoves ==
  ASSUME SnapshotInv, Writer
  PROVE  /\ disk' \in Files /\ committed' \in Nat /\ committed <= committed'
         /\ Sound(disk') /\ Content(disk') = committed'
         /\ disk'.main.base <= disk'.main.toward
         /\ disk'.main = disk.main \/ Older(disk.main, disk'.main)
         /\ changes' = changes + 1
         /\ UNCHANGED <<readerVars, since, image>>
<1>. DEFINE m == disk.main  w == disk.wal
<1>1. /\ disk \in Files /\ m.base \in Nat /\ m.toward \in Nat
      /\ w.from \in Nat /\ w.upto \in Nat /\ w.present \in BOOLEAN
      /\ committed \in Nat /\ m.base <= m.toward
      /\ w.present => w.from <= m.base /\ m.toward <= w.upto /\ w.upto = committed
      /\ ~w.present => m.base = m.toward /\ m.base = committed
  BY DEF SnapshotInv, TypeOK, Files, MainFiles, WalFiles, DiskInv, Sound, Content
<1>2. CASE Commit
  <2>1. /\ committed' = committed + 1 /\ changes' = changes + 1
        /\ UNCHANGED <<readerVars, since, image>>
    BY <1>2 DEF Commit, Writes
  <2>2. CASE w.present /\ disk' = [disk EXCEPT !.wal = [@ EXCEPT !.upto = committed + 1]]
    <3>1. /\ disk'.main = m /\ disk'.wal.present /\ disk'.wal.from = w.from
          /\ disk'.wal.upto = committed + 1 /\ disk' \in Files
      BY <1>1, <2>2 DEF Files, WalFiles
    <3>2. Sound(disk')
      BY <1>1, <2>2, <3>1 DEF Sound
    <3>3. Content(disk') = committed'
      BY <2>1, <3>1 DEF Content
    <3>. QED  BY <1>1, <2>1, <3>1, <3>2, <3>3
  <2>3. CASE /\ ~w.present \/ Checkpointed
             /\ disk' = [disk EXCEPT !.wal = Wal(committed, committed + 1)]
    <3>1. Wal(committed, committed + 1) \in WalFiles
      BY <1>1 DEF WalFiles, Wal
    <3>2. disk'.main = m /\ disk'.wal = Wal(committed, committed + 1) /\ disk' \in Files
      BY <1>1, <2>3, <3>1 DEF Files
    <3>3. m.base = committed /\ m.toward = committed
      BY <1>1, <2>3 DEF Checkpointed
    <3>4. Sound(disk') /\ Content(disk') = committed'
      BY <1>1, <2>1, <3>2, <3>3 DEF Sound, Content, Wal
    <3>. QED  BY <1>1, <2>1, <3>2, <3>4
  <2>. QED  BY <1>2, <2>2, <2>3 DEF Commit, Writes
<1>3. CASE BeginCheckpoint
  <2>1. /\ disk' = [disk EXCEPT !.main = [@ EXCEPT !.toward = w.upto]]
        /\ w.present /\ m.base = m.toward /\ m.base # w.upto
        /\ committed' = committed /\ changes' = changes + 1
        /\ UNCHANGED <<readerVars, since, image>>
    BY <1>3 DEF BeginCheckpoint, Writes, Checkpointed
  <2>2. /\ disk'.wal = w /\ disk'.main.base = m.base /\ disk'.main.toward = w.upto
        /\ disk' \in Files
    BY <1>1, <2>1 DEF Files, MainFiles
  <2>. QED  BY <1>1, <2>1, <2>2 DEF Sound, Content, Older
<1>4. CASE EndCheckpoint
  <2>1. /\ disk' = [disk EXCEPT !.main = [@ EXCEPT !.base = m.toward]]
        /\ m.base # m.toward
        /\ committed' = committed /\ changes' = changes + 1
        /\ UNCHANGED <<readerVars, since, image>>
    BY <1>4 DEF EndCheckpoint, Writes
  <2>2. /\ disk'.wal = w /\ disk'.main.base = m.toward /\ disk'.main.toward = m.toward
        /\ disk' \in Files
    BY <1>1, <2>1 DEF Files, MainFiles
  <2>. QED  BY <1>1, <2>1, <2>2 DEF Sound, Content, Older
<1>5. CASE RemoveWal
  <2>1. /\ disk' = [disk EXCEPT !.wal = Absent]
        /\ w.present /\ m.base = w.upto
        /\ committed' = committed /\ changes' = changes + 1
        /\ UNCHANGED <<readerVars, since, image>>
    BY <1>5 DEF RemoveWal, Writes, Checkpointed
  <2>2. disk'.main = m /\ disk'.wal = Absent /\ disk' \in Files
    BY <1>1, <2>1 DEF Files, WalFiles, Absent
  <2>. QED  BY <1>1, <2>1, <2>2 DEF Sound, Content, Absent
<1>. QED  BY <1>2, <1>3, <1>4, <1>5 DEF Writer

LEMMA OlderChain ==
  ASSUME NEW l \in MainFiles, NEW m \in MainFiles, NEW n \in MainFiles,
         Older(l, m), m = n \/ Older(m, n)
  PROVE  Older(l, n)
BY DEF Older, MainFiles

LEMMA WriterKeeps == SnapshotInv /\ Writer => SnapshotInv'
<1>. SUFFICES ASSUME SnapshotInv, Writer  PROVE SnapshotInv'
  OBVIOUS
<1>1. /\ disk' \in Files /\ committed' \in Nat /\ committed <= committed'
      /\ Sound(disk') /\ Content(disk') = committed'
      /\ disk'.main.base <= disk'.main.toward
      /\ disk'.main = disk.main \/ Older(disk.main, disk'.main)
      /\ changes' = changes + 1
      /\ UNCHANGED <<readerVars, since, image>>
  BY WriterMoves
<1>2. TypeOK /\ DiskInv /\ ImageInv /\ CauseInv
  BY DEF SnapshotInv
<1>3. TypeOK'
  BY <1>1, <1>2 DEF TypeOK, readerVars
<1>4. DiskInv'
  BY <1>1, <1>2 DEF DiskInv, TypeOK
<1>5. ImageInv'
  <2>1. /\ copied.main \in MainFiles /\ disk.main \in MainFiles /\ disk'.main \in MainFiles
    BY <1>1, <1>2 DEF TypeOK, Files
  <2>2. copied.main = disk.main \/ Older(copied.main, disk.main)
          => copied.main = disk'.main \/ Older(copied.main, disk'.main)
    BY <1>1, <2>1, OlderChain
  <2>3. Older(copied.main, disk.main) => Older(copied.main, disk'.main)
    BY <1>1, <2>1, OlderChain
  <2>4. Content(image) \in since..committed => Content(image) \in since..committed'
    BY <1>1, <1>2 DEF TypeOK
  <2>. HIDE DEF Content, Sound, Older
  <2>. QED  BY <1>1, <1>2, <2>2, <2>3, <2>4 DEF ImageInv, MainCollected, readerVars
<1>6. CauseInv'
  <2>1. changes' >= attempt /\ (changes >= Attempts => changes' >= Attempts)
    BY <1>1, <1>2, SnapshotAssumption DEF CauseInv, TypeOK
  <2>2. changes' >= attempt - 1
    BY <1>1, <1>2 DEF CauseInv, TypeOK
  <2>. QED  BY <1>1, <1>2, <2>1, <2>2 DEF CauseInv, readerVars
<1>. QED  BY <1>3, <1>4, <1>5, <1>6 DEF SnapshotInv

\* A new attempt, or the refusal: this attempt had a change.
LEMMA ChangedKeeps ==
  ASSUME SnapshotInv, Changed, changes >= attempt,
         UNCHANGED <<writerVars, before, since, changes, image>>
  PROVE  SnapshotInv'
<1>1. TypeOK /\ DiskInv
  BY DEF SnapshotInv
<1>2. /\ file' = "main" /\ copied' = copied
      /\ \/ attempt < Attempts /\ step' = "open" /\ attempt' = attempt + 1
         \/ attempt = Attempts /\ step' = "refused" /\ attempt' = attempt
  BY <1>1, SnapshotAssumption DEF Changed, TypeOK
<1>3. TypeOK'
  BY <1>1, <1>2, SnapshotAssumption DEF TypeOK, writerVars
<1>4. DiskInv' /\ ImageInv'
  BY <1>1, <1>2 DEF DiskInv, ImageInv, MainCollected, writerVars
<1>5. CauseInv'
  BY <1>1, <1>2 DEF CauseInv, MainCollected, TypeOK
<1>. QED  BY <1>3, <1>4, <1>5 DEF SnapshotInv

\* A file as it is now is the copy; with the last one the image is taken.
LEMMA CollectedKeeps ==
  ASSUME SnapshotInv, step \in {"open", "copy"}, Collected, before' \in MainFiles \cup WalFiles,
         UNCHANGED <<writerVars, since, changes>>
  PROVE  SnapshotInv'
<1>1. TypeOK /\ DiskInv /\ ImageInv /\ CauseInv
  BY DEF SnapshotInv
<1>2. UNCHANGED <<disk, committed, since, changes, attempt>>
  BY DEF Collected, writerVars
<1>3. disk \in Files /\ copied \in Files
  BY <1>1 DEF TypeOK
<1>4. CASE file = "main"
  <2>1. /\ copied' = [copied EXCEPT !.main = disk.main]
        /\ step' = "open" /\ file' = "wal" /\ image' = image
    BY <1>4 DEF Collected
  <2>2. copied'.main = disk.main /\ copied' \in Files
    BY <1>3, <2>1 DEF Files
  <2>3. TypeOK'
    BY <1>1, <1>2, <2>1, <2>2 DEF TypeOK
  <2>4. DiskInv' /\ ImageInv' /\ CauseInv'
    BY <1>1, <1>2, <2>1, <2>2 DEF DiskInv, ImageInv, CauseInv, MainCollected
  <2>. QED  BY <2>3, <2>4 DEF SnapshotInv
<1>5. CASE file = "wal"
  <2>1. /\ copied' = [copied EXCEPT !.wal = disk.wal]
        /\ step' = "verify" /\ file' = "main" /\ image' = disk
    BY <1>5 DEF Collected
  <2>2. copied'.main = copied.main /\ copied'.wal = disk.wal /\ copied' \in Files
    BY <1>3, <2>1 DEF Files
  <2>3. TypeOK'
    BY <1>1, <1>2, <2>1, <2>2 DEF TypeOK
  <2>4. DiskInv'
    BY <1>1, <1>2 DEF DiskInv
  <2>5. ImageInv'
    <3>1. copied.main = disk.main \/ Older(copied.main, disk.main)
      BY <1>1, <1>5 DEF ImageInv, MainCollected
    <3>2. Sound(disk) /\ Content(disk) \in since..committed
      BY <1>1 DEF DiskInv, TypeOK
    <3>. QED  BY <1>2, <2>1, <2>2, <3>1, <3>2 DEF ImageInv, MainCollected
  <2>6. CauseInv'
    <3>1. disk.main # copied.main => changes >= attempt
      BY <1>1, <1>5 DEF CauseInv, MainCollected
    <3>. QED  BY <1>1, <1>2, <2>1, <2>2, <3>1 DEF CauseInv, MainCollected
  <2>. QED  BY <2>3, <2>4, <2>5, <2>6 DEF SnapshotInv
<1>. QED  BY <1>1, <1>4, <1>5 DEF TypeOK

LEMMA ValidationKeeps == SnapshotInv /\ Validation => SnapshotInv'
<1>. SUFFICES ASSUME SnapshotInv, Validation  PROVE SnapshotInv'
  OBVIOUS
<1>0. TypeOK /\ DiskInv /\ ImageInv /\ CauseInv
  BY DEF SnapshotInv
<1>1. CASE Begin
  <2>1. TypeOK'
    BY <1>0, <1>1, SnapshotAssumption DEF Begin, TypeOK, writerVars
  <2>2. DiskInv' /\ ImageInv' /\ CauseInv'
    BY <1>0, <1>1 DEF Begin, TypeOK, DiskInv, ImageInv, CauseInv, MainCollected, writerVars
  <2>. QED  BY <2>1, <2>2 DEF SnapshotInv
<1>2. CASE OpenFile
  <2>1. disk[file] \in MainFiles \cup WalFiles /\ before' = disk[file]
    BY <1>0, <1>2 DEF OpenFile, TypeOK, Files
  <2>2. CASE Collected
    BY <1>2, <2>1, <2>2, CollectedKeeps DEF OpenFile
  <2>3. CASE step' = "copy" /\ UNCHANGED <<file, attempt, copied, image>>
    <3>1. TypeOK'
      BY <1>0, <1>2, <2>1, <2>3 DEF OpenFile, TypeOK, writerVars
    <3>2. DiskInv' /\ ImageInv' /\ CauseInv'
      BY <1>0, <1>2, <2>1, <2>3 DEF OpenFile, DiskInv, ImageInv, CauseInv, MainCollected,
         writerVars
    <3>. QED  BY <3>1, <3>2 DEF SnapshotInv
  <2>. QED  BY <1>2, <2>2, <2>3 DEF OpenFile
<1>3. CASE CopyFile
  <2>1. CASE disk[file] = before
    <3>1. before' \in MainFiles \cup WalFiles
      BY <1>0, <1>3 DEF CopyFile, TypeOK
    <3>. QED  BY <1>3, <2>1, <3>1, CollectedKeeps DEF CopyFile
  <2>2. CASE disk[file] # before
    BY <1>0, <1>3, <2>2, ChangedKeeps DEF CopyFile, CauseInv
  <2>. QED  BY <2>1, <2>2
<1>4. CASE VerifyFile
  <2>1. CASE Unchanged
    <3>1. /\ step' = IF file = "main" THEN "verify" ELSE "copied"
          /\ file' = "wal"
          /\ UNCHANGED <<writerVars, before, since, changes, image, attempt, copied>>
      BY <1>4, <2>1 DEF VerifyFile
    <3>2. TypeOK'
      BY <1>0, <3>1 DEF TypeOK, writerVars
    <3>3. copied.main = image.main
      <4>1. CASE file = "main"
        <5>1. disk.main = copied.main /\ ~Older(copied.main, disk.main)
          BY <1>0, <2>1, <4>1 DEF Unchanged, TypeOK, Files, MainFiles, Older
        <5>. QED  BY <1>0, <1>4, <5>1 DEF VerifyFile, ImageInv
      <4>2. CASE file = "wal"
        BY <1>0, <1>4, <4>2 DEF VerifyFile, ImageInv
      <4>. QED  BY <1>0, <4>1, <4>2 DEF TypeOK
    <3>4. DiskInv' /\ ImageInv'
      BY <1>0, <1>4, <3>1, <3>3 DEF VerifyFile, DiskInv, ImageInv, MainCollected, writerVars
    <3>5. CauseInv'
      BY <1>0, <1>4, <3>1 DEF VerifyFile, CauseInv, MainCollected, writerVars
    <3>. QED  BY <3>2, <3>4, <3>5 DEF SnapshotInv
  <2>2. CASE ~Unchanged
    <3>1. changes >= attempt
      <4>1. CASE file = "main"
        BY <1>0, <1>4, <2>2, <4>1 DEF VerifyFile, Unchanged, CauseInv, MainCollected
      <4>2. CASE file = "wal"
        BY <1>0, <1>4, <2>2, <4>2 DEF VerifyFile, Unchanged, CauseInv, MainCollected
      <4>. QED  BY <1>0, <4>1, <4>2 DEF TypeOK
    <3>. QED  BY <1>4, <2>2, <3>1, ChangedKeeps DEF VerifyFile
  <2>. QED  BY <2>1, <2>2
<1>5. CASE Fail
  BY <1>0, <1>5 DEF Fail, SnapshotInv, TypeOK, DiskInv, ImageInv, CauseInv, MainCollected,
     writerVars
<1>. QED  BY <1>1, <1>2, <1>3, <1>4, <1>5 DEF Validation

\* How the copy, the files and the number of changes go together, always.
THEOREM SnapshotInvariant == Spec => []SnapshotInv
<1>1. SnapshotInv /\ UNCHANGED vars => SnapshotInv'
  BY DEF vars, writerVars, readerVars, SnapshotInv, TypeOK, DiskInv, ImageInv, CauseInv,
         MainCollected
<1>2. SnapshotInv /\ [Next]_vars => SnapshotInv'
  BY <1>1, WriterKeeps, ValidationKeeps DEF Next
<1>. QED  BY InitSnapshot, <1>2, PTL DEF Spec

\* The types of the files, the copy and the steps of the collection.
THEOREM TypeCorrect == Spec => []TypeOK
BY SnapshotInvariant, PTL DEF SnapshotInv

\* A private copy is the database as a transaction left it during the validation.
THEOREM CopyCommitted == Spec => []CopyIsCommitted
<1>1. SnapshotInv => CopyIsCommitted
  <2>. SUFFICES ASSUME SnapshotInv, step = "copied"
                PROVE  Sound(copied) /\ Content(copied) \in since..committed
    BY DEF CopyIsCommitted
  <2>1. /\ Sound(image) /\ Content(image) \in since..committed
        /\ copied.wal = image.wal /\ copied.main = image.main
    BY DEF SnapshotInv, ImageInv
  <2>. QED  BY <2>1 DEF Sound, Content
<1>. QED  BY <1>1, SnapshotInvariant, PTL

\* A refused database has changed at least as often as it was collected.
THEOREM RefusalCaused == Spec => []RefusalHasCause
BY SnapshotInvariant, PTL DEF SnapshotInv, CauseInv, RefusalHasCause
==============================================================================
