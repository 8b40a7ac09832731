---------------------------- MODULE FileJournal ----------------------------
(***************************************************************************)
(* FileJournal over a disk that may fail at any write and lose power: the  *)
(* journal file with its header and records, the snapshot file, and the    *)
(* offsets the object keeps.  DurableEngine has the journal as a sequence  *)
(* of records and a torn tail; this module is about the bytes under that.  *)
(*                                                                         *)
(* A file is [header, cells].  A record of size n is n cells, each marked  *)
(* with the record it belongs to and its place in it, so that a replay can *)
(* tell a whole record from leftovers, as the length and the CRC do.       *)
(*                                                                         *)
(*   cache      the journal file as reads see it                           *)
(*   media      the journal file as of the last successful flush           *)
(*   snapshot   the last record that the snapshot file covers; 0: no file  *)
(*   linked     the directory as of its last flush: whether it names the   *)
(*              journal, and what the snapshot file that it names covers   *)
(*   handle     open_, torn_, write_offset_ (in cells behind the header;   *)
(*              bytes_ moves with it);                                     *)
(*              stage: where snapshot_locked is; latched: the engine stops *)
(*              using the journal                                          *)
(*   known      the records the engine knows to be in the journal: those   *)
(*              its replay found, and those it appended since              *)
(*   appended   the records whose append returned success                  *)
(*   next       the number of the next record                              *)
(*                                                                         *)
(* open, begin_replay, next_record and end_replay are called in this order *)
(* and nothing comes between, so a replay is one step.                     *)
(***************************************************************************)
EXTENDS Integers, Sequences, Functions

CONSTANTS
  Sizes,            \* the sizes of records, in cells
  MaxRecords,       \* bound on the records written
  MaxRecordBytes,   \* FileJournalOptions::max_record_bytes, in cells
  MaxBytes,         \* FileJournalOptions::max_bytes, in cells behind the header
  RotateFlushFails, \* whether the last flush of a rotation may fail and not latch (a hole
                    \* follows: DurableEngine has what becomes of it, in GapAfterRotation)
  NamesNeedFlush,   \* whether a file system forgets the name of a flushed new file when
                    \* its directory was not flushed
  DirectoryFlushFails  \* whether the flush of the directory, whose result is ignored, may fail

ASSUME JournalAssumption ==
  /\ Sizes \subseteq Nat \ {0} /\ MaxRecords \in Nat
  /\ MaxRecordBytes \in Nat /\ MaxBytes \in Nat
  /\ {RotateFlushFails, NamesNeedFlush, DirectoryFlushFails} \subseteq BOOLEAN

VARIABLES cache, media, snapshot, linked, handle, known, appended, next

vars == <<cache, media, snapshot, linked, handle, known, appended, next>>

NoFile == [header |-> "absent", cells |-> <<>>]
Closed ==
  [open |-> FALSE, torn |-> FALSE, write_offset |-> 0, stage |-> "idle", latched |-> FALSE]

Init ==
  /\ cache = NoFile /\ media = NoFile
  /\ snapshot = 0
  /\ linked = [journal |-> FALSE, snapshot |-> 0]
  /\ handle = Closed
  /\ known = <<>>
  /\ appended = {}
  /\ next = 1

-----------------------------------------------------------------------------
(* Records in cells.                                                       *)

Zero == [record |-> 0, part |-> 0, size |-> 0]

encode(record, size) == [k \in 1..size |-> [record |-> record, part |-> k, size |-> size]]

\* The first m cells of a record go to the file at an offset; a hole is zero.
written(cells, offset, record, m) ==
  [p \in 1..(IF offset + m > Len(cells) THEN offset + m ELSE Len(cells)) |->
     IF p > offset /\ p <= offset + m THEN record[p - offset]
     ELSE IF p <= Len(cells) THEN cells[p] ELSE Zero]

\* next_record's tests of length and CRC, at cell p.
whole_at(cells, p) ==
  /\ cells[p].part = 1
  /\ p + cells[p].size - 1 <= Len(cells)
  /\ \A k \in 1..cells[p].size : cells[p + k - 1] = [cells[p] EXCEPT !.part = k]

\* next_record where the scan is: a whole record is read and passed.
next_record(cells, scan) ==
  LET p == scan.offset + 1 IN
  IF p <= Len(cells) /\ whole_at(cells, p)
  THEN [records |-> Append(scan.records, cells[p].record), offset |-> scan.offset + cells[p].size]
  ELSE scan

\* next_record until it finds no record: what it found, and where it stopped.
replay(cells) ==
  LET after[n \in 0..Len(cells)] ==
        IF n = 0 THEN [records |-> <<>>, offset |-> 0] ELSE next_record(cells, after[n - 1])
  IN  after[Len(cells)]

-----------------------------------------------------------------------------
(* open and the replay.                                                    *)

\* The header of a new file is written and flushed; its directory is not.
Create ==
  /\ ~handle.open /\ cache.header = "absent"
  /\ cache' = [header |-> "whole", cells |-> <<>>] /\ media' = cache'
  /\ handle' = [Closed EXCEPT !.open = TRUE]
  /\ known' = <<>>
  /\ UNCHANGED <<snapshot, linked, appended, next>>

CreateFails ==
  /\ ~handle.open /\ cache.header = "absent"
  /\ cache' \in {[header |-> h, cells |-> <<>>] : h \in {"partial", "whole"}}
  /\ UNCHANGED <<media, snapshot, linked, handle, known, appended, next>>

\* A file with its header: replay, and end_replay cuts off a torn tail.
Open ==
  LET found == replay(cache.cells)
      torn  == found.offset # Len(cache.cells)
  IN  /\ ~handle.open /\ cache.header = "whole"
      /\ handle' = [Closed EXCEPT !.open = TRUE, !.torn = torn, !.write_offset = found.offset]
      /\ known' = found.records
      /\ cache' = [cache EXCEPT !.cells = SubSeq(@, 1, found.offset)]
      /\ UNCHANGED <<media, snapshot, linked, appended, next>>

-----------------------------------------------------------------------------
(* append, write_snapshot and rotate.                                      *)

At(stage) == handle.open /\ ~handle.latched /\ handle.stage = stage

\* Mutant: the offset moves although the flush has failed.
failed_offset_moved(size) == handle.write_offset + size

\* write_offset_ after an append that failed.
failed_offset(size) == handle.write_offset

\* The file on the medium after a durable_flush that succeeds.
durable_flush(file) == file

\* Mutant: the budget is compared before the record is counted.
fits_before(size) == size <= MaxRecordBytes /\ handle.write_offset <= MaxBytes

\* append's refusals of a record that is too long and of one that exceeds the budget.
fits(size) == size <= MaxRecordBytes /\ handle.write_offset + size <= MaxBytes

\* A record of the engine, or (stage "append") the first call of snapshot_locked.
append(size, stage) ==
  /\ At("idle") /\ ~handle.torn /\ fits(size) /\ next <= MaxRecords
  /\ cache' = [cache EXCEPT !.cells = written(@, handle.write_offset, encode(next, size), size)]
  /\ media' = durable_flush(cache')
  /\ handle' = [handle EXCEPT !.write_offset = @ + size, !.stage = stage]
  /\ known' = Append(known, next)
  /\ appended' = appended \cup {next}
  /\ next' = next + 1
  /\ UNCHANGED <<snapshot, linked>>

\* The error latches the engine, unless it was the append of snapshot().
AppendFails(size, latches) ==
  /\ At("idle") /\ ~handle.torn /\ fits(size) /\ next <= MaxRecords
  /\ \E m \in 0..size :
       cache' = [cache EXCEPT !.cells = written(@, handle.write_offset, encode(next, size), m)]
  /\ handle' = [handle EXCEPT !.latched = latches, !.write_offset = failed_offset(size)]
  /\ next' = next + 1
  /\ UNCHANGED <<media, snapshot, linked, known, appended>>

\* torn_ refuses every append, and so do the two limits.
AppendRefused(size, latches) ==
  /\ At("idle") /\ (handle.torn \/ ~fits(size))
  /\ handle' = [handle EXCEPT !.latched = latches]
  /\ UNCHANGED <<cache, media, snapshot, linked, known, appended, next>>

\* Mutant: the directory is not flushed behind the rename.
renamed_only == linked

\* What atomic_replace_file leaves of the directory on the medium.
atomic_replace_file == [journal |-> TRUE, snapshot |-> next - 1]

\* A temporary file is written, flushed and renamed over the snapshot.
write_snapshot ==
  /\ At("append")
  /\ snapshot' = next - 1
  /\ linked' \in {atomic_replace_file} \cup (IF DirectoryFlushFails THEN {linked} ELSE {})
  /\ handle' = [handle EXCEPT !.stage = "snapshot"]
  /\ UNCHANGED <<cache, media, known, appended, next>>

\* The process ends between the rename and the flush of the directory.
EndsAfterRename ==
  /\ At("append")
  /\ snapshot' = next - 1
  /\ handle' = Closed
  /\ UNCHANGED <<cache, media, linked, known, appended, next>>

WriteSnapshotFails(latches) ==
  /\ At("append")
  /\ handle' = [handle EXCEPT !.stage = "idle", !.latched = latches]
  /\ UNCHANGED <<cache, media, snapshot, linked, known, appended, next>>

\* Mutant: the file is emptied before its header is written again.
emptied_first == "partial"

\* The header while rewrite_journal_header is at work: the bytes are those it has.
rewrite_journal_header == cache.header

rotate ==
  /\ At("snapshot")
  /\ cache' = [cache EXCEPT !.cells = <<>>] /\ media' = cache'
  /\ handle' = [handle EXCEPT !.write_offset = 0, !.stage = "idle", !.torn = FALSE]
  /\ known' = <<>>
  /\ UNCHANGED <<snapshot, linked, appended, next>>

\* A rotation that fails before its truncation, or after it.
RotateFails(latches) ==
  /\ At("snapshot")
  /\ \/ cache' = [cache EXCEPT !.header = rewrite_journal_header]
     \/ (latches \/ RotateFlushFails) /\ cache' = [cache EXCEPT !.cells = <<>>]
  /\ handle' = [handle EXCEPT !.stage = "idle", !.latched = latches]
  /\ UNCHANGED <<media, snapshot, linked, known, appended, next>>

-----------------------------------------------------------------------------
(* The end of the process and of the power.                                *)

\* close, whose flush may fail, or the process ends: what was written is with the system.
Close ==
  /\ handle.open
  /\ handle' = Closed
  /\ media' \in {media, cache}
  /\ UNCHANGED <<cache, snapshot, linked, known, appended, next>>

\* Cell p on the medium, and once what was written is there too.
Before(old, p) == IF p <= Len(old.cells) THEN old.cells[p] ELSE Zero
After(old, new, p) == IF p <= Len(new.cells) THEN new.cells[p] ELSE Before(old, p)

PartlyWritten(old, new, h, n, lost) ==
  [header |-> h, cells |-> [p \in 1..n |-> IF p \in lost THEN Before(old, p) ELSE After(old, new, p)]]

\* Of what was not flushed each cell is there or not, and so are header and length.
Survivors(old, new) ==
  LET changed == {p \in DOMAIN new.cells : After(old, new, p) # Before(old, p)}
  IN  {file \in {old} \cup {PartlyWritten(old, new, h, n, lost) :
                              h \in {old.header, new.header},
                              n \in {Len(old.cells), Len(new.cells)},
                              lost \in SUBSET changed} :
         file.header = "absent" => file = NoFile}

\* The files that the directory may name after a power failure.
Journals ==
  Survivors(media, cache) \cup (IF NamesNeedFlush /\ ~linked.journal THEN {NoFile} ELSE {})

Snapshots == {linked.snapshot, snapshot}

PowerLoss ==
  /\ cache' \in Journals /\ snapshot' \in Snapshots
  /\ media' = cache'
  /\ linked' = [journal |-> cache'.header # "absent", snapshot |-> snapshot']
  /\ handle' = Closed
  /\ UNCHANGED <<known, appended, next>>

Appends == \E size \in Sizes, stage \in {"idle", "append"} : append(size, stage)

Fails ==
  \E latches \in BOOLEAN :
    \/ \E size \in Sizes : AppendFails(size, latches) \/ AppendRefused(size, latches)
    \/ WriteSnapshotFails(latches)
    \/ RotateFails(latches)

Next ==
  \/ Create \/ CreateFails \/ Open
  \/ Appends \/ write_snapshot \/ rotate \/ Fails
  \/ Close \/ EndsAfterRename \/ PowerLoss

Spec == Init /\ [][Next]_vars

-----------------------------------------------------------------------------
(* Properties.                                                             *)

File == [header : {"absent", "partial", "whole"}, cells : Seq([record : Nat, part : Nat, size : Nat])]

\* The type of the file, of the offsets and of the records.
TypeOK ==
  /\ cache \in File /\ media \in File
  /\ snapshot \in 0..MaxRecords
  /\ linked \in [journal : BOOLEAN, snapshot : 0..MaxRecords]
  /\ handle \in [open : BOOLEAN, torn : BOOLEAN, write_offset : Nat,
                 stage : {"idle", "append", "snapshot"}, latched : BOOLEAN]
  /\ known \in Seq(1..MaxRecords) /\ appended \subseteq 1..MaxRecords
  /\ next \in 1..MaxRecords + 1

(***************************************************************************)
(* An appended record is not lost: whatever a power failure leaves now of  *)
(* the files and of their names, a replay of the journal finds every       *)
(* record whose append returned success and that the snapshot does not     *)
(* cover, and finds them in order (recover skips what it covers).  So a    *)
(* rotation empties the journal only behind a snapshot whose name is on    *)
(* the medium.                                                             *)
(***************************************************************************)
AppendedSurvives ==
  \A file \in Journals, covered \in Snapshots :
    LET found == replay(file.cells).records
        due   == {r \in appended : r > covered}
    IN  /\ due \subseteq Range(found)
        /\ \A j, k \in DOMAIN found :
             j < k /\ {found[j], found[k]} \subseteq due => found[j] < found[k]

(***************************************************************************)
(* What is in the file is what the engine knows to be in it, up to one     *)
(* record at the end, the append of which failed: an append that failed    *)
(* and was overwritten does not come back behind the one that took its     *)
(* place.  A rotation that failed behind its truncation is the exception,  *)
(* and has latched the engine.                                             *)
(***************************************************************************)
FileIsKnown ==
  handle.open /\ ~handle.latched =>
    LET found == replay(cache.cells).records IN
    /\ Len(found) \in {Len(known), Len(known) + 1}
    /\ SubSeq(found, 1, Len(known)) = known

(***************************************************************************)
(* A journal in which a record was ever acknowledged opens again: neither  *)
(* a rotation nor a lost write leaves it without its header.               *)
(***************************************************************************)
HeaderStays ==
  appended # {} => \A file \in Journals : file.header = "whole"

(***************************************************************************)
(* The file stays within its budget, failed appends and torn tails, which  *)
(* leave bytes behind that bytes_ does not count, included.                *)
(***************************************************************************)
GrowthBounded == Len(cache.cells) <= MaxBytes /\ Len(media.cells) <= MaxBytes

-----------------------------------------------------------------------------
(* What the README says and the code does not do.                          *)

(***************************************************************************)
(* Durable growth is bounded by the byte budget, with atomic snapshot      *)
(* rotation (README.md:345): a journal that is in use and at its budget    *)
(* can be rotated.  snapshot_locked appends a record of its own before it  *)
(* rotates, and append refuses it for the same budget.                     *)
(***************************************************************************)
FullCanRotate == At("idle") /\ ~handle.torn => \E size \in Sizes : fits(size)
=============================================================================
