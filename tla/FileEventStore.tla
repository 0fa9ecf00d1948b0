--------------------------- MODULE FileEventStore ---------------------------
(***************************************************************************)
(* The file event store: a header followed by batches of records, kept in  *)
(* memory as well. It is appended to, flushed, replaced as a whole by      *)
(* retention and by recovery, and scanned when it is opened again after    *)
(* the process stopped, a write failed or the power was lost.              *)
(*                                                                         *)
(* The disk. A file is a header and batches, whole or Damaged (torn, or    *)
(* failing their checksum), the first synced of which are on stable        *)
(* storage. When the process stops, what was written stays. When the power *)
(* is lost, each of the other batches is kept, damaged or, with all that   *)
(* follow, missing; and the path may lead again to a file in displaced,    *)
(* whose creation or replacement was not yet durable. A write that is cut  *)
(* short leaves the beginning of a batch; a power loss may also leave one  *)
(* whose magic is there and whose other header fields are not, which the   *)
(* scan tells from a torn tail (garbled). A replacement is                 *)
(* written, flushed and checked under another name before it is renamed:   *)
(* its records are one batch here, and a failure before the rename, which  *)
(* changes nothing, is left out.                                           *)
(***************************************************************************)
EXTENDS Replay, Integers

CONSTANTS
  Bodies,       \* what hosts append, checkpoints aside
  NameWithFile, \* TRUE iff fsync of a file makes its name durable as well
  MaxBatch,     \* EventLimits::maxRecordsPerBatch
  MaxRecords,   \* bound: the last sequence number appends use (2^64 - 1)
  MaxStops      \* bound: process stops and power losses

ASSUME BoundAssumption ==
  /\ NameWithFile \in BOOLEAN
  /\ MaxBatch \in Nat \ {0}
  /\ MaxRecords \in Nat
  /\ MaxStops \in Nat

VARIABLES
  file,        \* what the path leads to
  displaced,   \* the files a power loss may bring back
  garbled,     \* the first damaged batch has its magic, no valid header fields
  status,      \* of the store object
  records, nextSequence, faulted,
  lineage,     \* every record of the session, by sequence number
  durable,     \* how many of them are promised to survive
  exposed,     \* the most batches a power loss could damage so far
  stops

disk == <<file, displaced, garbled>>
memory == <<records, nextSequence, faulted>>
ghost == <<lineage, durable>>
bounds == <<exposed, stops>>
vars == <<disk, status, memory, ghost, bounds>>

\* The header is absent, torn, written or whole (written and flushed).
Absent == [header |-> "absent", generation |-> 1, batches |-> <<>>, synced |-> 0]

\* A torn batch, or one that fails its checksum. The empty sequence stands for
\* it, since no batch is written without records.
Damaged == <<>>

Decodes(f) == f.header \in {"written", "whole"}

\* f once fsync has returned, and the files the path may still fall back to.
Synced(f) == [f EXCEPT !.header = "whole", !.synced = Len(f.batches)]
NotDurable(files) == IF NameWithFile THEN {} ELSE files

\* The records of a sequence of whole batches.
Flatten(batches) ==
  LET upTo[n \in 0..Len(batches)] ==
        IF n = 0 THEN <<>> ELSE upTo[n - 1] \o batches[n]
  IN upTo[Len(batches)]

-----------------------------------------------------------------------------
(* The scan *)

\* The number of batches before the first damaged one.
Valid(batches) ==
  CHOOSE n \in 0..Len(batches) :
    /\ \A i \in 1..n : batches[i] # Damaged
    /\ n < Len(batches) => batches[n + 1] = Damaged

\* The records scan_batches returns.
Readable(batches) == Flatten(SubSeq(batches, 1, Valid(batches)))

\* Mutant of MidFileCorruption: any damage is a hard error.
AnyCorruption(batches) == Valid(batches) < Len(batches)

\* A checksum failure is only recoverable in the tail: no whole batch follows.
MidFileCorruption(batches) ==
  \E i \in (Valid(batches) + 1)..Len(batches) : batches[i] # Damaged

\* No batch starts with another number than the one that is expected.
Gapless(all) ==
  \A i \in 1..(Len(all) - 1) : all[i + 1].sequence = all[i].sequence + 1

\* The first batch that is not valid is refused for its version, flags, count
\* or payload size, which the scan checks before the checksum: a hard error,
\* whatever follows.
HeaderFailure == garbled /\ Valid(file.batches) < Len(file.batches)

\* The scan ends in records, or in records and a tail that can be dropped.
Scans ==
  /\ ~HeaderFailure
  /\ ~MidFileCorruption(file.batches)
  /\ Gapless(Readable(file.batches))

\* Mutant of After: numbers are counted from the first retained record.
AfterCount(all) == Len(all) + 1

\* nextSequence of a store that has these records.
After(all) == IF all = <<>> THEN 1 ELSE all[Len(all)].sequence + 1

-----------------------------------------------------------------------------
(* Opening *)

Load(all) ==
  /\ records' = all
  /\ nextSequence' = After(all)
  /\ faulted' = FALSE

\* The file is empty: the header is written and flushed.
Create ==
  /\ status = "closed"
  /\ file.header = "absent"
  /\ file' = [file EXCEPT !.header = "whole"]
  /\ displaced' = NotDurable(displaced \cup {file})
  /\ status' = "open"
  /\ Load(<<>>)
  /\ UNCHANGED <<garbled, ghost, bounds>>

\* Writing or flushing the header fails, or the process stops meanwhile.
CreateFails ==
  /\ status = "closed"
  /\ file.header = "absent"
  /\ \E header \in {"torn", "written"} : file' = [file EXCEPT !.header = header]
  /\ displaced' = displaced \cup {file}
  /\ UNCHANGED <<garbled, status, memory, ghost, bounds>>

\* load_existing with nothing to repair.
Open ==
  /\ status = "closed"
  /\ Decodes(file)
  /\ Scans
  /\ Valid(file.batches) = Len(file.batches)
  /\ Load(Readable(file.batches))
  /\ status' = "open"
  /\ UNCHANGED <<disk, ghost, bounds>>

\* A torn file header, a batch header of garbage, corruption before the tail or
\* a gap: a hard error.
Refuse ==
  /\ status = "closed"
  /\ file.header = "torn" \/ ~Scans
  /\ status' = "refused"
  /\ UNCHANGED <<disk, memory, ghost, bounds>>

\* install_replacement up to the flush of the directory: the path leads to
\* the flushed replacement, and the memory holds what is in it.
Install(all, generation) ==
  /\ file' = [header |-> "whole", generation |-> generation,
              batches |-> <<all>>, synced |-> 1]
  /\ displaced' = displaced \cup {file}
  /\ garbled' = FALSE
  /\ records' = all
  /\ nextSequence' = After(all)

Record(sequence, body) == [sequence |-> sequence, body |-> body]

\* load_existing with writableRecovery: a damaged tail is dropped and a
\* recovery record takes its place, in a replacement file.
Recover ==
  LET valid == Readable(file.batches)
      recovery == Record(After(valid), [kind |-> "Recovery"])
  IN
  /\ status = "closed"
  /\ Decodes(file)
  /\ Scans
  /\ Valid(file.batches) < Len(file.batches)
  /\ Install(Append(valid, recovery), file.generation)
  /\ faulted' = FALSE
  /\ status' = "recovering"
  /\ lineage' = Append(lineage, recovery)
  /\ UNCHANGED <<durable, bounds>>

-----------------------------------------------------------------------------
(* Appending *)

Usable == status = "open" /\ ~faulted

\* The records append_many prepares.
Prepared(events) ==
  [i \in 1..Len(events) |-> Record(nextSequence + i - 1, events[i])]

Accepts(events) == nextSequence + Len(events) - 1 <= MaxRecords

\* append_many has written the batch and, if asked to, flushed it.
Written(events, flushed) ==
  LET batch == Prepared(events)
      grown == [file EXCEPT !.batches = Append(@, batch)]
  IN
  /\ Usable
  /\ Accepts(events)
  /\ file' = IF flushed THEN Synced(grown) ELSE grown
  /\ displaced' = IF flushed THEN NotDurable(displaced) ELSE displaced
  /\ records' = records \o batch
  /\ nextSequence' = nextSequence + Len(events)
  /\ lineage' = lineage \o batch
  /\ durable' = IF flushed THEN Len(lineage') ELSE durable
  /\ UNCHANGED <<garbled, status, faulted, bounds>>

\* EventStore::checkpoint: a host passes the projection of what it has read,
\* or one that is not; the append does not compare it.
Batches == UNION {[1..n -> Bodies] : n \in 1..MaxBatch}
Checkpoints ==
  {<<[kind |-> "Checkpoint", state |-> state]>> :
     state \in {Project(records), [Start EXCEPT !.position = nextSequence - 1]}
               \ {Fail}}

AppendBatch == \E events \in Batches, flushed \in BOOLEAN : Written(events, flushed)
Checkpoint ==
  \E events \in Checkpoints, flushed \in BOOLEAN : Written(events, flushed)

\* Mutant of AppendThrows: the store goes on after a failed write.
AppendThrowsOnly ==
  \E events \in Batches \cup Checkpoints :
    /\ Usable
    /\ Accepts(events)
    /\ file' = [file EXCEPT !.batches = Append(@, Damaged)]
    /\ UNCHANGED <<displaced, garbled, status, memory, ghost, bounds>>

\* The write is cut short, or the flush after it fails: the batch may be on
\* the file, and the store refuses all further use.
AppendThrows ==
  \E events \in Batches \cup Checkpoints :
    /\ Usable
    /\ Accepts(events)
    /\ \/ /\ file' = [file EXCEPT !.batches = Append(@, Damaged)]
          /\ UNCHANGED lineage
       \/ /\ file' = [file EXCEPT !.batches = Append(@, Prepared(events))]
          /\ lineage' = lineage \o Prepared(events)
    /\ faulted' = TRUE
    /\ UNCHANGED <<displaced, garbled, status, records, nextSequence, durable, bounds>>

\* Mutant of Flush: nothing is forced to the disk.
FlushNothing ==
  /\ Usable
  /\ durable' = Len(lineage)
  /\ UNCHANGED <<disk, status, memory, lineage, bounds>>

Flush ==
  /\ Usable
  /\ file' = Synced(file)
  /\ displaced' = NotDurable(displaced)
  /\ durable' = Len(lineage)
  /\ UNCHANGED <<garbled, status, memory, lineage, bounds>>

FlushThrows ==
  /\ Usable
  /\ faulted' = TRUE
  /\ UNCHANGED <<disk, status, records, nextSequence, ghost, bounds>>

-----------------------------------------------------------------------------
(* Retention *)

\* Mutant of Verified: any checkpoint will do.
AnyCheckpoint(n) == IsCheckpoint(records[n])

\* The n-th record is a checkpoint that replay accepts.
Verified(n) ==
  /\ IsCheckpoint(records[n])
  /\ Anchored(records[n])
  /\ Project(SubSeq(records, 1, n)) # Fail

\* retain_from_checkpoint: the records from the checkpoint on, and a record of
\* what was pruned, in a file of the next generation.
Retain(n) ==
  LET pruned == IF n = 1 THEN <<0, 0>>
                ELSE <<records[1].sequence, records[n].sequence - 1>>
      retention == Record(nextSequence,
                          [kind |-> "Retention", pruned |-> pruned,
                           checkpoint |-> records[n].sequence])
  IN
  /\ Usable
  /\ Verified(n)
  /\ nextSequence <= MaxRecords
  /\ Install(Append(SubSeq(records, n, Len(records)), retention),
             file.generation + 1)
  /\ status' = "retaining"
  /\ lineage' = Append(lineage, retention)
  /\ UNCHANGED <<faulted, durable, bounds>>

\* flush_parent_directory: the replacement is there to stay.
DirectoryFlushed ==
  /\ status \in {"recovering", "retaining"}
  /\ status' = "open"
  /\ displaced' = {}
  /\ durable' = Len(lineage)
  /\ UNCHANGED <<file, garbled, memory, lineage, bounds>>

\* It throws: the constructor fails, retention leaves a faulted store.
DirectoryFlushThrows ==
  /\ status \in {"recovering", "retaining"}
  /\ status' = IF status = "recovering" THEN "closed" ELSE "open"
  /\ faulted' = TRUE
  /\ UNCHANGED <<disk, records, nextSequence, ghost, bounds>>

-----------------------------------------------------------------------------
(* Stops *)

Gone == records' = <<>> /\ nextSequence' = 1 /\ faulted' = FALSE

\* The process stops or the store is destroyed: the file stays as written.
Stop ==
  /\ stops < MaxStops
  /\ stops' = stops + 1
  /\ status \in {"open", "recovering", "retaining"}
  /\ status' = "closed"
  /\ Gone
  /\ UNCHANGED <<disk, ghost, exposed>>

\* The batches a power loss can leave of those of f.
SurvivingBatches(f) ==
  LET Left(i, left) == left = f.batches[i] \/ (i > f.synced /\ left = Damaged)
  IN UNION {{b \in [1..m -> {f.batches[i] : i \in 1..m} \cup {Damaged}] :
               \A i \in 1..m : Left(i, b[i])} :
            m \in f.synced..Len(f.batches)}

\* The files it can leave of f, all of it on stable storage.
Survivors(f) ==
  LET kept == {[f EXCEPT !.header = "whole", !.batches = b, !.synced = Len(b)] :
                 b \in SurvivingBatches(f)}
      unreadable == {[Absent EXCEPT !.header = h] : h \in {"absent", "torn"}}
  IN CASE f.header = "whole" -> kept
       [] f.header = "written" -> kept \cup unreadable
       [] OTHER -> unreadable

\* Whether a power loss that leaves these batches of f can leave the first
\* damaged one with its magic and garbage behind it: it was not on stable
\* storage before.
MayGarble(f, batches) ==
  f.synced <= Valid(batches) /\ Valid(batches) < Len(batches)

LargerOf(m, n) == IF m < n THEN n ELSE m

PowerLoss ==
  /\ stops < MaxStops
  /\ stops' = stops + 1
  /\ status # "refused"
  /\ \E f \in {file} \cup displaced : \E left \in Survivors(f) :
       /\ file' = left
       /\ lineage' = SubSeq(lineage, 1, After(Readable(left.batches)) - 1)
       /\ \E g \in {FALSE, MayGarble(f, left.batches)} : garbled' = (garbled \/ g)
       /\ exposed' = LargerOf(exposed, Len(f.batches) - f.synced)
  /\ displaced' = {}
  /\ status' = "closed"
  /\ Gone
  /\ UNCHANGED durable

-----------------------------------------------------------------------------
(* Specification *)

Init ==
  /\ file = Absent
  /\ displaced = {}
  /\ garbled = FALSE
  /\ status = "closed"
  /\ records = <<>>
  /\ nextSequence = 1
  /\ faulted = FALSE
  /\ lineage = <<>>
  /\ durable = 0
  /\ exposed = 0
  /\ stops = 0

Next ==
  \/ Create
  \/ CreateFails
  \/ Open
  \/ Refuse
  \/ Recover
  \/ AppendBatch
  \/ AppendThrows
  \/ Checkpoint
  \/ Flush
  \/ FlushThrows
  \/ \E n \in DOMAIN records : Retain(n)
  \/ DirectoryFlushed
  \/ DirectoryFlushThrows
  \/ Stop
  \/ PowerLoss

Spec == Init /\ [][Next]_vars

-----------------------------------------------------------------------------
(* Properties *)

\* The file, the memory of the store and the promised log keep their types:
\* numbers count from one and no more batches are synced than are there.
TypeOK ==
  /\ \A f \in {file} \cup displaced :
       /\ f.header \in {"absent", "torn", "written", "whole"}
       /\ f.generation \in Nat \ {0}
       /\ f.synced \in 0..Len(f.batches)
  /\ garbled \in BOOLEAN
  /\ status \in {"closed", "open", "refused", "recovering", "retaining"}
  /\ nextSequence \in Nat \ {0}
  /\ faulted \in BOOLEAN
  /\ durable \in Nat
  /\ stops \in 0..MaxStops

\* What was flushed survives process stops, failed writes, power losses,
\* recoveries and retentions: a scan yields exactly the session's records from
\* the first retained one on, all that were promised among them, and each
\* under the number it was given.
FlushedSurvives ==
  LET all == Readable(file.batches)
  IN
  /\ durable <= Len(lineage)
  /\ all = <<>> => lineage = <<>>
  /\ all # <<>> => all = SubSeq(lineage, all[1].sequence, Len(lineage))

\* An open store that is not faulted answers from memory what a scan of its
\* file would find, and appends behind it: it never writes after a torn batch.
MemoryMatchesFile ==
  status \in {"open", "recovering", "retaining"} /\ ~faulted =>
    /\ Valid(file.batches) = Len(file.batches)
    /\ records = Readable(file.batches)
    /\ nextSequence = Len(lineage) + 1

\* The store and its file are consistent after every step: well formed, and the
\* memory of an open store is what its file holds.
Consistent == TypeOK /\ MemoryMatchesFile

\* Retention never changes what replay makes of the session: the retained
\* records project to what the whole history projects to, and a checkpoint
\* that replay rejects is not made the start of the log.
RetentionKeepsProjection ==
  Project(Readable(file.batches)) = Project(lineage)

\* The store refuses to open only if nothing had been promised, or the power was
\* lost with several batches unflushed, or with one that it left with its magic
\* and a garbage header. A torn or corrupted last batch, a write cut short, an
\* interrupted recovery and an interrupted retention never lock the session;
\* and without a batch that was not flushed nothing does.
RefusesOnlyUnflushed ==
  status = "refused" =>
    \/ durable = 0
    \/ exposed > 1
    \/ exposed = 1 /\ HeaderFailure

\* The file store is an event store: every step extends the log, promises it,
\* or loses a suffix that was not promised.
Promise == INSTANCE EventStore WITH log <- lineage
IsEventStore == Promise!Spec
=============================================================================
