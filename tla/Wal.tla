-------------------------------- MODULE Wal --------------------------------
(* The segmented write-ahead log (storage/src/wal.rs): appends to a buffer,  *)
(* flushes, the roll to a new segment file, truncation, reads by LSN and in  *)
(* order, power loss at any point, and the bootstrap from what is on disk.   *)
(*                                                                           *)
(* A file is a sequence of cells; a record of length n fills n cells, so a   *)
(* torn write is a prefix that ends inside a record.  LSNs count cells.  A   *)
(* call that holds the log's mutex over several I/O steps is one action per  *)
(* step, with io naming the next one; nothing else uses the log meanwhile.   *)
EXTENDS Naturals, FiniteSets, SequencesExt

CONSTANTS
    Txns,           \* transactions that append
    Lengths,        \* lengths a record may have
    SegmentSize,    \* cells at which the active segment is rolled
    MaxLsn,         \* bound: end of the log
    MaxCrashes,     \* bound: crashes
    Faults          \* failures a run lets happen after they have taken effect

ASSUME WalAssumption ==
    /\ Lengths \subseteq Nat \ {0} /\ SegmentSize \in Nat \ {0}
    /\ MaxLsn \in Nat /\ MaxCrashes \in Nat
    /\ Faults \subseteq {"torn write", "write without sync", "roll without header",
                         "header without roll", "kill before power loss"}

VARIABLES
    files,      \* id -> segment file: its header, cells, and how many are synced
    up,         \* is the process running?
    log,        \* LogBufferInner: sealed, active, start, buffer, next, last
    durable,    \* durable_lsn
    io,         \* the I/O step the holder of the mutex makes next, "none" without one
    removing,   \* segment ids that truncate_below has still to remove
    bound,      \* the highest bound given to truncate_below
    refused,    \* the last bootstrap returned an error
    crashes     \* crashes so far

vars == <<files, up, log, durable, io, removing, bound, refused, crashes>>
disk == <<files, removing>>

HeaderLen == 1      \* HEADER_LEN: the LSN of the first record

(* prev is 0 for None.                                                       *)
Record == [lsn : HeaderLen .. MaxLsn, prev : 0 .. MaxLsn, txn : Txns, len : Lengths]

(* encode_record and decode_record: a record decodes if all of it is there.  *)
Encode(r) == [i \in 1 .. r.len |-> [rec |-> r, part |-> i]]

Decode(cells, pos) ==
    IF /\ pos \in DOMAIN cells /\ cells[pos].part = 1
       /\ pos + cells[pos].rec.len - 1 \in DOMAIN cells
       /\ SubSeq(cells, pos, pos + cells[pos].rec.len - 1) = Encode(cells[pos].rec)
    THEN {cells[pos].rec}
    ELSE {}

Only(S) == CHOOSE x \in S : TRUE

(* The records from the beginning to the first that does not decode.         *)
Records(cells) ==
    LET from[pos \in 1 .. Len(cells) + 1] ==
            LET found == Decode(cells, pos) IN
            IF found = {} THEN <<>> ELSE <<Only(found)>> \o from[pos + Only(found).len]
    IN from[1]

Width(recs) == FoldLeft(LAMBDA sum, r : sum + r.len, 0, recs)

(* A file whose header has not been written has no start LSN.                *)
NewFile == [start |-> {}, cells |-> <<>>, synced |-> 0]

Headed(lsn) == [start |-> {lsn}, cells |-> <<>>, synced |-> 0]

Put(id, f) == [x \in DOMAIN files \cup {id} |-> IF x = id THEN f ELSE files[x]]
Drop(ids) == [x \in DOMAIN files \ ids |-> files[x]]

Segment(id, start) == [id |-> id, start |-> start]

Active == files[log.active]

(* The last LSN of every transaction among some records, over earlier ones.  *)
LastLsns(last, recs) ==
    [t \in Txns |->
        LET mine == SelectSeq(recs, LAMBDA r : r.txn = t)
        IN IF mine = <<>> THEN last[t] ELSE Last(mine).lsn]

NoLsns == [t \in Txns |-> 0]

Fresh == [sealed |-> <<>>, active |-> 0, start |-> HeaderLen, buffer |-> <<>>,
          next |-> HeaderLen, last |-> NoLsns]

Init ==
    /\ files = [id \in {0} |-> Headed(HeaderLen)]
    /\ up = TRUE
    /\ log = Fresh
    /\ durable = HeaderLen
    /\ io = "none"
    /\ removing = <<>>
    /\ bound = HeaderLen
    /\ refused = FALSE
    /\ crashes = 0

Unlocked == up /\ io = "none"

(* The log as its users should see it: the records of the sealed segments,   *)
(* the durable part of the active one, and the buffer; without a process,    *)
(* what can be read from the files.                                          *)
SegmentRecords(ids) == FlattenSeq([i \in DOMAIN ids |-> Records(files[ids[i]].cells)])

Contents ==
    IF up THEN SegmentRecords([i \in DOMAIN log.sealed |-> log.sealed[i].id])
               \o Records(SubSeq(Active.cells, 1, durable - log.start))
               \o Records(log.buffer)
    ELSE SegmentRecords(SetToSortSeq(DOMAIN files, <))

-----------------------------------------------------------------------------
(* append and flush.                                                         *)

Append1(t, n) ==
    LET r == [lsn |-> log.next, prev |-> log.last[t], txn |-> t, len |-> n] IN
    /\ Unlocked
    /\ log.next + n <= MaxLsn
    /\ log' = [log EXCEPT !.buffer = @ \o Encode(r), !.next = @ + n, !.last[t] = r.lsn]
    /\ UNCHANGED <<disk, up, durable, io, bound, refused, crashes>>

(* flush writes the whole buffer after the end of the active file, whatever  *)
(* LSN it was asked for; if that is durable already it returns at once.  The *)
(* buffer may be empty: flush_all lets go of the mutex before it calls flush *)
(* with next_lsn.  A write that fails before it wrote anything is no step.   *)
Written ==
    {Len(log.buffer)} \cup (IF "torn write" \in Faults THEN 1 .. Len(log.buffer) ELSE {})

FlushWrite ==
    /\ Unlocked
    /\ \E n \in Written :
        /\ files' = [files EXCEPT ![log.active].cells = @ \o SubSeq(log.buffer, 1, n)]
        /\ io' = IF n = Len(log.buffer) THEN "sync" ELSE "none"
    /\ UNCHANGED <<up, log, durable, removing, bound, refused, crashes>>

Oversized == Len(Active.cells) >= SegmentSize

(* Mutant of SyncedLength: sync_all is called before the buffer is written.  *)
SyncedBefore == Len(Active.cells) - Len(log.buffer)
SyncedLength == Len(Active.cells)

FlushSync ==
    /\ io = "sync"
    /\ \E ok \in {TRUE} \cup (IF "write without sync" \in Faults THEN {FALSE} ELSE {}) :
        IF ok
        THEN /\ files' = [files EXCEPT ![log.active].synced = SyncedLength]
             /\ log' = [log EXCEPT !.buffer = <<>>]
             /\ durable' = log.next
             /\ io' = IF Oversized THEN "roll" ELSE "none"
        ELSE /\ io' = "none"
             /\ UNCHANGED <<files, log, durable>>
    /\ UNCHANGED <<up, removing, bound, refused, crashes>>

(* roll_segment: the new file is created, or is left over from an earlier    *)
(* attempt; an error is only logged, and the next flush tries again.         *)
RollOpen ==
    LET id == log.active + 1 IN
    /\ io = "roll"
    /\ files' = IF id \in DOMAIN files THEN files ELSE Put(id, NewFile)
    /\ io' = "header"
    /\ UNCHANGED <<up, log, durable, removing, bound, refused, crashes>>

RollFails ==
    /\ io = "roll"
    /\ io' = "none"
    /\ UNCHANGED <<disk, up, log, durable, bound, refused, crashes>>

RollStart == log.next

RollHeader ==
    LET id == log.active + 1 IN
    /\ io = "header"
    /\ io' = "none"
    /\ \E end \in {"done"} \cup (Faults \cap {"roll without header", "header without roll"}) :
        /\ files' = IF end = "roll without header" THEN files ELSE Put(id, Headed(RollStart))
        /\ log' = IF end # "done" THEN log
                  ELSE [log EXCEPT !.sealed = Append(@, Segment(log.active, log.start)),
                                   !.active = id, !.start = RollStart]
    /\ UNCHANGED <<up, durable, removing, bound, refused, crashes>>

-----------------------------------------------------------------------------
(* truncate_below: whole sealed segments that end at or below the bound are  *)
(* forgotten under the mutex and their files removed after it, lowest first. *)

SegmentEnd(i) == IF i < Len(log.sealed) THEN log.sealed[i + 1].start ELSE log.start

Removable(b) == {i \in DOMAIN log.sealed : SegmentEnd(i) <= b}

(* The checkpointer asks for LSNs of durable records, and never for less.    *)
Bounds == {r.lsn : r \in Range(Contents)} \cap bound + 1 .. durable

Kept(from) == SubSeq(log.sealed, from, Len(log.sealed))

TruncateBelow(b) ==
    LET keepFrom == Cardinality(Removable(b)) + 1 IN
    /\ Unlocked /\ removing = <<>>
    /\ bound' = b
    /\ removing' = [i \in 1 .. keepFrom - 1 |-> log.sealed[i].id]
    /\ log' = [log EXCEPT !.sealed = Kept(keepFrom)]
    /\ UNCHANGED <<files, up, durable, io, refused, crashes>>

RemoveFile ==
    /\ up /\ removing # <<>>
    /\ files' = Drop({Head(removing)})
    /\ removing' = Tail(removing)
    /\ UNCHANGED <<up, log, durable, io, bound, refused, crashes>>

(* The first file that cannot be removed ends the call.                      *)
RemoveFails ==
    /\ up /\ removing # <<>>
    /\ removing' = <<>>
    /\ UNCHANGED <<files, up, log, durable, io, bound, refused, crashes>>

-----------------------------------------------------------------------------
(* A power loss takes the memory, some end of what the active file was not   *)
(* synced for, and perhaps a file that never had a header.  What is left is  *)
(* on the medium.  If only the process is killed, the unsynced cells stay    *)
(* and are still unsynced.                                                   *)

Survivors ==
    {[id \in DOMAIN files \ gone |->
        IF id = log.active THEN [files[id] EXCEPT !.cells = SubSeq(@, 1, n), !.synced = n]
                           ELSE files[id]]
        : n \in Active.synced .. Len(Active.cells),
          gone \in SUBSET {id \in DOMAIN files : files[id].start = {}}}

Crash ==
    /\ up /\ crashes < MaxCrashes
    /\ files' \in Survivors \cup (IF "kill before power loss" \in Faults THEN {files} ELSE {})
    /\ up' = FALSE
    /\ crashes' = crashes + 1
    /\ log' = Fresh /\ io' = "none" /\ removing' = <<>>
    /\ UNCHANGED <<durable, bound, refused>>

(* bootstrap: the segments in the order of their ids, the highest is active. *)

Ids == SetToSortSeq(DOMAIN files, <)
ActiveId == Last(Ids)
SealedIds == Front(Ids)

StartOf(id) == Only(files[id].start)
EndOf(id) == StartOf(id) + Width(Records(files[id].cells))

SealedReadable(id) ==
    files[id].start # {} /\ Width(Records(files[id].cells)) = Len(files[id].cells)

(* Mutant of MustDecode: a torn end of the active segment is refused too.    *)
AllMustDecode == Range(Ids)
MustDecode == Range(SealedIds)

BootStart ==
    IF files[ActiveId].start # {} THEN StartOf(ActiveId)
    ELSE IF SealedIds = <<>> THEN HeaderLen
    ELSE EndOf(Last(SealedIds))

(* Mutant of BootRecords: only the active segment is scanned for last LSNs.  *)
ActiveRecords == Records(files[ActiveId].cells)
BootRecords == SegmentRecords(Ids)

Bootstrap ==
    LET f == files[ActiveId]
        size == Width(Records(f.cells))
    IN
    /\ ~up /\ ~refused
    /\ IF \A id \in MustDecode : SealedReadable(id)
       THEN /\ files' = [files EXCEPT ![ActiveId] =
                            [start |-> {BootStart}, cells |-> SubSeq(f.cells, 1, size),
                             synced |-> IF f.synced < size THEN f.synced ELSE size]]
            /\ log' = [sealed |-> [i \in DOMAIN SealedIds |->
                                        Segment(SealedIds[i], StartOf(SealedIds[i]))],
                       active |-> ActiveId, start |-> BootStart, buffer |-> <<>>,
                       next |-> BootStart + size, last |-> LastLsns(NoLsns, BootRecords)]
            /\ durable' = BootStart + size
            /\ up' = TRUE
            /\ UNCHANGED refused
       ELSE /\ refused' = TRUE
            /\ UNCHANGED <<files, log, durable, up>>
    /\ UNCHANGED <<io, removing, bound, crashes>>

-----------------------------------------------------------------------------
(* Reads: read_at and iter_from, which hold the mutex.                       *)

(* Mutant of HoldsLsn: a segment does not hold the record at its start.      *)
StartsBelow(i, lsn) == log.sealed[i].start < lsn
HoldsLsn(i, lsn) == log.sealed[i].start <= lsn

ReadAt(lsn) ==
    LET at == {i \in DOMAIN log.sealed : HoldsLsn(i, lsn)}
        seg == log.sealed[Cardinality(at)]
    IN IF lsn >= durable THEN Decode(log.buffer, lsn - durable + 1)
       ELSE IF lsn >= log.start THEN Decode(Active.cells, lsn - log.start + 1)
       ELSE IF at = {} THEN {}
       ELSE Decode(files[seg.id].cells, lsn - seg.start + 1)

IterFrom(lsn) ==
    LET at == {i \in DOMAIN log.sealed : HoldsLsn(i, lsn)}
        first == IF at = {} THEN 1 ELSE Cardinality(at)
        pending == SubSeq(log.sealed, first, Len(log.sealed))
        read == SegmentRecords([i \in DOMAIN pending |-> pending[i].id])
    IN SelectSeq(read \o Records(Active.cells \o log.buffer), LAMBDA r : r.lsn >= lsn)

(* Between calls, and when the last bootstrap was refused, all may rest.     *)
Quiescent == (Unlocked \/ ~up) /\ UNCHANGED vars

Next ==
    \/ \E t \in Txns, n \in Lengths : Append1(t, n)
    \/ FlushWrite \/ FlushSync \/ RollOpen \/ RollFails \/ RollHeader
    \/ \E b \in Bounds : TruncateBelow(b)
    \/ RemoveFile \/ RemoveFails
    \/ Crash \/ Bootstrap
    \/ Quiescent

Spec == Init /\ [][Next]_vars

-----------------------------------------------------------------------------
(* Properties.                                                               *)

(* Every variable has its type.                                              *)
TypeOK ==
    /\ \A id \in DOMAIN files : /\ files[id].start \subseteq HeaderLen .. MaxLsn
                                /\ files[id].synced \in 0 .. Len(files[id].cells)
    /\ up \in BOOLEAN /\ refused \in BOOLEAN /\ crashes \in 0 .. MaxCrashes
    /\ log.next \in HeaderLen .. MaxLsn /\ log.start \in HeaderLen .. log.next
    /\ \A i \in DOMAIN log.sealed : log.sealed[i].id \in DOMAIN files
    /\ up => log.active \in DOMAIN files
    /\ durable \in HeaderLen .. MaxLsn /\ bound \in HeaderLen .. durable
    /\ io \in {"none", "sync", "roll", "header"}
    /\ Range(removing) \subseteq DOMAIN files

(* The files, the buffer and durable_lsn together implement the log that the *)
(* rest of the engine relies on: records keep their LSNs and their order,    *)
(* nothing below durable_lsn is lost in a crash at any step of a flush, roll *)
(* or truncation, and truncate_below takes nothing at or above its bound.    *)
Abstract == INSTANCE DurableLog WITH
    Record <- Record, First <- HeaderLen,
    records <- SelectSeq(Contents, LAMBDA r : r.lsn >= bound),
    low <- bound, hard <- durable

ImplementsDurableLog == Abstract!DSpec

(* read_at finds every record of the log at its own LSN, in the buffer, the  *)
(* active or a sealed segment, and iter_from returns all records from an LSN *)
(* on, in order, wherever segments were rolled or truncated (wal.MD: it must *)
(* never read less of the log than asked for).                               *)
ReadsAgree ==
    LET all == Contents IN
    Unlocked =>
        /\ \A r \in Range(all) : ReadAt(r.lsn) = {r}
        /\ \A lsn \in HeaderLen .. log.next :
                IterFrom(lsn) = SelectSeq(all, LAMBDA r : r.lsn >= lsn)

(* Two consecutive records of a transaction at or above the truncation bound *)
(* are linked by prev_lsn, also when a restart or a truncation came between: *)
(* undo walks this chain.  Below the bound it does not hold: a file that     *)
(* truncate_below failed to remove is adopted by the next bootstrap, and the *)
(* segment after it may be gone.                                             *)
ChainsUnbroken ==
    LET all == SelectSeq(Contents, LAMBDA r : r.lsn >= bound) IN
    \A i, j \in DOMAIN all :
        /\ i < j /\ all[i].txn = all[j].txn
        /\ \A k \in i + 1 .. j - 1 : all[k].txn # all[j].txn
        => all[j].prev = all[i].lsn

(* The database opens again: bootstrap never finds a sealed segment that     *)
(* does not decode to its end, wherever the power loss came.                 *)
NeverRefused == TypeOK /\ ~refused
=============================================================================
