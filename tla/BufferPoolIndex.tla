-------------------------- MODULE BufferPoolIndex ---------------------------
(***************************************************************************)
(* IInv is kept by every step of BufferPool: first the steps that leave    *)
(* the page table, the pages of the frames and the pins as they are, with  *)
(* the flush, its failures, a crash and the recovery after it; then those  *)
(* that change the page table, the pages of the frames, who owns them or   *)
(* the pins.                                                               *)
(***************************************************************************)
EXTENDS BufferPoolLemmas

-----------------------------------------------------------------------------
(* Steps of one thread that leave the index alone. *)

LEMMA QuietStep ==
    ASSUME IInv, NEW t \in Threads, Quiet, Others(t), Fewer(t),
           PinnedBy(th'[t]) = PinnedBy(th[t]),
           TypeOK', ThreadInv(th[t])'
    PROVE  IInv'
<1>1. ASSUME NEW u \in Threads PROVE ThreadInv(th[u])'
  BY <1>1, OtherThread DEF IInv, Others
<1>2. Threads2'
  BY FewerApart, Zenon DEF IInv
<1>3. IndexInv'
  BY Zenon DEF IInv, IndexInv, Quiet, index
<1>4. PinInv'
  BY SamePinners DEF IInv, PinInv, TypeOK, Quiet, index
<1> QED
  BY <1>1, <1>2, <1>3, <1>4, Zenon DEF IInv

LEMMA StartFetchStep ==
    ASSUME IInv, NEW t \in Threads, StartFetch(t)
    PROVE  IInv'
<1>1. PICK p \in known :
         /\ \A g \in th[t].held : g.page < p
         /\ th' = [th EXCEPT ![t].pc = "lookup", ![t].op = "fetch", ![t].page = {p}]
  BY ZenonT(60) DEF StartFetch
<1>2. th[t].pc \in {"idle", "hold"} /\ Calm
  BY Zenon DEF StartFetch, Begin, Calm
<1>3. TypeOK /\ ThreadInv(th[t]) /\ th[t] \in ThreadState /\ p \in Pages
  BY DEF IInv, TypeOK
<1> DEFINE r == [th[t] EXCEPT !.pc = "lookup", !.op = "fetch", !.page = {p}]
<1>4. r \in ThreadState
  BY <1>3, ZenonT(60) DEF ThreadState
<1>14. th' = [th EXCEPT ![t] = r]
  BY <1>1, ZenonT(60)
<1>5. th'[t] = r /\ Others(t) /\ th' \in [Threads -> ThreadState]
  BY <1>3, <1>4, <1>14, Moved, ZenonT(60)
<1>6. /\ th'[t].pc = "lookup" /\ th'[t].op = "fetch" /\ th'[t].page = {p}
      /\ th'[t].frame = th[t].frame /\ th'[t].held = th[t].held
      /\ th'[t].snapshot = th[t].snapshot
  BY <1>3, <1>5, ZenonT(60) DEF ThreadState
<1>7. \A g \in th[t].held : g.page # p
  <2>1. \A g \in th[t].held : g.page \in Pages
    BY <1>3, ZenonT(60) DEF ThreadState, Guard
  <2> QED
    BY <1>1, <2>1, DoubleWriteBounds DEF Pages
<1>8. ThreadOK(th[t])'
  BY <1>2, <1>3, <1>6, <1>7, ZenonT(60) DEF ThreadInv, ThreadOK, FlushPcs, FillPcs, SeekPcs, Opt
<1>9. CopiesOK(th[t])'
  BY <1>3, <1>6, ZenonT(60) DEF ThreadInv, CopiesOK, FlushPcs
<1>10. OwnOK(th[t])'
  BY <1>6 DEF OwnOK, OwnedBy, FlushPcs, FillPcs
<1>11. SeekOK(th[t])'
  BY <1>1, <1>2, <1>3, <1>6 DEF TypeOK, SeekOK, Calm, extent, SoughtBy, ClaimedBy, FlushPcs, FillPcs, SeekPcs
<1>12. PinsOK(th[t])'
  BY <1>2, <1>3, <1>6, Zenon DEF ThreadInv, PinsOK, Calm, index, extent
<1>13. TypeOK'
  BY <1>2, <1>3, <1>5, CalmType, SameDevices, SameFlushing, Zenon DEF StartFetch
<1> QED
  BY <1>2, <1>5, <1>6, <1>8, <1>9, <1>10, <1>11, <1>12, <1>13, CalmQuiet, QuietStep, ZenonT(60)
     DEF ThreadInv, Fewer, PinnedBy, OwnedBy, ClaimedBy, MadeBy, FillPcs, SeekPcs, FlushPcs

\* A thread gives up, with what it had acquired already given back.
LEMMA QuietReturn ==
    ASSUME IInv, NEW t \in Threads, Return(t), Calm, DevicesType',
           flush_sequence' \subseteq Threads, flush_poisoned' \in BOOLEAN,
           PinnedBy(th[t]) = {g.frame : g \in th[t].held}
    PROVE  IInv'
<1>1. TypeOK /\ Quiet
  BY CalmQuiet DEF IInv
<1>2. UNCHANGED page_table /\ known \subseteq known'
  BY DEF Calm, index, extent
<1>3. th'[t] = Caller(t) /\ Others(t) /\ th' \in [Threads -> ThreadState]
  BY <1>1, ReturnMoves, Zenon
<1>4. ThreadInv(th[t])' /\ Fewer(t) /\ PinnedBy(th'[t]) = PinnedBy(th[t])
  BY <1>2, <1>3, ReturnInv, Zenon
<1>5. TypeOK'
  BY <1>1, <1>3, CalmType, Zenon
<1> QED
  BY <1>1, <1>3, <1>4, <1>5, QuietStep, ZenonT(60)

LEMMA LookupTimesOutStep ==
    ASSUME IInv, NEW t \in Threads, LookupTimesOut(t)
    PROVE  IInv'
<1>1. PinnedBy(th[t]) = {g.frame : g \in th[t].held}
  BY DEF LookupTimesOut, At, PinnedBy
<1>2. Calm /\ Return(t)
  BY DEF LookupTimesOut, Calm
<1> QED
  BY <1>1, <1>2, QuietReturn, SameDevices, SameFlushing, Zenon DEF LookupTimesOut, IInv

LEMMA AcquireTimesOutStep ==
    ASSUME IInv, NEW t \in Threads, AcquireTimesOut(t)
    PROVE  IInv'
<1>1. PinnedBy(th[t]) = {g.frame : g \in th[t].held}
  BY DEF AcquireTimesOut, At, PinnedBy
<1>2. Calm /\ Failed(t)
  BY DEF AcquireTimesOut, Calm
<1>3. th[t].pc \in SeekPcs /\ th[t].page # {}
  BY ZenonT(60) DEF IInv, ThreadInv, ThreadOK, AcquireTimesOut, At, SeekPcs
<1>4. UNCHANGED <<page_table, loading, allocated, known>>
  BY <1>2, Zenon DEF Calm, index, extent
<1>5. /\ ThreadInv(th[t])' /\ Fewer(t) /\ Others(t) /\ th' \in [Threads -> ThreadState]
      /\ PinnedBy(th'[t]) = PinnedBy(th[t])
  BY <1>1, <1>2, <1>3, <1>4, FailedInv, Zenon
<1>6. TypeOK'
  BY <1>2, <1>5, CalmType, SameDevices, SameFlushing, Zenon DEF AcquireTimesOut, IInv
<1> QED
  BY <1>2, <1>5, <1>6, CalmQuiet, QuietStep, Zenon

\* The thread goes on with the same frame, page and guards.
LEMMA FillMove ==
    ASSUME IInv, NEW t \in Threads, Quiet, Others(t), TypeOK',
           th[t].pc \in FillPcs, th'[t].pc \in FillPcs,
           th[t].pc \in {"read", "install"} <=> th'[t].pc \in {"read", "install"},
           th[t].frame # {} \/ th'[t].pc \in FlushPcs,
           th'[t].frame = th[t].frame, th'[t].page = th[t].page,
           th'[t].op = th[t].op, th'[t].held = th[t].held,
           CopiesOK(th[t])'
    PROVE  IInv'
<1>1. ThreadInv(th[t])
  BY DEF IInv
<1>2. ThreadOK(th[t])'
  BY <1>1, ZenonT(60) DEF ThreadInv, ThreadOK, FlushPcs, FillPcs, SeekPcs
<1>3. OwnOK(th[t])'
  BY <1>1, ZenonT(60) DEF ThreadInv, OwnOK, OwnedBy, Quiet, index
<1>4. SeekOK(th[t])'
  BY <1>1, Zenon DEF ThreadInv, SeekOK, SoughtBy, ClaimedBy, FlushPcs, FillPcs, SeekPcs, Quiet, index
<1>5. PinsOK(th[t])'
  BY <1>1, Zenon DEF ThreadInv, PinsOK, FillPcs, FlushPcs, Quiet, index
<1>6. Fewer(t) /\ PinnedBy(th'[t]) = PinnedBy(th[t])
  BY Zenon DEF Fewer, OwnedBy, ClaimedBy, MadeBy, PinnedBy, SeekPcs, FillPcs, FlushPcs
<1> QED
  BY <1>2, <1>3, <1>4, <1>5, <1>6, QuietStep, Zenon DEF ThreadInv

LEMMA CheckVictimStep ==
    ASSUME IInv, NEW t \in Threads, CheckVictim(t)
    PROVE  IInv'
<1>1. TypeOK /\ ThreadInv(th[t]) /\ th[t].pc = "evict" /\ Calm /\ IndexInv
  BY Zenon DEF IInv, CheckVictim, At, Calm
<1>2. PICK f \in th[t].frame :
         IF dirty_since_lsn[f] # 0 THEN Flush(t, {f}, {}) ELSE Goto(t, "complete")
  BY Zenon DEF CheckVictim
<1>3. f \in Frames /\ frame_page[f] # {} /\ bytes[f].id # {}
  <2>1. f \in Frames
    BY <1>1, <1>2, ZenonT(60) DEF TypeOK, ThreadState
  <2>2. frame_page[f] # {}
    BY <1>1, <1>2, Zenon DEF ThreadInv, OwnOK, OwnedBy, FillPcs
  <2> QED
    BY <1>1, <2>1, <2>2, Zenon DEF IndexInv
<1>4. CASE Flush(t, {f}, {})
  <2>1. /\ Others(t) /\ th' \in [Threads -> ThreadState]
        /\ th'[t].pc = "lease" /\ th'[t].batch = {f} /\ th'[t].todo = {f} /\ th'[t].rest = {}
        /\ th'[t].snapshot = <<>>
        /\ th'[t].frame = th[t].frame /\ th'[t].page = th[t].page
        /\ th'[t].op = th[t].op /\ th'[t].held = th[t].held
    <3>1. {f} \in SUBSET Frames /\ {} \in SUBSET Frames
      BY <1>3
    <3> QED
      BY <1>1, <1>4, <3>1, FlushFields, ZenonT(60)
  <2>2. CopiesOK(th[t])'
    BY <1>1, <1>3, <2>1, EmptySnapshot, ZenonT(60) DEF CopiesOK, Calm, contents
  <2>3. TypeOK'
    BY <1>1, <2>1, CalmType, SameDevices, SameFlushing, ZenonT(60) DEF CheckVictim
  <2> QED
    BY <1>1, <1>2, <2>1, <2>2, <2>3, CalmQuiet, FillMove, ZenonT(60) DEF FillPcs, FlushPcs
<1>5. CASE Goto(t, "complete")
  <2>1. /\ Others(t) /\ th' \in [Threads -> ThreadState] /\ th'[t].pc = "complete"
        /\ th'[t].snapshot = th[t].snapshot
        /\ th'[t].frame = th[t].frame /\ th'[t].page = th[t].page
        /\ th'[t].op = th[t].op /\ th'[t].held = th[t].held
    BY <1>1, <1>5, GotoFields, ZenonT(60)
  <2>2. CopiesOK(th[t])'
    BY <1>1, <2>1, Zenon DEF ThreadInv, CopiesOK, FlushPcs
  <2>3. TypeOK'
    BY <1>1, <2>1, CalmType, SameDevices, SameFlushing, ZenonT(60) DEF CheckVictim
  <2> QED
    BY <1>1, <1>2, <2>1, <2>2, <2>3, CalmQuiet, FillMove, ZenonT(60) DEF FillPcs, FlushPcs
<1> QED
  BY <1>2, <1>4, <1>5, Zenon

LEMMA ReadPageStep ==
    ASSUME IInv, NEW t \in Threads, ReadPage(t)
    PROVE  IInv'
<1>1. TypeOK /\ ThreadInv(th[t]) /\ th[t] \in ThreadState /\ th[t].pc = "read" /\ Calm
  BY DEF IInv, TypeOK, ReadPage, At, Calm
<1>11. PICK p \in th[t].page : \E n \in file[p] : th' = [th EXCEPT ![t].pc = "install", ![t].lsn = n]
  BY Zenon DEF ReadPage
<1>2. PICK n \in file[p] : th' = [th EXCEPT ![t].pc = "install", ![t].lsn = n]
  BY <1>11, ZenonT(60)
<1>3. n \in 0 .. MaxLsn
  <2>1. file[p] \in Content
    BY <1>1, <1>11, ZenonT(60) DEF TypeOK, DevicesType, ThreadState
  <2> QED
    BY <1>2, <2>1, Zenon DEF Content, Torn
<1> DEFINE r == [th[t] EXCEPT !.pc = "install", !.lsn = n]
<1>4. r \in ThreadState
  BY <1>1, <1>3, ZenonT(60) DEF ThreadState
<1>5. th' = [th EXCEPT ![t] = r]
  BY <1>2, ZenonT(60)
<1>6. th'[t] = r /\ Others(t) /\ th' \in [Threads -> ThreadState]
  BY <1>1, <1>4, <1>5, Moved, ZenonT(60)
<1>7. /\ th'[t].pc = "install" /\ th'[t].snapshot = th[t].snapshot
      /\ th'[t].frame = th[t].frame /\ th'[t].page = th[t].page
      /\ th'[t].op = th[t].op /\ th'[t].held = th[t].held
  BY <1>1, <1>6, ZenonT(60) DEF ThreadState
<1>8. CopiesOK(th[t])'
  BY <1>1, <1>7, ZenonT(60) DEF ThreadInv, CopiesOK, FlushPcs
<1>9. TypeOK'
  BY <1>1, <1>6, CalmType, SameDevices, SameFlushing, Zenon DEF ReadPage
<1>10. th[t].frame # {}
  BY <1>1, ZenonT(60) DEF ThreadInv, ThreadOK
<1> QED
  BY <1>1, <1>6, <1>7, <1>8, <1>9, <1>10, CalmQuiet, FillMove, ZenonT(60) DEF FillPcs

LEMMA WriteStep ==
    ASSUME IInv, NEW t \in Threads, Write(t)
    PROVE  IInv'
<1>1. /\ TypeOK /\ ThreadInv(th[t]) /\ th[t] \in ThreadState
      /\ UNCHANGED <<index, pin_count, allocated, known, th>>
  BY DEF IInv, TypeOK, Write
<1>2. PICK g \in th[t].held :
         /\ bytes' = [bytes EXCEPT ![g.frame].lsn = lsn']
         /\ dirty_since_lsn' = [dirty_since_lsn EXCEPT ![g.frame] = IF @ = 0 THEN lsn' ELSE @]
  BY ZenonT(60) DEF Write
<1>3. lsn' \in 0 .. MaxLsn /\ g.frame \in Frames
  <2>1. lsn' \in 0 .. MaxLsn
    <3>1. lsn \in 0 .. MaxLsn /\ MaxLsn \in Nat /\ lsn < MaxLsn /\ lsn' = lsn + 1
      BY <1>1, DoubleWriteBounds, Zenon DEF Write, TypeOK
    <3> QED
      BY <3>1
  <2>2. g.frame \in Frames
    BY <1>1, <1>2, ZenonT(60) DEF ThreadState, Guard
  <2> QED
    BY <2>1, <2>2, Zenon
<1>4. bytes' \in [Frames -> [id : SUBSET Pages, lsn : 0 .. MaxLsn]]
  BY <1>1, <1>2, <1>3 DEF TypeOK
<1>5. \A f \in Frames : bytes'[f].id = bytes[f].id
  BY <1>1, <1>2, Zenon DEF TypeOK
<1>6. dirty_since_lsn' \in [Frames -> 0 .. MaxLsn]
  BY <1>1, <1>2, <1>3, Zenon DEF TypeOK
<1>7. TypeOK'
  <2>1. DevicesType' /\ flush_sequence' \subseteq Threads /\ flush_poisoned' \in BOOLEAN
    BY <1>1, SameDevices, SameFlushing, ZenonT(60) DEF Write
  <2> QED
    BY <1>1, <1>3, <1>4, <1>6, <2>1, ZenonT(60) DEF TypeOK, index
<1>8. Quiet /\ Others(t) /\ Fewer(t) /\ PinnedBy(th'[t]) = PinnedBy(th[t])
  BY <1>1, <1>5, ZenonT(60) DEF Quiet, Others, Fewer
<1>9. ThreadInv(th[t])'
  BY <1>1, <1>8, OtherThread, Zenon
<1> QED
  BY <1>7, <1>8, <1>9, QuietStep, ZenonT(60)

-----------------------------------------------------------------------------
(* The flush. *)

\* A flush by flush_page or flush_all starts.
LEMMA StartFlushInv ==
    ASSUME IInv, NEW t \in Threads, th[t].pc \in {"idle", "hold"}, Calm,
           UNCHANGED devices, UNCHANGED flushing,
           NEW c \in SUBSET DirtyFrames, NEW d \in SUBSET DirtyFrames, Flush(t, c, d)
    PROVE  IInv'
<1>1. TypeOK /\ ThreadInv(th[t]) /\ IndexInv
  BY Zenon DEF IInv
<1>2. /\ Others(t) /\ th' \in [Threads -> ThreadState]
      /\ th'[t].pc = "lease" /\ th'[t].batch = c /\ th'[t].todo = c /\ th'[t].rest = d
      /\ th'[t].snapshot = <<>>
      /\ th'[t].frame = th[t].frame /\ th'[t].page = th[t].page
      /\ th'[t].op = th[t].op /\ th'[t].held = th[t].held
  <2>1. c \in SUBSET Frames /\ d \in SUBSET Frames
    BY Zenon DEF DirtyFrames
  <2> QED
    BY <1>1, <2>1, FlushFields, Zenon
<1>3. th[t].frame = {} /\ th[t].page = {} /\ th[t].op = ""
  BY <1>1, ZenonT(60) DEF ThreadInv, ThreadOK
<1>4. \A f \in c \cup d : bytes[f].id # {}
  BY <1>1 DEF DirtyFrames, IndexInv
<1>5. ThreadOK(th[t])'
  BY <1>1, <1>2, <1>3, ZenonT(60) DEF ThreadInv, ThreadOK, FlushPcs, FillPcs, SeekPcs
<1>6. CopiesOK(th[t])'
  BY <1>2, <1>4, EmptySnapshot, ZenonT(60) DEF CopiesOK, Calm, contents
<1>7. OwnOK(th[t])' /\ SeekOK(th[t])'
  BY <1>2, <1>3, ZenonT(60) DEF OwnOK, OwnedBy, SeekOK, SoughtBy, ClaimedBy
<1>8. PinsOK(th[t])'
  BY <1>1, <1>2, ZenonT(60) DEF ThreadInv, PinsOK, Calm, index, extent
<1>9. Fewer(t) /\ PinnedBy(th'[t]) = PinnedBy(th[t])
  BY <1>2, <1>3, ZenonT(60) DEF Fewer, OwnedBy, ClaimedBy, MadeBy, PinnedBy
<1>10. TypeOK'
  BY <1>1, <1>2, CalmType, SameDevices, SameFlushing, ZenonT(60)
<1> QED
  BY <1>2, <1>5, <1>6, <1>7, <1>8, <1>9, <1>10, CalmQuiet, QuietStep, ZenonT(60) DEF ThreadInv

LEMMA StartFlushStep ==
    ASSUME IInv, NEW t \in Threads, StartFlushPage(t) \/ StartFlushAll(t)
    PROVE  IInv'
<1>1. /\ th[t].pc \in {"idle", "hold"} /\ Calm
      /\ UNCHANGED devices /\ UNCHANGED flushing
  BY Zenon DEF StartFlushPage, StartFlushAll, Begin, Calm
<1>2. CASE StartFlushPage(t)
  <2>1. PICK f \in DirtyFrames : Flush(t, {f}, {})
    BY <1>2, Zenon DEF StartFlushPage
  <2>2. {f} \in SUBSET DirtyFrames /\ {} \in SUBSET DirtyFrames
    BY <2>1, Zenon
  <2> QED
    BY <1>1, <2>1, <2>2, StartFlushInv, ZenonT(60)
<1>3. CASE StartFlushAll(t)
  <2>1. PICK c \in Chunks(DirtyFrames) : Flush(t, c, DirtyFrames \ c)
    BY <1>3, ZenonT(60) DEF StartFlushAll
  <2>2. c \in SUBSET DirtyFrames /\ DirtyFrames \ c \in SUBSET DirtyFrames
    BY <2>1, Zenon DEF Chunks
  <2> QED
    BY <1>1, <2>1, <2>2, StartFlushInv, Zenon
<1> QED
  BY <1>2, <1>3, Zenon

LEMMA TakeLeaseStep ==
    ASSUME IInv, NEW t \in Threads, TakeLease(t)
    PROVE  IInv'
<1>1. TypeOK /\ ThreadInv(th[t]) /\ th[t].pc = "lease" /\ Calm
  BY ZenonT(60) DEF IInv, TakeLease, At, Calm
<1>2. /\ Others(t) /\ th' \in [Threads -> ThreadState] /\ th'[t].pc = "snapshot"
      /\ th'[t].batch = th[t].batch /\ th'[t].todo = th[t].todo /\ th'[t].rest = th[t].rest
      /\ th'[t].snapshot = th[t].snapshot
      /\ th'[t].frame = th[t].frame /\ th'[t].page = th[t].page
      /\ th'[t].op = th[t].op /\ th'[t].held = th[t].held
  BY <1>1, GotoFields, Zenon DEF TakeLease
<1>3. CopiesOK(th[t])'
  BY <1>1, <1>2, ZenonT(60) DEF ThreadInv, CopiesOK, FlushPcs, Calm, contents
<1>4. TypeOK'
  BY <1>1, <1>2, CalmType, SameDevices, Zenon DEF TakeLease, TypeOK
<1> QED
  BY <1>1, <1>2, <1>3, <1>4, CalmQuiet, FillMove, Zenon DEF FillPcs, FlushPcs

LEMMA SnapshotStep ==
    ASSUME IInv, NEW t \in Threads, Snapshot(t)
    PROVE  IInv'
<1>1. TypeOK /\ ThreadInv(th[t]) /\ th[t] \in ThreadState /\ th[t].pc = "snapshot" /\ Calm /\ IndexInv
  BY DEF IInv, TypeOK, Snapshot, At, Calm
<1> DEFINE s(f) == [g \in DOMAIN th[t].snapshot \cup {f} |-> IF g = f THEN bytes[f] ELSE th[t].snapshot[g]]
           r(f) == [th[t] EXCEPT !.todo = th[t].todo \ {f}, !.snapshot = s(f)]
<1>2. PICK f \in th[t].todo : th' = [th EXCEPT ![t] = r(f)]
  BY <1>1, ZenonT(60) DEF Snapshot, TypeOK
<1>3. f \in Frames /\ th[t].snapshot \in Copies /\ bytes[f] \in [id : SUBSET Pages, lsn : 0 .. MaxLsn]
  BY <1>1, <1>2, Zenon DEF TypeOK, ThreadState
<1>4. s(f) \in Copies
  BY <1>3, AddCopy, ZenonT(60)
<1>5. DOMAIN s(f) = DOMAIN th[t].snapshot \cup {f}
  OBVIOUS
<1>6. \A g \in DOMAIN s(f) : s(f)[g] = IF g = f THEN bytes[f] ELSE th[t].snapshot[g]
  OBVIOUS
<1> HIDE DEF s
<1>7. r(f) \in ThreadState
  BY <1>1, <1>4, ZenonT(60) DEF ThreadState
<1>8. th'[t] = r(f) /\ Others(t) /\ th' \in [Threads -> ThreadState]
  BY <1>1, <1>2, <1>7, Moved, ZenonT(60)
<1>9. /\ th'[t].pc = "snapshot" /\ th'[t].snapshot = s(f) /\ th'[t].todo = th[t].todo \ {f}
      /\ th'[t].batch = th[t].batch /\ th'[t].rest = th[t].rest
      /\ th'[t].frame = th[t].frame /\ th'[t].page = th[t].page
      /\ th'[t].op = th[t].op /\ th'[t].held = th[t].held
  BY <1>1, <1>8, ZenonT(60) DEF ThreadState
<1>10. th[t].todo \subseteq th[t].batch /\ DOMAIN th[t].snapshot = th[t].batch \ th[t].todo
  BY <1>1, Zenon DEF ThreadInv, CopiesOK, FlushPcs
<1>11. \E p \in Pages : bytes[f].id = {p}
  <2>1. bytes[f].id # {}
    BY <1>1, <1>2, <1>10, ZenonT(60) DEF ThreadInv, CopiesOK, FlushPcs
  <2> QED
    BY <1>1, <1>3, <2>1, ZenonT(60) DEF IndexInv, Opt
<1>12. \A g \in DOMAIN s(f) : \E p \in Pages : s(f)[g].id = {p}
  <2> TAKE g \in DOMAIN s(f)
  <2>1. CASE g = f
    BY <1>6, <1>11, <2>1, Zenon
  <2>2. CASE g # f
    <3>1. g \in DOMAIN th[t].snapshot /\ s(f)[g] = th[t].snapshot[g]
      BY <1>5, <1>6, <2>2, Zenon
    <3> QED
      BY <1>1, <3>1, Zenon DEF ThreadInv, CopiesOK
  <2> QED
    BY <2>1, <2>2
<1>13. CopiesOK(th[t])'
  <2>1. DOMAIN s(f) = th[t].batch \ (th[t].todo \ {f}) /\ th[t].todo \ {f} \subseteq th[t].batch
    BY <1>2, <1>5, <1>10, Zenon
  <2>2. \A g \in th[t].batch \cup th[t].rest : bytes'[g].id # {}
    BY <1>1, Zenon DEF ThreadInv, CopiesOK, FlushPcs, Calm, contents
  <2> QED
    BY <1>9, <1>12, <2>1, <2>2, Zenon DEF CopiesOK, FlushPcs
<1>14. TypeOK'
  BY <1>1, <1>8, CalmType, SameDevices, SameFlushing, ZenonT(60) DEF Snapshot
<1> QED
  BY <1>1, <1>8, <1>9, <1>13, <1>14, CalmQuiet, FillMove, ZenonT(60) DEF FillPcs, FlushPcs

LEMMA BackupStep ==
    ASSUME IInv, NEW t \in Threads, Backup(t)
    PROVE  IInv'
<1>1. TypeOK /\ ThreadInv(th[t]) /\ th[t] \in ThreadState /\ th[t].pc = "snapshot" /\ th[t].todo = {} /\ Calm
  BY ZenonT(60) DEF IInv, TypeOK, Backup, Copied, At, Calm
<1>2. /\ Others(t) /\ th' \in [Threads -> ThreadState] /\ th'[t].pc = "write"
      /\ th'[t].todo = th[t].batch
      /\ th'[t].batch = th[t].batch /\ th'[t].rest = th[t].rest
      /\ th'[t].snapshot = th[t].snapshot
      /\ th'[t].frame = th[t].frame /\ th'[t].page = th[t].page
      /\ th'[t].op = th[t].op /\ th'[t].held = th[t].held
  <2>1. "write" \in FlushPcs /\ NextPass(t, "write")
    BY DEF FlushPcs, Backup, NextPass
  <2> QED
    BY <1>1, <2>1, NextPassFields, Zenon
<1>3. CopiesOK(th[t])'
  BY <1>1, <1>2, ZenonT(60) DEF ThreadInv, CopiesOK, FlushPcs, Calm, contents
<1>4. DevicesType'
  BY <1>1, ImagesType, Zenon DEF Backup, WriteBatch, TypeOK, DevicesType, ThreadInv
<1>5. TypeOK'
  BY <1>1, <1>2, <1>4, CalmType, SameFlushing, Zenon DEF Backup
<1> QED
  BY <1>1, <1>2, <1>3, <1>5, CalmQuiet, FillMove, Zenon DEF FillPcs, FlushPcs

LEMMA WriteNextStep ==
    ASSUME IInv, NEW t \in Threads, WriteNext(t)
    PROVE  IInv'
<1>1. TypeOK /\ ThreadInv(th[t]) /\ th[t] \in ThreadState /\ th[t].pc = "write" /\ Calm
  BY DEF IInv, TypeOK, WriteNext, At, Calm
<1>2. PICK f \in th[t].todo : WritePage(ImageOf(th[t].snapshot[f])) /\ OneDone(t, f)
  BY ZenonT(60) DEF WriteNext, OneDone
<1>3. /\ Others(t) /\ th' \in [Threads -> ThreadState] /\ th'[t].pc = "write"
      /\ th'[t].todo = th[t].todo \ {f}
      /\ th'[t].batch = th[t].batch /\ th'[t].rest = th[t].rest
      /\ th'[t].snapshot = th[t].snapshot
      /\ th'[t].frame = th[t].frame /\ th'[t].page = th[t].page
      /\ th'[t].op = th[t].op /\ th'[t].held = th[t].held
  BY <1>1, <1>2, OneDoneFields, ZenonT(60)
<1>4. f \in DOMAIN th[t].snapshot
  BY <1>1, <1>2, ZenonT(60) DEF ThreadInv, CopiesOK, FlushPcs
<1>5. CopiesOK(th[t])'
  BY <1>1, <1>3, ZenonT(60) DEF ThreadInv, CopiesOK, FlushPcs, Calm, contents
<1>6. DevicesType'
  <2>1. ImageOf(th[t].snapshot[f]) \in Image
    BY <1>1, <1>4, ImagesType, ZenonT(60) DEF ThreadInv
  <2> QED
    BY <1>1, <1>2, <2>1, WritePageType, ZenonT(60) DEF TypeOK
<1>7. TypeOK'
  BY <1>1, <1>3, <1>6, CalmType, SameFlushing, Zenon DEF WriteNext
<1> QED
  BY <1>1, <1>3, <1>5, <1>7, CalmQuiet, FillMove, ZenonT(60) DEF FillPcs, FlushPcs

LEMMA SyncStep ==
    ASSUME IInv, NEW t \in Threads, Sync(t)
    PROVE  IInv'
<1>1. TypeOK /\ ThreadInv(th[t]) /\ th[t].pc = "write" /\ th[t].todo = {} /\ Calm
  BY ZenonT(60) DEF IInv, Sync, At, Calm
<1>2. /\ Others(t) /\ th' \in [Threads -> ThreadState] /\ th'[t].pc = "clear"
      /\ th'[t].batch = th[t].batch /\ th'[t].todo = th[t].todo /\ th'[t].rest = th[t].rest
      /\ th'[t].snapshot = th[t].snapshot
      /\ th'[t].frame = th[t].frame /\ th'[t].page = th[t].page
      /\ th'[t].op = th[t].op /\ th'[t].held = th[t].held
  BY <1>1, GotoFields, ZenonT(60) DEF Sync
<1>3. CopiesOK(th[t])'
  BY <1>1, <1>2, ZenonT(60) DEF ThreadInv, CopiesOK, FlushPcs, Calm, contents
<1>4. DevicesType'
  BY <1>1, ZenonT(60) DEF Sync, SyncFile, TypeOK, DevicesType
<1>5. TypeOK'
  BY <1>1, <1>2, <1>4, CalmType, SameFlushing, ZenonT(60) DEF Sync
<1> QED
  BY <1>1, <1>2, <1>3, <1>5, CalmQuiet, FillMove, ZenonT(60) DEF FillPcs, FlushPcs

LEMMA ClearStep ==
    ASSUME IInv, NEW t \in Threads, Clear(t)
    PROVE  IInv'
<1>1. TypeOK /\ ThreadInv(th[t]) /\ th[t].pc = "clear" /\ Calm
  BY Zenon DEF IInv, Clear, At, Calm
<1>2. /\ Others(t) /\ th' \in [Threads -> ThreadState] /\ th'[t].pc = "clean"
      /\ th'[t].todo = th[t].batch
      /\ th'[t].batch = th[t].batch /\ th'[t].rest = th[t].rest
      /\ th'[t].snapshot = th[t].snapshot
      /\ th'[t].frame = th[t].frame /\ th'[t].page = th[t].page
      /\ th'[t].op = th[t].op /\ th'[t].held = th[t].held
  <2>1. "clean" \in FlushPcs /\ NextPass(t, "clean")
    BY DEF FlushPcs, Clear, NextPass
  <2> QED
    BY <1>1, <2>1, NextPassFields, Zenon
<1>3. CopiesOK(th[t])'
  BY <1>1, <1>2, ZenonT(60) DEF ThreadInv, CopiesOK, FlushPcs, Calm, contents
<1>4. DevicesType'
  BY <1>1, Zenon DEF Clear, ClearBatch, TypeOK, DevicesType
<1>5. TypeOK'
  BY <1>1, <1>2, <1>4, CalmType, SameFlushing, Zenon DEF Clear
<1> QED
  BY <1>1, <1>2, <1>3, <1>5, CalmQuiet, FillMove, Zenon DEF FillPcs, FlushPcs

LEMMA CleanNextStep ==
    ASSUME IInv, NEW t \in Threads, CleanNext(t)
    PROVE  IInv'
<1>1. /\ TypeOK /\ ThreadInv(th[t]) /\ th[t] \in ThreadState /\ th[t].pc = "clean"
      /\ UNCHANGED <<index, pin_count, bytes, extent>>
  BY DEF IInv, TypeOK, CleanNext, At
<1>2. PICK f \in th[t].todo :
         /\ dirty_since_lsn' = [dirty_since_lsn EXCEPT ![f] =
                                  IF bytes[f].lsn = th[t].snapshot[f].lsn THEN 0 ELSE @]
         /\ OneDone(t, f)
  BY Zenon DEF CleanNext, OneDone
<1>3. /\ Others(t) /\ th' \in [Threads -> ThreadState] /\ th'[t].pc = th[t].pc
      /\ th'[t].todo = th[t].todo \ {f}
      /\ th'[t].batch = th[t].batch /\ th'[t].rest = th[t].rest
      /\ th'[t].snapshot = th[t].snapshot
      /\ th'[t].frame = th[t].frame /\ th'[t].page = th[t].page
      /\ th'[t].op = th[t].op /\ th'[t].held = th[t].held
  BY <1>1, <1>2, OneDoneFields, ZenonT(60)
<1>4. CopiesOK(th[t])'
  BY <1>1, <1>3, ZenonT(60) DEF ThreadInv, CopiesOK, FlushPcs
<1>5. dirty_since_lsn' \in [Frames -> 0 .. MaxLsn]
  <2>3. f \in Frames
    BY <1>1, <1>2, ZenonT(60) DEF ThreadState
  <2>1. 0 \in 0 .. MaxLsn
    BY DoubleWriteBounds
  <2>2. dirty_since_lsn \in [Frames -> 0 .. MaxLsn]
    BY <1>1, Zenon DEF TypeOK
  <2> QED
    BY <1>2, <2>1, <2>2, <2>3, ZenonT(60)
<1>6. TypeOK'
  <2>1. DevicesType' /\ flush_sequence' \subseteq Threads /\ flush_poisoned' \in BOOLEAN
    BY <1>1, SameDevices, SameFlushing, Zenon DEF CleanNext
  <2> QED
    BY <1>1, <1>3, <1>5, <2>1, ZenonT(60) DEF TypeOK, index, extent
<1>7. Quiet
  BY <1>1, Zenon DEF Quiet, extent
<1> QED
  BY <1>1, <1>3, <1>4, <1>6, <1>7, FillMove, ZenonT(60) DEF FillPcs, FlushPcs

LEMMA EndFlushStep ==
    ASSUME IInv, NEW t \in Threads, EndFlush(t)
    PROVE  IInv'
<1>1. /\ TypeOK /\ ThreadInv(th[t]) /\ th[t] \in ThreadState /\ th[t].pc = "clean" /\ Calm
      /\ flush_sequence' \subseteq Threads /\ flush_poisoned' \in BOOLEAN
  BY Zenon DEF IInv, TypeOK, EndFlush, At, Calm
<1>2. DevicesType'
  BY <1>1, SameDevices, Zenon DEF EndFlush
<1>3. CASE th[t].frame # {}
  <2> DEFINE r == [th[t] EXCEPT !.pc = "complete", !.batch = {}, !.snapshot = <<>>]
  <2>1. r \in ThreadState
    BY <1>1, EmptySnapshot, ZenonT(60) DEF ThreadState
  <2>2. th' = [th EXCEPT ![t] = r]
    BY <1>3, ZenonT(60) DEF EndFlush, ForEviction
  <2>3. th'[t] = r /\ Others(t) /\ th' \in [Threads -> ThreadState]
    BY <1>1, <2>1, <2>2, Moved, ZenonT(60)
  <2>4. /\ th'[t].pc = "complete" /\ th'[t].snapshot = <<>>
        /\ th'[t].frame = th[t].frame /\ th'[t].page = th[t].page
        /\ th'[t].op = th[t].op /\ th'[t].held = th[t].held
    BY <1>1, <2>3, ZenonT(60) DEF ThreadState
  <2>5. CopiesOK(th[t])'
    BY <2>4, EmptySnapshot, Zenon DEF CopiesOK, FlushPcs
  <2>6. TypeOK'
    BY <1>1, <1>2, <2>3, CalmType, Zenon
  <2> QED
    BY <1>1, <1>3, <2>3, <2>4, <2>5, <2>6, CalmQuiet, FillMove, ZenonT(60) DEF FillPcs, FlushPcs
<1>4. CASE th[t].frame = {} /\ th[t].rest = {}
  <2>1. Return(t)
    BY <1>4, Zenon DEF EndFlush, ForEviction
  <2>2. PinnedBy(th[t]) = {g.frame : g \in th[t].held}
    BY <1>1 DEF PinnedBy
  <2> QED
    BY <1>1, <1>2, <2>1, <2>2, QuietReturn, ZenonT(60)
<1>5. CASE th[t].frame = {} /\ th[t].rest # {}
  <2>1. PICK c \in Chunks(th[t].rest) : Flush(t, c, th[t].rest \ c)
    BY <1>5, Zenon DEF EndFlush, ForEviction
  <2> DEFINE d == th[t].rest \ c
  <2>2. c \in SUBSET Frames /\ d \in SUBSET Frames /\ c \cup d \subseteq th[t].rest
    BY <1>1, <2>1, ZenonT(60) DEF ThreadState, Chunks
  <2>3. /\ Others(t) /\ th' \in [Threads -> ThreadState]
        /\ th'[t].pc = "lease" /\ th'[t].batch = c /\ th'[t].todo = c /\ th'[t].rest = d
        /\ th'[t].snapshot = <<>>
        /\ th'[t].frame = th[t].frame /\ th'[t].page = th[t].page
        /\ th'[t].op = th[t].op /\ th'[t].held = th[t].held
    BY <1>1, <2>1, <2>2, FlushFields, ZenonT(60)
  <2>4. CopiesOK(th[t])'
    BY <1>1, <2>2, <2>3, EmptySnapshot, ZenonT(60) DEF ThreadInv, CopiesOK, FlushPcs, Calm, contents
  <2>5. TypeOK'
    BY <1>1, <1>2, <2>3, CalmType, ZenonT(60)
  <2> QED
    BY <1>1, <2>3, <2>4, <2>5, CalmQuiet, FillMove, ZenonT(60) DEF FillPcs, FlushPcs
<1> QED
  BY <1>3, <1>4, <1>5, Zenon

\* abort_eviction: the frame goes back to the replacer, still mapped.
LEMMA AbortStep ==
    ASSUME IInv, NEW t \in Threads, th[t].pc \in FlushPcs, th[t].frame # {},
           AbortEviction(t), Failed(t), UNCHANGED <<pin_count, contents, extent>>,
           DevicesType', flush_sequence' \subseteq Threads, flush_poisoned' \in BOOLEAN
    PROVE  IInv'
<1>1. TypeOK /\ ThreadInv(th[t]) /\ th[t] \in ThreadState /\ IndexInv /\ PinInv /\ Threads2
  BY ZenonT(60) DEF IInv, TypeOK
<1>2. PICK f \in th[t].frame :
         /\ owned' = owned \ {f}
         /\ evicting' = evicting \ frame_page[f]
         /\ replacer' = [replacer EXCEPT ![f] = "evictable"]
  BY Zenon DEF AbortEviction
<1>3. UNCHANGED <<page_table, frame_page, free_list, loading, allocated, known, bytes, dirty_since_lsn, lsn>>
  BY ZenonT(60) DEF AbortEviction, contents, extent
<1>4. f \in Frames /\ OwnedBy(th[t]) = {f} /\ f \in owned /\ frame_page[f] # {}
  <2>1. f \in Frames /\ th[t].frame = {f}
    BY <1>1, <1>2, ZenonT(60) DEF ThreadInv, ThreadOK, Opt, ThreadState
  <2>2. OwnedBy(th[t]) = {f}
    BY <2>1, ZenonT(60) DEF OwnedBy, FillPcs
  <2> QED
    BY <1>1, <2>1, <2>2, ZenonT(60) DEF ThreadInv, OwnOK, FlushPcs
<1>5. th[t].pc \in SeekPcs /\ th[t].page # {}
  BY <1>1, ZenonT(60) DEF ThreadInv, ThreadOK, SeekPcs, FillPcs
<1>6. /\ ThreadInv(th[t])' /\ Fewer(t) /\ Others(t)
      /\ PinnedBy(th'[t]) = {g.frame : g \in th[t].held}
      /\ th' \in [Threads -> ThreadState]
  BY <1>3, <1>5, FailedInv, ZenonT(60)
<1>7. PinnedBy(th'[t]) = PinnedBy(th[t])
  BY <1>6, ZenonT(60) DEF PinnedBy, FlushPcs
<1>8. TypeOK'
  BY <1>1, <1>2, <1>3, <1>4, <1>6, ZenonT(60) DEF TypeOK
<1>9. ASSUME NEW u \in Threads PROVE ThreadInv(th[u])'
  <2>1. CASE u = t
    BY <2>1, <1>6, Zenon
  <2>2. CASE u # t
    <3>1. f \notin OwnedBy(th[u])
      BY <1>1, <1>4, <2>2, ZenonT(60) DEF Threads2, Apart
    <3>2. Untouched(u)
      BY <1>1, <1>2, <1>3, <1>6, <2>2, <3>1, ZenonT(60) DEF Untouched, Others, IInv, ThreadInv, OwnOK, SeekOK
    <3> QED
      BY <1>1, <3>2, UntouchedInv, SameGrowth, ZenonT(60) DEF IInv
  <2> QED
    BY <2>1, <2>2, ZenonT(60)
<1>10. Threads2'
  BY <1>1, <1>6, FewerApart, ZenonT(60)
<1>11. IndexInv'
  <2>1. \A g \in owned' : frame_page'[g] \subseteq evicting'
    BY <1>1, <1>2, <1>3, <1>4, FramesApart, ZenonT(60) DEF IndexInv, TypeOK
  <2>2. \A p \in evicting' : \E g \in owned' : p \in frame_page'[g]
    BY <1>1, <1>2, <1>3, ZenonT(60) DEF IndexInv
  <2>3. \A g \in Frames : replacer'[g] # "untracked" => frame_page'[g] # {} /\ g \notin owned'
    <3>1. \A g \in Frames \ {f} : replacer'[g] = replacer[g]
      BY <1>1, <1>2, <1>4, Zenon DEF TypeOK
    <3>2. \A g \in Frames : replacer[g] # "untracked" => frame_page[g] # {} /\ g \notin owned
      BY <1>1, ZenonT(60) DEF IndexInv
    <3> QED
      BY <1>2, <1>3, <1>4, <3>1, <3>2, ZenonT(60)
  <2> QED
    BY <1>1, <1>2, <1>3, <2>1, <2>2, <2>3, ZenonT(60) DEF IndexInv
<1>12. PinInv'
  <2>1. \A g \in Frames : Pinners(g)' = Pinners(g)
    BY <1>6, <1>7, SamePinners, ZenonT(60)
  <2>2. owned' \subseteq owned /\ owned \subseteq Frames
    BY <1>1, <1>2, ZenonT(60) DEF TypeOK
  <2>3. \A g \in Frames : replacer'[g] = "evictable" => Pinners(g)' = {}
    BY <1>1, <1>2, <1>4, <2>1, ZenonT(60) DEF PinInv, TypeOK
  <2> QED
    BY <1>1, <2>1, <2>2, <2>3, Zenon DEF PinInv
<1> QED
  BY <1>8, <1>9, <1>10, <1>11, <1>12, ZenonT(60) DEF IInv

\* A flush that fails, for an eviction or not.
LEMMA FlushFailsInv ==
    ASSUME IInv, NEW t \in Threads, th[t].pc \in FlushPcs, FlushFails(t),
           UNCHANGED <<pin_count, contents, extent>>,
           DevicesType', flush_sequence' \subseteq Threads, flush_poisoned' \in BOOLEAN
    PROVE  IInv'
<1>1. CASE th[t].frame # {}
  BY <1>1, AbortStep, ZenonT(60) DEF FlushFails, ForEviction
<1>2. CASE th[t].frame = {}
  <2>1. Return(t) /\ Calm
    BY <1>2, Zenon DEF FlushFails, ForEviction, Calm
  <2>2. PinnedBy(th[t]) = {g.frame : g \in th[t].held}
    BY Zenon DEF PinnedBy, FlushPcs
  <2> QED
    BY <2>1, <2>2, QuietReturn, Zenon
<1> QED
  BY <1>1, <1>2, ZenonT(60)

LEMMA FlushFailsStep ==
    ASSUME IInv, NEW t \in Threads,
           Poisoned(t) \/ LeaseTimesOut(t) \/ BackupFails(t) \/ FlushBreaks(t)
    PROVE  IInv'
<1>1. TypeOK /\ ThreadInv(th[t])
  BY Zenon DEF IInv
<1>2. CASE Poisoned(t) \/ LeaseTimesOut(t)
  BY <1>1, <1>2, FlushFailsInv, SameDevices, SameFlushing, Zenon DEF Poisoned, LeaseTimesOut, At, FlushPcs
<1>3. CASE BackupFails(t)
  <2>1. /\ th[t].pc \in FlushPcs /\ FlushFails(t) /\ UNCHANGED <<pin_count, contents, extent>>
        /\ flush_sequence' \subseteq Threads /\ flush_poisoned' \in BOOLEAN
    BY <1>1, <1>3, Zenon DEF BackupFails, Copied, At, FlushPcs, TypeOK
  <2>2. DevicesType'
    <3>1. CASE WriteBatchFails(Images(t))
      BY <1>1, <3>1, ImagesType, Zenon DEF WriteBatchFails, TypeOK, DevicesType, ThreadInv
    <3> QED
      BY <1>1, <1>3, <3>1, SameDevices, ZenonT(60) DEF BackupFails
  <2> QED
    BY <2>1, <2>2, FlushFailsInv, ZenonT(60)
<1>4. CASE FlushBreaks(t)
  <2>1. /\ th[t].pc \in {"write", "clear"} /\ FlushFails(t) /\ UNCHANGED <<pin_count, contents, extent>>
        /\ flush_sequence' \subseteq Threads /\ flush_poisoned' \in BOOLEAN
    BY <1>4, ZenonT(60) DEF FlushBreaks, At
  <2>2. DevicesType'
    <3>1. ASSUME NEW f \in th[t].todo, WritePageFails(ImageOf(th[t].snapshot[f]))
          PROVE  DevicesType'
      <4>1. f \in DOMAIN th[t].snapshot
        BY <1>1, <2>1, <3>1, ZenonT(60) DEF ThreadInv, CopiesOK, FlushPcs
      <4>2. ImageOf(th[t].snapshot[f]) \in Image
        BY <1>1, <4>1, ImagesType, ZenonT(60) DEF ThreadInv
      <4> QED
        BY <1>1, <3>1, <4>2, WritePageType, ZenonT(60) DEF TypeOK
    <3>2. CASE ClearBatchFails
      BY <1>1, <3>2, Zenon DEF ClearBatchFails, TypeOK, DevicesType
    <3> QED
      BY <1>1, <1>4, <3>1, <3>2, SameDevices, ZenonT(60) DEF FlushBreaks
  <2> QED
    BY <2>1, <2>2, FlushFailsInv, ZenonT(60) DEF FlushPcs
<1> QED
  BY <1>2, <1>3, <1>4, Zenon

-----------------------------------------------------------------------------
(* The first state, a crash and the recovery. *)

IdleThreads ==
    th = [t \in Threads |-> Idle] =>
        /\ \A t \in Threads : ThreadInv(th[t])
        /\ Threads2
        /\ \A f \in Frames : Pinners(f) = {}

LEMMA NoPins == IdleThreads
<1> SUFFICES ASSUME th = [t \in Threads |-> Idle]
             PROVE  /\ \A t \in Threads : ThreadInv(th[t])
                    /\ Threads2
                    /\ \A f \in Frames : Pinners(f) = {}
  BY Zenon DEF IdleThreads
<1>1. \A t \in Threads : th[t] = Idle
  OBVIOUS
<1>2. /\ Idle.pc = "idle" /\ Idle.op = "" /\ Idle.page = {} /\ Idle.frame = {} /\ Idle.held = {}
      /\ DOMAIN Idle.snapshot = {}
  BY EmptySnapshot, ZenonT(60) DEF Idle
<1>3. ThreadOK(Idle)
  BY <1>2, ZenonT(60) DEF ThreadOK, Opt, FlushPcs, FillPcs, SeekPcs
<1>4. CopiesOK(Idle)
  BY <1>2, ZenonT(60) DEF CopiesOK, FlushPcs
<1>5. OwnOK(Idle) /\ SeekOK(Idle) /\ PinsOK(Idle)
  BY <1>2, ZenonT(60) DEF OwnOK, OwnedBy, SeekOK, SoughtBy, ClaimedBy, PinsOK
<1>6. ThreadInv(Idle)
  BY <1>3, <1>4, <1>5, Zenon DEF ThreadInv
<1>7. OwnedBy(Idle) = {} /\ ClaimedBy(Idle) = {} /\ MadeBy(Idle) = {} /\ PinnedBy(Idle) = {}
  BY <1>2, ZenonT(60) DEF OwnedBy, ClaimedBy, MadeBy, PinnedBy
<1>8. Threads2
  BY <1>1, <1>7, Zenon DEF Threads2, Apart
<1> QED
  BY <1>1, <1>6, <1>7, <1>8, Zenon DEF Pinners

\* Nobody pins anything: the pin counts are 0.
UnpinnedFrames ==
    pin_count = [f \in Frames |-> 0] /\ (\A f \in Frames : Pinners(f) = {}) /\ owned = {} /\ Counting =>
        PinInv /\ pin_count \in [Frames -> 0 .. Cardinality(Threads)]

LEMMA ZeroPins == UnpinnedFrames
<1>1. Counting => 0 \in 0 .. Cardinality(Threads) /\ Cardinality({}) = 0
  BY DEF Counting
<1> QED
  BY <1>1, Zenon DEF UnpinnedFrames, PinInv

LEMMA NoPinsNext == IdleThreads' /\ UnpinnedFrames'
BY NoPins, ZeroPins, PTL

LEMMA IInvInit ==
    ASSUME Counting, Init
    PROVE  IInv
<1>1. 0 \in 0 .. MaxLsn
  BY DoubleWriteBounds
<1>2. /\ \A p \in Pages : page_table[p] = {} \/ \E f \in Frames : page_table[p] = {f}
      /\ \A p \in Pages : page_table[p] # {} <=> p \in Cached
      /\ \A p, q \in Cached : page_table[p] = page_table[q] => p = q
      /\ page_table \in [Pages -> SUBSET Frames]
  <2>1. page_table \in [Pages -> {{}} \cup {{f} : f \in Frames}]
    BY Zenon DEF Init
  <2>2. /\ \A p \in Pages : page_table[p] # {} <=> p \in Cached
        /\ \A p, q \in Cached : page_table[p] = page_table[q] => p = q
    BY Zenon DEF Init
  <2> QED
    BY <2>1, <2>2
<1>3. \A f \in Frames : frame_page[f] = {p \in Pages : f \in page_table[p]}
  BY Zenon DEF Init
<1>4. /\ \A f \in Frames : f \in free_list <=> frame_page[f] = {}
      /\ free_list \subseteq Frames
      /\ \A f \in Frames : replacer[f] = IF f \in free_list THEN "untracked" ELSE "evictable"
      /\ replacer \in [Frames -> {"untracked", "pinned", "evictable"}]
  BY Zenon DEF Init
<1>5. /\ owned = {} /\ loading = {} /\ evicting = {} /\ known = allocated /\ allocated = Allocated
      /\ th = [t \in Threads |-> Idle] /\ pin_count = [f \in Frames |-> 0]
      /\ dirty_since_lsn = [f \in Frames |-> 0]
      /\ flush_sequence = {} /\ flush_poisoned = FALSE /\ lsn = 0
  BY Zenon DEF Init
<1>6. frame_page \in [Frames -> SUBSET Pages]
  BY Zenon DEF Init
<1>7. bytes \in [Frames -> [id : SUBSET Pages, lsn : 0 .. MaxLsn]] /\ \A f \in Frames : bytes[f].id = frame_page[f]
  BY <1>1, <1>6, Zenon DEF Init
<1>8. \A t \in Threads : ThreadInv(th[t])
  BY <1>5, NoPins, Zenon DEF IdleThreads
<1>9. Threads2 /\ \A f \in Frames : Pinners(f) = {}
  BY <1>5, NoPins, Zenon DEF IdleThreads
<1>10. PinInv /\ pin_count \in [Frames -> 0 .. Cardinality(Threads)]
  BY <1>5, <1>9, ZeroPins, Zenon DEF UnpinnedFrames
<1>11. DevicesType
  <2>1. {0} \in Content
    BY <1>1, Zenon DEF Content
  <2> QED
    BY <2>1, Zenon DEF Init, InitDevices, DevicesType
<1>12. TypeOK
  <2>1. th \in [Threads -> ThreadState]
    BY <1>5, IdleType, Zenon
  <2>2. dirty_since_lsn \in [Frames -> 0 .. MaxLsn] /\ lsn \in 0 .. MaxLsn
    BY <1>1, <1>5, Zenon
  <2> QED
    BY <1>2, <1>4, <1>5, <1>6, <1>7, <1>10, <1>11, <2>1, <2>2, BufferPoolBounds, ZenonT(60) DEF TypeOK
<1>13. IndexInv
  <2>1. \A p \in Pages, f \in Frames : f \in page_table[p] <=> p \in frame_page[f]
    BY <1>3, Zenon
  <2>2. \A p \in Pages : Opt(page_table[p], Frames)
    BY <1>2 DEF Opt
  <2>3. \A f \in Frames : Opt(frame_page[f], Pages)
    <3>1. SUFFICES ASSUME NEW f \in Frames, NEW p \in frame_page[f], NEW q \in frame_page[f] PROVE p = q
      BY <1>6 DEF Opt
    <3>2. p \in Pages /\ q \in Pages /\ f \in page_table[p] /\ f \in page_table[q]
      BY <1>3, <3>1, ZenonT(60)
    <3>3. page_table[p] = {f} /\ page_table[q] = {f}
      BY <1>2, <3>2
    <3>4. p \in Cached /\ q \in Cached
      BY <1>2, <3>2, <3>3, ZenonT(60)
    <3> QED
      BY <1>2, <3>3, <3>4, ZenonT(60)
  <2>4. \A f \in Frames : frame_page[f] \subseteq allocated
    BY <1>2, <1>3, <1>5, BufferPoolBounds
  <2> QED
    BY <1>4, <1>5, <1>7, <2>1, <2>2, <2>3, <2>4, ZenonT(60) DEF IndexInv
<1> QED
  BY <1>8, <1>9, <1>10, <1>12, <1>13, Zenon DEF IInv

\* What a crash leaves on the devices are pages, or torn pages.
LEMMA CrashType ==
    ASSUME DevicesType, NEW pending \in SUBSET Image, CrashDevices(pending)
    PROVE  DevicesType'
BY DEF DevicesType, CrashDevices

LEMMA CrashStep ==
    ASSUME Counting, IInv, Crash
    PROVE  IInv'
<1>1. TypeOK
  BY DEF IInv
<1>2. DevicesType'
  <2>1. \A t \in Threads : Images(t) \subseteq Image
    BY <1>1, ImagesType, Zenon DEF IInv, ThreadInv
  <2>2. UNION {IF Copied(t) THEN Images(t) ELSE {} : t \in Threads} \in SUBSET Image
    BY <2>1, Zenon
  <2> QED
    BY <1>1, <2>2, CrashType, ZenonT(60) DEF Crash, TypeOK
<1>3. th' = [t \in Threads |-> Idle] /\ th' \in [Threads -> ThreadState]
  BY IdleType, Zenon DEF Crash
<1>4. /\ \A t \in Threads : ThreadInv(th[t])'
      /\ Threads2'
      /\ \A f \in Frames : Pinners(f)' = {}
  BY <1>3, NoPinsNext, Zenon DEF IdleThreads
<1>5. PinInv' /\ pin_count' \in [Frames -> 0 .. Cardinality(Threads)]
  BY <1>4, NoPinsNext, Zenon DEF UnpinnedFrames, Crash
<1>6. 0 \in 0 .. MaxLsn
  BY DoubleWriteBounds
<1>7. TypeOK'
  BY <1>1, <1>2, <1>3, <1>5, <1>6, ZenonT(60) DEF TypeOK, Crash
<1>8. IndexInv'
  BY Zenon DEF IndexInv, Opt, Crash
<1> QED
  BY <1>4, <1>5, <1>7, <1>8, ZenonT(60) DEF IInv

LEMMA RestoreStep ==
    ASSUME IInv, Restore
    PROVE  IInv'
<1>1. TypeOK /\ UNCHANGED <<index, pin_count, contents, flushing, extent, th>>
  BY DEF IInv, Restore, pool
<1>2. DevicesType'
  <2>1. CASE RestorePage
    <3>1. PICK image \in Repairable : file' = [file EXCEPT ![image.id] = {image.lsn}]
      BY <2>1, ZenonT(60) DEF RestorePage
    <3>2. image \in Image
      BY <1>1, <3>1, Zenon DEF Repairable, TypeOK, DevicesType
    <3>3. WritePage(image)
      BY <2>1, <3>1, ZenonT(60) DEF RestorePage, WritePage
    <3> QED
      BY <1>1, <3>2, <3>3, WritePageType, Zenon DEF TypeOK
  <2>2. CASE SyncRestored
    BY <1>1, <2>2, Zenon DEF SyncRestored, SyncFile, TypeOK, DevicesType
  <2>3. CASE ClearRestored
    BY <1>1, <2>3, Zenon DEF ClearRestored, ClearBatch, TypeOK, DevicesType
  <2> QED
    BY <2>1, <2>2, <2>3, Zenon DEF Restore
<1>3. TypeOK'
  BY <1>1, <1>2, Zenon DEF TypeOK, index, contents, flushing, extent
<1>4. \A t \in Threads : ThreadInv(th[t])'
  BY <1>1, OtherThread, Zenon DEF IInv, Quiet, extent, contents
<1>5. Threads2' /\ IndexInv'
  BY <1>1, ZenonT(60) DEF IInv, Threads2, IndexInv, index, contents, extent
<1>6. PinInv'
  BY <1>1, ZenonT(60) DEF IInv, PinInv, Pinners, index
<1> QED
  BY <1>3, <1>4, <1>5, <1>6, Zenon DEF IInv

LEMMA StutterInv ==
    ASSUME IInv, UNCHANGED vars
    PROVE  IInv'
<1>1. TypeOK /\ UNCHANGED <<index, pin_count, contents, flushing, extent, th, devices>>
  BY Zenon DEF IInv, vars
<1>2. TypeOK'
  <2>1. DevicesType' /\ flush_sequence' \subseteq Threads /\ flush_poisoned' \in BOOLEAN
    BY <1>1, SameDevices, SameFlushing, Zenon
  <2> QED
    BY <1>1, <2>1, Zenon DEF TypeOK, index, contents, extent
<1>3. \A t \in Threads : ThreadInv(th[t])'
  BY <1>1, OtherThread, Zenon DEF IInv, Quiet, extent, contents
<1>4. Threads2' /\ IndexInv'
  BY <1>1, ZenonT(60) DEF IInv, Threads2, IndexInv, index, contents, extent
<1>5. PinInv'
  BY <1>1, ZenonT(60) DEF IInv, PinInv, Pinners, index
<1> QED
  BY <1>2, <1>3, <1>4, <1>5, ZenonT(60) DEF IInv

-----------------------------------------------------------------------------
(* Pins. *)

\* A pinned frame is mapped.
LEMMA PinnedMapped ==
    ASSUME TypeOK, IndexInv, NEW t \in Threads, ThreadInv(th[t]), NEW f \in PinnedBy(th[t])
    PROVE  f \in Frames /\ \E p \in Pages : page_table[p] = {f} /\ frame_page[f] = {p}
<1>1. \E p \in Pages : page_table[p] = {f}
  <2>1. CASE \E g \in th[t].held : f = g.frame
    BY <2>1, ZenonT(60) DEF ThreadInv, PinsOK, TypeOK, ThreadState, Guard
  <2>2. CASE th[t].pc \in {"latch", "unload"} /\ f \in th[t].frame
    BY <2>2, ZenonT(60) DEF ThreadInv, ThreadOK, PinsOK, Opt
  <2> QED
    BY <2>1, <2>2 DEF PinnedBy
<1>2. PICK p \in Pages : page_table[p] = {f}
  BY <1>1
<1>3. f \in Frames /\ p \in frame_page[f]
  BY <1>2 DEF TypeOK, IndexInv
<1> QED
  BY <1>2, <1>3, OnePage

LEMMA CountPinners ==
    ASSUME Counting, NEW f \in Frames
    PROVE  /\ Pinners(f) \in SUBSET Threads
           /\ Cardinality(Pinners(f)) \in 0 .. Cardinality(Threads)
           /\ Cardinality(Pinners(f)) = 0 <=> Pinners(f) = {}
<1>1. Pinners(f) \in SUBSET Threads
  BY DEF Pinners
<1> QED
  BY <1>1 DEF Counting

LEMMA Pin ==
    ASSUME Counting, TypeOK, PinInv, NEW t \in Threads, NEW f \in Frames, Others(t),
           f \notin PinnedBy(th[t]), PinnedBy(th'[t]) = PinnedBy(th[t]) \cup {f},
           pin_count' = Pinned(f)
    PROVE  /\ pin_count' \in [Frames -> 0 .. Cardinality(Threads)]
           /\ \A g \in Frames : pin_count'[g] = Cardinality(Pinners(g)')
           /\ \A g \in Frames \ {f} : Pinners(g)' = Pinners(g)
<1>1. \A g \in Frames \ {f} : Pinners(g)' = Pinners(g)
  BY DEF Pinners, Others
<1>2. Pinners(f)' = Pinners(f) \cup {t} /\ t \notin Pinners(f)
  BY DEF Pinners, Others
<1>3. Cardinality(Pinners(f)') = pin_count[f] + 1
  <2>1. Pinners(f) \in SUBSET Threads /\ pin_count[f] = Cardinality(Pinners(f))
    BY CountPinners DEF PinInv
  <2>2. Cardinality(Pinners(f) \cup {t}) = Cardinality(Pinners(f)) + 1
    BY <1>2, <2>1 DEF Counting
  <2> QED
    BY <1>2, <2>1, <2>2, Zenon
<1>4. Pinners(f)' \in SUBSET Threads
  BY DEF Pinners
<1>5. Cardinality(Pinners(f)') \in 0 .. Cardinality(Threads)
  BY <1>4, Zenon DEF Counting
<1>6. \A g \in Frames : pin_count'[g] = IF g = f THEN pin_count[f] + 1 ELSE pin_count[g]
  BY DEF TypeOK, Pinned
<1>7. pin_count[f] + 1 \in 0 .. Cardinality(Threads)
  BY <1>3, <1>5, Zenon
<1>8. pin_count' \in [Frames -> 0 .. Cardinality(Threads)]
  BY <1>7 DEF TypeOK, Pinned
<1> QED
  BY <1>1, <1>3, <1>6, <1>8, Zenon DEF PinInv

LEMMA Unpinned ==
    ASSUME Counting, TypeOK, PinInv, NEW t \in Threads, NEW f \in Frames, Others(t),
           f \in PinnedBy(th[t]), PinnedBy(th'[t]) = PinnedBy(th[t]) \ {f},
           pin_count' = [pin_count EXCEPT ![f] = @ - 1]
    PROVE  /\ pin_count' \in [Frames -> 0 .. Cardinality(Threads)]
           /\ \A g \in Frames : /\ pin_count'[g] = Cardinality(Pinners(g)')
                                /\ Pinners(g)' \subseteq Pinners(g)
<1>1. \A g \in Frames \ {f} : Pinners(g)' = Pinners(g)
  BY DEF Pinners, Others
<1>2. Pinners(f)' = Pinners(f) \ {t} /\ t \in Pinners(f)
  BY DEF Pinners, Others
<1>3. Cardinality(Pinners(f)') = pin_count[f] - 1
  <2>1. Pinners(f) \in SUBSET Threads /\ pin_count[f] = Cardinality(Pinners(f))
    BY CountPinners, Zenon DEF PinInv
  <2>2. Cardinality(Pinners(f) \ {t}) = Cardinality(Pinners(f)) - 1
    BY <1>2, <2>1, Zenon DEF Counting
  <2> QED
    BY <1>2, <2>1, <2>2, Zenon
<1>4. pin_count[f] # 0
  BY <1>2, CountPinners, Zenon DEF PinInv
<1>5. \A g \in Frames : pin_count'[g] = IF g = f THEN pin_count[f] - 1 ELSE pin_count[g]
  BY DEF TypeOK
<1>6. Cardinality(Threads) \in Nat
  BY DEF Counting
<1>7. pin_count[f] - 1 \in 0 .. Cardinality(Threads)
  <2>1. pin_count[f] \in 0 .. Cardinality(Threads)
    BY Zenon DEF TypeOK
  <2> QED
    BY <1>4, <1>6, <2>1
<1>8. pin_count' \in [Frames -> 0 .. Cardinality(Threads)]
  BY <1>7 DEF TypeOK
<1> QED
  BY <1>1, <1>2, <1>3, <1>5, <1>8, ZenonT(60) DEF PinInv

\* The parts of a step that changes what the pool's threads share.
LEMMA IndexStep ==
    ASSUME IInv, NEW t \in Threads, TypeOK', ThreadInv(th[t])', IndexInv', PinInv',
           \A u \in Threads \ {t} : Untouched(u) /\ Grows(u) /\ Apart(th'[t], th[u])
    PROVE  IInv'
<1>1. ASSUME NEW u \in Threads PROVE ThreadInv(th[u])'
  BY <1>1, UntouchedInv DEF IInv
<1>2. Threads2'
  BY StepApart, ZenonT(60) DEF IInv, Others, Untouched
<1> QED
  BY <1>1, <1>2, ZenonT(60) DEF IInv

\* Steps of t on what only t has.
LEMMA UntouchedBy ==
    ASSUME IInv, NEW t \in Threads, Others(t), UNCHANGED <<page_table, frame_page>>,
           NEW u \in Threads \ {t},
           OwnedBy(th[u]) \subseteq owned', ClaimedBy(th[u]) \subseteq loading'
    PROVE  Untouched(u)
BY ZenonT(60) DEF Untouched, Others

-----------------------------------------------------------------------------
(* Steps that change the index. *)

LEMMA StartNewStep ==
    ASSUME IInv, NEW t \in Threads, StartNew(t)
    PROVE  IInv'
<1>1. /\ TypeOK /\ ThreadInv(th[t]) /\ th[t] \in ThreadState /\ IndexInv /\ PinInv
      /\ th[t].pc \in {"idle", "hold"}
      /\ UNCHANGED <<index, pin_count, contents, known>>
  BY DEF IInv, TypeOK, StartNew, Begin
<1>2. lsn' \in 0 .. MaxLsn
  <2>1. lsn \in 0 .. MaxLsn /\ MaxLsn \in Nat /\ lsn < MaxLsn /\ lsn' = lsn + 1
    BY <1>1, DoubleWriteBounds, Zenon DEF StartNew, TypeOK
  <2> QED
    BY <2>1
<1>3. PICK p \in Pages \ allocated :
         /\ allocated' = allocated \cup {p}
         /\ th' = [th EXCEPT ![t].pc = "acquire", ![t].op = "new", ![t].page = {p}, ![t].lsn = lsn']
  BY Zenon DEF StartNew
<1> DEFINE r == [th[t] EXCEPT !.pc = "acquire", !.op = "new", !.page = {p}, !.lsn = lsn']
<1>4. r \in ThreadState
  BY <1>1, <1>2, <1>3, ZenonT(60) DEF ThreadState
<1>5. th' = [th EXCEPT ![t] = r]
  BY <1>3, ZenonT(60)
<1>6. th'[t] = r /\ Others(t) /\ th' \in [Threads -> ThreadState]
  BY <1>1, <1>4, <1>5, Moved, ZenonT(60)
<1>7. /\ th'[t].pc = "acquire" /\ th'[t].op = "new" /\ th'[t].page = {p}
      /\ th'[t].frame = th[t].frame /\ th'[t].held = th[t].held
      /\ th'[t].snapshot = th[t].snapshot
  BY <1>1, <1>6, ZenonT(60) DEF ThreadState
<1>8. p \in Pages /\ p \notin known /\ page_table[p] = {}
  BY <1>1, <1>3, Zenon DEF TypeOK, IndexInv, Opt
<1>9. ThreadInv(th[t])'
  <2>1. ThreadOK(th[t])'
    <3>1. \A g \in th[t].held : g.page # p
      BY <1>1, <1>8, ZenonT(60) DEF ThreadInv, PinsOK
    <3> QED
      BY <1>1, <1>7, <1>8, <3>1, ZenonT(60) DEF ThreadInv, ThreadOK, FlushPcs, FillPcs, SeekPcs, Opt
  <2>2. CopiesOK(th[t])'
    BY <1>1, <1>7, ZenonT(60) DEF ThreadInv, CopiesOK, FlushPcs
  <2>3. OwnOK(th[t])'
    BY <1>7, Zenon DEF OwnOK, OwnedBy, FlushPcs, FillPcs
  <2>4. SeekOK(th[t])'
    BY <1>1, <1>3, <1>7, <1>8, Zenon DEF SeekOK, SoughtBy, ClaimedBy, index
  <2>5. PinsOK(th[t])'
    BY <1>1, <1>7 DEF ThreadInv, PinsOK, index
  <2> QED
    BY <2>1, <2>2, <2>3, <2>4, <2>5, Zenon DEF ThreadInv
<1>10. TypeOK'
  <2>1. DevicesType' /\ flush_sequence' \subseteq Threads /\ flush_poisoned' \in BOOLEAN
    BY <1>1, SameDevices, SameFlushing, Zenon DEF StartNew
  <2> QED
    BY <1>1, <1>2, <1>3, <1>6, <2>1, Zenon DEF TypeOK, index, contents
<1>11. IndexInv'
  BY <1>1, <1>3, Zenon DEF IndexInv, index, contents
<1>12. PinInv'
  <2>1. PinnedBy(th'[t]) = PinnedBy(th[t])
    BY <1>1, <1>7, ZenonT(60) DEF PinnedBy
  <2> QED
    BY <1>1, <1>6, <2>1, SamePinners, Zenon DEF PinInv, TypeOK, index
<1>13. ASSUME NEW u \in Threads \ {t} PROVE Untouched(u) /\ Grows(u) /\ Apart(th'[t], th[u])
  <2>1. ThreadInv(th[u])
    BY Zenon DEF IInv
  <2>2. Untouched(u)
    BY <1>1, <1>6, <2>1, UntouchedBy, Zenon DEF index, ThreadInv, OwnOK, SeekOK
  <2>3. Grows(u)
    BY <1>1, <1>3, Zenon DEF Grows, contents
  <2>4. Apart(th'[t], th[u])
    BY <1>3, <1>7, <2>1, ZenonT(60) DEF Apart, OwnedBy, ClaimedBy, MadeBy, ThreadInv, SeekOK, FillPcs, FlushPcs
  <2> QED
    BY <2>2, <2>3, <2>4, ZenonT(60)
<1> QED
  BY <1>9, <1>10, <1>11, <1>12, <1>13, IndexStep, Zenon

LEMMA PinCachedStep ==
    ASSUME Counting, IInv, NEW t \in Threads, PinCached(t)
    PROVE  IInv'
<1>1. /\ TypeOK /\ ThreadInv(th[t]) /\ th[t] \in ThreadState /\ IndexInv /\ PinInv /\ Threads2
      /\ th[t].pc = "lookup" /\ th[t].op = "fetch"
      /\ UNCHANGED <<page_table, frame_page, free_list, owned, loading, evicting, contents, extent>>
  BY ZenonT(60) DEF IInv, TypeOK, PinCached, At, ThreadInv, ThreadOK
<1>2. PICK p \in th[t].page \ evicting : \E f \in page_table[p] :
         /\ pin_count' = Pinned(f) /\ replacer' = Tracked(f)
         /\ th' = [th EXCEPT ![t].pc = "latch", ![t].frame = {f}]
  BY ZenonT(60) DEF PinCached
<1>3. PICK f \in page_table[p] :
         /\ pin_count' = Pinned(f) /\ replacer' = Tracked(f)
         /\ th' = [th EXCEPT ![t].pc = "latch", ![t].frame = {f}]
  BY <1>2, ZenonT(60)
<1>4. p \in Pages /\ f \in Frames /\ th[t].page = {p}
  <2>1. p \in Pages /\ th[t].page = {p}
    BY <1>1, <1>2, ZenonT(60) DEF ThreadState, ThreadInv, ThreadOK, Opt
  <2>2. f \in Frames
    BY <1>1, <1>3, <2>1, ZenonT(60) DEF TypeOK
  <2> QED
    BY <2>1, <2>2, Zenon
<1>5. page_table[p] = {f} /\ frame_page[f] = {p}
  BY <1>1, <1>3, <1>4, OneFrame, OnePage, Zenon DEF IndexInv
<1>6. f \notin owned
  BY <1>1, <1>2, <1>5, Zenon DEF IndexInv
<1> DEFINE r == [th[t] EXCEPT !.pc = "latch", !.frame = {f}]
<1>7. r \in ThreadState
  BY <1>1, <1>4, ZenonT(60) DEF ThreadState
<1>8. th' = [th EXCEPT ![t] = r]
  BY <1>3, ZenonT(60)
<1>9. th'[t] = r /\ Others(t) /\ th' \in [Threads -> ThreadState]
  BY <1>1, <1>7, <1>8, Moved, ZenonT(60)
<1>10. /\ th'[t].pc = "latch" /\ th'[t].op = th[t].op /\ th'[t].page = {p}
       /\ th'[t].frame = {f} /\ th'[t].held = th[t].held
       /\ th'[t].snapshot = th[t].snapshot
  BY <1>1, <1>4, <1>9, ZenonT(60) DEF ThreadState
<1>11. f \notin PinnedBy(th[t]) /\ PinnedBy(th'[t]) = PinnedBy(th[t]) \cup {f}
  <2>1. ASSUME NEW g \in th[t].held PROVE g.frame # f
    <3>1. g.page \in Pages /\ page_table[g.page] = {g.frame} /\ g.page # p
      BY <1>1, <1>4, ZenonT(60) DEF ThreadInv, ThreadOK, PinsOK, ThreadState, Guard
    <3> QED
      BY <1>1, <1>4, <1>5, <3>1, ZenonT(60) DEF IndexInv
  <2> QED
    BY <1>1, <1>10, <2>1, ZenonT(60) DEF PinnedBy
<1>12. /\ pin_count' \in [Frames -> 0 .. Cardinality(Threads)]
       /\ \A g \in Frames : pin_count'[g] = Cardinality(Pinners(g)')
       /\ \A g \in Frames \ {f} : Pinners(g)' = Pinners(g)
  BY <1>1, <1>3, <1>4, <1>9, <1>11, Pin, Zenon
<1>13. \A g \in Frames : replacer'[g] = IF g = f THEN "pinned" ELSE replacer[g]
  BY <1>1, <1>3, Zenon DEF Tracked, TypeOK
<1>14. ThreadInv(th[t])'
  <2>1. ThreadOK(th[t])'
    BY <1>1, <1>4, <1>10, ZenonT(60) DEF ThreadInv, ThreadOK, FlushPcs, FillPcs, SeekPcs, Opt
  <2>2. CopiesOK(th[t])'
    BY <1>1, <1>10, ZenonT(60) DEF ThreadInv, CopiesOK, FlushPcs
  <2>3. OwnOK(th[t])'
    BY <1>10, Zenon DEF OwnOK, OwnedBy, FlushPcs, FillPcs
  <2>4. SeekOK(th[t])'
    BY <1>1, <1>4, <1>10, ZenonT(60) DEF ThreadInv, SeekOK, SoughtBy, ClaimedBy, SeekPcs, FillPcs, FlushPcs, extent
  <2>5. PinsOK(th[t])'
    BY <1>1, <1>5, <1>10, ZenonT(60) DEF ThreadInv, PinsOK, extent
  <2> QED
    BY <2>1, <2>2, <2>3, <2>4, <2>5, ZenonT(60) DEF ThreadInv
<1>15. TypeOK'
  <2>1. DevicesType' /\ flush_sequence' \subseteq Threads /\ flush_poisoned' \in BOOLEAN
    BY <1>1, SameDevices, SameFlushing, Zenon DEF PinCached
  <2>2. replacer' \in [Frames -> {"untracked", "pinned", "evictable"}]
    BY <1>1, <1>3, ZenonT(60) DEF TypeOK, Tracked
  <2> QED
    BY <1>1, <1>9, <1>12, <2>1, <2>2, Zenon DEF TypeOK, contents, extent
<1>16. IndexInv'
  <2>1. \A g \in Frames : replacer'[g] # "untracked" => frame_page'[g] # {} /\ g \notin owned'
    BY <1>1, <1>5, <1>6, <1>13, ZenonT(60) DEF IndexInv
  <2> QED
    BY <1>1, <2>1, ZenonT(60) DEF IndexInv, contents, extent
<1>17. PinInv'
  BY <1>1, <1>6, <1>12, <1>13, ZenonT(60) DEF PinInv, TypeOK
<1>18. ASSUME NEW u \in Threads \ {t} PROVE Untouched(u) /\ Grows(u) /\ Apart(th'[t], th[u])
  <2>1. ThreadInv(th[u])
    BY DEF IInv
  <2>2. Untouched(u)
    BY <1>1, <1>9, <2>1, UntouchedBy, ZenonT(60) DEF ThreadInv, OwnOK, SeekOK
  <2>3. Apart(th'[t], th[u])
    BY <1>1, <1>10, Zenon DEF Apart, OwnedBy, ClaimedBy, MadeBy, FillPcs, FlushPcs, SeekPcs
  <2> QED
    BY <1>1, <2>2, <2>3, SameGrowth, Zenon
<1> QED
  BY <1>14, <1>15, <1>16, <1>17, <1>18, IndexStep, ZenonT(60)

LEMMA ClaimLoadStep ==
    ASSUME IInv, NEW t \in Threads, ClaimLoad(t)
    PROVE  IInv'
<1>1. /\ TypeOK /\ ThreadInv(th[t]) /\ th[t] \in ThreadState /\ IndexInv /\ PinInv
      /\ th[t].pc = "lookup" /\ th[t].op = "fetch"
      /\ UNCHANGED <<page_table, frame_page, free_list, replacer, owned, evicting, pin_count, contents, extent>>
  BY ZenonT(60) DEF IInv, TypeOK, ClaimLoad, At, ThreadInv, ThreadOK
<1>2. PICK p \in th[t].page \ (evicting \cup loading) :
         ~Resident(p) /\ loading' = loading \cup {p} /\ Goto(t, "acquire")
  BY ZenonT(60) DEF ClaimLoad
<1>3. p \in Pages /\ th[t].page = {p} /\ page_table[p] = {} /\ p \notin loading
  BY <1>1, <1>2, ZenonT(60) DEF ThreadState, ThreadInv, ThreadOK, Opt, Resident
<1>4. /\ Others(t) /\ th' \in [Threads -> ThreadState] /\ th'[t].pc = "acquire"
      /\ th'[t].snapshot = th[t].snapshot
      /\ th'[t].frame = th[t].frame /\ th'[t].page = th[t].page
      /\ th'[t].op = th[t].op /\ th'[t].held = th[t].held
  BY <1>1, <1>2, GotoFields, ZenonT(60)
<1>5. ThreadInv(th[t])'
  <2>1. ThreadOK(th[t])'
    BY <1>1, <1>4, ZenonT(60) DEF ThreadInv, ThreadOK, FlushPcs, FillPcs, SeekPcs
  <2>2. CopiesOK(th[t])'
    BY <1>1, <1>4, ZenonT(60) DEF ThreadInv, CopiesOK, FlushPcs
  <2>3. OwnOK(th[t])'
    BY <1>4, Zenon DEF OwnOK, OwnedBy, FlushPcs, FillPcs
  <2>4. SeekOK(th[t])'
    BY <1>1, <1>2, <1>3, <1>4, ZenonT(60) DEF ThreadInv, SeekOK, SoughtBy, ClaimedBy, SeekPcs, extent
  <2>5. PinsOK(th[t])'
    BY <1>1, <1>4, ZenonT(60) DEF ThreadInv, PinsOK, extent
  <2> QED
    BY <2>1, <2>2, <2>3, <2>4, <2>5, ZenonT(60) DEF ThreadInv
<1>6. TypeOK'
  <2>1. DevicesType' /\ flush_sequence' \subseteq Threads /\ flush_poisoned' \in BOOLEAN
    BY <1>1, SameDevices, SameFlushing, ZenonT(60) DEF ClaimLoad
  <2> QED
    BY <1>1, <1>2, <1>3, <1>4, <2>1, ZenonT(60) DEF TypeOK, contents, extent
<1>7. IndexInv'
  BY <1>1, ZenonT(60) DEF IndexInv, contents, extent
<1>8. PinInv'
  <2>1. PinnedBy(th'[t]) = PinnedBy(th[t])
    BY <1>1, <1>4, ZenonT(60) DEF PinnedBy
  <2> QED
    BY <1>1, <1>4, <2>1, SamePinners, ZenonT(60) DEF PinInv, TypeOK
<1>9. ASSUME NEW u \in Threads \ {t} PROVE Untouched(u) /\ Grows(u) /\ Apart(th'[t], th[u])
  <2>1. ThreadInv(th[u])
    BY DEF IInv
  <2>2. Untouched(u)
    BY <1>1, <1>2, <1>4, <2>1, UntouchedBy, ZenonT(60) DEF ThreadInv, OwnOK, SeekOK
  <2>3. Apart(th'[t], th[u])
    BY <1>1, <1>3, <1>4, <2>1, ZenonT(60)
       DEF Apart, OwnedBy, ClaimedBy, MadeBy, ThreadInv, SeekOK, FillPcs, FlushPcs
  <2> QED
    BY <1>1, <2>2, <2>3, SameGrowth, ZenonT(60)
<1> QED
  BY <1>5, <1>6, <1>7, <1>8, <1>9, IndexStep, ZenonT(60)

LEMMA UnloadStep ==
    ASSUME IInv, NEW t \in Threads, Unload(t)
    PROVE  IInv'
<1>1. /\ TypeOK /\ ThreadInv(th[t]) /\ th[t] \in ThreadState /\ IndexInv /\ PinInv /\ Threads2
      /\ th[t].pc = "unload" /\ loading' = loading \ th[t].page
      /\ UNCHANGED <<page_table, frame_page, free_list, replacer, owned, evicting, pin_count, contents, extent>>
  BY ZenonT(60) DEF IInv, TypeOK, Unload, At
<1>2. /\ ThreadInv(th[t])' /\ Others(t) /\ th' \in [Threads -> ThreadState] /\ Fewer(t)
      /\ PinnedBy(th'[t]) = PinnedBy(th[t])
  <2>1. CASE th[t].frame = {}
    <3>1. th'[t] = Caller(t) /\ Others(t) /\ th' \in [Threads -> ThreadState]
      BY <1>1, <2>1, ReturnMoves, Zenon DEF Unload
    <3>2. PinnedBy(th[t]) = {g.frame : g \in th[t].held}
      BY <2>1, Zenon DEF PinnedBy
    <3>3. UNCHANGED page_table /\ known \subseteq known'
      BY <1>1, Zenon DEF extent
    <3> QED
      BY <3>1, <3>2, <3>3, ReturnInv, Zenon
  <2>2. CASE th[t].frame # {}
    <3>1. /\ Others(t) /\ th' \in [Threads -> ThreadState] /\ th'[t].pc = "latch"
          /\ th'[t].snapshot = th[t].snapshot
          /\ th'[t].frame = th[t].frame /\ th'[t].page = th[t].page
          /\ th'[t].op = th[t].op /\ th'[t].held = th[t].held
      BY <1>1, <2>2, GotoFields, ZenonT(60) DEF Unload
    <3>2. ThreadOK(th[t])'
      BY <1>1, <2>2, <3>1, ZenonT(60) DEF ThreadInv, ThreadOK, FlushPcs, FillPcs, SeekPcs
    <3>3. CopiesOK(th[t])'
      BY <1>1, <3>1, ZenonT(60) DEF ThreadInv, CopiesOK, FlushPcs
    <3>4. OwnOK(th[t])'
      BY <3>1, ZenonT(60) DEF OwnOK, OwnedBy, FlushPcs, FillPcs
    <3>5. SeekOK(th[t])'
      BY <1>1, <3>1, ZenonT(60) DEF ThreadInv, SeekOK, SoughtBy, ClaimedBy, SeekPcs, FillPcs, FlushPcs, extent
    <3>6. PinsOK(th[t])'
      BY <1>1, <3>1, ZenonT(60) DEF ThreadInv, PinsOK, extent
    <3>7. Fewer(t) /\ PinnedBy(th'[t]) = PinnedBy(th[t])
      BY <1>1, <3>1, ZenonT(60) DEF Fewer, OwnedBy, ClaimedBy, MadeBy, PinnedBy, SeekPcs, FillPcs, FlushPcs
    <3> QED
      BY <3>1, <3>2, <3>3, <3>4, <3>5, <3>6, <3>7, ZenonT(60) DEF ThreadInv
  <2> QED
    BY <2>1, <2>2, ZenonT(60)
<1>3. TypeOK'
  <2>1. DevicesType' /\ flush_sequence' \subseteq Threads /\ flush_poisoned' \in BOOLEAN
    BY <1>1, SameDevices, SameFlushing, Zenon DEF Unload
  <2> QED
    BY <1>1, <1>2, <2>1, ZenonT(60) DEF TypeOK, contents, extent
<1>4. IndexInv'
  BY <1>1, ZenonT(60) DEF IndexInv, contents, extent
<1>5. PinInv'
  BY <1>1, <1>2, SamePinners, ZenonT(60) DEF PinInv, TypeOK
<1>6. ASSUME NEW u \in Threads \ {t} PROVE Untouched(u) /\ Grows(u) /\ Apart(th'[t], th[u])
  <2>1. ThreadInv(th[u]) /\ Apart(th[t], th[u])
    BY <1>1, ZenonT(60) DEF IInv, Threads2
  <2>2. Untouched(u)
    <3>1. ClaimedBy(th[t]) = th[t].page
      BY <1>1, ZenonT(60) DEF ClaimedBy
    <3> QED
      BY <1>1, <1>2, <2>1, <3>1, UntouchedBy, ZenonT(60) DEF ThreadInv, OwnOK, SeekOK, Apart
  <2>3. Apart(th'[t], th[u])
    BY <1>2, <2>1, Zenon DEF Apart, Fewer
  <2> QED
    BY <1>1, <2>2, <2>3, SameGrowth, ZenonT(60)
<1> QED
  BY <1>2, <1>3, <1>4, <1>5, <1>6, IndexStep, Zenon

\* A thread gets a frame to fill.
LEMMA AcquiredInv ==
    ASSUME IInv, NEW t \in Threads, th[t].pc = "acquire",
           NEW pc \in {"evict", "read", "install"}, NEW f \in Frames,
           f \notin owned, Pinners(f) = {}, frame_page[f] = {} <=> pc # "evict",
           Acquired(t, f, pc), UNCHANGED <<page_table, frame_page, loading, pin_count, contents, extent>>
    PROVE  /\ ThreadInv(th[t])' /\ th' \in [Threads -> ThreadState]
           /\ \A g \in Frames : Pinners(g)' = Pinners(g)
           /\ \A u \in Threads \ {t} : Untouched(u) /\ Grows(u) /\ Apart(th'[t], th[u])
<1>1. /\ TypeOK /\ ThreadInv(th[t]) /\ th[t] \in ThreadState /\ IndexInv /\ Threads2
      /\ owned' = owned \cup {f}
  BY DEF IInv, TypeOK, Acquired
<1> DEFINE r == [th[t] EXCEPT !.pc = pc, !.frame = {f}]
<1>2. r \in ThreadState
  BY <1>1, ZenonT(60) DEF ThreadState
<1>3. th' = [th EXCEPT ![t] = r]
  BY ZenonT(60) DEF Acquired
<1>4. th'[t] = r /\ Others(t) /\ th' \in [Threads -> ThreadState]
  BY <1>1, <1>2, <1>3, Moved, ZenonT(60)
<1>5. /\ th'[t].pc = pc /\ th'[t].op = th[t].op /\ th'[t].page = th[t].page
      /\ th'[t].frame = {f} /\ th'[t].held = th[t].held
      /\ th'[t].snapshot = th[t].snapshot
  BY <1>1, <1>4, ZenonT(60) DEF ThreadState
<1>6. pc \in FillPcs \ FlushPcs /\ pc \in SeekPcs
  BY DEF SeekPcs, FillPcs, FlushPcs
<1>7. ThreadInv(th[t])'
  <2>1. ThreadOK(th[t])'
    BY <1>1, <1>5, <1>6, ZenonT(60) DEF ThreadInv, ThreadOK, Opt, SeekPcs
  <2>2. CopiesOK(th[t])'
    BY <1>1, <1>5, <1>6, ZenonT(60) DEF ThreadInv, CopiesOK, FlushPcs
  <2>3. OwnOK(th[t])'
    BY <1>1, <1>5, <1>6, Zenon DEF OwnOK, OwnedBy
  <2>4. SeekOK(th[t])'
    BY <1>1, <1>5, <1>6, Zenon DEF ThreadInv, SeekOK, SoughtBy, ClaimedBy, SeekPcs, extent
  <2>5. PinsOK(th[t])'
    BY <1>1, <1>5, ZenonT(60) DEF ThreadInv, PinsOK, extent
  <2> QED
    BY <2>1, <2>2, <2>3, <2>4, <2>5, ZenonT(60) DEF ThreadInv
<1>8. PinnedBy(th'[t]) = PinnedBy(th[t])
  BY <1>5, ZenonT(60) DEF PinnedBy
<1>9. ASSUME NEW u \in Threads \ {t} PROVE Untouched(u) /\ Grows(u) /\ Apart(th'[t], th[u])
  <2>1. ThreadInv(th[u]) /\ Apart(th[t], th[u])
    BY <1>1, ZenonT(60) DEF IInv, Threads2
  <2>2. Untouched(u)
    BY <1>1, <1>4, <2>1, UntouchedBy, Zenon DEF ThreadInv, OwnOK, SeekOK
  <2>3. OwnedBy(th'[t]) = {f} /\ f \notin OwnedBy(th[u])
    BY <1>5, <1>6, <2>1, ZenonT(60) DEF OwnedBy, ThreadInv, OwnOK
  <2>4. ClaimedBy(th'[t]) = ClaimedBy(th[t]) /\ MadeBy(th'[t]) = MadeBy(th[t])
    BY <1>5, <1>6, Zenon DEF ClaimedBy, MadeBy, SeekPcs
  <2> QED
    BY <2>1, <2>2, <2>3, <2>4, SameGrowth, ZenonT(60) DEF Apart
<1> QED
  BY <1>4, <1>7, <1>8, <1>9, SamePinners, Zenon

LEMMA TakeFreeStep ==
    ASSUME IInv, NEW t \in Threads, TakeFree(t)
    PROVE  IInv'
<1>1. /\ TypeOK /\ IndexInv /\ PinInv /\ th[t].pc = "acquire"
      /\ UNCHANGED <<page_table, frame_page, replacer, loading, evicting, pin_count, contents, extent>>
  BY ZenonT(60) DEF IInv, TakeFree, At
<1>2. PICK f \in free_list : free_list' = free_list \ {f} /\ Acquired(t, f, Filling(t))
  BY Zenon DEF TakeFree
<1>3. /\ f \in Frames /\ f \notin owned /\ frame_page[f] = {} /\ owned' = owned \cup {f}
      /\ Filling(t) \in {"read", "install"}
  BY <1>1, <1>2, Zenon DEF TypeOK, IndexInv, Acquired, Filling
<1>4. Pinners(f) = {}
  BY <1>1, <1>3, PinnedMapped, Zenon DEF Pinners, IInv
<1>5. /\ ThreadInv(th[t])' /\ th' \in [Threads -> ThreadState]
      /\ \A g \in Frames : Pinners(g)' = Pinners(g)
      /\ \A u \in Threads \ {t} : Untouched(u) /\ Grows(u) /\ Apart(th'[t], th[u])
  BY <1>1, <1>2, <1>3, <1>4, AcquiredInv, ZenonT(60)
<1>6. TypeOK'
  <2>1. DevicesType' /\ flush_sequence' \subseteq Threads /\ flush_poisoned' \in BOOLEAN
    BY <1>1, SameDevices, SameFlushing, ZenonT(60) DEF TakeFree
  <2> QED
    BY <1>1, <1>2, <1>3, <1>5, <2>1, Zenon DEF TypeOK, contents, extent
<1>7. IndexInv'
  BY <1>1, <1>2, <1>3, ZenonT(60) DEF IndexInv, contents, extent
<1>8. PinInv'
  BY <1>1, <1>3, <1>4, <1>5, Zenon DEF PinInv, TypeOK
<1> QED
  BY <1>5, <1>6, <1>7, <1>8, IndexStep, Zenon

LEMMA TakeVictimStep ==
    ASSUME IInv, NEW t \in Threads, TakeVictim(t)
    PROVE  IInv'
<1>1. /\ TypeOK /\ IndexInv /\ PinInv /\ th[t].pc = "acquire"
      /\ UNCHANGED <<page_table, frame_page, free_list, loading, pin_count, contents, extent>>
  BY Zenon DEF IInv, TakeVictim, At
<1>2. PICK f \in Victims :
         /\ replacer' = [replacer EXCEPT ![f] = "untracked"]
         /\ evicting' = evicting \cup frame_page[f]
         /\ Acquired(t, f, "evict")
  BY Zenon DEF TakeVictim
<1>3. f \in Frames /\ replacer[f] = "evictable"
  BY <1>2, ZenonT(60) DEF Victims, Evictable
<1>4. f \notin owned /\ frame_page[f] # {} /\ Pinners(f) = {} /\ owned' = owned \cup {f} /\ f \notin free_list
  BY <1>1, <1>2, <1>3, Zenon DEF IndexInv, PinInv, Acquired
<1>5. /\ ThreadInv(th[t])' /\ th' \in [Threads -> ThreadState]
      /\ \A g \in Frames : Pinners(g)' = Pinners(g)
      /\ \A u \in Threads \ {t} : Untouched(u) /\ Grows(u) /\ Apart(th'[t], th[u])
  BY <1>1, <1>2, <1>3, <1>4, AcquiredInv, ZenonT(60)
<1>6. TypeOK'
  <2>1. DevicesType' /\ flush_sequence' \subseteq Threads /\ flush_poisoned' \in BOOLEAN
    BY <1>1, SameDevices, SameFlushing, ZenonT(60) DEF TakeVictim
  <2>2. replacer' \in [Frames -> {"untracked", "pinned", "evictable"}] /\ evicting' \subseteq Pages
    BY <1>1, <1>2, <1>3, Zenon DEF TypeOK
  <2> QED
    BY <1>1, <1>3, <1>4, <1>5, <2>1, <2>2, Zenon DEF TypeOK, contents, extent
<1>7. IndexInv'
  <2>1. \A g \in Frames : replacer'[g] = IF g = f THEN "untracked" ELSE replacer[g]
    BY <1>1, <1>2 DEF TypeOK
  <2> QED
    BY <1>1, <1>2, <1>4, <2>1, ZenonT(60) DEF IndexInv, contents, extent
<1>8. PinInv'
  BY <1>1, <1>2, <1>3, <1>4, <1>5, Zenon DEF PinInv, TypeOK
<1> QED
  BY <1>5, <1>6, <1>7, <1>8, IndexStep, Zenon

LEMMA CompleteEvictionStep ==
    ASSUME IInv, NEW t \in Threads, CompleteEviction(t)
    PROVE  IInv'
<1>1. /\ TypeOK /\ ThreadInv(th[t]) /\ th[t] \in ThreadState /\ IndexInv /\ PinInv /\ Threads2
      /\ th[t].pc = "complete"
      /\ UNCHANGED <<free_list, replacer, owned, loading, pin_count, contents, extent>>
  BY ZenonT(60) DEF IInv, TypeOK, CompleteEviction, At
<1>2. PICK f \in th[t].frame : \E p \in frame_page[f] :
         /\ page_table' = [page_table EXCEPT ![p] = {}]
         /\ frame_page' = [frame_page EXCEPT ![f] = {}]
         /\ evicting' = evicting \ {p}
  BY Zenon DEF CompleteEviction
<1>3. PICK p \in frame_page[f] :
         /\ page_table' = [page_table EXCEPT ![p] = {}]
         /\ frame_page' = [frame_page EXCEPT ![f] = {}]
         /\ evicting' = evicting \ {p}
  BY <1>2, ZenonT(60)
<1>4. f \in Frames /\ th[t].frame = {f} /\ f \in owned /\ OwnedBy(th[t]) = {f}
  <2>1. f \in Frames /\ th[t].frame = {f}
    BY <1>1, <1>2, ZenonT(60) DEF ThreadState, ThreadInv, ThreadOK, Opt
  <2> QED
    BY <1>1, <2>1, ZenonT(60) DEF ThreadInv, OwnOK, OwnedBy, FillPcs
<1>5. p \in Pages /\ frame_page[f] = {p} /\ page_table[p] = {f}
  <2>1. p \in Pages
    BY <1>1, <1>3, <1>4, ZenonT(60) DEF TypeOK
  <2> QED
    BY <1>1, <1>3, <1>4, <2>1, OnePage, OneFrame, ZenonT(60) DEF IndexInv
<1>6. \A q \in Pages : page_table'[q] = IF q = p THEN {} ELSE page_table[q]
  BY <1>1, <1>3, Zenon DEF TypeOK
<1>7. \A g \in Frames : frame_page'[g] = IF g = f THEN {} ELSE frame_page[g]
  BY <1>1, <1>3, ZenonT(60) DEF TypeOK
<1>8. Goto(t, Filling(t)) /\ Filling(t) \in {"read", "install"}
  BY ZenonT(60) DEF CompleteEviction, Filling
<1>9. /\ Others(t) /\ th' \in [Threads -> ThreadState] /\ th'[t].pc = Filling(t)
      /\ th'[t].snapshot = th[t].snapshot
      /\ th'[t].frame = th[t].frame /\ th'[t].page = th[t].page
      /\ th'[t].op = th[t].op /\ th'[t].held = th[t].held
  BY <1>1, <1>8, GotoFields, ZenonT(60)
<1>10. ThreadInv(th[t])'
  <2>1. ThreadOK(th[t])'
    BY <1>1, <1>8, <1>9, Zenon DEF ThreadInv, ThreadOK, FlushPcs, FillPcs, SeekPcs
  <2>2. CopiesOK(th[t])'
    BY <1>1, <1>8, <1>9, ZenonT(60) DEF ThreadInv, CopiesOK, FlushPcs
  <2>3. OwnOK(th[t])'
    BY <1>1, <1>4, <1>7, <1>8, <1>9, ZenonT(60) DEF OwnOK, OwnedBy, FillPcs
  <2>4. SeekOK(th[t])'
    <3>1. th[t].page \subseteq Pages
      BY <1>1, ZenonT(60) DEF ThreadState
    <3> QED
      BY <1>1, <1>6, <1>8, <1>9, <3>1, ZenonT(60)
         DEF ThreadInv, SeekOK, SoughtBy, ClaimedBy, SeekPcs, FillPcs, extent
  <2>5. PinsOK(th[t])'
    <3>1. ASSUME NEW g \in th[t].held PROVE page_table'[g.page] = {g.frame} /\ g.page \in known'
      <4>1. page_table[g.page] = {g.frame} /\ g.page \in known /\ g.page \in Pages /\ g.frame \in PinnedBy(th[t])
        BY <1>1, ZenonT(60) DEF ThreadInv, PinsOK, PinnedBy, ThreadState, Guard
      <4>2. g.frame # f
        BY <1>4, <4>1, PinnedNotOwned, Zenon
      <4> QED
        BY <1>1, <1>5, <1>6, <4>1, <4>2, ZenonT(60) DEF extent
    <3> QED
      BY <1>8, <1>9, <3>1, ZenonT(60) DEF PinsOK
  <2> QED
    BY <2>1, <2>2, <2>3, <2>4, <2>5, Zenon DEF ThreadInv
<1>11. TypeOK'
  <2>1. DevicesType' /\ flush_sequence' \subseteq Threads /\ flush_poisoned' \in BOOLEAN
    BY <1>1, SameDevices, SameFlushing, ZenonT(60) DEF CompleteEviction
  <2>2. page_table' \in [Pages -> SUBSET Frames] /\ frame_page' \in [Frames -> SUBSET Pages]
    BY <1>1, <1>3, ZenonT(60) DEF TypeOK
  <2> QED
    BY <1>1, <1>3, <1>9, <2>1, <2>2, ZenonT(60) DEF TypeOK, contents, extent
<1>12. IndexInv'
  <2>1. \A q \in Pages, g \in Frames : g \in page_table'[q] <=> q \in frame_page'[g]
    BY <1>1, <1>5, <1>6, <1>7, ZenonT(60) DEF IndexInv
  <2>2. /\ \A q \in Pages : Opt(page_table'[q], Frames)
        /\ \A g \in Frames : Opt(frame_page'[g], Pages) /\ Opt(bytes'[g].id, Pages)
    <3>1. \A q \in Pages : Opt(page_table'[q], Frames)
      <4>1. \A q \in Pages : Opt(page_table[q], Frames)
        BY <1>1, ZenonT(60) DEF IndexInv
      <4> QED
        BY <1>6, <4>1, ZenonT(60) DEF Opt
    <3>2. \A g \in Frames : Opt(frame_page'[g], Pages) /\ Opt(bytes'[g].id, Pages)
      <4>1. /\ \A g \in Frames : Opt(frame_page[g], Pages) /\ Opt(bytes[g].id, Pages)
            /\ bytes' = bytes
        BY <1>1, ZenonT(60) DEF IndexInv, contents
      <4> QED
        BY <1>7, <4>1, ZenonT(60) DEF Opt
    <3> QED
      BY <3>1, <3>2, Zenon
  <2>3. /\ \A g \in free_list' : g \notin owned' /\ frame_page'[g] = {}
        /\ \A g \in Frames : replacer'[g] # "untracked" => frame_page'[g] # {} /\ g \notin owned'
    BY <1>1, <1>4, <1>7, ZenonT(60) DEF IndexInv, TypeOK
  <2>4. /\ \A g \in Frames : frame_page'[g] # {} => bytes'[g].id = frame_page'[g]
        /\ \A g \in Frames : frame_page'[g] \subseteq allocated'
    BY <1>1, <1>7, Zenon DEF IndexInv, contents, extent
  <2>5. \A g \in owned' : frame_page'[g] \subseteq evicting'
    <3>1. SUFFICES ASSUME NEW g \in owned, g # f PROVE frame_page[g] \subseteq evicting \ {p}
      BY <1>1, <1>3, <1>7, ZenonT(60) DEF TypeOK
    <3>2. g \in Frames /\ frame_page[g] \subseteq evicting
      BY <1>1, ZenonT(60) DEF IndexInv, TypeOK
    <3>3. frame_page[f] \cap frame_page[g] = {}
      BY <1>1, <1>4, <3>1, <3>2, FramesApart, ZenonT(60)
    <3> QED
      BY <1>5, <3>2, <3>3, Zenon
  <2>6. \A q \in evicting' : \E g \in owned' : q \in frame_page'[g]
    BY <1>1, <1>3, <1>5, <1>7, ZenonT(60) DEF IndexInv, TypeOK
  <2> QED
    BY <2>1, <2>2, <2>3, <2>4, <2>5, <2>6, ZenonT(60) DEF IndexInv, Opt
<1>13. PinInv'
  <2>1. PinnedBy(th'[t]) = PinnedBy(th[t])
    BY <1>1, <1>8, <1>9, Zenon DEF PinnedBy
  <2> QED
    BY <1>1, <1>9, <2>1, SamePinners, ZenonT(60) DEF PinInv, TypeOK
<1>14. ASSUME NEW u \in Threads \ {t} PROVE Untouched(u) /\ Grows(u) /\ Apart(th'[t], th[u])
  <2>1. ThreadInv(th[u]) /\ Apart(th[t], th[u]) /\ th[u] \in ThreadState
    BY <1>1, Zenon DEF IInv, Threads2, TypeOK
  <2>2. f \notin OwnedBy(th[u]) /\ f \notin PinnedBy(th[u])
    BY <1>4, <2>1, PinnedNotOwned, ZenonT(60) DEF Apart
  <2>3. OwnedBy(th[u]) \subseteq Frames /\ SoughtBy(th[u]) \subseteq Pages
    BY <2>1, ZenonT(60) DEF OwnedBy, SoughtBy, ThreadState
  <2>4. \A g \in OwnedBy(th[u]) : frame_page'[g] = frame_page[g]
    BY <1>7, <2>2, <2>3, Zenon
  <2>5. \A q \in SoughtBy(th[u]) : page_table'[q] = page_table[q]
    BY <1>6, <2>1, <2>3, ZenonT(60) DEF ThreadInv, SeekOK
  <2>6. \A q \in Pages : page_table[q] \cap PinnedBy(th[u]) # {} => page_table'[q] = page_table[q]
    BY <1>5, <1>6, <2>2, ZenonT(60)
  <2>7. Untouched(u)
    BY <1>1, <1>9, <2>1, <2>4, <2>5, <2>6, Zenon DEF Untouched, Others, ThreadInv, OwnOK, SeekOK
  <2>8. Apart(th'[t], th[u])
    BY <1>1, <1>8, <1>9, <2>1, ZenonT(60) DEF Apart, OwnedBy, ClaimedBy, MadeBy, FillPcs, SeekPcs
  <2> QED
    BY <1>1, <2>7, <2>8, SameGrowth, Zenon
<1> QED
  BY <1>10, <1>11, <1>12, <1>13, <1>14, IndexStep, ZenonT(60)

LEMMA ReadFailsStep ==
    ASSUME IInv, NEW t \in Threads, ReadFails(t)
    PROVE  IInv'
<1>1. /\ TypeOK /\ ThreadInv(th[t]) /\ th[t] \in ThreadState /\ IndexInv /\ PinInv /\ Threads2
      /\ th[t].pc = "read" /\ Failed(t)
      /\ UNCHANGED <<page_table, frame_page, replacer, loading, evicting, pin_count, contents, extent>>
  BY ZenonT(60) DEF IInv, TypeOK, ReadFails, At
<1>2. PICK f \in Frames : th[t].frame = {f}
  BY <1>1, ZenonT(60) DEF ThreadInv, ThreadOK, Opt
<1>3. owned' = owned \ {f} /\ free_list' = free_list \cup {f}
  BY <1>2, ZenonT(60) DEF ReadFails, GiveBack
<1>4. OwnedBy(th[t]) = {f} /\ f \in owned /\ frame_page[f] = {}
  BY <1>1, <1>2, ZenonT(60) DEF ThreadInv, OwnOK, OwnedBy, FillPcs
<1>5. th[t].pc \in SeekPcs /\ th[t].page # {}
  BY <1>1, ZenonT(60) DEF ThreadInv, ThreadOK, SeekPcs, FillPcs
<1>6. UNCHANGED <<page_table, loading, allocated, known>>
  BY <1>1 DEF extent
<1>7. /\ ThreadInv(th[t])' /\ Fewer(t) /\ Others(t)
      /\ PinnedBy(th'[t]) = {g.frame : g \in th[t].held}
      /\ th' \in [Threads -> ThreadState]
  BY <1>1, <1>5, <1>6, FailedInv, ZenonT(60)
<1>8. \A g \in Frames : Pinners(g)' = Pinners(g)
  <2>1. PinnedBy(th'[t]) = PinnedBy(th[t])
    BY <1>1, <1>7, ZenonT(60) DEF PinnedBy
  <2> QED
    BY <1>7, <2>1, SamePinners, ZenonT(60)
<1>9. TypeOK'
  <2>1. DevicesType' /\ flush_sequence' \subseteq Threads /\ flush_poisoned' \in BOOLEAN
    BY <1>1, SameDevices, SameFlushing, ZenonT(60) DEF ReadFails
  <2> QED
    BY <1>1, <1>3, <1>7, <2>1, ZenonT(60) DEF TypeOK, contents, extent
<1>10. IndexInv'
  BY <1>1, <1>3, <1>4, ZenonT(60) DEF IndexInv, contents, extent
<1>11. PinInv'
  BY <1>1, <1>3, <1>8, Zenon DEF PinInv, TypeOK
<1>12. ASSUME NEW u \in Threads \ {t} PROVE Untouched(u) /\ Grows(u) /\ Apart(th'[t], th[u])
  <2>1. ThreadInv(th[u]) /\ Apart(th[t], th[u])
    BY <1>1, ZenonT(60) DEF IInv, Threads2
  <2>2. Untouched(u)
    BY <1>1, <1>3, <1>4, <1>7, <2>1, UntouchedBy, ZenonT(60) DEF ThreadInv, OwnOK, SeekOK, Apart
  <2>3. Apart(th'[t], th[u])
    BY <1>7, <2>1, ZenonT(60) DEF Apart, Fewer
  <2> QED
    BY <1>1, <2>2, <2>3, SameGrowth, ZenonT(60)
<1> QED
  BY <1>7, <1>9, <1>10, <1>11, <1>12, IndexStep, ZenonT(60)

\* A page a frame is sought for is sought by one thread.
LEMMA SoughtOnce ==
    ASSUME IInv, NEW t \in Threads, NEW u \in Threads, t # u
    PROVE  SoughtBy(th[t]) \cap SoughtBy(th[u]) = {}
<1>1. SUFFICES ASSUME NEW p \in SoughtBy(th[t]), p \in SoughtBy(th[u]) PROVE FALSE
  OBVIOUS
<1>2. ThreadInv(th[t]) /\ ThreadInv(th[u]) /\ Apart(th[t], th[u])
  BY DEF IInv, Threads2
<1>3. p \in th[t].page /\ th[t].pc \in SeekPcs /\ th[t].op \in {"fetch", "new"}
  BY <1>1, <1>2, ZenonT(60) DEF SoughtBy, ThreadInv, ThreadOK
<1>4. p \in th[u].page /\ th[u].pc \in SeekPcs /\ th[u].op \in {"fetch", "new"}
  BY <1>1, <1>2, ZenonT(60) DEF SoughtBy, ThreadInv, ThreadOK
<1>5. th[t].op = th[u].op
  BY <1>2, <1>3, <1>4 DEF ThreadInv, SeekOK
<1> QED
  BY <1>2, <1>3, <1>4, <1>5, ZenonT(60) DEF Apart, ClaimedBy, MadeBy

LEMMA TryInstallStep ==
    ASSUME Counting, IInv, NEW t \in Threads, TryInstall(t)
    PROVE  IInv'
<1> DEFINE next == IF th[t].op = "new" THEN "latch" ELSE "unload"
<1>1. /\ TypeOK /\ ThreadInv(th[t]) /\ th[t] \in ThreadState /\ IndexInv /\ PinInv /\ Threads2
      /\ th[t].pc = "install" /\ UNCHANGED <<loading, evicting, extent>>
  BY Zenon DEF IInv, TypeOK, TryInstall, At
<1>2. PICK p \in Pages : th[t].page = {p}
  BY <1>1, ZenonT(60) DEF ThreadInv, ThreadOK, Opt
<1>3. PICK f \in Frames : th[t].frame = {f}
  BY <1>1, ZenonT(60) DEF ThreadInv, ThreadOK, Opt
<1>4. OwnedBy(th[t]) = {f} /\ f \in owned /\ frame_page[f] = {} /\ SoughtBy(th[t]) = {p}
  BY <1>1, <1>2, <1>3, ZenonT(60) DEF ThreadInv, OwnOK, OwnedBy, SoughtBy, SeekPcs, FillPcs
<1>5. page_table[p] = {} /\ p \in allocated
  BY <1>1, <1>2, <1>4, ZenonT(60) DEF ThreadInv, SeekOK
<1>6. /\ bytes' = [bytes EXCEPT ![f] = [id |-> {p}, lsn |-> IF th[t].op = "new" THEN 0 ELSE th[t].lsn]]
      /\ dirty_since_lsn' = [dirty_since_lsn EXCEPT ![f] = IF th[t].op = "new" THEN th[t].lsn ELSE 0]
      /\ page_table' = [page_table EXCEPT ![p] = {f}]
      /\ frame_page' = [frame_page EXCEPT ![f] = {p}]
      /\ owned' = owned \ {f}
      /\ pin_count' = Pinned(f) /\ replacer' = Tracked(f) /\ Goto(t, next) /\ UNCHANGED free_list
  BY <1>2, <1>3, <1>5, Zenon DEF TryInstall, Resident
<1>7. next \in {"latch", "unload"} /\ (next = "unload" => th[t].op = "fetch")
  BY <1>1, ZenonT(60) DEF ThreadInv, ThreadOK, SeekPcs, FillPcs
<1> HIDE DEF next
<1>8. /\ Others(t) /\ th' \in [Threads -> ThreadState] /\ th'[t].pc = next
      /\ th'[t].snapshot = th[t].snapshot
      /\ th'[t].frame = {f} /\ th'[t].page = {p}
      /\ th'[t].op = th[t].op /\ th'[t].held = th[t].held
  BY <1>1, <1>2, <1>3, <1>6, <1>7, GotoFields, ZenonT(60)
<1>9. \A q \in Pages : page_table'[q] = IF q = p THEN {f} ELSE page_table[q]
  BY <1>1, <1>6 DEF TypeOK
<1>10. \A g \in Frames : frame_page'[g] = IF g = f THEN {p} ELSE frame_page[g]
  BY <1>1, <1>6, Zenon DEF TypeOK
<1>11. \A g \in Frames : bytes'[g].id = IF g = f THEN {p} ELSE bytes[g].id
  BY <1>1, <1>6, Zenon DEF TypeOK
<1>12. \A g \in Frames : replacer'[g] = IF g = f THEN "pinned" ELSE replacer[g]
  BY <1>1, <1>6, Zenon DEF TypeOK, Tracked
<1>13. f \notin PinnedBy(th[t]) /\ PinnedBy(th'[t]) = PinnedBy(th[t]) \cup {f}
  <2>1. f \notin PinnedBy(th[t])
    BY <1>4, PinnedNotOwned, ZenonT(60)
  <2> QED
    BY <1>1, <1>7, <1>8, <2>1, ZenonT(60) DEF PinnedBy
<1>14. /\ pin_count' \in [Frames -> 0 .. Cardinality(Threads)]
       /\ \A g \in Frames : pin_count'[g] = Cardinality(Pinners(g)')
       /\ \A g \in Frames \ {f} : Pinners(g)' = Pinners(g)
  BY <1>1, <1>3, <1>6, <1>8, <1>13, Pin, ZenonT(60)
<1>15. ThreadInv(th[t])'
  <2>1. ThreadOK(th[t])'
    BY <1>1, <1>2, <1>7, <1>8, ZenonT(60) DEF ThreadInv, ThreadOK, Opt, FlushPcs, FillPcs, SeekPcs
  <2>2. CopiesOK(th[t])'
    BY <1>1, <1>7, <1>8, ZenonT(60) DEF ThreadInv, CopiesOK, FlushPcs
  <2>3. OwnOK(th[t])'
    BY <1>7, <1>8, Zenon DEF OwnOK, OwnedBy, FlushPcs, FillPcs
  <2>4. SeekOK(th[t])'
    BY <1>1, <1>2, <1>7, <1>8, Zenon
       DEF ThreadInv, SeekOK, SoughtBy, ClaimedBy, SeekPcs, FillPcs, FlushPcs, extent
  <2>5. PinsOK(th[t])'
    <3>1. ASSUME NEW g \in th[t].held PROVE page_table'[g.page] = {g.frame} /\ g.page \in known'
      <4>1. page_table[g.page] = {g.frame} /\ g.page \in known /\ g.page \in Pages
        BY <1>1, ZenonT(60) DEF ThreadInv, PinsOK, ThreadState, Guard
      <4> QED
        BY <1>1, <1>5, <1>9, <4>1, ZenonT(60) DEF extent
    <3> QED
      BY <1>2, <1>8, <1>9, <3>1, ZenonT(60) DEF PinsOK
  <2> QED
    BY <2>1, <2>2, <2>3, <2>4, <2>5, Zenon DEF ThreadInv
<1>16. TypeOK'
  <2>1. DevicesType' /\ flush_sequence' \subseteq Threads /\ flush_poisoned' \in BOOLEAN
    BY <1>1, SameDevices, SameFlushing, ZenonT(60) DEF TryInstall
  <2>2. page_table' \in [Pages -> SUBSET Frames] /\ frame_page' \in [Frames -> SUBSET Pages]
    BY <1>1, <1>6, Zenon DEF TypeOK
  <2>6. 0 \in 0 .. MaxLsn
    BY DoubleWriteBounds
  <2>3. th[t].lsn \in 0 .. MaxLsn /\ 0 \in 0 .. MaxLsn
    BY <1>1, <2>6, ZenonT(60) DEF ThreadState
  <2>4. /\ bytes' \in [Frames -> [id : SUBSET Pages, lsn : 0 .. MaxLsn]]
        /\ dirty_since_lsn' \in [Frames -> 0 .. MaxLsn]
    BY <1>1, <1>6, <2>3, ZenonT(60) DEF TypeOK
  <2>5. replacer' \in [Frames -> {"untracked", "pinned", "evictable"}]
    BY <1>1, <1>6, Zenon DEF TypeOK, Tracked
  <2> QED
    BY <1>1, <1>6, <1>8, <1>14, <2>1, <2>2, <2>4, <2>5, ZenonT(60) DEF TypeOK, extent
<1>17. IndexInv'
  <2>1. /\ \A q \in Pages, g \in Frames : g \in page_table[q] <=> q \in frame_page[g]
        /\ \A q \in Pages : Opt(page_table[q], Frames)
        /\ \A g \in Frames : Opt(frame_page[g], Pages) /\ Opt(bytes[g].id, Pages)
    BY <1>1, Zenon DEF IndexInv
  <2>2. /\ \A g \in free_list : g \notin owned /\ frame_page[g] = {}
        /\ \A g \in Frames : replacer[g] # "untracked" => frame_page[g] # {} /\ g \notin owned
        /\ \A g \in Frames : frame_page[g] # {} => bytes[g].id = frame_page[g]
        /\ \A g \in Frames : frame_page[g] \subseteq allocated
        /\ \A g \in owned : frame_page[g] \subseteq evicting
        /\ \A q \in evicting : \E g \in owned : q \in frame_page[g]
    BY <1>1, Zenon DEF IndexInv
  <2>3. owned \subseteq Frames /\ free_list \subseteq Frames
    BY <1>1, Zenon DEF TypeOK
  <2>4. owned' = owned \ {f} /\ UNCHANGED <<free_list, evicting, allocated>>
    BY <1>1, <1>6, ZenonT(60) DEF extent
  <2>5. ASSUME NEW q \in Pages, NEW g \in Frames PROVE g \in page_table'[q] <=> q \in frame_page'[g]
    BY <1>4, <1>5, <1>9, <1>10, <2>1, ZenonT(60)
  <2>6. Opt({f}, Frames) /\ Opt({p}, Pages)
    BY DEF Opt
  <2>7. \A q \in Pages : Opt(page_table'[q], Frames)
    BY <1>9, <2>1, <2>6, ZenonT(60)
  <2>8. \A g \in Frames : Opt(frame_page'[g], Pages) /\ Opt(bytes'[g].id, Pages)
    BY <1>10, <1>11, <2>1, <2>6, Zenon
  <2>9. \A g \in free_list' : g \notin owned' /\ frame_page'[g] = {}
    BY <1>4, <1>10, <2>2, <2>3, <2>4, Zenon
  <2>10. \A g \in Frames : replacer'[g] # "untracked" => frame_page'[g] # {} /\ g \notin owned'
    BY <1>10, <1>12, <2>2, <2>4, ZenonT(60)
  <2>11. \A g \in Frames : frame_page'[g] # {} => bytes'[g].id = frame_page'[g]
    BY <1>10, <1>11, <2>2, ZenonT(60)
  <2>12. \A g \in Frames : frame_page'[g] \subseteq allocated'
    BY <1>5, <1>10, <2>2, <2>4, Zenon
  <2>13. \A g \in owned' : frame_page'[g] \subseteq evicting'
    BY <1>10, <2>2, <2>3, <2>4, Zenon
  <2>14. \A q \in evicting' : \E g \in owned' : q \in frame_page'[g]
    <3>1. ASSUME NEW q \in evicting PROVE \E g \in owned \ {f} : q \in frame_page'[g]
      <4>1. PICK g \in owned : q \in frame_page[g]
        BY <2>2, Zenon
      <4>2. g # f /\ g \in Frames
        BY <1>4, <2>3, <4>1, Zenon
      <4> QED
        BY <1>10, <4>1, <4>2, Zenon
    <3> QED
      BY <2>4, <3>1, Zenon
  <2> QED
    BY <2>5, <2>7, <2>8, <2>9, <2>10, <2>11, <2>12, <2>13, <2>14, ZenonT(60) DEF IndexInv
<1>18. PinInv'
  BY <1>1, <1>6, <1>12, <1>14, ZenonT(60) DEF PinInv, TypeOK
<1>19. ASSUME NEW u \in Threads \ {t} PROVE Untouched(u) /\ Grows(u) /\ Apart(th'[t], th[u])
  <2>1. ThreadInv(th[u]) /\ Apart(th[t], th[u]) /\ th[u] \in ThreadState
    BY <1>1, Zenon DEF IInv, Threads2, TypeOK
  <2>2. f \notin OwnedBy(th[u]) /\ p \notin SoughtBy(th[u])
    BY <1>4, <2>1, SoughtOnce, ZenonT(60) DEF Apart
  <2>3. OwnedBy(th[u]) \subseteq Frames /\ SoughtBy(th[u]) \subseteq Pages
    BY <2>1, ZenonT(60) DEF OwnedBy, SoughtBy, ThreadState
  <2>4. \A g \in OwnedBy(th[u]) : frame_page'[g] = frame_page[g]
    BY <1>10, <2>2, <2>3, ZenonT(60)
  <2>5. \A q \in SoughtBy(th[u]) : page_table'[q] = page_table[q]
    BY <1>9, <2>2, <2>3, Zenon
  <2>6. \A q \in Pages : page_table[q] \cap PinnedBy(th[u]) # {} => page_table'[q] = page_table[q]
    BY <1>5, <1>9, Zenon
  <2>7. OwnedBy(th[u]) \subseteq owned' /\ ClaimedBy(th[u]) \subseteq loading'
    BY <1>1, <1>6, <2>1, <2>2, ZenonT(60) DEF ThreadInv, OwnOK, SeekOK
  <2>8. Untouched(u)
    BY <1>8, <2>4, <2>5, <2>6, <2>7, ZenonT(60) DEF Untouched, Others
  <2>9. Apart(th'[t], th[u])
    BY <1>1, <1>2, <1>7, <1>8, <2>1, ZenonT(60) DEF Apart, OwnedBy, ClaimedBy, MadeBy, FlushPcs, FillPcs, SeekPcs
  <2>10. Grows(u)
    BY <1>1, <1>11, ZenonT(60) DEF Grows, extent
  <2> QED
    BY <2>8, <2>9, <2>10, ZenonT(60)
<1> QED
  BY <1>15, <1>16, <1>17, <1>18, <1>19, IndexStep, ZenonT(60)

LEMMA LatchStep ==
    ASSUME IInv, NEW t \in Threads, Latch(t)
    PROVE  IInv'
<1>1. /\ TypeOK /\ ThreadInv(th[t]) /\ th[t] \in ThreadState /\ IndexInv /\ PinInv /\ Threads2
      /\ th[t].pc = "latch" /\ known' = known \cup th[t].page
      /\ UNCHANGED <<index, pin_count, contents, allocated, lsn>>
  BY DEF IInv, TypeOK, Latch, At
<1>2. PICK f \in th[t].frame, p \in th[t].page, write \in BOOLEAN :
         th' = [th EXCEPT ![t] = [Idle EXCEPT !.pc = "hold",
                  !.held = th[t].held \cup {[frame |-> f, page |-> p, write |-> write]}]]
  BY ZenonT(60) DEF Latch
<1>3. p \in Pages /\ th[t].page = {p} /\ f \in Frames /\ th[t].frame = {f}
  BY <1>1, <1>2, Zenon DEF ThreadInv, ThreadOK, Opt
<1> DEFINE g == [frame |-> f, page |-> p, write |-> write]
           r == [Idle EXCEPT !.pc = "hold", !.held = th[t].held \cup {g}]
<1>4. g \in Guard /\ g.frame = f /\ g.page = p
  BY <1>2, <1>3, Zenon DEF Guard
<1>5. r \in ThreadState
  <2>1. th[t].held \cup {g} \in SUBSET Guard
    BY <1>1, <1>4, ZenonT(60) DEF ThreadState
  <2> QED
    BY <2>1, IdleType, ZenonT(60) DEF ThreadState
<1>6. th'[t] = r /\ Others(t) /\ th' \in [Threads -> ThreadState]
  <2>1. th' = [th EXCEPT ![t] = r]
    BY <1>2, Zenon
  <2> QED
    BY <1>1, <1>5, <2>1, Moved, ZenonT(60)
<1> HIDE DEF g
<1>7. /\ th'[t].pc = "hold" /\ th'[t].op = "" /\ th'[t].page = {} /\ th'[t].frame = {}
      /\ th'[t].held = th[t].held \cup {g} /\ th'[t].snapshot = <<>>
  BY <1>6 DEF Idle
<1>8. page_table[p] = {f} /\ p \in allocated
  BY <1>1, <1>3, ZenonT(60) DEF ThreadInv, PinsOK, SeekOK
<1>9. ThreadInv(th[t])'
  <2>1. ThreadOK(th[t])'
    <3>1. \A h \in th[t].held : h.page # p
      BY <1>1, <1>3, ZenonT(60) DEF ThreadInv, ThreadOK
    <3>2. \A h, k \in th[t].held \cup {g} : h.page = k.page => h = k
      BY <1>1, <1>4, <3>1, ZenonT(60) DEF ThreadInv, ThreadOK
    <3> QED
      BY <1>7, <3>2, ZenonT(60) DEF ThreadOK, Opt, FlushPcs, FillPcs, SeekPcs
  <2>2. CopiesOK(th[t])'
    BY <1>7, EmptySnapshot, ZenonT(60) DEF CopiesOK, FlushPcs
  <2>3. OwnOK(th[t])' /\ SeekOK(th[t])'
    BY <1>7, ZenonT(60) DEF OwnOK, OwnedBy, SeekOK, SoughtBy, ClaimedBy
  <2>4. PinsOK(th[t])'
    BY <1>1, <1>3, <1>4, <1>7, <1>8, ZenonT(60) DEF ThreadInv, PinsOK, index
  <2> QED
    BY <2>1, <2>2, <2>3, <2>4, ZenonT(60) DEF ThreadInv
<1>10. TypeOK'
  <2>1. DevicesType' /\ flush_sequence' \subseteq Threads /\ flush_poisoned' \in BOOLEAN
    BY <1>1, SameDevices, SameFlushing, Zenon DEF Latch
  <2> QED
    BY <1>1, <1>3, <1>6, <1>8, <2>1, ZenonT(60) DEF TypeOK, index, contents
<1>11. IndexInv'
  BY <1>1, ZenonT(60) DEF IndexInv, index, contents
<1>12. PinInv'
  <2>1. PinnedBy(th'[t]) = PinnedBy(th[t])
    BY <1>1, <1>3, <1>4, <1>7, ZenonT(60) DEF PinnedBy
  <2> QED
    BY <1>1, <1>6, <2>1, SamePinners, Zenon DEF PinInv, TypeOK, index
<1>13. ASSUME NEW u \in Threads \ {t} PROVE Untouched(u) /\ Grows(u) /\ Apart(th'[t], th[u])
  <2>1. ThreadInv(th[u]) /\ Apart(th[t], th[u])
    BY <1>1, Zenon DEF IInv, Threads2
  <2>2. Untouched(u)
    BY <1>1, <1>6, <2>1, UntouchedBy, Zenon DEF index, ThreadInv, OwnOK, SeekOK
  <2>3. \A q \in th[u].page : q \in known' <=> q \in known
    <3>1. p \in known <=> th[t].op # "new"
      BY <1>1, <1>3, ZenonT(60) DEF ThreadInv, SeekOK
    <3>2. \A q \in th[u].page : q \in known <=> th[u].op # "new"
      BY <2>1, ZenonT(60) DEF ThreadInv, SeekOK
    <3> QED
      BY <1>1, <1>3, <2>1, <3>1, <3>2, ZenonT(60) DEF Apart, MadeBy
  <2>4. Grows(u)
    BY <1>1, <2>3, ZenonT(60) DEF Grows, contents
  <2>5. Apart(th'[t], th[u])
    BY <1>7, <2>1, ZenonT(60) DEF Apart, OwnedBy, ClaimedBy, MadeBy
  <2> QED
    BY <2>2, <2>4, <2>5
<1> QED
  BY <1>9, <1>10, <1>11, <1>12, <1>13, IndexStep, ZenonT(60)

LEMMA DropGuardStep ==
    ASSUME Counting, IInv, NEW t \in Threads, DropGuard(t)
    PROVE  IInv'
<1>1. /\ TypeOK /\ ThreadInv(th[t]) /\ th[t] \in ThreadState /\ IndexInv /\ PinInv /\ Threads2
      /\ th[t].pc = "hold" /\ UNCHANGED <<index, contents, extent>>
  BY ZenonT(60) DEF IInv, TypeOK, DropGuard, At
<1> DEFINE held(g) == th[t].held \ {g}
           pc(g) == IF pin_count[g.frame] = 1 THEN "unpin" ELSE IF held(g) = {} THEN "idle" ELSE "hold"
           frame(g) == IF pc(g) = "unpin" THEN {g.frame} ELSE {}
           r(g) == [th[t] EXCEPT !.held = held(g), !.pc = pc(g), !.frame = frame(g)]
<1>16. PICK g \in th[t].held :
         /\ pin_count' = [pin_count EXCEPT ![g.frame] = @ - 1]
         /\ th' = [th EXCEPT ![t].held = held(g), ![t].pc = pc(g), ![t].frame = frame(g)]
  BY ZenonT(60) DEF DropGuard
<1>17. th' = [th EXCEPT ![t] = r(g)]
  BY <1>16, ZenonT(60)
<1>2. g \in th[t].held /\ pin_count' = [pin_count EXCEPT ![g.frame] = @ - 1]
  BY <1>16, ZenonT(60)
<1>3. g \in Guard /\ g.frame \in Frames /\ g.page \in Pages
  BY <1>1, <1>2, ZenonT(60) DEF ThreadState, Guard
<1>4. /\ pc(g) \in {"unpin", "idle", "hold"} /\ (pc(g) # "unpin" => frame(g) = {})
      /\ frame(g) \in {{}, {g.frame}} /\ frame(g) \in SUBSET Frames
  BY <1>3, ZenonT(60)
<1> HIDE DEF pc, frame
<1>5. r(g) \in ThreadState
  BY <1>1, <1>4, ZenonT(60) DEF ThreadState
<1>6. th'[t] = r(g) /\ Others(t) /\ th' \in [Threads -> ThreadState]
  BY <1>1, <1>5, <1>17, Moved, ZenonT(60)
<1>7. /\ th'[t].pc = pc(g) /\ th'[t].op = th[t].op /\ th'[t].page = th[t].page
      /\ th'[t].frame = frame(g) /\ th'[t].held = th[t].held \ {g}
      /\ th'[t].snapshot = th[t].snapshot
  BY <1>1, <1>6, ZenonT(60) DEF ThreadState
<1>8. th[t].op = "" /\ th[t].page = {} /\ th[t].frame = {}
  BY <1>1, ZenonT(60) DEF ThreadInv, ThreadOK
<1>9. g.frame \in PinnedBy(th[t]) /\ PinnedBy(th'[t]) = PinnedBy(th[t]) \ {g.frame}
  <2>1. ASSUME NEW h \in th[t].held, h.frame = g.frame PROVE h = g
    <3>1. h.page \in Pages /\ page_table[h.page] = {g.frame} /\ page_table[g.page] = {g.frame}
      <4>1. h.page \in Pages
        BY <1>1, <2>1, ZenonT(60) DEF ThreadState, Guard
      <4>2. page_table[h.page] = {h.frame} /\ page_table[g.page] = {g.frame}
        BY <1>1, <1>2, <2>1, ZenonT(60) DEF ThreadInv, PinsOK
      <4> QED
        BY <2>1, <4>1, <4>2, Zenon
    <3>2. h.page = g.page
      <4>1. g.page \in Pages /\ g.frame \in Frames
        BY <1>3, Zenon
      <4>2. h.page \in frame_page[g.frame] /\ g.page \in frame_page[g.frame]
        BY <1>1, <3>1, <4>1, ZenonT(60) DEF IndexInv
      <4>3. frame_page[g.frame] = {g.page}
        BY <1>1, <4>1, <4>2, OnePage, Zenon
      <4> QED
        BY <4>2, <4>3, Zenon
    <3> QED
      BY <1>1, <1>2, <3>2, ZenonT(60) DEF ThreadInv, ThreadOK
  <2> QED
    BY <1>1, <1>2, <1>4, <1>7, <2>1, ZenonT(60) DEF PinnedBy
<1>10. /\ pin_count' \in [Frames -> 0 .. Cardinality(Threads)]
       /\ \A f \in Frames : /\ pin_count'[f] = Cardinality(Pinners(f)')
                            /\ Pinners(f)' \subseteq Pinners(f)
  BY <1>1, <1>2, <1>3, <1>6, <1>9, Unpinned, ZenonT(60)
<1>11. ThreadInv(th[t])'
  <2>1. ThreadOK(th[t])'
    BY <1>1, <1>3, <1>4, <1>7, <1>8, ZenonT(60) DEF ThreadInv, ThreadOK, Opt, FlushPcs, FillPcs, SeekPcs
  <2>2. CopiesOK(th[t])'
    BY <1>1, <1>4, <1>7, ZenonT(60) DEF ThreadInv, CopiesOK, FlushPcs
  <2>3. OwnOK(th[t])' /\ SeekOK(th[t])'
    BY <1>4, <1>7, <1>8, Zenon DEF OwnOK, OwnedBy, SeekOK, SoughtBy, ClaimedBy, FlushPcs, FillPcs
  <2>4. PinsOK(th[t])'
    BY <1>1, <1>7, <1>8, ZenonT(60) DEF ThreadInv, PinsOK, index, extent
  <2> QED
    BY <2>1, <2>2, <2>3, <2>4, ZenonT(60) DEF ThreadInv
<1>12. TypeOK'
  <2>1. DevicesType' /\ flush_sequence' \subseteq Threads /\ flush_poisoned' \in BOOLEAN
    BY <1>1, SameDevices, SameFlushing, ZenonT(60) DEF DropGuard
  <2> QED
    BY <1>1, <1>6, <1>10, <2>1, Zenon DEF TypeOK, index, contents, extent
<1>13. IndexInv'
  BY <1>1, ZenonT(60) DEF IndexInv, index, contents, extent
<1>14. PinInv'
  BY <1>1, <1>10, ZenonT(60) DEF PinInv, TypeOK, index
<1>15. ASSUME NEW u \in Threads \ {t} PROVE Untouched(u) /\ Grows(u) /\ Apart(th'[t], th[u])
  <2>1. ThreadInv(th[u])
    BY Zenon DEF IInv
  <2>2. Untouched(u)
    BY <1>1, <1>6, <2>1, UntouchedBy, Zenon DEF index, ThreadInv, OwnOK, SeekOK
  <2>3. Apart(th'[t], th[u])
    BY <1>4, <1>7, <1>8, ZenonT(60) DEF Apart, OwnedBy, ClaimedBy, MadeBy, FlushPcs, FillPcs
  <2> QED
    BY <1>1, <2>2, <2>3, SameGrowth, ZenonT(60)
<1> QED
  BY <1>11, <1>12, <1>13, <1>14, <1>15, IndexStep, ZenonT(60)

LEMMA UnpinStep ==
    ASSUME Counting, IInv, NEW t \in Threads, Unpin(t)
    PROVE  IInv'
<1>1. /\ TypeOK /\ ThreadInv(th[t]) /\ th[t] \in ThreadState /\ IndexInv /\ PinInv /\ Threads2
      /\ th[t].pc = "unpin" /\ Return(t)
      /\ UNCHANGED <<page_table, frame_page, free_list, owned, loading, evicting, pin_count, contents, extent>>
  BY ZenonT(60) DEF IInv, TypeOK, Unpin, At
<1>2. PICK f \in th[t].frame :
         replacer' = IF pin_count[f] = 0 /\ f \notin owned THEN MadeEvictable(f) ELSE replacer
  BY ZenonT(60) DEF Unpin
<1>3. f \in Frames
  BY <1>1, <1>2, ZenonT(60) DEF ThreadState
<1>4. /\ replacer' \in [Frames -> {"untracked", "pinned", "evictable"}]
      /\ \A g \in Frames : replacer'[g] # "untracked" => replacer[g] # "untracked"
      /\ \A g \in Frames : replacer'[g] = "evictable" => replacer[g] = "evictable" \/ pin_count[g] = 0
  BY <1>1, <1>2, ZenonT(60) DEF TypeOK, MadeEvictable
<1>5. th'[t] = Caller(t) /\ Others(t) /\ th' \in [Threads -> ThreadState]
  BY <1>1, ReturnMoves, ZenonT(60)
<1>6. ThreadInv(th[t])' /\ Fewer(t) /\ PinnedBy(th'[t]) = {g.frame : g \in th[t].held}
  <2>1. UNCHANGED page_table /\ known \subseteq known'
    BY <1>1, Zenon DEF extent
  <2> QED
    BY <1>5, <2>1, ReturnInv, ZenonT(60)
<1>7. \A g \in Frames : Pinners(g)' = Pinners(g)
  <2>1. PinnedBy(th'[t]) = PinnedBy(th[t])
    BY <1>1, <1>6, ZenonT(60) DEF PinnedBy
  <2> QED
    BY <1>5, <2>1, SamePinners, Zenon
<1>8. TypeOK'
  <2>1. DevicesType' /\ flush_sequence' \subseteq Threads /\ flush_poisoned' \in BOOLEAN
    BY <1>1, SameDevices, SameFlushing, ZenonT(60) DEF Unpin
  <2> QED
    BY <1>1, <1>4, <1>5, <2>1, ZenonT(60) DEF TypeOK, contents, extent
<1>9. IndexInv'
  BY <1>1, <1>4, ZenonT(60) DEF IndexInv, contents, extent
<1>10. PinInv'
  <2>1. \A g \in Frames : replacer'[g] = "evictable" => Pinners(g)' = {}
    BY <1>1, <1>4, <1>7, CountPinners, ZenonT(60) DEF PinInv
  <2> QED
    BY <1>1, <1>7, <2>1, ZenonT(60) DEF PinInv, TypeOK
<1>11. ASSUME NEW u \in Threads \ {t} PROVE Untouched(u) /\ Grows(u) /\ Apart(th'[t], th[u])
  <2>1. ThreadInv(th[u]) /\ Apart(th[t], th[u])
    BY <1>1, ZenonT(60) DEF IInv, Threads2
  <2>2. Untouched(u)
    BY <1>1, <1>5, <2>1, UntouchedBy, ZenonT(60) DEF ThreadInv, OwnOK, SeekOK
  <2>3. Apart(th'[t], th[u])
    BY <1>6, <2>1, ZenonT(60) DEF Apart, Fewer
  <2> QED
    BY <1>1, <2>2, <2>3, SameGrowth, ZenonT(60)
<1> QED
  BY <1>6, <1>8, <1>9, <1>10, <1>11, IndexStep, ZenonT(60)
=============================================================================
