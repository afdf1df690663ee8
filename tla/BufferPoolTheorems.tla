------------------------- MODULE BufferPoolTheorems -------------------------
(***************************************************************************)
(* What the buffer pool promises, for every number of threads, frames and  *)
(* pages.  Its index is consistent, a guard keeps its page, and a page is  *)
(* never in two frames.  As long as an eviction and another thread's flush *)
(* do not share a frame (StaleFlush = FALSE), no write is lost, a clean    *)
(* frame is on disk, and after a crash the double-write buffer makes every *)
(* page whole.                                                             *)
(***************************************************************************)
EXTENDS BufferPoolIndex, BufferPoolData, FiniteSetTheorems

-----------------------------------------------------------------------------
(* The index. *)

LEMMA ThreadsCount == Counting
<1>1. IsFiniteSet(Threads) /\ Cardinality(Threads) \in Nat
  BY BufferPoolBounds, FS_CardinalityType, Zenon
<1>2. ASSUME NEW S \in SUBSET Threads
      PROVE  /\ IsFiniteSet(S) /\ Cardinality(S) \in 0 .. Cardinality(Threads)
             /\ Cardinality(S) = 0 <=> S = {}
  BY <1>1, FS_Subset, FS_CardinalityType, FS_EmptySet
<1>3. ASSUME NEW S \in SUBSET Threads, NEW t \in Threads \ S
      PROVE  Cardinality(S \cup {t}) = Cardinality(S) + 1
  BY <1>2, FS_AddElement, Zenon
<1>4. ASSUME NEW S \in SUBSET Threads, NEW t \in S
      PROVE  Cardinality(S \ {t}) = Cardinality(S) - 1
  BY <1>2, FS_RemoveElement, Zenon
<1> QED
  BY <1>1, <1>2, <1>3, <1>4, Zenon DEF Counting

LEMMA StepInv ==
    ASSUME Counting, IInv, NEW t \in Threads, Step(t)
    PROVE  IInv'
<1>1. CASE Fetching(t)
  BY <1>1, StartFetchStep, StartNewStep, PinCachedStep, ClaimLoadStep, LookupTimesOutStep, UnloadStep
     DEF Fetching
<1>2. CASE Acquiring(t)
  BY <1>2, TakeFreeStep, TakeVictimStep, AcquireTimesOutStep, CheckVictimStep, CompleteEvictionStep,
     ReadPageStep, ReadFailsStep, TryInstallStep DEF Acquiring
<1>3. CASE Using(t)
  BY <1>3, LatchStep, WriteStep, DropGuardStep, UnpinStep, Zenon DEF Using
<1>4. CASE Flushing(t)
  BY <1>4, StartFlushStep, TakeLeaseStep, FlushFailsStep, SnapshotStep, BackupStep, WriteNextStep,
     SyncStep, ClearStep, CleanNextStep, EndFlushStep DEF Flushing
<1> QED
  BY <1>1, <1>2, <1>3, <1>4, Zenon DEF Step

\* The inductive invariant, for any threads, frames and pages: what each
\* thread owns, claims, reads, makes and pins agrees with the page table, the
\* free list, the replacer and the pin counts (fetch_frame, try_install,
\* complete_eviction, unpin_frame and the rest of buffer.rs).
THEOREM PoolInvariant == Spec => []IInv
<1>1. Init => IInv
  BY ThreadsCount, IInvInit, Zenon
<1>2. ASSUME IInv, [Next]_vars PROVE IInv'
  BY <1>2, ThreadsCount, StepInv, CrashStep, RestoreStep, StutterInv DEF Next, Quiescent
<1> QED
  BY <1>1, <1>2, PTL DEF Spec

\* For any threads, frames and pages, the pool's index is consistent after
\* every step: the page table and the frames agree, and a frame is free,
\* being filled or evicted by one thread, pinned, or offered for eviction,
\* and never two of these (assert_frame_accounting).
THEOREM FramesAccounted == Spec => []FrameAccounting
<1>1. ASSUME IInv PROVE FrameAccounting
  <2>1. TypeOK /\ IndexInv /\ PinInv
    BY <1>1, Zenon DEF IInv
  <2>2. ASSUME NEW p \in Pages PROVE Cardinality(page_table[p]) <= 1
    <3>1. CASE page_table[p] = {}
      BY <3>1, FS_EmptySet
    <3>2. ASSUME NEW f, page_table[p] = {f} PROVE Cardinality(page_table[p]) = 1
      BY <3>2, FS_Singleton, Zenon
    <3>3. page_table[p] = {} \/ \E f \in Frames : page_table[p] = {f}
      BY <2>1, Zenon DEF IndexInv, Opt
    <3> QED
      BY <3>1, <3>2, <3>3
  <2>3. \A f \in Frames : Pinners(f) = {} => pin_count[f] = 0
    BY <2>1, FS_EmptySet, Zenon DEF PinInv
  <2>4. \A f \in free_list : f \notin owned /\ frame_page[f] = {} /\ replacer[f] = "untracked"
    BY <2>1, Zenon DEF IndexInv, TypeOK
  <2>5. \A f \in owned : frame_page[f] \subseteq evicting /\ pin_count[f] = 0
    BY <2>1, <2>3, Zenon DEF IndexInv, PinInv, TypeOK
  <2>6. \A f \in Frames : replacer[f] = "evictable" =>
           frame_page[f] # {} /\ pin_count[f] = 0 /\ f \notin owned \cup free_list
    BY <2>1, <2>3, Zenon DEF IndexInv, PinInv
  <2> QED
    BY <2>1, <2>2, <2>4, <2>5, <2>6, Zenon DEF FrameAccounting, IndexInv
<1> QED
  BY <1>1, PoolInvariant, PTL

\* For any threads, frames and pages, a guard's frame holds the page the
\* guard was asked for until the guard is dropped.
THEOREM GuardsKeepPages == Spec => []GuardKeepsItsPage
<1>1. ASSUME IInv PROVE GuardKeepsItsPage
  <2>1. SUFFICES ASSUME NEW t \in Threads, NEW g \in th[t].held
                 PROVE  bytes[g.frame].id = {g.page} /\ page_table[g.page] = {g.frame} /\ g.page \notin evicting
    BY Zenon DEF GuardKeepsItsPage
  <2>2. TypeOK /\ IndexInv /\ ThreadInv(th[t]) /\ th[t] \in ThreadState
    BY <1>1, Zenon DEF IInv, TypeOK
  <2>3. g.frame \in Frames /\ g.page \in Pages
    BY <2>1, <2>2, Zenon DEF ThreadState, Guard
  <2>4. page_table[g.page] = {g.frame}
    BY <2>1, <2>2, Zenon DEF ThreadInv, PinsOK
  <2>5. frame_page[g.frame] = {g.page}
    BY <2>2, <2>3, <2>4, OnePage, Zenon DEF IndexInv
  <2>6. bytes[g.frame].id = {g.page}
    BY <2>2, <2>3, <2>5, Zenon DEF IndexInv
  <2>7. g.frame \notin owned
    BY <1>1, <2>1, PinnedNotOwned, Zenon DEF PinnedBy
  <2>8. g.page \notin evicting
    <3>1. SUFFICES ASSUME g.page \in evicting PROVE FALSE
      OBVIOUS
    <3>2. PICK f \in owned : g.page \in frame_page[f]
      BY <2>2, <3>1, Zenon DEF IndexInv
    <3>3. f = g.frame
      <4>1. f \in Frames
        BY <2>2, <3>2, Zenon DEF TypeOK
      <4>2. f \in page_table[g.page]
        BY <2>2, <2>3, <3>2, <4>1, Zenon DEF IndexInv
      <4> QED
        BY <2>4, <4>2, Zenon
    <3> QED
      BY <2>7, <3>2, <3>3, Zenon
  <2> QED
    BY <2>4, <2>6, <2>8, Zenon
<1> QED
  BY <1>1, PoolInvariant, PTL

\* No page is brought into two frames: two threads never look for a frame for
\* the same page at once, and none for a page that has one, so try_install
\* never finds its page resident (the loading set, and new_page keeping its
\* page to itself until it is installed).
ReadOnce ==
    \A t, u \in Threads : \A p \in SoughtBy(th[t]) : ~Resident(p) /\ (t # u => p \notin SoughtBy(th[u]))

\* For any threads, frames and pages, fetch_frame and new_page never put a
\* second copy of a page in the pool: a page that is read or made is in no
\* frame, and no other thread reads or makes it.
THEOREM PagesReadOnce == Spec => []ReadOnce
<1>1. ASSUME IInv PROVE ReadOnce
  <2>1. \A t \in Threads : \A p \in SoughtBy(th[t]) : ~Resident(p)
    BY <1>1, Zenon DEF IInv, ThreadInv, SeekOK, Resident
  <2> QED
    BY <1>1, <2>1, SoughtOnce, Zenon DEF ReadOnce
<1> QED
  BY <1>1, PoolInvariant, PTL

-----------------------------------------------------------------------------
(* The contents of pages. *)

LEMMA StepData ==
    ASSUME StaleFlush = FALSE, IInv, IInv', DInv, NEW t \in Threads, Step(t)
    PROVE  DInv'
<1>1. CASE Fetching(t)
  BY <1>1, StartFetchData, StartNewData, PinCachedData, LookupData DEF Fetching
<1>2. CASE Acquiring(t)
  BY <1>2, TakeFreeData, TakeVictimData, FailData, CheckVictimData, CompleteEvictionData,
     ReadPageData, TryInstallData DEF Acquiring
<1>3. CASE Using(t)
  BY <1>3, LatchData, WriteData, DropGuardData, UnpinData, Zenon DEF Using
<1>4. CASE Flushing(t)
  BY <1>4, StartFlushData, TakeLeaseData, NoLeaseData, SnapshotData, BackupData, BackupFailsData,
     WriteNextData, SyncData, ClearData, FlushBreaksData, CleanNextData, EndFlushData, Zenon DEF Flushing
<1> QED
  BY <1>1, <1>2, <1>3, <1>4, Zenon DEF Step

\* The inductive invariant about contents, as long as an eviction and another
\* thread's flush do not share a frame: which LSN a page has in its frame, in
\* the copies flush_pages_before has taken, in the file and in the
\* double-write buffer.
THEOREM PoolDataInvariant ==
    ASSUME StaleFlush = FALSE
    PROVE  Spec => [](IInv /\ DInv)
<1>1. Init => DInv
  BY DInvInit, Zenon
<1>2. ASSUME IInv, IInv', DInv, [Next]_vars PROVE DInv'
  BY <1>2, StepData, CrashData, RestoreData, StutterData, Zenon DEF Next, Quiescent
<1>3. Spec => []IInv
  BY PoolInvariant, Zenon
<1> QED
  BY <1>1, <1>2, <1>3, PTL DEF Spec

\* For any threads, frames and pages, the last write of a page is in its
\* frame, or in the file when it has none: no interleaving of fetches,
\* evictions, flushes and failed device calls loses it.
THEOREM NoWriteIsLost ==
    ASSUME StaleFlush = FALSE
    PROVE  Spec => []NoLostWrite
<1>1. ASSUME IInv, DInv PROVE NoLostWrite
  <2>1. TypeOK /\ IndexInv /\ KeptInv
    BY <1>1, Parts, Zenon
  <2>2. ASSUME Good, NEW p \in Pages
        PROVE  IF Resident(p) THEN bytes[The(page_table[p])].lsn = current[p] ELSE file[p] = {current[p]}
    <3>1. CASE page_table[p] = {}
      BY <2>1, <2>2, <3>1, Zenon DEF KeptInv, Resident
    <3>2. CASE page_table[p] # {}
      <4>1. PICK f \in Frames : page_table[p] = {f}
        BY <2>1, <3>2, Zenon DEF IndexInv, Opt
      <4>2. The(page_table[p]) = f /\ p \in frame_page[f]
        BY <2>1, <4>1, TheOnly, Zenon DEF IndexInv
      <4> QED
        BY <2>1, <2>2, <3>2, <4>2 DEF KeptInv, Resident
    <3> QED
      BY <3>1, <3>2, Zenon
  <2> QED
    BY <2>2, Zenon DEF NoLostWrite, Good
<1> QED
  BY <1>1, PoolDataInvariant, PTL

\* For any threads, frames and pages, a frame whose dirty_since_lsn is 0 holds
\* what the file holds, so that complete_eviction may drop it: a page written
\* after flush_pages_before copied it keeps its mark.
THEOREM CleanFramesOnDisk ==
    ASSUME StaleFlush = FALSE
    PROVE  Spec => []CleanMeansOnDisk
<1>1. ASSUME DInv PROVE CleanMeansOnDisk
  BY <1>1, Zenon DEF DInv, PageInv
<1> QED
  BY <1>1, PoolDataInvariant, PTL

\* For any threads, frames and pages, recover_double_write leaves no torn page
\* and none older than its last completed flush, wherever the crash fell.
THEOREM RecoveryMakesWhole ==
    ASSUME StaleFlush = FALSE
    PROVE  Spec => []RecoveredWhole
<1>1. ASSUME DInv PROVE RecoveredWhole
  BY <1>1, Zenon DEF DInv, PageInv, BackupInv, RecoveredWhole
<1> QED
  BY <1>1, PoolDataInvariant, PTL
=============================================================================
