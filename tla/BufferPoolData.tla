--------------------------- MODULE BufferPoolData ---------------------------
(***************************************************************************)
(* What the steps of a thread do to the contents of pages: first those up  *)
(* to the moment a flush has copied its frames, then the flush of a batch  *)
(* through the double-write buffer, a crash at any moment and the repair   *)
(* at the next open.  Each keeps DInv.                                     *)
(***************************************************************************)
EXTENDS BufferPoolLemmas

\* The copies of another thread, when frames change.
LEMMA KeptSnap ==
    ASSUME NEW u \in Threads, th'[u] = th[u], SnapOK(th[u]), BackedUp(th[u]), UNCHANGED backup,
           \A f \in DOMAIN th[u].snapshot : \A p \in th[u].snapshot[f].id : CopyOK(th[u], f, p)',
           \A g \in ListedBy(th[u]) : bytes'[g].id = bytes[g].id
    PROVE  SnapOK(th[u])' /\ BackedUp(th[u])'
<1>1. SnapOK(th[u])'
  BY DEF SnapOK, ListedBy
<1> QED
  BY <1>1, Zenon DEF BackedUp, ImagesOf

\* A frame that a thread owns is in nobody else's list.
LEMMA OwnedNotListed ==
    ASSUME IInv, DInv, NEW t \in Threads, NEW f \in OwnedBy(th[t]), NEW u \in Threads, u # t
    PROVE  f \notin ListedBy(th[u]) /\ f \notin OwnedBy(th[u])
<1>1. FlushOK(th[u]) /\ f \in owned /\ Apart(th[t], th[u])
  BY Parts DEF OwnOK, Threads2
<1>2. f \notin OwnedBy(th[u])
  BY <1>1, Zenon DEF Apart
<1>3. f \in ListedBy(th[u]) => th[u].pc \in FlushPcs /\ f \in th[u].frame
  BY <1>1 DEF FlushOK, ListedBy, FlushPcs
<1> QED
  BY <1>2, <1>3 DEF OwnedBy, FillPcs

\* Nobody's listed frame is taken.
LeavesListed(t) == \A u \in Threads \ {t} : \A f \in ListedBy(th[u]) : f \in owned' => f \in owned

\* A step of a thread that leaves the pages as they are.
LEMMA OwnStep ==
    ASSUME IInv, IInv', DInv, NEW t \in Threads, mode = "up", th[t].pc # "write",
           SamePages, UNCHANGED <<mode, flush_poisoned>>, lsn' \in {lsn, lsn + 1}, known \subseteq known',
           Others(t), LeavesListed(t), LeaseInv', DataOK(th[t])'
    PROVE  DInv'
<1>1. /\ TypeOK /\ LsnInv /\ KeptInv /\ CleanMeansOnDisk /\ FileInv /\ BackupInv
      /\ \A u \in Threads : th[u] \in ThreadState /\ DataOK(th[u]) /\ FlushOK(th[u])
                            /\ SnapOK(th[u]) /\ BackedUp(th[u])
  BY Parts
<1>2. TypeOK'
  BY DEF IInv
<1>3. ASSUME NEW u \in Threads \ {t} PROVE DataOK(th[u])'
  <2>1. Spares(u)
    BY <1>1, ZenonT(60) DEF Spares, Others, FlushOK, SamePages, LeavesListed
  <2>2. SnapOK(th[u])' /\ BackedUp(th[u])'
    BY <1>1, SameSnap, Zenon DEF Others
  <2> QED
    BY <1>1, <2>1, <2>2, SparedData, Zenon
<1>4. ModeInv'
  BY DEF ModeInv
<1>5. PageInv'
  <2>1. \A u \in Threads : th[u].pc = "write" => th'[u].pc = "write"
    BY DEF Others
  <2> QED
    BY <1>1, <1>2, <2>1, SamePageInv, Zenon
<1> QED
  BY <1>3, <1>4, <1>5, Zenon DEF DInv

-----------------------------------------------------------------------------
(* The steps that neither write nor flush a page. *)

LeavesPages ==
    /\ SamePages /\ UNCHANGED <<mode, flushing>>
    /\ lsn' \in {lsn, lsn + 1} /\ known \subseteq known'

LEMMA BystanderStep ==
    ASSUME IInv, IInv', DInv, NEW t \in Threads, mode = "up",
           LeavesPages, LeavesListed(t), Others(t), Aside(t)
    PROVE  DInv'
<1>1. DataOK(th[t])'
  <2>1. CASE th'[t].pc # "install"
    BY <2>1, DoneData, Zenon DEF Aside
  <2>2. CASE th'[t].pc = "install"
    BY <2>2, Zenon DEF Aside, DataOK, FlushOK, ListedBy, FlushPcs, VictimOK, InstallOK, SnapOK, BackedUp
  <2> QED
    BY <2>1, <2>2, Zenon
<1>2. LeaseInv'
  <2>1. LeaseInv
    BY Parts, Zenon
  <2>2. th[t].pc \notin LeasePcs /\ th'[t].pc \notin LeasePcs
    BY Zenon DEF Aside, LeasePcs, FlushPcs
  <2> QED
    BY <2>1, <2>2, Zenon DEF LeaseInv, Good, LeavesPages, Others, flushing
<1>3. th[t].pc # "write" /\ UNCHANGED <<mode, flush_poisoned>>
  BY Zenon DEF Aside, FlushPcs, LeavesPages, flushing
<1> QED
  BY <1>1, <1>2, <1>3, OwnStep, Zenon DEF LeavesPages

\* A thread that is in no flush keeps its empty lists.
LEMMA NoFlush ==
    ASSUME IInv, DInv, NEW t \in Threads, th[t].pc \notin FlushPcs
    PROVE  th[t].rest = {} /\ DOMAIN th[t].snapshot = {}
<1>1. FlushOK(th[t])
  BY Parts
<1> QED
  BY <1>1 DEF FlushOK, FlushPcs, LeasePcs

LEMMA StartFetchData ==
    ASSUME IInv, IInv', DInv, NEW t \in Threads, StartFetch(t)
    PROVE  DInv'
<1>1. PICK p \in known :
         th' = [th EXCEPT ![t].pc = "lookup", ![t].op = "fetch", ![t].page = {p}]
  BY ZenonT(60) DEF StartFetch
<1>2. /\ mode = "up" /\ th[t].pc \in {"idle", "hold"}
      /\ UNCHANGED <<index, pin_count, contents, flushing, extent, mode, history, devices>>
  BY Zenon DEF StartFetch, Begin
<1>3. TypeOK /\ th[t] \in ThreadState /\ p \in Pages
  BY DEF IInv, TypeOK
<1> DEFINE r == [th[t] EXCEPT !.pc = "lookup", !.op = "fetch", !.page = {p}]
<1>4. r \in ThreadState
  BY <1>3, ZenonT(60) DEF ThreadState
<1>5. th' = [th EXCEPT ![t] = r]
  BY <1>1, ZenonT(60)
<1>6. th'[t] = r /\ Others(t)
  BY <1>3, <1>4, <1>5, Moved, ZenonT(60)
<1>7. th'[t].pc = "lookup" /\ th'[t].rest = th[t].rest /\ th'[t].snapshot = th[t].snapshot
  BY <1>3, <1>6, ZenonT(60) DEF ThreadState
<1>8. Aside(t)
  BY <1>2, <1>7, NoFlush, Zenon DEF Aside, FlushPcs
<1>9. LeavesPages /\ LeavesListed(t)
  BY <1>2 DEF LeavesPages, LeavesListed, SamePages, index, contents, extent, history, devices
<1> QED
  BY <1>2, <1>6, <1>8, <1>9, BystanderStep, Zenon

LEMMA StartNewData ==
    ASSUME IInv, IInv', DInv, NEW t \in Threads, StartNew(t)
    PROVE  DInv'
<1>1. PICK p \in Pages :
         th' = [th EXCEPT ![t].pc = "acquire", ![t].op = "new", ![t].page = {p}, ![t].lsn = lsn']
  BY ZenonT(60) DEF StartNew
<1>2. /\ mode = "up" /\ th[t].pc \in {"idle", "hold"} /\ lsn' = lsn + 1
      /\ UNCHANGED <<index, pin_count, contents, flushing, known, mode, history, devices>>
  BY Zenon DEF StartNew, Begin
<1>3. TypeOK /\ th[t] \in ThreadState /\ lsn' \in 0 .. MaxLsn
  BY DEF IInv, TypeOK
<1> DEFINE r == [th[t] EXCEPT !.pc = "acquire", !.op = "new", !.page = {p}, !.lsn = lsn']
<1>4. r \in ThreadState
  BY <1>1, <1>3, ZenonT(60) DEF ThreadState
<1>5. th' = [th EXCEPT ![t] = r]
  BY <1>1, ZenonT(60)
<1>6. th'[t] = r /\ Others(t)
  BY <1>3, <1>4, <1>5, Moved, ZenonT(60)
<1>7. th'[t].pc = "acquire" /\ th'[t].rest = th[t].rest /\ th'[t].snapshot = th[t].snapshot
  BY <1>3, <1>6, ZenonT(60) DEF ThreadState
<1>8. Aside(t)
  BY <1>2, <1>7, NoFlush, Zenon DEF Aside, FlushPcs
<1>9. LeavesPages /\ LeavesListed(t)
  BY <1>2 DEF LeavesPages, LeavesListed, SamePages, index, contents, history, devices
<1> QED
  BY <1>2, <1>6, <1>8, <1>9, BystanderStep, Zenon

LEMMA PinCachedData ==
    ASSUME IInv, IInv', DInv, NEW t \in Threads, PinCached(t)
    PROVE  DInv'
<1>1. PICK p \in th[t].page : \E f \in page_table[p] : th' = [th EXCEPT ![t].pc = "latch", ![t].frame = {f}]
  BY Zenon DEF PinCached
<1>2. PICK f \in page_table[p] : th' = [th EXCEPT ![t].pc = "latch", ![t].frame = {f}]
  BY <1>1, ZenonT(60)
<1>3. /\ mode = "up" /\ th[t].pc = "lookup"
      /\ UNCHANGED <<page_table, frame_page, owned, contents, flushing, extent, mode, history, devices>>
  BY Zenon DEF PinCached, At
<1>4. TypeOK /\ th[t] \in ThreadState
  BY DEF IInv, TypeOK
<1>5. f \in Frames
  BY <1>1, <1>2, <1>4, ZenonT(60) DEF TypeOK, ThreadState
<1> DEFINE r == [th[t] EXCEPT !.pc = "latch", !.frame = {f}]
<1>6. r \in ThreadState
  BY <1>4, <1>5, ZenonT(60) DEF ThreadState
<1>7. th' = [th EXCEPT ![t] = r]
  BY <1>2, ZenonT(60)
<1>8. th'[t] = r /\ Others(t)
  BY <1>4, <1>6, <1>7, Moved, ZenonT(60)
<1>9. th'[t].pc = "latch" /\ th'[t].rest = th[t].rest /\ th'[t].snapshot = th[t].snapshot
  BY <1>4, <1>8, ZenonT(60) DEF ThreadState
<1>10. Aside(t)
  BY <1>3, <1>9, NoFlush, Zenon DEF Aside, FlushPcs
<1>11. LeavesPages /\ LeavesListed(t)
  BY <1>3, Zenon DEF LeavesPages, LeavesListed, SamePages, contents, extent, history, devices
<1> QED
  BY <1>3, <1>8, <1>10, <1>11, BystanderStep, Zenon

\* A thread that goes on at another place with the same lists.
LEMMA GotoAside ==
    ASSUME IInv, DInv, NEW t \in Threads, th[t].pc \notin FlushPcs,
           NEW pc \in {"acquire", "latch"}, Goto(t, pc)
    PROVE  Others(t) /\ Aside(t)
<1>1. TypeOK
  BY DEF IInv
<1>2. Others(t) /\ th'[t].pc = pc /\ th'[t].rest = th[t].rest /\ th'[t].snapshot = th[t].snapshot
  BY <1>1, GotoFields, Zenon
<1> QED
  BY <1>2, NoFlush, Zenon DEF Aside, FlushPcs

LEMMA LookupData ==
    ASSUME IInv, IInv', DInv, NEW t \in Threads, ClaimLoad(t) \/ LookupTimesOut(t) \/ Unload(t)
    PROVE  DInv'
<1>1. /\ mode = "up" /\ th[t].pc \in {"lookup", "unload"}
      /\ UNCHANGED <<page_table, frame_page, owned, contents, flushing, extent, mode, history, devices>>
  BY Zenon DEF ClaimLoad, LookupTimesOut, Unload, At, index
<1>2. Return(t) \/ \E pc \in {"acquire", "latch"} : Goto(t, pc)
  BY Zenon DEF ClaimLoad, LookupTimesOut, Unload
<1>3. th[t].pc \notin FlushPcs
  BY <1>1, Zenon DEF FlushPcs
<1>4. Others(t) /\ Aside(t)
  BY <1>2, <1>3, GotoAside, ReturnAside, Zenon
<1>5. LeavesPages /\ LeavesListed(t)
  BY <1>1, Zenon DEF LeavesPages, LeavesListed, SamePages, contents, extent, history, devices
<1> QED
  BY <1>1, <1>4, <1>5, BystanderStep, Zenon

LEMMA UnpinData ==
    ASSUME IInv, IInv', DInv, NEW t \in Threads, Unpin(t)
    PROVE  DInv'
<1>1. /\ mode = "up" /\ th[t].pc = "unpin" /\ Return(t)
      /\ UNCHANGED <<page_table, frame_page, owned, contents, flushing, extent, mode, history, devices>>
  BY Zenon DEF Unpin, At
<1>2. Others(t) /\ Aside(t)
  BY <1>1, ReturnAside, Zenon DEF FlushPcs
<1>3. LeavesPages /\ LeavesListed(t)
  BY <1>1, Zenon DEF LeavesPages, LeavesListed, SamePages, contents, extent, history, devices
<1> QED
  BY <1>1, <1>2, <1>3, BystanderStep, Zenon

LEMMA FailData ==
    ASSUME IInv, IInv', DInv, NEW t \in Threads, AcquireTimesOut(t) \/ ReadFails(t)
    PROVE  DInv'
<1>1. /\ mode = "up" /\ th[t].pc \in {"acquire", "read"} /\ Failed(t) /\ owned' \subseteq owned
      /\ UNCHANGED <<page_table, frame_page, contents, flushing, extent, mode, history, devices>>
  BY Zenon DEF AcquireTimesOut, ReadFails, GiveBack, At, index
<1>2. Others(t) /\ Aside(t)
  BY <1>1, FailedAside, Zenon DEF FlushPcs
<1>3. LeavesPages /\ LeavesListed(t)
  BY <1>1 DEF LeavesPages, LeavesListed, SamePages, contents, extent, history, devices
<1> QED
  BY <1>1, <1>2, <1>3, BystanderStep, Zenon

LEMMA AcquiredAside ==
    ASSUME IInv, DInv, NEW t \in Threads, th[t].pc = "acquire",
           NEW pc \in {"evict", "read", "install"}, NEW f \in Frames, Acquired(t, f, pc),
           pc = "install" => th[t].op = "new"
    PROVE  Others(t) /\ Aside(t) /\ owned' = owned \cup {f}
<1>1. TypeOK /\ th[t] \in ThreadState
  BY DEF IInv, TypeOK
<1> DEFINE r == [th[t] EXCEPT !.pc = pc, !.frame = {f}]
<1>2. r \in ThreadState
  BY <1>1, ZenonT(60) DEF ThreadState
<1>3. th' = [th EXCEPT ![t] = r]
  BY Zenon DEF Acquired
<1>4. th'[t] = r /\ Others(t)
  BY <1>1, <1>2, <1>3, Moved, ZenonT(60)
<1>5. /\ th'[t].pc = pc /\ th'[t].op = th[t].op
      /\ th'[t].rest = th[t].rest /\ th'[t].snapshot = th[t].snapshot
  BY <1>1, <1>4, ZenonT(60) DEF ThreadState
<1> QED
  BY <1>4, <1>5, NoFlush, ZenonT(60) DEF Aside, Acquired, FlushPcs

LEMMA TakeFreeData ==
    ASSUME IInv, IInv', DInv, NEW t \in Threads, TakeFree(t)
    PROVE  DInv'
<1>1. /\ mode = "up" /\ th[t].pc = "acquire" /\ TypeOK /\ IndexInv
      /\ UNCHANGED <<page_table, frame_page, contents, flushing, extent, mode, history, devices>>
  BY Zenon DEF TakeFree, At, IInv
<1>2. PICK f \in free_list : Acquired(t, f, Filling(t))
  BY Zenon DEF TakeFree
<1>3. f \in Frames /\ frame_page[f] = {}
  BY <1>1, <1>2, Zenon DEF TypeOK, IndexInv
<1>4. Filling(t) \in {"read", "install"} /\ (Filling(t) = "install" => th[t].op = "new")
  BY Zenon DEF Filling
<1>5. Others(t) /\ Aside(t) /\ owned' = owned \cup {f}
  BY <1>1, <1>2, <1>3, <1>4, AcquiredAside
<1>6. LeavesListed(t)
  <2>1. \A u \in Threads : f \notin ListedBy(th[u])
    BY <1>3, Parts, Zenon DEF FlushOK
  <2> QED
    BY <1>5, <2>1, Zenon DEF LeavesListed
<1>7. LeavesPages
  BY <1>1, Zenon DEF LeavesPages, SamePages, contents, extent, history, devices
<1> QED
  BY <1>1, <1>5, <1>6, <1>7, BystanderStep, Zenon

LEMMA TakeVictimData ==
    ASSUME ~StaleFlush, IInv, IInv', DInv, NEW t \in Threads, TakeVictim(t)
    PROVE  DInv'
<1>1. /\ mode = "up" /\ th[t].pc = "acquire"
      /\ UNCHANGED <<page_table, frame_page, contents, flushing, extent, mode, history, devices>>
  BY Zenon DEF TakeVictim, At
<1>2. PICK f \in Victims : Acquired(t, f, "evict")
  BY Zenon DEF TakeVictim
<1>3. f \in Frames /\ f \notin Listed
  BY <1>2, Zenon DEF Victims, Evictable
<1>4. Others(t) /\ Aside(t) /\ owned' = owned \cup {f}
  BY <1>1, <1>2, <1>3, AcquiredAside, Zenon
<1>5. LeavesListed(t)
  <2>1. \A u \in Threads : f \notin ListedBy(th[u])
    BY <1>3, Zenon DEF Listed, ListedBy
  <2> QED
    BY <1>4, <2>1, Zenon DEF LeavesListed
<1>6. LeavesPages
  BY <1>1, Zenon DEF LeavesPages, SamePages, contents, extent, history, devices
<1> QED
  BY <1>1, <1>4, <1>5, <1>6, BystanderStep, Zenon

LEMMA LatchData ==
    ASSUME IInv, IInv', DInv, NEW t \in Threads, Latch(t)
    PROVE  DInv'
<1>1. /\ mode = "up" /\ th[t].pc = "latch" /\ known \subseteq known'
      /\ UNCHANGED <<index, contents, flushing, lsn, mode, history, devices>>
  BY DEF Latch, At
<1>2. PICK f \in th[t].frame, p \in th[t].page, write \in BOOLEAN :
         th' = [th EXCEPT ![t] = [Idle EXCEPT !.pc = "hold",
                  !.held = th[t].held \cup {[frame |-> f, page |-> p, write |-> write]}]]
  BY ZenonT(60) DEF Latch
<1>3. TypeOK /\ th[t] \in ThreadState
  BY DEF IInv, TypeOK
<1> DEFINE g == [frame |-> f, page |-> p, write |-> write]
           r == [Idle EXCEPT !.pc = "hold", !.held = th[t].held \cup {g}]
<1>4. g \in Guard
  BY <1>2, <1>3, ZenonT(60) DEF Guard, ThreadState
<1>5. r \in ThreadState
  <2>1. th[t].held \cup {g} \in SUBSET Guard
    BY <1>3, <1>4, ZenonT(60) DEF ThreadState
  <2> QED
    BY <2>1, IdleType, ZenonT(60) DEF ThreadState
<1>6. th'[t] = r /\ Others(t)
  <2>1. th' = [th EXCEPT ![t] = r]
    BY <1>2, Zenon
  <2> QED
    BY <1>3, <1>5, <2>1, Moved, ZenonT(60)
<1> HIDE DEF g
<1>7. th'[t].pc = "hold" /\ th'[t].rest = {} /\ th'[t].snapshot = <<>>
  BY <1>6, Zenon DEF Idle
<1>8. Aside(t)
  BY <1>1, <1>7, EmptySnapshot, Zenon DEF Aside, FlushPcs
<1>9. LeavesPages /\ LeavesListed(t)
  BY <1>1, Zenon DEF LeavesPages, LeavesListed, SamePages, index, contents, history, devices
<1> QED
  BY <1>1, <1>6, <1>8, <1>9, BystanderStep, Zenon

LEMMA DropGuardData ==
    ASSUME IInv, IInv', DInv, NEW t \in Threads, DropGuard(t)
    PROVE  DInv'
<1>1. /\ mode = "up" /\ th[t].pc = "hold"
      /\ UNCHANGED <<index, contents, flushing, extent, mode, history, devices>>
  BY ZenonT(60) DEF DropGuard, At
<1>2. TypeOK /\ th[t] \in ThreadState
  BY DEF IInv, TypeOK
<1> DEFINE held(g) == th[t].held \ {g}
           pc(g) == IF pin_count[g.frame] = 1 THEN "unpin" ELSE IF held(g) = {} THEN "idle" ELSE "hold"
           frame(g) == IF pc(g) = "unpin" THEN {g.frame} ELSE {}
           r(g) == [th[t] EXCEPT !.held = held(g), !.pc = pc(g), !.frame = frame(g)]
<1>3. PICK g \in th[t].held :
         th' = [th EXCEPT ![t].held = held(g), ![t].pc = pc(g), ![t].frame = frame(g)]
  BY ZenonT(60) DEF DropGuard
<1>4. g \in Guard /\ g.frame \in Frames
  BY <1>2, <1>3, ZenonT(60) DEF ThreadState, Guard
<1>5. pc(g) \in {"unpin", "idle", "hold"} /\ frame(g) \in SUBSET Frames
  BY <1>4, Zenon
<1> HIDE DEF pc, frame
<1>6. r(g) \in ThreadState
  BY <1>2, <1>5, ZenonT(60) DEF ThreadState
<1>7. th' = [th EXCEPT ![t] = r(g)]
  BY <1>3, ZenonT(60)
<1>8. th'[t] = r(g) /\ Others(t)
  BY <1>2, <1>6, <1>7, Moved, ZenonT(60)
<1>9. th'[t].pc = pc(g) /\ th'[t].rest = th[t].rest /\ th'[t].snapshot = th[t].snapshot
  BY <1>2, <1>8, ZenonT(60) DEF ThreadState
<1>10. Aside(t)
  BY <1>1, <1>5, <1>9, NoFlush, ZenonT(60) DEF Aside, FlushPcs
<1>11. LeavesPages /\ LeavesListed(t)
  BY <1>1, ZenonT(60) DEF LeavesPages, LeavesListed, SamePages, index, contents, extent, history, devices
<1> QED
  BY <1>1, <1>8, <1>10, <1>11, BystanderStep, Zenon

-----------------------------------------------------------------------------
(* A victim is checked, a page read, a flush begun and ended: the pages    *)
(* stay as they are.                                                       *)

\* What a step leaves alone that changes the record of one thread only.
Alone ==
    /\ UNCHANGED <<page_table, frame_page, owned, contents, extent, history, devices>>
    /\ UNCHANGED <<mode, flush_poisoned>>

LEMMA AloneStep ==
    ASSUME IInv, IInv', DInv, NEW t \in Threads, mode = "up", th[t].pc # "write",
           Alone, Others(t), LeaseInv', DataOK(th[t])'
    PROVE  DInv'
<1>1. SamePages /\ UNCHANGED <<mode, flush_poisoned>> /\ UNCHANGED lsn /\ UNCHANGED known
  BY Zenon DEF Alone, SamePages, contents, extent, history, devices
<1>2. LeavesListed(t)
  BY Zenon DEF Alone, LeavesListed
<1>3. lsn' \in {lsn, lsn + 1} /\ known \subseteq known'
  BY <1>1, Zenon
<1> QED
  BY <1>1, <1>2, <1>3, OwnStep, ZenonT(60)

LEMMA CheckVictimData ==
    ASSUME IInv, IInv', DInv, NEW t \in Threads, CheckVictim(t)
    PROVE  DInv'
<1>1. /\ mode = "up" /\ th[t].pc = "evict" /\ Alone /\ UNCHANGED flush_sequence
  BY DEF CheckVictim, At, Alone, index, flushing
<1>2. /\ TypeOK /\ th[t] \in ThreadState /\ ThreadOK(th[t]) /\ OwnOK(th[t]) /\ LeaseInv
  BY Parts, ZenonT(60)
<1>3. PICK f \in th[t].frame :
         IF dirty_since_lsn[f] # 0 THEN Flush(t, {f}, {}) ELSE Goto(t, "complete")
  BY Zenon DEF CheckVictim
<1>4. f \in Frames /\ th[t].frame = {f} /\ frame_page[f] # {}
  BY <1>1, <1>2, <1>3, Zenon DEF ThreadOK, Opt, OwnOK, OwnedBy, FillPcs
<1>5. CASE Flush(t, {f}, {})
  <2>1. /\ Others(t) /\ th'[t].pc = "lease" /\ th'[t].batch = {f} /\ th'[t].todo = {f}
        /\ th'[t].rest = {} /\ th'[t].snapshot = <<>> /\ th'[t].frame = {f}
    <3>1. {f} \in SUBSET Frames /\ {} \in SUBSET Frames
      BY <1>4, Zenon
    <3>2. /\ Others(t) /\ th'[t].pc = "lease" /\ th'[t].batch = {f} /\ th'[t].todo = {f}
          /\ th'[t].rest = {} /\ th'[t].snapshot = <<>> /\ th'[t].frame = th[t].frame
      BY <1>2, <1>5, <3>1, FlushFields, ZenonT(60)
    <3> QED
      BY <1>4, <3>2, Zenon
  <2>2. DOMAIN th'[t].snapshot = {}
    BY <2>1, EmptySnapshot, Zenon
  <2>3. FlushOK(th[t])'
    BY <1>1, <1>4, <2>1, <2>2, ZenonT(60) DEF FlushOK, ListedBy, Alone
  <2>4. VictimOK(th[t])' /\ InstallOK(th[t])'
    BY <2>1, <2>2, ZenonT(60) DEF VictimOK, InstallOK
  <2>5. SnapOK(th[t])' /\ BackedUp(th[t])'
    BY <2>1, <2>2, ZenonT(60) DEF SnapOK, BackedUp
  <2>6. LeaseInv'
    BY <1>1, <1>2, <2>1, SameLease, ZenonT(60) DEF LeasePcs, Alone
  <2> QED
    BY <1>1, <2>1, <2>3, <2>4, <2>5, <2>6, AloneStep, ZenonT(60) DEF DataOK
<1>6. CASE dirty_since_lsn[f] = 0 /\ Goto(t, "complete")
  <2>1. /\ Others(t) /\ th'[t].pc = "complete" /\ th'[t].rest = th[t].rest
        /\ th'[t].snapshot = th[t].snapshot /\ th'[t].frame = {f}
    BY <1>2, <1>4, <1>6, GotoFields, Zenon
  <2>2. th'[t].rest = {} /\ DOMAIN th'[t].snapshot = {}
    BY <1>1, <2>1, NoFlush, Zenon DEF FlushPcs
  <2>3. FlushOK(th[t])'
    BY <2>1, <2>2, ZenonT(60) DEF FlushOK, ListedBy, FlushPcs
  <2>4. VictimOK(th[t])' /\ InstallOK(th[t])'
    BY <1>1, <1>6, <2>1, <2>2, ZenonT(60) DEF VictimOK, InstallOK, OwnedBy, Alone, contents
  <2>5. SnapOK(th[t])' /\ BackedUp(th[t])'
    BY <2>1, <2>2, ZenonT(60) DEF SnapOK, BackedUp
  <2>6. LeaseInv'
    BY <1>1, <1>2, <2>1, SameLease, Zenon DEF LeasePcs, Alone
  <2> QED
    BY <1>1, <2>1, <2>3, <2>4, <2>5, <2>6, AloneStep, ZenonT(60) DEF DataOK
<1> QED
  BY <1>3, <1>5, <1>6, Zenon

LEMMA ReadPageData ==
    ASSUME IInv, IInv', DInv, NEW t \in Threads, ReadPage(t)
    PROVE  DInv'
<1>1. /\ mode = "up" /\ th[t].pc = "read" /\ Alone /\ UNCHANGED flush_sequence
  BY Zenon DEF ReadPage, At, Alone, index, flushing
<1>2. /\ TypeOK /\ th[t] \in ThreadState /\ ThreadOK(th[t]) /\ SeekOK(th[t]) /\ LeaseInv /\ KeptInv
  BY Parts, Zenon
<1>3. PICK p \in th[t].page : \E n \in file[p] : th' = [th EXCEPT ![t].pc = "install", ![t].lsn = n]
  BY ZenonT(60) DEF ReadPage
<1>4. PICK n \in file[p] : th' = [th EXCEPT ![t].pc = "install", ![t].lsn = n]
  BY <1>3, ZenonT(60)
<1>5. p \in Pages /\ th[t].page = {p} /\ page_table[p] = {}
  BY <1>1, <1>2, <1>3, Zenon DEF ThreadOK, Opt, SeekOK, SoughtBy, SeekPcs, FillPcs
<1>6. n \in 0 .. MaxLsn
  <2>1. file[p] \in Content
    BY <1>2, <1>5, ZenonT(60) DEF TypeOK, DevicesType
  <2> QED
    BY <1>4, <2>1, Zenon DEF Content, Torn
<1> DEFINE r == [th[t] EXCEPT !.pc = "install", !.lsn = n]
<1>7. r \in ThreadState
  BY <1>2, <1>6, ZenonT(60) DEF ThreadState
<1>8. th' = [th EXCEPT ![t] = r]
  BY <1>4, ZenonT(60)
<1>9. th'[t] = r /\ Others(t)
  BY <1>2, <1>7, <1>8, Moved, ZenonT(60)
<1>10. /\ th'[t].pc = "install" /\ th'[t].lsn = n /\ th'[t].page = {p}
       /\ th'[t].rest = th[t].rest /\ th'[t].snapshot = th[t].snapshot
  BY <1>2, <1>5, <1>9, ZenonT(60) DEF ThreadState
<1>11. th'[t].rest = {} /\ DOMAIN th'[t].snapshot = {}
  BY <1>1, <1>10, NoFlush, Zenon DEF FlushPcs
<1>12. flush_poisoned \/ n = current[p]
  <2>1. flush_poisoned \/ file[p] = {current[p]}
    BY <1>1, <1>2, <1>5, ZenonT(60) DEF KeptInv, Good
  <2> QED
    BY <1>4, <2>1, ZenonT(60)
<1>13. FlushOK(th[t])'
  BY <1>10, <1>11, Zenon DEF FlushOK, ListedBy, FlushPcs
<1>14. VictimOK(th[t])' /\ SnapOK(th[t])' /\ BackedUp(th[t])'
  BY <1>10, <1>11, Zenon DEF VictimOK, SnapOK, BackedUp
<1>15. InstallOK(th[t])'
  BY <1>1, <1>10, <1>12, Zenon DEF InstallOK, Alone, history
<1>16. LeaseInv'
  BY <1>1, <1>2, <1>9, <1>10, SameLease, ZenonT(60) DEF LeasePcs, Alone
<1> QED
  BY <1>1, <1>9, <1>13, <1>14, <1>15, <1>16, AloneStep, Zenon DEF DataOK

\* A flush by flush_page or flush_all starts.
LEMMA StartFlushData ==
    ASSUME ~StaleFlush, IInv, IInv', DInv, NEW t \in Threads, StartFlushPage(t) \/ StartFlushAll(t)
    PROVE  DInv'
<1>1. /\ mode = "up" /\ th[t].pc \in {"idle", "hold"} /\ Alone /\ UNCHANGED flush_sequence
  BY Zenon DEF StartFlushPage, StartFlushAll, Begin, Alone, index, flushing
<1>2. /\ TypeOK /\ ThreadOK(th[t]) /\ LeaseInv
  BY Parts, Zenon
<1>3. PICK c \in SUBSET DirtyFrames, d \in SUBSET DirtyFrames :
         Flush(t, c, d) /\ \A f \in c \cup d : f \notin owned
  <2>1. CASE StartFlushPage(t)
    <3>1. PICK f \in DirtyFrames : Listable(f) /\ Flush(t, {f}, {})
      BY <2>1, Zenon DEF StartFlushPage
    <3>2. {f} \in SUBSET DirtyFrames /\ {} \in SUBSET DirtyFrames /\ \A g \in {f} \cup {} : g \notin owned
      BY <3>1 DEF Listable
    <3> QED
      BY <3>1, <3>2, ZenonT(60)
  <2>2. CASE StartFlushAll(t)
    <3>1. PICK c \in Chunks(DirtyFrames) : Flush(t, c, DirtyFrames \ c)
      BY <2>2, ZenonT(60) DEF StartFlushAll
    <3>2. c \in SUBSET DirtyFrames /\ DirtyFrames \ c \in SUBSET DirtyFrames
      BY <3>1, Zenon DEF Chunks
    <3>3. \A f \in c \cup (DirtyFrames \ c) : f \notin owned
      BY <2>2, <3>2, ZenonT(60) DEF StartFlushAll, Listable
    <3> QED
      BY <3>1, <3>2, <3>3
  <2> QED
    BY <2>1, <2>2, Zenon
<1>4. c \in SUBSET Frames /\ d \in SUBSET Frames /\ \A f \in c \cup d : frame_page[f] # {}
  BY DEF DirtyFrames
<1>5. /\ Others(t) /\ th'[t].pc = "lease" /\ th'[t].todo = c /\ th'[t].rest = d
      /\ th'[t].snapshot = <<>> /\ th'[t].frame = th[t].frame
  BY <1>2, <1>3, <1>4, FlushFields, ZenonT(60)
<1>6. th'[t].frame = {} /\ DOMAIN th'[t].snapshot = {}
  BY <1>1, <1>2, <1>5, EmptySnapshot, Zenon DEF ThreadOK
<1>7. FlushOK(th[t])'
  BY <1>1, <1>3, <1>4, <1>5, <1>6 DEF FlushOK, ListedBy, FlushPcs, Alone
<1>8. VictimOK(th[t])' /\ InstallOK(th[t])'
  BY <1>5, <1>6 DEF VictimOK, InstallOK
<1>9. SnapOK(th[t])' /\ BackedUp(th[t])'
  BY <1>5, <1>6, Zenon DEF SnapOK, BackedUp
<1>10. LeaseInv'
  BY <1>1, <1>2, <1>5, SameLease, ZenonT(60) DEF LeasePcs, Alone
<1> QED
  BY <1>1, <1>5, <1>7, <1>8, <1>9, <1>10, AloneStep, Zenon DEF DataOK

LEMMA TakeLeaseData ==
    ASSUME IInv, IInv', DInv, NEW t \in Threads, TakeLease(t)
    PROVE  DInv'
<1>1. /\ mode = "up" /\ th[t].pc = "lease" /\ Alone
      /\ flush_sequence = {} /\ flush_sequence' = {t} /\ ~flush_poisoned
  BY ZenonT(60) DEF TakeLease, At, Alone, index
<1>2. TypeOK /\ LeaseInv /\ FlushOK(th[t]) /\ VictimOK(th[t])
  BY Parts
<1>3. /\ Others(t) /\ th'[t].pc = "snapshot"
      /\ th'[t].batch = th[t].batch /\ th'[t].todo = th[t].todo /\ th'[t].rest = th[t].rest
      /\ th'[t].snapshot = th[t].snapshot /\ th'[t].frame = th[t].frame
  BY <1>2, GotoFields, ZenonT(60) DEF TakeLease
<1>4. DOMAIN th[t].snapshot = {}
  BY <1>1, <1>2, ZenonT(60) DEF FlushOK, LeasePcs
<1>5. FlushOK(th[t])'
  BY <1>1, <1>2, <1>3, <1>4, ZenonT(60) DEF FlushOK, ListedBy, FlushPcs, Alone
<1>6. VictimOK(th[t])' /\ InstallOK(th[t])'
  BY <1>3, <1>4, ZenonT(60) DEF VictimOK, InstallOK
<1>7. SnapOK(th[t])' /\ BackedUp(th[t])'
  BY <1>3, <1>4, ZenonT(60) DEF SnapOK, BackedUp
<1>8. LeaseInv'
  <2>1. \A u \in Threads : th[u].pc \notin LeasePcs
    BY <1>1, <1>2, Zenon DEF LeaseInv
  <2>2. Good'
    BY <1>1, Zenon DEF Good, Alone
  <2>3. \A u \in Threads : u \in {t} <=> th'[u].pc \in LeasePcs
    BY <1>3, <2>1, Zenon DEF Others, LeasePcs
  <2> QED
    BY <1>1, <2>2, <2>3, Zenon DEF LeaseInv
<1> QED
  BY <1>1, <1>3, <1>5, <1>6, <1>7, <1>8, AloneStep, ZenonT(60) DEF DataOK

LEMMA NoLeaseData ==
    ASSUME IInv, IInv', DInv, NEW t \in Threads, Poisoned(t) \/ LeaseTimesOut(t)
    PROVE  DInv'
<1>1. /\ mode = "up" /\ th[t].pc = "lease" /\ FlushFails(t)
      /\ UNCHANGED <<pin_count, contents, flushing, extent, mode, counts, history, devices>>
  BY ZenonT(60) DEF Poisoned, LeaseTimesOut, At
<1>2. /\ UNCHANGED <<page_table, frame_page>> /\ owned' \subseteq owned /\ Others(t)
      /\ th'[t].pc \in {"idle", "hold", "unload"}
      /\ th'[t].rest = {} /\ DOMAIN th'[t].snapshot = {}
  BY <1>1, FlushFailsAside, ZenonT(60)
<1>3. SamePages /\ UNCHANGED <<mode, flush_poisoned, flush_sequence, lsn, known>>
  BY <1>1, <1>2, ZenonT(60) DEF SamePages, contents, flushing, extent, history, devices
<1>4. DataOK(th[t])'
  BY <1>2, DoneData, ZenonT(60) DEF FlushPcs
<1>5. LeaseInv'
  <2>1. LeaseInv
    BY Parts, Zenon
  <2> QED
    BY <1>1, <1>2, <1>3, <2>1, SameLease, ZenonT(60) DEF LeasePcs
<1>6. LeavesListed(t)
  BY <1>2, ZenonT(60) DEF LeavesListed
<1> QED
  BY <1>1, <1>2, <1>3, <1>4, <1>5, <1>6, OwnStep, ZenonT(60)

\* The frames listed are those of an earlier list.
LEMMA EndFlushData ==
    ASSUME IInv, IInv', DInv, NEW t \in Threads, EndFlush(t)
    PROVE  DInv'
<1>1. /\ mode = "up" /\ th[t].pc = "clean" /\ th[t].todo = {} /\ flush_sequence' = {} /\ Alone
  BY Zenon DEF EndFlush, At, Alone, index
<1>2. /\ TypeOK /\ th[t] \in ThreadState /\ LeaseInv /\ FlushOK(th[t]) /\ VictimOK(th[t])
  BY Parts, Zenon
<1>3. CASE th[t].frame # {}
  <2> DEFINE r == [th[t] EXCEPT !.pc = "complete", !.batch = {}, !.snapshot = <<>>]
  <2>1. r \in ThreadState
    BY <1>2, EmptySnapshot, ZenonT(60) DEF ThreadState
  <2>2. th' = [th EXCEPT ![t] = r]
    BY <1>3, ZenonT(60) DEF EndFlush, ForEviction
  <2>3. th'[t] = r /\ Others(t)
    BY <1>2, <2>1, <2>2, Moved, ZenonT(60)
  <2>4. /\ th'[t].pc = "complete" /\ th'[t].frame = th[t].frame /\ th'[t].rest = th[t].rest
        /\ th'[t].snapshot = <<>>
    BY <1>2, <2>3, ZenonT(60) DEF ThreadState
  <2>5. th'[t].rest = {} /\ DOMAIN th'[t].snapshot = {}
    BY <1>1, <1>2, <1>3, <2>4, EmptySnapshot, ZenonT(60) DEF FlushOK, FlushPcs
  <2>6. FlushOK(th[t])'
    BY <2>4, <2>5, ZenonT(60) DEF FlushOK, ListedBy, FlushPcs
  <2>7. VictimOK(th[t])' /\ InstallOK(th[t])'
    BY <1>1, <1>2, <2>4, <2>5, ZenonT(60) DEF VictimOK, InstallOK, OwnedBy, FillPcs, FlushPcs, Alone, contents
  <2>8. SnapOK(th[t])' /\ BackedUp(th[t])'
    BY <2>4, <2>5, Zenon DEF SnapOK, BackedUp
  <2>9. LeaseInv'
    BY <1>1, <1>2, <2>3, <2>4, DropLease, ZenonT(60) DEF LeasePcs
  <2> QED
    BY <1>1, <2>3, <2>6, <2>7, <2>8, <2>9, AloneStep, Zenon DEF DataOK
<1>4. CASE th[t].frame = {} /\ th[t].rest = {}
  <2>1. Return(t)
    BY <1>4, Zenon DEF EndFlush, ForEviction
  <2>2. Others(t) /\ th'[t].pc \in {"idle", "hold"} /\ th'[t].rest = {} /\ DOMAIN th'[t].snapshot = {}
    BY <2>1, ReturnAside, Zenon
  <2>3. DataOK(th[t])'
    BY <2>2, DoneData, Zenon DEF FlushPcs
  <2>4. LeaseInv'
    BY <1>1, <1>2, <2>2, DropLease, ZenonT(60) DEF LeasePcs
  <2> QED
    BY <1>1, <2>2, <2>3, <2>4, AloneStep, Zenon
<1>5. CASE th[t].frame = {} /\ th[t].rest # {}
  <2>1. PICK c \in Chunks(th[t].rest) : Flush(t, c, th[t].rest \ c)
    BY <1>5 DEF EndFlush, ForEviction
  <2>2. c \subseteq th[t].rest /\ c \in SUBSET Frames /\ th[t].rest \ c \in SUBSET Frames
    BY <1>2, <2>1, ZenonT(60) DEF Chunks, ThreadState
  <2>3. /\ Others(t) /\ th'[t].pc = "lease" /\ th'[t].todo = c /\ th'[t].rest = th[t].rest \ c
        /\ th'[t].snapshot = <<>> /\ th'[t].frame = th[t].frame
    BY <1>2, <2>1, <2>2, FlushFields, ZenonT(60)
  <2>4. DOMAIN th'[t].snapshot = {}
    BY <2>3, EmptySnapshot, Zenon
  <2>5. FlushOK(th[t])'
    BY <1>1, <1>2, <1>5, <2>2, <2>3, <2>4, ZenonT(60) DEF FlushOK, ListedBy, FlushPcs, Alone
  <2>6. VictimOK(th[t])' /\ InstallOK(th[t])'
    BY <2>3, <2>4, ZenonT(60) DEF VictimOK, InstallOK
  <2>7. SnapOK(th[t])' /\ BackedUp(th[t])'
    BY <2>3, <2>4, ZenonT(60) DEF SnapOK, BackedUp
  <2>8. LeaseInv'
    BY <1>1, <1>2, <2>3, DropLease, Zenon DEF LeasePcs
  <2> QED
    BY <1>1, <2>3, <2>5, <2>6, <2>7, <2>8, AloneStep, Zenon DEF DataOK
<1> QED
  BY <1>3, <1>4, <1>5, Zenon

-----------------------------------------------------------------------------
(* A frame is copied. *)

\* A mapped frame holds the last write of its page.
LEMMA MappedCopy ==
    ASSUME TypeOK, IndexInv, LsnInv, KeptInv, FileInv, Good,
           NEW f \in Frames, frame_page[f] # {}, NEW p \in bytes[f].id
    PROVE  /\ p \in Pages /\ frame_page[f] = {p} /\ bytes[f].id = {p} /\ bytes[f].lsn = current[p]
           /\ flushed[p] <= bytes[f].lsn /\ bytes[f].lsn <= current[p]
           /\ \A m \in file[p] : m <= bytes[f].lsn
           /\ \A q \in Pages \ {p} : bytes[f].lsn # 0 => current[q] # bytes[f].lsn
<1>1. p \in Pages /\ bytes[f].id = frame_page[f] /\ frame_page[f] = {p}
  BY OnePage, ZenonT(60) DEF TypeOK, IndexInv
<1>2. bytes[f].lsn = current[p]
  BY <1>1, Zenon DEF KeptInv
<1>3. current[p] \in 0 .. MaxLsn /\ flushed[p] <= current[p] /\ current[p] <= current[p]
  BY <1>1, DoubleWriteBounds DEF LsnInv
<1>4. \A m \in file[p] : m <= current[p]
  BY <1>1, Zenon DEF FileInv
<1>5. \A q \in Pages \ {p} : current[p] # 0 => current[q] # current[p]
  BY <1>1, Zenon DEF LsnInv
<1> QED
  BY <1>1, <1>2, <1>3, <1>4, <1>5, ZenonT(60)

LEMMA SnapshotData ==
    ASSUME IInv, IInv', DInv, NEW t \in Threads, Snapshot(t)
    PROVE  DInv'
<1>1. /\ mode = "up" /\ th[t].pc = "snapshot" /\ Alone /\ UNCHANGED flush_sequence
  BY Zenon DEF Snapshot, At, Alone, index, flushing
<1>2. /\ TypeOK /\ th[t] \in ThreadState /\ IndexInv /\ LsnInv /\ KeptInv /\ FileInv /\ LeaseInv
      /\ FlushOK(th[t]) /\ VictimOK(th[t]) /\ SnapOK(th[t])
  BY Parts, Zenon
<1> DEFINE s(f) == [g \in DOMAIN th[t].snapshot \cup {f} |-> IF g = f THEN bytes[f] ELSE th[t].snapshot[g]]
           r(f) == [th[t] EXCEPT !.todo = th[t].todo \ {f}, !.snapshot = s(f)]
<1>3. PICK f \in th[t].todo : th' = [th EXCEPT ![t] = r(f)]
  BY <1>2, ZenonT(60) DEF Snapshot, TypeOK
<1>4. f \in Frames /\ th[t].snapshot \in Copies /\ bytes[f] \in [id : SUBSET Pages, lsn : 0 .. MaxLsn]
  BY <1>2, <1>3, ZenonT(60) DEF TypeOK, ThreadState
<1>5. s(f) \in Copies
  BY <1>4, AddCopy, ZenonT(60)
<1>6. DOMAIN s(f) = DOMAIN th[t].snapshot \cup {f}
  OBVIOUS
<1>7. s(f)[f] = bytes[f] /\ \A g \in DOMAIN th[t].snapshot : g # f => s(f)[g] = th[t].snapshot[g]
  OBVIOUS
<1> HIDE DEF s
<1>8. r(f) \in ThreadState
  BY <1>2, <1>5, ZenonT(60) DEF ThreadState
<1>9. th'[t] = r(f) /\ Others(t)
  BY <1>2, <1>3, <1>8, Moved, ZenonT(60)
<1>10. /\ th'[t].pc = "snapshot" /\ th'[t].snapshot = s(f) /\ th'[t].todo = th[t].todo \ {f}
       /\ th'[t].batch = th[t].batch /\ th'[t].rest = th[t].rest /\ th'[t].frame = th[t].frame
  BY <1>1, <1>2, <1>9, ZenonT(60) DEF ThreadState
<1>11. Good /\ \A g \in th[t].todo : g \in Frames /\ frame_page[g] # {}
  <2>1. Good
    BY <1>1, <1>2, Zenon DEF LeaseInv, LeasePcs
  <2>2. \A g \in th[t].todo : g \in Frames
    BY <1>2, ZenonT(60) DEF ThreadState
  <2> QED
    BY <1>1, <1>2, <2>1, <2>2, Zenon DEF FlushOK, ListedBy
<1>12. FlushOK(th[t])'
  BY <1>1, <1>2, <1>10, ZenonT(60) DEF FlushOK, ListedBy, FlushPcs, LeasePcs, Alone
<1>13. VictimOK(th[t])' /\ InstallOK(th[t])'
  BY <1>1, <1>2, <1>6, <1>7, <1>10, ZenonT(60) DEF VictimOK, InstallOK, OwnedBy, FillPcs, FlushPcs, Alone, contents
<1>14. SnapOK(th[t])'
  <2>1. ASSUME NEW p \in bytes[f].id PROVE CopyOK(th[t], f, p)'
    <3>1. /\ bytes[f].lsn = current[p]
          /\ flushed[p] <= bytes[f].lsn /\ bytes[f].lsn <= current[p]
          /\ \A m \in file[p] : m <= bytes[f].lsn
          /\ \A q \in Pages \ {p} : bytes[f].lsn # 0 => current[q] # bytes[f].lsn
      BY <1>2, <1>3, <1>4, <1>11, MappedCopy, Zenon
    <3>2. th'[t].snapshot[f].lsn = bytes[f].lsn
      BY <1>7, <1>10, ZenonT(60)
    <3> QED
      BY <1>1, <1>10, <3>1, <3>2, ZenonT(60) DEF CopyOK, Alone, contents, history, devices
  <2>2. ASSUME NEW g \in DOMAIN th[t].snapshot, g # f, NEW p \in th[t].snapshot[g].id
        PROVE  CopyOK(th[t], g, p)'
    <3>1. CopyOK(th[t], g, p)
      BY <1>2, ZenonT(60) DEF SnapOK
    <3>2. th'[t].snapshot[g] = th[t].snapshot[g]
      BY <1>7, <1>10, <2>2, Zenon
    <3> QED
      BY <1>1, <1>10, <3>1, <3>2, ZenonT(60) DEF CopyOK, Alone, contents, history, devices
  <2>3. \A g \in DOMAIN th[t].snapshot : th[t].snapshot[g].id # bytes[f].id
    BY <1>1, <1>2, <1>3, ZenonT(60) DEF SnapOK
  <2>4. \A g \in th[t].todo \ {f} : bytes[f].id # bytes[g].id
    <3>1. ASSUME NEW g \in th[t].todo \ {f}, bytes[f].id = bytes[g].id PROVE FALSE
      <4>1. frame_page[f] # {} /\ frame_page[f] = bytes[f].id /\ frame_page[g] = bytes[g].id /\ g \in Frames
        BY <1>2, <1>3, <1>11, <3>1, ZenonT(60) DEF IndexInv
      <4>2. PICK p \in Pages : frame_page[f] = {p}
        BY <1>2, <1>4, <4>1, Zenon DEF IndexInv, Opt
      <4>3. f \in page_table[p] /\ g \in page_table[p]
        BY <1>2, <1>4, <3>1, <4>1, <4>2, ZenonT(60) DEF IndexInv
      <4> QED
        BY <1>2, <3>1, <4>3, OneFrame, Zenon
    <3> QED
      BY <3>1, ZenonT(60)
  <2>5. \A g \in DOMAIN th[t].snapshot : \A h \in DOMAIN th[t].snapshot \cup th[t].todo :
           /\ h \in DOMAIN th[t].snapshot /\ h # g => th[t].snapshot[g].id # th[t].snapshot[h].id
           /\ h \in th[t].todo => th[t].snapshot[g].id # bytes[h].id
    BY <1>1, <1>2, ZenonT(60) DEF SnapOK
  <2>6. UNCHANGED bytes
    BY <1>1, Zenon DEF Alone, contents
  <2>7. ASSUME NEW g \in DOMAIN th'[t].snapshot
        PROVE  /\ \A p \in th'[t].snapshot[g].id : CopyOK(th[t], g, p)'
               /\ \A h \in DOMAIN th'[t].snapshot : h # g => th'[t].snapshot[g].id # th'[t].snapshot[h].id
               /\ \A h \in th'[t].todo : th'[t].snapshot[g].id # bytes'[h].id
    <3>1. CASE g = f
      BY <1>6, <1>7, <1>10, <2>1, <2>3, <2>4, <2>6, <3>1, ZenonT(60)
    <3>2. CASE g # f
      <4>1. g \in DOMAIN th[t].snapshot /\ th'[t].snapshot[g] = th[t].snapshot[g]
        BY <1>6, <1>7, <1>10, <2>7, <3>2, ZenonT(60)
      <4>2. \A p \in th'[t].snapshot[g].id : CopyOK(th[t], g, p)'
        BY <2>2, <3>2, <4>1, ZenonT(60)
      <4>3. ASSUME NEW h \in DOMAIN th'[t].snapshot, h # g
            PROVE  th'[t].snapshot[g].id # th'[t].snapshot[h].id
        <5>1. CASE h = f
          BY <1>7, <1>10, <2>3, <4>1, <5>1, ZenonT(60)
        <5>2. CASE h # f
          <6>1. h \in DOMAIN th[t].snapshot /\ th'[t].snapshot[h] = th[t].snapshot[h]
            BY <1>6, <1>7, <1>10, <4>3, <5>2, ZenonT(60)
          <6> QED
            BY <2>5, <4>1, <4>3, <6>1, ZenonT(60)
        <5> QED
          BY <5>1, <5>2, ZenonT(60)
      <4>4. \A h \in th'[t].todo : th'[t].snapshot[g].id # bytes'[h].id
        BY <1>10, <2>5, <2>6, <4>1, ZenonT(60)
      <4> QED
        BY <4>2, <4>3, <4>4, ZenonT(60)
    <3> QED
      BY <3>1, <3>2, ZenonT(60)
  <2> QED
    BY <2>7, Zenon DEF SnapOK
<1>15. BackedUp(th[t])'
  BY <1>10, Zenon DEF BackedUp
<1>16. LeaseInv'
  BY <1>1, <1>2, <1>9, <1>10, SameLease, ZenonT(60) DEF LeasePcs, Alone
<1> QED
  BY <1>1, <1>9, <1>12, <1>13, <1>14, <1>15, <1>16, AloneStep, Zenon DEF DataOK

-----------------------------------------------------------------------------
(* A frame changes its page. *)

LEMMA CompleteEvictionData ==
    ASSUME IInv, IInv', DInv, NEW t \in Threads, CompleteEviction(t)
    PROVE  DInv'
<1>1. /\ mode = "up" /\ th[t].pc = "complete" /\ Goto(t, Filling(t))
      /\ UNCHANGED <<owned, contents, flushing, extent, mode, history, devices>>
  BY Zenon DEF CompleteEviction, At
<1>2. /\ TypeOK /\ IndexInv /\ LsnInv /\ KeptInv /\ CleanMeansOnDisk /\ FileInv /\ BackupInv /\ LeaseInv
      /\ th[t] \in ThreadState /\ ThreadOK(th[t]) /\ VictimOK(th[t])
      /\ \A u \in Threads : /\ th[u] \in ThreadState /\ CopiesOK(th[u]) /\ DataOK(th[u])
                            /\ FlushOK(th[u]) /\ SnapOK(th[u]) /\ BackedUp(th[u])
  BY Parts, Zenon
<1>3. PICK f \in th[t].frame : \E p \in frame_page[f] :
         page_table' = [page_table EXCEPT ![p] = {}] /\ frame_page' = [frame_page EXCEPT ![f] = {}]
  BY ZenonT(60) DEF CompleteEviction
<1>4. PICK p \in frame_page[f] :
         page_table' = [page_table EXCEPT ![p] = {}] /\ frame_page' = [frame_page EXCEPT ![f] = {}]
  BY <1>3, ZenonT(60)
<1>5. /\ f \in Frames /\ p \in Pages /\ f \in OwnedBy(th[t])
      /\ frame_page[f] = {p} /\ page_table[p] = {f} /\ dirty_since_lsn[f] = 0
  <2>1. f \in Frames /\ f \in OwnedBy(th[t])
    BY <1>1, <1>2, <1>3, ZenonT(60) DEF ThreadOK, Opt, OwnedBy, FillPcs
  <2>2. p \in Pages /\ frame_page[f] = {p}
    BY <1>2, <1>4, <2>1, OnePage, ZenonT(60) DEF TypeOK
  <2>3. page_table[p] = {f}
    BY <1>2, <2>1, <2>2, OneFrame, ZenonT(60) DEF IndexInv
  <2> QED
    BY <1>1, <1>2, <2>1, <2>2, <2>3, ZenonT(60) DEF VictimOK
<1>6. /\ page_table'[p] = {} /\ \A q \in Pages \ {p} : page_table'[q] = page_table[q]
      /\ frame_page'[f] = {} /\ \A g \in Frames \ {f} : frame_page'[g] = frame_page[g]
  BY <1>2, <1>4, <1>5, ZenonT(60) DEF TypeOK
<1>7. /\ Others(t) /\ th'[t].pc = Filling(t) /\ th'[t].op = th[t].op
      /\ th'[t].rest = th[t].rest /\ th'[t].snapshot = th[t].snapshot
  <2>1. Filling(t) \in {"read", "install"}
    BY DEF Filling
  <2> QED
    BY <1>1, <1>2, <2>1, GotoFields, ZenonT(60)
<1>8. th'[t].rest = {} /\ DOMAIN th'[t].snapshot = {}
  BY <1>1, <1>7, NoFlush, ZenonT(60) DEF FlushPcs
<1>9. UNCHANGED <<owned, dirty_since_lsn, bytes, flush_sequence, flush_poisoned, lsn, known, mode,
                  current, flushed, file, synced, backup>>
  BY <1>1, ZenonT(60) DEF contents, flushing, extent, history, devices
<1>10. DataOK(th[t])'
  <2>1. FlushOK(th[t])'
    BY <1>7, <1>8, ZenonT(60) DEF FlushOK, ListedBy, FlushPcs, Filling
  <2>2. VictimOK(th[t])' /\ InstallOK(th[t])'
    BY <1>7, <1>8, ZenonT(60) DEF VictimOK, InstallOK, Filling
  <2>3. SnapOK(th[t])' /\ BackedUp(th[t])'
    BY <1>7, <1>8, ZenonT(60) DEF SnapOK, BackedUp, Filling
  <2> QED
    BY <2>1, <2>2, <2>3, ZenonT(60) DEF DataOK
<1>11. ASSUME NEW u \in Threads \ {t} PROVE DataOK(th[u])'
  <2>1. f \notin ListedBy(th[u]) /\ th'[u] = th[u]
    BY <1>5, <1>7, OwnedNotListed, ZenonT(60) DEF Others
  <2>2. \A g \in ListedBy(th[u]) : g \in Frames /\ frame_page[g] # {}
    BY <1>2, ZenonT(60) DEF FlushOK, ListedBy, ThreadState
  <2>3. Spares(u)
    BY <1>6, <1>9, <2>1, <2>2, Zenon DEF Spares
  <2>4. ASSUME NEW g \in DOMAIN th[u].snapshot, NEW q \in th[u].snapshot[g].id
        PROVE  CopyOK(th[u], g, q)'
    <3>1. CopyOK(th[u], g, q) /\ q \in Pages
      <4>1. CopyOK(th[u], g, q)
        BY <1>2, ZenonT(60) DEF SnapOK
      <4>2. q \in Pages
        BY <1>2, CopyType, ZenonT(60)
      <4> QED
        BY <4>1, <4>2, Zenon
    <3>2. (\A h \in page_table'[q] : dirty_since_lsn[h] = 0) => \A h \in page_table[q] : dirty_since_lsn[h] = 0
      BY <1>5, <1>6, <3>1, ZenonT(60)
    <3> QED
      BY <1>9, <2>1, <3>1, <3>2, ZenonT(60) DEF CopyOK
  <2>5. SnapOK(th[u])' /\ BackedUp(th[u])'
    BY <1>2, <1>9, <2>1, <2>4, KeptSnap, ZenonT(60)
  <2> QED
    BY <1>2, <2>3, <2>5, SparedData, ZenonT(60)
<1>12. LeaseInv' /\ ModeInv'
  BY <1>1, <1>2, <1>7, <1>9, SameLease, ZenonT(60) DEF LeasePcs, Filling, ModeInv
<1>13. LsnInv' /\ FileInv' /\ BackupInv'
  <2>1. \A u \in Threads : th[u].pc = "write" => th'[u].pc = "write"
    BY <1>1, <1>7, ZenonT(60) DEF Others
  <2>2. TypeOK' /\ lsn' \in {lsn, lsn + 1}
    BY <1>9, ZenonT(60) DEF IInv
  <2> QED
    BY <1>2, <1>9, <2>1, <2>2, SameFileInv, ZenonT(60)
<1>14. KeptInv'
  <2>1. ASSUME Good, NEW q \in Pages, page_table'[q] = {} PROVE file[q] = {current[q]}
    <3>1. CASE q = p
      <4>1. file[p] = {bytes[f].lsn} /\ bytes[f].lsn = current[p]
        BY <1>2, <1>5, <2>1, ZenonT(60) DEF KeptInv, CleanMeansOnDisk, Good
      <4> QED
        BY <3>1, <4>1, ZenonT(60)
    <3>2. CASE q # p
      BY <1>2, <1>6, <2>1, <3>2, ZenonT(60) DEF KeptInv
    <3> QED
      BY <3>1, <3>2, ZenonT(60)
  <2>2. ASSUME Good, NEW g \in Frames, NEW q \in frame_page'[g] PROVE bytes[g].lsn = current[q]
    <3>1. g # f /\ q \in frame_page[g]
      BY <1>6, <2>2, ZenonT(60)
    <3> QED
      BY <1>2, <2>2, <3>1, ZenonT(60) DEF KeptInv
  <2>3. Good' = Good
    BY <1>9, ZenonT(60) DEF Good
  <2> QED
    BY <1>9, <2>1, <2>2, <2>3, ZenonT(60) DEF KeptInv
<1>15. CleanMeansOnDisk'
  BY <1>2, <1>6, <1>9, ZenonT(60) DEF CleanMeansOnDisk
<1> QED
  BY <1>10, <1>11, <1>12, <1>13, <1>14, <1>15, Zenon DEF DInv, PageInv

LEMMA TryInstallData ==
    ASSUME IInv, IInv', DInv, NEW t \in Threads, TryInstall(t)
    PROVE  DInv'
<1> DEFINE next == IF th[t].op = "new" THEN "latch" ELSE "unload"
           n == IF th[t].op = "new" THEN 0 ELSE th[t].lsn
           d == IF th[t].op = "new" THEN th[t].lsn ELSE 0
<1>1. /\ mode = "up" /\ th[t].pc = "install"
      /\ UNCHANGED <<flushing, extent, mode, history, devices>>
  BY Zenon DEF TryInstall, At
<1>2. /\ TypeOK /\ IndexInv /\ LsnInv /\ KeptInv /\ CleanMeansOnDisk /\ FileInv /\ BackupInv /\ LeaseInv
      /\ th[t] \in ThreadState /\ ThreadOK(th[t]) /\ OwnOK(th[t]) /\ SeekOK(th[t]) /\ InstallOK(th[t])
      /\ \A u \in Threads : /\ th[u] \in ThreadState /\ CopiesOK(th[u]) /\ DataOK(th[u])
                            /\ FlushOK(th[u]) /\ SnapOK(th[u]) /\ BackedUp(th[u])
  BY Parts
<1>3. PICK p \in Pages : th[t].page = {p}
  BY <1>1, <1>2, ZenonT(60) DEF ThreadOK, Opt
<1>4. PICK f \in Frames : th[t].frame = {f}
  BY <1>1, <1>2, ZenonT(60) DEF ThreadOK, Opt
<1>5. f \in OwnedBy(th[t]) /\ frame_page[f] = {} /\ page_table[p] = {}
  BY <1>1, <1>2, <1>3, <1>4, ZenonT(60) DEF OwnOK, OwnedBy, SeekOK, SoughtBy, SeekPcs, FillPcs
<1>6. /\ bytes' = [bytes EXCEPT ![f] = [id |-> {p}, lsn |-> n]]
      /\ dirty_since_lsn' = [dirty_since_lsn EXCEPT ![f] = d]
      /\ page_table' = [page_table EXCEPT ![p] = {f}]
      /\ frame_page' = [frame_page EXCEPT ![f] = {p}]
      /\ owned' = owned \ {f} /\ Goto(t, next)
  BY <1>3, <1>4, <1>5, ZenonT(60) DEF TryInstall, Resident
<1>7. Good => n = current[p]
  <2>1. CASE th[t].op = "new"
    BY <1>2, <1>3, <2>1, ZenonT(60) DEF SeekOK, LsnInv
  <2>2. CASE th[t].op # "new"
    <3>1. th[t].op = "fetch"
      BY <1>1, <1>2, <1>3, <2>2, ZenonT(60) DEF ThreadOK, SeekPcs, FillPcs
    <3> QED
      BY <1>1, <1>2, <1>3, <3>1, ZenonT(60) DEF InstallOK, Good
  <2> QED
    BY <2>1, <2>2
<1>8. next \in {"latch", "unload"}
  OBVIOUS
<1> HIDE DEF next, n, d
<1>9. /\ bytes'[f] = [id |-> {p}, lsn |-> n] /\ \A g \in Frames \ {f} : bytes'[g] = bytes[g]
      /\ \A g \in Frames \ {f} : dirty_since_lsn'[g] = dirty_since_lsn[g]
      /\ page_table'[p] = {f} /\ \A q \in Pages \ {p} : page_table'[q] = page_table[q]
      /\ frame_page'[f] = {p} /\ \A g \in Frames \ {f} : frame_page'[g] = frame_page[g]
  BY <1>2, <1>6, ZenonT(60) DEF TypeOK
<1>18. bytes'[f].lsn = n
  BY <1>9
<1>10. Others(t) /\ th'[t].pc = next /\ th'[t].rest = th[t].rest /\ th'[t].snapshot = th[t].snapshot
  BY <1>2, <1>6, <1>8, GotoFields, ZenonT(60)
<1>11. UNCHANGED <<flush_sequence, flush_poisoned, lsn, known, mode, current, flushed, file, synced, backup>>
  BY <1>1, ZenonT(60) DEF flushing, extent, history, devices
<1>12. DataOK(th[t])'
  <2>1. th'[t].rest = {} /\ DOMAIN th'[t].snapshot = {}
    BY <1>1, <1>10, NoFlush, ZenonT(60) DEF FlushPcs
  <2> QED
    BY <1>8, <1>10, <2>1, DoneData, ZenonT(60) DEF FlushPcs
<1>13. ASSUME NEW u \in Threads \ {t} PROVE DataOK(th[u])'
  <2>1. f \notin ListedBy(th[u]) /\ f \notin OwnedBy(th[u]) /\ th'[u] = th[u]
    BY <1>5, <1>10, OwnedNotListed, Zenon DEF Others
  <2>2. \A g \in ListedBy(th[u]) : g \in Frames /\ frame_page[g] # {}
    BY <1>2, ZenonT(60) DEF FlushOK, ListedBy, ThreadState
  <2>3. \A g \in OwnedBy(th[u]) : g \in Frames
    BY <1>2, Zenon DEF OwnedBy, ThreadState
  <2>4. Spares(u)
    BY <1>6, <1>9, <1>11, <2>1, <2>2, <2>3, ZenonT(60) DEF Spares
  <2>5. ASSUME NEW g \in DOMAIN th[u].snapshot, NEW q \in th[u].snapshot[g].id
        PROVE  CopyOK(th[u], g, q)'
    <3>1. CopyOK(th[u], g, q) /\ q \in Pages
      <4>1. CopyOK(th[u], g, q)
        BY <1>2, ZenonT(60) DEF SnapOK
      <4>2. q \in Pages
        BY <1>2, CopyType, ZenonT(60)
      <4> QED
        BY <4>1, <4>2, Zenon
    <3>2. (\A h \in page_table'[q] : dirty_since_lsn'[h] = 0) => \A h \in page_table[q] : dirty_since_lsn[h] = 0
      <4>1. CASE q = p
        BY <1>5, <4>1, ZenonT(60)
      <4>2. CASE q # p
        <5>1. \A h \in page_table[q] : h \in Frames \ {f}
          BY <1>2, <1>5, <3>1, ZenonT(60) DEF IndexInv, TypeOK
        <5> QED
          BY <1>9, <3>1, <4>2, <5>1, Zenon
      <4> QED
        BY <4>1, <4>2, ZenonT(60)
    <3> QED
      BY <1>11, <2>1, <3>1, <3>2, ZenonT(60) DEF CopyOK
  <2>6. SnapOK(th[u])' /\ BackedUp(th[u])'
    BY <1>2, <1>9, <1>11, <2>1, <2>2, <2>5, KeptSnap, ZenonT(60)
  <2> QED
    BY <1>2, <2>4, <2>6, SparedData, ZenonT(60)
<1>14. LeaseInv' /\ ModeInv'
  BY <1>1, <1>2, <1>8, <1>10, <1>11, SameLease, ZenonT(60) DEF LeasePcs, ModeInv
<1>15. LsnInv' /\ FileInv' /\ BackupInv'
  <2>1. \A u \in Threads : th[u].pc = "write" => th'[u].pc = "write"
    BY <1>1, <1>10, Zenon DEF Others
  <2>2. TypeOK' /\ lsn' \in {lsn, lsn + 1}
    BY <1>11, Zenon DEF IInv
  <2> QED
    BY <1>2, <1>11, <2>1, <2>2, SameFileInv, ZenonT(60)
<1>16. KeptInv'
  <2>1. ASSUME Good, NEW g \in Frames, NEW q \in frame_page'[g] PROVE bytes'[g].lsn = current[q]
    <3>1. CASE g = f
      BY <1>7, <1>9, <1>18, <2>1, <3>1, ZenonT(60)
    <3>2. CASE g # f
      <4>1. bytes'[g] = bytes[g] /\ q \in frame_page[g]
        BY <1>9, <2>1, <3>2, ZenonT(60)
      <4> QED
        BY <1>2, <2>1, <4>1, ZenonT(60) DEF KeptInv
    <3> QED
      BY <3>1, <3>2, ZenonT(60)
  <2>2. ASSUME Good, NEW q \in Pages, page_table'[q] = {} PROVE file[q] = {current[q]}
    BY <1>2, <1>9, <2>2, ZenonT(60) DEF KeptInv
  <2> QED
    BY <1>11, <2>1, <2>2, ZenonT(60) DEF KeptInv, Good
<1>17. CleanMeansOnDisk'
  <2>1. Good => file[p] = {n}
    BY <1>2, <1>5, <1>7, ZenonT(60) DEF KeptInv
  <2>2. flush_poisoned \/ file[p] = {bytes'[f].lsn}
    BY <1>1, <1>18, <2>1, ZenonT(60) DEF Good
  <2>3. ASSUME NEW g \in Frames, NEW q \in frame_page'[g], dirty_since_lsn'[g] = 0
        PROVE  flush_poisoned \/ file[q] = {bytes'[g].lsn}
    <3>1. CASE g = f
      BY <1>9, <2>2, <2>3, <3>1, ZenonT(60)
    <3>2. CASE g # f
      <4>1. bytes'[g] = bytes[g] /\ q \in frame_page[g] /\ dirty_since_lsn[g] = 0
        BY <1>9, <2>3, <3>2, ZenonT(60)
      <4> QED
        BY <1>2, <2>3, <4>1, ZenonT(60) DEF CleanMeansOnDisk
    <3> QED
      BY <3>1, <3>2, Zenon
  <2> QED
    BY <1>11, <2>3, Zenon DEF CleanMeansOnDisk
<1> QED
  BY <1>12, <1>13, <1>14, <1>15, <1>16, <1>17, ZenonT(60) DEF DInv, PageInv

-----------------------------------------------------------------------------
(* A page is written. *)

LEMMA WriteData ==
    ASSUME IInv, IInv', DInv, NEW t \in Threads, Write(t)
    PROVE  DInv'
<1>1. /\ mode = "up" /\ lsn' = lsn + 1
      /\ UNCHANGED <<index, flushing, known, th, mode, flushed, devices>>
  BY Zenon DEF Write, At
<1>2. /\ TypeOK /\ IndexInv /\ LsnInv /\ KeptInv /\ CleanMeansOnDisk /\ FileInv /\ BackupInv /\ LeaseInv
      /\ th[t] \in ThreadState /\ PinsOK(th[t])
  BY Parts
<1>3. PICK g \in th[t].held :
         /\ bytes' = [bytes EXCEPT ![g.frame].lsn = lsn']
         /\ dirty_since_lsn' = [dirty_since_lsn EXCEPT ![g.frame] = IF @ = 0 THEN lsn' ELSE @]
         /\ current' = [current EXCEPT ![g.page] = lsn']
  BY Zenon DEF Write
<1> DEFINE f == g.frame
           p == g.page
<1>4. f \in Frames /\ p \in Pages /\ page_table[p] = {f} /\ p \in known /\ frame_page[f] = {p}
  <2>1. f \in Frames /\ p \in Pages
    BY <1>2, <1>3, ZenonT(60) DEF ThreadState, Guard
  <2>2. page_table[p] = {f} /\ p \in known
    BY <1>2, <1>3, Zenon DEF PinsOK
  <2>3. p \in frame_page[f]
    BY <1>2, <2>1, <2>2, ZenonT(60) DEF IndexInv
  <2> QED
    BY <1>2, <2>1, <2>2, <2>3, OnePage, ZenonT(60)
<1>5. f \notin owned
  <2>1. f \in PinnedBy(th[t])
    BY <1>3, Zenon DEF PinnedBy
  <2> QED
    BY <2>1, PinnedNotOwned, Zenon
<1>6. lsn \in Nat /\ lsn' \in 0 .. MaxLsn /\ lsn' = lsn + 1 /\ lsn' # 0
  <2>1. lsn \in 0 .. MaxLsn /\ lsn' \in 0 .. MaxLsn
    BY ZenonT(60) DEF IInv, TypeOK
  <2> QED
    BY <1>1, <2>1
<1> HIDE DEF f, p
<1>7. /\ bytes'[f].lsn = lsn' /\ \A h \in Frames \ {f} : bytes'[h] = bytes[h]
      /\ \A h \in Frames : bytes'[h].id = bytes[h].id
  BY <1>2, <1>3, <1>4 DEF TypeOK, f
<1>8. dirty_since_lsn'[f] # 0 /\ \A h \in Frames \ {f} : dirty_since_lsn'[h] = dirty_since_lsn[h]
  BY <1>2, <1>3, <1>4, <1>6, Zenon DEF TypeOK, f
<1>9. /\ current'[p] = lsn' /\ \A q \in Pages \ {p} : current'[q] = current[q]
      /\ current' \in [Pages -> 0 .. MaxLsn]
  BY <1>2, <1>3, <1>4, <1>6, ZenonT(60) DEF LsnInv, p
<1>10. UNCHANGED <<page_table, frame_page, owned, flush_sequence, flush_poisoned, known, th, mode,
                   flushed, file, synced, backup>>
  BY <1>1, Zenon DEF index, flushing, devices
<1>11. \A q \in Pages : /\ current[q] \in Nat /\ flushed[q] \in Nat
                        /\ flushed[q] <= current[q] /\ current[q] <= lsn /\ current[q] < lsn'
  <2>1. \A q \in Pages : /\ current[q] \in 0 .. MaxLsn /\ flushed[q] \in 0 .. MaxLsn
                         /\ flushed[q] <= current[q] /\ current[q] <= lsn
    BY <1>2, Zenon DEF LsnInv
  <2>2. \A q \in Pages : current[q] \in Nat /\ flushed[q] \in Nat
    BY <2>1, DoubleWriteBounds
  <2> QED
    BY <1>6, <2>1, <2>2
<1>12. ASSUME NEW u \in Threads PROVE DataOK(th[u])'
  <2>7. /\ th[u] \in ThreadState /\ CopiesOK(th[u]) /\ OwnOK(th[u]) /\ SeekOK(th[u])
        /\ DataOK(th[u]) /\ FlushOK(th[u]) /\ SnapOK(th[u]) /\ BackedUp(th[u])
    BY Parts, ZenonT(60)
  <2>1. \A h \in OwnedBy(th[u]) : h \in Frames \ {f}
    BY <1>2, <1>5, <2>7, ZenonT(60) DEF OwnOK, TypeOK
  <2>2. \A q \in SoughtBy(th[u]) : q \in Pages \ {p}
    BY <1>4, <2>7, ZenonT(60) DEF SeekOK, SoughtBy, ThreadState
  <2>3. \A h \in ListedBy(th[u]) : h \in Frames /\ frame_page[h] # {}
    BY <2>7, ZenonT(60) DEF FlushOK, ListedBy, ThreadState
  <2>4. Spares(u)
    BY <1>7, <1>8, <1>9, <1>10, <2>1, <2>2, <2>3, ZenonT(60) DEF Spares
  <2>5. ASSUME NEW h \in DOMAIN th[u].snapshot, NEW q \in th[u].snapshot[h].id
        PROVE  CopyOK(th[u], h, q)'
    <3> DEFINE n == th[u].snapshot[h].lsn
    <3>1. CopyOK(th[u], h, q) /\ q \in Pages /\ n \in Nat
      <4>1. q \in Pages /\ n \in 0 .. MaxLsn
        BY <2>7, CopyType, ZenonT(60)
      <4>2. CopyOK(th[u], h, q)
        BY <2>7, ZenonT(60) DEF SnapOK
      <4> QED
        BY <4>1, <4>2, DoubleWriteBounds
    <3>2. n < lsn' /\ n <= current'[q]
      <4>1. n <= current[q]
        BY <3>1, ZenonT(60) DEF CopyOK
      <4>2. n < lsn'
        BY <1>6, <1>11, <3>1, <4>1
      <4> QED
        BY <1>6, <1>9, <3>1, <4>1, <4>2
    <3>3. \A q2 \in Pages \ {q} : n # 0 => current'[q2] # n
      <4>1. \A q2 \in Pages \ {q} : n # 0 => current[q2] # n
        BY <3>1, ZenonT(60) DEF CopyOK
      <4>2. lsn' # n
        BY <1>6, <3>1, <3>2
      <4> QED
        BY <1>9, <4>1, <4>2, ZenonT(60)
    <3>4. (\A k \in page_table[q] : dirty_since_lsn'[k] = 0) => n = current'[q]
      <4>1. CASE q = p
        BY <1>4, <1>8, <4>1, Zenon
      <4>2. CASE q # p
        <5>1. \A k \in page_table[q] : k \in Frames \ {f}
          BY <1>2, <1>4, <3>1, <4>2, ZenonT(60) DEF IndexInv, TypeOK
        <5> QED
          BY <1>8, <1>9, <3>1, <4>2, <5>1, ZenonT(60) DEF CopyOK
      <4> QED
        BY <4>1, <4>2, ZenonT(60)
    <3> QED
      BY <1>10, <3>1, <3>2, <3>3, <3>4, ZenonT(60) DEF CopyOK
  <2>6. SnapOK(th[u])' /\ BackedUp(th[u])'
    BY <1>7, <1>10, <2>3, <2>5, <2>7, KeptSnap, Zenon
  <2> QED
    BY <2>4, <2>6, <2>7, SparedData, ZenonT(60)
<1>13. LeaseInv' /\ ModeInv'
  BY <1>1, <1>2, <1>10, Zenon DEF LeaseInv, Good, ModeInv
<1>14. LsnInv'
  <2>1. \A q \in Pages : current'[q] <= lsn' /\ flushed'[q] <= current'[q]
    BY <1>6, <1>9, <1>10, <1>11
  <2>2. \A q \in Pages : current'[q] # 0 => q \in known'
    BY <1>2, <1>4, <1>9, <1>10, ZenonT(60) DEF LsnInv
  <2>3. \A q, q2 \in Pages : current'[q] = current'[q2] /\ q # q2 => current'[q] = 0
    BY <1>2, <1>6, <1>9, <1>11 DEF LsnInv
  <2>4. flushed' \in [Pages -> 0 .. MaxLsn]
    BY <1>2, <1>10, ZenonT(60) DEF LsnInv
  <2> QED
    BY <1>9, <2>1, <2>2, <2>3, <2>4, ZenonT(60) DEF LsnInv
<1>15. KeptInv'
  <2>1. ASSUME Good, NEW h \in Frames, NEW q \in frame_page[h] PROVE bytes'[h].lsn = current'[q]
    <3>1. CASE h = f
      BY <1>4, <1>7, <1>9, <2>1, <3>1, Zenon
    <3>2. CASE h # f
      <4>1. q \in Pages \ {p}
        BY <1>2, <1>4, <2>1, <3>2, FramesApart, ZenonT(60) DEF TypeOK
      <4> QED
        BY <1>2, <1>7, <1>9, <2>1, <3>2, <4>1 DEF KeptInv
    <3> QED
      BY <3>1, <3>2, ZenonT(60)
  <2>2. ASSUME Good, NEW q \in Pages, page_table[q] = {} PROVE file[q] = {current'[q]}
    BY <1>2, <1>4, <1>9, <2>2, ZenonT(60) DEF KeptInv
  <2> QED
    BY <1>10, <2>1, <2>2, ZenonT(60) DEF KeptInv, Good
<1>16. CleanMeansOnDisk'
  BY <1>2, <1>7, <1>8, <1>10, Zenon DEF CleanMeansOnDisk
<1>17. FileInv'
  <2>1. ASSUME NEW q \in Pages, NEW m \in file[q], m <= current[q] PROVE m <= current'[q]
    <3>1. m \in Nat
      <4>1. file[q] \in Content
        BY <1>2, ZenonT(60) DEF TypeOK, DevicesType
      <4> QED
        BY <4>1 DEF Content, Torn
    <3>2. current[q] \in Nat /\ current'[q] \in Nat /\ current[q] <= current'[q]
      <4>1. CASE q = p
        BY <1>6, <1>9, <1>11, <4>1
      <4>2. CASE q # p
        <5>1. current'[q] = current[q] /\ current[q] \in Nat
          BY <1>9, <1>11, <4>2, Zenon
        <5> QED
          BY <5>1
      <4> QED
        BY <4>1, <4>2
    <3> QED
      BY <2>1, <3>1, <3>2
  <2> QED
    BY <1>2, <1>10, <2>1, Zenon DEF FileInv, Good
<1>18. BackupInv'
  BY <1>2, <1>10, ZenonT(60) DEF BackupInv, Good
<1> QED
  BY <1>12, <1>13, <1>14, <1>15, <1>16, <1>17, <1>18, ZenonT(60) DEF DInv, PageInv

-----------------------------------------------------------------------------
(* The steps of the thread that holds the lease. *)

\* The frames, and what was written to pages, stay.
Flushed(t) ==
    /\ UNCHANGED <<page_table, frame_page, bytes, current, lsn, known, mode>>
    /\ owned' \subseteq owned
    /\ flush_poisoned => flush_poisoned'
    /\ \A f \in Frames : dirty_since_lsn[f] = 0 => dirty_since_lsn'[f] = 0

\* The other threads have no copies.
LEMMA HolderStep ==
    ASSUME IInv, DInv, NEW t \in Threads, th[t].pc \in LeasePcs, Others(t), Flushed(t)
    PROVE  \A u \in Threads \ {t} : DataOK(th[u])'
<1>1. ASSUME NEW u \in Threads \ {t} PROVE DataOK(th[u])'
  <2>1. LeaseInv /\ th[u] \in ThreadState /\ DataOK(th[u]) /\ FlushOK(th[u])
    BY Parts
  <2>2. th'[u] = th[u] /\ th[u].pc \notin LeasePcs
    BY <2>1, LeaseAlone, ZenonT(60) DEF Others
  <2>3. OwnedBy(th[u]) \subseteq Frames
    BY <2>1, ZenonT(60) DEF OwnedBy, ThreadState
  <2>4. Spares(u)
    BY <2>1, <2>2, <2>3, ZenonT(60) DEF Spares, FlushOK, Flushed
  <2> QED
    BY <2>1, <2>2, <2>4, NoCopies, SparedData, ZenonT(60)
<1> QED
  BY <1>1

\* While the lease is held nobody but its holder writes to the file.
LEMMA HolderFiles ==
    ASSUME IInv, DInv, NEW t \in Threads, th[t].pc \in LeasePcs
    PROVE  /\ Good /\ mode = "up"
           /\ th[t].pc # "write" => file = synced
           /\ \A p \in Pages : /\ file[p] # Torn /\ \A n \in file[p] : n <= current[p]
                               /\ \E n \in 0 .. MaxLsn : file[p] = {n}
<1>1. LeaseInv /\ BackupInv /\ FileInv /\ TypeOK
  BY Parts
<1>2. Good
  BY <1>1 DEF LeaseInv
<1>3. \A u \in Threads : u # t => th[u].pc # "write"
  BY <1>1, LeaseAlone, Zenon DEF LeasePcs
<1>4. th[t].pc # "write" => file = synced
  BY <1>1, <1>2, <1>3, Zenon DEF BackupInv
<1>5. \A p \in Pages : file[p] # Torn /\ \A n \in file[p] : n <= current[p]
  BY <1>1, <1>2, Zenon DEF FileInv
<1>6. ASSUME NEW p \in Pages PROVE \E n \in 0 .. MaxLsn : file[p] = {n}
  <2>1. file[p] \in Content /\ file[p] # Torn
    BY <1>1, <1>5, Zenon DEF TypeOK, DevicesType
  <2> QED
    BY <2>1, Zenon DEF Content
<1> QED
  BY <1>2, <1>4, <1>5, <1>6, ZenonT(60) DEF Good

\* A copy as an image of its page.
LEMMA CopyImage ==
    ASSUME IInv, DInv, NEW t \in Threads, NEW f \in DOMAIN th[t].snapshot
    PROVE  \E p \in Pages : /\ th[t].snapshot[f].id = {p}
                            /\ ImageOf(th[t].snapshot[f]).id = p
                            /\ ImageOf(th[t].snapshot[f]).lsn = th[t].snapshot[f].lsn
                            /\ th[t].snapshot[f].lsn \in 0 .. MaxLsn
                            /\ CopyOK(th[t], f, p)
<1>1. th[t] \in ThreadState /\ CopiesOK(th[t]) /\ SnapOK(th[t])
  BY Parts
<1>2. th[t].snapshot[f].lsn \in 0 .. MaxLsn /\ \E p \in Pages : th[t].snapshot[f].id = {p}
  BY <1>1, CopyType, ZenonT(60)
<1>3. PICK p \in Pages : th[t].snapshot[f].id = {p}
  BY <1>2
<1>4. CopyOK(th[t], f, p)
  BY <1>1, <1>3, ZenonT(60) DEF SnapOK
<1>5. ImageOf(th[t].snapshot[f]).id = p /\ ImageOf(th[t].snapshot[f]).lsn = th[t].snapshot[f].lsn
  BY <1>3, TheOnly, ZenonT(60) DEF ImageOf
<1> QED
  BY <1>2, <1>3, <1>4, <1>5, ZenonT(60)

\* What is copied is not older than what was flushed before.
LEMMA ImagesNew ==
    ASSUME IInv, DInv, NEW t \in Threads
    PROVE  \A i \in Images(t) : i.lsn >= flushed[i.id]
<1>1. ASSUME NEW f \in DOMAIN th[t].snapshot
      PROVE  ImageOf(th[t].snapshot[f]).lsn >= flushed[ImageOf(th[t].snapshot[f]).id]
  <2>1. PICK p \in Pages : /\ ImageOf(th[t].snapshot[f]).id = p
                           /\ ImageOf(th[t].snapshot[f]).lsn = th[t].snapshot[f].lsn
                           /\ th[t].snapshot[f].lsn \in 0 .. MaxLsn
                           /\ CopyOK(th[t], f, p)
    BY CopyImage
  <2>2. flushed[p] <= th[t].snapshot[f].lsn
    BY <2>1, ZenonT(60) DEF CopyOK
  <2>3. flushed[p] \in 0 .. MaxLsn
    BY <2>1, Parts, ZenonT(60) DEF LsnInv
  <2> QED
    BY <2>1, <2>2, <2>3, Zenon
<1> QED
  BY <1>1, Zenon DEF Images

\* The holder goes on with the same batch.
SameBatch(t) ==
    /\ th'[t].batch = th[t].batch /\ th'[t].rest = th[t].rest
    /\ th'[t].snapshot = th[t].snapshot /\ th'[t].frame = th[t].frame

LEMMA BatchFlush ==
    ASSUME NEW t \in Threads, FlushOK(th[t]), th[t].pc \in LeasePcs, SameBatch(t),
           th'[t].pc \in {"write", "clear", "clean"}, UNCHANGED <<frame_page, owned>>
    PROVE  FlushOK(th[t])' /\ InstallOK(th[t])'
<1>1. ListedBy(th'[t]) \subseteq ListedBy(th[t])
  BY Zenon DEF ListedBy, SameBatch
<1>2. FlushOK(th[t])'
  BY <1>1, ZenonT(60) DEF FlushOK, LeasePcs, FlushPcs, SameBatch
<1> QED
  BY <1>2, ZenonT(60) DEF InstallOK

\* The copies, when the frames, the file and the history stay.
LEMMA BatchSnap ==
    ASSUME NEW t \in Threads, SnapOK(th[t]), SameBatch(t), th'[t].pc \in {"write", "clear", "clean"},
           UNCHANGED <<page_table, dirty_since_lsn, current, flushed, file>>,
           \A f \in DOMAIN th[t].snapshot : \A p \in th[t].snapshot[f].id :
              th'[t].pc \in {"clear", "clean"} \/ (th'[t].pc = "write" /\ f \notin th'[t].todo)
                 => file[p] = {th[t].snapshot[f].lsn}
    PROVE  SnapOK(th[t])'
<1>1. ASSUME NEW f \in DOMAIN th[t].snapshot, NEW p \in th[t].snapshot[f].id PROVE CopyOK(th[t], f, p)'
  <2>1. CopyOK(th[t], f, p)
    BY Zenon DEF SnapOK
  <2> QED
    BY <2>1, ZenonT(60) DEF CopyOK, SameBatch
<1> QED
  BY <1>1, ZenonT(60) DEF SnapOK, SameBatch

\* What a page needs of the file and the double-write buffer, when both are in order.
LEMMA WholeFile ==
    ASSUME TypeOK, BackupInv, UNCHANGED <<file, synced, flushed>>, file = synced,
           \A p \in Pages : file[p] # Torn,
           \A i \in backup' : i.lsn >= flushed[i.id], mode' = "up"
    PROVE  BackupInv'
BY DEF BackupInv, Good

-----------------------------------------------------------------------------
(* The batch goes to the double-write buffer, then to the file. *)

LEMMA BackupData ==
    ASSUME IInv, IInv', DInv, NEW t \in Threads, Backup(t)
    PROVE  DInv'
<1>1. /\ mode = "up" /\ th[t].pc = "snapshot" /\ th[t].todo = {} /\ backup' = Images(t)
      /\ UNCHANGED <<index, contents, flushing, extent, mode, history, file, synced>>
  BY DEF Backup, Copied, At, WriteBatch
<1>2. /\ TypeOK /\ LeaseInv /\ LsnInv /\ KeptInv /\ CleanMeansOnDisk /\ FileInv /\ BackupInv
      /\ CopiesOK(th[t]) /\ FlushOK(th[t]) /\ VictimOK(th[t]) /\ SnapOK(th[t])
  BY Parts
<1>3. th[t].pc \in LeasePcs
  BY <1>1, ZenonT(60) DEF LeasePcs
<1>4. Others(t) /\ th'[t].pc = "write" /\ th'[t].todo = th[t].batch /\ SameBatch(t)
  <2>1. "write" \in FlushPcs /\ NextPass(t, "write")
    BY Zenon DEF FlushPcs, Backup, NextPass
  <2> QED
    BY <1>2, <2>1, NextPassFields, ZenonT(60) DEF SameBatch
<1>5. UNCHANGED <<page_table, frame_page, owned, dirty_since_lsn, bytes, flush_sequence, flush_poisoned,
                  lsn, known, mode, current, flushed, file, synced>>
  BY <1>1, Zenon DEF index, contents, flushing, extent, history
<1>6. \A u \in Threads \ {t} : DataOK(th[u])'
  BY <1>3, <1>4, <1>5, HolderStep, Zenon DEF Flushed
<1>7. DataOK(th[t])'
  <2>1. FlushOK(th[t])' /\ InstallOK(th[t])'
    BY <1>2, <1>3, <1>4, <1>5, BatchFlush, ZenonT(60)
  <2>2. VictimOK(th[t])'
    BY <1>1, <1>2, <1>4, <1>5, ZenonT(60) DEF VictimOK, OwnedBy, FillPcs, FlushPcs, SameBatch
  <2>3. DOMAIN th[t].snapshot = th[t].batch
    BY <1>1, <1>2, ZenonT(60) DEF CopiesOK
  <2>4. SnapOK(th[t])'
    BY <1>2, <1>4, <1>5, <2>3, BatchSnap, ZenonT(60)
  <2>5. BackedUp(th[t])'
    BY <1>1, <1>4, ZenonT(60) DEF BackedUp, ImagesOf, Images, SameBatch
  <2> QED
    BY <2>1, <2>2, <2>4, <2>5, Zenon DEF DataOK
<1>8. LeaseInv' /\ ModeInv'
  BY <1>1, <1>2, <1>3, <1>4, <1>5, SameLease, ZenonT(60) DEF LeasePcs, ModeInv
<1>9. BackupInv'
  <2>1. file = synced /\ \A p \in Pages : file[p] # Torn
    BY <1>1, <1>3, HolderFiles, ZenonT(60)
  <2>2. \A i \in backup' : i.lsn >= flushed[i.id]
    BY <1>1, ImagesNew, ZenonT(60)
  <2> QED
    BY <1>1, <1>2, <1>5, <2>1, <2>2, WholeFile, ZenonT(60)
<1>10. LsnInv' /\ KeptInv' /\ FileInv'
  BY <1>2, <1>5, Zenon DEF LsnInv, KeptInv, FileInv, Good
<1>11. CleanMeansOnDisk'
  BY <1>2, <1>5, ZenonT(60) DEF CleanMeansOnDisk
<1> QED
  BY <1>6, <1>7, <1>8, <1>9, <1>10, <1>11, Zenon DEF DInv, PageInv

LEMMA BackupFailsData ==
    ASSUME IInv, IInv', DInv, NEW t \in Threads, BackupFails(t)
    PROVE  DInv'
<1>1. /\ mode = "up" /\ th[t].pc = "snapshot" /\ FlushFails(t) /\ flush_sequence' = {}
      /\ UNCHANGED <<contents, flush_poisoned, extent, mode, history, file, synced>>
      /\ backup' = backup \/ backup' \subseteq Images(t)
  BY DEF BackupFails, Copied, At, WriteBatchFails, devices
<1>2. /\ TypeOK /\ LeaseInv /\ LsnInv /\ KeptInv /\ CleanMeansOnDisk /\ FileInv /\ BackupInv
  BY Parts
<1>3. th[t].pc \in LeasePcs
  BY <1>1, Zenon DEF LeasePcs
<1>4. /\ UNCHANGED <<page_table, frame_page>> /\ owned' \subseteq owned /\ Others(t)
      /\ th'[t].pc \in {"idle", "hold", "unload"}
      /\ th'[t].rest = {} /\ DOMAIN th'[t].snapshot = {}
  BY <1>1, FlushFailsAside, Zenon
<1>5. UNCHANGED <<page_table, frame_page, dirty_since_lsn, bytes, flush_poisoned,
                  lsn, known, mode, current, flushed, file, synced>>
  BY <1>1, <1>4, Zenon DEF contents, extent, history
<1>6. \A u \in Threads \ {t} : DataOK(th[u])'
  BY <1>3, <1>4, <1>5, HolderStep, Zenon DEF Flushed
<1>7. DataOK(th[t])'
  BY <1>4, DoneData, Zenon DEF FlushPcs
<1>8. LeaseInv' /\ ModeInv'
  BY <1>1, <1>2, <1>3, <1>4, DropLease, Zenon DEF LeasePcs, ModeInv
<1>9. BackupInv'
  <2>1. file = synced /\ \A p \in Pages : file[p] # Torn
    BY <1>1, <1>3, HolderFiles, Zenon
  <2>2. \A i \in backup' : i.lsn >= flushed[i.id]
    BY <1>1, <1>2, ImagesNew, Zenon DEF BackupInv
  <2> QED
    BY <1>1, <1>2, <1>5, <2>1, <2>2, WholeFile, Zenon
<1>10. LsnInv' /\ KeptInv' /\ FileInv'
  BY <1>2, <1>5, Zenon DEF LsnInv, KeptInv, FileInv, Good
<1>11. CleanMeansOnDisk'
  BY <1>2, <1>5, ZenonT(60) DEF CleanMeansOnDisk
<1> QED
  BY <1>6, <1>7, <1>8, <1>9, <1>10, <1>11 DEF DInv, PageInv

LEMMA WriteNextData ==
    ASSUME IInv, IInv', DInv, NEW t \in Threads, WriteNext(t)
    PROVE  DInv'
<1>1. /\ mode = "up" /\ th[t].pc = "write"
      /\ UNCHANGED <<index, contents, flushing, extent, mode, history>>
  BY Zenon DEF WriteNext, At
<1>2. /\ TypeOK /\ IndexInv /\ LeaseInv /\ LsnInv /\ KeptInv /\ CleanMeansOnDisk /\ FileInv /\ BackupInv
      /\ CopiesOK(th[t]) /\ FlushOK(th[t]) /\ VictimOK(th[t]) /\ SnapOK(th[t]) /\ BackedUp(th[t])
  BY Parts, Zenon
<1>3. th[t].pc \in LeasePcs
  BY <1>1 DEF LeasePcs
<1>4. PICK f \in th[t].todo : WritePage(ImageOf(th[t].snapshot[f])) /\ OneDone(t, f)
  BY Zenon DEF WriteNext, OneDone
<1>5. Others(t) /\ th'[t].pc = "write" /\ th'[t].todo = th[t].todo \ {f} /\ SameBatch(t)
  BY <1>1, <1>2, <1>4, OneDoneFields, ZenonT(60) DEF SameBatch
<1>6. UNCHANGED <<page_table, frame_page, owned, dirty_since_lsn, bytes, flush_sequence, flush_poisoned,
                  lsn, known, mode, current, flushed, synced, backup>>
  BY <1>1, <1>4, ZenonT(60) DEF index, contents, flushing, extent, history, WritePage
<1>7. f \in DOMAIN th[t].snapshot
  BY <1>1, <1>2, <1>4, ZenonT(60) DEF CopiesOK, FlushPcs
<1>8. PICK p \in Pages : /\ th[t].snapshot[f].id = {p}
                         /\ ImageOf(th[t].snapshot[f]).id = p
                         /\ ImageOf(th[t].snapshot[f]).lsn = th[t].snapshot[f].lsn
                         /\ th[t].snapshot[f].lsn \in 0 .. MaxLsn
                         /\ CopyOK(th[t], f, p)
  BY <1>7, CopyImage, ZenonT(60)
<1> DEFINE n == th[t].snapshot[f].lsn
<1>9. file'[p] = {n} /\ \A q \in Pages \ {p} : file'[q] = file[q]
  <2>1. file' = [file EXCEPT ![p] = {n}]
    BY <1>4, <1>8, ZenonT(60) DEF WritePage
  <2> QED
    BY <1>2, <1>8, <2>1, ZenonT(60) DEF TypeOK, DevicesType
<1>10. n \in 0 .. MaxLsn /\ flushed[p] <= n /\ n <= current[p]
  BY <1>8, ZenonT(60) DEF CopyOK
<1>11. (\A g \in page_table[p] : dirty_since_lsn[g] = 0) => n = current[p]
  BY <1>8, ZenonT(60) DEF CopyOK
<1>12. Good
  BY <1>3, HolderFiles, Zenon
<1> HIDE DEF n
<1>13. \A u \in Threads \ {t} : DataOK(th[u])'
  BY <1>3, <1>5, <1>6, HolderStep, ZenonT(60) DEF Flushed
<1>14. DataOK(th[t])'
  <2>1. FlushOK(th[t])' /\ InstallOK(th[t])'
    BY <1>2, <1>3, <1>5, <1>6, BatchFlush, ZenonT(60)
  <2>2. VictimOK(th[t])'
    BY <1>1, <1>2, <1>5, <1>6, ZenonT(60) DEF VictimOK, OwnedBy, FillPcs, FlushPcs, SameBatch
  <2>3. CopyOK(th[t], f, p)'
    <3>1. \A m \in {n} : m <= n
      BY <1>10
    <3> QED
      BY <1>5, <1>6, <1>8, <1>9, <3>1, ZenonT(60) DEF CopyOK, SameBatch, n
  <2>4. ASSUME NEW g \in DOMAIN th[t].snapshot, g # f, NEW q \in th[t].snapshot[g].id
        PROVE  CopyOK(th[t], g, q)'
    <3>1. CopyOK(th[t], g, q) /\ th[t].snapshot[g].id # th[t].snapshot[f].id
      BY <1>2, <1>7, <2>4, ZenonT(60) DEF SnapOK
    <3>2. PICK q2 \in Pages : th[t].snapshot[g].id = {q2}
      BY CopyImage, ZenonT(60)
    <3>3. q \in Pages \ {p}
      BY <1>8, <2>4, <3>1, <3>2, Zenon
    <3>4. file'[q] = file[q]
      BY <1>9, <3>3, ZenonT(60)
    <3> QED
      BY <1>1, <1>5, <1>6, <2>4, <3>1, <3>4, ZenonT(60) DEF CopyOK, SameBatch
  <2>5. SnapOK(th[t])'
    <3>1. \A g \in DOMAIN th[t].snapshot : \A q \in th[t].snapshot[g].id : CopyOK(th[t], g, q)'
      BY <1>8, <2>3, <2>4, ZenonT(60)
    <3> QED
      BY <1>2, <1>5, <3>1, ZenonT(60) DEF SnapOK, SameBatch
  <2>6. BackedUp(th[t])'
    BY <1>1, <1>2, <1>5, <1>6, ZenonT(60) DEF BackedUp, ImagesOf, SameBatch
  <2> QED
    BY <2>1, <2>2, <2>5, <2>6, Zenon DEF DataOK
<1>15. LeaseInv' /\ ModeInv'
  BY <1>1, <1>2, <1>3, <1>5, <1>6, SameLease, ZenonT(60) DEF LeasePcs, ModeInv
<1>16. LsnInv'
  BY <1>2, <1>6, ZenonT(60) DEF LsnInv
<1>17. KeptInv'
  <2>1. page_table[p] = {} => n = current[p]
    BY <1>11
  <2> QED
    BY <1>2, <1>6, <1>9, <2>1, ZenonT(60) DEF KeptInv, Good
<1>18. CleanMeansOnDisk'
  <2>1. ASSUME NEW g \in Frames, p \in frame_page[g], dirty_since_lsn[g] = 0
        PROVE  bytes[g].lsn = n
    <3>1. page_table[p] = {g}
      BY <1>2, <2>1, OneFrame, ZenonT(60) DEF IndexInv
    <3> QED
      BY <1>2, <1>11, <1>12, <2>1, <3>1, ZenonT(60) DEF KeptInv
  <2>2. ASSUME NEW g \in Frames, NEW q \in frame_page[g], dirty_since_lsn[g] = 0
        PROVE  file'[q] = {bytes[g].lsn}
    <3>1. q \in Pages /\ (file[q] = {bytes[g].lsn})
      BY <1>2, <1>12, <2>2, ZenonT(60) DEF TypeOK, CleanMeansOnDisk, Good
    <3> QED
      BY <1>9, <2>1, <2>2, <3>1, ZenonT(60)
  <2> QED
    BY <1>6, <2>2, ZenonT(60) DEF CleanMeansOnDisk
<1>19. FileInv'
  <2>1. {n} # Torn /\ \A m \in {n} : m <= current[p]
    BY <1>10 DEF Torn
  <2> QED
    BY <1>2, <1>6, <1>9, <2>1, ZenonT(60) DEF FileInv, Good
<1>20. BackupInv'
  <2>1. \E i \in backup : i.id = p
    <3>1. ImageOf(th[t].snapshot[f]) \in backup
      BY <1>1, <1>2, <1>7, Zenon DEF BackedUp, ImagesOf
    <3> QED
      BY <1>8, <3>1, ZenonT(60)
  <2>2. \A m \in file'[p] : m >= flushed[p]
    <3>1. flushed[p] \in 0 .. MaxLsn
      BY <1>2, ZenonT(60) DEF LsnInv
    <3> QED
      BY <1>9, <1>10, <3>1, ZenonT(60)
  <2>3. \E u \in Threads : th'[u].pc = "write"
    BY <1>5
  <2>4. ASSUME NEW q \in Pages
        PROVE  /\ \A m \in file'[q] \cup synced[q] : m >= flushed[q]
               /\ file'[q] # synced[q] \/ Torn \in {file'[q], synced[q]} => \E i \in backup : i.id = q
    BY <1>2, <1>9, <2>1, <2>2, ZenonT(60) DEF BackupInv
  <2> QED
    BY <1>1, <1>2, <1>6, <2>3, <2>4, ZenonT(60) DEF BackupInv
<1> QED
  BY <1>13, <1>14, <1>15, <1>16, <1>17, <1>18, <1>19, <1>20, Zenon DEF DInv, PageInv

LEMMA SyncData ==
    ASSUME IInv, IInv', DInv, NEW t \in Threads, Sync(t)
    PROVE  DInv'
<1>1. /\ mode = "up" /\ th[t].pc = "write" /\ th[t].todo = {} /\ synced' = file
      /\ UNCHANGED <<index, contents, flushing, extent, mode, history, file, backup>>
  BY ZenonT(60) DEF Sync, At, SyncFile
<1>2. /\ TypeOK /\ LeaseInv /\ LsnInv /\ KeptInv /\ CleanMeansOnDisk /\ FileInv /\ BackupInv
      /\ FlushOK(th[t]) /\ VictimOK(th[t]) /\ SnapOK(th[t]) /\ BackedUp(th[t])
  BY Parts
<1>3. th[t].pc \in LeasePcs
  BY <1>1, ZenonT(60) DEF LeasePcs
<1>4. Others(t) /\ th'[t].pc = "clear" /\ th'[t].todo = {} /\ SameBatch(t)
  BY <1>1, <1>2, GotoFields, ZenonT(60) DEF Sync, SameBatch
<1>5. UNCHANGED <<page_table, frame_page, owned, dirty_since_lsn, bytes, flush_sequence, flush_poisoned,
                  lsn, known, mode, current, flushed, file, backup>>
  BY <1>1, ZenonT(60) DEF index, contents, flushing, extent, history
<1>6. \A u \in Threads \ {t} : DataOK(th[u])'
  BY <1>3, <1>4, <1>5, HolderStep, ZenonT(60) DEF Flushed
<1>7. DataOK(th[t])'
  <2>1. FlushOK(th[t])' /\ InstallOK(th[t])'
    BY <1>2, <1>3, <1>4, <1>5, BatchFlush, Zenon
  <2>2. VictimOK(th[t])'
    BY <1>1, <1>2, <1>4, <1>5, ZenonT(60) DEF VictimOK, OwnedBy, FillPcs, FlushPcs, SameBatch
  <2>3. \A f \in DOMAIN th[t].snapshot : \A p \in th[t].snapshot[f].id : file[p] = {th[t].snapshot[f].lsn}
    BY <1>1, <1>2, ZenonT(60) DEF SnapOK, CopyOK
  <2>4. SnapOK(th[t])'
    BY <1>2, <1>4, <1>5, <2>3, BatchSnap, ZenonT(60)
  <2>5. BackedUp(th[t])'
    BY <1>1, <1>2, <1>4, <1>5, ZenonT(60) DEF BackedUp, ImagesOf, SameBatch
  <2> QED
    BY <2>1, <2>2, <2>4, <2>5 DEF DataOK
<1>8. LeaseInv' /\ ModeInv'
  BY <1>1, <1>2, <1>3, <1>4, <1>5, SameLease, ZenonT(60) DEF LeasePcs, ModeInv
<1>9. BackupInv'
  <2>1. \A p \in Pages : file[p] # Torn
    BY <1>3, HolderFiles
  <2> QED
    BY <1>1, <1>2, <1>5, <2>1, ZenonT(60) DEF BackupInv
<1>10. LsnInv' /\ KeptInv' /\ FileInv'
  BY <1>2, <1>5, ZenonT(60) DEF LsnInv, KeptInv, FileInv, Good
<1>11. CleanMeansOnDisk'
  BY <1>2, <1>5, ZenonT(60) DEF CleanMeansOnDisk
<1> QED
  BY <1>6, <1>7, <1>8, <1>9, <1>10, <1>11 DEF DInv, PageInv

\* The batch is cleared: what the file holds now counts as flushed.
LEMMA ClearData ==
    ASSUME IInv, IInv', DInv, NEW t \in Threads, Clear(t)
    PROVE  DInv'
<1>1. /\ mode = "up" /\ th[t].pc = "clear" /\ backup' = {}
      /\ flushed' = [p \in Pages |-> IF file[p] \in {synced[p]} \ {Torn} THEN The(file[p]) ELSE flushed[p]]
      /\ UNCHANGED <<index, contents, flushing, extent, mode, current, file, synced>>
  BY DEF Clear, At, ClearBatch
<1>2. /\ TypeOK /\ LeaseInv /\ LsnInv /\ KeptInv /\ CleanMeansOnDisk /\ FileInv /\ BackupInv
      /\ FlushOK(th[t]) /\ VictimOK(th[t]) /\ SnapOK(th[t]) /\ CopiesOK(th[t])
  BY Parts
<1>3. th[t].pc \in LeasePcs
  BY <1>1, ZenonT(60) DEF LeasePcs
<1>4. Others(t) /\ th'[t].pc = "clean" /\ th'[t].todo = th[t].batch /\ SameBatch(t)
  <2>1. "clean" \in FlushPcs /\ NextPass(t, "clean")
    BY Zenon DEF FlushPcs, Clear, NextPass
  <2> QED
    BY <1>2, <2>1, NextPassFields, ZenonT(60) DEF SameBatch
<1>5. UNCHANGED <<page_table, frame_page, owned, dirty_since_lsn, bytes, flush_sequence, flush_poisoned,
                  lsn, known, mode, current, file, synced>>
  BY <1>1, Zenon DEF index, contents, flushing, extent
<1>6. /\ file = synced /\ \A p \in Pages : file[p] # Torn /\ \A n \in file[p] : n <= current[p]
      /\ \A p \in Pages : \E n \in 0 .. MaxLsn : file[p] = {n}
  BY <1>1, <1>3, HolderFiles, Zenon
<1>7. \A p \in Pages : /\ flushed'[p] \in 0 .. MaxLsn /\ file[p] = {flushed'[p]} /\ flushed'[p] <= current[p]
  <2>1. ASSUME NEW p \in Pages PROVE flushed'[p] \in 0 .. MaxLsn /\ file[p] = {flushed'[p]}
    <3>1. flushed'[p] = The(file[p])
      BY <1>1, <1>6, Zenon
    <3>2. PICK n \in 0 .. MaxLsn : file[p] = {n}
      BY <1>6
    <3> QED
      BY <3>1, <3>2, TheOnly, ZenonT(60)
  <2> QED
    BY <1>6, <2>1
<1>8. flushed' \in [Pages -> 0 .. MaxLsn]
  BY <1>1, <1>7, ZenonT(60)
<1>9. \A u \in Threads \ {t} : DataOK(th[u])'
  BY <1>3, <1>4, <1>5, HolderStep, Zenon DEF Flushed
<1>10. DataOK(th[t])'
  <2>1. FlushOK(th[t])' /\ InstallOK(th[t])'
    BY <1>2, <1>3, <1>4, <1>5, BatchFlush, ZenonT(60)
  <2>2. VictimOK(th[t])'
    <3>1. \A f \in OwnedBy(th'[t]) : f \in th[t].batch
      BY <1>1, <1>2, <1>3, <1>4, ZenonT(60) DEF FlushOK, OwnedBy, FillPcs, FlushPcs, SameBatch
    <3> QED
      BY <1>1, <1>2, <1>4, <1>5, <3>1, ZenonT(60) DEF VictimOK, OwnedBy, FillPcs, FlushPcs, SameBatch
  <2>3. ASSUME NEW f \in DOMAIN th[t].snapshot, NEW p \in th[t].snapshot[f].id
        PROVE  CopyOK(th[t], f, p)'
    <3>1. CopyOK(th[t], f, p)
      BY <1>2, ZenonT(60) DEF SnapOK
    <3>2. PICK q \in Pages : th[t].snapshot[f].id = {q} /\ th[t].snapshot[f].lsn \in 0 .. MaxLsn
      BY CopyImage, ZenonT(60)
    <3>3. p \in Pages /\ file[p] = {th[t].snapshot[f].lsn}
      BY <1>1, <2>3, <3>1, <3>2, Zenon DEF CopyOK
    <3>4. flushed'[p] <= th[t].snapshot[f].lsn
      BY <1>7, <3>2, <3>3
    <3> QED
      BY <1>4, <1>5, <3>1, <3>3, <3>4, ZenonT(60) DEF CopyOK, SameBatch
  <2>4. SnapOK(th[t])'
    BY <1>2, <1>4, <2>3, ZenonT(60) DEF SnapOK, SameBatch
  <2>5. BackedUp(th[t])'
    BY <1>4, ZenonT(60) DEF BackedUp
  <2> QED
    BY <2>1, <2>2, <2>4, <2>5 DEF DataOK
<1>11. LeaseInv' /\ ModeInv'
  BY <1>1, <1>2, <1>3, <1>4, <1>5, SameLease, ZenonT(60) DEF LeasePcs, ModeInv
<1>12. LsnInv'
  BY <1>2, <1>5, <1>7, <1>8, ZenonT(60) DEF LsnInv
<1>13. BackupInv'
  <2>1. \A p \in Pages : \A n \in file[p] \cup synced[p] : n >= flushed'[p]
    BY <1>6, <1>7
  <2> QED
    BY <1>1, <1>5, <1>6, <2>1, Zenon DEF BackupInv
<1>14. KeptInv' /\ FileInv'
  BY <1>2, <1>5, ZenonT(60) DEF KeptInv, FileInv, Good
<1>15. CleanMeansOnDisk'
  BY <1>2, <1>5, ZenonT(60) DEF CleanMeansOnDisk
<1> QED
  BY <1>9, <1>10, <1>11, <1>12, <1>13, <1>14, <1>15, Zenon DEF DInv, PageInv

\* A device call fails during the flush: the pool is poisoned, and the
\* double-write buffer still holds what may be torn.
LEMMA FlushBreaksData ==
    ASSUME IInv, IInv', DInv, NEW t \in Threads, FlushBreaks(t)
    PROVE  DInv'
<1>1. /\ mode = "up" /\ th[t].pc \in {"write", "clear"} /\ FlushFails(t)
      /\ flush_poisoned' = TRUE /\ flush_sequence' = {}
      /\ UNCHANGED <<contents, extent, mode, history>>
  BY DEF FlushBreaks, At
<1>2. /\ TypeOK /\ LeaseInv /\ LsnInv /\ BackupInv /\ CopiesOK(th[t]) /\ BackedUp(th[t])
  BY Parts
<1>3. th[t].pc \in LeasePcs
  BY <1>1, ZenonT(60) DEF LeasePcs
<1>4. /\ UNCHANGED <<page_table, frame_page>> /\ owned' \subseteq owned /\ Others(t)
      /\ th'[t].pc \in {"idle", "hold", "unload"}
      /\ th'[t].rest = {} /\ DOMAIN th'[t].snapshot = {}
  BY <1>1, FlushFailsAside, Zenon
<1>5. UNCHANGED <<page_table, frame_page, dirty_since_lsn, bytes, lsn, known, mode, current, flushed>>
  BY <1>1, <1>4 DEF contents, extent, history
<1>6. \A u \in Threads \ {t} : DataOK(th[u])'
  BY <1>1, <1>3, <1>4, <1>5, HolderStep, ZenonT(60) DEF Flushed
<1>7. DataOK(th[t])'
  BY <1>4, DoneData DEF FlushPcs
<1>8. LeaseInv' /\ ModeInv'
  BY <1>1, <1>2, <1>3, <1>4, DropLease, ZenonT(60) DEF LeasePcs, ModeInv
<1>9. BackupInv'
  <2>1. ~Good' /\ mode' = "up"
    BY <1>1 DEF Good
  <2>2. CASE \E f \in th[t].todo : th[t].pc = "write" /\ WritePageFails(ImageOf(th[t].snapshot[f]))
    <3>1. PICK f \in th[t].todo : th[t].pc = "write" /\ WritePageFails(ImageOf(th[t].snapshot[f]))
      BY <2>2
    <3>2. f \in DOMAIN th[t].snapshot
      BY <1>2, <3>1, ZenonT(60) DEF CopiesOK, FlushPcs
    <3>3. PICK p \in Pages : /\ ImageOf(th[t].snapshot[f]).id = p
                             /\ ImageOf(th[t].snapshot[f]).lsn = th[t].snapshot[f].lsn
                             /\ th[t].snapshot[f].lsn \in 0 .. MaxLsn
                             /\ CopyOK(th[t], f, p)
      BY <3>2, CopyImage, ZenonT(60)
    <3>4. PICK c \in {file[p], {th[t].snapshot[f].lsn}, Torn} : file' = [file EXCEPT ![p] = c]
      BY <3>1, <3>3, ZenonT(60) DEF WritePageFails
    <3>5. UNCHANGED <<synced, backup>>
      BY <3>1, Zenon DEF WritePageFails
    <3>6. file'[p] = c /\ \A q \in Pages \ {p} : file'[q] = file[q]
      BY <1>2, <3>3, <3>4, ZenonT(60) DEF TypeOK, DevicesType
    <3>7. \E i \in backup : i.id = p
      <4>1. ImageOf(th[t].snapshot[f]) \in backup
        BY <1>2, <3>1, <3>2, Zenon DEF BackedUp, ImagesOf
      <4> QED
        BY <3>3, <4>1, ZenonT(60)
    <3>8. \A m \in c : m >= flushed[p]
      <4>1. flushed[p] \in 0 .. MaxLsn /\ flushed[p] <= th[t].snapshot[f].lsn
        BY <1>2, <3>3, ZenonT(60) DEF LsnInv, CopyOK
      <4>2. th[t].snapshot[f].lsn >= flushed[p]
        BY <3>3, <4>1, ZenonT(60)
      <4>3. \A m \in file[p] : m >= flushed[p]
        BY <1>2, <3>3, ZenonT(60) DEF BackupInv
      <4> QED
        BY <3>4, <4>2, <4>3, ZenonT(60) DEF Torn
    <3>9. ASSUME NEW q \in Pages
          PROVE  /\ \A m \in file'[q] \cup synced[q] : m >= flushed[q]
                 /\ file'[q] # synced[q] \/ Torn \in {file'[q], synced[q]} => \E i \in backup : i.id = q
      BY <1>2, <3>6, <3>7, <3>8, ZenonT(60) DEF BackupInv
    <3> QED
      BY <1>2, <1>5, <2>1, <3>5, <3>9, ZenonT(60) DEF BackupInv
  <2>3. CASE UNCHANGED devices
    BY <1>2, <1>5, <2>1, <2>3, ZenonT(60) DEF BackupInv, devices
  <2>4. CASE th[t].pc = "clear" /\ ClearBatchFails
    <3>1. file = synced /\ \A p \in Pages : file[p] # Torn
      BY <1>3, <2>4, HolderFiles, ZenonT(60)
    <3>2. UNCHANGED <<file, synced>> /\ backup' \in {backup, {}}
      BY <2>4, ZenonT(60) DEF ClearBatchFails
    <3>3. \A i \in backup' : i.lsn >= flushed[i.id]
      BY <1>2, <3>2, Zenon DEF BackupInv
    <3> QED
      BY <1>2, <1>5, <2>1, <3>1, <3>2, <3>3, WholeFile, ZenonT(60)
  <2> QED
    BY <2>2, <2>3, <2>4, ZenonT(60) DEF FlushBreaks, At
<1>10. LsnInv'
  BY <1>2, <1>5, Zenon DEF LsnInv
<1>11. KeptInv' /\ FileInv' /\ CleanMeansOnDisk'
  BY <1>1, Zenon DEF KeptInv, FileInv, CleanMeansOnDisk, Good
<1> QED
  BY <1>6, <1>7, <1>8, <1>9, <1>10, <1>11, Zenon DEF DInv, PageInv

\* A frame whose page is as it was copied becomes clean.
LEMMA CleanNextData ==
    ASSUME IInv, IInv', DInv, NEW t \in Threads, CleanNext(t)
    PROVE  DInv'
<1>1. /\ mode = "up" /\ th[t].pc = "clean"
      /\ UNCHANGED <<index, bytes, flushing, extent, mode, history, devices>>
  BY Zenon DEF CleanNext, At
<1>2. /\ TypeOK /\ IndexInv /\ LeaseInv /\ LsnInv /\ KeptInv /\ CleanMeansOnDisk /\ FileInv /\ BackupInv
      /\ CopiesOK(th[t]) /\ FlushOK(th[t]) /\ VictimOK(th[t]) /\ SnapOK(th[t])
  BY Parts, Zenon
<1>3. th[t].pc \in LeasePcs
  BY <1>1 DEF LeasePcs
<1>4. PICK f \in th[t].todo :
         /\ dirty_since_lsn' = [dirty_since_lsn EXCEPT ![f] =
                                  IF bytes[f].lsn = th[t].snapshot[f].lsn THEN 0 ELSE @]
         /\ OneDone(t, f)
  BY ZenonT(60) DEF CleanNext, OneDone
<1>5. Others(t) /\ th'[t].pc = "clean" /\ th'[t].todo = th[t].todo \ {f} /\ SameBatch(t)
  BY <1>1, <1>2, <1>4, OneDoneFields, ZenonT(60) DEF SameBatch
<1>6. UNCHANGED <<page_table, frame_page, owned, bytes, flush_sequence, flush_poisoned,
                  lsn, known, mode, current, flushed, file, synced, backup>>
  BY <1>1, ZenonT(60) DEF index, flushing, extent, history, devices
<1>7. f \in DOMAIN th[t].snapshot
  BY <1>1, <1>2, <1>4, ZenonT(60) DEF CopiesOK, FlushPcs
<1>8. PICK p \in Pages : th[t].snapshot[f].id = {p} /\ CopyOK(th[t], f, p)
  BY <1>7, CopyImage, ZenonT(60)
<1>9. f \in Frames /\ th[t].snapshot[f].lsn \in 0 .. MaxLsn
  BY <1>2, <1>7, CopyType, Parts, ZenonT(60)
<1>10. /\ dirty_since_lsn'[f] = IF bytes[f].lsn = th[t].snapshot[f].lsn THEN 0 ELSE dirty_since_lsn[f]
       /\ \A g \in Frames \ {f} : dirty_since_lsn'[g] = dirty_since_lsn[g]
  BY <1>2, <1>4, <1>9, ZenonT(60) DEF TypeOK
<1>11. /\ Good /\ \A q \in Pages : \E m \in 0 .. MaxLsn : file[q] = {m} /\ m <= current[q]
  BY <1>3, HolderFiles, ZenonT(60)
\* If the frame is clean now, its page is the copied one, or was never written.
<1>12. ASSUME NEW q \in frame_page[f], bytes[f].lsn = th[t].snapshot[f].lsn
       PROVE  /\ file[q] = {bytes[f].lsn} /\ bytes[f].lsn = current[q]
              /\ q # p => current[q] = 0
  <2>1. q \in Pages /\ bytes[f].lsn = current[q]
    BY <1>2, <1>9, <1>11, <1>12, ZenonT(60) DEF TypeOK, KeptInv
  <2>2. CASE q = p
    BY <1>1, <1>8, <1>12, <2>1, <2>2, ZenonT(60) DEF CopyOK
  <2>3. CASE q # p
    <3>1. current[q] = 0
      BY <1>8, <1>12, <2>1, <2>3, Zenon DEF CopyOK
    <3>2. PICK m \in 0 .. MaxLsn : file[q] = {m} /\ m <= current[q]
      BY <1>11, <2>1, Zenon
    <3>3. m = 0
      BY <3>1, <3>2, DoubleWriteBounds
    <3> QED
      BY <2>1, <3>1, <3>2, <3>3, ZenonT(60)
  <2> QED
    BY <2>2, <2>3, Zenon
<1>13. \A u \in Threads \ {t} : DataOK(th[u])'
  <2>1. Flushed(t)
    BY <1>6, <1>10, ZenonT(60) DEF Flushed
  <2> QED
    BY <1>3, <1>5, <2>1, HolderStep, Zenon
<1>14. DataOK(th[t])'
  <2>1. FlushOK(th[t])' /\ InstallOK(th[t])'
    BY <1>2, <1>3, <1>5, <1>6, BatchFlush, ZenonT(60)
  <2>2. VictimOK(th[t])'
    <3>1. OwnedBy(th'[t]) = OwnedBy(th[t]) /\ OwnedBy(th[t]) \subseteq Frames
      <4>1. th[t] \in ThreadState
        BY Parts, ZenonT(60)
      <4> QED
        BY <1>1, <1>5, <4>1, ZenonT(60) DEF OwnedBy, SameBatch, ThreadState
    <3>2. ASSUME NEW g \in OwnedBy(th[t]) PROVE g \notin th'[t].todo => dirty_since_lsn'[g] = 0
      <4>1. CASE g = f
        <5>1. th[t].snapshot[f] = bytes[f]
          BY <1>2, <1>7, <4>1, ZenonT(60) DEF VictimOK
        <5> QED
          BY <1>10, <4>1, <5>1, Zenon
      <4>2. CASE g # f
        BY <1>1, <1>2, <1>5, <1>10, <3>1, <4>2, ZenonT(60) DEF VictimOK
      <4> QED
        BY <4>1, <4>2, Zenon
    <3> QED
      BY <1>2, <1>5, <1>6, <3>1, <3>2, ZenonT(60) DEF VictimOK, SameBatch
  <2>3. ASSUME NEW g \in DOMAIN th[t].snapshot, NEW q \in th[t].snapshot[g].id
        PROVE  CopyOK(th[t], g, q)'
    <3>1. CopyOK(th[t], g, q) /\ (g # f => th[t].snapshot[f].id # th[t].snapshot[g].id)
      BY <1>2, <1>7, ZenonT(60) DEF SnapOK
    <3>2. q \in Pages /\ th[t].snapshot[g].id = {q} /\ th[t].snapshot[g].lsn \in 0 .. MaxLsn
      BY <2>3, CopyImage, ZenonT(60)
    <3>3. ASSUME \A h \in page_table[q] : dirty_since_lsn'[h] = 0
          PROVE  th[t].snapshot[g].lsn = current[q]
      <4>1. CASE f \in page_table[q] /\ bytes[f].lsn = th[t].snapshot[f].lsn
        <5>1. q \in frame_page[f]
          BY <1>2, <1>9, <3>2, <4>1, ZenonT(60) DEF IndexInv
        <5>2. CASE q = p
          <6>1. g = f
            BY <1>8, <3>1, <3>2, <5>2, ZenonT(60)
          <6> QED
            BY <1>12, <4>1, <5>1, <6>1, ZenonT(60)
        <5>3. CASE q # p
          <6>1. current[q] = 0
            BY <1>12, <4>1, <5>1, <5>3, Zenon
          <6>2. th[t].snapshot[g].lsn <= current[q]
            BY <3>1, ZenonT(60) DEF CopyOK
          <6> QED
            BY <3>2, <6>1, <6>2, DoubleWriteBounds
        <5> QED
          BY <5>2, <5>3
      <4>2. CASE ~(f \in page_table[q] /\ bytes[f].lsn = th[t].snapshot[f].lsn)
        <5>1. page_table[q] \subseteq Frames
          BY <1>2, <3>2, ZenonT(60) DEF TypeOK
        <5>2. \A h \in page_table[q] : dirty_since_lsn[h] = 0
          BY <1>10, <3>3, <4>2, <5>1, ZenonT(60)
        <5> QED
          BY <3>1, <5>2, ZenonT(60) DEF CopyOK
      <4> QED
        BY <4>1, <4>2, Zenon
    <3>4. file[q] = {th[t].snapshot[g].lsn}
      BY <1>1, <3>1, ZenonT(60) DEF CopyOK
    <3> QED
      BY <1>5, <1>6, <3>1, <3>3, <3>4, ZenonT(60) DEF CopyOK, SameBatch
  <2>4. SnapOK(th[t])'
    BY <1>2, <1>5, <2>3, ZenonT(60) DEF SnapOK, SameBatch
  <2>5. BackedUp(th[t])'
    BY <1>5, ZenonT(60) DEF BackedUp
  <2> QED
    BY <2>1, <2>2, <2>4, <2>5 DEF DataOK
<1>15. LeaseInv' /\ ModeInv'
  BY <1>1, <1>2, <1>3, <1>5, <1>6, SameLease, ZenonT(60) DEF LeasePcs, ModeInv
<1>16. CleanMeansOnDisk'
  <2>1. ASSUME NEW g \in Frames, NEW q \in frame_page[g], dirty_since_lsn'[g] = 0
        PROVE  flush_poisoned \/ file[q] = {bytes[g].lsn}
    <3>1. CASE g = f /\ bytes[f].lsn = th[t].snapshot[f].lsn
      BY <1>12, <2>1, <3>1, ZenonT(60)
    <3>2. CASE ~(g = f /\ bytes[f].lsn = th[t].snapshot[f].lsn)
      <4>1. dirty_since_lsn[g] = 0
        BY <1>10, <2>1, <3>2, ZenonT(60)
      <4> QED
        BY <1>2, <2>1, <4>1, ZenonT(60) DEF CleanMeansOnDisk
    <3> QED
      BY <3>1, <3>2, ZenonT(60)
  <2> QED
    BY <1>6, <2>1, ZenonT(60) DEF CleanMeansOnDisk
<1>17. LsnInv' /\ KeptInv' /\ FileInv'
  BY <1>2, <1>6, ZenonT(60) DEF LsnInv, KeptInv, FileInv, Good
<1>18. BackupInv'
  BY <1>1, <1>2, <1>3, <1>6, HolderFiles, ZenonT(60) DEF BackupInv
<1> QED
  BY <1>13, <1>14, <1>15, <1>16, <1>17, <1>18, Zenon DEF DInv, PageInv

-----------------------------------------------------------------------------
(* The start of the pool, a crash and the repair of the file. *)

\* Threads that do nothing promise nothing.
IdleData == th = [t \in Threads |-> Idle] => \A t \in Threads : th[t].pc = "idle" /\ DataOK(th[t])

LEMMA IdleDataOK == IdleData
<1> SUFFICES ASSUME th = [t \in Threads |-> Idle], NEW t \in Threads
             PROVE  th[t].pc = "idle" /\ DataOK(th[t])
  BY DEF IdleData
<1>1. th[t].pc = "idle" /\ th[t].rest = {} /\ DOMAIN th[t].snapshot = {}
  BY EmptySnapshot, ZenonT(60) DEF Idle
<1>2. FlushOK(th[t])
  BY <1>1, Zenon DEF FlushOK, ListedBy, FlushPcs
<1>3. VictimOK(th[t]) /\ InstallOK(th[t])
  BY <1>1, Zenon DEF VictimOK, InstallOK
<1>4. SnapOK(th[t]) /\ BackedUp(th[t])
  BY <1>1 DEF SnapOK, BackedUp
<1> QED
  BY <1>1, <1>2, <1>3, <1>4, ZenonT(60) DEF DataOK

LEMMA IdleDataNext == IdleData'
BY IdleDataOK, PTL

LEMMA DInvInit == Init => DInv
<1> SUFFICES ASSUME Init PROVE DInv
  OBVIOUS
<1>1. /\ file = [p \in Pages |-> {0}] /\ synced = [p \in Pages |-> {0}] /\ backup = {}
      /\ th = [t \in Threads |-> Idle] /\ mode = "up" /\ lsn = 0
      /\ flush_sequence = {} /\ flush_poisoned = FALSE
      /\ current = [p \in Pages |-> 0] /\ flushed = [p \in Pages |-> 0]
      /\ bytes = [f \in Frames |-> [id |-> frame_page[f], lsn |-> 0]]
  BY Zenon DEF Init, InitDevices
<1>2. \A t \in Threads : th[t].pc = "idle" /\ DataOK(th[t])
  BY <1>1, IdleDataOK, Zenon DEF IdleData
<1>3. ModeInv /\ LeaseInv
  BY <1>1, <1>2, Zenon DEF ModeInv, LeaseInv, LeasePcs
<1>4. \A f \in Frames : bytes[f].lsn = 0 /\ \A p \in frame_page[f] : p \in Pages
  BY <1>1 DEF Init
<1>5. 0 \in 0 .. MaxLsn /\ 0 <= 0
  BY DoubleWriteBounds
<1>6. LsnInv
  BY <1>1, <1>5, Zenon DEF LsnInv
<1>7. KeptInv
  BY <1>1, <1>4, Zenon DEF KeptInv
<1>8. CleanMeansOnDisk
  BY <1>1, <1>4, Zenon DEF CleanMeansOnDisk
<1>9. FileInv
  BY <1>1, <1>5, Zenon DEF FileInv, Torn
<1>10. BackupInv
  BY <1>1 DEF BackupInv, Torn
<1> QED
  BY <1>2, <1>3, <1>6, <1>7, <1>8, <1>9, <1>10, Zenon DEF DInv, PageInv

\* Only a batch that the lease's holder has copied can be half written to the
\* double-write buffer, and then no page is half written to the file.
LEMMA CrashData ==
    ASSUME IInv, IInv', DInv, Crash
    PROVE  DInv'
<1> DEFINE pending == UNION {IF Copied(t) THEN Images(t) ELSE {} : t \in Threads}
<1>1. /\ CrashDevices(pending) /\ mode' = "restoring" /\ th' = [t \in Threads |-> Idle]
      /\ frame_page' = [f \in Frames |-> {}] /\ flush_sequence' = {}
      /\ UNCHANGED <<lsn, known, current, flushed>>
  BY Zenon DEF Crash, history
<1>2. TypeOK /\ LsnInv /\ BackupInv
  BY Parts, Zenon
<1>3. \A i \in pending : i.lsn >= flushed[i.id]
  BY ImagesNew, Zenon
<1>4. pending # {} => file = synced /\ \A p \in Pages : file[p] # Torn
  <2>1. ASSUME NEW t \in Threads, Copied(t) PROVE file = synced /\ \A p \in Pages : file[p] # Torn
    <3>1. th[t].pc = "snapshot" /\ th[t].pc \in LeasePcs
      BY <2>1, Zenon DEF Copied, At, LeasePcs
    <3> QED
      BY <3>1, HolderFiles, Zenon
  <2> QED
    BY <2>1, Zenon
<1>5. /\ file' = synced'
      /\ \A p \in Pages : file'[p] \in IF file[p] = synced[p] THEN {file[p]}
                                       ELSE {file[p], synced[p], Torn}
      /\ backup' \in IF pending = {} THEN {backup} ELSE SUBSET pending
  BY <1>1, ZenonT(60) DEF CrashDevices
<1> HIDE DEF pending
<1>6. \A t \in Threads : th'[t].pc = "idle" /\ DataOK(th[t])'
  BY <1>1, IdleDataNext, Zenon DEF IdleData
<1>7. ModeInv' /\ LeaseInv'
  BY <1>1, <1>6, Zenon DEF ModeInv, LeaseInv, LeasePcs
<1>8. BackupInv'
  <2>1. \A i \in backup' : i.lsn >= flushed[i.id]
    BY <1>2, <1>3, <1>5, Zenon DEF BackupInv
  <2>2. ASSUME NEW p \in Pages PROVE \A n \in file'[p] : n >= flushed[p]
    BY <1>2, <1>5, ZenonT(60) DEF BackupInv, Torn
  <2>3. ASSUME NEW p \in Pages, file'[p] = Torn PROVE \E i \in backup' : i.id = p
    <3>1. file[p] # synced[p] \/ Torn \in {file[p], synced[p]}
      BY <1>5, <2>3, ZenonT(60)
    <3>2. pending = {}
      BY <1>4, <3>1, Zenon
    <3> QED
      BY <1>2, <1>5, <3>1, <3>2, Zenon DEF BackupInv
  <2> QED
    BY <1>1, <1>5, <2>1, <2>2, <2>3, ZenonT(60) DEF BackupInv, Good
<1>9. LsnInv'
  BY <1>1, <1>2, Zenon DEF LsnInv
<1>10. KeptInv' /\ FileInv' /\ CleanMeansOnDisk'
  BY <1>1, Zenon DEF KeptInv, FileInv, CleanMeansOnDisk, Good
<1> QED
  BY <1>6, <1>7, <1>8, <1>9, <1>10, Zenon DEF DInv, PageInv

LEMMA RestoreData ==
    ASSUME IInv, IInv', DInv, Restore
    PROVE  DInv'
<1>1. /\ mode = "restoring" /\ mode' \in {"restoring", "recovered"}
      /\ UNCHANGED <<index, contents, flushing, extent, th, history>>
  BY Zenon DEF Restore, pool
<1>2. TypeOK /\ ModeInv /\ LeaseInv /\ LsnInv /\ BackupInv /\ \A t \in Threads : FlushOK(th[t])
  BY Parts, Zenon
<1>3. UNCHANGED <<frame_page, flush_sequence, lsn, known, current, flushed>>
  BY <1>1 DEF index, flushing, extent, history
<1>4. /\ \A t \in Threads : th[t].pc = "idle" /\ th'[t] = th[t]
      /\ \A f \in Frames : frame_page'[f] = {}
  BY <1>1, <1>2, <1>3, ZenonT(60) DEF ModeInv
<1>5. ASSUME NEW t \in Threads PROVE DataOK(th[t])'
  BY <1>2, <1>4, DoneData, ZenonT(60) DEF FlushOK, FlushPcs, LeasePcs
<1>6. ModeInv'
  BY <1>4, Zenon DEF ModeInv
<1>7. LeaseInv'
  BY <1>1, <1>2, <1>3, <1>4, ZenonT(60) DEF LeaseInv, Good
<1>8. BackupInv'
  <2>1. ~Good'
    BY <1>1, ZenonT(60) DEF Good
  <2>2. CASE RestorePage /\ UNCHANGED mode
    <3>1. PICK i \in Repairable : file' = [file EXCEPT ![i.id] = {i.lsn}]
      BY <2>2, ZenonT(60) DEF RestorePage
    <3>2. i \in backup /\ i.id \in Pages /\ i.lsn >= flushed[i.id]
      BY <1>2, <3>1, Zenon DEF Repairable, BackupInv, TypeOK, DevicesType, Image
    <3>3. file'[i.id] = {i.lsn} /\ \A q \in Pages \ {i.id} : file'[q] = file[q]
      BY <1>2, <3>1, <3>2, ZenonT(60) DEF TypeOK, DevicesType
    <3>4. UNCHANGED <<synced, backup>>
      BY <2>2, Zenon DEF RestorePage
    <3>5. ASSUME NEW q \in Pages
          PROVE  /\ \A m \in file'[q] \cup synced[q] : m >= flushed[q]
                 /\ file'[q] # synced[q] \/ Torn \in {file'[q], synced[q]} => \E j \in backup : j.id = q
      BY <1>2, <3>2, <3>3, ZenonT(60) DEF BackupInv
    <3> QED
      BY <1>1, <1>2, <1>3, <2>1, <2>2, <3>4, <3>5, Zenon DEF BackupInv
  <2>3. ASSUME Repairable = {} PROVE \A p \in Pages : file[p] # Torn
    BY <1>2, <2>3, Zenon DEF Repairable, BackupInv
  <2>4. CASE SyncRestored /\ UNCHANGED mode
    BY <1>1, <1>2, <1>3, <2>1, <2>3, <2>4, ZenonT(60) DEF SyncRestored, SyncFile, BackupInv
  <2>5. CASE ClearRestored
    BY <1>2, <1>3, <2>1, <2>3, <2>5, ZenonT(60) DEF ClearRestored, ClearBatch, BackupInv
  <2> QED
    BY <2>2, <2>4, <2>5, Zenon DEF Restore
<1>9. LsnInv'
  BY <1>2, <1>3, Zenon DEF LsnInv
<1>10. KeptInv' /\ FileInv'
  BY <1>1, ZenonT(60) DEF KeptInv, FileInv, Good
<1>11. CleanMeansOnDisk'
  BY <1>4, Zenon DEF CleanMeansOnDisk
<1> QED
  BY <1>5, <1>6, <1>7, <1>8, <1>9, <1>10, <1>11, Zenon DEF DInv, PageInv

LEMMA StutterData ==
    ASSUME IInv, IInv', DInv, UNCHANGED vars
    PROVE  DInv'
<1>1. UNCHANGED <<page_table, frame_page, owned, dirty_since_lsn, bytes, flush_sequence, flush_poisoned,
                  lsn, known, th, mode, current, flushed, file, synced, backup>>
  BY Zenon DEF vars, index, contents, flushing, extent, history, devices
<1>2. /\ TypeOK /\ ModeInv /\ LeaseInv /\ LsnInv /\ KeptInv /\ CleanMeansOnDisk /\ FileInv /\ BackupInv
      /\ \A t \in Threads : th[t] \in ThreadState /\ DataOK(th[t]) /\ FlushOK(th[t])
                            /\ SnapOK(th[t]) /\ BackedUp(th[t])
  BY Parts, Zenon
<1>3. TypeOK'
  BY Zenon DEF IInv
<1>4. SamePages
  BY <1>1, Zenon DEF SamePages
<1>5. ASSUME NEW t \in Threads PROVE DataOK(th[t])'
  <2>1. Spares(t)
    BY <1>1, <1>2, ZenonT(60) DEF Spares, FlushOK
  <2>2. SnapOK(th[t])' /\ BackedUp(th[t])'
    BY <1>1, <1>2, <1>4, SameSnap, Zenon
  <2> QED
    BY <1>2, <2>1, <2>2, SparedData, Zenon
<1>6. ModeInv' /\ LeaseInv'
  BY <1>1, <1>2, ZenonT(60) DEF ModeInv, LeaseInv, Good
<1>7. PageInv'
  BY <1>1, <1>2, <1>3, <1>4, SamePageInv, ZenonT(60)
<1> QED
  BY <1>5, <1>6, <1>7, Zenon DEF DInv
=============================================================================
