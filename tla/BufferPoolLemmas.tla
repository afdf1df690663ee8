-------------------------- MODULE BufferPoolLemmas --------------------------
(***************************************************************************)
(* What a step of BufferPool does to the record of its thread, and what it *)
(* leaves to the other threads.                                            *)
(***************************************************************************)
EXTENDS BufferPoolInvariant, Integers, TLAPS

-----------------------------------------------------------------------------
(* Records of threads. *)

LEMMA EmptySnapshot == <<>> \in Copies /\ DOMAIN <<>> = {}
<1>1. <<>> \in [{} -> [id : SUBSET Pages, lsn : 0 .. MaxLsn]]
  OBVIOUS
<1>2. {} \in SUBSET Frames
  OBVIOUS
<1>3. DOMAIN <<>> = {}
  OBVIOUS
<1> QED
  BY <1>1, <1>2, <1>3 DEF Copies

LEMMA IdleType == Idle \in ThreadState
BY EmptySnapshot, DoubleWriteBounds DEF Idle, ThreadState

\* The other threads keep their records.
Others(t) == \A u \in Threads \ {t} : th'[u] = th[u]

LEMMA Moved ==
    ASSUME TypeOK, NEW t \in Threads, NEW r \in ThreadState, th' = [th EXCEPT ![t] = r]
    PROVE  th'[t] = r /\ Others(t) /\ th' \in [Threads -> ThreadState]
BY DEF TypeOK, Others

\* What a thread that goes back to its caller keeps.
LEMMA CallerFields ==
    ASSUME TypeOK, NEW t \in Threads
    PROVE  /\ Caller(t) \in ThreadState
           /\ Caller(t).pc \in {"idle", "hold"} /\ Caller(t).op = ""
           /\ Caller(t).page = {} /\ Caller(t).frame = {} /\ Caller(t).held = th[t].held
           /\ Caller(t).batch = {} /\ Caller(t).rest = {} /\ Caller(t).todo = {}
           /\ Caller(t).snapshot = <<>>
<1>1. th[t].held \in SUBSET Guard
  BY Zenon DEF TypeOK, ThreadState
<1>2. Caller(t) \in ThreadState
  BY <1>1, IdleType, ZenonT(60) DEF Caller, ThreadState
<1> QED
  BY <1>2 DEF Caller, Idle

\* Two frames with the same page are one, and so are two pages of one frame.
LEMMA OneFrame ==
    ASSUME IndexInv, NEW p \in Pages, NEW f \in page_table[p]
    PROVE  page_table[p] = {f}
BY DEF IndexInv, Opt

LEMMA OnePage ==
    ASSUME IndexInv, NEW f \in Frames, NEW p \in frame_page[f]
    PROVE  frame_page[f] = {p}
BY DEF IndexInv, Opt

LEMMA ReturnMoves ==
    ASSUME TypeOK, NEW t \in Threads, Return(t)
    PROVE  th'[t] = Caller(t) /\ Others(t) /\ th' \in [Threads -> ThreadState]
BY CallerFields, Moved, Zenon DEF Return

LEMMA FlushFields ==
    ASSUME TypeOK, NEW t \in Threads, NEW c \in SUBSET Frames, NEW d \in SUBSET Frames, Flush(t, c, d)
    PROVE  /\ Others(t) /\ th' \in [Threads -> ThreadState]
           /\ th'[t].pc = "lease" /\ th'[t].batch = c /\ th'[t].todo = c /\ th'[t].rest = d
           /\ th'[t].snapshot = <<>>
           /\ th'[t].frame = th[t].frame /\ th'[t].page = th[t].page
           /\ th'[t].op = th[t].op /\ th'[t].held = th[t].held
<1> DEFINE r == [th[t] EXCEPT !.pc = "lease", !.batch = c, !.todo = c, !.rest = d, !.snapshot = <<>>]
<1>1. th[t] \in ThreadState
  BY DEF TypeOK
<1>2. r \in ThreadState
  BY <1>1, EmptySnapshot, Zenon DEF ThreadState
<1>3. th' = [th EXCEPT ![t] = r]
  BY Zenon DEF Flush
<1>4. th'[t] = r /\ Others(t) /\ th' \in [Threads -> ThreadState]
  BY <1>2, <1>3, Moved, Zenon
<1> QED
  BY <1>1, <1>4, ZenonT(60) DEF ThreadState

LEMMA GotoFields ==
    ASSUME TypeOK, NEW t \in Threads,
           NEW pc \in {"idle", "lookup", "acquire", "evict", "lease", "snapshot", "write", "clear",
                       "clean", "complete", "read", "install", "unload", "latch", "hold", "unpin"},
           Goto(t, pc)
    PROVE  /\ Others(t) /\ th' \in [Threads -> ThreadState] /\ th'[t].pc = pc
           /\ th'[t].batch = th[t].batch /\ th'[t].todo = th[t].todo /\ th'[t].rest = th[t].rest
           /\ th'[t].snapshot = th[t].snapshot
           /\ th'[t].frame = th[t].frame /\ th'[t].page = th[t].page
           /\ th'[t].op = th[t].op /\ th'[t].held = th[t].held /\ th'[t].lsn = th[t].lsn
<1> DEFINE r == [th[t] EXCEPT !.pc = pc]
<1>1. th[t] \in ThreadState
  BY DEF TypeOK
<1>2. r \in ThreadState
  BY <1>1, ZenonT(60) DEF ThreadState
<1>3. th' = [th EXCEPT ![t] = r]
  BY DEF Goto
<1>4. th'[t] = r /\ Others(t) /\ th' \in [Threads -> ThreadState]
  BY <1>2, <1>3, Moved, Zenon
<1> QED
  BY <1>1, <1>4, ZenonT(60) DEF ThreadState

\* A copy more, of a frame that holds a page.
LEMMA AddCopy ==
    ASSUME NEW s \in Copies, NEW f \in Frames, NEW c \in [id : SUBSET Pages, lsn : 0 .. MaxLsn]
    PROVE  /\ [g \in DOMAIN s \cup {f} |-> IF g = f THEN c ELSE s[g]] \in Copies
           /\ DOMAIN s \in SUBSET Frames
<1> DEFINE C == [id : SUBSET Pages, lsn : 0 .. MaxLsn]
           n == [g \in DOMAIN s \cup {f} |-> IF g = f THEN c ELSE s[g]]
<1>1. PICK D \in SUBSET Frames : s \in [D -> C]
  BY DEF Copies
<1>2. DOMAIN s = D
  BY <1>1
<1>3. n \in [D \cup {f} -> C]
  BY <1>1, <1>2
<1>4. D \cup {f} \in SUBSET Frames
  BY <1>1
<1> HIDE DEF n
<1>5. n \in Copies
  BY <1>3, <1>4, Zenon DEF Copies
<1> QED
  BY <1>1, <1>2, <1>5 DEF n

\* The next pass over the batch begins, or a frame of it is done.
NextPass(t, pc) == th' = [th EXCEPT ![t].pc = pc, ![t].todo = th[t].batch]
OneDone(t, f) == th' = [th EXCEPT ![t].todo = @ \ {f}]

LEMMA NextPassFields ==
    ASSUME TypeOK, NEW t \in Threads, NEW pc \in FlushPcs, NextPass(t, pc)
    PROVE  /\ Others(t) /\ th' \in [Threads -> ThreadState] /\ th'[t].pc = pc
           /\ th'[t].todo = th[t].batch
           /\ th'[t].batch = th[t].batch /\ th'[t].rest = th[t].rest
           /\ th'[t].snapshot = th[t].snapshot
           /\ th'[t].frame = th[t].frame /\ th'[t].page = th[t].page
           /\ th'[t].op = th[t].op /\ th'[t].held = th[t].held
<1> DEFINE r == [th[t] EXCEPT !.pc = pc, !.todo = th[t].batch]
<1>1. th[t] \in ThreadState
  BY DEF TypeOK
<1>2. r \in ThreadState
  BY <1>1, Zenon DEF ThreadState, FlushPcs
<1>3. th' = [th EXCEPT ![t] = r]
  BY Zenon DEF NextPass
<1>4. th'[t] = r /\ Others(t) /\ th' \in [Threads -> ThreadState]
  BY <1>2, <1>3, Moved, ZenonT(60)
<1> QED
  BY <1>1, <1>4, ZenonT(60) DEF ThreadState

LEMMA OneDoneFields ==
    ASSUME TypeOK, NEW t \in Threads, NEW f \in th[t].todo, OneDone(t, f)
    PROVE  /\ Others(t) /\ th' \in [Threads -> ThreadState] /\ th'[t].pc = th[t].pc
           /\ th'[t].todo = th[t].todo \ {f}
           /\ th'[t].batch = th[t].batch /\ th'[t].rest = th[t].rest
           /\ th'[t].snapshot = th[t].snapshot
           /\ th'[t].frame = th[t].frame /\ th'[t].page = th[t].page
           /\ th'[t].op = th[t].op /\ th'[t].held = th[t].held
<1> DEFINE r == [th[t] EXCEPT !.todo = th[t].todo \ {f}]
<1>1. th[t] \in ThreadState /\ th \in [Threads -> ThreadState]
  BY DEF TypeOK
<1>2. r \in ThreadState
  BY <1>1, Zenon DEF ThreadState
<1>3. th' = [th EXCEPT ![t] = r]
  BY <1>1 DEF OneDone
<1>4. th'[t] = r /\ Others(t) /\ th' \in [Threads -> ThreadState]
  BY <1>2, <1>3, Moved, ZenonT(60)
<1> QED
  BY <1>1, <1>4, ZenonT(60) DEF ThreadState

\* Frames that are mapped to different pages.
LEMMA FramesApart ==
    ASSUME IndexInv, TypeOK, NEW f \in Frames, NEW g \in Frames, f # g
    PROVE  frame_page[f] \cap frame_page[g] = {}
BY DEF IndexInv, TypeOK, Opt

\* A pinned frame is not owned.
LEMMA PinnedNotOwned ==
    ASSUME IInv, NEW u \in Threads, NEW f \in owned
    PROVE  f \notin PinnedBy(th[u])
BY DEF IInv, PinInv, Pinners

-----------------------------------------------------------------------------
(* What a step of one thread leaves to the others. *)

LEMMA TheOnly == \A x : The({x}) = x
BY DEF The

\* The parts of the invariants at a thread.
LEMMA Parts ==
    ASSUME IInv, DInv
    PROVE  /\ TypeOK /\ IndexInv /\ PinInv /\ Threads2
           /\ ModeInv /\ LeaseInv /\ LsnInv /\ KeptInv /\ CleanMeansOnDisk /\ FileInv /\ BackupInv
           /\ \A t \in Threads : /\ th[t] \in ThreadState
                                 /\ ThreadInv(th[t]) /\ DataOK(th[t])
                                 /\ ThreadOK(th[t]) /\ CopiesOK(th[t]) /\ OwnOK(th[t]) /\ SeekOK(th[t])
                                 /\ PinsOK(th[t])
                                 /\ FlushOK(th[t]) /\ VictimOK(th[t]) /\ InstallOK(th[t])
                                 /\ SnapOK(th[t]) /\ BackedUp(th[t])
<1>1. TypeOK /\ IndexInv /\ PinInv /\ Threads2 /\ \A t \in Threads : ThreadInv(th[t])
  BY DEF IInv
<1>2. /\ ModeInv /\ LeaseInv /\ LsnInv /\ KeptInv /\ CleanMeansOnDisk /\ FileInv /\ BackupInv
      /\ \A t \in Threads : DataOK(th[t])
  BY DEF DInv, PageInv
<1>3. \A t \in Threads : th[t] \in ThreadState
  BY <1>1, Zenon DEF TypeOK
<1> QED
  BY <1>1, <1>2, <1>3, Zenon DEF ThreadInv, DataOK

\* The frames another thread has listed or owns are left as they are.
Spares(u) ==
    /\ th'[u] = th[u]
    /\ \A f \in ListedBy(th[u]) : frame_page'[f] # {} /\ (f \in owned' => f \in owned)
    /\ \A f \in OwnedBy(th[u]) :
          bytes'[f] = bytes[f] /\ (dirty_since_lsn[f] = 0 => dirty_since_lsn'[f] = 0)
    /\ \A p \in SoughtBy(th[u]) : current'[p] = current[p]
    /\ flush_poisoned => flush_poisoned'

LEMMA SparedData ==
    ASSUME NEW u \in Threads, th[u] \in ThreadState, DataOK(th[u]), Spares(u),
           SnapOK(th[u])', BackedUp(th[u])'
    PROVE  DataOK(th[u])'
<1>1. FlushOK(th[u]) /\ VictimOK(th[u]) /\ InstallOK(th[u])
  BY Zenon DEF DataOK
<1>2. FlushOK(th[u])'
  BY <1>1, Zenon DEF FlushOK, ListedBy, Spares
<1>3. VictimOK(th[u])'
  BY <1>1 DEF VictimOK, OwnedBy, Spares
<1>4. InstallOK(th[u])'
  <2>1. th[u].pc = "install" => SoughtBy(th[u]) = th[u].page
    BY DEF SoughtBy, SeekPcs, FillPcs
  <2> QED
    BY <1>1, <2>1 DEF InstallOK, Spares
<1> QED
  BY <1>2, <1>3, <1>4 DEF DataOK

\* The pages, their frames and the devices are as they were.
SamePages ==
    UNCHANGED <<page_table, frame_page, dirty_since_lsn, bytes, current, flushed, file, synced, backup>>

LEMMA SameSnap ==
    ASSUME NEW u \in Threads, th'[u] = th[u], SnapOK(th[u]), BackedUp(th[u]), SamePages
    PROVE  SnapOK(th[u])' /\ BackedUp(th[u])'
<1>1. ASSUME NEW f, NEW p, CopyOK(th[u], f, p) PROVE CopyOK(th[u], f, p)'
  BY <1>1, Zenon DEF CopyOK, SamePages
<1>2. SnapOK(th[u])'
  BY <1>1, Zenon DEF SnapOK, SamePages
<1> QED
  BY <1>2, Zenon DEF BackedUp, ImagesOf, SamePages

\* A copy is of a page.
LEMMA CopyType ==
    ASSUME NEW u \in Threads, th[u] \in ThreadState, CopiesOK(th[u]), NEW f \in DOMAIN th[u].snapshot
    PROVE  /\ f \in Frames /\ th[u].snapshot[f].lsn \in 0 .. MaxLsn
           /\ \E p \in Pages : th[u].snapshot[f].id = {p}
           /\ \A p \in th[u].snapshot[f].id : p \in Pages
<1>1. th[u].snapshot \in Copies
  BY ZenonT(60) DEF ThreadState
<1>2. PICK D \in SUBSET Frames : th[u].snapshot \in [D -> [id : SUBSET Pages, lsn : 0 .. MaxLsn]]
  BY <1>1, ZenonT(60) DEF Copies
<1> QED
  BY <1>2 DEF CopiesOK

\* A thread without the lease has no copies.
LEMMA NoCopies ==
    ASSUME NEW u \in Threads, FlushOK(th[u]), th'[u] = th[u], th[u].pc \notin LeasePcs
    PROVE  SnapOK(th[u])' /\ BackedUp(th[u])'
BY DEF FlushOK, SnapOK, BackedUp, LeasePcs

\* The other threads, when a thread that holds the lease takes a step.
LEMMA LeaseAlone ==
    ASSUME LeaseInv, NEW t \in Threads, th[t].pc \in LeasePcs, NEW u \in Threads, u # t
    PROVE  th[u].pc \notin LeasePcs /\ Good
BY DEF LeaseInv

\* The facts about the file, when it does not change.
LEMMA SameFileInv ==
    ASSUME TypeOK, TypeOK', LsnInv, FileInv, BackupInv,
           UNCHANGED <<current, flushed, file, synced, backup, mode, flush_poisoned>>,
           lsn' \in {lsn, lsn + 1}, known \subseteq known',
           \A t \in Threads : th[t].pc = "write" => th'[t].pc = "write"
    PROVE  LsnInv' /\ FileInv' /\ BackupInv'
<1>1. LsnInv'
  <2>1. \A p \in Pages : current[p] <= lsn'
    <3>1. lsn \in Int /\ lsn' \in Int /\ \A p \in Pages : current[p] \in Int /\ current[p] <= lsn
      BY DoubleWriteBounds DEF TypeOK, LsnInv
    <3> QED
      BY <3>1
  <2> QED
    BY <2>1 DEF LsnInv
<1>2. FileInv'
  BY DEF FileInv, Good
<1>3. BackupInv'
  BY DEF BackupInv, Good
<1> QED
  BY <1>1, <1>2, <1>3, Zenon

\* The facts about pages, when nothing of them changes.
LEMMA SamePageInv ==
    ASSUME TypeOK, TypeOK', LsnInv, KeptInv, CleanMeansOnDisk, FileInv, BackupInv, SamePages,
           UNCHANGED <<mode, flush_poisoned>>, lsn' \in {lsn, lsn + 1}, known \subseteq known',
           \A t \in Threads : th[t].pc = "write" => th'[t].pc = "write"
    PROVE  PageInv'
<1>1. LsnInv' /\ FileInv' /\ BackupInv'
  BY SameFileInv DEF SamePages
<1>2. KeptInv'
  BY DEF KeptInv, Good, SamePages
<1>3. CleanMeansOnDisk'
  BY Zenon DEF CleanMeansOnDisk, SamePages
<1> QED
  BY <1>1, <1>2, <1>3, Zenon DEF PageInv

\* A thread that is in no flush lists and holds nothing.
LEMMA DoneData ==
    ASSUME NEW t \in Threads, th'[t].pc \notin FlushPcs \cup {"complete", "install"},
           th'[t].rest = {}, DOMAIN th'[t].snapshot = {}
    PROVE  DataOK(th[t])'
<1>1. FlushOK(th[t])'
  BY Zenon DEF FlushOK, ListedBy, FlushPcs
<1>2. VictimOK(th[t])' /\ InstallOK(th[t])'
  BY Zenon DEF VictimOK, InstallOK, FlushPcs
<1>3. SnapOK(th[t])' /\ BackedUp(th[t])'
  BY Zenon DEF SnapOK, BackedUp, FlushPcs
<1> QED
  BY <1>1, <1>2, <1>3, Zenon DEF DataOK

\* The thread is not in a flush and starts none; a page to install is a new one.
Aside(t) ==
    /\ th[t].pc \notin FlushPcs
    /\ th'[t].pc \notin FlushPcs \cup {"complete"}
    /\ th'[t].pc = "install" => th'[t].op = "new"
    /\ th'[t].rest = {} /\ DOMAIN th'[t].snapshot = {}

LEMMA ReturnAside ==
    ASSUME IInv, NEW t \in Threads, Return(t)
    PROVE  /\ Others(t) /\ th'[t].pc \in {"idle", "hold"} /\ th'[t].rest = {} /\ DOMAIN th'[t].snapshot = {}
           /\ th[t].pc \notin FlushPcs => Aside(t)
<1>1. TypeOK
  BY DEF IInv
<1>2. Others(t) /\ th'[t].pc \in {"idle", "hold"} /\ th'[t].rest = {} /\ th'[t].snapshot = <<>>
  BY <1>1, ReturnMoves, CallerFields, ZenonT(60)
<1> QED
  BY <1>2, EmptySnapshot DEF Aside, FlushPcs

LEMMA FailedAside ==
    ASSUME IInv, NEW t \in Threads, Failed(t)
    PROVE  /\ Others(t) /\ th'[t].pc \in {"idle", "hold", "unload"}
           /\ th'[t].rest = {} /\ DOMAIN th'[t].snapshot = {}
           /\ th[t].pc \notin FlushPcs => Aside(t)
<1> DEFINE r == [Caller(t) EXCEPT !.pc = "unload", !.page = th[t].page]
<1>1. TypeOK /\ th[t] \in ThreadState
  BY DEF IInv, TypeOK
<1>2. CASE th[t].op = "fetch"
  <2>1. r \in ThreadState
    BY <1>1, CallerFields, ZenonT(60) DEF ThreadState
  <2>2. th' = [th EXCEPT ![t] = r]
    <3>1. th' = [th EXCEPT ![t] = IF th[t].op = "fetch" THEN r ELSE Caller(t)]
      BY <1>1 DEF Failed, TypeOK
    <3> QED
      BY <1>2, <3>1
  <2>3. th'[t] = r /\ Others(t)
    BY <1>1, <2>1, <2>2, Moved, Zenon
  <2>4. th'[t].pc = "unload" /\ th'[t].rest = {} /\ th'[t].snapshot = <<>>
    <3>1. Caller(t) \in ThreadState
      BY <1>1, CallerFields, Zenon
    <3>2. r.pc = "unload" /\ r.rest = Caller(t).rest /\ r.snapshot = Caller(t).snapshot
      BY <3>1, ZenonT(60) DEF ThreadState
    <3> QED
      BY <1>1, <2>3, <3>2, CallerFields, Zenon
  <2> QED
    BY <2>3, <2>4, EmptySnapshot, Zenon DEF Aside, FlushPcs
<1>3. CASE th[t].op # "fetch"
  <2>1. Return(t)
    BY <1>3, Zenon DEF Failed, Return
  <2> QED
    BY <2>1, ReturnAside
<1> QED
  BY <1>2, <1>3, Zenon

\* The lease stays where it is.
LEMMA SameLease ==
    ASSUME LeaseInv, NEW t \in Threads, Others(t), UNCHANGED <<flush_sequence, flush_poisoned, mode>>,
           th[t].pc \in LeasePcs <=> th'[t].pc \in LeasePcs
    PROVE  LeaseInv'
BY Zenon DEF LeaseInv, Good, Others

\* The lease is given up.
LEMMA DropLease ==
    ASSUME LeaseInv, NEW t \in Threads, Others(t), flush_sequence' = {},
           th[t].pc \in LeasePcs, th'[t].pc \notin LeasePcs
    PROVE  LeaseInv'
<1>1. \A u \in Threads \ {t} : th[u].pc \notin LeasePcs
  BY LeaseAlone, Zenon
<1> QED
  BY <1>1, Zenon DEF LeaseInv, Others

\* A flush fails: an eviction gives its victim back.
LEMMA FlushFailsAside ==
    ASSUME IInv, NEW t \in Threads, FlushFails(t)
    PROVE  /\ UNCHANGED <<page_table, frame_page>> /\ owned' \subseteq owned /\ Others(t)
           /\ th'[t].pc \in {"idle", "hold", "unload"}
           /\ th'[t].rest = {} /\ DOMAIN th'[t].snapshot = {}
<1>1. UNCHANGED <<page_table, frame_page>> /\ owned' \subseteq owned
  BY DEF FlushFails, AbortEviction, index
<1>2. Return(t) \/ Failed(t)
  BY Zenon DEF FlushFails
<1> QED
  BY <1>1, <1>2, ReturnAside, FailedAside, Zenon

-----------------------------------------------------------------------------
(* What a step of one thread leaves to the others, and to the types. *)

\* The index, the pins and the pages are as they were.
Quiet ==
    /\ UNCHANGED <<index, pin_count, allocated, known>>
    /\ \A f \in Frames : bytes'[f].id = bytes[f].id

LEMMA OtherThread ==
    ASSUME NEW u \in Threads, TypeOK, ThreadInv(th[u]), th'[u] = th[u], Quiet
    PROVE  ThreadInv(th[u])'
<1>1. ThreadOK(th[u])'
  BY ZenonT(60) DEF ThreadInv, ThreadOK
<1>2. CopiesOK(th[u])'
  <2>1. th[u].batch \cup th[u].rest \subseteq Frames
    BY ZenonT(60) DEF TypeOK, ThreadState
  <2> QED
    BY <2>1 DEF ThreadInv, CopiesOK, Quiet
<1>3. OwnOK(th[u])'
  BY Zenon DEF ThreadInv, OwnOK, Quiet, index
<1>4. SeekOK(th[u])'
  BY Zenon DEF ThreadInv, SeekOK, Quiet, index
<1>5. PinsOK(th[u])'
  BY Zenon DEF ThreadInv, PinsOK, Quiet, index
<1> QED
  BY <1>1, <1>2, <1>3, <1>4, <1>5, Zenon DEF ThreadInv

LEMMA StepApart ==
    ASSUME Threads2, NEW t \in Threads, Others(t),
           \A u \in Threads \ {t} : Apart(th'[t], th[u])
    PROVE  Threads2'
BY DEF Threads2, Others, Apart

\* The thread that steps gives up a frame or a claim, or changes nothing of them.
Fewer(t) ==
    /\ OwnedBy(th'[t]) \subseteq OwnedBy(th[t])
    /\ ClaimedBy(th'[t]) \subseteq ClaimedBy(th[t])
    /\ MadeBy(th'[t]) \subseteq MadeBy(th[t])

LEMMA FewerApart ==
    ASSUME Threads2, NEW t \in Threads, Others(t), Fewer(t)
    PROVE  Threads2'
<1>1. ASSUME NEW u \in Threads \ {t} PROVE Apart(th'[t], th[u])
  BY Zenon DEF Threads2, Apart, Fewer
<1> QED
  BY <1>1, StepApart, Zenon

LEMMA SamePinners ==
    ASSUME NEW t \in Threads, Others(t), PinnedBy(th'[t]) = PinnedBy(th[t])
    PROVE  \A f \in Frames : Pinners(f)' = Pinners(f)
BY DEF Pinners, Others

LEMMA ReturnInv ==
    ASSUME IInv, NEW t \in Threads, th'[t] = Caller(t),
           UNCHANGED page_table, known \subseteq known'
    PROVE  /\ ThreadInv(th[t])' /\ Fewer(t)
           /\ OwnedBy(th'[t]) = {}
           /\ PinnedBy(th'[t]) = {g.frame : g \in th[t].held}
<1>1. ThreadInv(th[t]) /\ TypeOK
  BY DEF IInv
<1>2. /\ th'[t].pc \in {"idle", "hold"} /\ th'[t].op = ""
      /\ th'[t].page = {} /\ th'[t].frame = {} /\ th'[t].held = th[t].held
      /\ DOMAIN th'[t].snapshot = {}
  BY <1>1, CallerFields, EmptySnapshot, ZenonT(60)
<1>3. ThreadOK(th[t])'
  BY <1>1, <1>2, ZenonT(60) DEF ThreadInv, ThreadOK, Opt, FlushPcs, FillPcs, SeekPcs
<1>4. CopiesOK(th[t])'
  BY <1>2, ZenonT(60) DEF CopiesOK, FlushPcs
<1>5. OwnOK(th[t])' /\ SeekOK(th[t])'
  BY <1>2, ZenonT(60) DEF OwnOK, OwnedBy, SeekOK, SoughtBy, ClaimedBy
<1>6. PinsOK(th[t])'
  BY <1>1, <1>2, ZenonT(60) DEF ThreadInv, PinsOK
<1> QED
  BY <1>2, <1>3, <1>4, <1>5, <1>6, ZenonT(60)
     DEF ThreadInv, Fewer, OwnedBy, ClaimedBy, MadeBy, PinnedBy, FlushPcs, FillPcs, SeekPcs

LEMMA FailedInv ==
    ASSUME IInv, NEW t \in Threads, th[t].pc \in SeekPcs, th[t].page # {}, Failed(t),
           UNCHANGED <<page_table, loading, allocated, known>>
    PROVE  /\ ThreadInv(th[t])' /\ Fewer(t) /\ Others(t)
           /\ OwnedBy(th'[t]) = {}
           /\ PinnedBy(th'[t]) = {g.frame : g \in th[t].held}
           /\ th' \in [Threads -> ThreadState]
<1> DEFINE r == [Caller(t) EXCEPT !.pc = "unload", !.page = th[t].page]
<1>1. ThreadInv(th[t]) /\ TypeOK /\ th[t] \in ThreadState
  BY DEF IInv, TypeOK
<1>2. CASE th[t].op = "fetch"
  <2>1. r \in ThreadState
    BY <1>1, CallerFields, ZenonT(60) DEF ThreadState
  <2>2. th' = [th EXCEPT ![t] = r]
    <3>1. th' = [th EXCEPT ![t] = IF th[t].op = "fetch" THEN r ELSE Caller(t)]
      BY <1>1 DEF Failed, TypeOK
    <3> QED
      BY <1>2, <3>1
  <2>3. th'[t] = r /\ Others(t) /\ th' \in [Threads -> ThreadState]
    BY <1>1, <2>1, <2>2, Moved, Zenon
  <2>4. /\ th'[t].pc = "unload" /\ th'[t].op = "" /\ th'[t].frame = {}
        /\ th'[t].page = th[t].page /\ th'[t].held = th[t].held
        /\ DOMAIN th'[t].snapshot = {}
    <3>1. Caller(t) \in ThreadState
      BY <1>1, CallerFields, ZenonT(60)
    <3>2. /\ r.pc = "unload" /\ r.op = Caller(t).op /\ r.frame = Caller(t).frame
          /\ r.page = th[t].page /\ r.held = Caller(t).held /\ r.snapshot = Caller(t).snapshot
      BY <3>1, ZenonT(60) DEF ThreadState
    <3> QED
      BY <1>1, <2>3, <3>2, CallerFields, EmptySnapshot, Zenon
  <2>5. ThreadOK(th[t])'
    BY <1>1, <2>4, ZenonT(60) DEF ThreadInv, ThreadOK, Opt, FlushPcs, FillPcs, SeekPcs
  <2>6. CopiesOK(th[t])'
    BY <2>4, ZenonT(60) DEF CopiesOK, FlushPcs
  <2>7. OwnOK(th[t])' /\ SeekOK(th[t])'
    BY <1>1, <1>2, <2>4, ZenonT(60) DEF ThreadInv, OwnOK, OwnedBy, SeekOK, SoughtBy, ClaimedBy, FlushPcs, FillPcs, SeekPcs
  <2>8. PinsOK(th[t])'
    BY <1>1, <2>4, ZenonT(60) DEF ThreadInv, PinsOK
  <2> QED
    BY <1>2, <2>3, <2>4, <2>5, <2>6, <2>7, <2>8, ZenonT(60)
       DEF ThreadInv, Fewer, OwnedBy, ClaimedBy, MadeBy, PinnedBy, FlushPcs, FillPcs, SeekPcs
<1>3. CASE th[t].op # "fetch"
  <2>1. Return(t)
    BY <1>3, Zenon DEF Failed, Return
  <2> QED
    BY <1>1, <2>1, ReturnMoves, ReturnInv, Zenon
<1> QED
  BY <1>2, <1>3, Zenon

\* Only the thread's record, the flush and the devices change.
Calm == UNCHANGED <<index, pin_count, contents, extent>>

LEMMA CalmQuiet == Calm => Quiet
BY Zenon DEF Calm, Quiet, contents, extent

LEMMA CalmType ==
    ASSUME TypeOK, Calm, th' \in [Threads -> ThreadState], DevicesType',
           flush_sequence' \subseteq Threads, flush_poisoned' \in BOOLEAN
    PROVE  TypeOK'
BY Zenon DEF TypeOK, Calm, index, contents, extent

LEMMA SameDevices == TypeOK /\ UNCHANGED devices => DevicesType'
BY Zenon DEF TypeOK, DevicesType, devices

LEMMA SameFlushing ==
    TypeOK /\ UNCHANGED flushing => flush_sequence' \subseteq Threads /\ flush_poisoned' \in BOOLEAN
BY Zenon DEF TypeOK, flushing

\* What a flush writes are page images.
LEMMA ImagesType ==
    ASSUME TypeOK, NEW t \in Threads, CopiesOK(th[t])
    PROVE  /\ \A f \in DOMAIN th[t].snapshot : ImageOf(th[t].snapshot[f]) \in Image
           /\ Images(t) \subseteq Image
<1>1. th[t].snapshot \in Copies
  BY ZenonT(60) DEF TypeOK, ThreadState
<1>2. ASSUME NEW f \in DOMAIN th[t].snapshot
      PROVE  ImageOf(th[t].snapshot[f]) \in Image
  <2>1. th[t].snapshot[f] \in [id : SUBSET Pages, lsn : 0 .. MaxLsn]
    BY <1>1 DEF Copies
  <2>2. The(th[t].snapshot[f].id) \in Pages
    BY Zenon DEF CopiesOK, The
  <2> QED
    BY <2>1, <2>2, Zenon DEF ImageOf, Image
<1> QED
  BY <1>2 DEF Images

\* A page of the file is written.
LEMMA WritePageType ==
    ASSUME DevicesType, NEW i \in Image, WritePage(i) \/ WritePageFails(i)
    PROVE  DevicesType'
<1>1. i.id \in Pages /\ {i.lsn} \in Content /\ Torn \in Content
  BY DEF Image, Content
<1> QED
  BY <1>1 DEF DevicesType, WritePage, WritePageFails

\* What another thread relies on is left as it was.
Untouched(u) ==
    /\ th'[u] = th[u]
    /\ OwnedBy(th[u]) \subseteq owned'
    /\ \A f \in OwnedBy(th[u]) : frame_page'[f] = frame_page[f]
    /\ ClaimedBy(th[u]) \subseteq loading'
    /\ \A p \in SoughtBy(th[u]) : page_table'[p] = page_table[p]
    /\ \A p \in Pages : page_table[p] \cap PinnedBy(th[u]) # {} => page_table'[p] = page_table[p]

\* Pages become allocated and known, and known only to those who do not make them.
Grows(u) ==
    /\ allocated \subseteq allocated' /\ known \subseteq known'
    /\ \A p \in th[u].page : p \in known' <=> p \in known
    /\ \A f \in Frames : bytes[f].id # {} => bytes'[f].id # {}

LEMMA UntouchedInv ==
    ASSUME NEW u \in Threads, TypeOK, ThreadInv(th[u]), Untouched(u), Grows(u)
    PROVE  ThreadInv(th[u])'
<1>1. ThreadOK(th[u])'
  BY Zenon DEF ThreadInv, ThreadOK, Untouched
<1>2. CopiesOK(th[u])'
  <2>1. th[u].batch \cup th[u].rest \subseteq Frames
    BY ZenonT(60) DEF TypeOK, ThreadState
  <2> QED
    BY <2>1, ZenonT(60) DEF ThreadInv, CopiesOK, Untouched, Grows
<1>3. OwnOK(th[u])'
  BY Zenon DEF ThreadInv, OwnOK, Untouched
<1>4. SeekOK(th[u])'
  BY DEF ThreadInv, SeekOK, Untouched, Grows
<1>5. PinsOK(th[u])'
  <2>1. ASSUME NEW g \in th[u].held PROVE page_table'[g.page] = {g.frame} /\ g.page \in known'
    <3>1. page_table[g.page] = {g.frame} /\ g.page \in known /\ g.page \in Pages /\ g.frame \in PinnedBy(th[u])
      BY ZenonT(60) DEF ThreadInv, PinsOK, PinnedBy, TypeOK, ThreadState, Guard
    <3> QED
      BY <3>1, Zenon DEF Untouched, Grows
  <2>2. ASSUME th[u].pc \in {"latch", "unload"}, NEW p \in th[u].page, NEW f \in th[u].frame
        PROVE  page_table'[p] = {f}
    <3>1. page_table[p] = {f} /\ p \in Pages /\ f \in PinnedBy(th[u])
      BY <2>2, ZenonT(60) DEF ThreadInv, PinsOK, PinnedBy, TypeOK, ThreadState
    <3> QED
      BY <3>1, Zenon DEF Untouched
  <2> QED
    BY <2>1, <2>2, Zenon DEF PinsOK, Untouched
<1> QED
  BY <1>1, <1>2, <1>3, <1>4, <1>5, ZenonT(60) DEF ThreadInv

\* No page is made or becomes known, no frame gets other bytes.
LEMMA SameGrowth ==
    ASSUME NEW u \in Threads, UNCHANGED <<contents, extent>>
    PROVE  Grows(u)
BY DEF Grows, contents, extent

\* What counting the threads that pin a frame takes; it follows from there
\* being finitely many threads.
Counting ==
    /\ Cardinality(Threads) \in Nat
    /\ \A S \in SUBSET Threads :
          /\ Cardinality(S) \in 0 .. Cardinality(Threads) /\ (Cardinality(S) = 0 <=> S = {})
          /\ \A t \in Threads \ S : Cardinality(S \cup {t}) = Cardinality(S) + 1
          /\ \A t \in S : Cardinality(S \ {t}) = Cardinality(S) - 1
=============================================================================
