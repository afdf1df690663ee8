------------------------ MODULE BufferPoolInvariant -------------------------
(***************************************************************************)
(* The inductive invariants of BufferPool: IInv says who owns, claims, makes *)
(* and pins which frame and page; DInv, on top of it, where the last write *)
(* of a page is.                                                           *)
(***************************************************************************)
EXTENDS BufferPool

-----------------------------------------------------------------------------
(* The inductive invariant.  What a thread has in its hands follows from   *)
(* its record: the frame it owns, the page it looks for a frame for, the   *)
(* page it has claimed in the set of pages being loaded, the page it has   *)
(* allocated and nobody else knows of, and the frames it has pinned.       *)

FlushPcs == {"lease", "snapshot", "write", "clear", "clean"}
FillPcs  == FlushPcs \cup {"evict", "complete", "read", "install"}
SeekPcs  == FillPcs \cup {"acquire"}

OwnedBy(r)   == IF r.pc \in FillPcs THEN r.frame ELSE {}
SoughtBy(r)  == IF r.pc \in SeekPcs THEN r.page ELSE {}
ClaimedBy(r) == IF r.pc = "unload" \/ (r.pc \in SeekPcs /\ r.op = "fetch") THEN r.page ELSE {}
MadeBy(r)    == IF r.op = "new" THEN r.page ELSE {}
PinnedBy(r)  == {g.frame : g \in r.held} \cup (IF r.pc \in {"latch", "unload"} THEN r.frame ELSE {})

Pinners(f) == {t \in Threads : f \in PinnedBy(th[t])}

Opt(o, S) == o = {} \/ \E x \in S : o = {x}

\* Which fields of its record a thread has set, by where it is.
ThreadOK(r) ==
    /\ Opt(r.frame, Frames) /\ Opt(r.page, Pages)
    /\ r.pc \in {"idle", "hold", "lookup", "acquire"} => r.frame = {}
    /\ r.pc \in {"idle", "hold", "unpin"} => r.page = {} /\ r.op = ""
    /\ r.pc \in {"evict", "complete", "read", "install", "latch"} => r.frame # {} /\ r.page # {}
    /\ r.pc \in {"lookup", "acquire", "unload"} => r.page # {}
    /\ r.pc \in FlushPcs => (r.frame # {} <=> r.page # {})
    /\ r.pc = "lookup" => r.op = "fetch"
    /\ r.pc \in SeekPcs => r.page = {} \/ r.op \in {"fetch", "new"}
    /\ \A g, h \in r.held : g.page = h.page => g = h
    /\ \A g \in r.held : g.page \notin r.page

\* A flush copies frames that hold a page.
CopiesOK(r) ==
    /\ r.pc \in FlushPcs => r.todo \subseteq r.batch
    /\ r.pc = "lease" => r.todo = r.batch /\ DOMAIN r.snapshot = {}
    /\ r.pc = "snapshot" => DOMAIN r.snapshot = r.batch \ r.todo
    /\ r.pc \in {"write", "clear", "clean"} => DOMAIN r.snapshot = r.batch
    /\ \A f \in DOMAIN r.snapshot : \E p \in Pages : r.snapshot[f].id = {p}
    /\ r.pc \in FlushPcs => \A f \in r.batch \cup r.rest : bytes[f].id # {}

\* A thread's frame is marked as owned; it is mapped until its eviction is complete.
OwnOK(r) ==
    /\ OwnedBy(r) \subseteq owned
    /\ \A f \in OwnedBy(r) : frame_page[f] = {} <=> r.pc \in {"read", "install"}

\* A page a frame is sought for has none; a new page is known to its maker only.
SeekOK(r) ==
    /\ r.page \subseteq allocated /\ ClaimedBy(r) \subseteq loading
    /\ \A p \in r.page : p \in known <=> r.op # "new"
    /\ \A p \in SoughtBy(r) : page_table[p] = {}

\* A pinned frame holds the page it was pinned for.
PinsOK(r) ==
    /\ \A g \in r.held : page_table[g.page] = {g.frame} /\ g.page \in known
    /\ r.pc \in {"latch", "unload"} => \A p \in r.page, f \in r.frame : page_table[p] = {f}

ThreadInv(r) == ThreadOK(r) /\ CopiesOK(r) /\ OwnOK(r) /\ SeekOK(r) /\ PinsOK(r)

\* No two threads own a frame, load a page or make a page at the same time.
Apart(r, q) ==
    /\ OwnedBy(r) \cap OwnedBy(q) = {}
    /\ ClaimedBy(r) \cap ClaimedBy(q) = {}
    /\ MadeBy(r) \cap MadeBy(q) = {}

Threads2 == \A t, u \in Threads : t # u => Apart(th[t], th[u])

\* page_table and frame_page are inverse partial functions; frames and pages
\* being evicted correspond.
IndexInv ==
    /\ \A p \in Pages, f \in Frames : f \in page_table[p] <=> p \in frame_page[f]
    /\ \A p \in Pages : Opt(page_table[p], Frames)
    /\ \A f \in Frames : Opt(frame_page[f], Pages) /\ Opt(bytes[f].id, Pages)
    /\ \A f \in free_list : f \notin owned /\ frame_page[f] = {}
    /\ \A f \in Frames : replacer[f] # "untracked" => frame_page[f] # {} /\ f \notin owned
    /\ \A f \in Frames : frame_page[f] # {} => bytes[f].id = frame_page[f]
    /\ \A f \in Frames : frame_page[f] \subseteq allocated
    /\ \A f \in owned : frame_page[f] \subseteq evicting
    /\ \A p \in evicting : \E f \in owned : p \in frame_page[f]

\* The pin count is the number of threads that pin the frame.
PinInv ==
    /\ \A f \in Frames : pin_count[f] = Cardinality(Pinners(f))
    /\ \A f \in owned : Pinners(f) = {}
    /\ \A f \in Frames : replacer[f] = "evictable" => Pinners(f) = {}

IInv ==
    /\ TypeOK
    /\ \A t \in Threads : ThreadInv(th[t])
    /\ Threads2
    /\ IndexInv
    /\ PinInv

-----------------------------------------------------------------------------
(* The contents of pages: what a flush has copied, which LSN a page has in *)
(* its frame, in the file and in the double-write buffer.                  *)

LeasePcs == {"snapshot", "write", "clear", "clean"}

Good == mode = "up" /\ ~flush_poisoned

\* The frames a flush has listed and not yet copied.
ListedBy(r) == r.rest \cup (IF r.pc \in {"lease", "snapshot"} THEN r.todo ELSE {})

\* A flush made by an eviction has one frame, the victim.  A frame that is
\* listed stays mapped, and nobody else takes it.
FlushOK(r) ==
    /\ r.pc \notin FlushPcs => r.rest = {}
    /\ r.pc \notin LeasePcs => DOMAIN r.snapshot = {}
    /\ r.pc \in FlushPcs /\ r.frame # {} => r.rest = {} /\ r.batch = r.frame
    /\ \A f \in ListedBy(r) : frame_page[f] # {} /\ (f \in owned => f \in r.frame)

\* Nobody writes to a victim: its copy is exact, and once written it is clean.
VictimOK(r) ==
    \A f \in OwnedBy(r) :
        /\ r.pc = "complete" => dirty_since_lsn[f] = 0
        /\ f \in DOMAIN r.snapshot => r.snapshot[f] = bytes[f]
        /\ r.pc = "clean" /\ f \notin r.todo => dirty_since_lsn[f] = 0

\* What was read is the last that was written.
InstallOK(r) ==
    r.pc = "install" /\ r.op = "fetch" => \A p \in r.page : flush_poisoned \/ r.lsn = current[p]

\* A copy of page p with LSN n is newer than the file, not newer than the
\* page, and is the page if no frame has it dirty.
CopyOK(r, f, p) ==
    LET n == r.snapshot[f].lsn IN
    /\ flushed[p] <= n /\ n <= current[p]
    /\ \A m \in file[p] : m <= n
    /\ \A q \in Pages \ {p} : n # 0 => current[q] # n
    /\ (\A g \in page_table[p] : dirty_since_lsn[g] = 0) => n = current[p]
    /\ r.pc \in {"clear", "clean"} \/ (r.pc = "write" /\ f \notin r.todo) => file[p] = {n}

\* A batch has at most one copy of a page.
SnapOK(r) ==
    \A f \in DOMAIN r.snapshot :
        /\ \A p \in r.snapshot[f].id : CopyOK(r, f, p)
        /\ \A g \in DOMAIN r.snapshot : g # f => r.snapshot[f].id # r.snapshot[g].id
        /\ r.pc = "snapshot" => \A g \in r.todo : r.snapshot[f].id # bytes[g].id

\* The double-write buffer holds the batch while the file is written.
ImagesOf(r) == {ImageOf(r.snapshot[f]) : f \in DOMAIN r.snapshot}

BackedUp(r) == r.pc \in {"write", "clear"} => backup = ImagesOf(r)

DataOK(r) == FlushOK(r) /\ VictimOK(r) /\ InstallOK(r) /\ SnapOK(r) /\ BackedUp(r)

ModeInv ==
    mode # "up" => (\A t \in Threads : th[t].pc = "idle") /\ (\A f \in Frames : frame_page[f] = {})

\* flush_sequence is held by the one thread that flushes, and a pool that
\* was poisoned does not flush.
LeaseInv ==
    /\ \A t \in Threads : t \in flush_sequence <=> th[t].pc \in LeasePcs
    /\ \A t, u \in flush_sequence : t = u
    /\ flush_sequence # {} => Good

\* An LSN is the current one of one page only.
LsnInv ==
    /\ current \in [Pages -> 0 .. MaxLsn] /\ flushed \in [Pages -> 0 .. MaxLsn]
    /\ \A p \in Pages : current[p] <= lsn /\ flushed[p] <= current[p]
    /\ \A p \in Pages : current[p] # 0 => p \in known
    /\ \A p, q \in Pages : current[p] = current[q] /\ p # q => current[p] = 0

\* The last write of a page is in its frame, or in the file if it has none.
KeptInv ==
    Good => /\ \A f \in Frames : \A p \in frame_page[f] : bytes[f].lsn = current[p]
            /\ \A p \in Pages : page_table[p] = {} => file[p] = {current[p]}

FileInv == Good => \A p \in Pages : file[p] # Torn /\ \A n \in file[p] : n <= current[p]

\* A page that is not safely in the file is in the double-write buffer, and
\* nothing there or in the file is older than the last completed flush.
BackupInv ==
    /\ Good /\ file # synced => \E t \in Threads : th[t].pc = "write"
    /\ \A i \in backup : i.lsn >= flushed[i.id]
    /\ \A p \in Pages :
          /\ \A n \in file[p] \cup synced[p] : n >= flushed[p]
          /\ file[p] # synced[p] \/ Torn \in {file[p], synced[p]} => \E i \in backup : i.id = p
    /\ mode = "recovered" => file = synced /\ backup = {}

PageInv == LsnInv /\ KeptInv /\ CleanMeansOnDisk /\ FileInv /\ BackupInv

DInv == ModeInv /\ LeaseInv /\ (\A t \in Threads : DataOK(th[t])) /\ PageInv
=============================================================================
