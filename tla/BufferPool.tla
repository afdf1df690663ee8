----------------------------- MODULE BufferPool -----------------------------
(***************************************************************************)
(* The buffer pool (crates/storage/src/buffer.rs and replacer.rs) over the *)
(* data file and the double-write buffer of DoubleWrite.  Threads fetch    *)
(* pages, write them, allocate new ones and flush; every critical section  *)
(* of the pool's index mutex, of a frame latch and of flush_sequence, and  *)
(* every device call, is one step, so the threads interleave between them. *)
(* A wait that the code bounds by a deadline may time out at any moment.   *)
(*                                                                         *)
(* Options are sets: {} is None and {x} is Some(x).                        *)
(***************************************************************************)
EXTENDS DoubleWrite

CONSTANTS Threads, Frames,
          Allocated,     \* the pages allocated at the start
          Cached,        \* the pages the pool holds, clean, at the start
          DwbCapacity,   \* slots of the double-write buffer
          MaxHeld,       \* bound: guards a thread holds at once
          MaxOps,        \* bound: operations started
          MaxFaults,     \* bound: failed device calls
          MaxCrashes,    \* bound: crashes
          StaleFlush     \* whether an eviction and another thread's flush may share a frame

ASSUME BufferPoolBounds ==
    /\ Cached \subseteq Allocated /\ Allocated \subseteq Pages
    /\ Cardinality(Cached) <= Cardinality(Frames)
    /\ IsFiniteSet(Threads)
    /\ DwbCapacity \in Nat \ {0}
    /\ {MaxHeld, MaxOps, MaxFaults, MaxCrashes} \subseteq Nat
    /\ StaleFlush \in BOOLEAN

VARIABLES page_table, frame_page, free_list, replacer, owned, loading, evicting,
          pin_count, dirty_since_lsn, bytes,
          flush_sequence, flush_poisoned,
          allocated, known, lsn,     \* known: the pages whose id new_page has given out
          th,                        \* what each thread is doing
          mode,                      \* "up", "restoring" or "recovered"
          ops, faults, crashes,
          current, flushed           \* history: the last LSN written to, and flushed from, each page

index == <<page_table, frame_page, free_list, replacer, owned, loading, evicting>>
contents == <<dirty_since_lsn, bytes>>
flushing == <<flush_sequence, flush_poisoned>>
counts == <<ops, faults, crashes>>
extent == <<allocated, known, lsn>>
history == <<current, flushed>>
vars == <<index, pin_count, contents, flushing, extent, th, mode, counts, history, devices>>

Idle == [pc |-> "idle", op |-> "", page |-> {}, frame |-> {}, lsn |-> 0,
         batch |-> {}, rest |-> {}, todo |-> {}, snapshot |-> <<>>, held |-> {}]

Guard == [frame : Frames, page : Pages, write : BOOLEAN]

\* The pool as BufferPool::new makes it, once it has read the pages in Cached.
Init ==
    /\ InitDevices
    /\ page_table \in {m \in [Pages -> {{}} \cup {{f} : f \in Frames}] :
                         /\ \A p \in Pages : m[p] # {} <=> p \in Cached
                         /\ \A p, q \in Cached : m[p] = m[q] => p = q}
    /\ frame_page = [f \in Frames |-> {p \in Pages : f \in page_table[p]}]
    /\ free_list = {f \in Frames : frame_page[f] = {}}
    /\ replacer = [f \in Frames |-> IF f \in free_list THEN "untracked" ELSE "evictable"]
    /\ bytes = [f \in Frames |-> [id |-> frame_page[f], lsn |-> 0]]
    /\ owned = {} /\ loading = {} /\ evicting = {}
    /\ pin_count = [f \in Frames |-> 0]
    /\ dirty_since_lsn = [f \in Frames |-> 0]
    /\ flush_sequence = {}
    /\ flush_poisoned = FALSE
    /\ allocated = Allocated /\ known = Allocated
    /\ lsn = 0
    /\ th = [t \in Threads |-> Idle]
    /\ mode = "up"
    /\ ops = 0 /\ faults = 0 /\ crashes = 0
    /\ current = [p \in Pages |-> 0]
    /\ flushed = [p \in Pages |-> 0]

-----------------------------------------------------------------------------
(* Threads and latches. *)

At(t, pc) == mode = "up" /\ th[t].pc = pc

Goto(t, pc) == th' = [th EXCEPT ![t].pc = pc]

\* An operation ends: the thread keeps the guards it holds.
Caller(t) == [Idle EXCEPT !.pc = IF th[t].held = {} THEN "idle" ELSE "hold", !.held = th[t].held]

Return(t) == th' = [th EXCEPT ![t] = Caller(t)]

The(option) == CHOOSE x \in option : TRUE

Latched(f) == {g \in UNION {th[t].held : t \in Threads} : g.frame = f}

ReadLatchFree(f) == \A g \in Latched(f) : ~g.write

WriteLatchFree(f) == Latched(f) = {}

Fault == faults < MaxFaults /\ faults' = faults + 1 /\ UNCHANGED <<ops, crashes>>

Begin(t) ==
    /\ mode = "up"
    /\ th[t].pc \in {"idle", "hold"}
    /\ ops < MaxOps
    /\ ops' = ops + 1
    /\ UNCHANGED <<faults, crashes>>

\* A thread latches pages in one order only, as a descent of the tree or a
\* walk along a heap does, and asks for pages whose id it has found.
StartFetch(t) ==
    /\ Begin(t)
    /\ Cardinality(th[t].held) < MaxHeld
    /\ \E p \in known :
          /\ \A g \in th[t].held : g.page < p
          /\ th' = [th EXCEPT ![t].pc = "lookup", ![t].op = "fetch", ![t].page = {p}]
    /\ UNCHANGED <<index, pin_count, contents, flushing, extent, mode, history, devices>>

\* new_page: the page is allocated and AllocPage logged before a frame is sought.
StartNew(t) ==
    /\ Begin(t)
    /\ Cardinality(th[t].held) < MaxHeld
    /\ lsn < MaxLsn
    /\ lsn' = lsn + 1
    /\ \E p \in Pages \ allocated :
          /\ \A q \in Pages \ allocated : p <= q
          /\ allocated' = allocated \cup {p}
          /\ th' = [th EXCEPT ![t].pc = "acquire", ![t].op = "new", ![t].page = {p}, ![t].lsn = lsn']
    /\ UNCHANGED <<index, pin_count, contents, flushing, known, mode, history, devices>>

-----------------------------------------------------------------------------
(* fetch_frame: the lookup under the index mutex. *)

Pinned(f) == [pin_count EXCEPT ![f] = @ + 1]

\* pin_locked: record_access creates the replacer's entry, set_evictable clears it.
Tracked(f) == [replacer EXCEPT ![f] = "pinned"]

Resident(p) == page_table[p] # {}

\* The mutated form: a page being evicted is pinned where it still is.
PinEvicting(t) ==
    /\ At(t, "lookup")
    /\ \E p \in th[t].page : \E f \in page_table[p] :
          /\ pin_count' = Pinned(f)
          /\ replacer' = Tracked(f)
          /\ th' = [th EXCEPT ![t].pc = "latch", ![t].frame = {f}]
    /\ UNCHANGED <<page_table, frame_page, free_list, owned, loading, evicting, contents,
                   flushing, extent, mode, counts, history, devices>>

PinCached(t) ==
    /\ At(t, "lookup")
    /\ \E p \in th[t].page \ evicting : \E f \in page_table[p] :
          /\ pin_count' = Pinned(f)
          /\ replacer' = Tracked(f)
          /\ th' = [th EXCEPT ![t].pc = "latch", ![t].frame = {f}]
    /\ UNCHANGED <<page_table, frame_page, free_list, owned, loading, evicting, contents,
                   flushing, extent, mode, counts, history, devices>>

ClaimLoad(t) ==
    /\ At(t, "lookup")
    /\ \E p \in th[t].page \ (evicting \cup loading) :
          /\ ~Resident(p)
          /\ loading' = loading \cup {p}
          /\ Goto(t, "acquire")
    /\ UNCHANGED <<page_table, frame_page, free_list, replacer, owned, evicting, pin_count,
                   contents, flushing, extent, mode, counts, history, devices>>

LookupTimesOut(t) ==
    /\ At(t, "lookup")
    /\ \E p \in th[t].page : p \in evicting \/ (~Resident(p) /\ p \in loading)
    /\ Return(t)
    /\ UNCHANGED <<index, pin_count, contents, flushing, extent, mode, counts, history, devices>>

\* The claim is given up, and every waiter of page_installed looks again.
Unload(t) ==
    /\ At(t, "unload")
    /\ loading' = loading \ th[t].page
    /\ IF th[t].frame = {} THEN Return(t) ELSE Goto(t, "latch")
    /\ UNCHANGED <<page_table, frame_page, free_list, replacer, owned, evicting, pin_count,
                   contents, flushing, extent, mode, counts, history, devices>>

\* An operation fails after its frame was given back.
Failed(t) ==
    th' = [th EXCEPT ![t] = IF @.op = "fetch" THEN [Caller(t) EXCEPT !.pc = "unload", !.page = th[t].page]
                            ELSE Caller(t)]

-----------------------------------------------------------------------------
(* acquire_free_frame *)

Acquired(t, f, pc) ==
    /\ owned' = owned \cup {f}
    /\ th' = [th EXCEPT ![t].pc = pc, ![t].frame = {f}]

\* A new page has no content to read.
Filling(t) == IF th[t].op = "new" THEN "install" ELSE "read"

TakeFree(t) ==
    /\ At(t, "acquire")
    /\ \E f \in free_list :
          /\ free_list' = free_list \ {f}
          /\ Acquired(t, f, Filling(t))
    /\ UNCHANGED <<page_table, frame_page, replacer, loading, evicting, pin_count, contents,
                   flushing, extent, mode, counts, history, devices>>

\* The frames some flush has listed and not yet copied.
Listed == UNION {th[t].rest \cup (IF th[t].pc \in {"lease", "snapshot"} THEN th[t].todo ELSE {}) :
                 t \in Threads}

Evictable == {f \in Frames : replacer[f] = "evictable" /\ (StaleFlush \/ f \notin Listed)}

\* While a flush is in flight a clean victim is preferred; which of the
\* candidates LRU-K ranks first is left open.
Victims ==
    LET clean == {f \in Evictable : dirty_since_lsn[f] = 0}
    IN  IF flush_sequence # {} /\ clean # {} THEN clean ELSE Evictable

TakeVictim(t) ==
    /\ At(t, "acquire")
    /\ free_list = {}
    /\ \E f \in Victims :
          /\ replacer' = [replacer EXCEPT ![f] = "untracked"]
          /\ evicting' = evicting \cup frame_page[f]
          /\ Acquired(t, f, "evict")
    /\ UNCHANGED <<page_table, frame_page, free_list, loading, pin_count, contents, flushing,
                   extent, mode, counts, history, devices>>

AcquireTimesOut(t) ==
    /\ At(t, "acquire")
    /\ free_list = {} /\ Victims = {}
    /\ Failed(t)
    /\ UNCHANGED <<index, pin_count, contents, flushing, extent, mode, counts, history, devices>>

\* The victim is written first if it is dirty.
Flush(t, frames, rest) ==
    th' = [th EXCEPT ![t].pc = "lease", ![t].batch = frames, ![t].todo = frames, ![t].rest = rest,
                     ![t].snapshot = <<>>]

\* The mutated form: the victim is dropped as it is.
DropVictim(t) ==
    /\ At(t, "evict")
    /\ Goto(t, "complete")
    /\ UNCHANGED <<index, pin_count, contents, flushing, extent, mode, counts, history, devices>>

CheckVictim(t) ==
    /\ At(t, "evict")
    /\ \E f \in th[t].frame : IF dirty_since_lsn[f] # 0 THEN Flush(t, {f}, {}) ELSE Goto(t, "complete")
    /\ UNCHANGED <<index, pin_count, contents, flushing, extent, mode, counts, history, devices>>

CompleteEviction(t) ==
    /\ At(t, "complete")
    /\ \E f \in th[t].frame : \E p \in frame_page[f] :
          /\ page_table' = [page_table EXCEPT ![p] = {}]
          /\ frame_page' = [frame_page EXCEPT ![f] = {}]
          /\ evicting' = evicting \ {p}
    /\ Goto(t, Filling(t))
    /\ UNCHANGED <<free_list, replacer, owned, loading, pin_count, contents, flushing, extent,
                   mode, counts, history, devices>>

AbortEviction(t) ==
    /\ \E f \in th[t].frame :
          /\ owned' = owned \ {f}
          /\ evicting' = evicting \ frame_page[f]
          /\ replacer' = [replacer EXCEPT ![f] = "evictable"]
    /\ UNCHANGED <<page_table, frame_page, free_list, loading>>

-----------------------------------------------------------------------------
(* The page is read and published. *)

\* release_owned_frame
GiveBack(t) ==
    /\ owned' = owned \ th[t].frame
    /\ free_list' = free_list \cup th[t].frame

ReadPage(t) ==
    /\ At(t, "read")
    /\ \E p \in th[t].page : \E n \in file[p] :
          th' = [th EXCEPT ![t].pc = "install", ![t].lsn = n]
    /\ UNCHANGED <<index, pin_count, contents, flushing, extent, mode, counts, history, devices>>

\* An I/O error, or a page that fails its checksum.
ReadFails(t) ==
    /\ At(t, "read")
    /\ IF \E p \in th[t].page : file[p] = Torn THEN UNCHANGED counts ELSE Fault
    /\ GiveBack(t)
    /\ Failed(t)
    /\ UNCHANGED <<page_table, frame_page, replacer, loading, evicting, pin_count, contents,
                   flushing, extent, mode, history, devices>>

\* try_install.  A page read from disk is installed clean; a new page has
\* LSN 0 and is dirty since its AllocPage record.
TryInstall(t) ==
    /\ At(t, "install")
    /\ \E p \in th[t].page, f \in th[t].frame :
          LET next == IF th[t].op = "new" THEN "latch" ELSE "unload"
          IN  IF Resident(p)
              THEN /\ GiveBack(t)
                   /\ pin_count' = Pinned(The(page_table[p]))
                   /\ replacer' = Tracked(The(page_table[p]))
                   /\ th' = [th EXCEPT ![t].pc = next, ![t].frame = page_table[p]]
                   /\ UNCHANGED <<page_table, frame_page, contents>>
              ELSE /\ bytes' = [bytes EXCEPT ![f] =
                                  [id |-> {p}, lsn |-> IF th[t].op = "new" THEN 0 ELSE th[t].lsn]]
                   /\ dirty_since_lsn' = [dirty_since_lsn EXCEPT ![f] =
                                            IF th[t].op = "new" THEN th[t].lsn ELSE 0]
                   /\ page_table' = [page_table EXCEPT ![p] = {f}]
                   /\ frame_page' = [frame_page EXCEPT ![f] = {p}]
                   /\ owned' = owned \ {f}
                   /\ pin_count' = Pinned(f)
                   /\ replacer' = Tracked(f)
                   /\ Goto(t, next)
                   /\ UNCHANGED free_list
    /\ UNCHANGED <<loading, evicting, flushing, extent, mode, counts, history, devices>>

-----------------------------------------------------------------------------
(* Guards. *)

\* write_guard and read_guard
Latch(t) ==
    /\ At(t, "latch")
    /\ known' = known \cup th[t].page
    /\ \E f \in th[t].frame, p \in th[t].page, write \in BOOLEAN :
          /\ th[t].op = "new" => write
          /\ IF write THEN WriteLatchFree(f) ELSE ReadLatchFree(f)
          /\ th' = [th EXCEPT ![t] = [Idle EXCEPT !.pc = "hold",
                       !.held = th[t].held \cup {[frame |-> f, page |-> p, write |-> write]}]]
    /\ UNCHANGED <<index, pin_count, contents, flushing, allocated, lsn, mode, counts, history, devices>>

\* PageWriteGuard::write and stamp_write
Write(t) ==
    /\ At(t, "hold")
    /\ lsn < MaxLsn
    /\ lsn' = lsn + 1
    /\ \E g \in th[t].held :
          /\ g.write
          /\ bytes' = [bytes EXCEPT ![g.frame].lsn = lsn']
          /\ dirty_since_lsn' = [dirty_since_lsn EXCEPT ![g.frame] = IF @ = 0 THEN lsn' ELSE @]
          /\ current' = [current EXCEPT ![g.page] = lsn']
    /\ UNCHANGED <<index, pin_count, flushing, allocated, known, th, mode, counts, flushed, devices>>

\* The latch is released and the pin count decremented, without the index mutex.
DropGuard(t) ==
    /\ At(t, "hold")
    /\ \E g \in th[t].held :
          /\ pin_count' = [pin_count EXCEPT ![g.frame] = @ - 1]
          /\ LET held == th[t].held \ {g}
                 pc == IF pin_count[g.frame] = 1 THEN "unpin" ELSE IF held = {} THEN "idle" ELSE "hold"
             IN  th' = [th EXCEPT ![t].held = held, ![t].pc = pc,
                                  ![t].frame = IF pc = "unpin" THEN {g.frame} ELSE {}]
    /\ UNCHANGED <<index, contents, flushing, extent, mode, counts, history, devices>>

\* set_evictable changes an entry of the replacer and never makes one.
MadeEvictable(f) == [replacer EXCEPT ![f] = IF @ = "untracked" THEN @ ELSE "evictable"]

\* The mutated form: the pin count is not read again under the mutex.
UnpinUnchecked(t) ==
    /\ At(t, "unpin")
    /\ \E f \in th[t].frame : replacer' = MadeEvictable(f)
    /\ Return(t)
    /\ UNCHANGED <<page_table, frame_page, free_list, owned, loading, evicting, pin_count, contents,
                   flushing, extent, mode, counts, history, devices>>

Unpin(t) ==
    /\ At(t, "unpin")
    /\ \E f \in th[t].frame :
          replacer' = IF pin_count[f] = 0 /\ f \notin owned THEN MadeEvictable(f) ELSE replacer
    /\ Return(t)
    /\ UNCHANGED <<page_table, frame_page, free_list, owned, loading, evicting, pin_count, contents,
                   flushing, extent, mode, counts, history, devices>>

-----------------------------------------------------------------------------
(* flush_page and flush_all list frames under the index mutex; the flush   *)
(* itself, flush_pages_before, runs without it.                            *)

DirtyFrames == {f \in Frames : frame_page[f] # {} /\ dirty_since_lsn[f] # 0}

\* The code lists a frame that is being evicted like any other.  A run or a
\* theorem without StaleFlush leaves that out.
Listable(f) == StaleFlush \/ f \notin owned

StartFlushPage(t) ==
    /\ Begin(t)
    /\ th[t].held = {}
    /\ \E f \in DirtyFrames : Listable(f) /\ Flush(t, {f}, {})
    /\ UNCHANGED <<index, pin_count, contents, flushing, extent, mode, history, devices>>

\* chunks(capacity)
Chunks(frames) ==
    {c \in SUBSET frames : Cardinality(c) = DwbCapacity \/ (c = frames /\ Cardinality(c) <= DwbCapacity)}

StartFlushAll(t) ==
    /\ Begin(t)
    /\ th[t].held = {}
    /\ DirtyFrames # {} /\ \A f \in DirtyFrames : Listable(f)
    /\ \E c \in Chunks(DirtyFrames) : Flush(t, c, DirtyFrames \ c)
    /\ UNCHANGED <<index, pin_count, contents, flushing, extent, mode, history, devices>>

\* A flush made by an eviction has a frame to give back; one made by
\* flush_page or flush_all has none.
ForEviction(t) == th[t].frame # {}

FlushFails(t) ==
    IF ForEviction(t) THEN AbortEviction(t) /\ Failed(t) ELSE Return(t) /\ UNCHANGED index

\* begin_flush
TakeLease(t) ==
    /\ At(t, "lease")
    /\ flush_sequence = {}
    /\ ~flush_poisoned
    /\ flush_sequence' = {t}
    /\ Goto(t, "snapshot")
    /\ UNCHANGED <<index, pin_count, contents, flush_poisoned, extent, mode, counts, history, devices>>

Poisoned(t) ==
    /\ At(t, "lease")
    /\ flush_poisoned
    /\ FlushFails(t)
    /\ UNCHANGED <<pin_count, contents, flushing, extent, mode, counts, history, devices>>

\* The mutated form: an eviction waits for the lease without a deadline.
LeaseNeverTimesOut(t) == FALSE

\* Only an eviction waits with a deadline.
LeaseTimesOut(t) ==
    /\ At(t, "lease")
    /\ flush_sequence # {}
    /\ ForEviction(t)
    /\ FlushFails(t)
    /\ UNCHANGED <<pin_count, contents, flushing, extent, mode, counts, history, devices>>

\* Each frame is copied under its read latch; the copy carries the id of the
\* page whose bytes the frame holds.
Snapshot(t) ==
    /\ At(t, "snapshot")
    /\ \E f \in th[t].todo :
          /\ ReadLatchFree(f)
          /\ th' = [th EXCEPT ![t].todo = @ \ {f},
                              ![t].snapshot = [g \in DOMAIN @ \cup {f} |-> IF g = f THEN bytes[f] ELSE @[g]]]
    /\ UNCHANGED <<index, pin_count, contents, flushing, extent, mode, counts, history, devices>>

ImageOf(page) == [id |-> The(page.id), lsn |-> page.lsn]

Images(t) == {ImageOf(th[t].snapshot[f]) : f \in DOMAIN th[t].snapshot}

Copied(t) == At(t, "snapshot") /\ th[t].todo = {}

Backup(t) ==
    /\ Copied(t)
    /\ WriteBatch(Images(t))
    /\ th' = [th EXCEPT ![t].pc = "write", ![t].todo = th[t].batch]
    /\ UNCHANGED <<index, pin_count, contents, flushing, extent, mode, counts, history>>

\* The log cannot be flushed, or the batch cannot be written: the pool is not poisoned.
BackupFails(t) ==
    /\ Copied(t)
    /\ Fault
    /\ WriteBatchFails(Images(t)) \/ UNCHANGED devices
    /\ flush_sequence' = {}
    /\ FlushFails(t)
    /\ UNCHANGED <<pin_count, contents, flush_poisoned, extent, mode, history>>

WriteNext(t) ==
    /\ At(t, "write")
    /\ \E f \in th[t].todo :
          /\ WritePage(ImageOf(th[t].snapshot[f]))
          /\ th' = [th EXCEPT ![t].todo = @ \ {f}]
    /\ UNCHANGED <<index, pin_count, contents, flushing, extent, mode, counts, history>>

Sync(t) ==
    /\ At(t, "write")
    /\ th[t].todo = {}
    /\ SyncFile
    /\ Goto(t, "clear")
    /\ UNCHANGED <<index, pin_count, contents, flushing, extent, mode, counts, history>>

Clear(t) ==
    /\ At(t, "clear")
    /\ ClearBatch
    /\ th' = [th EXCEPT ![t].pc = "clean", ![t].todo = th[t].batch]
    /\ flushed' = [p \in Pages |-> IF file[p] \in {synced[p]} \ {Torn} THEN The(file[p])
                                    ELSE flushed[p]]
    /\ UNCHANGED <<index, pin_count, contents, flushing, extent, mode, counts, current>>

\* The mutated form: the error is returned without poisoning the pool.
FlushBreaksQuietly(t) ==
    /\ At(t, "write") \/ At(t, "clear")
    /\ Fault
    /\ \/ \E f \in th[t].todo : At(t, "write") /\ WritePageFails(ImageOf(th[t].snapshot[f]))
       \/ At(t, "write") /\ th[t].todo = {} /\ UNCHANGED devices
       \/ At(t, "clear") /\ ClearBatchFails
    /\ flush_sequence' = {}
    /\ FlushFails(t)
    /\ UNCHANGED <<pin_count, contents, flush_poisoned, extent, mode, history>>

\* A page write, the sync or the clearing fails: the pool is poisoned, so
\* that the batch recovery may need is never overwritten.
FlushBreaks(t) ==
    /\ At(t, "write") \/ At(t, "clear")
    /\ Fault
    /\ \/ \E f \in th[t].todo : At(t, "write") /\ WritePageFails(ImageOf(th[t].snapshot[f]))
       \/ At(t, "write") /\ th[t].todo = {} /\ UNCHANGED devices
       \/ At(t, "clear") /\ ClearBatchFails
    /\ flush_poisoned' = TRUE
    /\ flush_sequence' = {}
    /\ FlushFails(t)
    /\ UNCHANGED <<pin_count, contents, extent, mode, history>>

\* The mutated form: every flushed frame is marked clean.
CleanAlways(t) ==
    /\ At(t, "clean")
    /\ \E f \in th[t].todo :
          /\ WriteLatchFree(f)
          /\ dirty_since_lsn' = [dirty_since_lsn EXCEPT ![f] = 0]
          /\ th' = [th EXCEPT ![t].todo = @ \ {f}]
    /\ UNCHANGED <<index, pin_count, bytes, flushing, extent, mode, counts, history, devices>>

\* A frame is clean again if its page was not written since it was copied.
CleanNext(t) ==
    /\ At(t, "clean")
    /\ \E f \in th[t].todo :
          /\ WriteLatchFree(f)
          /\ dirty_since_lsn' = [dirty_since_lsn EXCEPT ![f] =
                                   IF bytes[f].lsn = th[t].snapshot[f].lsn THEN 0 ELSE @]
          /\ th' = [th EXCEPT ![t].todo = @ \ {f}]
    /\ UNCHANGED <<index, pin_count, bytes, flushing, extent, mode, counts, history, devices>>

\* The lease is dropped; an eviction goes on, flush_all takes its next chunk.
EndFlush(t) ==
    /\ At(t, "clean")
    /\ th[t].todo = {}
    /\ flush_sequence' = {}
    /\ IF ForEviction(t)
       THEN th' = [th EXCEPT ![t].pc = "complete", ![t].batch = {}, ![t].snapshot = <<>>]
       ELSE IF th[t].rest = {} THEN Return(t)
            ELSE \E c \in Chunks(th[t].rest) : Flush(t, c, th[t].rest \ c)
    /\ UNCHANGED <<index, pin_count, contents, flush_poisoned, extent, mode, counts, history, devices>>

-----------------------------------------------------------------------------
(* A crash loses the pool; recover_double_write runs at the next open,     *)
(* before any page is read.  The replay of the log is Recovery's subject.  *)

Crash ==
    /\ mode \in {"up", "restoring"}
    /\ crashes < MaxCrashes
    /\ crashes' = crashes + 1
    /\ CrashDevices(UNION {IF Copied(t) THEN Images(t) ELSE {} : t \in Threads})
    /\ mode' = "restoring"
    /\ th' = [t \in Threads |-> Idle]
    /\ page_table' = [p \in Pages |-> {}]
    /\ frame_page' = [f \in Frames |-> {}]
    /\ free_list' = Frames
    /\ replacer' = [f \in Frames |-> "untracked"]
    /\ owned' = {} /\ loading' = {} /\ evicting' = {}
    /\ pin_count' = [f \in Frames |-> 0]
    /\ dirty_since_lsn' = [f \in Frames |-> 0]
    /\ bytes' = [f \in Frames |-> [id |-> {}, lsn |-> 0]]
    /\ flush_sequence' = {}
    /\ flush_poisoned' = FALSE
    /\ UNCHANGED <<allocated, known, lsn, ops, faults, history>>

pool == <<index, pin_count, contents, flushing, extent, th, counts, history>>

Restore ==
    /\ mode = "restoring"
    /\ \/ RestorePage /\ UNCHANGED mode
       \/ SyncRestored /\ UNCHANGED mode
       \/ ClearRestored /\ mode' = "recovered"
    /\ UNCHANGED pool

Fetching(t) == StartFetch(t) \/ StartNew(t) \/ PinCached(t) \/ ClaimLoad(t) \/ LookupTimesOut(t) \/ Unload(t)
Acquiring(t) == TakeFree(t) \/ TakeVictim(t) \/ AcquireTimesOut(t) \/ CheckVictim(t) \/ CompleteEviction(t)
                \/ ReadPage(t) \/ ReadFails(t) \/ TryInstall(t)
Using(t) == Latch(t) \/ Write(t) \/ DropGuard(t) \/ Unpin(t)
Flushing(t) == StartFlushPage(t) \/ StartFlushAll(t) \/ TakeLease(t) \/ Poisoned(t) \/ LeaseTimesOut(t)
               \/ Snapshot(t) \/ Backup(t) \/ BackupFails(t) \/ WriteNext(t) \/ Sync(t) \/ Clear(t)
               \/ FlushBreaks(t) \/ CleanNext(t) \/ EndFlush(t)

Step(t) == Fetching(t) \/ Acquiring(t) \/ Using(t) \/ Flushing(t)

\* Nothing is asked of the pool any more.
Quiescent ==
    /\ \/ mode = "recovered"
       \/ mode = "up" /\ ops = MaxOps /\ \A t \in Threads : th[t] = Idle
    /\ UNCHANGED vars

Next == (\E t \in Threads : Step(t)) \/ Crash \/ Restore \/ Quiescent

Spec == Init /\ [][Next]_vars

\* The steps that carry on what was started.
Work(t) == Acquiring(t) \/ Unload(t) \/ PinCached(t) \/ ClaimLoad(t) \/ LookupTimesOut(t) \/ Latch(t)
           \/ DropGuard(t) \/ Unpin(t) \/ TakeLease(t) \/ Poisoned(t) \/ LeaseTimesOut(t) \/ Snapshot(t)
           \/ Backup(t) \/ WriteNext(t) \/ Sync(t) \/ Clear(t) \/ CleanNext(t) \/ EndFlush(t)

-----------------------------------------------------------------------------
(* Properties. *)

Copies == UNION {[D -> [id : SUBSET Pages, lsn : 0 .. MaxLsn]] : D \in SUBSET Frames}

ThreadState ==
    [pc : {"idle", "lookup", "acquire", "evict", "lease", "snapshot", "write", "clear", "clean",
           "complete", "read", "install", "unload", "latch", "hold", "unpin"},
     op : {"", "fetch", "new"}, page : SUBSET Pages, frame : SUBSET Frames, lsn : 0 .. MaxLsn,
     batch : SUBSET Frames, rest : SUBSET Frames, todo : SUBSET Frames,
     snapshot : Copies,
     held : SUBSET Guard]

\* Every variable has the type of the field it models.
TypeOK ==
    /\ DevicesType
    /\ page_table \in [Pages -> SUBSET Frames]
    /\ frame_page \in [Frames -> SUBSET Pages]
    /\ replacer \in [Frames -> {"untracked", "pinned", "evictable"}]
    /\ free_list \subseteq Frames /\ owned \subseteq Frames
    /\ loading \subseteq Pages /\ evicting \subseteq Pages
    /\ known \subseteq allocated /\ allocated \subseteq Pages /\ lsn \in 0 .. MaxLsn
    /\ pin_count \in [Frames -> 0 .. Cardinality(Threads)]
    /\ dirty_since_lsn \in [Frames -> 0 .. MaxLsn]
    /\ bytes \in [Frames -> [id : SUBSET Pages, lsn : 0 .. MaxLsn]]
    /\ flush_sequence \subseteq Threads
    /\ flush_poisoned \in BOOLEAN
    /\ th \in [Threads -> ThreadState]

\* What assert_frame_accounting asserts, with the exception an eviction makes
\* (its victim stays mapped until complete_eviction), and what unpin_frame's
\* re-check of owned is for: the replacer offers only mapped frames that no
\* guard pins and no thread owns, and a free frame is in nobody's hands.
FrameAccounting ==
    /\ TypeOK
    /\ \A p \in Pages, f \in Frames : f \in page_table[p] <=> p \in frame_page[f]
    /\ \A p \in Pages : Cardinality(page_table[p]) <= 1
    /\ \A f \in free_list : f \notin owned /\ frame_page[f] = {} /\ replacer[f] = "untracked"
    /\ \A f \in owned : frame_page[f] \subseteq evicting /\ pin_count[f] = 0
    /\ \A f \in Frames : replacer[f] = "evictable" =>
          frame_page[f] # {} /\ pin_count[f] = 0 /\ f \notin owned \cup free_list

\* A guard gives access to the page it was asked for, for as long as it is
\* held: eviction, loading and installation by other threads never put
\* another page into its frame.
GuardKeepsItsPage ==
    \A t \in Threads : \A g \in th[t].held :
        bytes[g.frame].id = {g.page} /\ page_table[g.page] = {g.frame} /\ g.page \notin evicting

\* The last write of a page is never lost while the database is up: it is
\* in the page's frame, or on disk when the page has no frame, whatever
\* evictions, loads and flushes ran since.  (A poisoned pool may leave a torn
\* page to the next open.)
NoLostWrite ==
    (mode = "up" /\ ~flush_poisoned) => \A p \in Pages :
        IF Resident(p) THEN bytes[The(page_table[p])].lsn = current[p]
        ELSE file[p] = {current[p]}

\* A frame counted as clean, and so evicted without a flush, holds what the
\* disk holds: flush_pages_before clears dirty_since_lsn only when the page
\* has not changed since the copy it wrote.
CleanMeansOnDisk ==
    \A f \in Frames : \A p \in frame_page[f] :
        dirty_since_lsn[f] = 0 => flush_poisoned \/ file[p] = {bytes[f].lsn}

\* After a crash at any moment, one inside recover_double_write included, no
\* page is torn and none is older than its last completed flush.
RecoveredWhole ==
    mode = "recovered" => \A p \in Pages : file[p] # Torn /\ \A n \in file[p] : n >= flushed[p]

\* The pool is never stuck, even when a flush waits for the latch of a thread
\* whose own eviction waits for that flush: the deadline begin_flush is given
\* by an eviction breaks the cycle.
SomeThreadCanRun ==
    (\E t \in Threads : th[t].pc # "idle") => \E t \in Threads : ENABLED Work(t)
=============================================================================
