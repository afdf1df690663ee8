---------------------------- MODULE DoubleWrite ----------------------------
(***************************************************************************)
(* The data file and the double-write buffer (crates/storage/src/disk.rs,  *)
(* dwb.rs and recover_double_write of recovery.rs).                        *)
(*                                                                         *)
(* A page is known by the LSN of its last change.  file[p] is what a read  *)
(* of page p returns and synced[p] what the device is known to hold; after *)
(* a crash a page on which the two differ may read as either, or as a mix  *)
(* that fails its checksum.  backup is the set of page images the header   *)
(* of the double-write buffer vouches for, i.e. those whose slot has the   *)
(* checksum the header lists.                                              *)
(***************************************************************************)
EXTENDS Naturals, FiniteSets

CONSTANTS NumPages,    \* the number of pages of the file
          MaxLsn       \* bound on the log sequence numbers

ASSUME DoubleWriteBounds == NumPages \in Nat \ {0} /\ MaxLsn \in Nat

VARIABLES file, synced, backup

devices == <<file, synced, backup>>

Pages == 1 .. NumPages

Image == [id : Pages, lsn : 0 .. MaxLsn]

\* A page content is {lsn}; {} is one that fails its checksum.
Torn == {}

Content == {Torn} \cup {{n} : n \in 0 .. MaxLsn}

\* set_len fills the file with zeroes, which pass for a page with LSN 0.
InitDevices ==
    /\ file = [p \in Pages |-> {0}]
    /\ synced = [p \in Pages |-> {0}]
    /\ backup = {}

-----------------------------------------------------------------------------
(* What a flush does to the devices. *)

WriteBatch(images) ==
    /\ backup' = images
    /\ UNCHANGED <<file, synced>>

\* An I/O error may leave any of the slots written.
WriteBatchFails(images) ==
    /\ \E written \in SUBSET images : backup' = written
    /\ UNCHANGED <<file, synced>>

WritePage(image) ==
    /\ file' = [file EXCEPT ![image.id] = {image.lsn}]
    /\ UNCHANGED <<synced, backup>>

\* A failed write_at may have written part of the page.
WritePageFails(image) ==
    /\ \E c \in {file[image.id], {image.lsn}, Torn} : file' = [file EXCEPT ![image.id] = c]
    /\ UNCHANGED <<synced, backup>>

SyncFile ==
    /\ synced' = file
    /\ UNCHANGED <<file, backup>>

ClearBatch ==
    /\ backup' = {}
    /\ UNCHANGED <<file, synced>>

ClearBatchFails ==
    /\ backup' \in {backup, {}}
    /\ UNCHANGED <<file, synced>>

-----------------------------------------------------------------------------
(* A crash, and recover_double_write at the next open. *)

\* Every page keeps what was synced, gets what was written, or is torn.  A
\* batch being written (pending) may have reached any of its slots.
CrashDevices(pending) ==
    /\ \E f \in [Pages -> Content] :
          /\ \A p \in Pages : f[p] \in IF file[p] = synced[p] THEN {file[p]}
                                       ELSE {file[p], synced[p], Torn}
          /\ file' = f
          /\ synced' = f
    /\ backup' \in IF pending = {} THEN {backup} ELSE SUBSET pending

Repairable == {image \in backup : file[image.id] = Torn}

\* The slot of a torn page is written over it.
RestorePage ==
    /\ \E image \in Repairable : file' = [file EXCEPT ![image.id] = {image.lsn}]
    /\ UNCHANGED <<synced, backup>>

SyncRestored ==
    /\ Repairable = {}
    /\ file # synced
    /\ SyncFile

\* The batch goes once the repairs are synced.
ClearRestored ==
    /\ Repairable = {}
    /\ file = synced
    /\ ClearBatch

DevicesType ==
    /\ file \in [Pages -> Content]
    /\ synced \in [Pages -> Content]
    /\ backup \subseteq Image
=============================================================================
