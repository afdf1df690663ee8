----------------------------- MODULE DurableLog -----------------------------
(* What the write-ahead log promises its users (wal.MD, "Invariants"): an    *)
(* append-only sequence of records of which a prefix is durable.  A crash    *)
(* may take any suffix that is not durable, never anything before it, and    *)
(* truncation forgets only what lies below the bound it was given.           *)
EXTENDS Naturals, Sequences

CONSTANTS
    Record,     \* all records; a record has the fields lsn and len
    First       \* the LSN of the first record

VARIABLES
    records,    \* the records at or above low, in the order of their LSNs
    low,        \* the highest truncation bound so far
    hard        \* every record below this LSN is durable

dvars == <<records, low, hard>>

End(s) == IF s = <<>> THEN low ELSE s[Len(s)].lsn + s[Len(s)].len

DInit == records = <<>> /\ low = First /\ hard = First

(* The LSN of a record is the end of the one before it.                      *)
DAppend(old, new) ==
    /\ Len(new) = Len(old) + 1
    /\ SubSeq(new, 1, Len(old)) = old
    /\ new[Len(new)] \in Record /\ new[Len(new)].lsn = End(old)
    /\ UNCHANGED <<low, hard>>

(* A flush, or a restart that has read the log: all of it is durable.        *)
DHarden(old, new) ==
    /\ hard' = End(old)
    /\ new = old /\ UNCHANGED low

DTruncate(old, new) ==
    /\ low' \in low .. hard
    /\ new = SelectSeq(old, LAMBDA r : r.lsn >= low')
    /\ UNCHANGED hard

DCrash(old, new) ==
    /\ Len(new) <= Len(old)
    /\ new = SubSeq(old, 1, Len(new))
    /\ \A i \in Len(new) + 1 .. Len(old) : old[i].lsn >= hard
    /\ UNCHANGED <<low, hard>>

DNext ==
    \E old \in {records}, new \in {records'} :
        DAppend(old, new) \/ DHarden(old, new) \/ DTruncate(old, new) \/ DCrash(old, new)

DSpec == DInit /\ [][DNext]_dvars
=============================================================================
