------------------------------ MODULE MCBTree ------------------------------
(* Small instances of BTree for TLC.                                         *)
EXTENDS BTree

(* Pages of six units, entries of two and five units (31 and 32 of one key),*)
(* and one entry whose key is too large for a page.                          *)
MCSize == 21 :> 2 @@ 31 :> 5 @@ 32 :> 2 @@ 41 :> 2 @@ 51 :> 6
MCEntries == DOMAIN MCSize

(* A full scan, a scan from a start to an end key, and a get of the key that *)
(* has two entries.                                                          *)
MCQueries == {<<"range", 0, Top>>, <<"range", 20, 40>>, <<"get", 30, 40>>}
=============================================================================
