------------------------------ MODULE MemTable ------------------------------
(***************************************************************************)
(* internal/memtable: a sorted map from key to its newest entry.  The      *)
(* engine sees the set of its entries, at most one for each key; the skip  *)
(* list that holds them is module SkipList.                                *)
(***************************************************************************)
EXTENDS Entries

\* NewMemTable and Clear.
EmptyMem == {}

(***************************************************************************)
(* set() for every entry of a frame, or of a whole replay.  It replaces a  *)
(* key's entry unless the new sequence number is older, so whatever the    *)
(* order of the calls the newest entry of each key is what stays.          *)
(***************************************************************************)
MemApply(m, E) == Top(m \cup E)

MemHas(m, k) == k \in KeysOf(m)

MemGet(m, k) == (CHOOSE e \in m : e.key = k).val
=============================================================================
