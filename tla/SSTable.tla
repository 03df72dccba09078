------------------------------ MODULE SSTable ------------------------------
(***************************************************************************)
(* internal/sstable as the store uses it: a file that is created empty,    *)
(* filled with entries in key order, finished by an index and a footer,    *)
(* and never changed after that.  Only a finished file can be opened: the  *)
(* footer's magic number is written last.                                  *)
(***************************************************************************)
EXTENDS Entries

NoFile == [st |-> "absent", ents |-> {}]

\* Create: the file exists (truncated if it did before) and has no footer.
Create == [st |-> "partial", ents |-> {}]

\* Mutant: the writer leaves tombstones out.
Finish_SkipsTombstones(E) == [st |-> "complete", ents |-> {e \in E : e.val # Tombstone}]

\* Every Add, flushBlock and Finish: all entries, tombstones too, then the footer.
Finish(E) == [st |-> "complete", ents |-> E]

\* Mutant: the writer refuses tombstones instead of storing them.
MayRefuse_Tombstones(E) == \E e \in E : e.val = Tombstone

(***************************************************************************)
(* Writer.Add refuses a nil key, and WriteFile then aborts.  A batch may   *)
(* give the empty key as nil or as an empty slice, a replay makes it nil;  *)
(* both are one key to the memtable, which keeps what came first.  Which   *)
(* of them it has is not modelled: the empty key may be refused.           *)
(***************************************************************************)
MayRefuse(E) == EmptyKey \in KeysOf(E)

\* sstable.Open succeeds.
CanOpen(f) == f.st = "complete"

TableHas(f, k) == k \in KeysOf(f.ents)
=============================================================================
