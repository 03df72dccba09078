------------------------------- MODULE Merge -------------------------------
(***************************************************************************)
(* internal/compact inside: MergeFiles takes the least item of a heap that *)
(* has the next entry of every input, and hands it to a Writer unless it   *)
(* is an older version of the key before it.  When the Writer is finished  *)
(* a Reader of its table answers Get and walks an iterator.  A merge of    *)
(* one input is what a flush of the memtable does.                         *)
(***************************************************************************)
EXTENDS Compact, TableFile

CONSTANTS
    Inputs,     \* the inputs to choose from: sequences of sets of entries
    BlockSizes  \* the values of Options.BlockSize to choose from

ASSUME MergeAssumption == BlockSizes \subseteq Nat \ {0}

\* The inputs are tables, which have a key once, of a store whose sequence numbers identify writes.
ASSUME InputAssumption ==
    \A ins \in Inputs :
        /\ ins \in Seq(SUBSET TableEntry)
        /\ \A i \in DOMAIN ins : IsFiniteSet(ins[i]) /\ \A e, f \in ins[i] : e.key = f.key => e = f
        /\ \A e, f \in UNION {ins[i] : i \in DOMAIN ins} : e.key = f.key /\ e.seq = f.seq => e = f

Options == [BlockSize : BlockSizes, DropTombstones : BOOLEAN]

VARIABLES
    opts,     \* the Options of this merge
    input,    \* what the iterators of the inputs have yet to yield, in key order
    heap,     \* the mergeItems: an entry and the input it is from
    last,     \* lastKey of the merge: no key or one
    w,        \* the Writer
    table,    \* the finished table, or NoTable
    it,       \* an Iterator of it
    due,      \* history: the entries the iterator is on and has yet to come to
    expected  \* history: the entries the merge has to write

mergeVars == <<opts, input, heap, last, w, table, expected>>
readVars == <<it, due>>

NoTable == [index |-> << >>, bloom |-> NewFilter(0), maxSeq |-> 0, entries |-> 0]

\* The entries of a table in the order of their keys.
InOrder(E) ==
    [i \in 1 .. Cardinality(E) |->
        CHOOSE e \in E : Cardinality({f \in E : Less(f.key, e.key)}) = i - 1]

\* With DropTombstones deletions are not written.
Kept(E) == {e \in E : e.val = Tombstone => ~opts.DropTombstones}

\* What an iterator in front of s yields next, and what then remains.
Items(i, s) == IF s = << >> THEN {} ELSE {[idx |-> i, ent |-> Head(s)]}

Rest(s) == IF s = << >> THEN s ELSE Tail(s)

NoIter == PastEnd(NoTable)

MergeInit ==
    /\ opts \in Options
    /\ \E ins \in Inputs :
          /\ input = [i \in DOMAIN ins |-> Rest(InOrder(ins[i]))]
          /\ heap = UNION {Items(i, InOrder(ins[i])) : i \in DOMAIN ins}
          /\ expected = Kept(MergeFiles({ins[i] : i \in DOMAIN ins}))
    /\ last = {}
    /\ w = NewWriter(opts.BlockSize)
    /\ table = NoTable
    /\ it = NoIter
    /\ due = << >>

-----------------------------------------------------------------------------
\* mergeHeap.Less
Before(a, b) ==
    \/ Less(a.ent.key, b.ent.key)
    \/ a.ent.key = b.ent.key /\ a.ent.seq > b.ent.seq
    \/ a.ent.key = b.ent.key /\ a.ent.seq = b.ent.seq /\ a.idx < b.idx

\* heap.Pop, and the next entry of the same input takes the item's place.
Pop(item) ==
    /\ \A other \in heap \ {item} : Before(item, other)
    /\ heap' = (heap \ {item}) \cup Items(item.idx, input[item.idx])
    /\ input' = [input EXCEPT ![item.idx] = Rest(@)]

\* Obsolete versions and, with DropTombstones, deletions are left out.
MergeStep(item) ==
    /\ Pop(item)
    /\ last' = {item.ent.key}
    /\ IF item.ent.key \in last \/ Kept({item.ent}) = {}
       THEN UNCHANGED w
       ELSE CanAdd(w, item.ent) /\ w' = Add(w, item.ent)
    /\ UNCHANGED <<opts, table, expected, readVars>>

Merging == w.blockSize # 0

MergeFinish ==
    /\ heap = {}
    /\ Merging
    /\ table' = FinishTable(w)
    /\ w' = NewWriter(0)
    /\ it' = PastEnd(table')
    /\ UNCHANGED <<opts, input, heap, last, expected, due>>

-----------------------------------------------------------------------------
\* The iterator is placed before the entries E.
Place(x, E) ==
    /\ ~Merging
    /\ it' = x
    /\ due' = InOrder(E)
    /\ UNCHANGED mergeVars

NewIterator == Place(IterNew(table), expected)

Seek(k) == Place(IterSeek(table, k), {e \in expected : ~Less(e.key, k)})

Next ==
    /\ ~Merging
    /\ it' = IterNext(table, it)
    /\ due' = Rest(due)
    /\ UNCHANGED mergeVars

MergeNext ==
    \/ \E item \in heap : MergeStep(item)
    \/ MergeFinish
    \/ NewIterator
    \/ Next
    \/ \E k \in Key : Seek(k)

MergeSpec == MergeInit /\ [][MergeNext]_<<mergeVars, readVars>>

-----------------------------------------------------------------------------
(***************************************************************************)
(* The merged table answers Get for every key, stored or not, with the     *)
(* newest version in the inputs, wherever the blocks and the restarts fall *)
(* and whatever bytes the numbers take: MergeFiles and Reader.Get together *)
(* are module Compact's MergeFiles.                                        *)
(***************************************************************************)
GetFindsNewest ==
    ~Merging => \A k \in Key : TableGet(table, k) = {e \in expected : e.key = k}

\* An Iterator, however it was placed and moved before, is on the entry that follows in key order, and
\* is invalid exactly at the end (Iterator.Next, Iterator.Seek, blockIter.Next).
IteratorFollowsTable ==
    IF due = << >> THEN ~it.at.valid ELSE it.at.valid /\ EntryOf(it.at) = Head(due)

\* The footer's sequence number, from which Open continues, is the highest of the entries written, and
\* its count theirs (Writer.Finish).
FooterMatches ==
    ~Merging => table.maxSeq = Highest(SeqsOf(expected)) /\ table.entries = Cardinality(expected)
=============================================================================
