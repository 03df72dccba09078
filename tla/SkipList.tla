------------------------------ MODULE SkipList ------------------------------
(***************************************************************************)
(* internal/memtable: the skip list behind the memtable, and an iterator   *)
(* over it.  Every method holds the list's mutex from start to end, so it  *)
(* is one step; between the steps of an iterator, which keeps a pointer    *)
(* into the list and no lock, the list changes.  Nodes live in a heap that *)
(* only grows, as garbage that is still pointed at does.  A key is its     *)
(* rank and a value its length, which is all the list looks at.            *)
(***************************************************************************)
EXTENDS MemTable, FiniteSetsExt

CONSTANTS
    MaxLevel,  \* maxLevel
    MaxSeq,    \* bound: the highest sequence number
    MaxNode    \* bound: how many nodes are ever allocated, heads included

ASSUME RankAssumption == Key \subseteq Nat \ {0} /\ Value \subseteq Nat
ASSUME ListAssumption == MaxLevel \in Nat \ {0} /\ MaxSeq \in Nat /\ MaxNode \in Nat \ {0}

VARIABLES
    heap,   \* the nodes: an entry and one pointer for each level of the node
    head,   \* s.head
    level,  \* s.level
    size,   \* s.size
    bytes,  \* s.bytes
    cur,    \* the iterator's cur
    due,    \* history: the keys the iterator has yet to come to
    sent    \* history: what MemTable would hold after the same calls

listVars == <<heap, head, level, size, bytes, sent>>
iterVars == <<cur, due>>
skipVars == <<listVars, iterVars>>

Nil == 0

\* A head has no entry: its key is nil, and nothing compares it.
NewHead == [ent |-> [key |-> Nil, val |-> Tombstone, seq |-> 0], next |-> [i \in 1 .. MaxLevel |-> Nil]]

Room == Len(heap) < MaxNode

estimateBytes(e) == 1 + (IF e.val = Tombstone THEN 0 ELSE e.val) + 16

Forward(x, i) == heap[x].next[i]

KeyOf(x) == heap[x].ent.key

\* The nodes behind the head on the lowest level, which every node is on.
Nodes ==
    LET Behind[x \in DOMAIN heap] ==
            LET y == Forward(x, 1) IN IF y = Nil THEN {} ELSE {y} \cup Behind[y]
    IN  Behind[head]

\* Snapshot and Ascend.
Contents == {heap[x].ent : x \in Nodes}

-----------------------------------------------------------------------------
(***************************************************************************)
(* The search: on each level, from the highest down, to the last node      *)
(* whose key is smaller.                                                   *)
(***************************************************************************)
OnLevel(i) == {x \in DOMAIN heap : i \in DOMAIN heap[x].next}

\* Mutant: the search also passes the key itself.
Walk_PastEqual(i, k) ==
    LET W[x \in OnLevel(i)] ==
            LET y == Forward(x, i) IN IF y # Nil /\ KeyOf(y) <= k THEN W[y] ELSE x
    IN  W

Walk(i, k) ==
    LET W[x \in OnLevel(i)] ==
            LET y == Forward(x, i) IN IF y # Nil /\ KeyOf(y) < k THEN W[y] ELSE x
    IN  W

\* update[i]: where the search leaves level i; the head on levels above s.level.
SearchPath(k) ==
    LET update[i \in 1 .. MaxLevel + 1] == IF i > level THEN head ELSE Walk(i, k)[update[i + 1]]
    IN  update

\* The node the search ends before.
SeekNode(k) == Forward(SearchPath(k)[1], 1)

Found(k) == SeekNode(k) # Nil /\ KeyOf(SeekNode(k)) = k

\* Get.
GetEntry(k) == heap[SeekNode(k)].ent

-----------------------------------------------------------------------------
\* Mutant: an older version replaces a newer one.
Overwrite_Always(e, x) ==
    /\ heap' = [heap EXCEPT ![x].ent = e]
    /\ bytes' = bytes + estimateBytes(e) - estimateBytes(heap[x].ent)
    /\ UNCHANGED <<head, level, size>>

\* Mutant: the bytes of the old version stay counted.
Overwrite_AddsBytes(e, x) ==
    /\ IF e.seq >= heap[x].ent.seq
       THEN /\ heap' = [heap EXCEPT ![x].ent = e]
            /\ bytes' = bytes + estimateBytes(e)
       ELSE UNCHANGED <<heap, bytes>>
    /\ UNCHANGED <<head, level, size>>

\* set() of a key that is there, at node x: replaced in place unless its version is newer.
Overwrite(e, x) ==
    /\ IF e.seq >= heap[x].ent.seq
       THEN /\ heap' = [heap EXCEPT ![x].ent = e]
            /\ bytes' = bytes + estimateBytes(e) - estimateBytes(heap[x].ent)
       ELSE UNCHANGED <<heap, bytes>>
    /\ UNCHANGED <<head, level, size>>

\* A new node of lvl levels behind the nodes of the path.
Link(e, lvl, path) ==
    LET n == Len(heap) + 1
    IN  Append([x \in DOMAIN heap |->
                   [heap[x] EXCEPT !.next = [i \in DOMAIN @ |->
                       IF i <= lvl /\ path[i] = x THEN n ELSE @[i]]]],
               [ent |-> e, next |-> [i \in 1 .. lvl |-> Forward(path[i], i)]])

\* set() of a new key; lvl is what randomLevel returns.
Insert(e, lvl, path) ==
    /\ Room
    /\ heap' = Link(e, lvl, path)
    /\ level' = IF lvl > level THEN lvl ELSE level
    /\ size' = size + 1
    /\ bytes' = bytes + estimateBytes(e)
    /\ UNCHANGED head

\* Put and Delete.  A version of the same number is replaced; the store writes no number twice.
Set(e) ==
    /\ LET path == SearchPath(e.key)
           x == Forward(path[1], 1)
       IN  IF x # Nil /\ KeyOf(x) = e.key
           THEN Overwrite(e, x)
           ELSE \E lvl \in 1 .. MaxLevel : Insert(e, lvl, path)
    /\ sent' = MemApply({f \in sent : f.key # e.key \/ f.seq # e.seq}, {e})
    /\ UNCHANGED iterVars

\* Mutant: the head is emptied in place.
Clear_InPlace ==
    /\ heap' = [heap EXCEPT ![head] = NewHead]
    /\ level' = 1
    /\ size' = 0
    /\ bytes' = 0
    /\ sent' = EmptyMem
    /\ UNCHANGED <<head, iterVars>>

\* Clear leaves the old nodes to the iterators that are among them.
Clear ==
    /\ Room
    /\ heap' = Append(heap, NewHead)
    /\ head' = Len(heap) + 1
    /\ level' = 1
    /\ size' = 0
    /\ bytes' = 0
    /\ sent' = EmptyMem
    /\ UNCHANGED iterVars

-----------------------------------------------------------------------------
(***************************************************************************)
(* The iterator.                                                           *)
(***************************************************************************)
\* The iterator comes to node x with the keys D ahead of it.
MoveTo(x, D) ==
    /\ cur' = x
    /\ due' = IF x = Nil THEN D ELSE D \ {KeyOf(x)}
    /\ UNCHANGED listVars

\* NewIterator stands on the head, before the first node.
NewIterator == MoveTo(head, KeysOf(Contents))

SeekToFirst == MoveTo(Forward(head, 1), KeysOf(Contents))

Seek(t) == MoveTo(SeekNode(t), {k \in KeysOf(Contents) : k >= t})

Next == cur # Nil /\ MoveTo(Forward(cur, 1), due)

-----------------------------------------------------------------------------
SkipInit ==
    /\ heap = <<NewHead>>
    /\ head = 1
    /\ level = 1
    /\ size = 0
    /\ bytes = 0
    /\ cur = Nil
    /\ due = {}
    /\ sent = EmptyMem

Argument == [key : Key, val : Value \cup {Tombstone}, seq : 1 .. MaxSeq]

SkipNext ==
    \/ \E e \in Argument : Set(e)
    \/ Clear
    \/ NewIterator
    \/ SeekToFirst
    \/ \E t \in Key : Seek(t)
    \/ Next

SkipSpec == SkipInit /\ [][SkipNext]_skipVars

-----------------------------------------------------------------------------
(***************************************************************************)
(* The list holds what MemTable's set of newest versions would, whatever   *)
(* levels the nodes were given and in whatever order versions arrive: an   *)
(* entry is stored unless its key has a newer one, and no other key is     *)
(* touched (SkipList.set, SkipList.Clear).                                 *)
(***************************************************************************)
ImplementsMemTable == Contents = sent

\* The search over the levels finds what a walk along the lowest level would: Get the entry of every
\* key there is, Seek the first key that is not smaller (SkipList.Get, Iterator.Seek).
SearchIsExact ==
    \A k \in Key :
        /\ Found(k) <=> MemHas(Contents, k)
        /\ Found(k) => GetEntry(k) \in Contents /\ GetEntry(k).key = k
        /\ LET rest == {j \in KeysOf(Contents) : j >= k}
           IN  IF rest = {} THEN SeekNode(k) = Nil
               ELSE SeekNode(k) \in Nodes /\ KeyOf(SeekNode(k)) = Min(rest)

\* The counters that decide about flushes do not drift from the contents, through replacements by
\* shorter and longer values and through Clear (SkipList.Len, SkipList.Bytes).
CountersMatch ==
    /\ size = Cardinality(Contents)
    /\ bytes = MapThenSumSet(estimateBytes, Contents)

\* The keys an iterator has yet to come to are ahead of it, and none is left when it reaches the end,
\* although the list was written and cleared since it was placed (Iterator.Next, SkipList.Clear).
WalkVisitsAll == \A k \in due : cur # Nil /\ KeyOf(cur) < k
=============================================================================
