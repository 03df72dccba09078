------------------------------ MODULE TableFile ------------------------------
(***************************************************************************)
(* internal/sstable inside: how a Writer lays entries out in blocks, and   *)
(* how a Reader finds them again.  In a block a key is stored as the       *)
(* number of bytes it shares with the key before it and the rest; every    *)
(* few entries a restart stores the whole key, for the binary search.      *)
(*                                                                         *)
(* Blocks are sequences of bytes.  Their restarts, the index of blocks and *)
(* the footer are kept as they are decoded, and the checksums, which only  *)
(* matter for damaged files, are left out.                                 *)
(***************************************************************************)
EXTENDS Entries, Varint, Bloom

CONSTANTS
    RestartInterval  \* how many entries from one restart to the next

ASSUME RestartAssumption == RestartInterval \in Nat \ {0}

\* Keys and values are strings of bytes whose length can be encoded.
ASSUME ByteAssumption == \A s \in Key \cup Value : s \in Seq(Nat) /\ Len(s) <= MaxUint

TableEntry == [key : Key, val : Value \cup {Tombstone}, seq : 0 .. MaxUint]

flagValue == 0
flagDelete == 1

From(b, off) == SubSeq(b, off + 1, Len(b))

-----------------------------------------------------------------------------
(***************************************************************************)
(* byteutil.                                                               *)
(***************************************************************************)
SharedPrefixLen(a, b) ==
    Max({n \in 0 .. Len(a) : n <= Len(b) /\ \A i \in 1 .. n : a[i] = b[i]})

\* Compare(a, b) < 0
Less(a, b) ==
    LET n == SharedPrefixLen(a, b) IN n < Len(b) /\ (n < Len(a) => a[n + 1] < b[n + 1])

-----------------------------------------------------------------------------
(***************************************************************************)
(* Writer.                                                                 *)
(***************************************************************************)
\* The fields of a new Writer; keys is what the Builder of the filter has recorded, and lastKey is its
\* last one.
NewWriter(blockSize) ==
    [blockSize |-> blockSize, buf |-> << >>, restarts |-> << >>, blockEntries |-> 0,
     index |-> << >>, keys |-> << >>, maxSeq |-> 0]

lastKey(w) == w.keys[Len(w.keys)]

flushBlock(w) ==
    IF w.buf = << >>
    THEN w
    ELSE [w EXCEPT !.index = Append(@, [lastKey |-> lastKey(w), data |-> w.buf, restarts |-> w.restarts]),
                   !.buf = << >>, !.restarts = << >>, !.blockEntries = 0]

IsRestart(w) == w.blockEntries % RestartInterval = 0 \/ w.keys = << >>

EncodeEntry(e, shared) ==
    LET value == IF e.val = Tombstone THEN << >> ELSE e.val
    IN  EncodeUint64(shared) \o EncodeUint64(Len(e.key) - shared) \o EncodeUint64(Len(value))
        \o EncodeUint64(e.seq) \o <<IF e.val = Tombstone THEN flagDelete ELSE flagValue>>
        \o From(e.key, shared) \o value

\* Entries must come in ascending order (CanAdd); a full block is flushed at once.
CanAdd(w, e) == w.keys # << >> => ~Less(e.key, lastKey(w))

\* Mutant: the footer gets the number of the last entry.
Add_LastSeq(w, e) ==
    LET shared == IF IsRestart(w) THEN 0 ELSE SharedPrefixLen(lastKey(w), e.key)
        added == [w EXCEPT !.restarts = IF IsRestart(w) THEN Append(@, Len(w.buf)) ELSE @,
                           !.buf = @ \o EncodeEntry(e, shared),
                           !.blockEntries = @ + 1,
                           !.keys = Append(@, e.key),
                           !.maxSeq = e.seq]
    IN  IF Len(added.buf) >= w.blockSize THEN flushBlock(added) ELSE added

Add(w, e) ==
    LET shared == IF IsRestart(w) THEN 0 ELSE SharedPrefixLen(lastKey(w), e.key)
        added == [w EXCEPT !.restarts = IF IsRestart(w) THEN Append(@, Len(w.buf)) ELSE @,
                           !.buf = @ \o EncodeEntry(e, shared),
                           !.blockEntries = @ + 1,
                           !.keys = Append(@, e.key),
                           !.maxSeq = IF e.seq > @ THEN e.seq ELSE @]
    IN  IF Len(added.buf) >= w.blockSize THEN flushBlock(added) ELSE added

\* Finish, and what Open reads back.
FinishTable(w) ==
    [index |-> flushBlock(w).index, bloom |-> Build(w.keys), maxSeq |-> w.maxSeq, entries |-> Len(w.keys)]

-----------------------------------------------------------------------------
(***************************************************************************)
(* blockIter.  Offsets count bytes from 0.                                 *)
(***************************************************************************)
\* Not positioned: the next entry is the one at off, and there is no key before it.
BlockAt(off) ==
    [off |-> off, key |-> << >>, value |-> << >>, seq |-> 0, deleted |-> FALSE, valid |-> FALSE]

\* Four numbers, the flag, the rest of the key and the value.
blockNext(block, it) ==
    LET at[i \in 0 .. 4] ==
            IF i = 0 THEN it.off ELSE at[i - 1] + DecodeUint64(From(block.data, at[i - 1])).n
        Num(i) == DecodeUint64(From(block.data, at[i - 1]))
        rest == at[4] + 1
        end == rest + Num(2).x + Num(3).x
    IN  IF it.off >= Len(block.data) \/ (\E i \in 1 .. 4 : Num(i) = DecodeError) \/ end > Len(block.data)
        THEN [it EXCEPT !.valid = FALSE]
        ELSE [off |-> end,
              key |-> SubSeq(it.key, 1, Num(1).x) \o SubSeq(block.data, rest + 1, rest + Num(2).x),
              value |-> SubSeq(block.data, rest + Num(2).x + 1, end),
              seq |-> Num(4).x,
              deleted |-> block.data[rest] = flagDelete,
              valid |-> TRUE]

\* The last restart whose key is not behind the target, or the first.
searchRestarts(block, target) ==
    LET At(i) == blockNext(block, BlockAt(block.restarts[i]))
        Between[range \in (1 .. Len(block.restarts)) \X (1 .. Len(block.restarts))] ==
            LET lo == range[1]
                hi == range[2]
                mid == (lo + hi + 1) \div 2
            IN  IF lo >= hi THEN lo
                ELSE IF ~At(mid).valid \/ Less(target, At(mid).key) THEN Between[<<lo, mid - 1>>]
                ELSE Between[<<mid, hi>>]
    IN  Between[<<1, Len(block.restarts)>>]

\* From there one by one to the first key that is not smaller.  Every round of the loop reads a byte,
\* so there are no more rounds than bytes.
blockSeek(block, target) ==
    LET Round[n \in 0 .. Len(block.data)] ==
            IF n = 0
            THEN blockNext(block, BlockAt(block.restarts[searchRestarts(block, target)]))
            ELSE LET it == Round[n - 1]
                 IN  IF it.valid /\ Less(it.key, target) THEN blockNext(block, it) ELSE it
    IN  Round[Len(block.data)]

-----------------------------------------------------------------------------
(***************************************************************************)
(* Reader.                                                                 *)
(***************************************************************************)
\* Mutant: a block that ends with the key is passed.
searchIndex_PastEqual(index, key) ==
    1 + Cardinality({i \in DOMAIN index : ~Less(key, index[i].lastKey)})

\* sort.Search: the first block that does not end before the key; Len + 1 when all do.
searchIndex(index, key) == 1 + Cardinality({i \in DOMAIN index : Less(index[i].lastKey, key)})

EntryOf(it) ==
    [key |-> it.key, val |-> IF it.deleted THEN Tombstone ELSE it.value, seq |-> it.seq]

\* Get, as the set of at most one entry.
TableGet(t, key) ==
    LET i == searchIndex(t.index, key)
        it == blockSeek(t.index[i], key)
    IN  IF ~MayContain(t.bloom, key) \/ i > Len(t.index) \/ ~(it.valid /\ it.key = key)
        THEN {}
        ELSE {EntryOf(it)}

(***************************************************************************)
(* Iterator: the number of its block and the position in it.  Past the end *)
(* the code's bi grows with every Next; here it stays.                     *)
(***************************************************************************)
PastEnd(t) == [bi |-> Len(t.index) + 1, at |-> BlockAt(0)]

\* Mutant: the entry newBlockIter has read is passed.
AtBlock_SecondEntry(t, i) ==
    IF i \in DOMAIN t.index
    THEN [bi |-> i, at |-> blockNext(t.index[i], blockNext(t.index[i], BlockAt(0)))]
    ELSE PastEnd(t)

\* newBlockIter: the first entry of block i, which is not empty.
AtBlock(t, i) ==
    IF i \in DOMAIN t.index THEN [bi |-> i, at |-> blockNext(t.index[i], BlockAt(0))] ELSE PastEnd(t)

IterNew(t) == AtBlock(t, 1)

IterNext(t, it) ==
    IF it.bi \notin DOMAIN t.index
    THEN it
    ELSE LET n == blockNext(t.index[it.bi], it.at)
         IN  IF n.valid THEN [it EXCEPT !.at = n] ELSE AtBlock(t, it.bi + 1)

IterSeek(t, target) ==
    LET i == searchIndex(t.index, target)
        it == [bi |-> i, at |-> blockSeek(t.index[i], target)]
    IN  IF i > Len(t.index) THEN PastEnd(t) ELSE IF it.at.valid THEN it ELSE IterNext(t, it)
=============================================================================
