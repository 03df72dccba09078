------------------------------- MODULE Bloom -------------------------------
(***************************************************************************)
(* internal/bloomx: a filter of m bits that answers "absent" only for keys *)
(* that were not added.  The bits are the set of those that are 1.         *)
(***************************************************************************)
EXTENDS Naturals, Sequences, SequencesExt

CONSTANTS
    HashPair(_),  \* the two hashes of a key, below HashMod
    HashMod,      \* 2^64, where the sum of the hashes wraps around
    MinBits,      \* 64, the smallest filter
    BitsPerKey,   \* -ln(p) / ln(2)^2, the bits for each key
    MaxHashes     \* 30, the most hash functions

ASSUME BloomAssumption ==
    HashMod \in Nat \ {0} /\ MinBits \in Nat \ {0} /\ BitsPerKey \in Nat /\ MaxHashes \in Nat \ {0}

OptimalBits(n) == IF n * BitsPerKey < MinBits THEN MinBits ELSE n * BitsPerKey

\* m / n * ln(2), rounded to the next integer, between 1 and MaxHashes; ln(2) is 0.7 here.
OptimalHashFuncs(m, n) ==
    LET k == (m * 14 + n * 10) \div (n * 20)
    IN  CASE k < 1 -> 1 [] k > MaxHashes -> MaxHashes [] OTHER -> k

NewFilter(n) ==
    LET size == IF n = 0 THEN 1 ELSE n
        m == OptimalBits(size)
    IN  [bits |-> {}, m |-> m, k |-> OptimalHashFuncs(m, size)]

\* The bits of a key: double hashing, modulo the width of the sum and then the size.
Probes(f, key) ==
    {((HashPair(key)[1] + i * HashPair(key)[2]) % HashMod) % f.m : i \in 0 .. f.k - 1}

FilterAdd(f, key) == [f EXCEPT !.bits = @ \cup Probes(f, key)]

MayContain(f, key) == Probes(f, key) \subseteq f.bits

\* Builder.Build: the filter is sized for the number of keys recorded.
Build(keys) == FoldLeft(FilterAdd, NewFilter(Len(keys)), keys)
=============================================================================
