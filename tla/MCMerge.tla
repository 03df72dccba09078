------------------------------ MODULE MCMerge ------------------------------
(***************************************************************************)
(* Instances of the merge for TLC: two inputs over keys that are prefixes  *)
(* of each other, with sequence numbers of every encoded length.           *)
(***************************************************************************)
EXTENDS Merge

\* The keys that may be stored, the empty one among them.
Stored == {<< >>, <<1>>, <<1, 2>>, <<1, 2, 1>>, <<2>>}

\* These and some that are not: before, between and behind them.
Looked == Stored \cup {<<1, 1>>, <<1, 2, 2>>, <<3>>}

Values == {<< >>, <<7, 0>>}

Number == (<< >> :> 1) @@ (<<1>> :> 3) @@ (<<1, 2>> :> 15) @@ (<<1, 2, 1>> :> 30) @@ (<<2>> :> 5)

\* The older version of a key has a value, the newer one of every second key is a deletion.
Old(k) == [key |-> k, val |-> <<7, 0>>, seq |-> Number[k]]

New(k) == [key |-> k, val |-> IF Len(k) % 2 = 0 THEN << >> ELSE Tombstone, seq |-> Number[k] + 1]

\* What of a key is in the first and in the second input.
Share == {"none", "old", "oldFirst", "newFirst", "both"}

First(k, share) ==
    CASE share = "none" -> {} [] share \in {"old", "oldFirst"} -> {Old(k)} [] OTHER -> {New(k)}

Second(k, share) ==
    CASE share = "newFirst" -> {Old(k)} [] share \in {"oldFirst", "both"} -> {New(k)} [] OTHER -> {}

TwoInputs ==
    {<<UNION {First(k, c[k]) : k \in Stored}, UNION {Second(k, c[k]) : k \in Stored}>> :
        c \in [Stored -> Share]}

\* Hashes that collide.
SmallHash(key) == <<(Len(key) * 5 + FoldLeft(+, 0, key)) % 16, 1 + Len(key)>>
=============================================================================
