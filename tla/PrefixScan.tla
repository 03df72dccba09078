----------------------------- MODULE PrefixScan -----------------------------
(***************************************************************************)
(* internal/prefixscan: an iterator over a list of keys whose Seek walks   *)
(* from the start past every key that is not greater than the target.  The *)
(* code only compares keys, so a key is its rank among all strings.        *)
(***************************************************************************)
EXTENDS Naturals, Sequences

CONSTANTS
    MaxKey,  \* bound: the highest rank
    MaxLen   \* bound: the longest list

VARIABLES
    keys,     \* the list given to New
    pos,      \* the iterator's position, from 0
    target,   \* the argument of the last Seek
    seeking   \* Seek is in its loop

scanVars == <<keys, pos, target, seeking>>

Sorted(s) == \A i, j \in 1 .. Len(s) : i < j => s[i] <= s[j]

KeyLists == UNION {[1 .. n -> 1 .. MaxKey] : n \in 0 .. MaxLen}

ScanInit ==
    /\ keys \in {s \in KeyLists : Sorted(s)}
    /\ pos = 0
    /\ target = 0
    /\ seeking = FALSE

\* it.i = 0
Seek(t) ==
    /\ ~seeking
    /\ target' = t
    /\ pos' = 0
    /\ seeking' = TRUE
    /\ UNCHANGED keys

\* The comparison of the loop.
Skips(k) == k <= target

SeekStep ==
    /\ seeking
    /\ IF pos < Len(keys) /\ Skips(keys[pos + 1])
       THEN pos' = pos + 1 /\ UNCHANGED seeking
       ELSE seeking' = FALSE /\ UNCHANGED pos
    /\ UNCHANGED <<keys, target>>

ScanNext == SeekStep \/ \E t \in 0 .. MaxKey : Seek(t)

ScanSpec == ScanInit /\ [][ScanNext]_scanVars

-----------------------------------------------------------------------------
\* Seek finds the target itself when the list has it (TestSeekInclusive).
SeekFindsTarget ==
    ~seeking /\ (\E i \in 1 .. Len(keys) : keys[i] = target) =>
        pos < Len(keys) /\ keys[pos + 1] = target
=============================================================================
