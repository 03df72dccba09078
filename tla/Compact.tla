------------------------------ MODULE Compact ------------------------------
(***************************************************************************)
(* internal/compact: which tables a compaction takes and what it writes.   *)
(* Tables are numbers; level maps a number to the level the store passes   *)
(* with it.                                                                *)
(***************************************************************************)
EXTENDS Entries

\* All level-0 tables once there are at least threshold of them, none otherwise.
PlanLevel0(tables, level, threshold) ==
    LET zero == {n \in tables : level[n] = 0}
    IN  IF Cardinality(zero) < threshold THEN {} ELSE zero

\* The first two tables of the list, when it has two.
FirstTwo(tables) ==
    IF Cardinality(tables) < 2
    THEN {}
    ELSE {n \in tables : Cardinality({m \in tables : m < n}) < 2}

\* The inputs CompactDir settles on; none stands for ErrNoInputs.
CompactInputs(tables, level) ==
    LET zero == PlanLevel0(tables, level, 2)
    IN  IF zero # {} THEN zero ELSE FirstTwo(tables)

\* Mutant: the heap yields the oldest version of a key first.
MergeFiles_OldestWins(ents) ==
    {e \in UNION ents : \A f \in UNION ents : f.key = e.key => e.seq <= f.seq}

\* MergeFiles without DropTombstones: the newest version of every key.
MergeFiles(ents) == Top(UNION ents)
=============================================================================
