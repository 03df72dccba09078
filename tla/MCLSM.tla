------------------------------- MODULE MCLSM -------------------------------
(***************************************************************************)
(* Instances of the engine for TLC.                                        *)
(***************************************************************************)
EXTENDS LSMProperties

CONSTANTS k1, k2, v1

\* Only Put and Delete.
NoBatch == {}

\* A batch that writes one key and deletes another.
PairBatch == {<<[key |-> k1, val |-> v1], [key |-> k2, val |-> Tombstone]>>}

\* A batch that deletes the key it has just written.
SameKeyBatch == {<<[key |-> k1, val |-> v1], [key |-> k1, val |-> Tombstone]>>}

\* A batch with a key of length 0, which WriteBatch.Put and DB.Write accept.
EmptyKeyBatch == {<<[key |-> k1, val |-> Tombstone], [key |-> EmptyKey, val |-> v1]>>}

(***************************************************************************)
(* Nothing reads a table file again that neither the manifest nor a reader *)
(* nor the operation in progress refers to: states that differ only in     *)
(* the contents of such files count as one.                                *)
(***************************************************************************)
Referenced == Nums(man) \cup Nums(mdisk) \cup tables \cup {cur}

LiveView ==
    <<wal, synced, mdisk, pc, closed, ro, mem, nextSeq, appends, man, tables, shut, cur, ins, budget,
      [n \in 1 .. MaxFile |-> IF n \in Referenced THEN file[n] ELSE [file[n] EXCEPT !.ents = {}]]>>
=============================================================================
