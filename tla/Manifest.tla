------------------------------ MODULE Manifest ------------------------------
(***************************************************************************)
(* internal/manifest: the durable list of live tables.  A file name is its *)
(* number.  Every update changes the state in memory first and then writes *)
(* it whole to a temporary file that is synced and renamed over MANIFEST,  *)
(* so on disk an update happens completely or not at all; the operators    *)
(* below are the in-memory half.  The two lists the code keeps (files here *)
(* and the open readers in the DB) are always in increasing order of       *)
(* number, because numbers are handed out in increasing order and new      *)
(* files are appended: a set of numbers loses nothing.                     *)
(***************************************************************************)
EXTENDS Entries

FileMeta(num, level, maxSeq) == [num |-> num, level |-> level, maxSeq |-> maxSeq]

\* What Open writes when the directory has no MANIFEST.
NewManifest == [next |-> 1, logSeq |-> 0, files |-> {}]

Nums(m) == {f.num : f \in m.files}

AllocFileName(m) == [m EXCEPT !.next = @ + 1]

AddFile(m, meta, logSeq) ==
    [next   |-> m.next,
     logSeq |-> IF logSeq > m.logSeq THEN logSeq ELSE m.logSeq,
     files  |-> m.files \cup {meta}]

\* Mutant: the merged tables stay in the list.
Replace_KeepsInputs(m, remove, meta, logSeq) == AddFile(m, meta, logSeq)

Replace(m, remove, meta, logSeq) ==
    [next   |-> m.next,
     logSeq |-> IF logSeq > m.logSeq THEN logSeq ELSE m.logSeq,
     files  |-> {f \in m.files : f.num \notin remove} \cup {meta}]

MaxSeqAmongFiles(m) == Highest({f.maxSeq : f \in m.files})
=============================================================================
