---------------------------- MODULE LSMProperties ----------------------------
(***************************************************************************)
(* What makes the engine of module LSM correct.                            *)
(***************************************************************************)
EXTENDS LSM

BoundedEntry == [key : Key, val : Value \cup {Tombstone}, seq : 0 .. MaxSeq]

LogType ==
    /\ wal \in Seq([first : 0 .. MaxSeq, ops : Seq(Op)])
    /\ \A i \in 1 .. Len(wal) : wal[i].first + Len(wal[i].ops) <= MaxSeq + 1
    /\ synced \in 0 .. Len(wal)
    /\ nextSeq \in 0 .. MaxSeq
    /\ appends \in Nat

ManifestState ==
    [next : 1 .. MaxFile + 1, logSeq : 0 .. MaxSeq,
     files : SUBSET [num : 1 .. MaxFile, level : {0, 1}, maxSeq : 0 .. MaxSeq]]

TableType ==
    /\ file \in [1 .. MaxFile -> [st : {"absent", "partial", "complete"}, ents : SUBSET BoundedEntry]]
    /\ mem \in SUBSET BoundedEntry

OperationType ==
    /\ pc \in Steps
    /\ tables \in SUBSET (1 .. MaxFile)
    /\ shut \subseteq tables
    /\ ins \subseteq tables
    /\ cur \in 0 .. MaxFile
    /\ cur # 0 <=> pc \in {"create", "write", "addFile", "install"} \cup CompactSteps
    /\ ins # {} <=> pc \in CompactSteps
    /\ budget \in 0 .. MaxFaults

ModeType == closed \in BOOLEAN /\ ro \in BOOLEAN

\* Every variable has its type: sequence and file numbers stay within the bounds, whatever was lost,
\* replayed or refused, and a step of flushLocked or Compact always has its file and its inputs.
TypeOK ==
    /\ LogType
    /\ TableType
    /\ man \in ManifestState
    /\ mdisk \in ManifestState
    /\ OperationType
    /\ ModeType

-----------------------------------------------------------------------------
(***************************************************************************)
(* The refinement of KVStore.                                              *)
(***************************************************************************)
OpSeqs == Batches \cup {<<op>> : op \in Op}

SyncedLen == IF synced <= ValidLen(wal) THEN synced ELSE ValidLen(wal)

\* The stores a crash may leave behind: the manifest's tables and some part of the log.
Recoverable ==
    {View(E) : E \in {LiveDisk \cup LogEntries(Prefix(wal, n)) : n \in SyncedLen .. ValidLen(wal)}}

KV == INSTANCE KVStore WITH store <- Store, recoverable <- Recoverable, running <- (pc # "down"),
                            Durable <- (SyncPolicy = "full")

(***************************************************************************)
(* The engine implements KVStore: batches are atomic across crashes, an    *)
(* acknowledged write under SyncFull is never lost (under the other        *)
(* policies only with everything after it), and neither a flush, a         *)
(* compaction, a reopening nor a crash in the middle of one changes what   *)
(* the store holds.                                                        *)
(***************************************************************************)
ImplementsKVStore == KV!KVSpec

-----------------------------------------------------------------------------
(***************************************************************************)
(* Safety.                                                                 *)
(***************************************************************************)
\* Whenever the process might die, the tables that the MANIFEST on disk lists are whole: openTables
\* will not fail.
ManifestNamesWholeTables == Openable

\* db.Get (memtable first) and the iterator (newest sequence number) give the same answer.
GetMatchesIterator ==
    pc = "idle" => \A k \in Key : GetFails(k) \/ Get(k) = Iterate[k]

\* db.Get never answers with anything but what the store holds: where a failed Compact has closed the
\* readers it stands on, or a failed AddFile removed a table that the manifest goes on to list, it
\* returns an error or the right value (Compact, flushLocked, Manifest.Replace).
GetShowsStore == pc = "idle" => \A k \in Key : GetFails(k) \/ Get(k) = Store[k]

\* The readers the DB keeps open and the memtable together show exactly the contents of the store,
\* whatever flushes, compactions and errors have happened before (collectMerged, db.tables).
IteratorShowsStore == pc = "idle" => Iterate = Store

\* A sequence number identifies one write: nextSeq is never reset below a number in use, however the
\* log was truncated, lost or replayed before (Open, SetNextSeq, Reset).
SeqIdentifiesWrite ==
    \A e, f \in LiveDisk \cup mem \cup Replay(wal) : e.seq = f.seq => e = f

\* sstable.Create truncates: the number it is given names no existing file and no listed table, also
\* after failed operations and crashes that have burned numbers (AllocFileName).
OutputNameIsFresh ==
    pc \in {"create", "cCreate"} => file[cur] = NoFile /\ cur \notin Nums(mdisk) \cup tables

\* A frame that is whole and synced is replayed at the next Open: no torn frame stands before it
\* (recoverTail, writeFrame).
SyncedFramesAreReplayed == \A i \in 1 .. synced : wal[i] # Torn => i <= ValidLen(wal)

\* Under SyncBatch fewer than SyncEveryN of the frames that this process has appended, counted across
\* flushes and resets of the log, are unsynced when a call has returned (maybeSyncLocked, Reset).
UnsyncedIsBounded ==
    SyncPolicy = "batch" /\ pc = "idle" =>
        Len(wal) - Highest({synced, Len(wal) - appends}) < SyncEveryN

-----------------------------------------------------------------------------
(***************************************************************************)
(* Action properties.                                                      *)
(***************************************************************************)
\* A flush or a compaction, failed or not, leaves the contents of the store as they are (flushLocked,
\* Compact).
MaintenanceKeepsStore ==
    [][(pc \in FlushSteps \cup CompactSteps) /\ pc' # "down" => Store' = Store]_vars

\* When no call fails, flushLocked returns with an empty memtable and an empty log.
FlushEmptiesMemtable ==
    [][(pc \in FlushSteps) /\ pc' \in {"idle", "close"} => mem' = EmptyMem /\ wal' = << >>]_vars
=============================================================================
