-------------------------------- MODULE LSM --------------------------------
(***************************************************************************)
(* lsmkv.DB: the engine that ties the memtable, the write-ahead log, the   *)
(* manifest and the tables together.                                       *)
(*                                                                         *)
(* Every public operation that writes holds db.mu from start to end, so at *)
(* most one is in progress; pc says which of its steps comes next.  What   *)
(* is split into steps is what a crash can separate: each step ends with   *)
(* at most one change of the disk.  A crash of the process keeps all that  *)
(* was written; a loss of power keeps what was synced and, of the rest of  *)
(* the log, any prefix.  A call to the operating system fails only at the  *)
(* sites in Faults and at most MaxFaults times; "refuse" is an append that *)
(* fails before it has written a byte.                                     *)
(***************************************************************************)
EXTENDS MemTable, WAL, Manifest, SSTable, Compact

CONSTANTS
    Batches,           \* the operation sequences WriteBatch may carry
    SyncPolicy,        \* "full", "batch" or "none"
    SyncEveryN,        \* the N of SyncPolicy "batch"
    CompactThreshold,  \* Options.CompactThreshold
    Crashes,           \* the kinds of crash: a subset of {"process", "power"}
    Faults,            \* the call sites that may fail
    MaxFaults,         \* bound: how many calls fail in a behaviour
    MaxSeq,            \* bound: the last sequence number handed out
    MaxFile            \* bound: the last file number handed out

Sites == {"readLog", "seekLog", "append", "refuse", "sync", "alloc", "create", "write", "addFile",
          "openSst", "truncate", "resetSync", "merge", "readInput", "openOut", "replace"}

ASSUME BatchesAssumption == Batches \subseteq Seq(Op) \ {<< >>}
ASSUME PolicyAssumption == SyncPolicy \in {"full", "batch", "none"} /\ SyncEveryN \in Nat \ {0}
ASSUME ThresholdAssumption == CompactThreshold \in Nat \ {0}
ASSUME EnvironmentAssumption == Crashes \subseteq {"process", "power"} /\ Faults \subseteq Sites
ASSUME BoundsAssumption == MaxFaults \in Nat /\ MaxSeq \in Nat /\ MaxFile \in Nat

VARIABLES
    wal,      \* disk: the frames of the log file
    synced,   \* disk: how many of them are on stable storage
    file,     \* disk: the table files, by number
    mdisk,    \* disk: MANIFEST
    pc,       \* the next step of the operation that holds db.mu; "down" without a process
    closed,   \* db.closed
    ro,       \* Options.ReadOnly of the current Open
    mem,      \* db.mem
    nextSeq,  \* wal.Log.nextSeq: the last sequence number handed out
    appends,  \* wal.Log.appends
    man,      \* manifest.Manifest.state, in memory
    tables,   \* db.tables: the numbers of the readers
    shut,     \* those of the readers whose file has been closed
    cur,      \* the file number the operation in progress has allocated, or 0
    ins,      \* the inputs of the compaction in progress
    budget    \* how many more calls may fail

logVars == <<wal, synced, nextSeq, appends>>
manVars == <<man, mdisk>>
readVars == <<tables, shut>>
opVars == <<cur, ins>>
modeVars == <<closed, ro>>
vars == <<wal, synced, file, mdisk, pc, closed, ro, mem, nextSeq, appends, man, tables, shut,
          cur, ins, budget>>

FlushSteps == {"flush", "create", "write", "addFile", "install"}
CompactSteps == {"cCreate", "cMerge", "cReplace", "cRemove"}
Steps == {"down", "idle", "append", "close"} \cup FlushSteps \cup CompactSteps

-----------------------------------------------------------------------------
(***************************************************************************)
(* What is stored, and what readers see of it.                             *)
(***************************************************************************)
LiveDisk == UNION {file[f.num].ents : f \in mdisk.files}

\* The contents of the store: everything recovered, or recoverable when no process runs.
Store == View(LiveDisk \cup IF pc = "down" THEN Replay(wal) ELSE mem)

\* db.Get: the memtable first, then the newest entry among the tables.
Get(k) ==
    IF MemHas(mem, k)
    THEN MemGet(mem, k)
    ELSE View(UNION {file[n].ents : n \in tables})[k]

\* db.Get returns the error of a table whose reader has been closed.
GetFails(k) == ~MemHas(mem, k) /\ \E n \in tables \cap shut : TableHas(file[n], k)

\* collectMerged: memtable and tables merged by sequence number; a closed reader yields nothing.
\* (Nor does an open one from a block it cannot read on: here the files can be read.)
Iterate == View(mem \cup UNION {file[n].ents : n \in tables \ shut})

-----------------------------------------------------------------------------
(***************************************************************************)
(* Shared pieces of the steps.                                             *)
(***************************************************************************)
Fail(site) ==
    /\ site \in Faults
    /\ budget > 0
    /\ budget' = budget - 1

\* Bound: operations that will allocate a file start only while a number is left.
Room == man.next <= MaxFile

\* flushLocked and the operations that call it return; closeUnlocked goes on after a failed flush.
Return ==
    /\ pc' = IF closed THEN "close" ELSE "idle"
    /\ cur' = 0
    /\ ins' = {}

\* persistLocked: the manifest in memory replaces the one on disk, by one rename.
Persist == mdisk' = man'

\* Log.Reset; it keeps nextSeq.  It truncates the log and syncs it: power lost in between finds the
\* log as it was before this step or as it is after it.
Reset == wal' = << >> /\ synced' = 0 /\ appends' = 0

\* The process is gone, and with it everything in memory.
Vanish ==
    /\ pc' = "down"
    /\ closed' = FALSE /\ ro' = FALSE
    /\ mem' = EmptyMem /\ nextSeq' = 0 /\ appends' = 0
    /\ man' = mdisk
    /\ tables' = {} /\ shut' = {}
    /\ cur' = 0 /\ ins' = {}

-----------------------------------------------------------------------------
(***************************************************************************)
(* Open.  The lock has been taken (module FileLock).                       *)
(***************************************************************************)
Openable == \A f \in mdisk.files : CanOpen(file[f.num])

\* Mutant: the numbers of the tables are not looked at.
RecoveredSeq_LogOnly(log) == recoveredSeq(log)

RecoveredSeq(log) == Highest({recoveredSeq(log), MaxSeqAmongFiles(mdisk), mdisk.logSeq})

\* Mutant: only level-0 tables are opened.
OpenTables_LevelZero == {f.num : f \in {g \in mdisk.files : g.level = 0}}

\* openTables: a reader for every table of the manifest.
OpenTables == Nums(mdisk)

\* recoverTail can read the frames of scanned, Replay those of replayed.
OpenReading(readOnly, scanned, replayed) ==
    /\ pc = "down"
    /\ Openable
    /\ wal' = recoverTail(scanned)
    /\ synced' = IF synced <= ValidLen(scanned) THEN synced ELSE ValidLen(scanned)
    /\ nextSeq' = RecoveredSeq(scanned)
    /\ appends' = 0
    /\ mem' = MemApply(EmptyMem, Replay(replayed))
    /\ man' = mdisk
    /\ tables' = OpenTables
    /\ ro' = readOnly
    /\ UNCHANGED <<file, mdisk, shut, cur, ins>>

\* A frame that cannot be read ends the scan and the replay as a torn one does, and Open succeeds.
Open(readOnly) ==
    /\ \/ OpenReading(readOnly, wal, wal) /\ UNCHANGED budget
       \/ /\ Fail("readLog")
          /\ \E n \in 0 .. Len(wal) - 1 :
                \/ OpenReading(readOnly, Prefix(wal, n), Prefix(wal, n))
                \/ OpenReading(readOnly, wal, Prefix(wal, n))
    /\ pc' = "idle"
    /\ UNCHANGED closed

\* Replay has read the log but cannot seek back to its end: closeUnlocked flushes what was replayed
\* before Open returns the error.
OpenAbandon ==
    /\ OpenReading(FALSE, wal, wal)
    /\ Fail("seekLog")
    /\ mem' # EmptyMem
    /\ mdisk.next <= MaxFile
    /\ closed' = TRUE
    /\ pc' = "flush"

\* openTables fails on a listed table that cannot be opened, or replayWAL fails with nothing to flush;
\* the log is recovered by then, and synced as it is closed.
OpenFail ==
    /\ pc = "down"
    /\ \/ ~Openable /\ UNCHANGED budget
       \/ Openable /\ Fail("seekLog")
    /\ wal' = recoverTail(wal)
    /\ synced' = ValidLen(wal)
    /\ UNCHANGED <<file, mdisk, pc, modeVars, mem, nextSeq, appends, man, readVars, opVars>>

-----------------------------------------------------------------------------
(***************************************************************************)
(* Put, Delete and Write: a frame is appended to the log, the log is       *)
(* synced if the policy says so, the memtable is updated, and when it has  *)
(* grown past Options.MemtableBytes it is flushed.  Sizes in bytes are not *)
(* modelled: any update may be the one that crosses the threshold.  A      *)
(* failed append has used up its numbers, whatever it has written.         *)
(***************************************************************************)
AppendFrame(ops) ==
    /\ pc = "idle"
    /\ ~ro
    /\ nextSeq + Len(ops) <= MaxSeq
    /\ nextSeq' = nextSeq + Len(ops)
    /\ \/ /\ wal' = Append(wal, Frame(nextSeq + 1, ops))
          /\ appends' = appends + 1
          /\ pc' = "append"
          /\ UNCHANGED budget
       \/ /\ \/ Fail("append") /\ wal' = Append(wal, Torn)
             \/ Fail("refuse") /\ UNCHANGED wal
          /\ UNCHANGED <<appends, pc>>
    /\ UNCHANGED <<synced, file, mem, manVars, readVars, opVars, modeVars>>

Put(k, v) == k # EmptyKey /\ AppendFrame(<<[key |-> k, val |-> v]>>)

Delete(k) == k # EmptyKey /\ AppendFrame(<<[key |-> k, val |-> Tombstone]>>)

Write(batch) == AppendFrame(batch)

\* Mutant: the count that is due is one too high.
SyncDue_OneLate ==
    CASE SyncPolicy = "full"  -> TRUE
      [] SyncPolicy = "batch" -> appends % (SyncEveryN + 1) = 0
      [] SyncPolicy = "none"  -> FALSE

\* Mutant: the default policy does not sync.
SyncDue_OnlyBatch == SyncPolicy = "batch" /\ appends % SyncEveryN = 0

\* maybeSyncLocked.
SyncDue ==
    CASE SyncPolicy = "full"  -> TRUE
      [] SyncPolicy = "batch" -> appends % SyncEveryN = 0
      [] SyncPolicy = "none"  -> FALSE

\* Mutant: NextSeq is taken for the last number.
ApplyWrite_NextForLast ==
    /\ pc = "append"
    /\ LET ops == wal[Len(wal)].ops
           first == nextSeq - Len(ops) + 2
       IN  /\ mem' = MemApply(mem, FrameEntries(Frame(first, ops)))
           /\ synced' = IF SyncDue THEN Len(wal) ELSE synced
           /\ pc' \in {"idle"} \cup IF Room THEN {"flush"} ELSE {}
    /\ UNCHANGED <<wal, nextSeq, appends, file, manVars, readVars, opVars, modeVars, budget>>

\* The sequence numbers are counted back from nextSeq, as Write does.
ApplyWrite ==
    /\ pc = "append"
    /\ LET ops == wal[Len(wal)].ops
           first == nextSeq - Len(ops) + 1
       IN  \/ /\ mem' = MemApply(mem, FrameEntries(Frame(first, ops)))
              /\ synced' = IF SyncDue THEN Len(wal) ELSE synced
              /\ pc' \in {"idle"} \cup IF Room THEN {"flush"} ELSE {}
              /\ UNCHANGED budget
           \/ /\ SyncDue
              /\ Fail("sync")
              /\ pc' = "idle"
              /\ UNCHANGED <<mem, synced>>
    /\ UNCHANGED <<wal, nextSeq, appends, file, manVars, readVars, opVars, modeVars>>

\* DB.Sync.
Sync ==
    /\ pc = "idle"
    /\ synced' = Len(wal)
    /\ UNCHANGED <<wal, nextSeq, appends, file, pc, mem, manVars, readVars, opVars, modeVars, budget>>

-----------------------------------------------------------------------------
(***************************************************************************)
(* flushLocked: the memtable becomes a table, then the log is emptied.     *)
(***************************************************************************)
Flush ==
    /\ pc = "idle"
    /\ ~ro
    /\ mem # EmptyMem
    /\ Room
    /\ pc' = "flush"
    /\ UNCHANGED <<logVars, file, mem, manVars, readVars, opVars, modeVars, budget>>

\* Mutant: the new NextFile is not persisted.
Alloc_InMemoryOnly(next) ==
    /\ man' = AllocFileName(man)
    /\ cur' = man.next
    /\ pc' = next
    /\ UNCHANGED <<mdisk, budget>>

\* AllocFileName raises NextFile in memory before it persists it.
Alloc(next) ==
    /\ man' = AllocFileName(man)
    /\ \/ /\ Persist
          /\ cur' = man.next
          /\ pc' = next
          /\ UNCHANGED budget
       \/ /\ Fail("alloc")
          /\ pc' = IF closed THEN "close" ELSE "idle"
          /\ UNCHANGED <<mdisk, cur>>

FlushAlloc ==
    /\ pc = "flush"
    /\ Alloc("create")
    /\ UNCHANGED <<logVars, file, mem, readVars, ins, modeVars>>

FlushCreate ==
    /\ pc = "create"
    /\ \/ /\ file' = [file EXCEPT ![cur] = Create]
          /\ pc' = "write"
          /\ UNCHANGED <<opVars, budget>>
       \/ /\ Fail("create")
          /\ Return
          /\ UNCHANGED file
    /\ UNCHANGED <<logVars, mem, manVars, readVars, modeVars>>

\* A refused or failed Add aborts and removes the file; a failed Finish leaves it unfinished.
FlushWrite ==
    /\ pc = "write"
    /\ \/ /\ file' = [file EXCEPT ![cur] = Finish(mem)]
          /\ pc' = "addFile"
          /\ UNCHANGED <<opVars, budget>>
       \/ /\ MayRefuse(mem)
          /\ file' = [file EXCEPT ![cur] = NoFile]
          /\ Return
          /\ UNCHANGED budget
       \/ /\ Fail("write")
          /\ file' \in {file, [file EXCEPT ![cur] = NoFile]}
          /\ Return
    /\ UNCHANGED <<logVars, mem, manVars, readVars, modeVars>>

\* On an error the new table is removed, but it stays in the manifest's memory.
FlushAddFile ==
    /\ pc = "addFile"
    /\ LET top == Highest(SeqsOf(mem))
       IN  man' = AddFile(man, FileMeta(cur, 0, top), top)
    /\ \/ /\ Persist
          /\ pc' = "install"
          /\ UNCHANGED <<file, opVars, budget>>
       \/ /\ Fail("addFile")
          /\ file' = [file EXCEPT ![cur] = NoFile]
          /\ Return
          /\ UNCHANGED mdisk
    /\ UNCHANGED <<logVars, mem, readVars, modeVars>>

\* The reader is opened, the memtable cleared and the log reset.
FlushInstall ==
    /\ pc = "install"
    /\ Return
    /\ \/ /\ Fail("openSst")
          /\ UNCHANGED <<tables, mem, logVars>>
       \/ /\ tables' = tables \cup {cur}
          /\ mem' = EmptyMem
          /\ \/ /\ Reset
                /\ nextSeq' = Highest({nextSeq} \cup SeqsOf(mem))
                /\ UNCHANGED budget
             \/ /\ Fail("resetSync")
                /\ Reset
                /\ UNCHANGED nextSeq
             \/ /\ Fail("truncate")
                /\ UNCHANGED logVars
    /\ UNCHANGED <<file, manVars, shut, modeVars>>

-----------------------------------------------------------------------------
(***************************************************************************)
(* Compact: some tables are merged into a new one, which takes their place *)
(* in the manifest before their files are removed.                         *)
(***************************************************************************)
\* A table the manifest does not list counts as level 0.
Level ==
    [n \in tables |-> IF n \in Nums(man) THEN (CHOOSE f \in man.files : f.num = n).level ELSE 0]

CompactBegin ==
    /\ pc = "idle"
    /\ ~ro
    /\ Cardinality(tables) >= CompactThreshold
    /\ CompactInputs(tables, Level) # {}
    /\ Room
    /\ Alloc("cCreate")
    /\ ins' = IF pc' = "cCreate" THEN CompactInputs(tables, Level) ELSE {}
    /\ UNCHANGED <<logVars, file, mem, readVars, modeVars>>

CompactCreate ==
    /\ pc = "cCreate"
    /\ file' = [file EXCEPT ![cur] = Create]
    /\ pc' = "cMerge"
    /\ UNCHANGED <<logVars, mem, manVars, readVars, opVars, modeVars, budget>>

(***************************************************************************)
(* An error the merge notices removes the output.  One it does not notice  *)
(* is a block of an input that cannot be read: the input's iterator just   *)
(* ends and the merge goes on with what it has read.  Keys have no order   *)
(* here, so that may be any part of the input.                             *)
(***************************************************************************)
CompactMerge ==
    /\ pc = "cMerge"
    /\ \/ /\ file' = [file EXCEPT ![cur] = Finish(MergeFiles({file[n].ents : n \in ins}))]
          /\ pc' = "cReplace"
          /\ UNCHANGED <<opVars, budget>>
       \/ /\ Fail("readInput")
          /\ \E bad \in ins : \E read \in SUBSET file[bad].ents :
                file' = [file EXCEPT ![cur] =
                            Finish(MergeFiles({file[n].ents : n \in ins \ {bad}} \cup {read}))]
          /\ pc' = "cReplace"
          /\ UNCHANGED opVars
       \/ /\ Fail("merge")
          /\ file' = [file EXCEPT ![cur] = NoFile]
          /\ Return
    /\ UNCHANGED <<logVars, mem, manVars, readVars, modeVars>>

\* Mutant: db.tables loses the inputs before the manifest has accepted their replacement.
CompactReplace_DropsReaders ==
    /\ pc = "cReplace"
    /\ LET top == Highest(SeqsOf(file[cur].ents))
       IN  man' = Replace(man, ins, FileMeta(cur, 1, top), top)
    /\ \/ /\ Persist
          /\ pc' = "cRemove"
          /\ shut' = shut \cup ins
          /\ UNCHANGED <<tables, opVars, budget>>
       \/ /\ Fail("replace")
          /\ Return
          /\ tables' = tables \ ins
          /\ shut' = shut \ ins
          /\ UNCHANGED mdisk
    /\ UNCHANGED <<logVars, file, mem, modeVars>>

\* The inputs' readers are closed before the output is opened and the manifest updated.
CompactReplace ==
    /\ pc = "cReplace"
    /\ shut' = shut \cup ins
    /\ \/ /\ LET top == Highest(SeqsOf(file[cur].ents))
             IN  man' = Replace(man, ins, FileMeta(cur, 1, top), top)
          /\ \/ /\ Persist
                /\ pc' = "cRemove"
                /\ UNCHANGED <<opVars, budget>>
             \/ /\ Fail("replace")
                /\ Return
                /\ UNCHANGED mdisk
       \/ /\ Fail("openOut")
          /\ Return
          /\ UNCHANGED manVars
    /\ UNCHANGED <<logVars, file, mem, tables, modeVars>>

\* The inputs' files go one by one, in any order (the range over a Go map).
CompactRemove(n) ==
    /\ pc = "cRemove"
    /\ n \in ins
    /\ file[n].st # "absent"
    /\ file' = [file EXCEPT ![n] = NoFile]
    /\ UNCHANGED <<logVars, pc, mem, manVars, readVars, opVars, modeVars, budget>>

CompactInstall ==
    /\ pc = "cRemove"
    /\ \A n \in ins : file[n].st = "absent"
    /\ tables' = (tables \ ins) \cup {cur}
    /\ shut' = shut \ ins
    /\ Return
    /\ UNCHANGED <<logVars, file, mem, manVars, modeVars, budget>>

-----------------------------------------------------------------------------
(***************************************************************************)
(* Close, and the two kinds of crash.                                      *)
(***************************************************************************)
Close ==
    /\ pc = "idle"
    /\ closed' = TRUE
    /\ IF ~ro /\ mem # EmptyMem
       THEN Room /\ pc' = "flush"
       ELSE pc' = "close"
    /\ UNCHANGED <<logVars, file, mem, manVars, readVars, opVars, ro, budget>>

\* wal.Log.Close syncs; an error does not keep the rest of closeUnlocked from happening.
CloseFinish ==
    /\ pc = "close"
    /\ \/ synced' = Len(wal) /\ UNCHANGED budget
       \/ Fail("sync") /\ UNCHANGED synced
    /\ Vanish
    /\ UNCHANGED <<wal, file, mdisk>>

\* A frame is cut short: its last bytes were not written, or not yet synced.
ProcessCrash ==
    /\ "process" \in Crashes
    /\ pc # "down"
    /\ \/ wal' = wal
       \/ pc = "idle" /\ ~ro /\ nextSeq < MaxSeq /\ wal' = Append(wal, Torn)
    /\ Vanish
    /\ UNCHANGED <<synced, file, mdisk, budget>>

PowerLoss ==
    /\ "power" \in Crashes
    /\ \E n \in synced .. Len(wal) :
          /\ synced' = n
          /\ \/ wal' = Prefix(wal, n)
             \/ n < Len(wal) /\ wal' = Append(Prefix(wal, n), Torn)
    /\ Vanish
    /\ UNCHANGED <<file, mdisk, budget>>

-----------------------------------------------------------------------------
Init ==
    /\ wal = << >> /\ synced = 0
    /\ file = [n \in 1 .. MaxFile |-> NoFile]
    /\ mdisk = NewManifest /\ man = NewManifest
    /\ pc = "down" /\ closed = FALSE /\ ro = FALSE
    /\ mem = EmptyMem /\ nextSeq = 0 /\ appends = 0
    /\ tables = {} /\ shut = {} /\ cur = 0 /\ ins = {}
    /\ budget = MaxFaults

Call ==
    \/ \E readOnly \in BOOLEAN : Open(readOnly)
    \/ OpenAbandon
    \/ OpenFail
    \/ \E k \in Key, v \in Value : Put(k, v)
    \/ \E k \in Key : Delete(k)
    \/ \E batch \in Batches : Write(batch)
    \/ Sync
    \/ Flush
    \/ CompactBegin
    \/ Close

Continue ==
    \/ ApplyWrite
    \/ FlushAlloc \/ FlushCreate \/ FlushWrite \/ FlushAddFile \/ FlushInstall
    \/ CompactCreate \/ CompactMerge \/ CompactReplace
    \/ \E n \in ins : CompactRemove(n)
    \/ CompactInstall
    \/ CloseFinish

Next == Call \/ Continue \/ ProcessCrash \/ PowerLoss

Spec == Init /\ [][Next]_vars
=============================================================================
