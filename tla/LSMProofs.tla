----------------------------- MODULE LSMProofs -----------------------------
(***************************************************************************)
(* Safety of the engine, for every value of the constants and whatever     *)
(* calls fail: its types, the names of new tables, the tables the manifest *)
(* lists, the frames of the log, and the sequence numbers.                 *)
(***************************************************************************)
EXTENDS LSMProperties, OperatorProofs

FrameType == [first : 0 .. MaxSeq, ops : Seq(Op)]

\* Between the append and the update of the memtable the last frame of the log has the numbers that
\* Write counts back from nextSeq.
AppendedFrame ==
    pc = "append" =>
        /\ wal # << >>
        /\ wal[Len(wal)].first = nextSeq - Len(wal[Len(wal)].ops) + 1

\* A flush that has not allocated its file yet will find a number for it.
FlushHasRoom == pc = "flush" => man.next <= MaxFile

\* Without a process there is no reader, closed or not.
NoReaders == pc = "down" => shut = {}

TypeInv == TypeOK /\ AppendedFrame /\ FlushHasRoom /\ NoReaders

USE BoundsAssumption

-----------------------------------------------------------------------------
\* The store starts well typed.
LEMMA TypeInit == Init => TypeInv
<1> SUFFICES ASSUME Init PROVE TypeInv
  OBVIOUS
<1>1. LogType
  BY DEF Init, LogType
<1>2. TableType
  BY DEF Init, TableType, NoFile, EmptyMem
<1>3. NewManifest \in ManifestState
  BY DEF NewManifest, ManifestState
<1>4. OperationType
  BY DEF Init, OperationType, Steps, CompactSteps
<1>5. ModeType
  BY DEF Init, ModeType
<1> QED
  BY <1>1, <1>2, <1>3, <1>4, <1>5 DEF Init, TypeInv, TypeOK, AppendedFrame, FlushHasRoom, NoReaders

\* A sequence of frames whose numbers are within the bound.
LogOK(log) ==
    /\ log \in Seq(FrameType)
    /\ \A i \in 1 .. Len(log) : log[i].first + Len(log[i].ops) <= MaxSeq + 1

\* The log is one, and so is every part of it from its start.
LEMMA PrefixIsLog ==
    ASSUME LogType
    PROVE  /\ LogOK(wal)
           /\ \A n \in 0 .. Len(wal) - 1 : LogOK(Prefix(wal, n))
<1>1. LogOK(wal) /\ wal \in Seq(FrameType) /\ Len(wal) \in Nat
  BY LenProperties DEF LogType, FrameType, LogOK
<1>2. ASSUME NEW n \in 0 .. Len(wal) - 1 PROVE LogOK(Prefix(wal, n))
  <2>1. n \in 0 .. Len(wal)
    BY <1>1
  <2>2. Prefix(wal, n) \in Seq(FrameType) /\ Len(Prefix(wal, n)) = n
        /\ \A i \in 1 .. n : Prefix(wal, n)[i] = wal[i]
    BY <1>1, <2>1, PrefixProperty
  <2> QED
    BY <1>1, <2>1, <2>2 DEF LogOK
<1> QED
  BY <1>1, <1>2

\* What recovery reads from the log is well typed.
LEMMA ReplayType ==
    ASSUME NEW log, LogOK(log)
    PROVE  /\ LogOK(recoverTail(log))
           /\ Len(recoverTail(log)) = ValidLen(log)
           /\ ValidLen(log) \in 0 .. Len(log)
           /\ Replay(log) \subseteq BoundedEntry
           /\ recoveredSeq(log) \in 0 .. MaxSeq
<1>1. log \in Seq(FrameType) /\ \A i \in 1 .. Len(log) : log[i].first + Len(log[i].ops) <= MaxSeq + 1
  BY DEF LogOK
<1>2. /\ recoverTail(log) \in Seq(FrameType)
      /\ Len(recoverTail(log)) = ValidLen(log)
      /\ ValidLen(log) \in 0 .. Len(log)
      /\ \A i \in 1 .. ValidLen(log) : recoverTail(log)[i] = log[i]
  BY <1>1, RecoverTailProperty
<1>3. Len(log) \in Nat
  BY <1>1, LenProperties
<1>4. \A i \in 1 .. ValidLen(log) :
         recoverTail(log)[i].first + Len(recoverTail(log)[i].ops) <= MaxSeq + 1
  BY <1>1, <1>2, <1>3
<1>5. LogEntries(recoverTail(log)) \subseteq BoundedEntry
  BY <1>2, <1>4, LogEntriesType DEF FrameType, BoundedEntry
<1>6. recoveredSeq(log) \in 0 .. MaxSeq
  BY <1>5, HighestSeqType DEF recoveredSeq, BoundedEntry
<1> QED
  BY <1>2, <1>4, <1>5, <1>6 DEF Replay, LogOK

\* The number Open continues from is within the bound.
LEMMA RecoveredSeqType ==
    ASSUME NEW log, LogOK(log), mdisk \in ManifestState
    PROVE  RecoveredSeq(log) \in 0 .. MaxSeq
<1>1. recoveredSeq(log) \in 0 .. MaxSeq
  BY ReplayType
<1>2. MaxSeqAmongFiles(mdisk) \in 0 .. MaxSeq
  <2>1. {f.maxSeq : f \in mdisk.files} \in SUBSET (0 .. MaxSeq)
    BY DEF ManifestState
  <2> QED
    BY <2>1, HighestProperty DEF MaxSeqAmongFiles
<1>3. mdisk.logSeq \in 0 .. MaxSeq
  BY DEF ManifestState
<1> QED
  BY <1>1, <1>2, <1>3, HighestProperty DEF RecoveredSeq

-----------------------------------------------------------------------------
\* Steps that leave a part of the state alone leave its type alone.
LEMMA LogUnchanged == LogType /\ UNCHANGED logVars => LogType'
  BY DEF LogType, logVars

\* The same for the tables and the memtable.
LEMMA TableUnchanged == TableType /\ UNCHANGED <<file, mem>> => TableType'
  BY DEF TableType

\* The same for the flags.
LEMMA ModeUnchanged == ModeType /\ UNCHANGED modeVars => ModeType'
  BY DEF ModeType, modeVars

\* The type of a table file that is written or removed.
LEMMA FileUpdateType ==
    ASSUME TableType, NEW n \in 1 .. MaxFile, UNCHANGED mem,
           NEW f \in [st : {"absent", "partial", "complete"}, ents : SUBSET BoundedEntry],
           file' = [file EXCEPT ![n] = f]
    PROVE  TableType'
  BY DEF TableType, BoundedEntry

\* The files that are created, finished and removed are table files.
LEMMA FileKinds ==
    /\ NoFile \in [st : {"absent", "partial", "complete"}, ents : SUBSET BoundedEntry]
    /\ Create \in [st : {"absent", "partial", "complete"}, ents : SUBSET BoundedEntry]
    /\ \A E \in SUBSET BoundedEntry :
          Finish(E) \in [st : {"absent", "partial", "complete"}, ents : SUBSET BoundedEntry]
  BY DEF NoFile, Create, Finish

\* A manifest stays one when a number is taken or a table is listed or replaced.
LEMMA AllocType ==
    ASSUME NEW m \in ManifestState, m.next <= MaxFile
    PROVE  AllocFileName(m) \in ManifestState
  BY DEF ManifestState, AllocFileName

\* A table is listed (Manifest.AddFile).
LEMMA AddFileType ==
    ASSUME NEW m \in ManifestState, NEW n \in 1 .. MaxFile, NEW l \in {0, 1}, NEW s \in 0 .. MaxSeq
    PROVE  AddFile(m, FileMeta(n, l, s), s) \in ManifestState
<1>1. FileMeta(n, l, s) \in [num : 1 .. MaxFile, level : {0, 1}, maxSeq : 0 .. MaxSeq]
  BY DEF FileMeta
<1> QED
  BY <1>1 DEF ManifestState, AddFile

\* The inputs of a compaction are replaced by its output (Manifest.Replace).
LEMMA ReplaceType ==
    ASSUME NEW m \in ManifestState, NEW n \in 1 .. MaxFile, NEW l \in {0, 1}, NEW s \in 0 .. MaxSeq,
           NEW R
    PROVE  Replace(m, R, FileMeta(n, l, s), s) \in ManifestState
<1>1. FileMeta(n, l, s) \in [num : 1 .. MaxFile, level : {0, 1}, maxSeq : 0 .. MaxSeq]
  BY DEF FileMeta
<1> QED
  BY <1>1 DEF ManifestState, Replace

\* The process ends: what is in memory is reset.
LEMMA VanishType ==
    ASSUME TypeInv, Vanish, UNCHANGED <<file, mdisk>>, budget' \in 0 .. MaxFaults
    PROVE  /\ TableType'
           /\ man' \in ManifestState
           /\ mdisk' \in ManifestState
           /\ OperationType'
           /\ ModeType'
           /\ AppendedFrame'
           /\ FlushHasRoom'
           /\ NoReaders'
<1>1. TableType'
  BY DEF TypeInv, TypeOK, TableType, Vanish, EmptyMem
<1>2. man' \in ManifestState /\ mdisk' \in ManifestState
  BY DEF TypeInv, TypeOK, Vanish
<1>3. OperationType'
  BY DEF OperationType, Vanish, Steps, CompactSteps
<1>4. ModeType'
  BY DEF ModeType, Vanish
<1> QED
  BY <1>1, <1>2, <1>3, <1>4 DEF AppendedFrame, FlushHasRoom, NoReaders, Vanish

-----------------------------------------------------------------------------
\* Open recovers the log, replays it into the memtable and opens the tables.
LEMMA OpenReadingType ==
    ASSUME TypeInv, NEW readOnly \in BOOLEAN, NEW scanned, NEW replayed, LogOK(scanned), LogOK(replayed),
           OpenReading(readOnly, scanned, replayed), budget' \in 0 .. MaxFaults, closed' \in BOOLEAN,
           pc' \in {"idle", "flush"}, pc' = "flush" => mdisk.next <= MaxFile
    PROVE  TypeInv'
<1> USE DEF TypeInv, TypeOK
<1>1. LogType'
  <2>1. LogOK(wal') /\ Len(wal') = ValidLen(scanned)
    BY ReplayType DEF OpenReading
  <2>2. synced' \in 0 .. Len(wal')
    <3>1. ValidLen(scanned) \in Nat /\ synced \in Nat
      BY ReplayType DEF LogType
    <3> QED
      BY <2>1, <3>1 DEF OpenReading
  <2>3. nextSeq' \in 0 .. MaxSeq /\ appends' \in Nat
    BY RecoveredSeqType DEF OpenReading
  <2> QED
    BY <2>1, <2>2, <2>3 DEF LogType, LogOK, FrameType
<1>2. TableType'
  <2>1. mem' \in SUBSET BoundedEntry
    BY ReplayType, TopIsSubset DEF OpenReading, MemApply, EmptyMem
  <2> QED
    BY <2>1 DEF OpenReading, TableType, BoundedEntry
<1>3. man' \in ManifestState /\ mdisk' \in ManifestState
  BY DEF OpenReading
<1>4. OperationType'
  <2>1. Nums(mdisk) \in SUBSET (1 .. MaxFile)
    BY DEF Nums, ManifestState
  <2>2. shut = {} /\ ins = {} /\ cur = 0
    BY DEF OpenReading, OperationType, CompactSteps, NoReaders
  <2>3. tables' \in SUBSET (1 .. MaxFile) /\ shut' = {} /\ ins' = {} /\ cur' = 0
    BY <2>1, <2>2 DEF OpenReading, OpenTables
  <2> QED
    BY <2>3 DEF OperationType, Steps, FlushSteps, CompactSteps
<1>5. ModeType'
  BY DEF OpenReading, ModeType
<1>6. AppendedFrame' /\ FlushHasRoom' /\ NoReaders'
  BY DEF OpenReading, AppendedFrame, FlushHasRoom, Room, NoReaders
<1> QED
  BY <1>1, <1>2, <1>3, <1>4, <1>5, <1>6

\* Open, whatever part of the log it can read.
LEMMA OpenType ==
    ASSUME TypeInv, NEW readOnly \in BOOLEAN, Open(readOnly)
    PROVE  TypeInv'
<1>1. LogType /\ budget \in 0 .. MaxFaults
  BY DEF TypeInv, TypeOK, OperationType
<1>2. budget' \in 0 .. MaxFaults
  BY <1>1 DEF Open, Fail
<1>3. closed' \in BOOLEAN /\ pc' = "idle"
  BY DEF Open, TypeInv, TypeOK, ModeType
<1> QED
  BY <1>1, <1>2, <1>3, PrefixIsLog, OpenReadingType DEF Open

\* An Open that fails after the replay goes on to flush what it has replayed.
LEMMA OpenAbandonType ==
    ASSUME TypeInv, OpenAbandon
    PROVE  TypeInv'
<1>1. LogType /\ budget' \in 0 .. MaxFaults
  BY DEF TypeInv, TypeOK, OperationType, OpenAbandon, Fail
<1>2. closed' \in BOOLEAN /\ pc' = "flush" /\ mdisk.next <= MaxFile
  BY DEF OpenAbandon
<1>3. LogOK(wal)
  BY <1>1, PrefixIsLog
<1> QED
  BY <1>1, <1>2, <1>3, OpenReadingType DEF OpenAbandon

\* An Open that fails on a table, or has nothing to flush.
LEMMA OpenFailType ==
    ASSUME TypeInv, OpenFail
    PROVE  TypeInv'
<1> USE DEF TypeInv, TypeOK
<1>1. LogType'
  <2>1. LogOK(wal') /\ Len(wal') = ValidLen(wal) /\ synced' = ValidLen(wal)
    BY PrefixIsLog, ReplayType DEF OpenFail
  <2>2. ValidLen(wal) \in Nat
    BY PrefixIsLog, ReplayType DEF LogOK
  <2> QED
    BY <2>1, <2>2 DEF OpenFail, LogType, LogOK, FrameType
<1>2. TableType' /\ ModeType'
  BY TableUnchanged, ModeUnchanged DEF OpenFail
<1>3. OperationType'
  BY DEF OpenFail, OperationType, Fail, readVars, opVars
<1> QED
  BY <1>1, <1>2, <1>3 DEF OpenFail, AppendedFrame, FlushHasRoom, NoReaders, readVars

\* Put, Delete and Write that fail before a byte is written have used up their numbers.
LEMMA RefusedFrameType ==
    ASSUME TypeInv, NEW ops \in Seq(Op), ops # << >>, AppendFrame(ops), UNCHANGED wal
    PROVE  TypeInv'
<1> USE DEF TypeInv, TypeOK
<1>1. Len(ops) \in Nat \ {0}
  BY EmptySeq
<1>2. wal # Append(wal, Frame(nextSeq + 1, ops))
  <2>1. wal \in Seq(FrameType) /\ Len(wal) \in Nat
    BY LenProperties DEF LogType, FrameType
  <2>2. Frame(nextSeq + 1, ops) \in FrameType
    BY <1>1 DEF AppendFrame, Frame, FrameType, LogType
  <2> QED
    BY <2>1, <2>2, AppendProperties
<1>3. pc' = "idle" /\ budget' \in 0 .. MaxFaults
  BY <1>2 DEF AppendFrame, Fail, OperationType
<1>4. LogType'
  <2>1. nextSeq' \in 0 .. MaxSeq
    BY <1>1 DEF AppendFrame, LogType
  <2>2. synced' = synced /\ appends' = appends
    BY <1>2 DEF AppendFrame
  <2> QED
    BY <2>1, <2>2 DEF LogType
<1>5. TableType' /\ ModeType'
  BY TableUnchanged, ModeUnchanged DEF AppendFrame
<1>6. UNCHANGED <<man, mdisk, tables, shut, cur, ins>> /\ pc = "idle"
  BY DEF AppendFrame, manVars, readVars, opVars
<1>7. OperationType'
  BY <1>3, <1>6 DEF OperationType
<1> QED
  BY <1>3, <1>4, <1>5, <1>6, <1>7 DEF AppendedFrame, FlushHasRoom, NoReaders

\* Put, Delete and Write that append a frame, or half of one.
LEMMA AppendedFrameType ==
    ASSUME TypeInv, NEW ops \in Seq(Op), ops # << >>, AppendFrame(ops), wal' # wal
    PROVE  TypeInv'
<1> USE DEF TypeInv, TypeOK
<1> DEFINE f == Frame(nextSeq + 1, ops)
<1>1. Len(ops) \in Nat \ {0}
  BY EmptySeq
<1>2. f \in FrameType /\ f.first + Len(f.ops) <= MaxSeq + 1 /\ f.ops = ops /\ f.first = nextSeq + 1
  BY <1>1 DEF AppendFrame, Frame, FrameType, LogType
<1>3. Torn \in FrameType /\ Torn.first + Len(Torn.ops) <= MaxSeq + 1
  BY DEF Torn, Frame, FrameType
<1> HIDE DEF f
<1>4. PICK g \in {f, Torn} : wal' = Append(wal, g) /\ (pc' = "append" => g = f)
  BY DEF AppendFrame, f, OperationType
<1>5. wal \in Seq(FrameType) /\ Len(wal) \in Nat
  BY LenProperties DEF LogType, FrameType
<1>6. /\ wal' \in Seq(FrameType)
      /\ wal' # << >>
      /\ Len(wal') = Len(wal) + 1
      /\ \A i \in 1 .. Len(wal) : wal'[i] = wal[i]
      /\ wal'[Len(wal) + 1] = g
  BY <1>2, <1>3, <1>4, <1>5, AppendProperties
<1>7. LogType'
  <2>1. ASSUME NEW i \in 1 .. Len(wal') PROVE wal'[i].first + Len(wal'[i].ops) <= MaxSeq + 1
    <3>1. CASE i = Len(wal) + 1
      BY <3>1, <1>2, <1>3, <1>4, <1>6
    <3>2. CASE i # Len(wal) + 1
      <4>1. i \in 1 .. Len(wal)
        BY <3>2, <1>5, <1>6
      <4>2. wal[i].first + Len(wal[i].ops) <= MaxSeq + 1
        BY <4>1 DEF LogType
      <4> QED
        BY <4>1, <4>2, <1>6
    <3> QED
      BY <3>1, <3>2
  <2>2. nextSeq' \in 0 .. MaxSeq /\ appends' \in Nat /\ synced' = synced
    BY <1>1 DEF AppendFrame, LogType
  <2>3. synced' \in 0 .. Len(wal')
    BY <1>5, <1>6, <2>2 DEF LogType
  <2> QED
    BY <1>6, <2>1, <2>2, <2>3 DEF LogType, FrameType
<1>8. TableType' /\ ModeType'
  BY TableUnchanged, ModeUnchanged DEF AppendFrame
<1>9. man' \in ManifestState /\ mdisk' \in ManifestState
  BY DEF AppendFrame, manVars
<1>10. OperationType'
  BY DEF AppendFrame, OperationType, readVars, opVars, Fail, Steps, CompactSteps
<1>11. AppendedFrame'
  <2> SUFFICES ASSUME pc' = "append"
               PROVE  /\ wal' # << >>
                      /\ wal'[Len(wal')].first = nextSeq' - Len(wal'[Len(wal')].ops) + 1
    BY DEF AppendedFrame
  <2>1. g = f /\ wal'[Len(wal')] = f
    BY <1>4, <1>6
  <2>2. nextSeq' = nextSeq + Len(ops) /\ nextSeq \in Nat
    BY DEF AppendFrame, LogType
  <2>3. f.first = nextSeq' - Len(ops) + 1
    BY <1>1, <1>2, <2>2
  <2>4. wal'[Len(wal')].first = f.first /\ Len(wal'[Len(wal')].ops) = Len(ops)
    BY <1>2, <2>1
  <2> QED
    BY <1>6, <2>3, <2>4
<1>12. FlushHasRoom' /\ NoReaders'
  BY DEF AppendFrame, FlushHasRoom, NoReaders, manVars, readVars, Fail
<1> QED
  BY <1>7, <1>8, <1>9, <1>10, <1>11, <1>12

\* Put, Delete and Write.
LEMMA AppendFrameType ==
    ASSUME TypeInv, NEW ops \in Seq(Op), ops # << >>, AppendFrame(ops)
    PROVE  TypeInv'
<1>1. CASE UNCHANGED wal
  BY <1>1, RefusedFrameType
<1>2. CASE wal' # wal
  BY <1>2, AppendedFrameType
<1> QED
  BY <1>1, <1>2

\* The sequence numbers that the memtable is given are those of the frame just appended.
LEMMA ApplyWriteType ==
    ASSUME TypeInv, ApplyWrite
    PROVE  TypeInv'
<1> USE DEF TypeInv, TypeOK
<1> DEFINE g == wal[Len(wal)]
<1>1. wal # << >> /\ g.first = nextSeq - Len(g.ops) + 1
  BY DEF AppendedFrame, ApplyWrite
<1>2. wal \in Seq(FrameType)
  BY DEF LogType, FrameType
<1>3. Len(wal) \in Nat /\ Len(wal) \in 1 .. Len(wal)
  BY <1>1, <1>2, LenProperties, EmptySeq
<1>4. g \in FrameType /\ g.first + Len(g.ops) <= MaxSeq + 1
  BY <1>2, <1>3, ElementOfSeq DEF LogType
<1> HIDE DEF g
<1>5. Frame(nextSeq - Len(g.ops) + 1, g.ops) = g
  BY <1>1, <1>4 DEF Frame, FrameType, g
<1>6. FrameEntries(g) \subseteq BoundedEntry
  BY <1>4, FrameEntriesType DEF FrameType, BoundedEntry
<1>7. mem' = mem \/ mem' = Top(mem \cup FrameEntries(g))
  BY <1>5 DEF ApplyWrite, MemApply, g
<1>8. TableType'
  <2>1. mem' \in SUBSET BoundedEntry
    BY <1>6, <1>7, TopIsSubset DEF TableType
  <2> QED
    BY <2>1 DEF ApplyWrite, TableType, BoundedEntry
<1>9. LogType'
  <2>1. synced' = Len(wal) \/ synced' = synced
    BY DEF ApplyWrite
  <2>2. synced' \in 0 .. Len(wal)
    BY <1>3, <2>1 DEF LogType
  <2>3. UNCHANGED <<wal, nextSeq, appends>>
    BY DEF ApplyWrite
  <2> QED
    BY <2>2, <2>3 DEF LogType
<1>10. pc = "append" /\ pc' \in {"idle", "flush"} /\ (pc' = "flush" => Room)
  BY DEF ApplyWrite
<1>11. budget' \in 0 .. MaxFaults
  BY DEF ApplyWrite, Fail, OperationType
<1>12. UNCHANGED <<man, mdisk, tables, shut, cur, ins, closed, ro>>
  BY DEF ApplyWrite, manVars, readVars, opVars, modeVars
<1>13. OperationType'
  BY <1>10, <1>11, <1>12 DEF OperationType, Steps, FlushSteps, CompactSteps
<1>14. ModeType' /\ man' \in ManifestState /\ mdisk' \in ManifestState
  BY <1>12 DEF ModeType
<1> QED
  BY <1>8, <1>9, <1>10, <1>12, <1>13, <1>14 DEF AppendedFrame, FlushHasRoom, NoReaders, Room

\* DB.Sync.
LEMMA SyncType ==
    ASSUME TypeInv, Sync
    PROVE  TypeInv'
<1> USE DEF TypeInv, TypeOK
<1>1. LogType'
  BY LenProperties DEF Sync, LogType
<1>2. TableType' /\ ModeType'
  BY TableUnchanged, ModeUnchanged DEF Sync
<1>3. OperationType'
  BY DEF Sync, OperationType, readVars, opVars
<1> QED
  BY <1>1, <1>2, <1>3 DEF Sync, AppendedFrame, FlushHasRoom, NoReaders, manVars

-----------------------------------------------------------------------------
\* A failed call is paid for.
LEMMA FailBudget ==
    ASSUME OperationType, NEW site, Fail(site)
    PROVE  budget' \in 0 .. MaxFaults
  BY DEF OperationType, Fail

\* Taking a file number: it is within the bound, or the operation ends.
LEMMA AllocStep ==
    ASSUME TypeInv, Room, cur = 0, NEW next, Alloc(next)
    PROVE  /\ man' \in ManifestState
           /\ mdisk' \in ManifestState
           /\ budget' \in 0 .. MaxFaults
           /\ \/ pc' = next /\ cur' \in 1 .. MaxFile
              \/ pc' \in {"idle", "close"} /\ cur' = 0
<1> USE DEF TypeInv, TypeOK
<1>1. AllocFileName(man) \in ManifestState
  BY AllocType DEF Room
<1>2. man.next \in 1 .. MaxFile
  BY DEF Room, ManifestState
<1>3. budget' \in 0 .. MaxFaults
  BY FailBudget DEF Alloc, OperationType, Persist
<1> QED
  BY <1>1, <1>2, <1>3 DEF Alloc, Persist

\* The operation ends: it holds no file and no inputs any more.
LEMMA ReturnType ==
    ASSUME Return, tables' \in SUBSET (1 .. MaxFile), shut' \subseteq tables',
           budget' \in 0 .. MaxFaults
    PROVE  OperationType' /\ AppendedFrame' /\ FlushHasRoom' /\ NoReaders'
<1>1. pc' \in {"idle", "close"} /\ cur' = 0 /\ ins' = {}
  BY DEF Return
<1> QED
  BY <1>1 DEF OperationType, Steps, FlushSteps, CompactSteps, AppendedFrame, FlushHasRoom, NoReaders

\* The operation goes on to a step that has its file.
LEMMA GoOnType ==
    ASSUME TypeInv, NEW s, pc' = s, UNCHANGED <<tables, shut, cur, ins>>, budget' \in 0 .. MaxFaults,
           \/ pc \in {"create", "write", "addFile"} /\ s \in {"write", "addFile", "install"}
           \/ pc \in CompactSteps /\ s \in CompactSteps
    PROVE  OperationType' /\ AppendedFrame' /\ FlushHasRoom' /\ NoReaders'
  BY DEF TypeInv, TypeOK, OperationType, Steps, FlushSteps, CompactSteps, AppendedFrame, FlushHasRoom,
         NoReaders

-----------------------------------------------------------------------------
\* The steps of flushLocked: it begins.
LEMMA FlushType ==
    ASSUME TypeInv, Flush
    PROVE  TypeInv'
<1> USE DEF TypeInv, TypeOK
<1>1. LogType' /\ TableType' /\ ModeType'
  BY LogUnchanged, TableUnchanged, ModeUnchanged DEF Flush
<1>2. OperationType'
  BY DEF Flush, OperationType, readVars, opVars, Steps, FlushSteps, CompactSteps
<1> QED
  BY <1>1, <1>2 DEF Flush, AppendedFrame, FlushHasRoom, NoReaders, Room, manVars

\* flushLocked takes a file number, or fails to.
LEMMA FlushAllocType ==
    ASSUME TypeInv, FlushAlloc
    PROVE  TypeInv'
<1> USE DEF TypeInv, TypeOK
<1>1. LogType' /\ TableType' /\ ModeType'
  BY LogUnchanged, TableUnchanged, ModeUnchanged DEF FlushAlloc
<1>2. cur = 0 /\ ins = {} /\ Room
  BY DEF FlushAlloc, OperationType, CompactSteps, FlushHasRoom, Room
<1>3. /\ man' \in ManifestState
      /\ mdisk' \in ManifestState
      /\ budget' \in 0 .. MaxFaults
      /\ \/ pc' = "create" /\ cur' \in 1 .. MaxFile
         \/ pc' \in {"idle", "close"} /\ cur' = 0
  BY <1>2, AllocStep DEF FlushAlloc
<1>4. OperationType'
  BY <1>2, <1>3 DEF FlushAlloc, OperationType, readVars, Steps, FlushSteps, CompactSteps
<1> QED
  BY <1>1, <1>3, <1>4 DEF AppendedFrame, FlushHasRoom, NoReaders

\* flushLocked creates the table, or fails to.
LEMMA FlushCreateType ==
    ASSUME TypeInv, FlushCreate
    PROVE  TypeInv'
<1> USE DEF TypeInv, TypeOK
<1>1. LogType' /\ ModeType' /\ man' \in ManifestState /\ mdisk' \in ManifestState
  BY LogUnchanged, ModeUnchanged DEF FlushCreate, manVars
<1>2. cur \in 1 .. MaxFile
  BY DEF FlushCreate, OperationType
<1>3. TableType'
  BY <1>2, FileUpdateType, FileKinds, TableUnchanged DEF FlushCreate
<1>4. OperationType' /\ AppendedFrame' /\ FlushHasRoom' /\ NoReaders'
  <2>1. tables' = tables /\ shut' = shut
    BY DEF FlushCreate, readVars
  <2>2. CASE Fail("create") /\ Return
    BY <2>1, <2>2, ReturnType, FailBudget DEF OperationType
  <2>3. CASE pc' = "write" /\ UNCHANGED <<opVars, budget>>
    BY <2>1, <2>3, GoOnType DEF FlushCreate, OperationType, opVars
  <2> QED
    BY <2>2, <2>3 DEF FlushCreate
<1> QED
  BY <1>1, <1>3, <1>4

\* flushLocked writes and finishes the table, or gives it up.
LEMMA FlushWriteType ==
    ASSUME TypeInv, FlushWrite
    PROVE  TypeInv'
<1> USE DEF TypeInv, TypeOK
<1>1. LogType' /\ ModeType' /\ man' \in ManifestState /\ mdisk' \in ManifestState
  BY LogUnchanged, ModeUnchanged DEF FlushWrite, manVars
<1>2. cur \in 1 .. MaxFile
  BY DEF FlushWrite, OperationType
<1>3. TableType'
  <2>1. Finish(mem) \in [st : {"absent", "partial", "complete"}, ents : SUBSET BoundedEntry]
    BY FileKinds DEF TableType
  <2> QED
    BY <1>2, <2>1, FileUpdateType, FileKinds, TableUnchanged DEF FlushWrite
<1>4. OperationType' /\ AppendedFrame' /\ FlushHasRoom' /\ NoReaders'
  <2>1. tables' = tables /\ shut' = shut
    BY DEF FlushWrite, readVars
  <2>2. CASE Return /\ (Fail("write") \/ UNCHANGED budget)
    BY <2>1, <2>2, ReturnType, FailBudget DEF OperationType
  <2>3. CASE pc' = "addFile" /\ UNCHANGED <<opVars, budget>>
    BY <2>1, <2>3, GoOnType DEF FlushWrite, OperationType, opVars
  <2> QED
    BY <2>2, <2>3 DEF FlushWrite
<1> QED
  BY <1>1, <1>3, <1>4

\* flushLocked lists the table: its highest sequence number is within the bound.
LEMMA FlushAddFileType ==
    ASSUME TypeInv, FlushAddFile
    PROVE  TypeInv'
<1> USE DEF TypeInv, TypeOK
<1>1. LogType' /\ ModeType'
  BY LogUnchanged, ModeUnchanged DEF FlushAddFile, Persist
<1>2. cur \in 1 .. MaxFile
  BY DEF FlushAddFile, OperationType, Persist
<1>3. TableType'
  BY <1>2, FileUpdateType, FileKinds, TableUnchanged DEF FlushAddFile, Persist
<1>4. man' \in ManifestState /\ mdisk' \in ManifestState
  <2>1. Highest(SeqsOf(mem)) \in 0 .. MaxSeq
    BY HighestSeqType DEF TableType, BoundedEntry
  <2>2. AddFile(man, FileMeta(cur, 0, Highest(SeqsOf(mem))), Highest(SeqsOf(mem))) \in ManifestState
    BY <1>2, <2>1, AddFileType
  <2> QED
    BY <2>2 DEF FlushAddFile, Persist
<1>5. OperationType' /\ AppendedFrame' /\ FlushHasRoom' /\ NoReaders'
  <2>1. tables' = tables /\ shut' = shut
    BY DEF FlushAddFile, readVars, Persist
  <2>2. CASE Return /\ Fail("addFile")
    BY <2>1, <2>2, ReturnType, FailBudget DEF OperationType
  <2>3. CASE pc' = "install" /\ UNCHANGED <<opVars, budget>>
    BY <2>1, <2>3, GoOnType DEF FlushAddFile, OperationType, opVars, Persist
  <2> QED
    BY <2>2, <2>3 DEF FlushAddFile, Persist
<1> QED
  BY <1>1, <1>3, <1>4, <1>5

\* flushLocked opens the table, clears the memtable and resets the log.
LEMMA FlushInstallType ==
    ASSUME TypeInv, FlushInstall
    PROVE  TypeInv'
<1> USE DEF TypeInv, TypeOK
<1>1. ModeType' /\ man' \in ManifestState /\ mdisk' \in ManifestState
  BY ModeUnchanged DEF FlushInstall, manVars, Reset
<1>2. cur \in 1 .. MaxFile
  BY DEF FlushInstall, OperationType, Reset
<1>3. TableType'
  BY DEF FlushInstall, TableType, EmptyMem, Reset
<1>4. LogType'
  <2>1. CASE UNCHANGED logVars
    BY <2>1, LogUnchanged
  <2>2. CASE wal' = << >> /\ synced' = 0 /\ appends' = 0 /\ nextSeq' = Highest({nextSeq} \cup SeqsOf(mem))
    <3>1. {nextSeq} \cup SeqsOf(mem) \in SUBSET (0 .. MaxSeq)
      BY DEF LogType, TableType, BoundedEntry, SeqsOf
    <3>2. nextSeq' \in 0 .. MaxSeq
      BY <2>2, <3>1, HighestProperty
    <3> QED
      BY <2>2, <3>2 DEF LogType
  <2>3. CASE wal' = << >> /\ synced' = 0 /\ appends' = 0 /\ nextSeq' = nextSeq
    BY <2>3 DEF LogType
  <2> QED
    BY <2>1, <2>2, <2>3 DEF FlushInstall, Reset
<1>5. OperationType' /\ AppendedFrame' /\ FlushHasRoom' /\ NoReaders'
  <2>1. tables' \in SUBSET (1 .. MaxFile) /\ shut' \subseteq tables'
    BY <1>2 DEF FlushInstall, OperationType, Reset
  <2>2. budget' \in 0 .. MaxFaults
    BY FailBudget DEF FlushInstall, OperationType, Reset
  <2> QED
    BY <2>1, <2>2, ReturnType DEF FlushInstall, Reset
<1> QED
  BY <1>1, <1>3, <1>4, <1>5

-----------------------------------------------------------------------------
\* The steps of Compact: it settles on its inputs and takes a file number.
LEMMA CompactBeginType ==
    ASSUME TypeInv, CompactBegin
    PROVE  TypeInv'
<1> USE DEF TypeInv, TypeOK
<1>1. LogType' /\ TableType' /\ ModeType'
  BY LogUnchanged, TableUnchanged, ModeUnchanged DEF CompactBegin
<1>2. cur = 0 /\ pc = "idle" /\ Room
  BY DEF CompactBegin, OperationType, CompactSteps
<1>3. /\ man' \in ManifestState
      /\ mdisk' \in ManifestState
      /\ budget' \in 0 .. MaxFaults
      /\ \/ pc' = "cCreate" /\ cur' \in 1 .. MaxFile
         \/ pc' \in {"idle", "close"} /\ cur' = 0
  BY <1>2, AllocStep DEF CompactBegin
<1>4. tables' = tables /\ shut' = shut
  BY DEF CompactBegin, readVars
<1>5. OperationType'
  <2>1. CASE pc' = "cCreate" /\ cur' \in 1 .. MaxFile
    <3>1. ins' \subseteq tables /\ ins' # {}
      BY <2>1, CompactInputsSubset DEF CompactBegin
    <3> QED
      BY <1>3, <1>4, <2>1, <3>1 DEF OperationType, Steps, CompactSteps
  <2>2. CASE pc' \in {"idle", "close"} /\ cur' = 0
    <3>1. ins' = {}
      BY <2>2 DEF CompactBegin
    <3> QED
      BY <1>3, <1>4, <2>2, <3>1 DEF OperationType, Steps, CompactSteps
  <2> QED
    BY <1>3, <2>1, <2>2
<1> QED
  BY <1>1, <1>3, <1>5 DEF AppendedFrame, FlushHasRoom, NoReaders

\* Compact creates its output.
LEMMA CompactCreateType ==
    ASSUME TypeInv, CompactCreate
    PROVE  TypeInv'
<1> USE DEF TypeInv, TypeOK
<1>1. LogType' /\ ModeType' /\ man' \in ManifestState /\ mdisk' \in ManifestState
  BY LogUnchanged, ModeUnchanged DEF CompactCreate, manVars
<1>2. cur \in 1 .. MaxFile
  BY DEF CompactCreate, OperationType, CompactSteps
<1>3. TableType'
  BY <1>2, FileUpdateType, FileKinds DEF CompactCreate
<1>4. OperationType' /\ AppendedFrame' /\ FlushHasRoom' /\ NoReaders'
  <2>1. UNCHANGED <<tables, shut, cur, ins>> /\ budget' \in 0 .. MaxFaults
    BY DEF CompactCreate, readVars, opVars, OperationType
  <2>2. pc \in CompactSteps /\ pc' = "cMerge" /\ "cMerge" \in CompactSteps
    BY DEF CompactCreate, CompactSteps
  <2> QED
    BY <2>1, <2>2, GoOnType
<1> QED
  BY <1>1, <1>3, <1>4

\* A merge of some of the tables' entries holds nothing else.
LEMMA MergeSubset ==
    ASSUME NEW F, NEW E, UNION F \subseteq E
    PROVE  MergeFiles(F) \subseteq E
  BY TopIsSubset DEF MergeFiles

\* Whatever the merge could read, its output holds entries of its inputs.
LEMMA MergeOutput ==
    ASSUME CompactMerge
    PROVE  \/ file' = [file EXCEPT ![cur] = NoFile] /\ Return
           \/ /\ pc' = "cReplace" /\ UNCHANGED opVars
              /\ \E E \in SUBSET (UNION {file[n].ents : n \in ins}) : file' = [file EXCEPT ![cur] = Finish(E)]
<1> DEFINE I == UNION {file[n].ents : n \in ins}
<1>1. MergeFiles({file[n].ents : n \in ins}) \in SUBSET I
  BY MergeSubset
<1>2. ASSUME NEW bad \in ins, NEW read \in SUBSET file[bad].ents
      PROVE  MergeFiles({file[n].ents : n \in ins \ {bad}} \cup {read}) \in SUBSET I
  <2>1. UNION ({file[n].ents : n \in ins \ {bad}} \cup {read}) \subseteq I
    OBVIOUS
  <2> QED
    BY <2>1, MergeSubset
<1>3. CASE /\ pc' = "cReplace" /\ UNCHANGED opVars
           /\ file' = [file EXCEPT ![cur] = Finish(MergeFiles({file[n].ents : n \in ins}))]
  BY <1>1, <1>3
<1>4. CASE /\ pc' = "cReplace" /\ UNCHANGED opVars
           /\ \E bad \in ins : \E read \in SUBSET file[bad].ents :
                 file' = [file EXCEPT ![cur] =
                             Finish(MergeFiles({file[n].ents : n \in ins \ {bad}} \cup {read}))]
  <2>1. PICK bad \in ins : \E read \in SUBSET file[bad].ents :
           file' = [file EXCEPT ![cur] =
                       Finish(MergeFiles({file[n].ents : n \in ins \ {bad}} \cup {read}))]
    BY <1>4
  <2>2. PICK read \in SUBSET file[bad].ents :
           file' = [file EXCEPT ![cur] =
                       Finish(MergeFiles({file[n].ents : n \in ins \ {bad}} \cup {read}))]
    BY <2>1
  <2> QED
    BY <1>2, <1>4, <2>2
<1> QED
  BY <1>3, <1>4, Zenon DEF CompactMerge

\* Compact fills the output with entries of its inputs, or gives it up.
LEMMA CompactMergeType ==
    ASSUME TypeInv, CompactMerge
    PROVE  TypeInv'
<1> USE DEF TypeInv, TypeOK
<1>1. LogType' /\ ModeType' /\ man' \in ManifestState /\ mdisk' \in ManifestState
  BY LogUnchanged, ModeUnchanged DEF CompactMerge, manVars
<1>2. cur \in 1 .. MaxFile /\ ins \subseteq 1 .. MaxFile
  BY DEF CompactMerge, OperationType, CompactSteps
<1>3. TableType'
  <2>1. PICK f \in [st : {"absent", "partial", "complete"}, ents : SUBSET BoundedEntry] :
           file' = [file EXCEPT ![cur] = f]
    <3>1. UNION {file[n].ents : n \in ins} \subseteq BoundedEntry
      BY <1>2 DEF TableType
    <3>2. \A E \in SUBSET BoundedEntry :
             Finish(E) \in [st : {"absent", "partial", "complete"}, ents : SUBSET BoundedEntry]
      BY FileKinds
    <3>3. CASE file' = [file EXCEPT ![cur] = NoFile]
      BY <3>3, FileKinds
    <3>4. CASE \E E \in SUBSET (UNION {file[n].ents : n \in ins}) : file' = [file EXCEPT ![cur] = Finish(E)]
      BY <3>1, <3>2, <3>4
    <3> QED
      BY <3>3, <3>4, MergeOutput
  <2> QED
    BY <1>2, <2>1, FileUpdateType DEF CompactMerge
<1>4. OperationType' /\ AppendedFrame' /\ FlushHasRoom' /\ NoReaders'
  <2>1. tables' = tables /\ shut' = shut
    BY DEF CompactMerge, readVars
  <2>2. budget' \in 0 .. MaxFaults
    BY FailBudget DEF CompactMerge, OperationType
  <2>3. CASE Return
    BY <2>1, <2>2, <2>3, ReturnType DEF OperationType
  <2>4. CASE pc' = "cReplace" /\ UNCHANGED opVars
    <3>1. pc \in CompactSteps /\ "cReplace" \in CompactSteps
      BY DEF CompactMerge, CompactSteps
    <3> QED
      BY <2>1, <2>2, <2>4, <3>1, GoOnType DEF opVars
  <2> QED
    BY <2>3, <2>4 DEF CompactMerge
<1> QED
  BY <1>1, <1>3, <1>4

\* Compact closes the readers of its inputs and updates the manifest.
LEMMA CompactReplaceType ==
    ASSUME TypeInv, CompactReplace
    PROVE  TypeInv'
<1> USE DEF TypeInv, TypeOK
<1>1. LogType' /\ TableType' /\ ModeType'
  BY LogUnchanged, TableUnchanged, ModeUnchanged DEF CompactReplace, Persist
<1>2. cur \in 1 .. MaxFile /\ ins \subseteq tables
  BY DEF CompactReplace, OperationType, CompactSteps, Persist
<1>3. man' \in ManifestState /\ mdisk' \in ManifestState
  <2>1. Highest(SeqsOf(file[cur].ents)) \in 0 .. MaxSeq
    BY <1>2, HighestSeqType DEF TableType, BoundedEntry
  <2>2. Replace(man, ins, FileMeta(cur, 1, Highest(SeqsOf(file[cur].ents))),
                Highest(SeqsOf(file[cur].ents))) \in ManifestState
    BY <1>2, <2>1, ReplaceType
  <2> QED
    BY <2>2 DEF CompactReplace, manVars, Persist
<1>4. OperationType' /\ AppendedFrame' /\ FlushHasRoom' /\ NoReaders'
  <2>1. tables' \in SUBSET (1 .. MaxFile) /\ shut' \subseteq tables'
    BY <1>2 DEF CompactReplace, OperationType, Persist
  <2>2. budget' \in 0 .. MaxFaults
    BY FailBudget DEF CompactReplace, OperationType, Persist
  <2>3. CASE Return
    BY <2>1, <2>2, <2>3, ReturnType
  <2>4. CASE pc' = "cRemove" /\ UNCHANGED opVars
    <3>1. cur' = cur /\ ins' = ins /\ tables' = tables /\ pc = "cReplace"
      BY <2>4 DEF CompactReplace, opVars, Persist
    <3>2. ins # {}
      BY <3>1 DEF OperationType, CompactSteps
    <3> QED
      BY <1>2, <2>1, <2>2, <2>4, <3>1, <3>2
      DEF OperationType, Steps, CompactSteps, AppendedFrame, FlushHasRoom, NoReaders
  <2> QED
    BY <2>3, <2>4 DEF CompactReplace, Persist
<1> QED
  BY <1>1, <1>3, <1>4

\* Compact removes the file of an input.
LEMMA CompactRemoveType ==
    ASSUME TypeInv, NEW n \in ins, CompactRemove(n)
    PROVE  TypeInv'
<1> USE DEF TypeInv, TypeOK
<1>1. LogType' /\ ModeType' /\ man' \in ManifestState /\ mdisk' \in ManifestState
  BY LogUnchanged, ModeUnchanged DEF CompactRemove, manVars
<1>2. n \in 1 .. MaxFile
  BY DEF OperationType
<1>3. TableType'
  BY <1>2, FileUpdateType, FileKinds DEF CompactRemove
<1>4. OperationType' /\ AppendedFrame' /\ FlushHasRoom' /\ NoReaders'
  BY DEF CompactRemove, readVars, opVars, OperationType, AppendedFrame, FlushHasRoom, NoReaders
<1> QED
  BY <1>1, <1>3, <1>4

\* Compact puts the reader of the output in place of its inputs'.
LEMMA CompactInstallType ==
    ASSUME TypeInv, CompactInstall
    PROVE  TypeInv'
<1> USE DEF TypeInv, TypeOK
<1>1. LogType' /\ TableType' /\ ModeType' /\ man' \in ManifestState /\ mdisk' \in ManifestState
  BY LogUnchanged, TableUnchanged, ModeUnchanged DEF CompactInstall, manVars
<1>2. cur \in 1 .. MaxFile
  BY DEF CompactInstall, OperationType, CompactSteps
<1>3. tables' \in SUBSET (1 .. MaxFile) /\ shut' \subseteq tables' /\ budget' \in 0 .. MaxFaults
  BY <1>2 DEF CompactInstall, OperationType
<1>4. OperationType' /\ AppendedFrame' /\ FlushHasRoom' /\ NoReaders'
  BY <1>3, ReturnType DEF CompactInstall
<1> QED
  BY <1>1, <1>4

-----------------------------------------------------------------------------
\* Close begins, with a flush if there is something to flush.
LEMMA CloseType ==
    ASSUME TypeInv, Close
    PROVE  TypeInv'
<1> USE DEF TypeInv, TypeOK
<1>1. LogType' /\ TableType'
  BY LogUnchanged, TableUnchanged DEF Close
<1>2. ModeType'
  BY DEF Close, ModeType
<1>3. UNCHANGED <<man, mdisk, tables, shut, cur, ins, budget>> /\ pc = "idle"
  BY DEF Close, manVars, readVars, opVars
<1>4. pc' \in {"flush", "close"} /\ (pc' = "flush" => Room)
  BY DEF Close
<1>5. OperationType'
  BY <1>3, <1>4 DEF OperationType, Steps, FlushSteps, CompactSteps
<1> QED
  BY <1>1, <1>2, <1>3, <1>4, <1>5 DEF AppendedFrame, FlushHasRoom, NoReaders, Room

\* closeUnlocked syncs and closes the log; the process is done with the store.
LEMMA CloseFinishType ==
    ASSUME TypeInv, CloseFinish
    PROVE  TypeInv'
<1> USE DEF TypeInv, TypeOK
<1>1. Len(wal) \in Nat
  BY LenProperties DEF LogType
<1>2. budget' \in 0 .. MaxFaults
  BY FailBudget DEF CloseFinish, OperationType
<1>3. LogType'
  <2>1. synced' \in 0 .. Len(wal) /\ wal' = wal
    BY <1>1 DEF CloseFinish, LogType
  <2>2. nextSeq' = 0 /\ appends' = 0
    BY DEF CloseFinish, Vanish
  <2> QED
    BY <2>1, <2>2 DEF LogType
<1> QED
  BY <1>2, <1>3, VanishType DEF CloseFinish

\* What is left of the log after a crash: a part of it and perhaps a torn frame.
LEMMA CrashedLog ==
    ASSUME LogType, NEW n \in 0 .. Len(wal),
           wal' \in {Prefix(wal, n), Append(Prefix(wal, n), Torn)},
           synced' \in 0 .. n, nextSeq' = 0, appends' = 0
    PROVE  LogType'
<1> DEFINE p == Prefix(wal, n)
<1>1. wal \in Seq(FrameType) /\ Len(wal) \in Nat /\ n \in Nat
  BY LenProperties DEF LogType, FrameType
<1>2. /\ p \in Seq(FrameType)
      /\ Len(p) = n
      /\ \A i \in 1 .. n : p[i] = wal[i]
  BY <1>1, PrefixProperty
<1> HIDE DEF p
<1>3. ASSUME NEW i \in 1 .. n PROVE p[i].first + Len(p[i].ops) <= MaxSeq + 1
  <2>1. i \in 1 .. Len(wal)
    BY <1>1
  <2>2. wal[i].first + Len(wal[i].ops) <= MaxSeq + 1
    BY <2>1 DEF LogType
  <2> QED
    BY <1>2, <2>2
<1>4. CASE wal' = p
  BY <1>1, <1>2, <1>3, <1>4, SMTT(30) DEF LogType, FrameType
<1>5. CASE wal' = Append(p, Torn)
  <2>1. Torn \in FrameType /\ Torn.first + Len(Torn.ops) <= MaxSeq + 1
    BY DEF Torn, Frame, FrameType
  <2>2. /\ wal' \in Seq(FrameType)
        /\ Len(wal') = n + 1
        /\ \A i \in 1 .. n : wal'[i] = p[i]
        /\ wal'[n + 1] = Torn
    BY <1>2, <1>5, <2>1, AppendProperties
  <2>3. ASSUME NEW i \in 1 .. Len(wal') PROVE wal'[i].first + Len(wal'[i].ops) <= MaxSeq + 1
    <3>1. CASE i = n + 1
      BY <2>1, <2>2, <3>1
    <3>2. CASE i # n + 1
      <4>1. i \in 1 .. n
        BY <1>1, <2>2, <3>2
      <4> QED
        BY <1>3, <2>2, <4>1
    <3> QED
      BY <3>1, <3>2
  <2>4. synced' \in 0 .. Len(wal')
    BY <1>1, <2>2
  <2> QED
    BY <2>2, <2>3, <2>4 DEF LogType, FrameType
<1> QED
  BY <1>4, <1>5 DEF p

\* A crash of the process leaves the log, perhaps with a torn frame at its end.
LEMMA ProcessCrashType ==
    ASSUME TypeInv, ProcessCrash
    PROVE  TypeInv'
<1> USE DEF TypeInv, TypeOK
<1>1. wal \in Seq(FrameType) /\ Len(wal) \in Nat /\ synced \in 0 .. Len(wal)
  BY LenProperties DEF LogType, FrameType
<1>2. Prefix(wal, Len(wal)) = wal
  <2>1. /\ Prefix(wal, Len(wal)) \in Seq(FrameType)
        /\ Len(Prefix(wal, Len(wal))) = Len(wal)
        /\ \A i \in 1 .. Len(wal) : Prefix(wal, Len(wal))[i] = wal[i]
    <3>1. Len(wal) \in 0 .. Len(wal)
      BY <1>1
    <3> HIDE DEF TypeInv, TypeOK
    <3> QED
      BY <1>1, <3>1, PrefixProperty
  <2> HIDE DEF TypeInv, TypeOK
  <2> QED
    BY <1>1, <2>1, SeqEqual
<1>3. nextSeq' = 0 /\ appends' = 0 /\ synced' = synced
  BY DEF ProcessCrash, Vanish
<1>4. wal' \in {wal, Append(wal, Torn)}
  BY DEF ProcessCrash
<1>5. LogType'
  BY <1>1, <1>2, <1>3, <1>4, CrashedLog
<1>6. budget' \in 0 .. MaxFaults
  BY DEF ProcessCrash, OperationType
<1> QED
  BY <1>5, <1>6, VanishType DEF ProcessCrash

\* A loss of power leaves a part of the log that has at least the synced frames.
LEMMA PowerLossType ==
    ASSUME TypeInv, PowerLoss
    PROVE  TypeInv'
<1> USE DEF TypeInv, TypeOK
<1>1. PICK n \in synced .. Len(wal) :
         synced' = n /\ wal' \in {Prefix(wal, n), Append(Prefix(wal, n), Torn)}
  BY DEF PowerLoss
<1>2. n \in 0 .. Len(wal) /\ n \in Nat
  BY LenProperties DEF LogType
<1>3. nextSeq' = 0 /\ appends' = 0
  BY DEF PowerLoss, Vanish
<1>4. LogType'
  BY <1>1, <1>2, <1>3, CrashedLog
<1>5. budget' \in 0 .. MaxFaults
  BY DEF PowerLoss, OperationType
<1> QED
  BY <1>4, <1>5, VanishType DEF PowerLoss

-----------------------------------------------------------------------------
\* A step of the engine keeps the types.
LEMMA TypeNext == TypeInv /\ [Next]_vars => TypeInv'
<1> SUFFICES ASSUME TypeInv, [Next]_vars PROVE TypeInv'
  OBVIOUS
<1>1. CASE Call
  <2>1. ASSUME NEW k \in Key, NEW v \in Value \cup {Tombstone}
        PROVE  <<[key |-> k, val |-> v]>> \in Seq(Op) /\ <<[key |-> k, val |-> v]>> # << >>
    BY DEF Op
  <2>2. ASSUME NEW k \in Key, NEW v \in Value, Put(k, v) PROVE TypeInv'
    BY <2>1, <2>2, AppendFrameType DEF Put
  <2>3. ASSUME NEW k \in Key, Delete(k) PROVE TypeInv'
    BY <2>1, <2>3, AppendFrameType DEF Delete
  <2>4. ASSUME NEW batch \in Batches, Write(batch) PROVE TypeInv'
    BY <2>4, BatchesAssumption, AppendFrameType DEF Write
  <2> QED
    BY <1>1, <2>2, <2>3, <2>4, OpenType, OpenAbandonType, OpenFailType, SyncType, FlushType, CompactBeginType,
       CloseType
    DEF Call
<1>2. CASE Continue
  BY <1>2, ApplyWriteType, FlushAllocType, FlushCreateType, FlushWriteType, FlushAddFileType,
     FlushInstallType, CompactCreateType, CompactMergeType, CompactReplaceType, CompactRemoveType,
     CompactInstallType, CloseFinishType
  DEF Continue
<1>3. CASE ProcessCrash
  BY <1>3, ProcessCrashType
<1>4. CASE PowerLoss
  BY <1>4, PowerLossType
<1>5. CASE UNCHANGED vars
  BY <1>5
  DEF vars, TypeInv, TypeOK, LogType, TableType, OperationType, ModeType, AppendedFrame, FlushHasRoom,
      NoReaders
<1> QED
  BY <1>1, <1>2, <1>3, <1>4, <1>5 DEF Next

(***************************************************************************)
(* Type correctness of lsmkv.DB: in every behaviour, with any number of    *)
(* crashes and failed calls, sequence numbers and file numbers stay in     *)
(* their ranges, the readers the DB has closed or is compacting are among  *)
(* its tables, and an operation holds a file number exactly in the steps   *)
(* that use one.                                                           *)
(***************************************************************************)
THEOREM TypeCorrect == Spec => []TypeOK
<1>1. TypeInv => TypeOK
  BY DEF TypeInv
<1> QED
  BY <1>1, TypeInit, TypeNext, PTL DEF Spec

\* The strengthened invariant, for the proofs that build on it.
THEOREM TypeInvariant == Spec => []TypeInv
  BY TypeInit, TypeNext, PTL DEF Spec

-----------------------------------------------------------------------------
\* What the updates of a manifest do to its list of tables.
LEMMA AllocNums ==
    ASSUME NEW m \in ManifestState
    PROVE  Nums(AllocFileName(m)) = Nums(m) /\ AllocFileName(m).next = m.next + 1
  BY DEF Nums, AllocFileName, ManifestState

\* Manifest.AddFile lists one more table and takes no number.
LEMMA AddFileNums ==
    ASSUME NEW m, NEW n, NEW l, NEW s
    PROVE  /\ Nums(AddFile(m, FileMeta(n, l, s), s)) = Nums(m) \cup {n}
           /\ AddFile(m, FileMeta(n, l, s), s).next = m.next
<1>1. AddFile(m, FileMeta(n, l, s), s).next = m.next
  BY DEF AddFile
<1>2. AddFile(m, FileMeta(n, l, s), s).files = m.files \cup {FileMeta(n, l, s)}
  BY DEF AddFile
<1>3. FileMeta(n, l, s).num = n
  BY DEF FileMeta
<1> QED
  BY <1>1, <1>2, <1>3 DEF Nums

\* Manifest.Replace lists the output instead of the inputs and takes no number.
LEMMA ReplaceNums ==
    ASSUME NEW m, NEW n, NEW l, NEW s, NEW R
    PROVE  /\ Nums(Replace(m, R, FileMeta(n, l, s), s)) = (Nums(m) \ R) \cup {n}
           /\ Replace(m, R, FileMeta(n, l, s), s).next = m.next
<1>1. Replace(m, R, FileMeta(n, l, s), s).next = m.next
  BY DEF Replace
<1>2. Replace(m, R, FileMeta(n, l, s), s).files
          = {f \in m.files : f.num \notin R} \cup {FileMeta(n, l, s)}
  BY DEF Replace
<1>3. FileMeta(n, l, s).num = n
  BY DEF FileMeta
<1> QED
  BY <1>1, <1>2, <1>3 DEF Nums

\* The files a step may have changed: none, or the one in hand.
LEMMA OneFile ==
    ASSUME file \in [1 .. MaxFile -> [st : {"absent", "partial", "complete"}, ents : SUBSET BoundedEntry]],
           NEW c,
           file' = file \/ \E f : file' = [file EXCEPT ![c] = f]
    PROVE  \A n \in 1 .. MaxFile : n # c => file'[n] = file[n]
  OBVIOUS

\* The numbers a manifest lists, and its next one, are within the bound.
LEMMA NumsType ==
    ASSUME NEW m \in ManifestState
    PROVE  Nums(m) \in SUBSET (1 .. MaxFile) /\ m.next \in 1 .. MaxFile + 1
  BY DEF Nums, ManifestState

-----------------------------------------------------------------------------
(***************************************************************************)
(* File numbers.  Every file that exists, every table that is listed or    *)
(* open and the number in hand lie below the NextFile of the MANIFEST on   *)
(* disk, which never overtakes the one in memory.                          *)
(***************************************************************************)
NumbersInOrder ==
    /\ mdisk.next <= man.next
    /\ \A n \in Nums(man) : n < man.next
    /\ \A n \in Nums(mdisk) : n < mdisk.next

NumbersInUse ==
    /\ \A n \in 1 .. MaxFile : n >= mdisk.next => file[n] = NoFile
    /\ \A n \in tables : n < mdisk.next
    /\ cur < mdisk.next

FreshInv == NumbersInOrder /\ NumbersInUse /\ OutputNameIsFresh

\* An empty directory has no number in use.
LEMMA FreshInit == Init => FreshInv
  BY DEF Init, FreshInv, NumbersInOrder, NumbersInUse, OutputNameIsFresh, NewManifest, Nums

\* The process ends and the files stay.
LEMMA FreshVanish ==
    ASSUME TypeInv, FreshInv, Vanish, UNCHANGED <<file, mdisk>>
    PROVE  FreshInv'
<1>1. mdisk.next \in Nat \ {0}
  BY NumsType DEF TypeInv, TypeOK
<1>2. NumbersInOrder'
  BY <1>1 DEF FreshInv, NumbersInOrder, Vanish
<1>3. NumbersInUse'
  BY <1>1 DEF FreshInv, NumbersInUse, Vanish
<1> QED
  BY <1>2, <1>3 DEF FreshInv, OutputNameIsFresh, Vanish

\* A file number is taken: it is above every number in use.
LEMMA FreshAlloc ==
    ASSUME TypeInv, FreshInv, Room, cur = 0, NEW next \in {"create", "cCreate"}, Alloc(next),
           UNCHANGED <<file, tables>>
    PROVE  FreshInv'
<1> USE DEF TypeInv, TypeOK
<1>1. /\ man.next \in 1 .. MaxFile
      /\ mdisk.next \in 1 .. MaxFile + 1
      /\ Nums(man) \in SUBSET (1 .. MaxFile)
      /\ Nums(mdisk) \in SUBSET (1 .. MaxFile)
      /\ tables \in SUBSET (1 .. MaxFile)
  BY NumsType DEF Room, OperationType
<1>2. Nums(man') = Nums(man) /\ man'.next = man.next + 1
  BY AllocNums DEF Alloc, Persist
<1>3. CASE mdisk' = man' /\ cur' = man.next /\ pc' = next
  <2>1. Nums(mdisk') = Nums(man) /\ mdisk'.next = man.next + 1
    BY <1>2, <1>3
  <2>2. NumbersInOrder'
    BY <1>1, <1>2, <2>1 DEF FreshInv, NumbersInOrder
  <2>3. NumbersInUse'
    BY <1>1, <1>3, <2>1 DEF FreshInv, NumbersInOrder, NumbersInUse
  <2>4. file[man.next] = NoFile /\ man.next \notin Nums(man) \cup tables
    BY <1>1 DEF FreshInv, NumbersInOrder, NumbersInUse
  <2>5. OutputNameIsFresh'
    BY <1>3, <2>1, <2>4 DEF OutputNameIsFresh
  <2> QED
    BY <2>2, <2>3, <2>5 DEF FreshInv
<1>4. CASE mdisk' = mdisk /\ cur' = cur /\ pc' \in {"idle", "close"}
  <2>1. NumbersInOrder'
    BY <1>1, <1>2, <1>4 DEF FreshInv, NumbersInOrder
  <2> QED
    BY <1>4, <2>1 DEF FreshInv, NumbersInUse, OutputNameIsFresh
<1> QED
  BY <1>3, <1>4 DEF Alloc, Persist

\* A file below NextFile is written or removed, or an operation on it ends.
LEMMA FreshFile ==
    ASSUME TypeInv, FreshInv, UNCHANGED <<man, mdisk>>,
           cur' \in {0, cur}, pc' \notin {"create", "cCreate"},
           \A n \in tables' : n < mdisk.next,
           \A n \in 1 .. MaxFile : n >= mdisk.next => file'[n] = file[n]
    PROVE  FreshInv'
<1>1. mdisk.next \in Nat \ {0}
  BY NumsType DEF TypeInv, TypeOK
<1>2. NumbersInOrder'
  BY DEF FreshInv, NumbersInOrder
<1>3. NumbersInUse'
  BY <1>1 DEF FreshInv, NumbersInUse
<1> QED
  BY <1>2, <1>3 DEF FreshInv, OutputNameIsFresh

\* The table in hand is listed, in memory and perhaps on disk.
LEMMA FreshList ==
    ASSUME TypeInv, FreshInv, cur # 0, UNCHANGED tables,
           Nums(man') \subseteq Nums(man) \cup {cur}, man'.next = man.next,
           mdisk' \in {mdisk, man'},
           cur' \in {0, cur}, pc' \notin {"create", "cCreate"},
           \A n \in 1 .. MaxFile : n >= mdisk.next => file'[n] = file[n]
    PROVE  FreshInv'
<1> USE DEF TypeInv, TypeOK
<1>1. /\ man.next \in Nat \ {0}
      /\ mdisk.next \in Nat \ {0}
      /\ Nums(man) \in SUBSET Nat
      /\ Nums(mdisk) \in SUBSET Nat
      /\ tables \in SUBSET Nat
      /\ cur \in Nat
  BY NumsType DEF OperationType
<1>2. mdisk'.next \in {mdisk.next, man.next} /\ mdisk.next <= mdisk'.next /\ mdisk'.next <= man'.next
  BY <1>1 DEF FreshInv, NumbersInOrder
<1>3. \A n \in Nums(man') : n < man'.next
  BY <1>1 DEF FreshInv, NumbersInOrder, NumbersInUse
<1>4. NumbersInOrder'
  BY <1>1, <1>2, <1>3 DEF FreshInv, NumbersInOrder
<1>5. NumbersInUse'
  BY <1>1, <1>2 DEF FreshInv, NumbersInUse
<1> QED
  BY <1>4, <1>5 DEF FreshInv, OutputNameIsFresh

\* No step of the engine takes a number in use.
LEMMA FreshNext == TypeInv /\ FreshInv /\ [Next]_vars => FreshInv'
<1> SUFFICES ASSUME TypeInv, FreshInv, [Next]_vars PROVE FreshInv'
  OBVIOUS
<1> USE DEF TypeInv, TypeOK
<1>a. /\ mdisk.next \in Nat \ {0} /\ cur \in 0 .. MaxFile /\ cur < mdisk.next
      /\ tables \in SUBSET (1 .. MaxFile)
      /\ \A n \in tables : n < mdisk.next
      /\ ins \subseteq tables
      /\ file \in [1 .. MaxFile -> [st : {"absent", "partial", "complete"}, ents : SUBSET BoundedEntry]]
  BY NumsType DEF OperationType, FreshInv, NumbersInUse, TableType
<1>1. CASE Call
  <2>1. CASE (\E readOnly \in BOOLEAN : Open(readOnly)) \/ OpenAbandon
    <3>1. /\ pc' \in {"idle", "flush"} /\ man' = mdisk /\ tables' = Nums(mdisk)
          /\ UNCHANGED <<file, mdisk, cur>>
      BY <2>1 DEF Open, OpenAbandon, OpenReading, OpenTables
    <3> QED
      BY <1>a, <3>1 DEF FreshInv, NumbersInOrder, NumbersInUse, OutputNameIsFresh
  <2>2. ASSUME NEW ops, AppendFrame(ops) PROVE FreshInv'
    BY <1>a, <2>2, FreshFile DEF AppendFrame, manVars, readVars, opVars
  <2>3. CASE OpenFail \/ Sync \/ Flush \/ Close
    BY <1>a, <2>3, FreshFile DEF OpenFail, Sync, Flush, Close, manVars, readVars, opVars
  <2>4. CASE CompactBegin
    <3>1. cur = 0
      BY <2>4 DEF CompactBegin, OperationType, CompactSteps
    <3> QED
      BY <2>4, <3>1, FreshAlloc DEF CompactBegin, readVars
  <2> QED
    BY <1>1, <2>1, <2>2, <2>3, <2>4 DEF Call, Put, Delete, Write
<1>2. CASE Continue
  <2>1. CASE ApplyWrite
    BY <1>a, <2>1, FreshFile DEF ApplyWrite, manVars, readVars, opVars
  <2>2. CASE FlushAlloc
    <3>1. cur = 0 /\ Room
      BY <2>2 DEF FlushAlloc, OperationType, CompactSteps, FlushHasRoom, Room
    <3> QED
      BY <2>2, <3>1, FreshAlloc DEF FlushAlloc, readVars
  <2>3. CASE FlushCreate \/ FlushWrite \/ CompactCreate \/ CompactMerge
    <3>a. file' = file \/ \E f : file' = [file EXCEPT ![cur] = f]
      BY <2>3, Zenon DEF FlushCreate, FlushWrite, CompactCreate, CompactMerge
    <3>1. \A n \in 1 .. MaxFile : n >= mdisk.next => file'[n] = file[n]
      BY <1>a, <3>a, OneFile
    <3>2. cur' \in {0, cur} /\ pc' \notin {"create", "cCreate"} /\ UNCHANGED <<man, mdisk, tables>>
      BY <2>3 DEF FlushCreate, FlushWrite, CompactCreate, CompactMerge, Return, opVars, manVars, readVars
    <3> QED
      BY <1>a, <3>1, <3>2, FreshFile
  <2>4. CASE FlushAddFile
    <3>1. cur # 0
      BY <2>4 DEF FlushAddFile, OperationType, Persist
    <3>a. file' = file \/ \E f : file' = [file EXCEPT ![cur] = f]
      BY <2>4, Zenon DEF FlushAddFile, Persist
    <3>2. \A n \in 1 .. MaxFile : n >= mdisk.next => file'[n] = file[n]
      BY <1>a, <3>a, OneFile
    <3>3. /\ cur' \in {0, cur} /\ pc' \notin {"create", "cCreate"}
          /\ UNCHANGED tables /\ mdisk' \in {mdisk, man'}
      BY <2>4 DEF FlushAddFile, Return, opVars, readVars, Persist
    <3>4. Nums(man') \subseteq Nums(man) \cup {cur} /\ man'.next = man.next
      BY <2>4, AddFileNums DEF FlushAddFile, Persist
    <3> QED
      BY <3>1, <3>2, <3>3, <3>4, FreshList
  <2>5. CASE FlushInstall
    <3>1. tables' \in {tables, tables \cup {cur}}
      BY <2>5 DEF FlushInstall, Reset
    <3>2. cur' = 0 /\ pc' \notin {"create", "cCreate"} /\ UNCHANGED <<man, mdisk, file>>
      BY <2>5 DEF FlushInstall, Return, manVars, Reset
    <3> QED
      BY <1>a, <3>1, <3>2, FreshFile
  <2>6. CASE CompactReplace
    <3>1. cur # 0
      BY <2>6 DEF CompactReplace, OperationType, CompactSteps, Persist
    <3>2. /\ cur' \in {0, cur} /\ pc' \notin {"create", "cCreate"}
          /\ UNCHANGED <<tables, file>> /\ mdisk' \in {mdisk, man'}
      BY <2>6 DEF CompactReplace, Return, opVars, manVars, Persist
    <3>3. Nums(man') \subseteq Nums(man) \cup {cur} /\ man'.next = man.next
      BY <2>6, ReplaceNums DEF CompactReplace, manVars, Persist
    <3> QED
      BY <3>1, <3>2, <3>3, FreshList
  <2>7. ASSUME NEW n \in ins, CompactRemove(n) PROVE FreshInv'
    <3>1. \A i \in 1 .. MaxFile : i >= mdisk.next => file'[i] = file[i]
      BY <1>a, <2>7 DEF CompactRemove
    <3>2. UNCHANGED <<man, mdisk, tables, cur, pc>> /\ pc = "cRemove"
      BY <2>7 DEF CompactRemove, opVars, manVars, readVars
    <3> QED
      BY <1>a, <3>1, <3>2, FreshFile
  <2>8. CASE CompactInstall
    <3>1. tables' = (tables \ ins) \cup {cur}
      BY <2>8 DEF CompactInstall
    <3>2. cur' = 0 /\ pc' \notin {"create", "cCreate"} /\ UNCHANGED <<man, mdisk, file>>
      BY <2>8 DEF CompactInstall, Return, manVars
    <3> QED
      BY <1>a, <3>1, <3>2, FreshFile
  <2>9. CASE CloseFinish
    BY <2>9, FreshVanish DEF CloseFinish
  <2> QED
    BY <1>2, <2>1, <2>2, <2>3, <2>4, <2>5, <2>6, <2>7, <2>8, <2>9 DEF Continue
<1>3. CASE ProcessCrash \/ PowerLoss
  BY <1>3, FreshVanish DEF ProcessCrash, PowerLoss
<1>4. CASE UNCHANGED vars
  BY <1>4 DEF vars, FreshInv, NumbersInOrder, NumbersInUse, OutputNameIsFresh
<1> QED
  BY <1>1, <1>2, <1>3, <1>4 DEF Next

(***************************************************************************)
(* No table is ever overwritten: sstable.Create is given a name that no    *)
(* file, listed table or open reader has, whatever calls failed before and *)
(* wherever the process or the machine died (AllocFileName, flushLocked,   *)
(* Compact).                                                               *)
(***************************************************************************)
THEOREM FreshNames == Spec => []OutputNameIsFresh
<1>1. FreshInv => OutputNameIsFresh
  BY DEF FreshInv
<1> QED
  BY <1>1, TypeInit, TypeNext, FreshInit, FreshNext, PTL DEF Spec

-----------------------------------------------------------------------------
(***************************************************************************)
(* Listed tables.  What either copy of the manifest lists is whole; the    *)
(* table in hand is listed only after it is finished, and the inputs of a  *)
(* compaction are removed only after neither copy lists them.              *)
(***************************************************************************)
Listed == Nums(man) \cup Nums(mdisk)

Whole(n) == file[n].st = "complete"

ListedAreWhole == \A n \in Listed : Whole(n)

OutputIsWhole == pc \in {"addFile", "install", "cReplace", "cRemove"} => Whole(cur)

OutputIsUnlisted ==
    pc \in {"create", "write", "addFile", "cCreate", "cMerge", "cReplace"} => cur \notin Listed

InputsAreUnlisted == pc = "cRemove" => ins \cap Listed = {}

OutputIsNoInput == pc \in CompactSteps => cur \notin ins

WholeInv == ListedAreWhole /\ OutputIsWhole /\ OutputIsUnlisted /\ InputsAreUnlisted /\ OutputIsNoInput

\* An empty manifest lists only whole tables.
LEMMA WholeInit == Init => WholeInv
  BY DEF Init, WholeInv, ListedAreWhole, OutputIsWhole, OutputIsUnlisted, InputsAreUnlisted,
         OutputIsNoInput, Listed, NewManifest, Nums, CompactSteps

\* The process ends, or an operation that has its file on no list does.
LEMMA WholeKept ==
    ASSUME WholeInv, Nums(man') \subseteq Listed, Nums(mdisk') \subseteq Listed,
           \A n \in Listed : file'[n] = file[n],
           pc' \in {"down", "idle", "close", "append", "flush"}
    PROVE  WholeInv'
<1>1. Listed' \subseteq Listed
  BY DEF Listed
<1>2. ListedAreWhole'
  BY <1>1 DEF WholeInv, ListedAreWhole, Whole
<1> QED
  BY <1>2 DEF WholeInv, OutputIsWhole, OutputIsUnlisted, InputsAreUnlisted, OutputIsNoInput, CompactSteps

\* A file number is taken.
LEMMA WholeAlloc ==
    ASSUME TypeInv, FreshInv, FreshInv', WholeInv, NEW next \in {"create", "cCreate"}, Alloc(next),
           UNCHANGED <<file, tables>>, ins' \subseteq tables
    PROVE  WholeInv'
<1>1. Nums(man') = Nums(man)
  BY AllocNums DEF Alloc, TypeInv, TypeOK, Persist
<1>2. Nums(mdisk') \subseteq Listed
  BY <1>1 DEF Alloc, Listed, Persist
<1>3. CASE pc' \in {"idle", "close"}
  BY <1>1, <1>2, <1>3, WholeKept DEF Listed
<1>4. CASE pc' = next /\ mdisk' = man'
  <2>1. cur' \notin Nums(mdisk') \cup tables'
    BY <1>4 DEF FreshInv, OutputNameIsFresh
  <2>2. Listed' = Nums(man) /\ cur' \notin Listed' /\ cur' \notin ins'
    BY <1>1, <1>4, <2>1 DEF Listed
  <2>3. ListedAreWhole'
    BY <2>2 DEF WholeInv, ListedAreWhole, Listed, Whole
  <2> QED
    BY <1>4, <2>2, <2>3 DEF WholeInv, OutputIsWhole, OutputIsUnlisted, InputsAreUnlisted, OutputIsNoInput
<1> QED
  BY <1>3, <1>4 DEF Alloc, Persist

\* The table in hand is created, then filled and finished.
LEMMA WholeWrite ==
    ASSUME WholeInv, UNCHANGED <<man, mdisk, cur, ins>>,
           \/ pc \in {"create", "write"} /\ pc' \in {"write", "addFile"}
           \/ pc \in {"cCreate", "cMerge"} /\ pc' \in {"cMerge", "cReplace"},
           pc' \in {"addFile", "cReplace"} => Whole(cur)',
           \A n \in Listed : file'[n] = file[n]
    PROVE  WholeInv'
<1>1. Listed' = Listed
  BY DEF Listed
<1>2. ListedAreWhole'
  BY <1>1 DEF WholeInv, ListedAreWhole, Whole
<1>3. OutputIsUnlisted'
  BY <1>1 DEF WholeInv, OutputIsUnlisted
<1>4. OutputIsNoInput'
  BY DEF WholeInv, OutputIsNoInput, CompactSteps
<1> QED
  BY <1>2, <1>3, <1>4 DEF WholeInv, OutputIsWhole, InputsAreUnlisted

\* No step lists an unfinished table or removes a listed one, unless Manifest.AddFile fails.
LEMMA WholeNext ==
    ASSUME "addFile" \notin Faults
    PROVE  TypeInv /\ FreshInv /\ FreshInv' /\ WholeInv /\ [Next]_vars => WholeInv'
<1> SUFFICES ASSUME TypeInv, FreshInv, FreshInv', WholeInv, [Next]_vars PROVE WholeInv'
  OBVIOUS
<1> USE DEF TypeInv, TypeOK
<1>a. /\ Listed \in SUBSET (1 .. MaxFile)
      /\ cur \in 0 .. MaxFile
      /\ ins \subseteq tables
      /\ tables \in SUBSET (1 .. MaxFile)
      /\ file \in [1 .. MaxFile -> [st : {"absent", "partial", "complete"}, ents : SUBSET BoundedEntry]]
  BY NumsType DEF OperationType, TableType, Listed
<1>1. CASE Call
  <2>1. CASE (\E readOnly \in BOOLEAN : Open(readOnly)) \/ OpenAbandon
    BY <2>1, WholeKept DEF Open, OpenAbandon, OpenReading, Listed
  <2>2. ASSUME NEW ops, AppendFrame(ops) PROVE WholeInv'
    BY <2>2, WholeKept DEF AppendFrame, manVars, Listed
  <2>3. CASE OpenFail \/ Sync \/ Flush \/ Close
    BY <2>3, WholeKept DEF OpenFail, Sync, Flush, Close, manVars, Listed
  <2>4. CASE CompactBegin
    <3>1. ins' \subseteq tables
      BY <2>4, CompactInputsSubset DEF CompactBegin
    <3> QED
      BY <2>4, <3>1, WholeAlloc DEF CompactBegin, readVars
  <2> QED
    BY <1>1, <2>1, <2>2, <2>3, <2>4 DEF Call, Put, Delete, Write
<1>2. CASE Continue
  <2>1. CASE ApplyWrite
    BY <2>1, WholeKept DEF ApplyWrite, manVars, Listed
  <2>2. CASE FlushAlloc
    <3>1. ins' \subseteq tables
      BY <1>a, <2>2 DEF FlushAlloc
    <3> QED
      BY <2>2, <3>1, WholeAlloc DEF FlushAlloc, readVars
  <2>3. CASE FlushCreate \/ FlushWrite \/ CompactCreate \/ CompactMerge
    <3>1. file' = file \/ \E f : file' = [file EXCEPT ![cur] = f]
      BY <2>3, Zenon DEF FlushCreate, FlushWrite, CompactCreate, CompactMerge
    <3>2. cur \notin Listed
      BY <2>3
      DEF FlushCreate, FlushWrite, CompactCreate, CompactMerge, WholeInv, OutputIsUnlisted
    <3>3. \A n \in Listed : file'[n] = file[n]
      BY <1>a, <3>1, <3>2, OneFile
    <3>4. UNCHANGED <<man, mdisk>>
      BY <2>3 DEF FlushCreate, FlushWrite, CompactCreate, CompactMerge, manVars
    <3>5. CASE Return
      BY <3>3, <3>4, <3>5, WholeKept DEF Return, Listed
    <3>6. CASE ~Return
      <4>1. /\ \/ pc \in {"create", "write"} /\ pc' \in {"write", "addFile"}
               \/ pc \in {"cCreate", "cMerge"} /\ pc' \in {"cMerge", "cReplace"}
            /\ UNCHANGED <<cur, ins>>
        BY <2>3, <3>6 DEF FlushCreate, FlushWrite, CompactCreate, CompactMerge, opVars
      <4>2. pc' \in {"addFile", "cReplace"} => \E E : file' = [file EXCEPT ![cur] = Finish(E)]
        BY <2>3, <3>6 DEF FlushCreate, FlushWrite, CompactCreate, CompactMerge
      <4>3. cur \in 1 .. MaxFile
        BY <1>a, <4>1 DEF OperationType, CompactSteps
      <4>4. ASSUME pc' \in {"addFile", "cReplace"} PROVE Whole(cur)'
        <5>1. PICK E : file' = [file EXCEPT ![cur] = Finish(E)]
          BY <4>2, <4>4
        <5>2. file'[cur] = Finish(E) /\ cur' = cur
          BY <1>a, <4>1, <4>3, <5>1
        <5>3. Finish(E).st = "complete"
          BY DEF Finish
        <5> QED
          BY <5>2, <5>3 DEF Whole
      <4> QED
        BY <3>3, <3>4, <4>1, <4>4, WholeWrite
    <3> QED
      BY <3>5, <3>6
  <2>4. CASE FlushAddFile
    <3>1. mdisk' = man' /\ pc = "addFile" /\ pc' = "install" /\ UNCHANGED <<file, cur>>
      BY <2>4 DEF FlushAddFile, Fail, opVars, Persist
    <3>2. Nums(man') = Nums(man) \cup {cur}
      BY <2>4, AddFileNums DEF FlushAddFile, Persist
    <3>3. Whole(cur)
      BY <3>1 DEF WholeInv, OutputIsWhole
    <3>4. ListedAreWhole'
      BY <3>1, <3>2, <3>3 DEF WholeInv, ListedAreWhole, Listed, Whole
    <3> QED
      BY <3>1, <3>3, <3>4
      DEF WholeInv, OutputIsWhole, OutputIsUnlisted, InputsAreUnlisted, OutputIsNoInput, CompactSteps, Whole
  <2>5. CASE FlushInstall
    BY <2>5, WholeKept DEF FlushInstall, Return, manVars, Listed, Reset
  <2>6. CASE CompactReplace
    <3>1. pc = "cReplace" /\ UNCHANGED file
      BY <2>6 DEF CompactReplace, Persist
    <3>2. Whole(cur) /\ cur \notin ins
      BY <3>1 DEF WholeInv, OutputIsWhole, OutputIsNoInput, CompactSteps
    <3>3. CASE UNCHANGED manVars /\ Return
      BY <3>1, <3>3, WholeKept DEF Return, manVars, Listed
    <3>4. CASE /\ \E top : man' = Replace(man, ins, FileMeta(cur, 1, top), top)
               /\ \/ mdisk' = mdisk /\ Return
                  \/ mdisk' = man' /\ pc' = "cRemove" /\ UNCHANGED opVars
      <4>1. Nums(man') = (Nums(man) \ ins) \cup {cur}
        BY <3>4, ReplaceNums
      <4>2. mdisk' \in {mdisk, man'}
        BY <3>4
      <4>3. ListedAreWhole'
        BY <3>1, <3>2, <4>1, <4>2 DEF WholeInv, ListedAreWhole, Listed, Whole
      <4>4. CASE Return
        BY <4>3, <4>4 DEF WholeInv, OutputIsWhole, OutputIsUnlisted, InputsAreUnlisted, OutputIsNoInput,
                          CompactSteps, Return
      <4>5. CASE mdisk' = man' /\ pc' = "cRemove" /\ UNCHANGED opVars
        <5>1. cur' = cur /\ ins' = ins
          BY <4>5 DEF opVars
        <5>2. ins' \cap Listed' = {}
          BY <3>2, <4>1, <4>5, <5>1 DEF Listed
        <5> QED
          BY <3>1, <3>2, <4>3, <4>5, <5>1, <5>2
          DEF WholeInv, OutputIsWhole, OutputIsUnlisted, InputsAreUnlisted, OutputIsNoInput, Whole
      <4> QED
        BY <3>4, <4>4, <4>5
    <3> QED
      BY <2>6, <3>3, <3>4 DEF CompactReplace, Persist
  <2>7. ASSUME NEW n \in ins, CompactRemove(n) PROVE WholeInv'
    <3>1. pc = "cRemove" /\ UNCHANGED <<pc, man, mdisk, cur, ins>>
      BY <2>7 DEF CompactRemove, manVars, opVars
    <3>2. n \notin Listed /\ n # cur
      BY <3>1 DEF WholeInv, InputsAreUnlisted, OutputIsNoInput, CompactSteps
    <3>3. \A i \in 1 .. MaxFile : i # n => file'[i] = file[i]
      BY <1>a, <2>7 DEF CompactRemove
    <3>4. cur \in 1 .. MaxFile
      BY <1>a, <3>1 DEF OperationType, CompactSteps
    <3>5. Listed' = Listed
      BY <3>1 DEF Listed
    <3> QED
      BY <1>a, <3>1, <3>2, <3>3, <3>4, <3>5
      DEF WholeInv, ListedAreWhole, OutputIsWhole, OutputIsUnlisted, InputsAreUnlisted, OutputIsNoInput,
          Whole
  <2>8. CASE CompactInstall
    BY <2>8, WholeKept DEF CompactInstall, Return, manVars, Listed
  <2>9. CASE CloseFinish
    BY <2>9, WholeKept DEF CloseFinish, Vanish, Listed
  <2> QED
    BY <1>2, <2>1, <2>2, <2>3, <2>4, <2>5, <2>6, <2>7, <2>8, <2>9 DEF Continue
<1>3. CASE ProcessCrash \/ PowerLoss
  BY <1>3, WholeKept DEF ProcessCrash, PowerLoss, Vanish, Listed
<1>4. CASE UNCHANGED vars
  BY <1>4 DEF vars, WholeInv, ListedAreWhole, OutputIsWhole, OutputIsUnlisted, InputsAreUnlisted,
              OutputIsNoInput, Listed, Whole
<1> QED
  BY <1>1, <1>2, <1>3, <1>4 DEF Next

(***************************************************************************)
(* The store can always be opened again: at every moment, also between the *)
(* steps of a flush or a compaction and after any other failed call, each  *)
(* table that MANIFEST lists is a finished file (openTables, flushLocked,  *)
(* Compact).  The assumption is needed: a failing Manifest.AddFile leaves  *)
(* a table in the manifest whose file flushLocked has removed.             *)
(***************************************************************************)
THEOREM ListedTablesOpen ==
    ASSUME "addFile" \notin Faults
    PROVE  Spec => []ManifestNamesWholeTables
<1>1. WholeInv => ManifestNamesWholeTables
  BY DEF WholeInv, ListedAreWhole, Listed, Whole, ManifestNamesWholeTables, Openable, CanOpen, Nums
<1>2. TypeInv /\ FreshInv /\ FreshInv' /\ WholeInv /\ [Next]_vars => WholeInv'
  BY WholeNext
<1> QED
  BY <1>1, <1>2, TypeInit, TypeNext, FreshInit, FreshNext, WholeInit, PTL DEF Spec

-----------------------------------------------------------------------------
(***************************************************************************)
(* Torn frames.  A frame that was cut short is the last one of the log,    *)
(* and there is none while the process runs.                               *)
(***************************************************************************)
TornIsLast == \A i \in 1 .. Len(wal) : i < Len(wal) => wal[i] # Torn

RunningLogIsWhole == pc # "down" => \A i \in 1 .. Len(wal) : wal[i] # Torn

TornInv == TornIsLast /\ RunningLogIsWhole

\* The empty log has no torn frame.
LEMMA TornInit == Init => TornInv
  BY DEF Init, TornInv, TornIsLast, RunningLogIsWhole

\* The log stays and the process does not come up.
LEMMA TornKept ==
    ASSUME TornInv, UNCHANGED wal, pc = "down" => pc' = "down"
    PROVE  TornInv'
  BY DEF TornInv, TornIsLast, RunningLogIsWhole

\* A log with no torn frame, whether or not the process runs.
LEMMA TornNone ==
    ASSUME \A i \in 1 .. Len(wal') : wal'[i] # Torn
    PROVE  TornInv'
  BY DEF TornInv, TornIsLast, RunningLogIsWhole

\* A crash cuts the frame after a whole part of the log.
LEMMA TornTail ==
    ASSUME LogType, NEW n \in 0 .. Len(wal), \A i \in 1 .. n : wal[i] # Torn,
           wal' = Append(Prefix(wal, n), Torn), pc' = "down"
    PROVE  TornInv'
<1>1. wal \in Seq(FrameType) /\ Len(wal) \in Nat /\ n \in Nat
  BY LenProperties DEF LogType, FrameType
<1> DEFINE p == Prefix(wal, n)
<1>2. p \in Seq(FrameType) /\ Len(p) = n /\ \A i \in 1 .. n : p[i] = wal[i]
  BY <1>1, PrefixProperty
<1> HIDE DEF p
<1>3. Torn \in FrameType
  BY BoundsAssumption DEF Torn, Frame, FrameType
<1>4. Len(Append(p, Torn)) = n + 1 /\ \A i \in 1 .. n : Append(p, Torn)[i] = p[i]
  BY <1>2, <1>3, AppendProperties
<1>5. wal' = Append(p, Torn)
  BY DEF p
<1>6. Len(wal') = n + 1
  BY <1>4, <1>5
<1>7. ASSUME NEW i \in 1 .. n PROVE wal'[i] # Torn
  BY <1>2, <1>4, <1>5
<1> QED
  BY <1>1, <1>6, <1>7 DEF TornInv, TornIsLast, RunningLogIsWhole

\* No step leaves a torn frame before another frame, unless an append fails half way.
LEMMA TornNext ==
    ASSUME "append" \notin Faults
    PROVE  TypeInv /\ TornInv /\ [Next]_vars => TornInv'
<1> SUFFICES ASSUME TypeInv, TornInv, [Next]_vars PROVE TornInv'
  OBVIOUS
<1>a. LogType /\ wal \in Seq(FrameType) /\ Len(wal) \in Nat
  BY LenProperties DEF TypeInv, TypeOK, LogType, FrameType
<1>b. ASSUME NEW log \in Seq(FrameType)
      PROVE  \A i \in 1 .. Len(recoverTail(log)) : recoverTail(log)[i] # Torn
  BY <1>b, RecoverTailProperty
<1>c. pc # "down" => \A i \in 1 .. Len(wal) : wal[i] # Torn
  BY DEF TornInv, RunningLogIsWhole
<1>1. CASE Call
  <2>1. ASSUME NEW log \in Seq(FrameType), wal' = recoverTail(log) PROVE TornInv'
    BY <1>b, <2>1, TornNone
  <2>2. CASE (\E readOnly \in BOOLEAN : Open(readOnly)) \/ OpenAbandon \/ OpenFail
    BY <1>a, <2>1, <2>2, PrefixIsLog DEF Open, OpenAbandon, OpenReading, OpenFail, LogOK
  <2>a. ASSUME NEW ops \in Seq(Op), AppendFrame(ops), UNCHANGED wal PROVE TornInv'
    BY <2>a, TornKept DEF AppendFrame
  <2>3. ASSUME NEW ops \in Seq(Op), AppendFrame(ops), wal' # wal PROVE TornInv'
    <3> DEFINE f == Frame(nextSeq + 1, ops)
    <3>1. wal' = Append(wal, f) /\ pc # "down" /\ nextSeq + Len(ops) <= MaxSeq
      BY <2>3 DEF AppendFrame, Fail
    <3>2. nextSeq \in Nat /\ Len(ops) \in Nat
      BY <1>a, LenProperties DEF LogType
    <3>3. f # Torn
      BY <3>2 DEF Frame, Torn
    <3> HIDE DEF f
    <3>4. wal' = Append(wal, f) /\ Len(wal') = Len(wal) + 1
      BY <1>a, <3>1
    <3>5. ASSUME NEW i \in 1 .. Len(wal') PROVE wal'[i] # Torn
      <4>1. CASE i = Len(wal) + 1
        BY <1>a, <3>3, <3>4, <4>1
      <4>2. CASE i # Len(wal) + 1
        <5>1. i \in 1 .. Len(wal)
          BY <1>a, <3>4, <4>2
        <5>2. wal'[i] = wal[i]
          BY <1>a, <3>4, <5>1
        <5> QED
          BY <1>c, <3>1, <5>1, <5>2
      <4> QED
        BY <4>1, <4>2
    <3> QED
      BY <3>5, TornNone
  <2>4. CASE Sync \/ Flush \/ CompactBegin \/ Close
    BY <2>4, TornKept DEF Sync, Flush, CompactBegin, Close, logVars
  <2>5. ASSUME NEW k \in Key, NEW v \in Value \cup {Tombstone}
        PROVE  <<[key |-> k, val |-> v]>> \in Seq(Op)
    BY DEF Op
  <2>6. ASSUME NEW k \in Key, NEW v \in Value, Put(k, v) PROVE TornInv'
    BY <2>a, <2>3, <2>5, <2>6 DEF Put
  <2>7. ASSUME NEW k \in Key, Delete(k) PROVE TornInv'
    BY <2>a, <2>3, <2>5, <2>7 DEF Delete
  <2>8. ASSUME NEW batch \in Batches, Write(batch) PROVE TornInv'
    BY <2>a, <2>3, <2>8, BatchesAssumption DEF Write
  <2> QED
    BY <1>1, <2>2, <2>4, <2>6, <2>7, <2>8 DEF Call
<1>2. CASE Continue
  <2>1. CASE FlushInstall
    <3>1. CASE wal' = << >>
      BY <3>1, TornNone
    <3>2. CASE wal' = wal
      BY <2>1, <3>2, TornKept DEF FlushInstall, Reset
    <3> QED
      BY <2>1, <3>1, <3>2 DEF FlushInstall, logVars, Reset
  <2>2. CASE ApplyWrite \/ CloseFinish
    BY <2>2, TornKept DEF ApplyWrite, CloseFinish
  <2>3. CASE FlushAlloc \/ FlushCreate \/ FlushWrite \/ FlushAddFile
    BY <2>3, TornKept DEF FlushAlloc, FlushCreate, FlushWrite, FlushAddFile, logVars, Persist
  <2>4. CASE CompactCreate \/ CompactMerge \/ CompactReplace \/ CompactInstall
    BY <2>4, TornKept DEF CompactCreate, CompactMerge, CompactReplace, CompactInstall, logVars, Persist
  <2>5. ASSUME NEW n \in ins, CompactRemove(n) PROVE TornInv'
    BY <2>5, TornKept DEF CompactRemove, logVars
  <2> QED
    BY <1>2, <2>1, <2>2, <2>3, <2>4, <2>5 DEF Continue
<1>3. CASE ProcessCrash
  <2>1. pc' = "down" /\ pc # "down"
    BY <1>3 DEF ProcessCrash, Vanish
  <2>2. CASE wal' = wal
    BY <2>1, <2>2, TornKept
  <2>3. CASE wal' = Append(wal, Torn)
    <3>1. Len(wal) \in 0 .. Len(wal)
      BY <1>a
    <3>2. Prefix(wal, Len(wal)) = wal
      BY <1>a, <3>1, PrefixProperty, SeqEqual
    <3> QED
      BY <1>a, <1>c, <2>1, <2>3, <3>1, <3>2, TornTail
  <2> QED
    BY <1>3, <2>2, <2>3 DEF ProcessCrash
<1>4. CASE PowerLoss
  <2>1. PICK n \in synced .. Len(wal) :
           wal' = Prefix(wal, n) \/ (n < Len(wal) /\ wal' = Append(Prefix(wal, n), Torn))
    BY <1>4 DEF PowerLoss
  <2>2. n \in 0 .. Len(wal) /\ n \in Nat /\ pc' = "down"
    BY <1>4, <1>a DEF PowerLoss, Vanish, LogType
  <2>3. CASE wal' = Prefix(wal, n)
    <3>1. Len(wal') = n /\ \A i \in 1 .. n : wal'[i] = wal[i]
      BY <1>a, <2>2, <2>3, PrefixProperty
    <3> QED
      BY <1>a, <2>2, <3>1 DEF TornInv, TornIsLast, RunningLogIsWhole
  <2>4. CASE n < Len(wal) /\ wal' = Append(Prefix(wal, n), Torn)
    <3>1. \A i \in 1 .. n : wal[i] # Torn
      BY <1>a, <2>2, <2>4 DEF TornInv, TornIsLast
    <3> QED
      BY <1>a, <2>2, <2>4, <3>1, TornTail
  <2> QED
    BY <2>1, <2>3, <2>4
<1>5. CASE UNCHANGED vars
  BY <1>5, TornKept DEF vars
<1> QED
  BY <1>1, <1>2, <1>3, <1>4, <1>5 DEF Next

(***************************************************************************)
(* Nothing that was synced is cut off by recovery: crashes of either kind, *)
(* however many and at whatever step, leave a torn frame only behind the   *)
(* synced ones (writeFrame, recoverTail).  The assumption is needed: run   *)
(* MCTornFrame shows what a failed append that leaves half a frame does.   *)
(***************************************************************************)
THEOREM SyncedFramesSurvive ==
    ASSUME "append" \notin Faults
    PROVE  Spec => []SyncedFramesAreReplayed
<1>1. ASSUME TypeInv, TornInv PROVE SyncedFramesAreReplayed
  <2>1. wal \in Seq(FrameType) /\ Len(wal) \in Nat /\ synced \in 0 .. Len(wal)
    BY <1>1, LenProperties DEF TypeInv, TypeOK, LogType, FrameType
  <2>2. ValidLen(wal) \in 0 .. Len(wal) /\ (ValidLen(wal) = Len(wal) \/ wal[ValidLen(wal) + 1] = Torn)
    BY <2>1, ValidLenProperty
  <2>3. ASSUME NEW i \in 1 .. synced, wal[i] # Torn PROVE i <= ValidLen(wal)
    <3>1. CASE ValidLen(wal) = Len(wal)
      BY <2>1, <3>1
    <3>2. CASE ValidLen(wal) # Len(wal)
      <4>1. ValidLen(wal) + 1 \in 1 .. Len(wal) /\ wal[ValidLen(wal) + 1] = Torn
        BY <2>1, <2>2, <3>2
      <4>2. ValidLen(wal) + 1 = Len(wal)
        BY <1>1, <2>1, <2>2, <4>1 DEF TornInv, TornIsLast
      <4> QED
        BY <2>1, <2>2, <2>3, <4>1, <4>2
    <3> QED
      BY <3>1, <3>2
  <2> QED
    BY <2>3 DEF SyncedFramesAreReplayed
<1>2. TypeInv /\ TornInv /\ [Next]_vars => TornInv'
  BY TornNext
<1> QED
  BY <1>1, <1>2, TypeInit, TypeNext, TornInit, PTL DEF Spec

-----------------------------------------------------------------------------
(***************************************************************************)
(* Syncs under SyncBatch.  Written is the number of frames in the log and  *)
(* Counted what Log.appends stands at, both without the frame of a write   *)
(* that has not come to maybeSyncLocked.  Of the frames counted, those     *)
(* since the last multiple of SyncEveryN may be unsynced.                  *)
(***************************************************************************)
Written == IF pc = "append" THEN Len(wal) - 1 ELSE Len(wal)

Counted == IF pc = "append" THEN appends - 1 ELSE appends

SyncInv ==
    SyncPolicy = "batch" /\ pc # "down" =>
        /\ Counted \in 0 .. Written
        /\ Written - synced <= Counted % SyncEveryN \/ Counted = Counted % SyncEveryN

\* There is no process at first.
LEMMA SyncInit == Init => SyncInv
  BY DEF Init, SyncInv

\* Nothing is counted that is not in the log, and nothing in the log is less synced than before.
LEMMA SyncKept ==
    ASSUME TypeInv, SyncInv, pc # "down", Written' = Written, Counted' = Counted,
           synced' \in {synced, Len(wal)}
    PROVE  SyncInv'
<1>1. Len(wal) \in Nat /\ synced \in 0 .. Len(wal) /\ appends \in Nat
  BY LenProperties DEF TypeInv, TypeOK, LogType
<1>2. SUFFICES ASSUME SyncPolicy = "batch" PROVE SyncInv'
  BY DEF SyncInv
<1>3. Counted \in 0 .. Written /\ (Written - synced <= Counted % SyncEveryN \/ Counted = Counted % SyncEveryN)
  BY <1>2 DEF SyncInv
<1>4. Written \in Int /\ Written <= Len(wal) /\ Counted \in Nat
  BY <1>1, <1>3 DEF Written
<1>5. Counted % SyncEveryN \in 0 .. SyncEveryN - 1
  BY <1>4, Remainder, PolicyAssumption
<1>6. Written - Len(wal) <= Counted % SyncEveryN
  BY <1>1, <1>4, <1>5, PolicyAssumption
<1> QED
  BY <1>3, <1>6 DEF SyncInv

\* Nothing has been counted.
LEMMA SyncNone ==
    ASSUME TypeInv', pc' # "append", appends' = 0
    PROVE  SyncInv'
<1>1. Len(wal') \in Nat
  BY LenProperties DEF TypeInv, TypeOK, LogType
<1>2. 0 % SyncEveryN = 0
  <2>1. 0 % SyncEveryN \in 0 .. SyncEveryN - 1 /\ 0 \div SyncEveryN \in Int
        /\ 0 % SyncEveryN = 0 - SyncEveryN * (0 \div SyncEveryN)
    BY Remainder, PolicyAssumption
  <2> QED
    BY PolicyAssumption
<1> QED
  BY <1>1, <1>2 DEF SyncInv, Counted, Written

\* maybeSyncLocked syncs, or the remainder counts the frame.
LEMMA SyncApply ==
    ASSUME "sync" \notin Faults, TypeInv, SyncInv, ApplyWrite
    PROVE  SyncInv'
<1>1. Len(wal) \in Nat /\ synced \in 0 .. Len(wal) /\ appends \in Nat /\ SyncEveryN \in Nat \ {0}
  BY LenProperties, PolicyAssumption DEF TypeInv, TypeOK, LogType
<1>2. pc = "append" /\ pc' \in {"idle", "flush"} /\ UNCHANGED <<wal, appends>>
      /\ synced' = IF SyncDue THEN Len(wal) ELSE synced
  BY DEF ApplyWrite, Fail
<1>3. SUFFICES ASSUME SyncPolicy = "batch" PROVE SyncInv'
  BY DEF SyncInv
<1> DEFINE N == SyncEveryN
           a == appends - 1
<1>4. /\ a \in Nat /\ a + 1 = appends /\ appends <= Len(wal)
      /\ (Len(wal) - 1) - synced <= a % N \/ a = a % N
  BY <1>1, <1>2, <1>3 DEF SyncInv, Counted, Written
<1>5. SyncDue <=> appends % N = 0
  BY <1>3 DEF SyncDue
<1>6. Counted' = appends /\ Written' = Len(wal)
  BY <1>2 DEF Counted, Written
<1>7. CASE appends % N = 0
  BY <1>1, <1>2, <1>4, <1>5, <1>6, <1>7 DEF SyncInv
<1>8. CASE appends % N # 0
  <2> HIDE DEF a, N
  <2>1. N \in Nat \ {0} /\ (a + 1) % N # 0
    BY <1>1, <1>4, <1>8 DEF N
  <2>2. appends % N = (a % N) + 1
    BY <1>4, <2>1, NextRemainder
  <2>3. a % N \in 0 .. N - 1
    BY <1>4, <2>1, Remainder
  <2>4. Len(wal) - synced <= appends % N \/ appends = appends % N
    BY <1>1, <1>4, <2>1, <2>2, <2>3
  <2>5. synced' = synced
    BY <1>2, <1>5, <1>8
  <2> QED
    BY <1>1, <1>4, <1>6, <2>4, <2>5 DEF SyncInv, N
<1> QED
  BY <1>7, <1>8

\* The invariant is inductive unless appends or syncs fail.
LEMMA SyncNext ==
    ASSUME Faults \cap {"append", "sync"} = {}
    PROVE  TypeInv /\ TypeInv' /\ SyncInv /\ [Next]_vars => SyncInv'
<1> SUFFICES ASSUME TypeInv, TypeInv', SyncInv, [Next]_vars PROVE SyncInv'
  OBVIOUS
<1>a. "append" \notin Faults /\ "sync" \notin Faults
  OBVIOUS
<1>b. ASSUME pc' = "down" PROVE SyncInv'
  BY <1>b DEF SyncInv
<1>c. ASSUME pc \notin {"down", "append"}, pc' # "append", UNCHANGED <<wal, appends>>, synced' \in {synced, Len(wal)}
      PROVE  SyncInv'
  <2>1. Written' = Written /\ Counted' = Counted
    BY <1>c DEF Written, Counted
  <2> QED
    BY <1>c, <2>1, SyncKept
<1>1. CASE Call
  <2>1. CASE (\E readOnly \in BOOLEAN : Open(readOnly)) \/ OpenAbandon
    BY <2>1, SyncNone DEF Open, OpenAbandon, OpenReading
  <2>a. ASSUME NEW ops, AppendFrame(ops), pc' # "append" PROVE SyncInv'
    BY <1>a, <1>c, <2>a DEF AppendFrame, Fail
  <2>2. ASSUME NEW ops, AppendFrame(ops), pc' = "append" PROVE SyncInv'
    <3>1. /\ pc = "idle" /\ pc' = "append" /\ appends' = appends + 1 /\ synced' = synced
          /\ wal' = Append(wal, Frame(nextSeq + 1, ops))
      BY <1>a, <2>2 DEF AppendFrame, Fail
    <3>2. Len(wal) \in Nat /\ appends \in Nat /\ Len(wal') = Len(wal) + 1
      <4>1. Len(wal) \in Nat /\ appends \in Nat /\ wal \in Seq(FrameType) /\ wal' \in Seq(FrameType)
        BY LenProperties DEF TypeInv, TypeOK, LogType, FrameType
      <4> QED
        BY <3>1, <4>1
    <3>3. Written' = Written /\ Counted' = Counted
      BY <3>1, <3>2 DEF Written, Counted
    <3> QED
      BY <3>1, <3>3, SyncKept
  <2>3. CASE OpenFail
    BY <1>b, <2>3 DEF OpenFail
  <2>4. CASE Sync \/ Flush \/ CompactBegin \/ Close
    BY <1>c, <2>4 DEF Sync, Flush, CompactBegin, Close, Alloc, logVars
  <2> QED
    BY <1>1, <2>1, <2>a, <2>2, <2>3, <2>4 DEF Call, Put, Delete, Write
<1>2. CASE Continue
  <2>1. CASE FlushAlloc \/ FlushCreate \/ FlushWrite \/ FlushAddFile \/ CompactCreate \/ CompactMerge
             \/ CompactReplace \/ (\E n \in ins : CompactRemove(n)) \/ CompactInstall
    <3>1. pc \notin {"down", "append"} /\ pc' # "append" /\ UNCHANGED <<wal, appends, synced>>
      BY <2>1 DEF FlushAlloc, FlushCreate, FlushWrite, FlushAddFile, CompactCreate, CompactMerge,
                  CompactReplace, CompactRemove, CompactInstall, Alloc, Return, logVars
    <3> QED
      BY <1>c, <3>1
  <2>2. CASE FlushInstall
    <3>1. pc = "install" /\ pc' \in {"idle", "close"} /\ (UNCHANGED logVars \/ appends' = 0)
      BY <2>2 DEF FlushInstall, Return, Reset
    <3> QED
      BY <1>c, <3>1, SyncNone DEF logVars
  <2>3. CASE CloseFinish
    BY <1>b, <2>3 DEF CloseFinish, Vanish
  <2> QED
    BY <1>2, <1>a, <2>1, <2>2, <2>3, SyncApply DEF Continue
<1>3. CASE ProcessCrash \/ PowerLoss
  BY <1>b, <1>3 DEF ProcessCrash, PowerLoss, Vanish
<1>4. CASE UNCHANGED vars
  BY <1>4 DEF vars, SyncInv, Written, Counted
<1> QED
  BY <1>1, <1>2, <1>3, <1>4 DEF Next

(***************************************************************************)
(* Under SyncBatch a loss of power takes fewer than SyncEveryN of the      *)
(* writes that this process has acknowledged, unless an append or a sync   *)
(* has failed: the count goes on over flushes that keep the log, and       *)
(* starts again with the log that Reset empties.                           *)
(***************************************************************************)
THEOREM UnsyncedBounded ==
    ASSUME Faults \cap {"append", "sync"} = {}
    PROVE  Spec => []UnsyncedIsBounded
<1>1. ASSUME TypeInv, SyncInv PROVE UnsyncedIsBounded
  <2> SUFFICES ASSUME SyncPolicy = "batch", pc = "idle"
               PROVE  Len(wal) - Highest({synced, Len(wal) - appends}) < SyncEveryN
    BY DEF UnsyncedIsBounded
  <2> DEFINE S == {synced, Len(wal) - appends}
  <2>1. Len(wal) \in Nat /\ synced \in 0 .. Len(wal) /\ SyncEveryN \in Nat \ {0}
    BY <1>1, LenProperties, PolicyAssumption DEF TypeInv, TypeOK, LogType
  <2>2. /\ appends \in 0 .. Len(wal)
        /\ Len(wal) - synced <= appends % SyncEveryN \/ appends = appends % SyncEveryN
    BY <1>1 DEF SyncInv, Counted, Written
  <2>3. appends % SyncEveryN \in 0 .. SyncEveryN - 1
    BY <2>1, <2>2, Remainder
  <2>4. S \in SUBSET (0 .. Len(wal))
    BY <2>1, <2>2
  <2>5. Highest(S) \in 0 .. Len(wal) /\ synced <= Highest(S) /\ Len(wal) - appends <= Highest(S)
    BY <2>1, <2>4, HighestProperty
  <2> HIDE DEF S
  <2>6. Len(wal) - Highest(S) < SyncEveryN
    BY <2>1, <2>2, <2>3, <2>5
  <2> QED
    BY <2>6 DEF S
<1>2. TypeInv /\ TypeInv' /\ SyncInv /\ [Next]_vars => SyncInv'
  BY SyncNext
<1> QED
  BY <1>1, <1>2, TypeInit, TypeNext, SyncInit, PTL DEF Spec

-----------------------------------------------------------------------------
(***************************************************************************)
(* A flush that returns to its caller has emptied memtable and log, so     *)
(* that a replay finds nothing that a table holds already.  Without empty  *)
(* keys, which Writer.Add may refuse and only a batch lets through,        *)
(* nothing but a call that fails can end a flush early.                    *)
(***************************************************************************)
THEOREM FlushesEmptyMemtable ==
    ASSUME Faults \cap {"alloc", "create", "write", "addFile", "openSst", "truncate"} = {}, EmptyKey \notin Key
    PROVE  Spec => FlushEmptiesMemtable
<1> DEFINE A == (pc \in FlushSteps) /\ pc' \in {"idle", "close"} => mem' = EmptyMem /\ wal' = << >>
<1>1. TypeInv /\ [Next]_vars => [A]_vars
  <2> SUFFICES ASSUME TypeInv, Next, pc \in FlushSteps, pc' \in {"idle", "close"}
               PROVE  mem' = EmptyMem /\ wal' = << >>
    OBVIOUS
  <2>1. ~MayRefuse(mem)
    BY DEF TypeInv, TypeOK, TableType, MayRefuse, KeysOf, BoundedEntry
  <2>2. ~Call
    BY DEF Call, Open, OpenAbandon, OpenReading, OpenFail, Put, Delete, Write, AppendFrame, Sync, Flush, CompactBegin,
           Close, FlushSteps
  <2>3. ~ProcessCrash /\ ~PowerLoss /\ ~CloseFinish
    BY DEF ProcessCrash, PowerLoss, CloseFinish, Vanish
  <2>4. ~ApplyWrite /\ ~CompactCreate /\ ~CompactMerge /\ ~CompactReplace
        /\ ~(\E n \in ins : CompactRemove(n)) /\ ~CompactInstall
    BY DEF ApplyWrite, CompactCreate, CompactMerge, CompactReplace, CompactRemove, CompactInstall, FlushSteps
  <2>5. ~FlushAlloc /\ ~FlushCreate /\ ~FlushWrite /\ ~FlushAddFile
    BY <2>1 DEF FlushAlloc, Alloc, FlushCreate, FlushWrite, FlushAddFile, Fail
  <2>6. FlushInstall
    BY <2>2, <2>3, <2>4, <2>5 DEF Next, Continue
  <2> QED
    BY <2>6 DEF FlushInstall, Fail, Reset
<1> QED
  BY <1>1, TypeInit, TypeNext, PTL DEF Spec, FlushEmptiesMemtable

-----------------------------------------------------------------------------
(***************************************************************************)
(* Sequence numbers: one number, one write, whatever calls fail.           *)
(***************************************************************************)
\* The table files that something refers to: either copy of the manifest, a reader or the operation in
\* progress.
UsedFiles == Listed \cup tables \cup ({cur} \ {0})

\* Every entry that is stored anywhere; of the log also what stands behind a torn frame.
Stored == mem \cup LogEntries(wal) \cup UNION {file[n].ents : n \in UsedFiles}

\* Two stored entries with one number are the same entry.
OneEntryPerSeq == \A e, f \in Stored : e.seq = f.seq => e = f

\* While the process runs no stored number is above the last one handed out.
SeqsHandedOut == pc # "down" => \A e \in Stored : e.seq <= nextSeq

\* The MaxSeq of a listed table, in either copy of the manifest, bounds the numbers in its file.
MetaBoundsTable == \A f \in man.files \cup mdisk.files : \A e \in file[f.num].ents : e.seq <= f.maxSeq

\* The table a flush lists holds the memtable, which the MaxSeq is taken from.
FlushedIsMem == pc \in {"addFile", "install"} => file[cur].ents = mem

SeqInv == OneEntryPerSeq /\ SeqsHandedOut /\ MetaBoundsTable /\ FlushedIsMem /\ OutputIsUnlisted

\* An empty directory stores nothing.
LEMMA SeqInit == Init => SeqInv
<1> SUFFICES ASSUME Init PROVE SeqInv
  OBVIOUS
<1>1. LogEntries(wal) = {} /\ UsedFiles = {} /\ mem = {}
  BY DEF Init, LogEntries, UsedFiles, Listed, Nums, NewManifest, EmptyMem
<1>2. Stored = {}
  BY <1>1 DEF Stored
<1> QED
  BY <1>2 DEF Init, SeqInv, OneEntryPerSeq, SeqsHandedOut, MetaBoundsTable, FlushedIsMem, OutputIsUnlisted,
              NewManifest

\* Every stored entry has a number within the bound.
LEMMA StoredType ==
    ASSUME TypeInv
    PROVE  Stored \subseteq BoundedEntry /\ UsedFiles \subseteq 1 .. MaxFile
<1> USE DEF TypeInv, TypeOK
<1>1. LogEntries(wal) \subseteq BoundedEntry
  BY LogEntriesType DEF LogType, BoundedEntry
<1>2. UsedFiles \subseteq 1 .. MaxFile
  <2>1. Listed \subseteq 1 .. MaxFile
    BY NumsType DEF Listed
  <2>2. tables \subseteq 1 .. MaxFile /\ {cur} \ {0} \subseteq 1 .. MaxFile
    BY DEF OperationType
  <2> QED
    BY <2>1, <2>2 DEF UsedFiles
<1>3. \A n \in UsedFiles : file[n].ents \subseteq BoundedEntry
  BY <1>2 DEF TableType
<1> QED
  BY <1>1, <1>2, <1>3 DEF Stored, TableType

\* A step after which nothing is stored that was not stored before, and no number is handed out again.
LEMMA NothingNewStored ==
    ASSUME TypeInv, TypeInv', SeqInv,
           mem' \subseteq Stored, LogEntries(wal') \subseteq Stored,
           \A n \in UsedFiles' : file'[n].ents \subseteq Stored,
           pc' = "down" \/ (pc # "down" /\ nextSeq <= nextSeq')
    PROVE  OneEntryPerSeq' /\ SeqsHandedOut'
<1>1. Stored' \subseteq Stored
  BY DEF Stored
<1>2. OneEntryPerSeq'
  BY <1>1 DEF SeqInv, OneEntryPerSeq
<1>3. nextSeq \in Nat /\ nextSeq' \in Nat /\ \A e \in Stored : e.seq \in Nat
  BY StoredType DEF TypeInv, TypeOK, LogType, BoundedEntry
<1>4. ASSUME pc' # "down", NEW e \in Stored' PROVE e.seq <= nextSeq'
  <2>1. e \in Stored /\ e.seq <= nextSeq /\ nextSeq <= nextSeq'
    BY <1>1, <1>4 DEF SeqInv, SeqsHandedOut
  <2> QED
    BY <1>3, <2>1
<1> QED
  BY <1>2, <1>4 DEF SeqsHandedOut

\* A step that lists nothing new and adds nothing to a listed table.
LEMMA NothingNewListed ==
    ASSUME MetaBoundsTable,
           man'.files \cup mdisk'.files \subseteq man.files \cup mdisk.files,
           \A n \in Listed : file'[n].ents \subseteq file[n].ents
    PROVE  MetaBoundsTable'
<1>1. ASSUME NEW f \in man'.files \cup mdisk'.files, NEW e \in file'[f.num].ents PROVE e.seq <= f.maxSeq
  <2>1. f \in man.files \cup mdisk.files /\ f.num \in Listed
    BY <1>1 DEF Listed, Nums
  <2> QED
    BY <1>1, <2>1 DEF MetaBoundsTable
<1> QED
  BY <1>1 DEF MetaBoundsTable

\* A step of which only the log, the memtable or the readers show anything.
LEMMA SeqQuiet ==
    ASSUME TypeInv, TypeInv', SeqInv,
           mem' \subseteq Stored, LogEntries(wal') \subseteq Stored,
           file' = file,
           man'.files \cup mdisk'.files \subseteq man.files \cup mdisk.files,
           tables' \subseteq UsedFiles, cur' \in {0, cur},
           pc' = "down" \/ (pc # "down" /\ nextSeq <= nextSeq'),
           pc' \in {"down", "idle", "close", "append", "flush", "cRemove"}
    PROVE  SeqInv'
<1>1. Listed' \subseteq Listed
  BY DEF Listed, Nums
<1>2. UsedFiles' \subseteq UsedFiles
  BY <1>1 DEF UsedFiles
<1>3. \A n \in UsedFiles' : file'[n].ents \subseteq Stored
  BY <1>2 DEF Stored
<1>4. OneEntryPerSeq' /\ SeqsHandedOut'
  BY <1>3, NothingNewStored
<1>5. MetaBoundsTable'
  BY NothingNewListed DEF SeqInv
<1> QED
  BY <1>4, <1>5 DEF SeqInv, FlushedIsMem, OutputIsUnlisted

\* The number that Open continues from is above every number it finds.
LEMMA SeqOpen ==
    ASSUME TypeInv, TypeInv', SeqInv, NEW readOnly \in BOOLEAN,
           Open(readOnly) \/ (OpenAbandon /\ ~readOnly)
    PROVE  SeqInv'
<1> USE DEF TypeInv, TypeOK
<1>1. LogOK(wal) /\ wal \in Seq(FrameType) /\ Len(wal) \in Nat /\ mdisk \in ManifestState
  BY PrefixIsLog, LenProperties DEF LogOK
<1>2. PICK scanned \in Seq(FrameType), replayed \in Seq(FrameType) :
         /\ OpenReading(readOnly, scanned, replayed)
         /\ LogOK(scanned)
         /\ LogEntries(scanned) \subseteq LogEntries(wal)
         /\ Replay(replayed) \subseteq Replay(scanned)
  <2>1. CASE OpenReading(readOnly, wal, wal)
    BY <1>1, <2>1
  <2>2. ASSUME NEW n \in 0 .. Len(wal) - 1,
               \/ OpenReading(readOnly, Prefix(wal, n), Prefix(wal, n))
               \/ OpenReading(readOnly, wal, Prefix(wal, n))
        PROVE  \E s, r \in Seq(FrameType) :
                  /\ OpenReading(readOnly, s, r)
                  /\ LogOK(s)
                  /\ LogEntries(s) \subseteq LogEntries(wal)
                  /\ Replay(r) \subseteq Replay(s)
    <3>1. n \in 0 .. Len(wal)
      BY <1>1
    <3>2. LogOK(Prefix(wal, n)) /\ Prefix(wal, n) \in Seq(FrameType)
      BY PrefixIsLog DEF LogOK
    <3>3. LogEntries(Prefix(wal, n)) \subseteq LogEntries(wal) /\ Replay(Prefix(wal, n)) \subseteq Replay(wal)
      BY <1>1, <3>1, PrefixEntries, ReplayOfPrefix
    <3> QED
      BY <1>1, <2>2, <3>2, <3>3
  <2> QED
    BY <2>1, <2>2 DEF Open, OpenAbandon
<1>a. pc' \in {"idle", "flush"}
  BY DEF Open, OpenAbandon
<1>3. /\ pc' \in {"idle", "flush"} /\ wal' = recoverTail(scanned) /\ nextSeq' = RecoveredSeq(scanned)
      /\ mem' = Top(Replay(replayed)) /\ man' = mdisk /\ tables' = Nums(mdisk)
      /\ UNCHANGED <<file, mdisk, cur>> /\ pc = "down"
  BY <1>2, <1>a DEF OpenReading, MemApply, EmptyMem, OpenTables
<1>4. cur = 0
  BY <1>3 DEF OperationType, CompactSteps
<1>5. mem' \subseteq Replay(scanned) /\ LogEntries(wal') = Replay(scanned)
      /\ Replay(scanned) \subseteq LogEntries(wal)
  BY <1>2, <1>3, TopIsSubset, ReplayEntries DEF Replay
<1>6. UsedFiles' = Nums(mdisk)
  BY <1>3, <1>4 DEF UsedFiles, Listed
<1>7. Stored' = Replay(scanned) \cup UNION {file[n].ents : n \in Nums(mdisk)}
  BY <1>3, <1>5, <1>6 DEF Stored
<1>8. OneEntryPerSeq'
  <2>1. Stored' \subseteq Stored
    BY <1>5, <1>7 DEF Stored, UsedFiles, Listed
  <2> QED
    BY <2>1 DEF SeqInv, OneEntryPerSeq
<1>9. SeqsHandedOut'
  <2>1. recoveredSeq(scanned) \in 0 .. MaxSeq /\ Replay(scanned) \subseteq BoundedEntry
    BY <1>2, ReplayType
  <2>2. {f.maxSeq : f \in mdisk.files} \in SUBSET (0 .. MaxSeq) /\ mdisk.logSeq \in 0 .. MaxSeq
    BY <1>1, SMTT(30) DEF ManifestState
  <2>3. /\ MaxSeqAmongFiles(mdisk) \in 0 .. MaxSeq
        /\ \A f \in mdisk.files : f.maxSeq \in 0 .. MaxSeq /\ f.maxSeq <= MaxSeqAmongFiles(mdisk)
    BY <2>2, HighestProperty DEF MaxSeqAmongFiles
  <2>4. /\ nextSeq' \in 0 .. MaxSeq
        /\ recoveredSeq(scanned) <= nextSeq' /\ MaxSeqAmongFiles(mdisk) <= nextSeq'
    <3> DEFINE S == {recoveredSeq(scanned), MaxSeqAmongFiles(mdisk), mdisk.logSeq}
    <3>1. S \in SUBSET (0 .. MaxSeq)
      BY <2>1, <2>2, <2>3
    <3>2. Highest(S) \in 0 .. MaxSeq /\ \A x \in S : x <= Highest(S)
      BY <3>1, HighestProperty
    <3> QED
      BY <1>3, <3>2 DEF RecoveredSeq
  <2>5. ASSUME NEW e \in Replay(scanned) PROVE e.seq <= nextSeq'
    <3>1. SeqsOf(Replay(scanned)) \in SUBSET (0 .. MaxSeq) /\ e.seq \in SeqsOf(Replay(scanned))
      BY <2>1 DEF SeqsOf, BoundedEntry
    <3>2. e.seq <= recoveredSeq(scanned) /\ e.seq \in 0 .. MaxSeq
      BY <3>1, HighestProperty DEF recoveredSeq, Replay
    <3> QED
      BY <2>1, <2>4, <3>2
  <2>6. ASSUME NEW n \in Nums(mdisk), NEW e \in file[n].ents PROVE e.seq <= nextSeq'
    <3>1. PICK f \in mdisk.files : n = f.num
      BY DEF Nums
    <3>2. e.seq <= f.maxSeq
      BY <3>1 DEF SeqInv, MetaBoundsTable
    <3>3. e.seq \in Nat
      BY <2>6, StoredType DEF Stored, UsedFiles, Listed, BoundedEntry
    <3> QED
      BY <2>3, <2>4, <3>1, <3>2, <3>3
  <2> QED
    BY <1>7, <2>5, <2>6 DEF SeqsHandedOut
<1>10. MetaBoundsTable'
  BY <1>3, NothingNewListed DEF SeqInv
<1> QED
  BY <1>3, <1>8, <1>9, <1>10 DEF SeqInv, FlushedIsMem, OutputIsUnlisted

\* The numbers of a frame follow the ones handed out before, without a gap or a repetition.
LEMMA FrameSeqs ==
    ASSUME NEW ops \in Seq(Op), NEW n \in Nat
    PROVE  /\ \A e \in FrameEntries(Frame(n + 1, ops)) : e.seq \in n + 1 .. n + Len(ops)
           /\ \A e, f \in FrameEntries(Frame(n + 1, ops)) : e.seq = f.seq => e = f
<1> DEFINE E(i) == [key |-> ops[i].key, val |-> ops[i].val, seq |-> n + 1 + i - 1]
<1>1. FrameEntries(Frame(n + 1, ops)) = {E(i) : i \in 1 .. Len(ops)}
  BY DEF FrameEntries, Frame
<1>2. Len(ops) \in Nat
  BY LenProperties
<1>3. \A i \in 1 .. Len(ops) : E(i).seq = n + i /\ n + i \in n + 1 .. n + Len(ops)
  BY <1>2
<1>4. ASSUME NEW i \in 1 .. Len(ops), NEW j \in 1 .. Len(ops), E(i).seq = E(j).seq PROVE E(i) = E(j)
  <2>1. n + i = n + j
    BY <1>3, <1>4
  <2>2. i = j
    BY <1>2, <2>1
  <2> QED
    BY <2>2
<1> HIDE DEF E
<1> QED
  BY <1>1, <1>3, <1>4

\* Put, Delete and Write store entries with new numbers, or burn the numbers.
LEMMA SeqAppend ==
    ASSUME TypeInv, TypeInv', SeqInv, NEW ops \in Seq(Op), ops # << >>, AppendFrame(ops)
    PROVE  SeqInv'
<1> USE DEF TypeInv, TypeOK
<1> DEFINE new == FrameEntries(Frame(nextSeq + 1, ops))
<1>1. wal \in Seq(FrameType) /\ nextSeq \in Nat /\ Len(ops) \in Nat \ {0} /\ nextSeq + Len(ops) <= MaxSeq
  BY LenProperties, EmptySeq DEF LogType, FrameType, AppendFrame
<1>2. Frame(nextSeq + 1, ops) \in FrameType
  BY <1>1 DEF Frame, FrameType
<1>3. /\ pc = "idle" /\ pc' \in {"idle", "append"} /\ nextSeq' = nextSeq + Len(ops)
      /\ UNCHANGED <<file, mem, man, mdisk, tables, cur>>
  BY DEF AppendFrame, manVars, readVars, opVars
<1>4. CASE wal' \in {wal, Append(wal, Torn)}
  <2>1. Torn \in FrameType
    BY DEF Torn, Frame, FrameType
  <2>2. LogEntries(wal') = LogEntries(wal)
    <3>1. LogEntries(Append(wal, Torn)) = LogEntries(wal) \cup FrameEntries(Torn)
      BY <1>1, <2>1, AppendEntries, ZenonT(60)
    <3> QED
      BY <1>4, <3>1, TornHasNoEntries, ZenonT(60)
  <2>3. mem' \subseteq Stored /\ LogEntries(wal') \subseteq Stored /\ tables' \subseteq UsedFiles
    BY <1>3, <2>2 DEF Stored, UsedFiles
  <2> QED
    BY <1>1, <1>3, <2>3, SeqQuiet
<1>5. CASE wal' = Append(wal, Frame(nextSeq + 1, ops))
  <2>1. LogEntries(wal') = LogEntries(wal) \cup new
    BY <1>1, <1>2, <1>5, AppendEntries
  <2>2. Stored' = Stored \cup new
    BY <1>3, <2>1 DEF Stored, UsedFiles, Listed
  <2>3. /\ \A e \in new : e.seq \in nextSeq + 1 .. nextSeq + Len(ops)
        /\ \A e, f \in new : e.seq = f.seq => e = f
    BY <1>1, FrameSeqs
  <2>4. \A e \in Stored : e.seq \in Nat /\ e.seq <= nextSeq
    BY <1>3, StoredType DEF SeqInv, SeqsHandedOut, BoundedEntry
  <2> HIDE DEF new
  <2>5. OneEntryPerSeq'
    <3>1. \A e \in Stored, f \in new : e.seq # f.seq
      BY <1>1, <2>3, <2>4
    <3>2. \A e, f \in Stored : e.seq = f.seq => e = f
      BY DEF SeqInv, OneEntryPerSeq
    <3> QED
      BY <2>2, <2>3, <3>1, <3>2 DEF OneEntryPerSeq
  <2>6. SeqsHandedOut'
    <3>1. \A e \in Stored \cup new : e.seq <= nextSeq + Len(ops)
      BY <1>1, <2>3, <2>4
    <3> QED
      BY <1>3, <2>2, <3>1 DEF SeqsHandedOut
  <2>7. MetaBoundsTable'
    BY <1>3, NothingNewListed DEF SeqInv
  <2> QED
    BY <1>3, <2>5, <2>6, <2>7 DEF SeqInv, FlushedIsMem, OutputIsUnlisted
<1> QED
  BY <1>4, <1>5 DEF AppendFrame

\* The memtable is given the numbers of the frame just appended.
LEMMA SeqApply ==
    ASSUME TypeInv, TypeInv', SeqInv, ApplyWrite
    PROVE  SeqInv'
<1> USE DEF TypeInv, TypeOK
<1> DEFINE last == wal[Len(wal)]
           first == nextSeq - Len(last.ops) + 1
<1>1. wal \in Seq(FrameType) /\ wal # << >> /\ Len(wal) \in Nat /\ last.first = first
  BY LenProperties DEF LogType, FrameType, AppendedFrame, ApplyWrite
<1>2. Len(wal) \in 1 .. Len(wal)
  BY <1>1, EmptySeq
<1>3. last \in FrameType
  BY <1>1, <1>2, ElementOfSeq
<1>4. Frame(first, last.ops) = last
  BY <1>1, <1>3 DEF Frame, FrameType
<1>5. FrameEntries(last) \subseteq LogEntries(wal)
  BY <1>2 DEF LogEntries
<1>6. mem' \in {mem, MemApply(mem, FrameEntries(Frame(first, last.ops)))}
  BY DEF ApplyWrite
<1> HIDE DEF last, first
<1>7. mem' \subseteq Stored
  BY <1>4, <1>5, <1>6, TopIsSubset DEF MemApply, Stored
<1>8. /\ pc # "down" /\ pc' \in {"idle", "flush"}
      /\ UNCHANGED <<wal, nextSeq, file, man, mdisk, tables, cur>>
  BY DEF ApplyWrite, manVars, readVars, opVars
<1>9. LogEntries(wal') \subseteq Stored /\ tables' \subseteq UsedFiles /\ nextSeq <= nextSeq'
  BY <1>8 DEF Stored, UsedFiles, LogType
<1> QED
  BY <1>7, <1>8, <1>9, SeqQuiet

\* A file number is taken: the file that has it is empty and on no list.
LEMMA SeqAlloc ==
    ASSUME TypeInv, TypeInv', FreshInv', SeqInv, NEW next \in {"create", "cCreate"}, Alloc(next), pc # "down",
           UNCHANGED <<file, mem, wal, nextSeq, tables>>
    PROVE  SeqInv'
<1> USE DEF TypeInv, TypeOK
<1>1. man'.files = man.files
  BY DEF Alloc, AllocFileName, ManifestState, Persist
<1>2. mem' \subseteq Stored /\ LogEntries(wal') \subseteq Stored /\ tables' \subseteq UsedFiles
      /\ nextSeq <= nextSeq'
  BY DEF Stored, UsedFiles, LogType
<1>3. CASE mdisk' = mdisk /\ cur' = cur /\ pc' \in {"idle", "close"}
  BY <1>1, <1>2, <1>3, SeqQuiet
<1>4. CASE mdisk' = man' /\ pc' = next
  <2>1. cur' \notin Nums(mdisk') /\ file[cur'].ents = {}
    BY <1>4 DEF FreshInv, OutputNameIsFresh, NoFile
  <2>2. Listed' \subseteq Listed /\ cur' \notin Listed'
    BY <1>1, <1>4, <2>1 DEF Listed, Nums
  <2>3. \A n \in UsedFiles' : file'[n].ents \subseteq Stored
    BY <2>1, <2>2 DEF UsedFiles, Stored
  <2>4. OneEntryPerSeq' /\ SeqsHandedOut'
    BY <1>2, <2>3, NothingNewStored
  <2>5. MetaBoundsTable'
    BY <1>1, <1>4, NothingNewListed DEF SeqInv
  <2> QED
    BY <1>4, <2>2, <2>4, <2>5 DEF SeqInv, FlushedIsMem, OutputIsUnlisted
<1> QED
  BY <1>3, <1>4 DEF Alloc, Persist

\* The file in hand, which no manifest lists, is given entries that are stored elsewhere, or none.
LEMMA SeqWrite ==
    ASSUME TypeInv, TypeInv', SeqInv, cur \notin Listed, pc # "down", pc' # "down", cur' \in {0, cur},
           UNCHANGED <<mem, wal, nextSeq, tables, man, mdisk>>,
           NEW g, g.ents \subseteq Stored,
           file' = [file EXCEPT ![cur] = g],
           pc' \in {"addFile", "install"} => g.ents = mem /\ cur' = cur,
           pc' \in {"write", "addFile", "cMerge", "cReplace"} => cur' = cur,
           pc' \notin {"create", "cCreate"}
    PROVE  SeqInv'
<1> USE DEF TypeInv, TypeOK
<1>1. Listed' = Listed /\ UsedFiles' \subseteq UsedFiles
  BY DEF Listed, UsedFiles
<1>2. \A n \in 1 .. MaxFile : file'[n] = IF n = cur THEN g ELSE file[n]
  BY DEF TableType
<1>3. UsedFiles \subseteq 1 .. MaxFile /\ Listed \subseteq UsedFiles
  BY StoredType DEF UsedFiles
<1>4. \A n \in UsedFiles' : file'[n].ents \subseteq Stored
  BY <1>1, <1>2, <1>3 DEF Stored
<1>5. OneEntryPerSeq' /\ SeqsHandedOut'
  <2>1. mem' \subseteq Stored /\ LogEntries(wal') \subseteq Stored /\ nextSeq <= nextSeq'
    BY DEF Stored, LogType
  <2> QED
    BY <1>4, <2>1, NothingNewStored
<1>6. MetaBoundsTable'
  BY <1>2, <1>3, NothingNewListed DEF SeqInv
<1>7. FlushedIsMem'
  <2>1. pc' \in {"addFile", "install"} => cur \in 1 .. MaxFile
    BY DEF OperationType
  <2> QED
    BY <1>2, <2>1 DEF FlushedIsMem
<1>8. OutputIsUnlisted'
  BY <1>1 DEF OutputIsUnlisted
<1> QED
  BY <1>5, <1>6, <1>7, <1>8 DEF SeqInv

\* The file in hand is listed with the highest number it holds, in memory and perhaps on disk.
LEMMA SeqList ==
    ASSUME TypeInv, TypeInv', SeqInv, cur # 0, pc # "down",
           pc' \in {"idle", "close", "install", "cRemove"}, cur' \in {0, cur},
           UNCHANGED <<mem, wal, nextSeq, tables>>,
           NEW l, NEW top, top = Highest(SeqsOf(file[cur].ents)),
           man'.files \subseteq man.files \cup {FileMeta(cur, l, top)},
           mdisk' \in {mdisk, man'},
           \A n \in 1 .. MaxFile : file'[n].ents \subseteq file[n].ents,
           pc' = "install" => cur' = cur /\ file' = file /\ file[cur].ents = mem
    PROVE  SeqInv'
<1> USE DEF TypeInv, TypeOK
<1>1. Listed' \subseteq Listed \cup {cur}
  BY DEF Listed, Nums, FileMeta
<1>2. UsedFiles' \subseteq UsedFiles /\ UsedFiles \subseteq 1 .. MaxFile
  BY <1>1, StoredType DEF UsedFiles
<1>3. \A n \in UsedFiles' : file'[n].ents \subseteq Stored
  BY <1>2 DEF Stored
<1>4. OneEntryPerSeq' /\ SeqsHandedOut'
  <2>1. mem' \subseteq Stored /\ LogEntries(wal') \subseteq Stored /\ nextSeq <= nextSeq'
    BY DEF Stored, LogType
  <2> QED
    BY <1>3, <2>1, NothingNewStored
<1>5. cur \in 1 .. MaxFile /\ \A e \in file[cur].ents : e.seq <= top
  <2>1. cur \in 1 .. MaxFile
    BY DEF OperationType
  <2>2. SeqsOf(file[cur].ents) \in SUBSET (0 .. MaxSeq)
    BY <2>1 DEF TableType, SeqsOf, BoundedEntry
  <2>3. \A s \in SeqsOf(file[cur].ents) : s <= top
    BY <2>2, HighestProperty
  <2> QED
    BY <2>1, <2>3 DEF SeqsOf
<1>6. MetaBoundsTable'
  <2> SUFFICES ASSUME NEW f \in man'.files \cup mdisk'.files, NEW e \in file'[f.num].ents
               PROVE  e.seq <= f.maxSeq
    BY DEF MetaBoundsTable
  <2>1. CASE f \in man.files \cup mdisk.files
    <3>1. f.num \in 1 .. MaxFile
      BY <2>1 DEF ManifestState
    <3> QED
      BY <2>1, <3>1 DEF SeqInv, MetaBoundsTable
  <2>2. CASE f = FileMeta(cur, l, top)
    BY <1>5, <2>2 DEF FileMeta
  <2> QED
    BY <2>1, <2>2
<1> QED
  BY <1>4, <1>6 DEF SeqInv, FlushedIsMem, OutputIsUnlisted

\* No step of the engine gives a stored number to another write.
LEMMA SeqNext == TypeInv /\ TypeInv' /\ FreshInv' /\ SeqInv /\ [Next]_vars => SeqInv'
<1> SUFFICES ASSUME TypeInv, TypeInv', FreshInv', SeqInv, [Next]_vars PROVE SeqInv'
  OBVIOUS
<1> USE DEF TypeInv, TypeOK
<1>a. /\ wal \in Seq(FrameType) /\ Len(wal) \in Nat
      /\ nextSeq \in Nat /\ nextSeq <= nextSeq
      /\ file \in [1 .. MaxFile -> [st : {"absent", "partial", "complete"}, ents : SUBSET BoundedEntry]]
  BY LenProperties DEF LogType, FrameType, TableType
<1>b. mem \subseteq Stored /\ LogEntries(wal) \subseteq Stored /\ tables \subseteq UsedFiles /\ {} \subseteq Stored
  BY DEF Stored, UsedFiles
<1>c. ASSUME Vanish, UNCHANGED <<file, mdisk>>, LogEntries(wal') \subseteq Stored PROVE SeqInv'
  BY <1>c, SeqQuiet DEF Vanish, EmptyMem
<1>d. NoFile.ents = {} /\ Create.ents = {}
  BY DEF NoFile, Create
<1>1. CASE Call
  <2>1. ASSUME NEW ops \in Seq(Op), ops # << >>, AppendFrame(ops) PROVE SeqInv'
    BY <2>1, SeqAppend
  <2>2. ASSUME NEW k \in Key, NEW v \in Value \cup {Tombstone}
        PROVE  <<[key |-> k, val |-> v]>> \in Seq(Op) /\ <<[key |-> k, val |-> v]>> # << >>
    BY DEF Op
  <2>3. ASSUME NEW k \in Key, NEW v \in Value, Put(k, v) PROVE SeqInv'
    BY <2>1, <2>2, <2>3 DEF Put
  <2>4. ASSUME NEW k \in Key, Delete(k) PROVE SeqInv'
    BY <2>1, <2>2, <2>4 DEF Delete
  <2>5. ASSUME NEW batch \in Batches, Write(batch) PROVE SeqInv'
    BY <2>1, <2>5, BatchesAssumption DEF Write
  <2>6. CASE OpenFail
    <3>1. LogEntries(wal') \subseteq Stored
      BY <1>a, <1>b, <2>6, ReplayEntries DEF OpenFail, Replay
    <3> QED
      BY <1>b, <2>6, <3>1, SeqQuiet DEF OpenFail, readVars, opVars, Fail
  <2>7. CASE Sync \/ Flush \/ Close
    BY <1>a, <1>b, <2>7, SeqQuiet DEF Sync, Flush, Close, manVars, readVars, opVars, logVars
  <2>8. CASE CompactBegin
    BY <2>8, SeqAlloc DEF CompactBegin, logVars, readVars
  <2>9. ASSUME NEW readOnly \in BOOLEAN, Open(readOnly) PROVE SeqInv'
    BY <2>9, SeqOpen
  <2>10. CASE OpenAbandon
    BY <2>10, SeqOpen
  <2> QED
    BY <1>1, <2>3, <2>4, <2>5, <2>6, <2>7, <2>8, <2>9, <2>10 DEF Call
<1>2. CASE Continue
  <2>1. CASE FlushAlloc
    BY <2>1, SeqAlloc DEF FlushAlloc, logVars, readVars
  <2>2. CASE FlushCreate \/ FlushWrite \/ CompactCreate \/ CompactMerge
    <3>1. cur \notin Listed /\ cur \in 1 .. MaxFile
      BY <2>2 DEF FlushCreate, FlushWrite, CompactCreate, CompactMerge, SeqInv, OutputIsUnlisted,
                  OperationType, CompactSteps
    <3>2. /\ pc \in {"create", "write", "cCreate", "cMerge"} /\ cur' \in {0, cur}
          /\ UNCHANGED <<mem, wal, nextSeq, tables, man, mdisk>>
      BY <2>2 DEF FlushCreate, FlushWrite, CompactCreate, CompactMerge, Return, opVars, logVars, manVars,
                  readVars
    <3>3. /\ pc' \in {"idle", "close", "write", "addFile", "cMerge", "cReplace"}
          /\ pc' \in {"write", "addFile", "cMerge", "cReplace"} => cur' = cur
      BY <2>2 DEF FlushCreate, FlushWrite, CompactCreate, CompactMerge, Return, opVars
    <3>4. CASE file' = file /\ pc' \in {"idle", "close"}
      BY <1>a, <1>b, <3>2, <3>4, SeqQuiet
    <3>5. ASSUME NEW g, file' = [file EXCEPT ![cur] = g], g.ents \subseteq Stored,
                 pc' = "addFile" => g.ents = mem
          PROVE  SeqInv'
      BY <3>1, <3>2, <3>3, <3>5, SeqWrite
    <3>6. CASE FlushCreate
      BY <1>b, <1>d, <3>4, <3>5, <3>6 DEF FlushCreate, Return
    <3>7. CASE FlushWrite
      <4>1. CASE file' = [file EXCEPT ![cur] = Finish(mem)]
        <5>1. Finish(mem).ents = mem
          BY DEF Finish
        <5> QED
          BY <1>b, <3>5, <4>1, <5>1, Zenon
      <4>2. CASE file' = [file EXCEPT ![cur] = NoFile] /\ Return
        BY <1>b, <1>d, <3>5, <4>2 DEF Return
      <4>3. CASE file' = file /\ Return
        BY <3>4, <4>3 DEF Return
      <4> QED
        BY <3>7, <4>1, <4>2, <4>3 DEF FlushWrite
    <3>8. CASE CompactCreate
      BY <1>b, <1>d, <3>5, <3>8 DEF CompactCreate
    <3>9. CASE CompactMerge
      <4>1. UNION {file[n].ents : n \in ins} \subseteq Stored
        <5>1. ins \subseteq UsedFiles
          BY <1>b DEF OperationType
        <5> QED
          BY <5>1 DEF Stored
      <4>2. ASSUME NEW E \in SUBSET (UNION {file[n].ents : n \in ins}), pc' = "cReplace",
                   file' = [file EXCEPT ![cur] = Finish(E)]
            PROVE  SeqInv'
        <5>1. Finish(E).ents = E /\ E \subseteq Stored
          BY <4>1 DEF Finish
        <5>2. file' = [file EXCEPT ![cur] = Finish(E)] /\ pc' # "addFile"
          BY <4>2
        <5> QED
          BY <3>5, <5>1, <5>2, Zenon
      <4>3. CASE file' = [file EXCEPT ![cur] = NoFile] /\ Return
        BY <1>b, <1>d, <3>5, <4>3 DEF Return
      <4> QED
        BY <3>9, <4>2, <4>3, MergeOutput
    <3> QED
      BY <2>2, <3>6, <3>7, <3>8, <3>9
  <2>3. CASE FlushAddFile
    <3> DEFINE top == Highest(SeqsOf(mem))
    <3>1. file[cur].ents = mem /\ cur # 0 /\ pc = "addFile" /\ cur \in 1 .. MaxFile
      BY <2>3 DEF FlushAddFile, SeqInv, FlushedIsMem, OperationType
    <3>2. man'.files = man.files \cup {FileMeta(cur, 0, top)}
      BY <2>3 DEF FlushAddFile, AddFile
    <3>3. file' = file \/ (file' = [file EXCEPT ![cur] = NoFile] /\ Return)
      BY <2>3 DEF FlushAddFile, Persist
    <3>4. \A n \in 1 .. MaxFile : file'[n].ents \subseteq file[n].ents
      BY <1>a, <1>d, <3>3
    <3>5. /\ pc' \in {"idle", "close", "install"} /\ cur' \in {0, cur} /\ mdisk' \in {mdisk, man'}
          /\ UNCHANGED <<mem, wal, nextSeq, tables>>
          /\ pc' = "install" => cur' = cur /\ file' = file
      BY <2>3 DEF FlushAddFile, Return, opVars, logVars, readVars, Persist
    <3> HIDE DEF top
    <3>6. top = Highest(SeqsOf(file[cur].ents))
      BY <3>1 DEF top
    <3> QED
      BY <3>1, <3>2, <3>4, <3>5, <3>6, SeqList
  <2>4. CASE FlushInstall
    <3>1. /\ pc # "down" /\ pc' \in {"idle", "close"} /\ cur' = 0 /\ UNCHANGED <<file, man, mdisk>>
          /\ tables' \in {tables, tables \cup {cur}} /\ cur # 0
      BY <2>4 DEF FlushInstall, Return, manVars, OperationType
    <3>2. tables' \subseteq UsedFiles
      BY <1>b, <3>1 DEF UsedFiles
    <3>3. mem' \subseteq Stored /\ LogEntries(wal') \subseteq Stored
      <4>1. LogEntries(<< >>) = {}
        BY DEF LogEntries
      <4> QED
        BY <1>b, <2>4, <4>1 DEF FlushInstall, EmptyMem, Reset, logVars
    <3>4. nextSeq <= nextSeq'
      <4>1. {nextSeq} \cup SeqsOf(mem) \in SUBSET (0 .. MaxSeq)
        BY DEF LogType, TableType, SeqsOf, BoundedEntry
      <4>2. nextSeq <= Highest({nextSeq} \cup SeqsOf(mem))
        BY <4>1, HighestProperty
      <4> QED
        BY <1>a, <2>4, <4>2 DEF FlushInstall, Reset, logVars
    <3> QED
      BY <3>1, <3>2, <3>3, <3>4, SeqQuiet
  <2>5. CASE CompactReplace
    <3>1. /\ pc # "down" /\ cur' \in {0, cur} /\ cur # 0
          /\ UNCHANGED <<mem, wal, nextSeq, tables, file>>
      BY <2>5 DEF CompactReplace, Return, opVars, logVars, OperationType, CompactSteps
    <3>2. CASE UNCHANGED manVars /\ Return
      BY <1>a, <1>b, <3>1, <3>2, SeqQuiet DEF manVars, Return
    <3>3. CASE /\ man' = Replace(man, ins, FileMeta(cur, 1, Highest(SeqsOf(file[cur].ents))),
                                 Highest(SeqsOf(file[cur].ents)))
               /\ mdisk' \in {mdisk, man'}
               /\ pc' \in {"idle", "close", "cRemove"}
      <4>1. man'.files \subseteq man.files \cup {FileMeta(cur, 1, Highest(SeqsOf(file[cur].ents)))}
        BY <3>3 DEF Replace
      <4> QED
        BY <3>1, <3>3, <4>1, SeqList
    <3> QED
      BY <2>5, <3>2, <3>3 DEF CompactReplace, Persist, Return
  <2>6. ASSUME NEW n \in ins, CompactRemove(n) PROVE SeqInv'
    <3>1. /\ pc = "cRemove" /\ file' = [file EXCEPT ![n] = NoFile]
          /\ UNCHANGED <<pc, mem, wal, nextSeq, tables, man, mdisk, cur>>
      BY <2>6 DEF CompactRemove, logVars, manVars, readVars, opVars
    <3>2. \A i \in 1 .. MaxFile : file'[i].ents \subseteq file[i].ents
      BY <1>a, <1>d, <3>1
    <3>3. UsedFiles' = UsedFiles /\ UsedFiles \subseteq 1 .. MaxFile /\ Listed \subseteq UsedFiles
      BY <3>1, StoredType DEF UsedFiles, Listed
    <3>4. \A i \in UsedFiles' : file'[i].ents \subseteq Stored
      BY <3>2, <3>3 DEF Stored
    <3>5. OneEntryPerSeq' /\ SeqsHandedOut'
      BY <1>a, <1>b, <3>1, <3>4, NothingNewStored
    <3>6. MetaBoundsTable'
      BY <3>1, <3>2, <3>3, NothingNewListed DEF SeqInv
    <3> QED
      BY <3>1, <3>5, <3>6 DEF SeqInv, FlushedIsMem, OutputIsUnlisted
  <2>7. CASE CompactInstall
    <3>1. /\ pc # "down" /\ pc' \in {"idle", "close"} /\ cur' = 0 /\ cur # 0
          /\ UNCHANGED <<file, mem, wal, nextSeq, man, mdisk>>
          /\ tables' \subseteq tables \cup {cur}
      BY <2>7 DEF CompactInstall, Return, manVars, logVars, OperationType, CompactSteps
    <3>2. tables' \subseteq UsedFiles
      BY <1>b, <3>1 DEF UsedFiles
    <3> QED
      BY <1>a, <1>b, <3>1, <3>2, SeqQuiet
  <2>8. CASE CloseFinish
    BY <1>b, <1>c, <2>8 DEF CloseFinish
  <2> QED
    BY <1>2, <2>1, <2>2, <2>3, <2>4, <2>5, <2>6, <2>7, <2>8, SeqApply DEF Continue
<1>3. CASE ProcessCrash \/ PowerLoss
  <2>1. Torn \in FrameType
    BY DEF Torn, Frame, FrameType
  <2>2. ASSUME NEW w \in Seq(FrameType), LogEntries(w) \subseteq LogEntries(wal), wal' \in {w, Append(w, Torn)}
        PROVE  LogEntries(wal') \subseteq Stored
    <3>1. LogEntries(Append(w, Torn)) = LogEntries(w)
      <4>1. LogEntries(Append(w, Torn)) = LogEntries(w) \cup FrameEntries(Torn)
        BY <2>1, AppendEntries, ZenonT(60)
      <4> QED
        BY <4>1, TornHasNoEntries
    <3> QED
      BY <1>b, <2>2, <3>1
  <2>3. CASE ProcessCrash
    BY <1>a, <1>c, <2>2, <2>3 DEF ProcessCrash
  <2>4. CASE PowerLoss
    <3>1. PICK n \in synced .. Len(wal) : wal' \in {Prefix(wal, n), Append(Prefix(wal, n), Torn)}
      BY <2>4 DEF PowerLoss
    <3>2. n \in 0 .. Len(wal)
      BY <1>a DEF LogType
    <3>3. Prefix(wal, n) \in Seq(FrameType) /\ LogEntries(Prefix(wal, n)) \subseteq LogEntries(wal)
      BY <1>a, <3>2, PrefixProperty, PrefixEntries
    <3> QED
      BY <1>c, <2>2, <2>4, <3>1, <3>3 DEF PowerLoss
  <2> QED
    BY <1>3, <2>3, <2>4
<1>4. CASE UNCHANGED vars
  BY <1>4 DEF vars, SeqInv, OneEntryPerSeq, SeqsHandedOut, MetaBoundsTable, FlushedIsMem, OutputIsUnlisted,
              Stored, UsedFiles, Listed
<1> QED
  BY <1>1, <1>2, <1>3, <1>4 DEF Next

(***************************************************************************)
(* A sequence number identifies one write for ever: whatever part of the   *)
(* log a crash, a failed call or a recovery takes away, the number Open    *)
(* continues from (the highest of the log's, the tables' and the           *)
(* manifest's) and the one Log.Reset keeps are never below a number that   *)
(* an entry still has.  No call is assumed to succeed.                     *)
(***************************************************************************)
THEOREM SeqsIdentifyWrites == Spec => []SeqIdentifiesWrite
<1>1. ASSUME TypeInv, SeqInv PROVE SeqIdentifiesWrite
  <2>1. wal \in Seq(FrameType)
    BY <1>1 DEF TypeInv, TypeOK, LogType, FrameType
  <2>2. LiveDisk \cup mem \cup Replay(wal) \subseteq Stored
    BY <2>1, ReplayEntries DEF LiveDisk, Stored, UsedFiles, Listed, Nums
  <2> QED
    BY <1>1, <2>2 DEF SeqInv, OneEntryPerSeq, SeqIdentifiesWrite
<1> QED
  BY <1>1, TypeInit, TypeNext, FreshInit, FreshNext, SeqInit, SeqNext, PTL DEF Spec
=============================================================================
