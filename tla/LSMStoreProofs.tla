--------------------------- MODULE LSMStoreProofs ---------------------------
(***************************************************************************)
(* What flushes, compactions and readers do to the contents of the store,  *)
(* and that the engine implements KVStore.                                 *)
(***************************************************************************)
EXTENDS LSMProofs

USE BoundsAssumption

(***************************************************************************)
(* Maintenance.  The tables of the two copies of the manifest look the     *)
(* same to a reader, also after an update that failed to reach the disk,   *)
(* and they cover the tables that readers are open on, except those that   *)
(* a compaction is just removing.  What a compaction lists is the newest   *)
(* of what it takes off the list.                                          *)
(***************************************************************************)
Disk(m) == UNION {file[n].ents : n \in Nums(m)}

ManifestsAgree == Same(Disk(man), Disk(mdisk))

Removing == IF pc = "cRemove" THEN ins ELSE {}

InReaders == UNION {file[n].ents : n \in tables \ Removing}

ReadersAreCovered == Covers(Disk(mdisk), InReaders)

InstalledIsListed == pc \in {"install", "cRemove"} => cur \in Nums(mdisk)

OutputIsUnread == cur \notin tables

MergedIsTop == pc = "cReplace" => file[cur].ents = Top(UNION {file[n].ents : n \in ins})

KeepInv ==
    /\ ManifestsAgree
    /\ ReadersAreCovered
    /\ InstalledIsListed
    /\ InputsAreUnlisted
    /\ OutputIsUnread
    /\ MergedIsTop

\* Nothing is listed, open or merged at first.
LEMMA KeepInit == Init => KeepInv
<1> SUFFICES ASSUME Init PROVE KeepInv
  OBVIOUS
<1>1. Disk(man) = {} /\ Disk(mdisk) = {} /\ InReaders = {}
  BY DEF Init, Disk, InReaders, Nums, NewManifest
<1> QED
  BY <1>1 DEF Init, KeepInv, ManifestsAgree, ReadersAreCovered, InstalledIsListed, InputsAreUnlisted,
              OutputIsUnread, MergedIsTop, Same, Covers

\* The entries a manifest lists, and those of the readers, are stored.
LEMMA DiskFacts ==
    ASSUME TypeInv, SeqInv
    PROVE  /\ Stored \in SUBSET EntryUpTo(MaxSeq)
           /\ OnePerSeq(Stored)
           /\ Disk(man) \subseteq Stored /\ Disk(mdisk) \subseteq Stored /\ InReaders \subseteq Stored
           /\ \A n \in tables : file[n].ents \subseteq Stored
           /\ mem \subseteq Stored /\ LogEntries(wal) \subseteq Stored
<1>1. Stored \subseteq EntryUpTo(MaxSeq)
  BY StoredType DEF BoundedEntry, EntryUpTo
<1>2. OnePerSeq(Stored)
  BY DEF SeqInv, OneEntryPerSeq, OnePerSeq
<1> QED
  BY <1>1, <1>2 DEF Stored, UsedFiles, Listed, Disk, InReaders

\* What the manifest on disk lists are the tables of the store.
LEMMA LiveDiskIsDisk == LiveDisk = Disk(mdisk)
  BY DEF LiveDisk, Disk, Nums

\* A step other than the two updates of the manifest touches no file that is listed or read from, and
\* the MANIFEST on disk can only catch up with the one in memory.
LEMMA ListKept ==
    ASSUME TypeInv, SeqInv, KeepInv, [Next]_vars, pc \notin {"addFile", "cReplace"} \/ pc' = "down"
    PROVE  /\ Nums(man') \in {Nums(man), Nums(mdisk)}
           /\ Nums(mdisk') \in {Nums(man), Nums(mdisk)}
           /\ \A n \in Listed \cup (tables \ Removing) : file'[n] = file[n]
<1> USE DEF TypeInv, TypeOK
<1>a. /\ Listed \cup tables \subseteq 1 .. MaxFile
      /\ file \in [1 .. MaxFile -> [st : {"absent", "partial", "complete"}, ents : SUBSET BoundedEntry]]
  BY NumsType DEF Listed, TableType, OperationType
<1>b. ASSUME NEW next, Alloc(next) PROVE Nums(man') = Nums(man) /\ mdisk' \in {mdisk, man'}
  BY <1>b, AllocNums DEF Alloc, Persist
<1>c. ASSUME UNCHANGED <<file, mdisk>>, man' \in {man, mdisk}
      PROVE  /\ Nums(man') \in {Nums(man), Nums(mdisk)}
             /\ Nums(mdisk') \in {Nums(man), Nums(mdisk)}
             /\ \A n \in Listed \cup (tables \ Removing) : file'[n] = file[n]
  BY <1>c
<1>1. CASE Call
  <2>1. CASE CompactBegin
    BY <1>b, <2>1 DEF CompactBegin
  <2>2. CASE (\E readOnly \in BOOLEAN : Open(readOnly)) \/ OpenAbandon
    <3>1. UNCHANGED <<file, mdisk>> /\ man' = mdisk
      BY <2>2 DEF Open, OpenAbandon, OpenReading
    <3> QED
      BY <1>c, <3>1
  <2>3. ASSUME NEW ops, AppendFrame(ops) PROVE UNCHANGED <<file, mdisk, man>>
    BY <2>3 DEF AppendFrame, manVars
  <2>4. CASE OpenFail \/ Sync \/ Flush \/ Close
    BY <1>c, <2>4 DEF OpenFail, Sync, Flush, Close, manVars
  <2> QED
    BY <1>1, <1>c, <2>1, <2>2, <2>3, <2>4 DEF Call, Put, Delete, Write
<1>2. CASE Continue
  <2>1. CASE FlushAlloc
    BY <1>b, <2>1 DEF FlushAlloc
  <2>2. CASE FlushCreate \/ FlushWrite \/ CompactCreate \/ CompactMerge
    <3>1. file' = file \/ \E f : file' = [file EXCEPT ![cur] = f]
      BY <2>2, Zenon DEF FlushCreate, FlushWrite, CompactCreate, CompactMerge
    <3>2. cur \notin Listed \cup tables
      BY <2>2 DEF FlushCreate, FlushWrite, CompactCreate, CompactMerge, SeqInv, OutputIsUnlisted, KeepInv,
                  OutputIsUnread
    <3>3. UNCHANGED <<man, mdisk>>
      BY <2>2 DEF FlushCreate, FlushWrite, CompactCreate, CompactMerge, manVars
    <3> QED
      BY <1>a, <3>1, <3>2, <3>3, OneFile
  <2>3. CASE FlushAddFile \/ CompactReplace
    BY <2>3 DEF FlushAddFile, CompactReplace, Persist, Return
  <2>4. ASSUME NEW n \in ins, CompactRemove(n)
        PROVE  UNCHANGED <<man, mdisk>> /\ \A m \in Listed \cup (tables \ Removing) : file'[m] = file[m]
    <3>1. n \notin Listed /\ n \in Removing
      BY <2>4 DEF CompactRemove, KeepInv, InputsAreUnlisted, Removing
    <3> QED
      BY <1>a, <2>4, <3>1 DEF CompactRemove, manVars
  <2>5. CASE ApplyWrite \/ FlushInstall \/ CompactInstall
    BY <1>c, <2>5 DEF ApplyWrite, FlushInstall, CompactInstall, manVars, Reset
  <2>6. CASE CloseFinish
    BY <1>c, <2>6 DEF CloseFinish, Vanish
  <2> QED
    BY <1>2, <2>1, <2>2, <2>3, <2>4, <2>5, <2>6 DEF Continue
<1>3. CASE ProcessCrash \/ PowerLoss
  BY <1>3, <1>c DEF ProcessCrash, PowerLoss, Vanish
<1>4. CASE UNCHANGED vars
  BY <1>4, <1>c DEF vars
<1> QED
  BY <1>1, <1>2, <1>3, <1>4 DEF Next

\* So what the manifests list is what one of them listed.
LEMMA DiskKept ==
    ASSUME TypeInv, SeqInv, KeepInv, [Next]_vars, pc \notin {"addFile", "cReplace"} \/ pc' = "down"
    PROVE  Disk(man)' \in {Disk(man), Disk(mdisk)} /\ Disk(mdisk)' \in {Disk(man), Disk(mdisk)}
<1>1. \A n \in Listed : file'[n] = file[n]
  BY ListKept
<1>2. /\ UNION {file'[n].ents : n \in Nums(man)} = Disk(man)
      /\ UNION {file'[n].ents : n \in Nums(mdisk)} = Disk(mdisk)
  BY <1>1 DEF Disk, Listed
<1> QED
  BY <1>2, ListKept DEF Disk

\* Manifest.AddFile lists what the memtable holds, or an empty file that flushLocked has removed.
LEMMA AddFileDisk ==
    ASSUME TypeInv, SeqInv, KeepInv, FlushAddFile
    PROVE  /\ UNCHANGED <<wal, synced, nextSeq, appends, mem, tables, shut>>
           /\ \A n \in tables : file'[n] = file[n]
           /\ \/ /\ Disk(man)' = Disk(man) \cup mem /\ Disk(mdisk)' = Disk(man) \cup mem
                 /\ pc' = "install" /\ cur \in Nums(mdisk') /\ UNCHANGED <<cur, ins, file>>
              \/ /\ Disk(man)' = Disk(man) /\ Disk(mdisk)' = Disk(mdisk)
                 /\ pc' \in {"idle", "close"} /\ cur' = 0 /\ ins' = {}
<1> USE DEF TypeInv, TypeOK
<1>1. /\ pc = "addFile" /\ file[cur].ents = mem /\ cur \notin Listed \cup tables
      /\ UNCHANGED <<wal, synced, nextSeq, appends, mem, tables, shut>>
  BY DEF FlushAddFile, SeqInv, FlushedIsMem, OutputIsUnlisted, KeepInv, OutputIsUnread, logVars, readVars
<1>2. Nums(man') = Nums(man) \cup {cur}
  BY AddFileNums DEF FlushAddFile
<1>3. CASE Persist /\ pc' = "install" /\ UNCHANGED <<file, opVars, budget>>
  <2>0. file' = file /\ mdisk' = man' /\ UNCHANGED <<cur, ins>>
    BY <1>3 DEF Persist, opVars
  <2>1. UNION {file'[n].ents : n \in Nums(man')} = UNION {file[n].ents : n \in Nums(man) \cup {cur}}
    BY <1>2, <2>0
  <2>2. UNION {file[n].ents : n \in Nums(man) \cup {cur}} = Disk(man) \cup mem
    BY <1>1 DEF Disk
  <2>3. Disk(man)' = Disk(man) \cup mem
    BY <2>1, <2>2 DEF Disk
  <2>4. Disk(mdisk)' = Disk(man)' /\ cur \in Nums(mdisk')
    BY <1>2, <2>0 DEF Disk
  <2> QED
    BY <1>1, <1>3, <2>0, <2>3, <2>4
<1>4. CASE file' = [file EXCEPT ![cur] = NoFile] /\ Return /\ UNCHANGED mdisk
  <2>1. /\ Listed \cup tables \subseteq 1 .. MaxFile /\ cur \in 1 .. MaxFile
        /\ file \in [1 .. MaxFile -> [st : {"absent", "partial", "complete"}, ents : SUBSET BoundedEntry]]
    <3>1. cur \in 1 .. MaxFile
      BY <1>1 DEF OperationType
    <3>2. Listed \cup tables \subseteq 1 .. MaxFile
      BY NumsType DEF Listed, OperationType
    <3> QED
      BY <3>1, <3>2 DEF TableType
  <2>2. \A n \in Listed \cup tables : file'[n] = file[n]
    BY <1>1, <1>4, <2>1
  <2>3. file'[cur].ents = {}
    BY <1>4, <2>1 DEF NoFile
  <2>4. Disk(man)' = file'[cur].ents \cup UNION {file'[n].ents : n \in Nums(man)}
    BY <1>2 DEF Disk
  <2>5. Disk(man)' = Disk(man) /\ Disk(mdisk)' = Disk(mdisk)
    BY <1>4, <2>2, <2>3, <2>4 DEF Disk, Listed
  <2> QED
    BY <1>1, <1>4, <2>2, <2>5 DEF Return
<1> QED
  BY <1>3, <1>4 DEF FlushAddFile

\* Manifest.Replace lists what looks like the tables that were listed before.
LEMMA ReplaceDisk ==
    ASSUME TypeInv, SeqInv, KeepInv, CompactReplace
    PROVE  /\ UNCHANGED <<wal, synced, nextSeq, appends, mem, tables, file>>
           /\ Disk(man)' \in SUBSET Stored /\ Same(Disk(man)', Disk(mdisk))
           /\ Disk(mdisk)' \in SUBSET Stored /\ Same(Disk(mdisk)', Disk(mdisk))
           /\ \/ /\ pc' = "cRemove" /\ cur \in Nums(mdisk') /\ ins \cap Listed' = {} /\ shut' = shut \cup ins
                 /\ UNCHANGED <<cur, ins>>
              \/ pc' \in {"idle", "close"} /\ cur' = 0 /\ ins' = {}
<1> DEFINE A == UNION {file[n].ents : n \in Nums(man) \ ins}
           B == UNION {file[n].ents : n \in ins}
<1>1. /\ pc = "cReplace" /\ ins \subseteq tables /\ cur \notin tables
      /\ file[cur].ents = Top(B)
      /\ UNCHANGED <<wal, synced, nextSeq, appends, mem, tables, file>> /\ shut' = shut \cup ins
  BY DEF CompactReplace, KeepInv, MergedIsTop, OutputIsUnread, TypeInv, TypeOK, OperationType, logVars
<1>2. /\ Disk(man) \in SUBSET EntryUpTo(MaxSeq) /\ Disk(mdisk) \in SUBSET EntryUpTo(MaxSeq)
      /\ InReaders \in SUBSET EntryUpTo(MaxSeq) /\ Same(Disk(man), Disk(mdisk))
      /\ Covers(Disk(mdisk), InReaders)
  BY DiskFacts DEF KeepInv, ManifestsAgree, ReadersAreCovered
<1>3. A \in SUBSET EntryUpTo(MaxSeq) /\ B \in SUBSET EntryUpTo(MaxSeq) /\ A \subseteq Stored /\ B \subseteq Stored
      /\ B \subseteq InReaders
  <2>1. A \subseteq Disk(man)
    BY DEF Disk
  <2>2. B \subseteq InReaders
    BY <1>1 DEF InReaders, Removing
  <2> QED
    BY <2>1, <2>2, DiskFacts
<1>4. A \cup B = Disk(man) \cup B
  BY DEF Disk
<1>5. Same(A \cup Top(B), Disk(mdisk)) /\ A \cup Top(B) \in SUBSET Stored
  <2> HIDE DEF A, B
  <2>1. Top(B) \in SUBSET EntryUpTo(MaxSeq) /\ A \cup Top(B) \in SUBSET Stored
    BY <1>3, TopIsSubset
  <2>2. Same(Top(B) \cup A, B \cup A)
    BY <1>3, <2>1, SameTop, SameUnion
  <2>3. Covers(Disk(man), B)
    <3>1. Covers(InReaders, B)
      BY <1>2, <1>3, CoversPart
    <3>2. Covers(Disk(mdisk), B)
      BY <1>2, <1>3, <3>1, CoversTransitive
    <3> QED
      BY <1>2, <1>3, <3>2, CoversTransitive DEF Same
  <2>4. Same(Disk(man) \cup B, Disk(man))
    BY <1>2, <1>3, <2>3, SameAbsorb
  <2>5. Same(A \cup Top(B), A \cup B)
    <3>1. Top(B) \cup A = A \cup Top(B) /\ B \cup A = A \cup B
      OBVIOUS
    <3> QED
      BY <2>2, <3>1
  <2>6. Same(A \cup B, Disk(mdisk))
    BY <1>2, <1>3, <1>4, <2>4, SameTransitive
  <2>7. A \cup Top(B) \in SUBSET EntryUpTo(MaxSeq) /\ A \cup B \in SUBSET EntryUpTo(MaxSeq)
    BY <1>3, <2>1
  <2> QED
    BY <1>2, <2>1, <2>5, <2>6, <2>7, SameTransitive
<1>6. Same(Disk(mdisk), Disk(mdisk)) /\ Disk(mdisk) \in SUBSET Stored /\ Disk(man) \in SUBSET Stored
  BY <1>2, SameReflexive, DiskFacts
<1>7. CASE UNCHANGED manVars /\ Return
  <2>1. Disk(man)' = Disk(man) /\ Disk(mdisk)' = Disk(mdisk)
    BY <1>1, <1>7 DEF manVars, Disk
  <2> QED
    BY <1>1, <1>2, <1>6, <1>7, <2>1 DEF Return
<1>8. CASE /\ \E top : man' = Replace(man, ins, FileMeta(cur, 1, top), top)
           /\ \/ mdisk' = mdisk /\ Return
              \/ mdisk' = man' /\ pc' = "cRemove" /\ UNCHANGED opVars
  <2>1. Nums(man') = (Nums(man) \ ins) \cup {cur}
    BY <1>8, ReplaceNums
  <2>2. Disk(man)' = UNION {file[n].ents : n \in (Nums(man) \ ins) \cup {cur}}
    BY <1>1, <2>1 DEF Disk
  <2>3. Disk(man)' = A \cup Top(B)
    BY <1>1, <2>2
  <2> HIDE DEF A, B
  <2>4. CASE mdisk' = mdisk /\ Return
    <3>1. Disk(mdisk)' = Disk(mdisk)
      BY <1>1, <2>4 DEF Disk
    <3> QED
      BY <1>1, <1>5, <1>6, <2>3, <2>4, <3>1 DEF Return
  <2>5. CASE mdisk' = man' /\ pc' = "cRemove" /\ UNCHANGED opVars
    <3>1. Disk(mdisk)' = Disk(man)' /\ Nums(mdisk') = Nums(man')
      BY <2>5 DEF Disk
    <3>2. ins \cap Listed' = {} /\ cur \in Nums(mdisk')
      BY <1>1, <2>1, <3>1 DEF Listed
    <3> QED
      BY <1>1, <1>5, <2>3, <2>5, <3>1, <3>2 DEF opVars
  <2> QED
    BY <1>8, <2>4, <2>5
<1> QED
  BY <1>7, <1>8 DEF CompactReplace, Persist

\* Every other step keeps what readers are covered, if it opens readers on listed tables only.
LEMMA ReadersKept ==
    ASSUME TypeInv, SeqInv, KeepInv, [Next]_vars, pc \notin {"addFile", "cReplace"} \/ pc' = "down",
           tables' \ Removing' \subseteq (tables \ Removing) \cup Nums(mdisk)
    PROVE  ManifestsAgree' /\ ReadersAreCovered'
<1>1. /\ Disk(man) \in SUBSET EntryUpTo(MaxSeq) /\ Disk(mdisk) \in SUBSET EntryUpTo(MaxSeq)
      /\ InReaders \in SUBSET EntryUpTo(MaxSeq) /\ MaxSeq \in Nat
  BY DiskFacts
<1>2. /\ Same(Disk(man), Disk(mdisk)) /\ Same(Disk(man), Disk(man)) /\ Same(Disk(mdisk), Disk(mdisk))
      /\ Same(Disk(mdisk), Disk(man))
  BY <1>1, SameReflexive DEF KeepInv, ManifestsAgree, Same
<1>3. Disk(man)' \in {Disk(man), Disk(mdisk)} /\ Disk(mdisk)' \in {Disk(man), Disk(mdisk)}
  BY DiskKept
<1>4. ManifestsAgree'
  BY <1>2, <1>3 DEF ManifestsAgree
<1>5. InReaders' \subseteq InReaders \cup Disk(mdisk)
  <2>1. \A n \in (tables \ Removing) \cup Nums(mdisk) : file'[n] = file[n]
    BY ListKept DEF Listed
  <2> QED
    BY <2>1 DEF InReaders, Disk
<1>6. Covers(Disk(mdisk), InReaders \cup Disk(mdisk))
  BY <1>1, CoversPart, CoversUnion DEF KeepInv, ReadersAreCovered
<1>7. Covers(Disk(mdisk)', InReaders \cup Disk(mdisk))
  <2>1. Covers(Disk(mdisk)', Disk(mdisk))
    BY <1>2, <1>3 DEF Same
  <2>2. InReaders \cup Disk(mdisk) \in SUBSET EntryUpTo(MaxSeq) /\ Disk(mdisk)' \in SUBSET EntryUpTo(MaxSeq)
    BY <1>1, <1>3
  <2> QED
    BY <1>1, <1>6, <2>1, <2>2, CoversTransitive
<1>8. ReadersAreCovered'
  BY <1>5, <1>7 DEF ReadersAreCovered, Covers
<1> QED
  BY <1>4, <1>8

\* A step that neither lists, merges nor allocates.
LEMMA KeepQuiet ==
    ASSUME TypeInv, TypeInv', SeqInv, KeepInv, [Next]_vars, pc \notin {"addFile", "cReplace"} \/ pc' = "down",
           tables' \ Removing' \subseteq (tables \ Removing) \cup Nums(mdisk),
           pc' \notin {"install", "cReplace", "cRemove"},
           cur' = 0 \/ UNCHANGED <<cur, tables>>
    PROVE  KeepInv'
<1>1. 0 \notin tables'
  BY DEF TypeInv, TypeOK, OperationType
<1>2. OutputIsUnread'
  BY <1>1 DEF KeepInv, OutputIsUnread
<1> QED
  BY <1>2, ReadersKept DEF KeepInv, InstalledIsListed, InputsAreUnlisted, MergedIsTop

\* Manifest.AddFile.
LEMMA KeepAddFile ==
    ASSUME TypeInv, TypeInv', SeqInv, KeepInv, FlushAddFile
    PROVE  KeepInv'
<1>1. /\ pc = "addFile" /\ pc' \in {"install", "idle", "close"} /\ UNCHANGED tables
      /\ \A n \in tables : file'[n] = file[n]
      /\ pc' = "install" => cur' = cur /\ cur \in Nums(mdisk')
      /\ pc' # "install" => cur' = 0
  BY AddFileDisk DEF FlushAddFile
<1>2. /\ Disk(man) \in SUBSET EntryUpTo(MaxSeq) /\ Disk(mdisk) \in SUBSET EntryUpTo(MaxSeq)
      /\ InReaders \in SUBSET EntryUpTo(MaxSeq) /\ MaxSeq \in Nat /\ mem \in SUBSET EntryUpTo(MaxSeq)
  BY DiskFacts
<1>3. InReaders' = InReaders
  BY <1>1 DEF InReaders, Removing
<1>4. Same(Disk(man), Disk(mdisk)) /\ Covers(Disk(mdisk), InReaders)
  BY DEF KeepInv, ManifestsAgree, ReadersAreCovered
<1>5. ManifestsAgree' /\ ReadersAreCovered'
  <2>1. CASE Disk(man)' = Disk(man) \cup mem /\ Disk(mdisk)' = Disk(man) \cup mem
    <3>1. Disk(man) \cup mem \in SUBSET EntryUpTo(MaxSeq)
      BY <1>2
    <3>2. Same(Disk(man) \cup mem, Disk(man) \cup mem)
      BY <1>2, <3>1, SameReflexive
    <3>3. Covers(Disk(man) \cup mem, Disk(mdisk))
      BY <1>4, CoversMore DEF Same
    <3>4. Covers(Disk(man) \cup mem, InReaders)
      BY <1>2, <1>4, <3>1, <3>3, CoversTransitive
    <3> QED
      BY <1>3, <2>1, <3>2, <3>4 DEF ManifestsAgree, ReadersAreCovered
  <2>2. CASE Disk(man)' = Disk(man) /\ Disk(mdisk)' = Disk(mdisk)
    BY <1>3, <1>4, <2>2 DEF ManifestsAgree, ReadersAreCovered
  <2> QED
    BY <2>1, <2>2, AddFileDisk
<1>6. OutputIsUnread'
  BY <1>1 DEF KeepInv, OutputIsUnread, TypeInv, TypeOK, OperationType
<1> QED
  BY <1>1, <1>5, <1>6 DEF KeepInv, InstalledIsListed, InputsAreUnlisted, MergedIsTop

\* Manifest.Replace.
LEMMA KeepReplace ==
    ASSUME TypeInv, TypeInv', SeqInv, KeepInv, CompactReplace
    PROVE  KeepInv'
<1>1. /\ pc = "cReplace" /\ pc' \in {"cRemove", "idle", "close"} /\ UNCHANGED <<tables, file>>
      /\ pc' = "cRemove" => UNCHANGED <<cur, ins>> /\ cur \in Nums(mdisk') /\ ins \cap Listed' = {}
      /\ pc' # "cRemove" => cur' = 0
  BY ReplaceDisk DEF CompactReplace
<1>2. /\ Disk(mdisk) \in SUBSET EntryUpTo(MaxSeq) /\ InReaders \in SUBSET EntryUpTo(MaxSeq) /\ MaxSeq \in Nat
      /\ Disk(man)' \in SUBSET EntryUpTo(MaxSeq) /\ Disk(mdisk)' \in SUBSET EntryUpTo(MaxSeq)
      /\ Same(Disk(man)', Disk(mdisk)) /\ Same(Disk(mdisk)', Disk(mdisk))
  BY DiskFacts, ReplaceDisk
<1>3. InReaders' \subseteq InReaders
  BY <1>1 DEF InReaders, Removing
<1>4. ManifestsAgree'
  <2>1. Same(Disk(mdisk), Disk(mdisk)')
    BY <1>2 DEF Same
  <2> QED
    BY <1>2, <2>1, SameTransitive DEF ManifestsAgree
<1>5. ReadersAreCovered'
  <2>1. Covers(Disk(mdisk)', Disk(mdisk)) /\ Covers(Disk(mdisk), InReaders)
    BY <1>2 DEF Same, KeepInv, ReadersAreCovered
  <2>2. Covers(Disk(mdisk)', InReaders)
    BY <1>2, <2>1, CoversTransitive
  <2> QED
    BY <1>3, <2>2 DEF ReadersAreCovered, Covers
<1>6. OutputIsUnread'
  BY <1>1 DEF KeepInv, OutputIsUnread, TypeInv, TypeOK, OperationType
<1> QED
  BY <1>1, <1>4, <1>5, <1>6 DEF KeepInv, InstalledIsListed, InputsAreUnlisted, MergedIsTop

\* AllocFileName: the new number is no reader's.
LEMMA KeepAlloc ==
    ASSUME TypeInv, TypeInv', FreshInv', SeqInv, KeepInv, [Next]_vars, UNCHANGED tables,
           pc \in {"idle", "flush"}, NEW next \in {"create", "cCreate"}, Alloc(next)
    PROVE  KeepInv'
<1>1. pc' = next \/ (pc' \in {"idle", "close"} /\ cur' = cur)
  BY DEF Alloc
<1>2. Removing = {} /\ Removing' = {}
  BY <1>1 DEF Removing
<1>3. ManifestsAgree' /\ ReadersAreCovered'
  BY <1>2, ReadersKept
<1>4. OutputIsUnread'
  <2>1. CASE pc' = next
    BY <2>1 DEF FreshInv, OutputNameIsFresh, OutputIsUnread
  <2>2. CASE cur' = cur
    BY <2>2 DEF KeepInv, OutputIsUnread
  <2> QED
    BY <1>1, <2>1, <2>2
<1> QED
  BY <1>1, <1>3, <1>4 DEF KeepInv, InstalledIsListed, InputsAreUnlisted, MergedIsTop

\* MergeFiles writes the newest entries of the inputs, whose files it does not touch.
LEMMA KeepMerge ==
    ASSUME "readInput" \notin Faults, TypeInv, TypeInv', SeqInv, KeepInv, [Next]_vars, CompactMerge
    PROVE  KeepInv'
<1>1. pc = "cMerge" /\ pc' \in {"cReplace", "idle", "close"} /\ UNCHANGED <<mem, man, mdisk, tables>>
      /\ (pc' = "cReplace" => UNCHANGED <<cur, ins>>) /\ (pc' # "cReplace" => cur' = 0)
  BY DEF CompactMerge, Return, manVars, readVars, opVars
<1>2. Removing = {} /\ Removing' = {}
  BY <1>1 DEF Removing
<1>3. ManifestsAgree' /\ ReadersAreCovered'
  BY <1>1, <1>2, ReadersKept
<1>4. OutputIsUnread'
  BY <1>1 DEF KeepInv, OutputIsUnread, TypeInv, TypeOK, OperationType
<1>5. MergedIsTop'
  <2> SUFFICES ASSUME pc' = "cReplace"
               PROVE  file'[cur].ents = Top(UNION {file'[n].ents : n \in ins})
    BY <1>1 DEF MergedIsTop
  <2>1. file' = [file EXCEPT ![cur] = Finish(MergeFiles({file[n].ents : n \in ins}))]
    BY DEF CompactMerge, Fail, Return
  <2>2. /\ cur \in 1 .. MaxFile /\ ins \subseteq 1 .. MaxFile /\ cur \notin ins
        /\ file \in [1 .. MaxFile -> [st : {"absent", "partial", "complete"}, ents : SUBSET BoundedEntry]]
    <3>1. cur \in 1 .. MaxFile
      BY <1>1 DEF TypeInv, TypeOK, OperationType, CompactSteps
    <3>2. ins \subseteq tables /\ tables \subseteq 1 .. MaxFile /\ cur \notin tables
      BY DEF TypeInv, TypeOK, OperationType, KeepInv, OutputIsUnread
    <3> QED
      BY <3>1, <3>2 DEF TypeInv, TypeOK, TableType
  <2>3. file'[cur].ents = Top(UNION {file[n].ents : n \in ins})
    BY <2>1, <2>2 DEF Finish, MergeFiles
  <2>4. \A n \in ins : file'[n] = file[n]
    BY <2>1, <2>2
  <2>5. UNION {file'[n].ents : n \in ins} = UNION {file[n].ents : n \in ins}
    BY <2>4
  <2> QED
    BY <2>3, <2>5
<1> QED
  BY <1>1, <1>3, <1>4, <1>5 DEF KeepInv, InstalledIsListed, InputsAreUnlisted

\* The invariant is inductive unless a merge may lose a block of an input without noticing.
LEMMA KeepNext ==
    ASSUME "readInput" \notin Faults
    PROVE  TypeInv /\ TypeInv' /\ FreshInv' /\ SeqInv /\ KeepInv /\ [Next]_vars => KeepInv'
<1> SUFFICES ASSUME TypeInv, TypeInv', FreshInv', SeqInv, KeepInv, [Next]_vars
             PROVE  KeepInv'
  OBVIOUS
<1>a. ASSUME Vanish PROVE KeepInv'
  <2>1. pc' = "down" /\ tables' = {} /\ cur' = 0
    BY <1>a DEF Vanish
  <2> QED
    BY <2>1, KeepQuiet
<1>b. ASSUME UNCHANGED <<tables, cur>>, pc \notin {"addFile", "cReplace", "cRemove"},
             pc' \notin {"install", "cReplace", "cRemove"}
      PROVE  KeepInv'
  <2>1. Removing = {} /\ Removing' = {}
    BY <1>b DEF Removing
  <2> QED
    BY <1>b, <2>1, KeepQuiet
<1>1. CASE Call
  <2>1. CASE CompactBegin
    BY <2>1, KeepAlloc DEF CompactBegin, readVars
  <2>2. CASE (\E readOnly \in BOOLEAN : Open(readOnly)) \/ OpenAbandon
    <3>1. pc = "down" /\ pc' \in {"idle", "flush"} /\ tables' = Nums(mdisk) /\ cur' = cur
      BY <2>2 DEF Open, OpenAbandon, OpenReading, OpenTables
    <3>2. cur = 0
      BY <3>1 DEF TypeInv, TypeOK, OperationType, CompactSteps
    <3> QED
      BY <3>1, <3>2, KeepQuiet
  <2>3. ASSUME NEW ops, AppendFrame(ops) PROVE KeepInv'
    BY <1>b, <2>3 DEF AppendFrame, readVars, opVars
  <2>4. CASE OpenFail \/ Sync \/ Flush \/ Close
    BY <1>b, <2>4 DEF OpenFail, Sync, Flush, Close, readVars, opVars
  <2> QED
    BY <1>1, <2>1, <2>2, <2>3, <2>4 DEF Call, Put, Delete, Write
<1>2. CASE Continue
  <2>1. CASE FlushAlloc
    BY <2>1, KeepAlloc DEF FlushAlloc, readVars
  <2>2. CASE FlushCreate \/ FlushWrite \/ CompactCreate
    <3>1. /\ pc \in {"create", "write", "cCreate"} /\ UNCHANGED tables
          /\ cur' \in {0, cur} /\ pc' \in {"write", "addFile", "cMerge", "idle", "close"}
      BY <2>2 DEF FlushCreate, FlushWrite, CompactCreate, Return, readVars, opVars
    <3>2. Removing = {} /\ Removing' = {}
      BY <3>1 DEF Removing
    <3> QED
      BY <3>1, <3>2, KeepQuiet
  <2>3. ASSUME NEW n \in ins, CompactRemove(n) PROVE KeepInv'
    <3>1. pc = "cRemove" /\ UNCHANGED <<pc, tables, cur, ins, man, mdisk>>
      BY <2>3 DEF CompactRemove, manVars, readVars, opVars
    <3>2. Removing' = Removing
      BY <3>1 DEF Removing
    <3>3. ManifestsAgree' /\ ReadersAreCovered'
      BY <3>1, <3>2, ReadersKept
    <3> QED
      BY <3>1, <3>3 DEF KeepInv, InstalledIsListed, InputsAreUnlisted, OutputIsUnread, MergedIsTop, Listed
  <2>4. CASE FlushInstall
    <3>1. pc = "install" /\ cur' = 0 /\ pc' \in {"idle", "close"} /\ tables' \subseteq tables \cup {cur}
      BY <2>4 DEF FlushInstall, Return
    <3>2. Removing = {} /\ Removing' = {} /\ cur \in Nums(mdisk)
      BY <3>1 DEF Removing, KeepInv, InstalledIsListed
    <3> QED
      BY <3>1, <3>2, KeepQuiet
  <2>5. CASE CompactInstall
    <3>1. pc = "cRemove" /\ cur' = 0 /\ pc' \in {"idle", "close"} /\ tables' = (tables \ ins) \cup {cur}
      BY <2>5 DEF CompactInstall, Return
    <3>2. Removing = ins /\ cur \in Nums(mdisk)
      BY <3>1 DEF Removing, KeepInv, InstalledIsListed
    <3> QED
      BY <3>1, <3>2, KeepQuiet
  <2>6. CASE ApplyWrite
    BY <1>b, <2>6 DEF ApplyWrite, readVars, opVars
  <2>7. CASE CloseFinish
    BY <1>a, <2>7 DEF CloseFinish
  <2> QED
    BY <1>2, <2>1, <2>2, <2>3, <2>4, <2>5, <2>6, <2>7, KeepAddFile, KeepMerge, KeepReplace DEF Continue
<1>3. CASE ProcessCrash \/ PowerLoss
  BY <1>a, <1>3 DEF ProcessCrash, PowerLoss
<1>4. CASE UNCHANGED vars
  BY <1>4 DEF vars, KeepInv, ManifestsAgree, ReadersAreCovered, InstalledIsListed, InputsAreUnlisted,
              OutputIsUnread, MergedIsTop, Disk, InReaders, Removing, Listed
<1> QED
  BY <1>1, <1>2, <1>3, <1>4 DEF Next

-----------------------------------------------------------------------------
\* Two sets of stored entries that look the same show the same contents.
LEMMA StoredView ==
    ASSUME TypeInv, SeqInv, NEW D \in SUBSET Stored, NEW E \in SUBSET Stored, Same(D, E)
    PROVE  View(D) = View(E)
<1>1. D \in SUBSET EntryUpTo(MaxSeq) /\ E \in SUBSET EntryUpTo(MaxSeq)
  BY DiskFacts
<1>2. OnePerSeq(D \cup E)
  BY DiskFacts DEF OnePerSeq
<1> QED
  BY <1>1, <1>2, SameView DEF Same

\* What the tables on disk and the memtable show together, before and after a step.
LEMMA RunningStore ==
    /\ pc # "down" => Store = View(Disk(mdisk) \cup mem)
    /\ pc' # "down" => Store' = View(Disk(mdisk)' \cup mem')
<1>1. LiveDisk = Disk(mdisk) /\ LiveDisk' = Disk(mdisk)'
  BY DEF LiveDisk, Disk, Nums
<1> QED
  BY <1>1 DEF Store

\* Tables that look like the ones before show the same next to the memtable.
LEMMA SameStore ==
    ASSUME TypeInv, SeqInv, NEW D \in SUBSET Stored, NEW E \in SUBSET Stored, NEW M \in SUBSET Stored, Same(D, E)
    PROVE  View(D \cup M) = View(E \cup M)
<1>1. D \in SUBSET EntryUpTo(MaxSeq) /\ E \in SUBSET EntryUpTo(MaxSeq) /\ M \in SUBSET EntryUpTo(MaxSeq)
  BY DiskFacts
<1>2. Same(D \cup M, E \cup M)
  BY <1>1, SameUnion
<1> QED
  BY <1>2, StoredView

\* That goes for the tables of MANIFEST with the memtable in particular.
LEMMA SameWithMem ==
    ASSUME TypeInv, SeqInv, NEW D \in SUBSET Stored, Same(D, Disk(mdisk))
    PROVE  View(D \cup mem) = View(Disk(mdisk) \cup mem)
<1>1. /\ D \in SUBSET EntryUpTo(MaxSeq) /\ Disk(mdisk) \in SUBSET EntryUpTo(MaxSeq)
      /\ mem \in SUBSET EntryUpTo(MaxSeq)
  BY DiskFacts
<1>2. Same(D \cup mem, Disk(mdisk) \cup mem)
  BY <1>1, SameUnion
<1>3. D \cup mem \in SUBSET Stored /\ Disk(mdisk) \cup mem \in SUBSET Stored
  BY DiskFacts
<1> QED
  BY <1>2, <1>3, StoredView

\* What a step of a flush or a compaction that does not end in a crash can be.
LEMMA MaintenanceSteps ==
    ASSUME TypeInv, [Next]_vars, pc \in FlushSteps \cup CompactSteps, pc' # "down"
    PROVE  \/ FlushAlloc \/ FlushCreate \/ FlushWrite \/ FlushAddFile \/ FlushInstall
           \/ CompactCreate \/ CompactMerge \/ CompactReplace
           \/ \E n \in ins : CompactRemove(n)
           \/ CompactInstall
           \/ UNCHANGED vars
<1>1. pc \notin {"idle", "down", "append", "close"}
  BY DEF FlushSteps, CompactSteps
<1>2. ~Call
  BY <1>1
  DEF Call, Open, OpenAbandon, OpenReading, OpenFail, Put, Delete, Write, AppendFrame, Sync, Flush,
      CompactBegin, Close
<1>3. ~ApplyWrite /\ ~CloseFinish
  BY <1>1 DEF ApplyWrite, CloseFinish
<1>4. ~ProcessCrash /\ ~PowerLoss
  BY DEF ProcessCrash, PowerLoss, Vanish
<1> QED
  BY <1>2, <1>3, <1>4 DEF Next, Continue

\* Every step leaves tables that look like the ones listed before, or adds the memtable to them.
LEMMA DiskSame ==
    ASSUME TypeInv, SeqInv, KeepInv, [Next]_vars
    PROVE  /\ Disk(mdisk)' \in SUBSET Stored
           /\ \/ Same(Disk(mdisk)', Disk(mdisk))
              \/ FlushAddFile /\ Disk(mdisk)' = Disk(man) \cup mem
<1>1. /\ Disk(man) \in SUBSET Stored /\ Disk(mdisk) \in SUBSET Stored /\ mem \in SUBSET Stored
      /\ Disk(mdisk) \in SUBSET EntryUpTo(MaxSeq) /\ MaxSeq \in Nat
      /\ Same(Disk(man), Disk(mdisk)) /\ Same(Disk(mdisk), Disk(mdisk))
  BY DiskFacts, SameReflexive DEF KeepInv, ManifestsAgree
<1>2. CASE FlushAddFile
  BY <1>1, <1>2, AddFileDisk
<1>3. CASE CompactReplace
  BY <1>3, ReplaceDisk
<1>4. CASE pc \notin {"addFile", "cReplace"} \/ pc' = "down"
  BY <1>1, <1>4, DiskKept
<1>5. CASE UNCHANGED vars
  <2>1. Disk(mdisk)' = Disk(mdisk)
    BY <1>5 DEF vars, Disk
  <2> QED
    BY <1>1, <2>1
<1>6. CASE pc \in {"addFile", "cReplace"} /\ pc' # "down" /\ Next
  <2>1. pc \in FlushSteps \cup CompactSteps
    BY <1>6 DEF FlushSteps, CompactSteps
  <2>2. FlushAddFile \/ CompactReplace \/ UNCHANGED vars
    BY <1>6, <2>1, MaintenanceSteps DEF FlushAlloc, FlushCreate, FlushWrite, FlushInstall, CompactCreate, CompactMerge,
                                        CompactRemove, CompactInstall
  <2> QED
    BY <1>2, <1>3, <1>5, <2>2
<1> QED
  BY <1>4, <1>5, <1>6

\* No step of a flush or a compaction changes the contents.
LEMMA MaintenanceStep ==
    ASSUME TypeInv, SeqInv, KeepInv, [Next]_vars, pc \in FlushSteps \cup CompactSteps, pc' # "down"
    PROVE  Store' = Store
<1>1. pc # "down" /\ Store = View(Disk(mdisk) \cup mem) /\ Store' = View(Disk(mdisk)' \cup mem')
  BY RunningStore DEF FlushSteps, CompactSteps
<1>2. /\ Disk(man) \in SUBSET Stored /\ Disk(mdisk) \in SUBSET Stored /\ mem \in SUBSET Stored
      /\ Same(Disk(man), Disk(mdisk))
  BY DiskFacts DEF KeepInv, ManifestsAgree
<1>3. View(Disk(man) \cup mem) = View(Disk(mdisk) \cup mem)
  BY <1>2, SameWithMem
<1>4. CASE FlushAddFile
  <2>1. (Disk(man) \cup mem) \cup mem = Disk(man) \cup mem
    OBVIOUS
  <2> QED
    BY <1>1, <1>3, <1>4, <2>1, AddFileDisk
<1>5. CASE CompactReplace
  <2>1. UNCHANGED mem /\ Disk(mdisk)' \in SUBSET Stored /\ Same(Disk(mdisk)', Disk(mdisk))
    BY <1>5, ReplaceDisk
  <2> QED
    BY <1>1, <2>1, SameWithMem
<1>6. CASE FlushInstall
  <2>1. pc = "install" /\ UNCHANGED <<file, mdisk>> /\ mem' \in {mem, {}}
    BY <1>6 DEF FlushInstall, manVars, EmptyMem
  <2>2. Disk(mdisk)' = Disk(mdisk)
    BY <2>1 DEF Disk
  <2>3. mem \subseteq Disk(mdisk)
    BY <2>1 DEF SeqInv, FlushedIsMem, KeepInv, InstalledIsListed, Disk
  <2>4. Disk(mdisk) \cup mem' = Disk(mdisk) \cup mem
    BY <2>1, <2>3
  <2> QED
    BY <1>1, <2>2, <2>4
<1>7. CASE FlushAlloc \/ FlushCreate \/ FlushWrite \/ CompactCreate \/ CompactMerge
           \/ (\E n \in ins : CompactRemove(n)) \/ CompactInstall \/ UNCHANGED vars
  <2>1. UNCHANGED mem /\ (pc \notin {"addFile", "cReplace"} \/ UNCHANGED vars)
    BY <1>7 DEF FlushAlloc, FlushCreate, FlushWrite, CompactCreate, CompactMerge, CompactRemove,
                CompactInstall, vars
  <2>2. Disk(mdisk)' \in {Disk(man), Disk(mdisk)}
    <3>1. CASE UNCHANGED vars
      BY <3>1 DEF vars, Disk
    <3> QED
      BY <2>1, <3>1, DiskKept
  <2> QED
    BY <1>1, <1>3, <2>1, <2>2
<1> QED
  BY <1>4, <1>5, <1>6, <1>7, MaintenanceSteps

(***************************************************************************)
(* Flushes and compactions are invisible, whatever other calls of theirs   *)
(* fail and wherever a number or a file is left behind: an update that     *)
(* reaches only the manifest in memory still lists what looks the same.    *)
(* The call excluded is the read of an input block, whose error the merge  *)
(* takes for the end of the input and so drops entries from the store.     *)
(***************************************************************************)
THEOREM MaintenanceIsInvisible ==
    ASSUME "readInput" \notin Faults
    PROVE  Spec => MaintenanceKeepsStore
<1>1. TypeInv /\ SeqInv /\ KeepInv /\ [Next]_vars
          => [(pc \in FlushSteps \cup CompactSteps) /\ pc' # "down" => Store' = Store]_vars
  BY MaintenanceStep
<1>2. Spec => [](TypeInv /\ FreshInv /\ SeqInv)
  BY TypeInit, TypeNext, FreshInit, FreshNext, SeqInit, SeqNext, PTL DEF Spec
<1>3. Spec => []KeepInv
  BY <1>2, KeepInit, KeepNext, PTL DEF Spec
<1> QED
  BY <1>1, <1>2, <1>3, PTL DEF Spec, MaintenanceKeepsStore

-----------------------------------------------------------------------------
(***************************************************************************)
(* Readers.  The memtable with the files that will have a reader when the  *)
(* operation is over covers what is listed: also a table that could not be *)
(* opened after a flush, whose entries stay in the memtable, and inputs    *)
(* that an abandoned compaction keeps.  Unless a compaction is abandoned   *)
(* only inputs being removed have a closed reader (ShutInv).               *)
(***************************************************************************)
OpenAfter == IF pc = "cRemove" THEN (tables \ ins) \cup {cur} ELSE tables

Readable == mem \cup UNION {file[n].ents : n \in OpenAfter}

ReadInv == pc # "down" => Covers(Readable, Disk(mdisk))

ShutInv == pc # "down" => shut = Removing

\* There is no process at first.
LEMMA ReadInit == Init => ReadInv /\ ShutInv
  BY DEF Init, ReadInv, ShutInv

\* What can be read are entries.
LEMMA ReadableType ==
    ASSUME TypeInv, TypeInv'
    PROVE  /\ OpenAfter \subseteq 1 .. MaxFile /\ OpenAfter' \subseteq 1 .. MaxFile
           /\ Readable \in SUBSET EntryUpTo(MaxSeq) /\ Readable' \in SUBSET EntryUpTo(MaxSeq)
<1>1. OpenAfter \subseteq 1 .. MaxFile
  BY DEF OpenAfter, TypeInv, TypeOK, OperationType, CompactSteps
<1>2. OpenAfter' \subseteq 1 .. MaxFile
  BY DEF OpenAfter, TypeInv, TypeOK, OperationType, CompactSteps
<1>3. (\A n \in OpenAfter : file[n].ents \subseteq EntryUpTo(MaxSeq)) /\ mem \subseteq EntryUpTo(MaxSeq)
  BY <1>1 DEF TypeInv, TypeOK, TableType, BoundedEntry, EntryUpTo
<1>4. (\A n \in OpenAfter' : file'[n].ents \subseteq EntryUpTo(MaxSeq)) /\ mem' \subseteq EntryUpTo(MaxSeq)
  BY <1>2 DEF TypeInv, TypeOK, TableType, BoundedEntry, EntryUpTo
<1> QED
  BY <1>1, <1>2, <1>3, <1>4 DEF Readable

\* When what can be read covers what could be read before, it covers what is listed.
LEMMA ReadKept ==
    ASSUME TypeInv, TypeInv', SeqInv, KeepInv, ReadInv, [Next]_vars, pc # "down",
           Covers(Readable', Readable)
    PROVE  ReadInv'
<1>1. /\ MaxSeq \in Nat /\ Readable \in SUBSET EntryUpTo(MaxSeq) /\ Readable' \in SUBSET EntryUpTo(MaxSeq)
      /\ Disk(man) \in SUBSET EntryUpTo(MaxSeq) /\ Disk(mdisk) \in SUBSET EntryUpTo(MaxSeq)
      /\ Disk(mdisk)' \in SUBSET EntryUpTo(MaxSeq) /\ mem \in SUBSET EntryUpTo(MaxSeq)
  BY ReadableType, DiskFacts, DiskSame
<1>2. Covers(Readable', Disk(mdisk))
  BY <1>1, CoversTransitive DEF ReadInv
<1>3. CASE Same(Disk(mdisk)', Disk(mdisk))
  <2>1. Covers(Readable', Disk(mdisk)')
    BY <1>1, <1>2, <1>3, CoversTransitive DEF Same
  <2> QED
    BY <2>1 DEF ReadInv
<1>4. CASE Disk(mdisk)' = Disk(man) \cup mem
  <2>1. Covers(Readable', Disk(man))
    BY <1>1, <1>2, CoversTransitive DEF KeepInv, ManifestsAgree, Same
  <2>2. Covers(Readable', mem)
    BY DEF Covers, Readable
  <2>3. Covers(Readable', Disk(mdisk)')
    BY <1>4, <2>1, <2>2, CoversUnion
  <2> QED
    BY <2>3 DEF ReadInv
<1> QED
  BY <1>3, <1>4, DiskSame

\* A step that keeps every open reader and its file, and the newest entries of the memtable.
LEMMA ReadQuiet ==
    ASSUME TypeInv, TypeInv', SeqInv, KeepInv, ReadInv, [Next]_vars, pc # "down",
           Covers(mem', mem), OpenAfter \subseteq OpenAfter', \A n \in OpenAfter : file'[n] = file[n]
    PROVE  ReadInv'
<1>1. Readable \subseteq mem \cup Readable' /\ mem' \subseteq Readable'
  BY DEF Readable
<1>2. Readable' \in SUBSET EntryUpTo(MaxSeq) /\ MaxSeq \in Nat
  BY ReadableType
<1>3. Covers(Readable', mem) /\ Covers(Readable', Readable')
  BY <1>1, <1>2, CoversMore, CoversPart
<1>4. Covers(Readable', Readable)
  BY <1>1, <1>3 DEF Covers
<1> QED
  BY <1>4, ReadKept

\* The entries that Put, Delete and Write give the memtable are those of the last frame.
LEMMA AppliedEntries ==
    ASSUME TypeInv, SeqInv, ApplyWrite
    PROVE  LET ops == wal[Len(wal)].ops
           IN  /\ Frame(nextSeq - Len(ops) + 1, ops) = wal[Len(wal)]
               /\ FrameEntries(Frame(nextSeq - Len(ops) + 1, ops)) \in SUBSET EntryUpTo(MaxSeq)
               /\ FrameEntries(Frame(nextSeq - Len(ops) + 1, ops)) \in SUBSET LogEntries(wal)
<1> DEFINE last == wal[Len(wal)]
<1>1. wal \in Seq(FrameType) /\ Len(wal) \in Nat /\ wal # << >> /\ last.first = nextSeq - Len(last.ops) + 1
  BY LenProperties DEF TypeInv, TypeOK, LogType, FrameType, AppendedFrame, ApplyWrite
<1>2. Len(wal) \in 1 .. Len(wal)
  BY <1>1, EmptySeq
<1>3. last \in FrameType
  BY <1>1, <1>2, ElementOfSeq
<1>4. Frame(nextSeq - Len(last.ops) + 1, last.ops) = last
  BY <1>1, <1>3 DEF Frame, FrameType
<1>5. FrameEntries(last) \in SUBSET LogEntries(wal)
  BY <1>2 DEF LogEntries
<1> QED
  BY <1>4, <1>5, DiskFacts

\* Open has a reader for every listed table.
LEMMA ReadOpen ==
    ASSUME TypeInv, TypeInv', SeqInv, NEW readOnly, Open(readOnly) \/ OpenAbandon
    PROVE  ReadInv'
<1>1. /\ pc = "down" /\ pc' \in {"idle", "flush"} /\ tables' = Nums(mdisk)
      /\ UNCHANGED <<file, mdisk, shut>>
  BY DEF Open, OpenAbandon, OpenReading, OpenTables
<1>2. Disk(mdisk)' \subseteq Readable'
  BY <1>1 DEF Disk, Readable, OpenAfter
<1>3. Covers(Readable', Disk(mdisk)')
  BY <1>2, ReadableType, CoversPart
<1> QED
  BY <1>3 DEF ReadInv

\* The merged table can be read in place of its inputs.
LEMMA ReadReplace ==
    ASSUME TypeInv, TypeInv', SeqInv, KeepInv, ReadInv, [Next]_vars, CompactReplace, pc' = "cRemove"
    PROVE  ReadInv'
<1>1. /\ pc = "cReplace" /\ UNCHANGED <<cur, ins, tables, file, mem>>
      /\ ins \subseteq tables
  BY DEF CompactReplace, Return, opVars, TypeInv, TypeOK, OperationType
<1> DEFINE A == mem \cup UNION {file[n].ents : n \in tables \ ins}
           B == UNION {file[n].ents : n \in ins}
<1>3. Readable \subseteq A \cup B
  BY <1>1 DEF Readable, OpenAfter
<1>4. Readable' = A \cup Top(B)
  <2>1. file[cur].ents = Top(B)
    BY <1>1 DEF KeepInv, MergedIsTop
  <2>2. OpenAfter' = (tables \ ins) \cup {cur}
    BY <1>1 DEF OpenAfter
  <2>3. Readable' = mem \cup UNION {file[n].ents : n \in (tables \ ins) \cup {cur}}
    BY <1>1, <2>2 DEF Readable
  <2> QED
    BY <2>1, <2>3
<1>5. MaxSeq \in Nat /\ B \in SUBSET EntryUpTo(MaxSeq) /\ Readable' \in SUBSET EntryUpTo(MaxSeq)
  BY <1>1, ReadableType, DiskFacts
<1> HIDE DEF A, B
<1>6. Covers(Readable', A) /\ Covers(Readable', Top(B))
  BY <1>4, <1>5, CoversPart
<1>7. Covers(Readable', B)
  BY <1>4, <1>5, TopCovers, CoversMore
<1>8. Covers(Readable', Readable)
  BY <1>3, <1>6, <1>7 DEF Covers
<1> QED
  BY <1>1, <1>8, ReadKept

\* Every step keeps what is listed readable, also one that abandons a compaction.
LEMMA ReadNext == TypeInv /\ TypeInv' /\ SeqInv /\ KeepInv /\ ReadInv /\ [Next]_vars => ReadInv'
<1> SUFFICES ASSUME TypeInv, TypeInv', SeqInv, KeepInv, ReadInv, [Next]_vars
             PROVE  ReadInv'
  OBVIOUS
<1>a. ASSUME pc' = "down" PROVE ReadInv'
  BY <1>a DEF ReadInv
<1>b. /\ mem \in SUBSET EntryUpTo(MaxSeq) /\ MaxSeq \in Nat /\ Covers(mem, mem)
      /\ tables \subseteq 1 .. MaxFile /\ cur \notin tables /\ ins \subseteq tables
      /\ file \in [1 .. MaxFile -> [st : {"absent", "partial", "complete"}, ents : SUBSET BoundedEntry]]
  BY DiskFacts, CoversPart DEF TypeInv, TypeOK, OperationType, TableType, KeepInv, OutputIsUnread
<1>c. ASSUME pc \notin {"down", "cRemove"}, pc' # "cRemove", UNCHANGED <<mem, tables>>,
             file' = file \/ \E f : file' = [file EXCEPT ![cur] = f]
      PROVE  ReadInv'
  <2>1. OpenAfter = tables /\ OpenAfter' = tables
    BY <1>c DEF OpenAfter
  <2>2. \A n \in tables : file'[n] = file[n]
    BY <1>b, <1>c, OneFile
  <2> QED
    BY <1>b, <1>c, <2>1, <2>2, ReadQuiet
<1>1. CASE Call
  <2>1. ASSUME NEW ops, AppendFrame(ops) PROVE ReadInv'
    BY <1>c, <2>1 DEF AppendFrame, readVars
  <2>2. CASE OpenFail
    BY <1>a, <2>2 DEF OpenFail
  <2>3. CASE Sync \/ Flush \/ CompactBegin \/ Close
    BY <1>c, <2>3 DEF Sync, Flush, CompactBegin, Close, Alloc, readVars
  <2>4. ASSUME NEW readOnly, Open(readOnly) \/ OpenAbandon PROVE ReadInv'
    BY <2>4, ReadOpen
  <2> QED
    BY <1>1, <2>1, <2>2, <2>3, <2>4 DEF Call, Put, Delete, Write
<1>2. CASE Continue
  <2>1. CASE FlushAlloc
    BY <1>c, <2>1 DEF FlushAlloc, Alloc, readVars
  <2>2. CASE FlushCreate \/ FlushWrite \/ FlushAddFile \/ CompactCreate \/ CompactMerge
    <3>1. file' = file \/ \E f : file' = [file EXCEPT ![cur] = f]
      BY <2>2, Zenon DEF FlushCreate, FlushWrite, FlushAddFile, CompactCreate, CompactMerge
    <3>2. pc \notin {"down", "cRemove"} /\ pc' # "cRemove" /\ UNCHANGED <<mem, tables>>
      BY <2>2 DEF FlushCreate, FlushWrite, FlushAddFile, CompactCreate, CompactMerge, Return, readVars
    <3> QED
      BY <1>c, <3>1, <3>2
  <2>3. CASE FlushInstall
    <3>1. /\ pc = "install" /\ pc' \in {"idle", "close"} /\ UNCHANGED file
          /\ \/ UNCHANGED <<tables, mem>>
             \/ tables' = tables \cup {cur} /\ mem' = {}
      BY <2>3 DEF FlushInstall, Return, EmptyMem
    <3>2. CASE UNCHANGED <<tables, mem>>
      BY <1>c, <3>1, <3>2
    <3>3. CASE tables' = tables \cup {cur} /\ mem' = {}
      <4>1. file[cur].ents = mem
        BY <3>1 DEF SeqInv, FlushedIsMem
      <4>2. Readable' = Readable
        BY <3>1, <3>3, <4>1 DEF Readable, OpenAfter
      <4>3. Covers(Readable', Readable)
        BY <4>2, ReadableType, CoversPart
      <4> QED
        BY <3>1, <4>1, <4>3, ReadKept
    <3> QED
      BY <3>1, <3>2, <3>3
  <2>4. ASSUME NEW n \in ins, CompactRemove(n) PROVE ReadInv'
    <3>1. /\ pc = "cRemove" /\ UNCHANGED <<pc, mem, tables, cur, ins>> /\ file' = [file EXCEPT ![n] = NoFile]
      BY <2>4 DEF CompactRemove, readVars, opVars
    <3>2. OpenAfter' = OpenAfter /\ OpenAfter \subseteq 1 .. MaxFile /\ n \notin OpenAfter
      BY <1>b, <3>1, ReadableType DEF OpenAfter
    <3>3. \A m \in OpenAfter : file'[m] = file[m]
      BY <1>b, <3>1, <3>2
    <3> QED
      BY <1>b, <3>1, <3>2, <3>3, ReadQuiet
  <2>5. CASE CompactInstall
    <3>1. /\ pc = "cRemove" /\ pc' \in {"idle", "close"} /\ UNCHANGED <<mem, file>>
          /\ tables' = (tables \ ins) \cup {cur}
      BY <2>5 DEF CompactInstall, Return
    <3>2. OpenAfter' = OpenAfter
      BY <3>1 DEF OpenAfter
    <3> QED
      BY <1>b, <3>1, <3>2, ReadQuiet
  <2>6. CASE ApplyWrite
    <3>1. pc = "append" /\ pc' \in {"idle", "flush"} /\ UNCHANGED <<tables, file>>
          /\ \E G : mem' \in {mem, Top(mem \cup G)}
      BY <2>6 DEF ApplyWrite, readVars, MemApply
    <3>2. Covers(mem', mem)
      <4>1. CASE mem' = mem
        BY <1>b, <4>1
      <4>2. CASE mem' # mem
        <5> DEFINE ops == wal[Len(wal)].ops
                   G == FrameEntries(Frame(nextSeq - Len(ops) + 1, ops))
        <5>1. mem' = Top(mem \cup G)
          BY <2>6, <4>2 DEF ApplyWrite, MemApply
        <5> HIDE DEF G
        <5>2. G \in SUBSET EntryUpTo(MaxSeq)
          BY <2>6, AppliedEntries DEF G
        <5>3. mem \cup G \in SUBSET EntryUpTo(MaxSeq)
          BY <1>b, <5>2
        <5>4. Covers(mem', mem \cup G)
          BY <1>b, <5>1, <5>3, TopCovers
        <5> QED
          BY <5>4 DEF Covers
      <4> QED
        BY <4>1, <4>2
    <3>3. OpenAfter = tables /\ OpenAfter' = tables
      BY <3>1 DEF OpenAfter
    <3> QED
      BY <3>1, <3>2, <3>3, ReadQuiet
  <2>7. CASE CloseFinish
    BY <1>a, <2>7 DEF CloseFinish, Vanish
  <2>8. CASE CompactReplace
    <3>1. pc = "cReplace" /\ UNCHANGED <<mem, tables, file>> /\ pc' \in {"cRemove", "idle", "close"}
      BY <2>8 DEF CompactReplace, Return
    <3> QED
      BY <1>c, <2>8, <3>1, ReadReplace
  <2> QED
    BY <1>2, <2>1, <2>2, <2>3, <2>4, <2>5, <2>6, <2>7, <2>8 DEF Continue
<1>3. CASE ProcessCrash \/ PowerLoss
  BY <1>a, <1>3 DEF ProcessCrash, PowerLoss, Vanish
<1>4. CASE UNCHANGED vars
  BY <1>4 DEF vars, ReadInv, Readable, OpenAfter, Disk
<1> QED
  BY <1>1, <1>2, <1>3, <1>4 DEF Next

\* No reader stays closed unless a compaction fails after it has closed its inputs.
LEMMA ShutNext ==
    ASSUME Faults \cap {"openOut", "replace"} = {}
    PROVE  TypeInv /\ ShutInv /\ [Next]_vars => ShutInv'
<1> SUFFICES ASSUME TypeInv, ShutInv, [Next]_vars PROVE ShutInv'
  OBVIOUS
<1>a. ASSUME pc' = "down" PROVE ShutInv'
  BY <1>a DEF ShutInv
<1>b. ASSUME UNCHANGED shut, pc \notin {"down", "cRemove"}, pc' # "cRemove" PROVE ShutInv'
  BY <1>b DEF ShutInv, Removing
<1>1. CASE Call
  <2>1. ASSUME NEW readOnly, Open(readOnly) \/ OpenAbandon PROVE ShutInv'
    BY <2>1 DEF Open, OpenAbandon, OpenReading, TypeInv, NoReaders, ShutInv, Removing
  <2>2. ASSUME NEW ops, AppendFrame(ops) PROVE ShutInv'
    BY <1>b, <2>2 DEF AppendFrame, readVars
  <2>3. CASE OpenFail
    BY <1>a, <2>3 DEF OpenFail
  <2>4. CASE Sync \/ Flush \/ CompactBegin \/ Close
    BY <1>b, <2>4 DEF Sync, Flush, CompactBegin, Close, Alloc, readVars
  <2> QED
    BY <1>1, <2>1, <2>2, <2>3, <2>4 DEF Call, Put, Delete, Write
<1>2. CASE Continue
  <2>1. CASE ApplyWrite \/ FlushAlloc \/ FlushCreate \/ FlushWrite \/ FlushAddFile \/ FlushInstall
             \/ CompactCreate \/ CompactMerge
    <3>1. UNCHANGED shut /\ pc \notin {"down", "cRemove"} /\ pc' # "cRemove"
      BY <2>1 DEF ApplyWrite, FlushAlloc, FlushCreate, FlushWrite, FlushAddFile, FlushInstall, CompactCreate,
                  CompactMerge, Alloc, Return, readVars
    <3> QED
      BY <1>b, <3>1
  <2>2. CASE CompactReplace
    BY <2>2 DEF CompactReplace, Fail, opVars, ShutInv, Removing
  <2>3. ASSUME NEW n \in ins, CompactRemove(n) PROVE ShutInv'
    BY <2>3 DEF CompactRemove, readVars, opVars, ShutInv, Removing
  <2>4. CASE CompactInstall
    BY <2>4 DEF CompactInstall, Return, ShutInv, Removing
  <2>5. CASE CloseFinish
    BY <1>a, <2>5 DEF CloseFinish, Vanish
  <2> QED
    BY <1>2, <2>1, <2>2, <2>3, <2>4, <2>5 DEF Continue
<1>3. CASE ProcessCrash \/ PowerLoss
  BY <1>a, <1>3 DEF ProcessCrash, PowerLoss, Vanish
<1>4. CASE UNCHANGED vars
  BY <1>4 DEF vars, ShutInv, Removing
<1> QED
  BY <1>1, <1>2, <1>3, <1>4 DEF Next

\* Between operations memtable and readers together show the store.
LEMMA ReadersShowStore ==
    ASSUME TypeInv, SeqInv, KeepInv, ReadInv, pc = "idle"
    PROVE  Store = View(mem \cup InReaders) /\ InReaders = UNION {file[n].ents : n \in tables}
<1>1. Readable = mem \cup InReaders /\ InReaders = UNION {file[n].ents : n \in tables}
  BY DEF Removing, Readable, OpenAfter, InReaders
<1>2. Store = View(Disk(mdisk) \cup mem)
  BY RunningStore
<1>3. /\ MaxSeq \in Nat /\ InReaders \cup mem \in SUBSET EntryUpTo(MaxSeq)
      /\ Disk(mdisk) \cup mem \in SUBSET EntryUpTo(MaxSeq)
      /\ InReaders \cup mem \in SUBSET Stored /\ Disk(mdisk) \cup mem \in SUBSET Stored
  BY DiskFacts
<1>4. Covers(InReaders \cup mem, Disk(mdisk)) /\ Covers(Disk(mdisk) \cup mem, InReaders)
  BY <1>1 DEF ReadInv, KeepInv, ReadersAreCovered, Covers
<1>5. Covers(InReaders \cup mem, mem) /\ Covers(Disk(mdisk) \cup mem, mem)
  BY <1>3, CoversPart
<1>6. Same(InReaders \cup mem, Disk(mdisk) \cup mem)
  BY <1>4, <1>5, CoversUnion DEF Same
<1>7. View(InReaders \cup mem) = View(Disk(mdisk) \cup mem)
  BY <1>3, <1>6, StoredView
<1>8. mem \cup InReaders = InReaders \cup mem
  OBVIOUS
<1> QED
  BY <1>1, <1>2, <1>7, <1>8

(***************************************************************************)
(* An iterator shows the store: while no operation is in progress the open *)
(* readers and the memtable show what the tables on disk and the memtable  *)
(* hold.  The excluded calls are those that fail after a compaction has    *)
(* closed its inputs, and the read of an input block.                      *)
(***************************************************************************)
THEOREM IteratorsShowStore ==
    ASSUME Faults \cap {"readInput", "openOut", "replace"} = {}
    PROVE  Spec => []IteratorShowsStore
<1>a. "readInput" \notin Faults /\ Faults \cap {"openOut", "replace"} = {}
  OBVIOUS
<1>1. ASSUME TypeInv, SeqInv, KeepInv, ReadInv, ShutInv PROVE IteratorShowsStore
  <2> SUFFICES ASSUME pc = "idle" PROVE Iterate = Store
    BY DEF IteratorShowsStore
  <2>1. Iterate = View(mem \cup InReaders)
    BY <1>1 DEF ShutInv, Removing, Iterate, InReaders
  <2> QED
    BY <1>1, <2>1, ReadersShowStore
<1>2. TypeInv /\ TypeInv' /\ FreshInv' /\ SeqInv /\ KeepInv /\ [Next]_vars => KeepInv'
  BY <1>a, KeepNext
<1>3. TypeInv /\ ShutInv /\ [Next]_vars => ShutInv'
  BY <1>a, ShutNext
<1>4. Spec => [](TypeInv /\ FreshInv /\ SeqInv)
  BY TypeInit, TypeNext, FreshInit, FreshNext, SeqInit, SeqNext, PTL DEF Spec
<1>5. Spec => [](KeepInv /\ ReadInv /\ ShutInv)
  BY <1>2, <1>3, <1>4, KeepInit, ReadInit, ReadNext, PTL DEF Spec
<1> QED
  BY <1>1, <1>4, <1>5, PTL

-----------------------------------------------------------------------------
(***************************************************************************)
(* The log.  Logged is what has been applied of it: between an append and  *)
(* the update of the memtable not the last frame.                          *)
(***************************************************************************)
Logged == IF pc = "append" THEN LogEntries(Prefix(wal, Len(wal) - 1)) ELSE LogEntries(wal)

LastOps == wal[Len(wal)].ops

\* The log and its parts.
LEMMA LogFacts ==
    ASSUME TypeInv
    PROVE  /\ wal \in Seq(FrameType) /\ Len(wal) \in Nat /\ Torn \in FrameType
           /\ ValidLen(wal) \in 0 .. Len(wal)
           /\ synced \in 0 .. Len(wal)
           /\ SyncedLen \in 0 .. ValidLen(wal) /\ SyncedLen <= synced
           /\ \A n \in 0 .. Len(wal) :
                 Prefix(wal, n) \in Seq(FrameType) /\ LogEntries(Prefix(wal, n)) \subseteq LogEntries(wal)
<1>1. wal \in Seq(FrameType) /\ synced \in 0 .. Len(wal)
  BY DEF TypeInv, TypeOK, LogType, FrameType
<1>2. Len(wal) \in Nat
  BY <1>1, LenProperties
<1>3. ValidLen(wal) \in 0 .. Len(wal)
  BY <1>1, ValidLenProperty
<1>4. SyncedLen \in 0 .. ValidLen(wal) /\ SyncedLen <= synced
  BY <1>1, <1>2, <1>3 DEF SyncedLen
<1>5. Torn \in FrameType
  BY DEF Torn, Frame, FrameType
<1> QED
  BY <1>1, <1>2, <1>3, <1>4, <1>5, PrefixProperty, PrefixEntries

\* While the process runs no frame is torn.
LEMMA RunningLog ==
    ASSUME TypeInv, TornInv, pc # "down"
    PROVE  ValidLen(wal) = Len(wal) /\ Replay(wal) = LogEntries(wal) /\ Prefix(wal, Len(wal)) = wal
           /\ SyncedLen = synced
<1>1. wal \in Seq(FrameType) /\ Len(wal) \in Nat /\ synced \in 0 .. Len(wal)
  BY LogFacts
<1>2. ValidLen(wal) = Len(wal) /\ Replay(wal) = LogEntries(wal)
  BY <1>1, WholeLog DEF TornInv, RunningLogIsWhole
<1> QED
  BY <1>1, <1>2, WholePrefix DEF SyncedLen

\* The applied part of the log is a part of the log, and the frame still to be applied is the rest.
LEMMA LoggedIsStored ==
    ASSUME TypeInv
    PROVE  /\ Logged \subseteq LogEntries(wal) /\ Logged \subseteq Stored
           /\ pc = "append" => LogEntries(wal) = Logged \cup FrameEntries(wal[Len(wal)])
<1>1. wal \in Seq(FrameType) /\ Len(wal) \in Nat
  BY LogFacts
<1>2. CASE pc # "append"
  BY <1>2 DEF Logged, Stored
<1>3. CASE pc = "append"
  <2>1. wal # << >> /\ Len(wal) # 0 /\ Len(wal) - 1 \in 0 .. Len(wal) /\ Len(wal) \in 1 .. Len(wal)
    BY <1>1, <1>3, EmptySeq DEF TypeInv, AppendedFrame
  <2> DEFINE p == Prefix(wal, Len(wal) - 1)
  <2>2. Logged = LogEntries(p) /\ LogEntries(p) \subseteq LogEntries(wal)
    BY <1>1, <1>3, <2>1, PrefixEntries DEF Logged
  <2>3. Len(p) = Len(wal) - 1 /\ \A i \in 1 .. Len(wal) - 1 : p[i] = wal[i]
    BY <1>1, <2>1, PrefixProperty
  <2>4. FrameEntries(wal[Len(wal)]) \subseteq LogEntries(wal)
    BY <2>1 DEF LogEntries
  <2> HIDE DEF p
  <2>5. ASSUME NEW e \in LogEntries(wal) PROVE e \in LogEntries(p) \cup FrameEntries(wal[Len(wal)])
    <3>1. PICK i \in 1 .. Len(wal) : e \in FrameEntries(wal[i])
      BY DEF LogEntries
    <3>2. i = Len(wal) \/ i \in 1 .. Len(wal) - 1
      BY <1>1, <3>1
    <3>3. CASE i \in 1 .. Len(wal) - 1
      BY <2>3, <3>1, <3>3 DEF LogEntries
    <3> QED
      BY <3>1, <3>2, <3>3
  <2> QED
    BY <2>2, <2>4, <2>5 DEF Stored
<1> QED
  BY <1>2, <1>3

\* An append that does not fail.
LEMMA Appended ==
    ASSUME TypeInv, NEW ops, AppendFrame(ops), pc' = "append"
    PROVE  /\ pc = "idle" /\ wal' = Append(wal, Frame(nextSeq + 1, ops))
           /\ nextSeq' = nextSeq + Len(ops) /\ nextSeq + Len(ops) <= MaxSeq
           /\ UNCHANGED <<synced, file, mem, man, mdisk, tables>>
  BY DEF AppendFrame, Fail, manVars, readVars

\* One that fails before a byte is written, the only way to fail without "append", just uses up numbers.
LEMMA Refused ==
    ASSUME "append" \notin Faults, TypeInv, NEW ops \in Seq(Op), AppendFrame(ops), pc' # "append"
    PROVE  /\ pc = "idle" /\ pc' = "idle" /\ nextSeq <= nextSeq'
           /\ UNCHANGED <<wal, synced, file, mem, man, mdisk, tables>>
<1>1. nextSeq \in Nat /\ Len(ops) \in Nat
  BY LenProperties DEF TypeInv, TypeOK, LogType
<1> QED
  BY <1>1 DEF AppendFrame, Fail, manVars, readVars

\* The operations of a call are what a write of the abstract store may carry.
LEMMA CallOps ==
    /\ \A k \in Key, v \in Value \cup {Tombstone} :
          /\ <<[key |-> k, val |-> v]>> \in Seq(Op) /\ <<[key |-> k, val |-> v]>> \in OpSeqs
          /\ <<[key |-> k, val |-> v]>> # << >>
    /\ \A batch \in Batches : batch \in Seq(Op) /\ batch \in OpSeqs /\ batch # << >>
<1>1. ASSUME NEW k \in Key, NEW v \in Value \cup {Tombstone}
      PROVE  /\ <<[key |-> k, val |-> v]>> \in Seq(Op) /\ <<[key |-> k, val |-> v]>> \in OpSeqs
             /\ <<[key |-> k, val |-> v]>> # << >>
  <2>1. [key |-> k, val |-> v] \in Op
    BY DEF Op
  <2> QED
    BY <2>1 DEF OpSeqs
<1> QED
  BY <1>1, BatchesAssumption DEF OpSeqs

\* A call appends what the abstract store may be asked to write, or is one of the others.
LEMMA CallCases ==
    ASSUME Call
    PROVE  \/ (\E readOnly \in BOOLEAN : Open(readOnly)) \/ OpenAbandon
           \/ \E ops \in Seq(Op) : ops # << >> /\ ops \in OpSeqs /\ AppendFrame(ops)
           \/ OpenFail
           \/ Sync \/ Flush \/ CompactBegin \/ Close
<1>1. ASSUME NEW k \in Key, NEW v \in Value, Put(k, v)
      PROVE  \E ops \in Seq(Op) : ops # << >> /\ ops \in OpSeqs /\ AppendFrame(ops)
  BY <1>1, CallOps DEF Put
<1>2. ASSUME NEW k \in Key, Delete(k)
      PROVE  \E ops \in Seq(Op) : ops # << >> /\ ops \in OpSeqs /\ AppendFrame(ops)
  BY <1>2, CallOps DEF Delete
<1>3. ASSUME NEW batch \in Batches, Write(batch)
      PROVE  \E ops \in Seq(Op) : ops # << >> /\ ops \in OpSeqs /\ AppendFrame(ops)
  BY <1>3, CallOps DEF Write
<1> QED
  BY <1>1, <1>2, <1>3 DEF Call

\* After it the applied part of the log is what it was, and the new frame is the rest.
LEMMA AppendedLog ==
    ASSUME TypeInv, NEW ops \in Seq(Op), ops # << >>, AppendFrame(ops), pc' = "append"
    PROVE  /\ Len(wal') = Len(wal) + 1 /\ LastOps' = ops /\ Logged' = Logged
           /\ LogEntries(wal') = LogEntries(wal) \cup FrameEntries(Frame(nextSeq + 1, ops))
<1> DEFINE f == Frame(nextSeq + 1, ops)
<1>1. /\ wal \in Seq(FrameType) /\ Len(wal) \in Nat /\ nextSeq \in 0 .. MaxSeq
      /\ Len(ops) \in Nat \ {0} /\ nextSeq + Len(ops) <= MaxSeq
  BY LogFacts, LenProperties, EmptySeq, Appended DEF TypeInv, TypeOK, LogType
<1>2. f \in FrameType
  BY <1>1 DEF Frame, FrameType
<1>3. wal' = Append(wal, f) /\ f.ops = ops /\ pc = "idle"
  BY Appended DEF Frame
<1> HIDE DEF f
<1>4. Len(wal') = Len(wal) + 1 /\ wal'[Len(wal) + 1] = f
  BY <1>1, <1>2, <1>3, AppendProperties
<1>5. Prefix(wal', Len(wal)) = wal
  <2>1. Prefix(Append(wal, f), Len(wal)) = Prefix(wal, Len(wal))
    BY <1>1, <1>2, PrefixOfAppend
  <2> QED
    BY <1>1, <1>3, <2>1, WholePrefix
<1>6. Logged' = Logged
  <2>1. Logged' = LogEntries(Prefix(wal', Len(wal') - 1)) /\ Logged = LogEntries(wal)
    BY <1>3 DEF Logged
  <2>2. Len(wal') - 1 = Len(wal)
    BY <1>1, <1>4
  <2> QED
    BY <1>5, <2>1, <2>2
<1>7. LastOps' = ops
  BY <1>3, <1>4 DEF LastOps
<1>8. LogEntries(wal') = LogEntries(wal) \cup FrameEntries(f)
  BY <1>1, <1>2, <1>3, AppendEntries
<1> QED
  BY <1>4, <1>6, <1>7, <1>8 DEF f

\* The update of the memtable, if the log could be synced, and the frame that it was given.
LEMMA AppliedFrame ==
    ASSUME TypeInv, ApplyWrite
    PROVE  /\ pc = "append" /\ pc' \in {"idle", "flush"} /\ UNCHANGED <<wal, nextSeq, file, man, mdisk, tables>>
           /\ wal[Len(wal)] = Frame(nextSeq - Len(LastOps) + 1, LastOps)
           /\ LastOps \in Seq(Op)
           /\ \/ /\ mem' = Top(mem \cup FrameEntries(wal[Len(wal)]))
                 /\ synced' = IF SyncDue THEN Len(wal) ELSE synced
              \/ "sync" \in Faults /\ UNCHANGED <<mem, synced>>
<1>1. wal \in Seq(FrameType) /\ Len(wal) \in Nat /\ wal # << >> /\ pc = "append"
  BY LogFacts DEF TypeInv, AppendedFrame, ApplyWrite
<1>2. Len(wal) \in 1 .. Len(wal)
  BY <1>1, EmptySeq
<1>3. wal[Len(wal)] \in FrameType
  BY <1>1, <1>2, ElementOfSeq
<1>4. wal[Len(wal)] = Frame(nextSeq - Len(LastOps) + 1, LastOps) /\ LastOps \in Seq(Op)
  BY <1>1, <1>3 DEF Frame, FrameType, LastOps, TypeInv, AppendedFrame
<1>5. \/ /\ mem' = Top(mem \cup FrameEntries(Frame(nextSeq - Len(LastOps) + 1, LastOps)))
         /\ synced' = IF SyncDue THEN Len(wal) ELSE synced
      \/ "sync" \in Faults /\ UNCHANGED <<mem, synced>>
  BY DEF ApplyWrite, Fail, MemApply, LastOps
<1> QED
  BY <1>1, <1>4, <1>5 DEF ApplyWrite, manVars, readVars

\* It could.
LEMMA Applied ==
    ASSUME "sync" \notin Faults, TypeInv, ApplyWrite
    PROVE  /\ pc = "append" /\ pc' \in {"idle", "flush"} /\ UNCHANGED <<wal, nextSeq, file, man, mdisk, tables>>
           /\ mem' = Top(mem \cup FrameEntries(wal[Len(wal)]))
           /\ wal[Len(wal)] = Frame(nextSeq - Len(LastOps) + 1, LastOps)
           /\ LastOps \in Seq(Op)
           /\ synced' = IF SyncDue THEN Len(wal) ELSE synced
  BY AppliedFrame

-----------------------------------------------------------------------------
(***************************************************************************)
(* Get.  It trusts the memtable and does not look at sequence numbers, so  *)
(* the memtable must hold nothing that a table in use has a newer version  *)
(* of.  While the process runs that is easy to keep; after a restart the   *)
(* memtable is what the log still holds, and tables that were flushed from *)
(* the log but not followed by its reset may be newer than a log that has  *)
(* lost its end.  OldOrLogged says when this cannot happen: what a table   *)
(* in use holds is in the log, or older than all of the log.               *)
(***************************************************************************)
Tabled == UNION {file[n].ents : n \in UsedFiles}

MemIsLogged == pc # "down" => mem \subseteq Logged

AppendIsNewest ==
    pc = "append" =>
        Len(LastOps) <= nextSeq /\ \A e \in Tabled : e.seq <= nextSeq - Len(LastOps)

OldOrLogged == \A e \in Tabled : e \in Logged \/ \A f \in LogEntries(wal) : e.seq <= f.seq

MemIsNewest == \A e \in mem, f \in Tabled \cup mem : f.key = e.key => f.seq <= e.seq

NothingIsLost ==
    "power" \in Crashes => IF pc = "append" THEN synced = Len(wal) - 1 ELSE ValidLen(wal) <= synced

GetInv == MemIsLogged /\ AppendIsNewest /\ OldOrLogged /\ MemIsNewest /\ NothingIsLost

\* A loss of power can take no applied frame: there is none, or every write is synced, syncs do not fail
\* and no process dies between an append and its sync.
LogIsSafe == "power" \in Crashes => SyncPolicy = "full" /\ "process" \notin Crashes /\ "sync" \notin Faults

\* An empty directory has no tables.
LEMMA GetInit == Init => GetInv
<1> SUFFICES ASSUME Init PROVE GetInv
  OBVIOUS
<1>1. UsedFiles = {} /\ mem = {} /\ pc = "down" /\ wal = << >> /\ synced = 0
  BY DEF Init, UsedFiles, Listed, Nums, NewManifest, EmptyMem
<1>2. Tabled = {}
  BY <1>1 DEF Tabled
<1>3. wal \in Seq(FrameType) /\ Len(wal) = 0
  BY <1>1, EmptySeq
<1>4. ValidLen(wal) = 0
  <2>1. ValidLen(wal) \in 0 .. Len(wal)
    BY <1>3, ValidLenProperty
  <2> QED
    BY <1>3, <2>1
<1> QED
  BY <1>1, <1>2, <1>4 DEF GetInv, MemIsLogged, AppendIsNewest, OldOrLogged, MemIsNewest, NothingIsLost

\* What tables and the log hold are entries.
LEMMA TabledFacts ==
    ASSUME TypeInv
    PROVE  /\ MaxSeq \in Nat /\ nextSeq \in 0 .. MaxSeq
           /\ Tabled \subseteq Stored /\ Tabled \in SUBSET EntryUpTo(MaxSeq)
           /\ mem \in SUBSET EntryUpTo(MaxSeq) /\ LogEntries(wal) \in SUBSET EntryUpTo(MaxSeq)
           /\ \A e \in Stored : e.seq \in Nat
<1>1. Tabled \subseteq Stored /\ mem \subseteq Stored /\ LogEntries(wal) \subseteq Stored
  BY DEF Tabled, Stored
<1>2. Stored \subseteq EntryUpTo(MaxSeq)
  BY StoredType DEF BoundedEntry, EntryUpTo
<1>3. \A e \in EntryUpTo(MaxSeq) : e.seq \in Nat
  BY DEF EntryUpTo
<1> QED
  BY <1>1, <1>2, <1>3 DEF TypeInv, TypeOK, LogType

\* Of a log whose only torn frame is the last one every record is replayed, and a part that holds all
\* whole frames holds all records.
LEMMA WholeFrames ==
    ASSUME TypeInv, TornInv
    PROVE  /\ Replay(wal) = LogEntries(wal)
           /\ \A n \in ValidLen(wal) .. Len(wal) : LogEntries(Prefix(wal, n)) = LogEntries(wal)
<1>1. wal \in Seq(FrameType) /\ Len(wal) \in Nat /\ ValidLen(wal) \in 0 .. Len(wal)
  BY LogFacts
<1>2. ValidLen(wal) = Len(wal) \/ wal[ValidLen(wal) + 1] = Torn
  BY <1>1, ValidLenProperty
<1>3. ASSUME NEW n \in ValidLen(wal) .. Len(wal) PROVE LogEntries(wal) \subseteq LogEntries(Prefix(wal, n))
  <2> DEFINE p == Prefix(wal, n)
  <2>1. n \in 0 .. Len(wal)
    BY <1>1
  <2>2. Len(p) = n /\ \A i \in 1 .. n : p[i] = wal[i]
    BY <1>1, <2>1, PrefixProperty
  <2> HIDE DEF p
  <2>3. ASSUME NEW e \in LogEntries(wal) PROVE e \in LogEntries(p)
    <3>1. PICK i \in 1 .. Len(wal) : e \in FrameEntries(wal[i])
      BY DEF LogEntries
    <3>2. wal[i] # Torn
      BY <3>1, TornHasNoEntries
    <3>3. i \in 1 .. ValidLen(wal)
      BY <1>1, <1>2, <3>2 DEF TornInv, TornIsLast
    <3>4. i \in 1 .. Len(p) /\ p[i] = wal[i]
      BY <1>1, <2>1, <2>2, <3>3
    <3> QED
      BY <3>1, <3>4 DEF LogEntries
  <2> QED
    BY <2>3 DEF p
<1>4. \A n \in ValidLen(wal) .. Len(wal) : LogEntries(Prefix(wal, n)) = LogEntries(wal)
  <2> SUFFICES ASSUME NEW n \in ValidLen(wal) .. Len(wal)
               PROVE  LogEntries(Prefix(wal, n)) = LogEntries(wal)
    OBVIOUS
  <2>1. n \in 0 .. Len(wal)
    BY <1>1
  <2> QED
    BY <1>1, <1>3, <2>1, PrefixEntries
<1>5. ValidLen(wal) \in ValidLen(wal) .. Len(wal)
  BY <1>1
<1> QED
  BY <1>4, <1>5 DEF Replay, recoverTail

\* Files that hold no more than before, whoever refers to them.
LEMMA TabledQuiet ==
    ASSUME UsedFiles' \subseteq UsedFiles, \A n \in UsedFiles : file'[n].ents \subseteq file[n].ents
    PROVE  Tabled' \subseteq Tabled
  BY DEF Tabled

\* The operation in progress writes its own file.
LEMMA TabledWrite ==
    ASSUME TypeInv, UsedFiles' \subseteq UsedFiles, NEW g, file' = [file EXCEPT ![cur] = g], NEW E, g.ents \subseteq E
    PROVE  Tabled' \subseteq Tabled \cup E
<1>1. UsedFiles \subseteq 1 .. MaxFile /\ DOMAIN file = 1 .. MaxFile
  BY StoredType DEF TypeInv, TypeOK, TableType
<1>2. ASSUME NEW n \in UsedFiles' PROVE file'[n].ents \subseteq Tabled \cup E
  <2>1. CASE n = cur
    BY <1>1, <1>2, <2>1
  <2>2. CASE n # cur
    BY <1>1, <1>2, <2>2 DEF Tabled
  <2> QED
    BY <2>1, <2>2
<1> QED
  BY <1>2 DEF Tabled

\* A file number is handed out: the file of that number holds nothing.
LEMMA TabledAlloc ==
    ASSUME TypeInv, FreshInv', NEW next \in {"create", "cCreate"}, Alloc(next), UNCHANGED <<file, tables>>
    PROVE  Tabled' \subseteq Tabled
<1>1. man'.files = man.files /\ mdisk' \in {mdisk, man'} /\ cur' \in {cur, man.next}
      /\ (cur' # cur => pc' = next)
  BY DEF Alloc, AllocFileName, Persist
<1>2. Listed' \subseteq Listed
  BY <1>1 DEF Listed, Nums
<1>3. cur' # cur => file'[cur'] = NoFile
  BY <1>1 DEF FreshInv, OutputNameIsFresh
<1>4. ASSUME NEW n \in UsedFiles' PROVE file'[n].ents \subseteq Tabled
  <2>1. CASE n \in UsedFiles
    BY <2>1 DEF Tabled
  <2>2. CASE n \notin UsedFiles
    <3>1. n = cur' /\ cur' # cur
      BY <1>2, <1>4, <2>2 DEF UsedFiles
    <3> QED
      BY <1>3, <3>1 DEF NoFile
  <2> QED
    BY <2>1, <2>2
<1> QED
  BY <1>4 DEF Tabled

\* A flush that writes its table stores the memtable in a table; no other step stores anything new in one.
LEMMA TabledNext ==
    ASSUME TypeInv, TypeInv', FreshInv', SeqInv, [Next]_vars
    PROVE  Tabled' \subseteq Tabled \/ (FlushWrite /\ Tabled' \subseteq Tabled \cup mem)
<1>a. ASSUME file' = file, man'.files \cup mdisk'.files \subseteq man.files \cup mdisk.files,
             tables' \subseteq UsedFiles, cur' \in {0, cur}
      PROVE  Tabled' \subseteq Tabled
  <2>1. Listed' \subseteq Listed
    BY <1>a DEF Listed, Nums
  <2>2. UsedFiles' \subseteq UsedFiles
    BY <1>a, <2>1 DEF UsedFiles
  <2> QED
    BY <1>a, <2>2, TabledQuiet
<1>b. tables \subseteq UsedFiles /\ {} \subseteq UsedFiles /\ (cur # 0 => cur \in UsedFiles)
  BY DEF UsedFiles
<1>c. ASSUME Vanish, UNCHANGED <<file, mdisk>> PROVE Tabled' \subseteq Tabled
  BY <1>a, <1>b, <1>c DEF Vanish
<1>d. NoFile.ents = {} /\ Create.ents = {}
  BY DEF NoFile, Create
<1>e. /\ DOMAIN file = 1 .. MaxFile /\ UsedFiles \subseteq 1 .. MaxFile
      /\ (pc \in FlushSteps \ {"flush"} \/ pc \in CompactSteps => cur # 0)
  BY StoredType DEF TypeInv, TypeOK, TableType, OperationType, FlushSteps
<1>1. CASE Call
  <2>1. ASSUME NEW readOnly, Open(readOnly) \/ OpenAbandon PROVE Tabled' \subseteq Tabled
    <3>1. file' = file /\ mdisk' = mdisk /\ man' = mdisk /\ tables' = Nums(mdisk) /\ cur' = cur
      BY <2>1 DEF Open, OpenAbandon, OpenReading, OpenTables
    <3> QED
      BY <1>a, <3>1 DEF UsedFiles, Listed
  <2>2. CASE OpenFail \/ Sync \/ Flush \/ Close
    BY <1>a, <1>b, <2>2 DEF OpenFail, Sync, Flush, Close, manVars, readVars, opVars
  <2>3. ASSUME NEW ops, AppendFrame(ops) PROVE Tabled' \subseteq Tabled
    BY <1>a, <1>b, <2>3 DEF AppendFrame, manVars, readVars, opVars
  <2>4. CASE CompactBegin
    BY <2>4, TabledAlloc DEF CompactBegin, readVars
  <2> QED
    BY <1>1, <2>1, <2>2, <2>3, <2>4 DEF Call, Put, Delete, Write
<1>2. CASE Continue
  <2>1. CASE ApplyWrite
    BY <1>a, <1>b, <2>1 DEF ApplyWrite, manVars, readVars, opVars
  <2>2. CASE FlushAlloc
    BY <2>2, TabledAlloc DEF FlushAlloc, readVars
  <2>3. CASE FlushCreate \/ FlushWrite \/ CompactCreate \/ CompactMerge
    <3>1. cur' \in {0, cur} /\ UNCHANGED <<man, mdisk, tables>>
      BY <2>3 DEF FlushCreate, FlushWrite, CompactCreate, CompactMerge, Return, opVars, manVars, readVars
    <3>2. UsedFiles' \subseteq UsedFiles
      BY <3>1 DEF UsedFiles, Listed
    <3>3. CASE file' = file
      BY <1>a, <1>b, <3>1, <3>3
    <3>4. CASE file' \in {[file EXCEPT ![cur] = Create], [file EXCEPT ![cur] = NoFile]}
      BY <1>d, <3>2, <3>4, TabledWrite
    <3>5. CASE FlushWrite /\ file' = [file EXCEPT ![cur] = Finish(mem)]
      <4>1. Finish(mem).ents \subseteq mem
        BY DEF Finish
      <4> QED
        BY <3>2, <3>5, <4>1, TabledWrite
    <3>6. ASSUME NEW E \in SUBSET (UNION {file[n].ents : n \in ins}), file' = [file EXCEPT ![cur] = Finish(E)]
          PROVE  Tabled' \subseteq Tabled
      <4>1. ins \subseteq UsedFiles
        BY <1>b DEF TypeInv, TypeOK, OperationType
      <4>2. E \subseteq Tabled
        BY <4>1 DEF Tabled
      <4>3. Finish(E).ents = E
        BY DEF Finish
      <4>4. Tabled' \subseteq Tabled \cup Tabled
        BY <3>2, <3>6, <4>2, <4>3, TabledWrite
      <4> QED
        BY <4>4
    <3>7. \/ file' = file
          \/ file' \in {[file EXCEPT ![cur] = Create], [file EXCEPT ![cur] = NoFile]}
          \/ FlushWrite /\ file' = [file EXCEPT ![cur] = Finish(mem)]
          \/ \E E \in SUBSET (UNION {file[n].ents : n \in ins}) : file' = [file EXCEPT ![cur] = Finish(E)]
      BY <2>3, MergeOutput, Zenon DEF FlushCreate, FlushWrite, CompactCreate
    <3> QED
      BY <3>3, <3>4, <3>5, <3>6, <3>7
  <2>4. CASE FlushAddFile \/ CompactReplace
    <3>1. cur # 0 /\ cur' \in {0, cur} /\ mdisk' \in {mdisk, man'} /\ tables' = tables
      BY <1>e, <2>4 DEF FlushAddFile, CompactReplace, Return, opVars, readVars, manVars, Persist, FlushSteps, CompactSteps
    <3>2. Nums(man') \subseteq Nums(man) \cup {cur}
      BY <2>4, AddFileNums, ReplaceNums DEF FlushAddFile, CompactReplace, manVars, Nums, AddFile, Replace, FileMeta
    <3>3. UsedFiles' \subseteq UsedFiles
      BY <3>1, <3>2 DEF UsedFiles, Listed
    <3>4. file' = file \/ file' = [file EXCEPT ![cur] = NoFile]
      BY <2>4 DEF FlushAddFile, CompactReplace
    <3>5. CASE file' = file
      BY <3>3, <3>5, TabledQuiet
    <3>6. CASE file' = [file EXCEPT ![cur] = NoFile]
      BY <1>d, <3>3, <3>6, TabledWrite
    <3> QED
      BY <3>4, <3>5, <3>6
  <2>5. CASE FlushInstall \/ CompactInstall
    <3>1. /\ cur # 0 /\ cur' = 0 /\ UNCHANGED <<file, man, mdisk>> /\ tables' \subseteq tables \cup {cur}
      BY <1>e, <2>5 DEF FlushInstall, CompactInstall, Return, manVars, FlushSteps, CompactSteps
    <3> QED
      BY <1>a, <1>b, <3>1
  <2>6. ASSUME NEW n \in ins, CompactRemove(n) PROVE Tabled' \subseteq Tabled
    <3>1. file' = [file EXCEPT ![n] = NoFile] /\ UNCHANGED <<tables, man, mdisk, cur>>
      BY <2>6 DEF CompactRemove, manVars, readVars, opVars
    <3>2. UsedFiles' = UsedFiles
      BY <3>1 DEF UsedFiles, Listed
    <3>3. \A i \in UsedFiles : file'[i].ents \subseteq file[i].ents
      BY <1>d, <1>e, <3>1
    <3> QED
      BY <3>2, <3>3, TabledQuiet
  <2>7. CASE CloseFinish
    BY <1>c, <2>7 DEF CloseFinish
  <2> QED
    BY <1>2, <2>1, <2>2, <2>3, <2>4, <2>5, <2>6, <2>7 DEF Continue
<1>3. CASE ProcessCrash \/ PowerLoss
  BY <1>c, <1>3 DEF ProcessCrash, PowerLoss
<1>4. CASE UNCHANGED vars
  BY <1>a, <1>b, <1>4 DEF vars
<1> QED
  BY <1>1, <1>2, <1>3, <1>4 DEF Next

\* A step of the running process that leaves the log alone.
LEMMA GetQuiet ==
    ASSUME TypeInv, TypeInv', FreshInv', SeqInv, TornInv, GetInv, [Next]_vars,
           pc \notin {"down", "append"}, pc' \notin {"down", "append"},
           wal' = wal, mem' \in {mem, {}}, synced' \in {synced, Len(wal)}
    PROVE  GetInv'
<1>1. Tabled' \subseteq Tabled \cup mem
  BY TabledNext
<1>2. Logged = LogEntries(wal) /\ Logged' = LogEntries(wal) /\ mem \subseteq Logged
  BY DEF Logged, GetInv, MemIsLogged
<1>3. MemIsLogged' /\ AppendIsNewest'
  BY <1>2 DEF MemIsLogged, AppendIsNewest
<1>4. OldOrLogged'
  BY <1>1, <1>2 DEF GetInv, OldOrLogged
<1>5. MemIsNewest'
  BY <1>1 DEF GetInv, MemIsNewest
<1>6. NothingIsLost'
  <2>1. ValidLen(wal) <= Len(wal)
    BY LogFacts
  <2> QED
    BY <2>1 DEF GetInv, NothingIsLost
<1> QED
  BY <1>3, <1>4, <1>5, <1>6 DEF GetInv

\* The process is gone; of the log no applied record is.
LEMMA GetStop ==
    ASSUME TypeInv, TypeInv', FreshInv', SeqInv, GetInv, [Next]_vars, pc' = "down", mem' = {}, ~FlushWrite,
           Logged \subseteq LogEntries(wal'), LogEntries(wal') \subseteq LogEntries(wal),
           "power" \in Crashes => ValidLen(wal') <= synced'
    PROVE  GetInv'
<1>1. Tabled' \subseteq Tabled
  BY TabledNext
<1>2. Logged' = LogEntries(wal')
  BY DEF Logged
<1>3. OldOrLogged'
  BY <1>1, <1>2 DEF GetInv, OldOrLogged
<1> QED
  BY <1>3 DEF GetInv, MemIsLogged, AppendIsNewest, MemIsNewest, NothingIsLost

\* Open, also one that fails.
LEMMA GetOpen ==
    ASSUME "readLog" \notin Faults, TypeInv, TypeInv', FreshInv', SeqInv, TornInv, GetInv, [Next]_vars,
           (\E readOnly \in BOOLEAN : Open(readOnly)) \/ OpenAbandon \/ OpenFail
    PROVE  GetInv'
<1>1. /\ pc = "down" /\ pc' \in {"down", "idle", "flush"} /\ wal' = recoverTail(wal)
      /\ mem' \in {mem, Top(Replay(wal))} /\ (pc' # "down" => mem' = Top(Replay(wal)))
      /\ synced' \in {ValidLen(wal), IF synced <= ValidLen(wal) THEN synced ELSE ValidLen(wal)}
  BY DEF Open, OpenAbandon, OpenReading, OpenFail, Fail, MemApply, EmptyMem
<1>2. Tabled' \subseteq Tabled
  BY <1>1, TabledNext DEF FlushWrite
<1>3. wal \in Seq(FrameType) /\ ValidLen(wal) \in 0 .. Len(wal) /\ Len(wal) \in Nat /\ synced \in 0 .. Len(wal)
  BY LogFacts
<1>4. Replay(wal) = LogEntries(wal) /\ LogEntries(wal') = LogEntries(wal) /\ ValidLen(wal') = ValidLen(wal)
  BY <1>1, <1>3, WholeFrames, ValidLenOfPrefix DEF Replay, recoverTail
<1>5. Logged = LogEntries(wal) /\ Logged' = LogEntries(wal)
  BY <1>1, <1>4 DEF Logged
<1>6. OldOrLogged'
  BY <1>2, <1>4, <1>5 DEF GetInv, OldOrLogged
<1>7. MemIsLogged' /\ AppendIsNewest'
  BY <1>1, <1>4, <1>5, TopIsSubset DEF MemIsLogged, AppendIsNewest
<1>8. MemIsNewest'
  <2>1. CASE mem' = mem
    BY <1>2, <2>1 DEF GetInv, MemIsNewest
  <2>2. CASE mem' = Top(LogEntries(wal))
    <3> SUFFICES ASSUME NEW e \in mem', NEW f \in Tabled \cup mem', f.key = e.key PROVE f.seq <= e.seq
      BY <1>2 DEF MemIsNewest
    <3>1. e \in LogEntries(wal) /\ \A d \in LogEntries(wal) : d.key = e.key => d.seq <= e.seq
      BY <2>2 DEF Top
    <3>2. f \in LogEntries(wal) \/ f.seq <= e.seq
      BY <1>5, <2>2, <3>1, TopIsSubset DEF GetInv, OldOrLogged
    <3> QED
      BY <3>1, <3>2
  <2> QED
    BY <1>1, <1>4, <2>1, <2>2
<1>9. NothingIsLost'
  BY <1>1, <1>3, <1>4 DEF GetInv, NothingIsLost
<1> QED
  BY <1>6, <1>7, <1>8, <1>9 DEF GetInv

\* Put, Delete and Write: the append.  Its numbers are above those of all tables.
LEMMA GetAppend ==
    ASSUME LogIsSafe, TypeInv, TypeInv', FreshInv', SeqInv, TornInv, GetInv, [Next]_vars,
           NEW ops \in Seq(Op), ops # << >>, AppendFrame(ops), pc' = "append"
    PROVE  GetInv'
<1> DEFINE G == FrameEntries(Frame(nextSeq + 1, ops))
<1>1. /\ pc = "idle" /\ mem' = mem /\ synced' = synced /\ nextSeq' = nextSeq + Len(ops)
      /\ Len(wal') = Len(wal) + 1 /\ LastOps' = ops /\ Logged' = Logged /\ LogEntries(wal') = LogEntries(wal) \cup G
  BY Appended, AppendedLog
<1>2. Tabled' \subseteq Tabled /\ Logged = LogEntries(wal)
  BY <1>1, TabledNext DEF FlushWrite, Logged
<1>3. /\ nextSeq \in Nat /\ Len(ops) \in Nat /\ Len(wal) \in Nat /\ synced \in 0 .. Len(wal)
      /\ \A e \in Tabled : e.seq \in Nat /\ e.seq <= nextSeq
  BY <1>1, LenProperties, LogFacts, TabledFacts DEF SeqInv, SeqsHandedOut
<1>4. \A e \in G : e.seq \in Nat /\ nextSeq <= e.seq
  BY <1>3, FrameSeqs
<1> HIDE DEF G
<1>5. MemIsLogged' /\ MemIsNewest'
  BY <1>1, <1>2 DEF GetInv, MemIsLogged, MemIsNewest
<1>6. AppendIsNewest'
  BY <1>1, <1>2, <1>3 DEF AppendIsNewest
<1>7. OldOrLogged'
  <2> SUFFICES ASSUME NEW e \in Tabled, e \notin Logged, NEW f \in LogEntries(wal) \cup G PROVE e.seq <= f.seq
    BY <1>1, <1>2 DEF OldOrLogged
  <2>1. CASE f \in LogEntries(wal)
    BY <2>1 DEF GetInv, OldOrLogged
  <2>2. CASE f \in G
    BY <1>3, <1>4, <2>2
  <2> QED
    BY <2>1, <2>2
<1>8. NothingIsLost'
  <2>1. ValidLen(wal) = Len(wal)
    BY <1>1, RunningLog
  <2> QED
    BY <1>1, <1>3, <2>1 DEF GetInv, NothingIsLost
<1> QED
  BY <1>5, <1>6, <1>7, <1>8 DEF GetInv

\* Put, Delete and Write: the update of the memtable.
LEMMA GetApply ==
    ASSUME LogIsSafe, TypeInv, TypeInv', FreshInv', SeqInv, TornInv, GetInv, [Next]_vars, ApplyWrite
    PROVE  GetInv'
<1> DEFINE G == FrameEntries(wal[Len(wal)])
           n == nextSeq - Len(LastOps)
<1>1. /\ pc = "append" /\ pc' \in {"idle", "flush"} /\ wal' = wal /\ mem' \in {mem, Top(mem \cup G)}
      /\ wal[Len(wal)] = Frame(n + 1, LastOps) /\ LastOps \in Seq(Op)
      /\ LogEntries(wal) = Logged \cup G
      /\ "sync" \notin Faults => synced' = IF SyncDue THEN Len(wal) ELSE synced
  BY AppliedFrame, LoggedIsStored
<1>2. Tabled' \subseteq Tabled /\ Logged' = Logged \cup G
  BY <1>1, TabledNext DEF FlushWrite, Logged
<1>3. n \in Nat /\ \A e \in Tabled : e.seq \in Nat /\ e.seq <= n
  BY <1>1, LenProperties, TabledFacts DEF GetInv, AppendIsNewest
<1>4. \A e \in G : e.seq \in Nat /\ n <= e.seq
  <2> HIDE DEF n
  <2>1. \A e \in FrameEntries(Frame(n + 1, LastOps)) : e.seq \in n + 1 .. n + Len(LastOps)
    BY <1>1, <1>3, FrameSeqs
  <2> QED
    BY <1>1, <1>3, <2>1, LenProperties
<1> HIDE DEF G, n
<1>5. mem \subseteq Logged /\ mem' \subseteq mem \cup G
  BY <1>1, TopIsSubset DEF GetInv, MemIsLogged
<1>6. MemIsLogged' /\ AppendIsNewest'
  BY <1>1, <1>2, <1>5 DEF MemIsLogged, AppendIsNewest
<1>7. OldOrLogged'
  BY <1>1, <1>2 DEF GetInv, OldOrLogged
<1>8. MemIsNewest'
  <2> SUFFICES ASSUME NEW e \in mem', NEW f \in Tabled \cup mem', f.key = e.key PROVE f.seq <= e.seq
    BY <1>2 DEF MemIsNewest
  <2>1. CASE f \in mem'
    BY <1>1, <1>5, <2>1 DEF Top, GetInv, MemIsNewest
  <2>2. CASE f \in Tabled /\ e \in mem
    BY <2>2 DEF GetInv, MemIsNewest
  <2>3. CASE f \in Tabled /\ e \in G
    BY <1>3, <1>4, <2>3
  <2> QED
    BY <1>5, <2>1, <2>2, <2>3
<1>9. NothingIsLost'
  <2>1. ValidLen(wal) <= Len(wal)
    BY LogFacts
  <2> QED
    BY <1>1, <2>1 DEF NothingIsLost, LogIsSafe, SyncDue
<1> QED
  BY <1>6, <1>7, <1>8, <1>9 DEF GetInv

\* The end of a flush.
LEMMA GetInstall ==
    ASSUME TypeInv, TypeInv', FreshInv', SeqInv, TornInv, GetInv, [Next]_vars, FlushInstall
    PROVE  GetInv'
<1>1. /\ pc = "install" /\ pc' \in {"idle", "close"} /\ mem' \in {mem, {}}
      /\ \/ wal' = wal /\ synced' = synced
         \/ wal' = << >> /\ synced' = 0 /\ mem' = {}
  <2>1. pc = "install" /\ pc' \in {"idle", "close"} /\ mem' \in {mem, {}}
    BY DEF FlushInstall, Return, EmptyMem
  <2>2. UNCHANGED logVars \/ (Reset /\ mem' = {})
    BY DEF FlushInstall, EmptyMem
  <2> QED
    BY <2>1, <2>2 DEF logVars, Reset
<1>2. CASE wal' = wal /\ synced' = synced
  BY <1>1, <1>2, GetQuiet
<1>3. CASE wal' = << >> /\ synced' = 0 /\ mem' = {}
  <2>1. LogEntries(wal') = {} /\ wal' \in Seq(FrameType) /\ Len(wal') = 0
    BY <1>3, EmptySeq DEF LogEntries
  <2>2. ValidLen(wal') \in 0 .. Len(wal')
    BY <2>1, ValidLenProperty
  <2>3. ValidLen(wal') = 0
    BY <2>1, <2>2
  <2> QED
    BY <1>1, <1>3, <2>1, <2>3 DEF GetInv, MemIsLogged, AppendIsNewest, OldOrLogged, MemIsNewest, NothingIsLost
<1> QED
  BY <1>1, <1>2, <1>3

\* The end of Close, and a crash of the process.
LEMMA GetProcessStop ==
    ASSUME LogIsSafe, TypeInv, TypeInv', FreshInv', SeqInv, TornInv, GetInv, [Next]_vars,
           CloseFinish \/ ProcessCrash
    PROVE  GetInv'
<1>1. /\ pc' = "down" /\ mem' = {} /\ (wal' = wal \/ wal' = Append(wal, Torn))
      /\ (wal' = wal /\ synced' = Len(wal)) \/ "process" \in Crashes \/ "sync" \in Faults
  BY DEF CloseFinish, ProcessCrash, Vanish, EmptyMem, Fail
<1>2. ~FlushWrite
  <2>1. pc' = "down"
    BY <1>1
  <2> QED
    BY <2>1 DEF FlushWrite, Return
<1>3. wal \in Seq(FrameType) /\ Torn \in FrameType /\ ValidLen(wal) <= Len(wal) /\ Logged \subseteq LogEntries(wal)
  BY LogFacts, LoggedIsStored
<1>4. LogEntries(Append(wal, Torn)) = LogEntries(wal)
  <2>1. LogEntries(Append(wal, Torn)) = LogEntries(wal) \cup FrameEntries(Torn)
    BY <1>3, AppendEntries
  <2> QED
    BY <2>1, TornHasNoEntries
<1>5. "power" \in Crashes => ValidLen(wal') <= synced'
  BY <1>1, <1>3 DEF LogIsSafe
<1>6. LogEntries(wal') = LogEntries(wal)
  BY <1>1, <1>4
<1> QED
  BY <1>1, <1>2, <1>3, <1>5, <1>6, GetStop

\* A loss of power takes at most the frame that is being appended.
LEMMA GetPowerLoss ==
    ASSUME TypeInv, TypeInv', FreshInv', SeqInv, TornInv, GetInv, [Next]_vars, PowerLoss
    PROVE  GetInv'
<1>1. /\ "power" \in Crashes /\ pc' = "down" /\ mem' = {}
  BY DEF PowerLoss, Vanish, EmptyMem
<1>2. ~FlushWrite
  BY <1>1 DEF FlushWrite, Return
<1>3. /\ wal \in Seq(FrameType) /\ Torn \in FrameType /\ Len(wal) \in Nat /\ ValidLen(wal) \in 0 .. Len(wal)
      /\ synced \in 0 .. Len(wal) /\ Logged \subseteq LogEntries(wal)
  BY LogFacts, LoggedIsStored
<1>4. PICK n \in synced .. Len(wal) : synced' = n /\ wal' \in {Prefix(wal, n), Append(Prefix(wal, n), Torn)}
  BY DEF PowerLoss
<1> DEFINE p == Prefix(wal, n)
<1>5. n \in 0 .. Len(wal) /\ p \in Seq(FrameType)
  BY <1>3, <1>4, PrefixProperty
<1>6. LogEntries(p) \subseteq LogEntries(wal) /\ ValidLen(p) <= n
  BY <1>3, <1>5, PrefixEntries, ValidLenOfPrefix
<1>7. Logged \subseteq LogEntries(p)
  <2>1. CASE pc = "append"
    <3>1. n = Len(wal) - 1 \/ n = Len(wal)
      BY <1>1, <1>3, <1>4, <2>1 DEF GetInv, NothingIsLost
    <3> QED
      BY <1>3, <2>1, <3>1, WholePrefix DEF Logged
  <2>2. CASE pc # "append"
    <3>1. n \in ValidLen(wal) .. Len(wal)
      BY <1>1, <1>3, <1>4, <2>2 DEF GetInv, NothingIsLost
    <3> QED
      BY <1>3, <3>1, WholeFrames
  <2> QED
    BY <2>1, <2>2
<1>8. LogEntries(Append(p, Torn)) = LogEntries(p) /\ ValidLen(Append(p, Torn)) = ValidLen(p)
  BY <1>3, <1>5, AppendEntries, TornHasNoEntries, ValidLenOfTorn, ZenonT(60)
<1>9. wal' = p \/ wal' = Append(p, Torn)
  BY <1>4
<1> HIDE DEF p
<1>10. LogEntries(wal') = LogEntries(p) /\ ValidLen(wal') <= synced'
  BY <1>4, <1>6, <1>8, <1>9
<1> QED
  BY <1>1, <1>2, <1>6, <1>7, <1>10, GetStop

\* The invariant is inductive.
LEMMA GetNext ==
    ASSUME Faults \cap {"readLog", "append"} = {}, LogIsSafe
    PROVE  TypeInv /\ TypeInv' /\ FreshInv' /\ SeqInv /\ TornInv /\ GetInv /\ [Next]_vars => GetInv'
<1> SUFFICES ASSUME TypeInv, TypeInv', FreshInv', SeqInv, TornInv, GetInv, [Next]_vars
             PROVE  GetInv'
  OBVIOUS
<1>a. "readLog" \notin Faults /\ "append" \notin Faults
  OBVIOUS
<1>1. CASE Call
  <2>1. CASE Sync \/ Flush \/ CompactBegin \/ Close
    <3>1. pc = "idle" /\ pc' \notin {"down", "append"} /\ UNCHANGED <<wal, mem>> /\ synced' \in {synced, Len(wal)}
      BY <2>1 DEF Sync, Flush, CompactBegin, Close, Alloc, logVars
    <3> QED
      BY <3>1, GetQuiet
  <2>2. ASSUME NEW ops \in Seq(Op), ops # << >>, AppendFrame(ops) PROVE GetInv'
    <3>1. CASE pc' = "append"
      BY <2>2, <3>1, GetAppend
    <3>2. CASE pc' # "append"
      BY <1>a, <2>2, <3>2, Refused, GetQuiet
    <3> QED
      BY <3>1, <3>2
  <2>3. CASE (\E readOnly \in BOOLEAN : Open(readOnly)) \/ OpenAbandon \/ OpenFail
    BY <1>a, <2>3, GetOpen
  <2> QED
    BY <1>1, <2>1, <2>2, <2>3, CallCases
<1>2. CASE Continue
  <2>1. CASE FlushAlloc \/ FlushCreate \/ FlushWrite \/ FlushAddFile \/ CompactCreate \/ CompactMerge
             \/ CompactReplace \/ (\E n \in ins : CompactRemove(n)) \/ CompactInstall
    <3>1. pc \notin {"down", "append"} /\ pc' \notin {"down", "append"} /\ UNCHANGED <<wal, mem, synced>>
      BY <2>1 DEF FlushAlloc, FlushCreate, FlushWrite, FlushAddFile, CompactCreate, CompactMerge,
                  CompactReplace, CompactRemove, CompactInstall, Alloc, Return, logVars
    <3> QED
      BY <3>1, GetQuiet
  <2> QED
    BY <1>2, <1>a, <2>1, GetApply, GetInstall, GetProcessStop DEF Continue
<1>3. CASE UNCHANGED vars
  <2>1. UNCHANGED <<wal, mem, synced, pc, nextSeq, file, man, mdisk, tables, cur>>
    BY <1>3 DEF vars
  <2>2. Logged' = Logged /\ Tabled' = Tabled /\ LastOps' = LastOps
    BY <2>1 DEF Logged, Tabled, LastOps, UsedFiles, Listed
  <2> QED
    BY <2>1, <2>2 DEF GetInv, MemIsLogged, AppendIsNewest, OldOrLogged, MemIsNewest, NothingIsLost
<1> QED
  BY <1>a, <1>1, <1>2, <1>3, GetProcessStop, GetPowerLoss DEF Next

\* db.Get finds what the memtable and any of the tables show that have all versions of the key.
LEMMA GetFinds ==
    ASSUME TypeInv, SeqInv, GetInv, NEW k \in Key, NEW T \in SUBSET tables,
           ~MemHas(mem, k) => \A n \in tables \ T : ~TableHas(file[n], k)
    PROVE  Get(k) = View(mem \cup UNION {file[n].ents : n \in T})[k]
<1> DEFINE Shown == UNION {file[n].ents : n \in T}
           All == UNION {file[n].ents : n \in tables}
<1>1. Shown \subseteq All /\ All \subseteq Tabled
  BY DEF Tabled, UsedFiles
<1>2. /\ MaxSeq \in Nat /\ All \in SUBSET EntryUpTo(MaxSeq) /\ mem \cup Shown \in SUBSET EntryUpTo(MaxSeq)
      /\ OnePerSeq(mem \cup Shown) /\ OnePerSeq(All)
  BY <1>1, TabledFacts DEF SeqInv, OneEntryPerSeq, OnePerSeq, Stored, Tabled
<1>3. ~MemHas(mem, k) => \A e \in All : e.key = k => e \in Shown
  BY DEF TableHas, KeysOf
<1>4. Get(k) = IF MemHas(mem, k) THEN MemGet(mem, k) ELSE View(All)[k]
  BY DEF Get
<1> SUFFICES Get(k) = View(mem \cup Shown)[k]
  OBVIOUS
<1> HIDE DEF Shown, All
<1>5. CASE MemHas(mem, k)
  <2> DEFINE e == CHOOSE d \in mem : d.key = k
  <2>1. e \in mem /\ e.key = k
    BY <1>5 DEF MemHas, KeysOf
  <2>2. NewestIn(mem \cup Shown, e)
    BY <1>1, <2>1 DEF NewestIn, GetInv, MemIsNewest
  <2> HIDE DEF e
  <2>3. View(mem \cup Shown)[k] = e.val
    BY <1>2, <2>1, <2>2, ViewNewest
  <2> QED
    BY <1>4, <1>5, <2>3 DEF MemGet, e
<1>6. CASE ~MemHas(mem, k)
  <2>1. \A e \in mem : e.key # k
    BY <1>6 DEF MemHas, KeysOf
  <2>2. CASE \E e \in All : e.key = k
    <3>1. PICK e \in All : e.key = k /\ NewestIn(All, e)
      BY <1>2, <2>2, NewestExists
    <3>2. NewestIn(mem \cup Shown, e)
      BY <1>1, <1>3, <1>6, <2>1, <3>1 DEF NewestIn
    <3>3. View(All)[k] = e.val /\ View(mem \cup Shown)[k] = e.val
      BY <1>2, <3>1, <3>2, ViewNewest
    <3> QED
      BY <1>4, <1>6, <3>3
  <2>3. CASE \A e \in All : e.key # k
    <3>1. View(All)[k] = Tombstone /\ View(mem \cup Shown)[k] = Tombstone
      BY <1>1, <2>1, <2>3, ViewNone
    <3> QED
      BY <1>4, <1>6, <3>1
  <2> QED
    BY <2>2, <2>3
<1> QED
  BY <1>5, <1>6

(***************************************************************************)
(* db.Get answers with what the memtable has, and without it with the      *)
(* highest sequence number among all tables.  That is what the iterator,   *)
(* which compares memtable and tables too, shows, or an error.  It may not *)
(* be when a loss of power can take a whole frame out of the log, when a   *)
(* frame of it cannot be read, or when an append fails half way: then the  *)
(* log may end before a record that a table already holds.                 *)
(***************************************************************************)
THEOREM GetsMatchIterator ==
    ASSUME Faults \cap {"readLog", "append"} = {},
           "power" \in Crashes => SyncPolicy = "full" /\ "process" \notin Crashes /\ "sync" \notin Faults
    PROVE  Spec => []GetMatchesIterator
<1>a. "append" \notin Faults /\ LogIsSafe
  BY DEF LogIsSafe
<1>1. ASSUME TypeInv, SeqInv, GetInv PROVE GetMatchesIterator
  <2> SUFFICES ASSUME pc = "idle", NEW k \in Key, ~GetFails(k) PROVE Get(k) = Iterate[k]
    BY DEF GetMatchesIterator
  <2>1. ~MemHas(mem, k) => \A n \in tables \ (tables \ shut) : ~TableHas(file[n], k)
    BY DEF GetFails
  <2>2. Get(k) = View(mem \cup UNION {file[n].ents : n \in tables \ shut})[k]
    BY <1>1, <2>1, GetFinds
  <2> QED
    BY <2>2 DEF Iterate
<1>2. TypeInv /\ TornInv /\ [Next]_vars => TornInv'
  BY <1>a, TornNext
<1>3. TypeInv /\ TypeInv' /\ FreshInv' /\ SeqInv /\ TornInv /\ GetInv /\ [Next]_vars => GetInv'
  BY <1>a, GetNext
<1>4. Spec => [](TypeInv /\ FreshInv /\ SeqInv)
  BY TypeInit, TypeNext, FreshInit, FreshNext, SeqInit, SeqNext, PTL DEF Spec
<1>5. Spec => [](TornInv /\ GetInv)
  BY <1>2, <1>3, <1>4, TornInit, GetInit, PTL DEF Spec
<1> QED
  BY <1>1, <1>4, <1>5, PTL

(***************************************************************************)
(* db.Get finds what the store holds, or returns an error, also after a    *)
(* compaction that failed with its inputs' readers closed: under the       *)
(* assumptions above, and unless a merge loses a block of an input.        *)
(***************************************************************************)
THEOREM GetsShowStore ==
    ASSUME Faults \cap {"readLog", "append", "readInput"} = {},
           "power" \in Crashes => SyncPolicy = "full" /\ "process" \notin Crashes /\ "sync" \notin Faults
    PROVE  Spec => []GetShowsStore
<1>a. Faults \cap {"readLog", "append"} = {} /\ "append" \notin Faults /\ "readInput" \notin Faults /\ LogIsSafe
  BY DEF LogIsSafe
<1>1. ASSUME TypeInv, SeqInv, KeepInv, ReadInv, GetInv PROVE GetShowsStore
  <2> SUFFICES ASSUME pc = "idle", NEW k \in Key PROVE Get(k) = Store[k]
    BY DEF GetShowsStore
  <2>1. Get(k) = View(mem \cup UNION {file[n].ents : n \in tables})[k]
    BY <1>1, GetFinds
  <2> QED
    BY <1>1, <2>1, ReadersShowStore
<1>2. TypeInv /\ TornInv /\ [Next]_vars => TornInv'
  BY <1>a, TornNext
<1>3. TypeInv /\ TypeInv' /\ FreshInv' /\ SeqInv /\ TornInv /\ GetInv /\ [Next]_vars => GetInv'
  BY <1>a, GetNext
<1>4. TypeInv /\ TypeInv' /\ FreshInv' /\ SeqInv /\ KeepInv /\ [Next]_vars => KeepInv'
  BY <1>a, KeepNext
<1>5. Spec => [](TypeInv /\ FreshInv /\ SeqInv)
  BY TypeInit, TypeNext, FreshInit, FreshNext, SeqInit, SeqNext, PTL DEF Spec
<1>6. Spec => [](TornInv /\ GetInv)
  BY <1>2, <1>3, <1>5, TornInit, GetInit, PTL DEF Spec
<1>7. Spec => [](KeepInv /\ ReadInv)
  BY <1>4, <1>5, KeepInit, ReadInit, ReadNext, PTL DEF Spec
<1> QED
  BY <1>1, <1>5, <1>6, <1>7, PTL

-----------------------------------------------------------------------------
(***************************************************************************)
(* The engine implements KVStore: every step of it is a step of the        *)
(* abstract store or changes nothing that the abstract store knows of.     *)
(***************************************************************************)
\* A frame applied to entries that are all older is its operations applied to what they show.
LEMMA ApplyView ==
    ASSUME NEW N \in Nat, NEW E \in SUBSET EntryUpTo(N), OnePerSeq(E), NEW ops \in Seq(Op), NEW n \in Nat,
           n + Len(ops) <= N, \A e \in E : e.seq <= n
    PROVE  View(E \cup FrameEntries(Frame(n + 1, ops))) = KV!Apply(View(E), ops)
<1> DEFINE G == FrameEntries(Frame(n + 1, ops))
           A == E \cup G
           at(k) == {i \in 1 .. Len(ops) : ops[i].key = k}
<1>1. Len(ops) \in Nat /\ \A i \in 1 .. Len(ops) : ops[i] \in Op
  BY LenProperties, ElementOfSeq
<1>2. /\ G = {[key |-> ops[i].key, val |-> ops[i].val, seq |-> n + 1 + i - 1] : i \in 1 .. Len(ops)}
  BY DEF FrameEntries, Frame
<1>3. \A i \in 1 .. Len(ops) : n + 1 + i - 1 = n + i
  BY <1>1
<1>4. G \in SUBSET EntryUpTo(N) /\ (\A g \in G : g.seq \in n + 1 .. n + Len(ops))
  <2>1. ASSUME NEW i \in 1 .. Len(ops)
        PROVE  [key |-> ops[i].key, val |-> ops[i].val, seq |-> n + 1 + i - 1] \in EntryUpTo(N)
    <3>1. n + 1 + i - 1 \in 0 .. N
      BY <1>1
    <3>2. ops[i].key \in Key /\ ops[i].val \in Value \cup {Tombstone}
      BY <1>1 DEF Op
    <3> QED
      BY <3>1, <3>2 DEF EntryUpTo
  <2> QED
    BY <1>2, <2>1, FrameSeqs
<1>5. A \in SUBSET EntryUpTo(N) /\ OnePerSeq(A)
  <2>1. \A e \in E, g \in G : e.seq # g.seq
    BY <1>1, <1>4 DEF EntryUpTo
  <2>2. \A e, f \in G : e.seq = f.seq => e = f
    BY FrameSeqs
  <2> HIDE DEF G
  <2> QED
    BY <1>4, <2>1, <2>2 DEF OnePerSeq
<1>6. ASSUME NEW k \in Key
      PROVE  View(A)[k] = IF at(k) = {} THEN View(E)[k] ELSE ops[KV!Highest(at(k))].val
  <2>1. CASE at(k) = {}
    <3>1. \A g \in G : g.key # k
      BY <1>2, <2>1
    <3> HIDE DEF G
    <3>2. CASE \E e \in E : e.key = k
      <4>1. PICK e \in E : e.key = k /\ NewestIn(E, e)
        BY <3>2, NewestExists
      <4>2. NewestIn(A, e)
        BY <3>1, <4>1 DEF NewestIn
      <4>3. View(E)[e.key] = e.val
        BY <4>1, ViewNewest
      <4>4. View(A)[e.key] = e.val
        BY <1>5, <4>2, ViewNewest
      <4> QED
        BY <2>1, <4>1, <4>3, <4>4
    <3>3. CASE \A e \in E : e.key # k
      <4>1. \A e \in A : e.key # k
        BY <3>1, <3>3
      <4>2. View(A)[k] = Tombstone /\ View(E)[k] = Tombstone
        BY <3>3, <4>1, ViewNone
      <4> QED
        BY <2>1, <4>2
    <3> QED
      BY <3>2, <3>3
  <2>2. CASE at(k) # {}
    <3> DEFINE S == at(k)
               m == KV!Highest(S)
    <3>1. S \in SUBSET (0 .. Len(ops))
      BY <1>1
    <3>2. m \in S /\ \A i \in S : i <= m
      <4>1. \E x \in S : \A y \in S : y <= x
        BY <1>1, <2>2, <3>1, GreatestNatural
      <4> HIDE DEF S
      <4> QED
        BY <2>2, <4>1 DEF KV!Highest, S
    <3> HIDE DEF m
    <3> DEFINE e == [key |-> ops[m].key, val |-> ops[m].val, seq |-> n + 1 + m - 1]
    <3>3. e \in G /\ e.key = k /\ e.seq = n + m /\ m \in 1 .. Len(ops) /\ e.val = ops[m].val
      BY <1>2, <1>3, <3>2
    <3>4. ASSUME NEW f \in A, f.key = k PROVE f.seq <= e.seq
      <4>1. CASE f \in E
        BY <1>1, <3>3, <4>1 DEF EntryUpTo
      <4>2. CASE f \in G
        <5>1. PICK i \in 1 .. Len(ops) : f.key = ops[i].key /\ f.seq = n + i
          BY <1>2, <1>3, <4>2
        <5>2. i <= m
          BY <3>2, <3>4, <5>1
        <5> QED
          BY <1>1, <3>3, <5>1, <5>2
      <4> QED
        BY <3>4, <4>1, <4>2
    <3>5. NewestIn(A, e)
      BY <3>3, <3>4 DEF NewestIn
    <3> HIDE DEF e
    <3>6. View(A)[e.key] = e.val
      BY <1>5, <3>5, ViewNewest
    <3> QED
      BY <2>2, <3>3, <3>6 DEF m
  <2> QED
    BY <2>1, <2>2
<1> HIDE DEF A
<1>7. View(A) = [k \in Key |-> View(A)[k]]
  BY DEF View
<1> QED
  BY <1>6, <1>7 DEF KV!Apply, A

-----------------------------------------------------------------------------
(***************************************************************************)
(* The log while the process runs.  The memtable holds nothing but what    *)
(* has been applied of it, and memtable and listed tables cover that, so   *)
(* that a replay brings back what readers see.  The frame still to be      *)
(* applied is not synced, and its numbers are the highest.                 *)
(***************************************************************************)
LogIsCovered == pc # "down" => mem \subseteq Logged /\ Covers(Disk(mdisk) \cup mem, Logged)

AttemptedFrame ==
    pc = "append" =>
        /\ synced < Len(wal)
        /\ LastOps \in OpSeqs /\ Len(LastOps) <= nextSeq
        /\ \A e \in Disk(mdisk) \cup Logged : e.seq <= nextSeq - Len(LastOps)

LogInv == LogIsCovered /\ AttemptedFrame

\* There is no process at first.
LEMMA LogInit == Init => LogInv
  BY DEF Init, LogInv, LogIsCovered, AttemptedFrame

\* What a replay of the applied part of the log would bring back, with tables that look like the ones
\* listed and the memtable together, is what readers see.
LEMMA CoveredPart ==
    ASSUME TypeInv, SeqInv, LogInv, pc # "down",
           NEW D \in SUBSET Stored, Same(D, Disk(mdisk) \cup mem), NEW P \in SUBSET Logged
    PROVE  View(D \cup P) = Store
<1>1. /\ MaxSeq \in Nat /\ Disk(mdisk) \in SUBSET Stored /\ mem \in SUBSET Stored /\ P \in SUBSET Stored
      /\ D \in SUBSET EntryUpTo(MaxSeq) /\ P \in SUBSET EntryUpTo(MaxSeq)
      /\ Disk(mdisk) \cup mem \in SUBSET EntryUpTo(MaxSeq)
  BY DiskFacts, LoggedIsStored
<1>2. Covers(Disk(mdisk) \cup mem, P)
  BY DEF LogInv, LogIsCovered, Covers
<1>3. Covers(D, P)
  BY <1>1, <1>2, CoversTransitive DEF Same
<1>4. Same(D \cup P, D)
  BY <1>1, <1>3, SameAbsorb
<1>5. Same(D \cup P, Disk(mdisk) \cup mem)
  <2>1. D \cup P \in SUBSET EntryUpTo(MaxSeq)
    BY <1>1
  <2> QED
    BY <1>1, <1>4, <2>1, SameTransitive
<1>6. View(D \cup P) = View(Disk(mdisk) \cup mem)
  <2>1. D \cup P \in SUBSET Stored /\ Disk(mdisk) \cup mem \in SUBSET Stored
    BY <1>1
  <2> QED
    BY <1>5, <2>1, StoredView
<1> QED
  BY <1>6, RunningStore

\* A replay of all that is applied brings back what readers see.
LEMMA LoggedView ==
    ASSUME TypeInv, SeqInv, LogInv, pc # "down"
    PROVE  Store = View(Disk(mdisk) \cup Logged)
<1>1. /\ MaxSeq \in Nat /\ Disk(mdisk) \in SUBSET Stored /\ mem \in SUBSET Stored /\ Logged \in SUBSET Stored
      /\ Disk(mdisk) \cup mem \in SUBSET EntryUpTo(MaxSeq)
  BY DiskFacts, LoggedIsStored
<1>2. Same(Disk(mdisk) \cup mem, Disk(mdisk) \cup mem) /\ Disk(mdisk) \cup mem \in SUBSET Stored
  BY <1>1, SameReflexive
<1>3. View((Disk(mdisk) \cup mem) \cup Logged) = Store
  BY <1>2, CoveredPart
<1>4. (Disk(mdisk) \cup mem) \cup Logged = Disk(mdisk) \cup Logged
  BY DEF LogInv, LogIsCovered
<1> QED
  BY <1>3, <1>4

\* A step that appends and applies nothing.
LEMMA LogQuiet ==
    ASSUME TypeInv, SeqInv, KeepInv, LogInv, [Next]_vars, pc \notin {"down", "append"}, pc' # "append",
           UNCHANGED <<wal, mem>>
    PROVE  LogInv'
<1>1. Logged' = Logged /\ mem \subseteq Logged /\ Covers(Disk(mdisk) \cup mem, Logged)
  BY DEF Logged, LogInv, LogIsCovered
<1>2. /\ MaxSeq \in Nat /\ Disk(man) \in SUBSET EntryUpTo(MaxSeq) /\ Disk(mdisk) \in SUBSET EntryUpTo(MaxSeq)
      /\ mem \in SUBSET EntryUpTo(MaxSeq) /\ Logged \in SUBSET EntryUpTo(MaxSeq)
      /\ Disk(mdisk)' \in SUBSET EntryUpTo(MaxSeq)
  BY DiskFacts, LoggedIsStored, DiskSame
<1>3. Covers(Disk(mdisk)' \cup mem, Disk(mdisk) \cup mem)
  <2>1. CASE Same(Disk(mdisk)', Disk(mdisk))
    BY <1>2, <2>1, SameUnion DEF Same
  <2>2. CASE Disk(mdisk)' = Disk(man) \cup mem
    <3>1. Same(Disk(man) \cup mem, Disk(mdisk) \cup mem)
      BY <1>2, SameUnion DEF KeepInv, ManifestsAgree
    <3>2. Disk(mdisk)' \cup mem = Disk(man) \cup mem
      BY <2>2
    <3> QED
      BY <3>1, <3>2 DEF Same
  <2> QED
    BY <2>1, <2>2, DiskSame
<1>4. Covers(Disk(mdisk)' \cup mem, Logged)
  <2>1. Disk(mdisk)' \cup mem \in SUBSET EntryUpTo(MaxSeq) /\ Disk(mdisk) \cup mem \in SUBSET EntryUpTo(MaxSeq)
    BY <1>2
  <2> QED
    BY <1>1, <1>2, <1>3, <2>1, CoversTransitive
<1> QED
  BY <1>1, <1>4 DEF LogInv, LogIsCovered, AttemptedFrame

\* Open, whether it succeeds or flushes what it has replayed and fails.
LEMMA LogOpen ==
    ASSUME "readLog" \notin Faults, TypeInv, SeqInv, NEW readOnly, Open(readOnly) \/ OpenAbandon
    PROVE  LogInv'
<1>1. /\ pc' \in {"idle", "flush"} /\ wal' = recoverTail(wal) /\ mem' = Top(Replay(wal))
  BY DEF Open, OpenAbandon, OpenReading, Fail, MemApply, EmptyMem
<1>2. Logged' = Replay(wal)
  BY <1>1 DEF Logged, Replay
<1>3. Replay(wal) \in SUBSET EntryUpTo(MaxSeq)
  BY LogFacts, ReplayEntries, DiskFacts
<1>4. Top(Replay(wal)) \subseteq Replay(wal) /\ Covers(Top(Replay(wal)), Replay(wal))
  BY <1>3, TopIsSubset, TopCovers
<1>5. Covers(Disk(mdisk)' \cup mem', Logged')
  BY <1>1, <1>2, <1>4, CoversMore
<1> QED
  BY <1>1, <1>2, <1>4, <1>5 DEF LogInv, LogIsCovered, AttemptedFrame

\* Put, Delete and Write: the append.
LEMMA LogAppend ==
    ASSUME TypeInv, SeqInv, LogInv, NEW ops \in Seq(Op), ops # << >>, ops \in OpSeqs,
           AppendFrame(ops), pc' = "append"
    PROVE  LogInv'
<1>1. /\ Len(wal) \in Nat /\ synced \in 0 .. Len(wal) /\ nextSeq \in 0 .. MaxSeq /\ Len(ops) \in Nat \ {0}
  BY LogFacts, LenProperties, EmptySeq DEF TypeInv, TypeOK, LogType
<1>2. Len(wal') = Len(wal) + 1 /\ LastOps' = ops /\ Logged' = Logged
  BY AppendedLog
<1>3. Disk(mdisk)' = Disk(mdisk) /\ mem' = mem
  BY Appended DEF Disk
<1>4. LogIsCovered'
  BY <1>2, <1>3, Appended DEF LogInv, LogIsCovered
<1>5. nextSeq' - Len(ops) = nextSeq
  BY <1>1, Appended
<1>6. (\A e \in Disk(mdisk) \cup Logged : e.seq <= nextSeq) /\ Len(ops) <= nextSeq'
  BY <1>1, Appended, DiskFacts, LoggedIsStored DEF SeqInv, SeqsHandedOut
<1>7. synced' < Len(wal')
  BY <1>1, <1>2, Appended
<1>8. AttemptedFrame'
  BY <1>2, <1>3, <1>5, <1>6, <1>7 DEF AttemptedFrame
<1> QED
  BY <1>4, <1>8 DEF LogInv

\* Put, Delete and Write: the update of the memtable.
LEMMA LogApply ==
    ASSUME "sync" \notin Faults, TypeInv, SeqInv, LogInv, ApplyWrite
    PROVE  LogInv'
<1> DEFINE G == FrameEntries(wal[Len(wal)])
<1>1. pc = "append" /\ pc' # "append" /\ wal' = wal /\ mem' = Top(mem \cup G) /\ LogEntries(wal) = Logged \cup G
  BY Applied, LoggedIsStored
<1>2. Logged' = Logged \cup G
  BY <1>1 DEF Logged
<1>3. Disk(mdisk)' = Disk(mdisk)
  BY Applied DEF Disk
<1>4. mem \subseteq Logged /\ Covers(Disk(mdisk) \cup mem, Logged)
  BY <1>1 DEF LogInv, LogIsCovered
<1>5. /\ MaxSeq \in Nat /\ Logged \in SUBSET EntryUpTo(MaxSeq) /\ G \in SUBSET EntryUpTo(MaxSeq)
      /\ mem \in SUBSET EntryUpTo(MaxSeq) /\ Disk(mdisk) \in SUBSET EntryUpTo(MaxSeq)
  BY <1>1, DiskFacts
<1> HIDE DEF G
<1>6. mem' \subseteq mem \cup G /\ Covers(mem', mem \cup G)
  <2>1. mem \cup G \in SUBSET EntryUpTo(MaxSeq)
    BY <1>5
  <2> QED
    BY <1>1, <2>1, TopIsSubset, TopCovers
<1>7. Covers(Disk(mdisk) \cup mem', Logged \cup G)
  <2> DEFINE D == Disk(mdisk) \cup mem'
  <2>1. D \in SUBSET EntryUpTo(MaxSeq) /\ Disk(mdisk) \cup mem \in SUBSET EntryUpTo(MaxSeq)
    BY <1>5, <1>6
  <2>2. Covers(D, Disk(mdisk)) /\ Covers(D, mem) /\ Covers(D, G)
    BY <1>6, <2>1, CoversPart DEF Covers
  <2>3. Covers(D, Disk(mdisk) \cup mem)
    BY <2>2, CoversUnion
  <2> HIDE DEF D
  <2>4. Covers(D, Logged)
    BY <1>4, <1>5, <2>1, <2>3, CoversTransitive
  <2> QED
    BY <2>2, <2>4, CoversUnion DEF D
<1> QED
  BY <1>1, <1>2, <1>3, <1>4, <1>6, <1>7 DEF LogInv, LogIsCovered, AttemptedFrame

\* The end of a flush: memtable and log go together, and not before the table is listed.
LEMMA LogInstall ==
    ASSUME TypeInv, SeqInv, KeepInv, LogInv, [Next]_vars, FlushInstall
    PROVE  LogInv'
<1>1. pc = "install" /\ pc' \in {"idle", "close"} /\ UNCHANGED <<file, mdisk>> /\ wal' \in {wal, << >>}
      /\ mem' \in {mem, {}} /\ (wal' = << >> => mem' = {} \/ wal = << >>)
  BY DEF FlushInstall, Return, manVars, logVars, Reset, EmptyMem
<1>2. mem \subseteq Disk(mdisk) /\ Disk(mdisk)' = Disk(mdisk)
  BY <1>1 DEF SeqInv, FlushedIsMem, KeepInv, InstalledIsListed, Disk
<1>3. mem \subseteq Logged /\ Covers(Disk(mdisk) \cup mem, Logged)
  BY <1>1 DEF LogInv, LogIsCovered
<1>4. Disk(mdisk) \cup mem' = Disk(mdisk) \cup mem
  BY <1>1, <1>2
<1>5. CASE wal' = wal
  <2>1. Logged' = Logged
    BY <1>1, <1>5 DEF Logged
  <2> QED
    BY <1>1, <1>2, <1>3, <1>4, <2>1 DEF LogInv, LogIsCovered, AttemptedFrame
<1>6. CASE wal' = << >> /\ mem' = {}
  <2>1. Logged' = {}
    BY <1>1, <1>6 DEF Logged, LogEntries
  <2> QED
    BY <1>1, <1>6, <2>1 DEF LogInv, LogIsCovered, AttemptedFrame, Covers
<1> QED
  BY <1>1, <1>5, <1>6

\* The invariant is inductive unless reads of the log, appends or syncs may fail.
LEMMA LogNext ==
    ASSUME Faults \cap {"readLog", "append", "sync"} = {}
    PROVE  TypeInv /\ SeqInv /\ KeepInv /\ LogInv /\ [Next]_vars => LogInv'
<1> SUFFICES ASSUME TypeInv, SeqInv, KeepInv, LogInv, [Next]_vars
             PROVE  LogInv'
  OBVIOUS
<1>a. "readLog" \notin Faults /\ "append" \notin Faults /\ "sync" \notin Faults
  OBVIOUS
<1>b. ASSUME pc' = "down" PROVE LogInv'
  BY <1>b DEF LogInv, LogIsCovered, AttemptedFrame
<1>1. CASE Call
  <2>1. CASE OpenFail
    BY <1>b, <2>1 DEF OpenFail
  <2>3. ASSUME NEW ops \in Seq(Op), ops # << >>, ops \in OpSeqs, AppendFrame(ops) PROVE LogInv'
    <3>1. CASE pc' = "append"
      BY <2>3, <3>1, LogAppend
    <3>2. CASE pc' # "append"
      <4>1. pc = "idle" /\ UNCHANGED <<wal, mem>>
        BY <1>a, <2>3, <3>2, Refused
      <4> QED
        BY <3>2, <4>1, LogQuiet
    <3> QED
      BY <3>1, <3>2
  <2>2. CASE Sync \/ Flush \/ CompactBegin \/ Close
    <3>1. pc = "idle" /\ pc' # "append" /\ UNCHANGED <<wal, mem>>
      BY <2>2 DEF Sync, Flush, CompactBegin, Close, Alloc, logVars
    <3> QED
      BY <3>1, LogQuiet
  <2> QED
    BY <1>1, <1>a, <2>1, <2>2, <2>3, CallCases, LogOpen
<1>2. CASE Continue
  <2>1. CASE FlushAlloc \/ FlushCreate \/ FlushWrite \/ FlushAddFile \/ CompactCreate \/ CompactMerge
             \/ CompactReplace \/ (\E n \in ins : CompactRemove(n)) \/ CompactInstall
    <3>1. pc \notin {"down", "append"} /\ pc' # "append" /\ UNCHANGED <<wal, mem>>
      BY <2>1 DEF FlushAlloc, FlushCreate, FlushWrite, FlushAddFile, CompactCreate, CompactMerge,
                  CompactReplace, CompactRemove, CompactInstall, Alloc, Return, logVars
    <3> QED
      BY <3>1, LogQuiet
  <2>2. CASE CloseFinish
    BY <1>b, <2>2 DEF CloseFinish, Vanish
  <2> QED
    BY <1>2, <1>a, <2>1, <2>2, LogApply, LogInstall DEF Continue
<1>3. CASE ProcessCrash \/ PowerLoss
  BY <1>b, <1>3 DEF ProcessCrash, PowerLoss, Vanish
<1>4. CASE UNCHANGED vars
  BY <1>4 DEF vars, LogInv, LogIsCovered, AttemptedFrame, Logged, LastOps, Disk
<1> QED
  BY <1>1, <1>2, <1>3, <1>4 DEF Next

-----------------------------------------------------------------------------
(***************************************************************************)
(* The steps, one by one.                                                  *)
(***************************************************************************)
\* What a crash may leave: the listed tables with a part of the log that is at least the synced one.
LEMMA RecoverableParts ==
    /\ Recoverable = {View(Disk(mdisk) \cup LogEntries(Prefix(wal, n))) : n \in SyncedLen .. ValidLen(wal)}
    /\ Recoverable' = {View(Disk(mdisk)' \cup LogEntries(Prefix(wal', n))) :
                            n \in SyncedLen' .. ValidLen(wal')}
<1>1. LiveDisk = Disk(mdisk) /\ LiveDisk' = Disk(mdisk)'
  BY DEF LiveDisk, Disk, Nums
<1> QED
  BY <1>1 DEF Recoverable

\* The memtable Open rebuilds shows what the log shows.
LEMMA ReplayedView ==
    ASSUME TypeInv, SeqInv
    PROVE  View(Top(Replay(wal)) \cup Disk(mdisk)) = View(Replay(wal) \cup Disk(mdisk))
<1> DEFINE R == Replay(wal)
           T == Top(R)
           D == Disk(mdisk)
<1>1. R \in SUBSET Stored /\ D \in SUBSET Stored
  BY LogFacts, ReplayEntries, DiskFacts
<1>2. T \in SUBSET Stored /\ Same(T, R)
  BY <1>1, DiskFacts, TopIsSubset, SameTop
<1> HIDE DEF R, T, D
<1>3. View(T \cup D) = View(R \cup D)
  BY <1>1, <1>2, SameStore
<1> QED
  BY <1>3 DEF R, T, D

\* Open recovers the store that is already there and leaves open what a crash may bring back.
LEMMA RefineOpen ==
    ASSUME "readLog" \notin Faults, TypeInv, SeqInv, NEW readOnly, Open(readOnly) \/ OpenAbandon
    PROVE  KV!Start
<1> DEFINE V == ValidLen(wal)
<1>1. /\ pc = "down" /\ pc' # "down" /\ wal' = Prefix(wal, V) /\ mem' = Top(Replay(wal))
      /\ synced' = SyncedLen /\ UNCHANGED <<file, mdisk>>
  BY DEF Open, OpenAbandon, OpenReading, Fail, MemApply, EmptyMem, recoverTail, SyncedLen
<1>2. /\ wal \in Seq(FrameType) /\ Len(wal) \in Nat /\ V \in 0 .. Len(wal) /\ SyncedLen \in 0 .. V
  BY LogFacts
<1>3. ValidLen(wal') = V
  BY <1>1, <1>2, ValidLenOfPrefix
<1>4. SyncedLen' = SyncedLen
  BY <1>1, <1>2, <1>3 DEF SyncedLen
<1>5. Disk(mdisk)' = Disk(mdisk) /\ LiveDisk' = Disk(mdisk) /\ LiveDisk = Disk(mdisk)
  BY <1>1 DEF Disk, LiveDisk, Nums
<1>6. \A n \in SyncedLen .. V : Prefix(wal', n) = Prefix(wal, n)
  <2>1. \A n \in SyncedLen .. V : n \in 0 .. V
    BY <1>2
  <2> QED
    BY <1>1, <1>2, <2>1, PrefixOfPrefix
<1>7. Recoverable' = Recoverable
  BY <1>3, <1>4, <1>5, <1>6, RecoverableParts
<1>8. Store' = Store
  <2>1. Store = View(Replay(wal) \cup Disk(mdisk)) /\ Store' = View(Top(Replay(wal)) \cup Disk(mdisk))
    <3>1. /\ Disk(mdisk) \cup Replay(wal) = Replay(wal) \cup Disk(mdisk)
          /\ Disk(mdisk) \cup Top(Replay(wal)) = Top(Replay(wal)) \cup Disk(mdisk)
      OBVIOUS
    <3> QED
      BY <1>1, <1>5, <3>1 DEF Store
  <2> QED
    BY <2>1, ReplayedView
<1>9. ~(pc # "down") /\ (pc' # "down") = TRUE
  BY <1>1
<1> QED
  BY <1>7, <1>8, <1>9 DEF KV!Start

\* When there is no process the whole valid part of the log counts.
LEMMA StoppedStore ==
    /\ pc = "down" => Store = View(Disk(mdisk) \cup LogEntries(Prefix(wal, ValidLen(wal))))
    /\ pc' = "down" => Store' = View(Disk(mdisk)' \cup LogEntries(Prefix(wal', ValidLen(wal'))))
<1>1. LiveDisk = Disk(mdisk) /\ LiveDisk' = Disk(mdisk)'
  BY DEF LiveDisk, Disk, Nums
<1> QED
  BY <1>1 DEF Store, Replay, recoverTail

\* A failed Open has truncated and synced the log.
LEMMA RefineOpenFail ==
    ASSUME TypeInv, OpenFail
    PROVE  KV!Persist
<1> DEFINE V == ValidLen(wal)
<1>1. /\ pc = "down" /\ pc' = "down" /\ wal' = Prefix(wal, V) /\ synced' = V /\ UNCHANGED <<file, mdisk>>
  BY DEF OpenFail, recoverTail
<1>2. /\ wal \in Seq(FrameType) /\ Len(wal) \in Nat /\ V \in 0 .. Len(wal) /\ SyncedLen \in 0 .. V
  BY LogFacts
<1>3. ValidLen(wal') = V /\ Prefix(wal', V) = Prefix(wal, V)
  BY <1>1, <1>2, ValidLenOfPrefix, PrefixOfPrefix
<1>4. SyncedLen' = V
  BY <1>1, <1>2, <1>3 DEF SyncedLen
<1>5. Disk(mdisk)' = Disk(mdisk)
  BY <1>1 DEF Disk
<1>6. Store' = Store /\ Store = View(Disk(mdisk) \cup LogEntries(Prefix(wal, V)))
  BY <1>1, <1>3, <1>5, StoppedStore
<1>7. V .. V = {V} /\ V \in SyncedLen .. V
  BY <1>2
<1> HIDE DEF V
<1>8. Recoverable' = {Store}
  BY <1>3, <1>4, <1>5, <1>6, <1>7, RecoverableParts
<1>9. Store \in Recoverable
  BY <1>6, <1>7, RecoverableParts DEF V
<1> QED
  BY <1>1, <1>6, <1>8, <1>9 DEF KV!Persist

\* A step that ends the process: what it leaves of the log must be a part that a crash may leave.
LEMMA RefineStop ==
    ASSUME TypeInv', pc' = "down", UNCHANGED <<file, mdisk>>,
           \A n \in SyncedLen' .. ValidLen(wal') :
              \E m \in SyncedLen .. ValidLen(wal) : Prefix(wal', n) = Prefix(wal, m)
    PROVE  KV!Stop
<1>1. Disk(mdisk)' = Disk(mdisk)
  BY DEF Disk
<1>2. Recoverable' \subseteq Recoverable
  BY <1>1, RecoverableParts
<1>3. wal' \in Seq(FrameType) /\ synced' \in 0 .. Len(wal')
  BY DEF TypeInv, TypeOK, LogType, FrameType
<1>4. ValidLen(wal') \in 0 .. Len(wal') /\ Len(wal') \in Nat
  BY <1>3, ValidLenProperty, LenProperties
<1>5. ValidLen(wal') \in SyncedLen' .. ValidLen(wal')
  BY <1>3, <1>4 DEF SyncedLen
<1>6. Store' \in Recoverable'
  BY <1>5, RecoverableParts, StoppedStore
<1> QED
  BY <1>2, <1>6 DEF KV!Stop

\* Close syncs the log or not.
LEMMA RefineClose ==
    ASSUME TypeInv, TypeInv', CloseFinish
    PROVE  KV!Stop
<1>1. pc' = "down" /\ UNCHANGED <<file, mdisk, wal>> /\ synced' \in {synced, Len(wal)}
  BY DEF CloseFinish, Vanish
<1>2. /\ Len(wal) \in Nat /\ ValidLen(wal) \in 0 .. Len(wal) /\ synced \in 0 .. Len(wal)
      /\ SyncedLen \in 0 .. ValidLen(wal)
  BY LogFacts
<1>3. SyncedLen' \in SyncedLen .. ValidLen(wal)
  BY <1>1, <1>2 DEF SyncedLen
<1>4. \A n \in SyncedLen' .. ValidLen(wal) : n \in SyncedLen .. ValidLen(wal)
  BY <1>2, <1>3
<1> QED
  BY <1>1, <1>4, RefineStop

\* The process dies, perhaps in the middle of an append.
LEMMA RefineProcessCrash ==
    ASSUME TypeInv, TypeInv', ProcessCrash
    PROVE  KV!Stop
<1>1. pc' = "down" /\ UNCHANGED <<file, mdisk, synced>> /\ wal' \in {wal, Append(wal, Torn)}
  BY DEF ProcessCrash, Vanish
<1>2. /\ Len(wal) \in Nat /\ ValidLen(wal) \in 0 .. Len(wal) /\ synced \in 0 .. Len(wal)
      /\ SyncedLen \in 0 .. ValidLen(wal) /\ wal \in Seq(FrameType) /\ Torn \in FrameType
  BY LogFacts
<1>3. ValidLen(wal') = ValidLen(wal)
  BY <1>1, <1>2, ValidLenOfTorn
<1>4. SyncedLen' = SyncedLen
  BY <1>1, <1>3 DEF SyncedLen
<1>5. ASSUME NEW n \in SyncedLen .. ValidLen(wal) PROVE Prefix(wal', n) = Prefix(wal, n)
  <2>1. n \in 0 .. Len(wal)
    BY <1>2
  <2>2. Prefix(Append(wal, Torn), n) = Prefix(wal, n)
    BY <1>2, <2>1, PrefixOfAppend
  <2> QED
    BY <1>1, <2>2
<1> QED
  BY <1>1, <1>3, <1>4, <1>5, RefineStop

\* The power goes: a part of the log that is at least the synced one stays, perhaps with a torn end.
LEMMA RefinePowerLoss ==
    ASSUME TypeInv, TypeInv', PowerLoss
    PROVE  KV!Stop
<1>1. PICK n \in synced .. Len(wal) :
         synced' = n /\ wal' \in {Prefix(wal, n), Append(Prefix(wal, n), Torn)}
  BY DEF PowerLoss
<1>2. pc' = "down" /\ UNCHANGED <<file, mdisk>>
  BY DEF PowerLoss, Vanish
<1> DEFINE V == ValidLen(wal)
           p == Prefix(wal, n)
           m == IF n <= V THEN n ELSE V
<1>3. /\ Len(wal) \in Nat /\ V \in 0 .. Len(wal) /\ synced \in 0 .. Len(wal)
      /\ SyncedLen \in 0 .. V /\ wal \in Seq(FrameType) /\ Torn \in FrameType
  BY LogFacts
<1>4. n \in 0 .. Len(wal)
  BY <1>3
<1>5. p \in Seq(FrameType) /\ Len(p) = n
  BY <1>3, <1>4, PrefixProperty
<1>6. ValidLen(p) = m
  BY <1>3, <1>4, ValidLenOfPrefix
<1>7. m \in 0 .. n /\ m \in SyncedLen .. V
  BY <1>3, <1>4 DEF SyncedLen
<1> HIDE DEF p, V
<1>8. ValidLen(wal') = m
  BY <1>1, <1>3, <1>5, <1>6, ValidLenOfTorn DEF p
<1> HIDE DEF m
<1>9. SyncedLen' = m
  BY <1>1, <1>4, <1>7, <1>8 DEF SyncedLen
<1>10. Prefix(p, m) = Prefix(wal, m)
  BY <1>3, <1>4, <1>7, PrefixOfPrefix DEF p
<1>11. Prefix(wal', m) = Prefix(wal, m)
  <2>1. Prefix(Append(p, Torn), m) = Prefix(p, m)
    BY <1>3, <1>5, <1>7, PrefixOfAppend
  <2> QED
    BY <1>1, <1>10, <2>1 DEF p
<1>12. m .. m = {m}
  BY <1>4, <1>7
<1> QED
  BY <1>2, <1>7, <1>8, <1>9, <1>11, <1>12, RefineStop DEF V

\* An append adds one store to those that a crash may bring back: the one with the write.
LEMMA RefineAppend ==
    ASSUME TypeInv, SeqInv, TornInv, LogInv, NEW ops \in Seq(Op), ops # << >>,
           AppendFrame(ops), pc' = "append"
    PROVE  KV!Attempt(ops)
<1> DEFINE f == Frame(nextSeq + 1, ops)
           E == Disk(mdisk) \cup LogEntries(wal)
           L == Len(wal)
<1>1. /\ wal \in Seq(FrameType) /\ L \in Nat /\ synced \in 0 .. L /\ nextSeq \in 0 .. MaxSeq
      /\ Len(ops) \in Nat \ {0} /\ nextSeq + Len(ops) <= MaxSeq
  BY LogFacts, LenProperties, EmptySeq, Appended DEF TypeInv, TypeOK, LogType
<1>2. f \in FrameType /\ f # Torn
  BY <1>1 DEF Frame, FrameType, Torn
<1>3. pc = "idle" /\ pc' = "append" /\ wal' = Append(wal, f) /\ UNCHANGED <<synced, file, mem, mdisk>>
  BY Appended
<1>4. Disk(mdisk)' = Disk(mdisk) /\ Store' = Store
  BY <1>3 DEF Disk, Store, LiveDisk
<1>5. ValidLen(wal) = L /\ SyncedLen = synced /\ Prefix(wal, L) = wal /\ \A i \in 1 .. L : wal[i] # Torn
  BY <1>3, RunningLog DEF TornInv, RunningLogIsWhole
<1> HIDE DEF f
<1>6. /\ wal' \in Seq(FrameType) /\ Len(wal') = L + 1 /\ wal'[L + 1] = f
      /\ \A i \in 1 .. L : wal'[i] = wal[i]
  BY <1>1, <1>2, <1>3, AppendProperties
<1>7. \A i \in 1 .. Len(wal') : wal'[i] # Torn
  BY <1>1, <1>2, <1>5, <1>6
<1>8. ValidLen(wal') = L + 1 /\ Prefix(wal', L + 1) = wal'
  BY <1>6, <1>7, WholeLog, WholePrefix
<1>9. SyncedLen' = synced
  BY <1>1, <1>3, <1>8 DEF SyncedLen
<1>10. \A n \in synced .. L : Prefix(wal', n) = Prefix(wal, n)
  <2>1. \A n \in synced .. L : n \in 0 .. L
    BY <1>1
  <2> QED
    BY <1>1, <1>2, <1>3, <2>1, PrefixOfAppend
<1>11. LogEntries(wal') = LogEntries(wal) \cup FrameEntries(f)
  BY <1>1, <1>2, <1>3, AppendEntries
<1>12. View(Disk(mdisk) \cup LogEntries(wal')) = KV!Apply(Store, ops)
  <2>1. E \in SUBSET EntryUpTo(MaxSeq) /\ OnePerSeq(E) /\ \A e \in E : e.seq <= nextSeq
    BY <1>3, DiskFacts DEF OnePerSeq, SeqInv, SeqsHandedOut
  <2>2. Store = View(E)
    BY <1>3, LoggedView DEF Logged
  <2> HIDE DEF E
  <2>3. View(E \cup FrameEntries(f)) = KV!Apply(View(E), ops)
    <3>1. MaxSeq \in Nat /\ nextSeq \in Nat /\ nextSeq + Len(ops) <= MaxSeq /\ ops \in Seq(Op)
      BY <1>1, BoundsAssumption
    <3> HIDE DEF L
    <3>2. View(E \cup FrameEntries(Frame(nextSeq + 1, ops))) = KV!Apply(View(E), ops)
      BY <2>1, <3>1, ApplyView, SMTT(30)
    <3> QED
      BY <3>2 DEF f
  <2>4. Disk(mdisk) \cup LogEntries(wal') = E \cup FrameEntries(f)
    BY <1>11 DEF E
  <2> QED
    BY <2>2, <2>3, <2>4
<1>13. synced .. L + 1 = (synced .. L) \cup {L + 1}
  BY <1>1
<1>14. Recoverable' = Recoverable \cup {KV!Apply(Store, ops)}
  <2> HIDE DEF L
  <2>1. Recoverable = {View(Disk(mdisk) \cup LogEntries(Prefix(wal, n))) : n \in synced .. L}
    BY <1>5, RecoverableParts
  <2>2. Recoverable' = {View(Disk(mdisk) \cup LogEntries(Prefix(wal', n))) : n \in (synced .. L) \cup {L + 1}}
    BY <1>4, <1>8, <1>9, <1>13, RecoverableParts
  <2> QED
    BY <1>8, <1>10, <1>12, <2>1, <2>2
<1> QED
  BY <1>3, <1>4, <1>14 DEF KV!Attempt

\* The update of the memtable makes the write visible; under SyncFull nothing but it can come back.
LEMMA RefineApply ==
    ASSUME "sync" \notin Faults, TypeInv, SeqInv, TornInv, LogInv, ApplyWrite
    PROVE  KV!Acknowledge(LastOps) /\ LastOps \in OpSeqs
<1> DEFINE n == nextSeq - Len(LastOps)
           G == FrameEntries(Frame(n + 1, LastOps))
           D == Disk(mdisk)
           L == Len(wal)
<1>1. /\ pc = "append" /\ pc' # "down" /\ UNCHANGED <<wal, file, mdisk>> /\ mem' = Top(mem \cup G)
      /\ LastOps \in Seq(Op) /\ wal[Len(wal)] = Frame(n + 1, LastOps)
      /\ synced' = IF SyncDue THEN L ELSE synced
  BY Applied
<1>2. /\ LastOps \in OpSeqs /\ Len(LastOps) \in Nat /\ nextSeq \in 0 .. MaxSeq /\ Len(LastOps) <= nextSeq
      /\ \A e \in D \cup Logged : e.seq <= n
  BY <1>1, LenProperties DEF LogInv, AttemptedFrame, TypeInv, TypeOK, LogType
<1>3. n \in Nat /\ n + Len(LastOps) <= MaxSeq
  BY <1>2
<1>4. mem \subseteq Logged /\ LogEntries(wal) = Logged \cup G
  BY <1>1, LoggedIsStored DEF LogInv, LogIsCovered
<1>5. /\ D \in SUBSET Stored /\ mem \in SUBSET Stored /\ Logged \in SUBSET Stored /\ G \in SUBSET Stored
      /\ Stored \in SUBSET EntryUpTo(MaxSeq) /\ OnePerSeq(Stored)
  BY <1>4, DiskFacts, LoggedIsStored
<1> HIDE DEF n, G
<1>6. ASSUME NEW E \in SUBSET (D \cup Logged), View(E) = Store
      PROVE  View(E \cup G) = KV!Apply(Store, LastOps)
  <2>1. E \in SUBSET EntryUpTo(MaxSeq) /\ OnePerSeq(E) /\ \A e \in E : e.seq <= n
    BY <1>2, <1>5 DEF OnePerSeq
  <2>2. LastOps \in Seq(Op)
    BY <1>1
  <2>3. View(E \cup FrameEntries(Frame(n + 1, LastOps))) = KV!Apply(View(E), LastOps)
    BY <1>3, <2>1, <2>2, ApplyView
  <2> QED
    BY <1>6, <2>3 DEF G
<1>7. D' = D
  BY <1>1 DEF Disk
<1>8. Store' = KV!Apply(Store, LastOps)
  <2>1. Store' = View(Top(mem \cup G) \cup D)
    <3>1. D' \cup mem' = Top(mem \cup G) \cup D
      BY <1>1, <1>7
    <3> QED
      BY <1>1, <3>1, RunningStore
  <2>2. mem \cup G \in SUBSET Stored /\ Top(mem \cup G) \in SUBSET Stored /\ Same(Top(mem \cup G), mem \cup G)
    BY <1>5, TopIsSubset, SameTop
  <2>3. View(Top(mem \cup G) \cup D) = View((mem \cup G) \cup D)
    <3> DEFINE R == mem \cup G
               T == Top(R)
    <3> HIDE DEF R
    <3>1. R \in SUBSET Stored /\ T \in SUBSET Stored /\ Same(T, R)
      BY <2>2 DEF R
    <3> HIDE DEF T, D
    <3>2. View(T \cup D) = View(R \cup D)
      BY <1>5, <3>1, SameStore
    <3> QED
      BY <3>2 DEF R, T
  <2>4. (mem \cup G) \cup D = (D \cup mem) \cup G
    OBVIOUS
  <2>5. View(D \cup mem) = Store /\ D \cup mem \in SUBSET (D \cup Logged)
    BY <1>1, <1>4, RunningStore
  <2>6. View((D \cup mem) \cup G) = KV!Apply(Store, LastOps)
    BY <1>6, <2>5
  <2> QED
    BY <2>1, <2>3, <2>4, <2>6
<1>9. View(D \cup LogEntries(wal)) = KV!Apply(Store, LastOps)
  <2>1. View(D \cup Logged) = Store
    BY <1>1, LoggedView
  <2>2. D \cup LogEntries(wal) = (D \cup Logged) \cup G
    BY <1>4
  <2>3. View((D \cup Logged) \cup G) = KV!Apply(Store, LastOps)
    BY <1>6, <2>1
  <2> QED
    BY <2>2, <2>3
<1>10. /\ L \in Nat /\ synced \in 0 .. L /\ ValidLen(wal) = L /\ SyncedLen = synced /\ Prefix(wal, L) = wal
  BY <1>1, LogFacts, RunningLog
<1>11. SyncedLen' = synced' /\ ValidLen(wal') = L /\ L \in synced' .. L
       /\ (\A m \in synced' .. L : m \in synced .. L)
  BY <1>1, <1>10 DEF SyncedLen
<1> HIDE DEF L, D
<1>12. Recoverable' = {View(D \cup LogEntries(Prefix(wal, m))) : m \in synced' .. L}
  BY <1>1, <1>7, <1>11, RecoverableParts DEF D
<1>13. Recoverable = {View(D \cup LogEntries(Prefix(wal, m))) : m \in synced .. L}
  BY <1>10, RecoverableParts DEF D
<1>14. Recoverable' \subseteq Recoverable
  BY <1>11, <1>12, <1>13
<1>15. Store' \in Recoverable'
  BY <1>8, <1>9, <1>10, <1>11, <1>12
<1>16. ASSUME SyncPolicy = "full" PROVE Recoverable' = {Store'}
  <2>1. SyncDue
    BY <1>16 DEF SyncDue
  <2>2. synced' = L /\ L .. L = {L}
    BY <1>1, <1>10, <2>1
  <2> QED
    BY <1>8, <1>9, <1>10, <1>12, <2>2
<1> QED
  BY <1>1, <1>2, <1>8, <1>14, <1>15, <1>16 DEF KV!Acknowledge

\* A step that leaves the log, and tables that look the same, may at most sync the log.
LEMMA RefineQuiet ==
    ASSUME TypeInv, SeqInv, KeepInv, TornInv, LogInv, pc \notin {"down", "append"}, pc' # "down",
           UNCHANGED wal, synced' \in {synced, Len(wal)}, Store' = Store,
           Disk(mdisk)' \in SUBSET Stored, Same(Disk(mdisk)', Disk(mdisk))
    PROVE  KV!Persist
<1> DEFINE L == Len(wal)
           D == Disk(mdisk)
<1>1. /\ L \in Nat /\ synced \in 0 .. L /\ ValidLen(wal) = L /\ SyncedLen = synced /\ Prefix(wal, L) = wal
  BY LogFacts, RunningLog
<1>2. SyncedLen' = synced' /\ ValidLen(wal') = L /\ L \in synced' .. L
      /\ (\A m \in synced' .. L : m \in synced .. L)
  BY <1>1 DEF SyncedLen
<1>3. ASSUME NEW m \in synced .. L
      PROVE  View(D' \cup LogEntries(Prefix(wal, m))) = View(D \cup LogEntries(Prefix(wal, m)))
  <2>1. m \in 0 .. L
    BY <1>1
  <2>2. LogEntries(Prefix(wal, m)) \in SUBSET Stored /\ D \in SUBSET Stored
    BY <2>1, LogFacts, DiskFacts
  <2> QED
    BY <2>2, SameStore, ZenonT(60)
<1> HIDE DEF L, D
<1>4. Recoverable = {View(D \cup LogEntries(Prefix(wal, m))) : m \in synced .. L}
  BY <1>1, RecoverableParts DEF D
<1>5. Recoverable' = {View(D' \cup LogEntries(Prefix(wal, m))) : m \in synced' .. L}
  BY <1>2, RecoverableParts DEF D
<1>6. Recoverable' \subseteq Recoverable
  BY <1>2, <1>3, <1>4, <1>5
<1>7. Store = View(D \cup LogEntries(wal))
  BY LoggedView DEF Logged, D
<1>8. Store \in Recoverable'
  BY <1>1, <1>2, <1>3, <1>5, <1>7
<1> QED
  BY <1>6, <1>8 DEF KV!Persist

\* A step after which only the contents themselves can come back.
LEMMA RefineDurable ==
    ASSUME TypeInv, TypeInv', SeqInv, TornInv, LogInv, pc \notin {"down", "append"}, pc' # "down", Store' = Store,
           \A n \in 0 .. Len(wal') : View(Disk(mdisk)' \cup LogEntries(Prefix(wal', n))) = Store
    PROVE  KV!Persist
<1>1. wal' \in Seq(FrameType) /\ synced' \in 0 .. Len(wal')
  BY DEF TypeInv, TypeOK, LogType, FrameType
<1>2. ValidLen(wal') \in 0 .. Len(wal') /\ Len(wal') \in Nat
  BY <1>1, ValidLenProperty, LenProperties
<1>3. /\ ValidLen(wal') \in SyncedLen' .. ValidLen(wal')
      /\ \A n \in SyncedLen' .. ValidLen(wal') : n \in 0 .. Len(wal')
  BY <1>1, <1>2 DEF SyncedLen
<1>4. Recoverable' = {Store}
  BY <1>3, RecoverableParts
<1>5. Store \in Recoverable
  <2>1. Store = View(Disk(mdisk) \cup LogEntries(wal))
    BY LoggedView DEF Logged
  <2>2. Prefix(wal, ValidLen(wal)) = wal /\ ValidLen(wal) \in SyncedLen .. ValidLen(wal)
    BY LogFacts, RunningLog
  <2> QED
    BY <2>1, <2>2, RecoverableParts
<1> QED
  BY <1>4, <1>5 DEF KV!Persist

\* Once a table with the memtable's entries is listed the log is not needed.
LEMMA RefineAddFile ==
    ASSUME TypeInv, TypeInv', SeqInv, KeepInv, TornInv, LogInv, [Next]_vars, FlushAddFile
    PROVE  KV!Persist
<1>1. pc = "addFile" /\ pc' \in {"install", "idle", "close"} /\ UNCHANGED <<wal, synced, mem>>
  BY AddFileDisk DEF FlushAddFile
<1>2. Store' = Store
  BY <1>1, MaintenanceStep DEF FlushSteps
<1>3. CASE Disk(mdisk)' = Disk(man) \cup mem
  <2>1. /\ Disk(man) \cup mem \in SUBSET Stored /\ Disk(mdisk) \cup mem \in SUBSET Stored
        /\ Same(Disk(man) \cup mem, Disk(mdisk) \cup mem)
    BY DiskFacts, SameUnion DEF KeepInv, ManifestsAgree
  <2>2. ASSUME NEW n \in 0 .. Len(wal)
        PROVE  View((Disk(man) \cup mem) \cup LogEntries(Prefix(wal, n))) = Store
    <3>1. LogEntries(Prefix(wal, n)) \in SUBSET Logged
      BY <1>1, LogFacts DEF Logged
    <3> QED
      BY <1>1, <2>1, <3>1, CoveredPart
  <2> QED
    BY <1>1, <1>2, <1>3, <2>2, RefineDurable
<1>4. CASE Same(Disk(mdisk)', Disk(mdisk))
  BY <1>1, <1>2, <1>4, DiskSame, RefineQuiet
<1> QED
  BY <1>3, <1>4, DiskSame

\* So the log can be emptied together with the memtable.
LEMMA RefineInstall ==
    ASSUME TypeInv, TypeInv', SeqInv, KeepInv, TornInv, LogInv, [Next]_vars, FlushInstall
    PROVE  KV!Persist
<1>1. /\ pc = "install" /\ pc' \in {"idle", "close"} /\ UNCHANGED <<file, mdisk>>
      /\ \/ UNCHANGED <<wal, synced>>
         \/ wal' = << >>
  BY DEF FlushInstall, Return, manVars, logVars, Reset
<1>2. Store' = Store
  BY <1>1, MaintenanceStep DEF FlushSteps
<1>3. mem \subseteq Disk(mdisk) /\ Disk(mdisk)' = Disk(mdisk)
  BY <1>1 DEF SeqInv, FlushedIsMem, KeepInv, InstalledIsListed, Disk
<1>4. CASE UNCHANGED <<wal, synced>>
  <2>1. Same(Disk(mdisk), Disk(mdisk)) /\ Disk(mdisk) \in SUBSET Stored
    BY DiskFacts, SameReflexive
  <2> QED
    BY <1>1, <1>2, <1>3, <1>4, <2>1, RefineQuiet
<1>5. CASE wal' = << >>
  <2>1. \A n \in 0 .. Len(wal') : n = 0
    BY <1>5
  <2>2. LogEntries(Prefix(wal', 0)) = {}
    BY <1>5 DEF Prefix, LogEntries
  <2>3. View(Disk(mdisk)) = Store
    <3>1. Disk(mdisk) \cup mem = Disk(mdisk)
      BY <1>3
    <3> QED
      BY <1>1, <3>1, RunningStore
  <2>4. \A n \in 0 .. Len(wal') : View(Disk(mdisk)' \cup LogEntries(Prefix(wal', n))) = Store
    <3>1. Disk(mdisk)' \cup LogEntries(Prefix(wal', 0)) = Disk(mdisk)
      BY <1>3, <2>2
    <3> QED
      BY <2>1, <2>3, <3>1
  <2> QED
    BY <1>1, <1>2, <2>4, RefineDurable
<1> QED
  BY <1>1, <1>4, <1>5

\* Every step of the engine is a step of the abstract store, or changes nothing of it.
LEMMA RefineNext ==
    ASSUME Faults \cap {"readLog", "append", "sync", "readInput"} = {}
    PROVE  TypeInv /\ TypeInv' /\ SeqInv /\ KeepInv /\ TornInv /\ LogInv /\ [Next]_vars
               => [KV!KVNext]_(KV!kvVars)
<1> SUFFICES ASSUME TypeInv, TypeInv', SeqInv, KeepInv, TornInv, LogInv, [Next]_vars
             PROVE  KV!KVNext \/ UNCHANGED KV!kvVars
  OBVIOUS
<1>a. "readLog" \notin Faults /\ "append" \notin Faults /\ "sync" \notin Faults
  OBVIOUS
<1>1. CASE Call
  <2>1. CASE (\E readOnly \in BOOLEAN : Open(readOnly)) \/ OpenAbandon
    BY <1>a, <2>1, RefineOpen DEF KV!KVNext
  <2>2. ASSUME NEW ops \in Seq(Op), ops # << >>, ops \in OpSeqs, AppendFrame(ops) PROVE KV!KVNext
    <3>1. CASE pc' = "append"
      BY <2>2, <3>1, RefineAppend DEF KV!KVNext
    <3>2. CASE pc' # "append"
      <4>1. pc = "idle" /\ pc' = "idle" /\ UNCHANGED <<wal, synced, file, mem, mdisk>>
        BY <1>a, <2>2, <3>2, Refused
      <4>2. Disk(mdisk)' = Disk(mdisk) /\ Store' = Store
        BY <4>1 DEF Disk, Store, LiveDisk
      <4>3. Disk(mdisk) \in SUBSET Stored /\ Same(Disk(mdisk), Disk(mdisk))
        BY DiskFacts, SameReflexive
      <4> QED
        BY <4>1, <4>2, <4>3, RefineQuiet DEF KV!KVNext
    <3> QED
      BY <3>1, <3>2
  <2>3. CASE OpenFail
    BY <2>3, RefineOpenFail DEF KV!KVNext
  <2>4. CASE Sync \/ Flush \/ CompactBegin \/ Close
    <3>1. pc = "idle" /\ pc' # "down" /\ UNCHANGED <<wal, mem>> /\ synced' \in {synced, Len(wal)}
      BY <2>4 DEF Sync, Flush, CompactBegin, Close, Alloc, logVars
    <3>2. Disk(mdisk)' \in SUBSET Stored /\ Same(Disk(mdisk)', Disk(mdisk))
      BY <3>1, DiskSame DEF FlushAddFile
    <3>3. Store' = View(Disk(mdisk)' \cup mem) /\ Store = View(Disk(mdisk) \cup mem)
      BY <3>1, RunningStore
    <3>4. View(Disk(mdisk)' \cup mem) = View(Disk(mdisk) \cup mem)
      BY <3>2, SameWithMem
    <3> QED
      BY <3>1, <3>2, <3>3, <3>4, RefineQuiet DEF KV!KVNext
  <2> QED
    BY <1>1, <2>1, <2>2, <2>3, <2>4, CallCases
<1>2. CASE Continue
  <2>1. CASE FlushAlloc \/ FlushCreate \/ FlushWrite \/ CompactCreate \/ CompactMerge
             \/ CompactReplace \/ (\E n \in ins : CompactRemove(n)) \/ CompactInstall
    <3>1. /\ pc \in (FlushSteps \ {"addFile"}) \cup CompactSteps /\ pc' # "down" /\ UNCHANGED <<wal, synced>>
      BY <2>1 DEF FlushAlloc, FlushCreate, FlushWrite, CompactCreate, CompactMerge, FlushSteps, CompactSteps,
                  CompactReplace, CompactRemove, CompactInstall, Alloc, Return, logVars
    <3>2. Disk(mdisk)' \in SUBSET Stored /\ Same(Disk(mdisk)', Disk(mdisk))
      BY <3>1, DiskSame DEF FlushAddFile, CompactSteps
    <3>3. Store' = Store
      BY <3>1, MaintenanceStep
    <3> QED
      BY <3>1, <3>2, <3>3, RefineQuiet DEF KV!KVNext, FlushSteps, CompactSteps
  <2>2. CASE ApplyWrite
    BY <1>a, <2>2, RefineApply DEF KV!KVNext
  <2> QED
    BY <1>2, <2>1, <2>2, RefineAddFile, RefineInstall, RefineClose DEF Continue, KV!KVNext
<1>3. CASE ProcessCrash \/ PowerLoss
  BY <1>3, RefineProcessCrash, RefinePowerLoss DEF KV!KVNext
<1>4. CASE UNCHANGED vars
  BY <1>4 DEF vars, KV!kvVars, Store, Recoverable, LiveDisk, SyncedLen
<1> QED
  BY <1>1, <1>2, <1>3, <1>4 DEF Next

\* An empty directory is an empty store.
LEMMA RefineInit == Init => KV!KVInit
<1> SUFFICES ASSUME Init PROVE KV!KVInit
  OBVIOUS
<1>1. Disk(mdisk) = {} /\ LiveDisk = {} /\ wal = << >> /\ pc = "down"
  BY LiveDiskIsDisk DEF Init, Disk, Nums, NewManifest
<1>2. ValidLen(wal) = 0 /\ SyncedLen = 0 /\ Prefix(wal, 0) = << >>
  <2>1. << >> \in Seq(FrameType) /\ Len(<< >>) = 0
    OBVIOUS
  <2>2. ValidLen(<< >>) = 0
    <3>1. ValidLen(<< >>) \in 0 .. Len(<< >>)
      BY <2>1, ValidLenProperty
    <3> QED
      BY <2>1, <3>1
  <2>3. Prefix(<< >>, 0) = << >>
    BY SubSeqEmpty DEF Prefix
  <2> QED
    BY <1>1, <2>2, <2>3 DEF SyncedLen, Init
<1>3. LogEntries(<< >>) = {}
  BY DEF LogEntries
<1>4. View({}) = [k \in Key |-> Tombstone]
  BY DEF View, KeysOf
<1>5. Store = View({})
  BY <1>1, <1>2, <1>3 DEF Store, Replay, recoverTail
<1>6. Recoverable = {View({})}
  BY <1>1, <1>2, <1>3, RecoverableParts
<1> QED
  BY <1>1, <1>4, <1>5, <1>6 DEF KV!KVInit

(***************************************************************************)
(* The engine implements the abstract store, for every number of keys,     *)
(* values, files and writes, every sync policy, and crashes of both kinds  *)
(* at every step: batches are atomic, an acknowledged write under SyncFull *)
(* survives, and flushes, compactions and reopenings are invisible.       *)
(* Twelve of the sixteen calls may fail in any order.  The four that may   *)
(* not are those whose errors the code loses: a frame that cannot be read  *)
(* ends the replay, an append that stops halfway leaves a torn frame       *)
(* before later ones, a write whose sync failed is in the log but not in   *)
(* the memtable, and a block that cannot be read is missing from the       *)
(* merged table.                                                           *)
(***************************************************************************)
THEOREM ImplementsStore ==
    ASSUME Faults \cap {"readLog", "append", "sync", "readInput"} = {}
    PROVE  Spec => ImplementsKVStore
<1>a. "readInput" \notin Faults /\ "append" \notin Faults /\ Faults \cap {"readLog", "append", "sync"} = {}
  OBVIOUS
<1>1. Spec => [](TypeInv /\ FreshInv /\ SeqInv)
  BY TypeInit, TypeNext, FreshInit, FreshNext, SeqInit, SeqNext, PTL DEF Spec
<1>2. TypeInv /\ TypeInv' /\ FreshInv' /\ SeqInv /\ KeepInv /\ [Next]_vars => KeepInv'
  BY <1>a, KeepNext
<1>3. TypeInv /\ TornInv /\ [Next]_vars => TornInv'
  BY <1>a, TornNext
<1>4. TypeInv /\ SeqInv /\ KeepInv /\ LogInv /\ [Next]_vars => LogInv'
  BY <1>a, LogNext
<1>5. Spec => [](KeepInv /\ TornInv /\ LogInv)
  BY <1>1, <1>2, <1>3, <1>4, KeepInit, TornInit, LogInit, PTL DEF Spec
<1>6. TypeInv /\ TypeInv' /\ SeqInv /\ KeepInv /\ TornInv /\ LogInv /\ [Next]_vars => [KV!KVNext]_(KV!kvVars)
  BY RefineNext
<1> QED
  BY <1>1, <1>5, <1>6, RefineInit, PTL DEF Spec, ImplementsKVStore, KV!KVSpec
=============================================================================
