# TLA+ verification of go-prefix-scan

`go-prefix-scan` is an embedded LSM key-value library in Go: writes go to a
write-ahead log and a memtable, the memtable is flushed to sorted tables, a
manifest lists the live tables, and compaction merges them. This directory holds
TLA+ models of its parts, the TLC runs that check them on small instances, and
TLAPS proofs of the properties that matter most for all instances.

## 1. Inventory

| Part | State | Operations | Correct when |
|---|---|---|---|
| `lsmkv` (`db.go`) | memtable, open readers `db.tables`, `closed`, options | Open, Put, Delete, Write, Get, iterators, Sync, Flush, Compact, Close | it behaves like a map; batches are atomic; acknowledged writes survive as the sync policy says; maintenance is invisible |
| `internal/wal` | log file, `nextSeq`, `appends` | append, sync, recover, replay, reset, `SetNextSeq` | recovery keeps every whole synced frame; numbers are never reused |
| `internal/manifest` | `State` in memory, MANIFEST on disk | `AllocFileName`, `AddFile`, `Replace` | names only finished tables; numbers are fresh |
| `internal/memtable` | skip list: one entry per key; size and byte counters; iterators that point into it | set, get, snapshot, clear, seek, next | the highest sequence number of a key stays; a walk misses nothing |
| `internal/sstable` | table files | create, add, finish, abort, open, get, iterate | a finished table yields what was added, tombstones too, wherever blocks and restarts fall |
| `internal/compact` | none | plan, merge | the newest version of every key stays |
| `internal/filelock` | the LOCK file | acquire, remove stale, release | one process at a time; no lock stays for ever |
| `internal/prefixscan` | list and position | seek, key | seek stops at the right key |
| `bloomx` | bits of a filter | add, may contain, build | never says that a stored key is absent |
| `varintx`, `byteutil` | none | pure functions | what the tables are written with reads back the same |
| `crc32x` | none | pure functions | not modelled, see section 7 |

How the parts interact: every mutating call of `lsmkv.DB` takes `db.mu` and calls,
in order, the log, the memtable and, when the memtable has grown or the caller asks
for it, the tables, the manifest and the log again. The disk is the only state
that outlives the process: the log, the tables, MANIFEST and LOCK. Inside the process
one mutex serialises the calls; the exceptions are iterators, which keep its read lock
until they are closed, and memtable iterators, which keep nothing. Most of what is
hard is where a crash or an error cuts a sequence of steps, what the two copies of the manifest
then say, and what recovery makes of the rest. Between processes the only
synchronisation is the LOCK file, and there the interleaving of system calls is
the problem. `PROJECT.json` lists each such hazard at its line.

## 2. Modules

| Module | Models |
|---|---|
| `Entries` | keys, values, tombstones, entries; which of several versions a reader sees |
| `MemTable` | the memtable as a set with one entry per key |
| `WAL` | the log as a sequence of frames, whole or torn; recovery and replay |
| `Manifest` | the manifest's state and its updates in memory |
| `SSTable` | a table file: absent, unfinished or finished, with its entries |
| `Compact` | the choice of inputs and the result of a merge |
| `LSM` | the engine: composes all of the above, with crashes and failing calls |
| `SkipList` | the skip list behind `MemTable`: nodes, levels, search, counters, iterator |
| `Varint` | variable-length numbers, at a scaled width |
| `Bloom` | the filter of a table, over any pair of hashes |
| `TableFile` | inside a table: blocks, restarts, prefixes, index, Get and Iterator |
| `Merge` | inside `MergeFiles`: the heap, the Writer, and readers of the result |
| `MCMerge` | inputs of a merge for TLC |
| `DBLock` | goroutines, `db.mu` as an RWMutex, and the iterators that keep it |
| `KVStore` | the abstract specification: what the library promises |
| `LSMProperties` | the properties of `LSM` and the refinement mapping to `KVStore` |
| `MCLSM` | instances of `LSM` for TLC |
| `FileLock` | processes competing for the LOCK file, one system call at a time |
| `PrefixScan` | the loop of `prefixscan.Iter.Seek` |
| `OperatorProofs` | lemmas on `Highest`, `ValidLen`, `Prefix`, `recoverTail`, `LogEntries`, `Covers`, on folds, on what a function repeated leads to ... |
| `LSMProofs` | types, fresh names, listed tables, torn frames, syncs, what a flush leaves, sequence numbers |
| `LSMStoreProofs` | maintenance, iterators and Get; `LSM` implements `KVStore` |
| `FileLockProofs` | mutual exclusion of the LOCK file |
| `DBLockProofs` | iterators and `db.mu` |
| `SkipListProofs` | contents, search, counters and iterator of the skip list |
| `TableFileProofs` | keys, numbers, the filter, the bytes of a block, the Writer, Get and Iterator of a table |
| `MergeProofs` | the merge, and what a reader of its table finds |

### The engine

`LSM` has one variable for each thing on disk (`wal`, `synced`, `file`, `mdisk`),
one for each field of the process that matters (`mem`, `nextSeq`, `appends`, `man`,
`tables`, `shut`, `closed`, `ro`) and a program counter `pc` for the operation that
holds `db.mu`, with its local variables `cur` (the number of the table it writes)
and `ins` (the inputs of a compaction). An operation is split where a crash can
make a difference, so each step changes the disk at most once:

* Put, Delete, Write: `AppendFrame`, then `ApplyWrite` (sync if due, update the
  memtable, perhaps go on to a flush);
* `flushLocked`: `FlushAlloc`, `FlushCreate`, `FlushWrite`, `FlushAddFile`,
  `FlushInstall`;
* `Compact`: `CompactBegin`, `CompactCreate`, `CompactMerge`, `CompactReplace`,
  `CompactRemove` once per input in any order, `CompactInstall`;
* `Open`, `OpenFail` (which leaves no process), `OpenAbandon` (the replay fails at its end, and
  `closeUnlocked` flushes what has been replayed before Open returns the error);
* `Sync`, `Close`, `CloseFinish`.

Get and the iterator are the operators `Get`, `GetFails` and `Iterate`: they change
nothing and hold `db.mu` for reading, so they see states with `pc = "idle"`.

*Crashes.* `ProcessCrash` may happen at every step and keeps everything that was
written; while a frame is being written it may leave half of it (`Torn`).
`PowerLoss` keeps what was synced and any prefix of the rest of the log, perhaps
followed by half a frame. Tables and MANIFEST are synced before anything depends
on them; a rename is taken as durable.

*Failing calls.* Each call to the operating system whose error the code handles has
a site name; a call fails if its site is in `Faults`, at most `MaxFaults` times. A
failing step does what the code does with the error: the manifest's memory is
already changed when its persist fails (`Alloc`, `FlushAddFile`,
`CompactReplace`), an aborted table is removed, readers that were closed stay in
`db.tables`, an input block that cannot be read silently ends the input. Keys have no order
in the engine, so what is read of that input is any part of it. A failed append has used
up its sequence numbers; it has written half a frame (`append`) or nothing (`refuse`). A flush
whose reset fails leaves the log as it was (`truncate`), or empties it and returns an error
all the same (`resetSync`).

A frame of the log that cannot be read (`readLog`) ends the scan or the replay as a
torn one does: Open succeeds, and the scan truncates the log there. When the replay
cannot seek back to the end of the log (`seekLog`), Open fails.

*Abstractions.* The memtable is a set (`SkipList` shows why that is enough); its size
in bytes is not modelled, so any update may cause a flush; a file name is its number;
a table is the set of its entries (`Merge` shows why); sequence numbers do not wrap.
A batch may give the key of length 0 as nil or as an empty slice, and decoding the log makes it
nil (`wal.go:477`, `522`); the memtable takes both for one key and keeps what it got first,
and `Writer.Add` refuses nil only. `EmptyKey` is that key, and a flush of it may be refused or not.

### The abstract specification

`KVStore` knows a map (`store`), the set of maps a crash may bring back
(`recoverable`) and whether a process runs. A write first widens `recoverable`
(`Attempt`), then becomes visible (`Acknowledge`); under SyncFull acknowledging it
makes it the only recoverable map. `Stop` picks one of the recoverable maps,
`Persist` narrows the choice without changing what is visible. Everything else -
flush, compaction, reopening - must be a stuttering step. `LSMProperties` maps
`store` to the newest versions in the listed tables and in the memtable (or the
replayable log when no process runs), and `recoverable` to the views of the listed
tables with each admissible prefix of the log.

### The memtable

`SkipList` has the nodes in a heap that only grows, so that a node that Clear has
dropped stays for an iterator that is on it. A method of the list holds its mutex
from start to end and is one step; an iterator keeps only a pointer. Two history
variables carry the comparison: `sent` is what `MemTable` would hold after the same
calls, `due` the keys an iterator has yet to come to. `NewIterator` says that it copies
entries for safety; it does not, and it stands on the head, where `Valid` already holds.

### Tables and merges

`TableFile` keeps blocks as bytes, since that is where prefixes, restarts and varints
meet; index and footer are kept as they are decoded. `Varint` has the base and the
length as constants: with base 4 and length 3 the numbers 0 .. 31 take one, two and
three bytes, and 31 is the largest number, as 2^64 - 1 is in the code. `Merge` takes the
inputs' entries through the heap into a Writer one by one, with every choice of
`Options`, finishes the table, and then lets a reader make iterators, seek and
walk. The inputs are tables as the engine has them: a table has a key once, and a sequence
number names one write of a key (`InputAssumption`, which `SeqsIdentifyWrites` and
`ListImplementsMemTable` justify). Its reference is `MergeFiles` of `Compact`, the set of newest versions, which is
what the engine uses.

### Goroutines

`DBLock` has `db.mu` as Go implements it: a writer first queues for the writers' mutex,
then announces itself, which shuts out new readers, then waits for the readers to leave;
Unlock admits every reader that waits. The contents of the store are the keys that are
present. `Nested` says whether a goroutine may call the DB while it has an iterator open.
After Close an iterator may show less than the store: `NewIterator` does not look
at `closed`, and closed readers yield nothing.

### The directory lock

`FileLock` has the lock file (creator, and whether it is older than StaleAge), one
program counter per process, and the history variable `stolen`: whether the file of a
living owner has been removed as stale. `Ages` says whose lock files may grow old: of
the dead only, or of anybody.

## 3. Runs

Passing runs of the engine (module `MCLSM`):

| Run | Instance | Checks |
|---|---|---|
| `MCBatch` | SyncBatch with N = 2, 2 keys, a batch over both, both crashes | `SeqIdentifiesWrite`, `UnsyncedIsBounded`, `ImplementsKVStore`, `FlushEmptiesMemtable` |
| `MCLevels` | no crash, 5 files: compactions over both levels; one failure of AddFile, of opening a new table, of the reset of the log, or of Replace | `GetShowsStore`, `GetMatchesIterator`, `MaintenanceKeepsStore` |
| `MCErrors` | SyncFull, two failing calls among those the code recovers from, losses of power | `SyncedFramesAreReplayed`, `ManifestNamesWholeTables`, `IteratorShowsStore`, `GetMatchesIterator`, `ImplementsKVStore` |
| `MCAnyError` | two failing calls among all 16, both crashes, a batch with the key of length 0 | `TypeOK`, `OutputNameIsFresh`, `SeqIdentifiesWrite` |

Passing runs of the parts:

| Run | Instance | Checks |
|---|---|---|
| `MCSkipList` | 3 keys, 2 versions, 2 levels, 5 nodes, heads included | `ImplementsMemTable`, `SearchIsExact`, `CountersMatch`, `WalkVisitsAll` |
| `MCMerge` | 2 inputs with any versions of 5 keys that are prefixes of each other, 3 block sizes, tombstones kept or dropped | `GetFindsNewest`, `IteratorFollowsTable`, `FooterMatches` |
| `MCDBLock` | 3 goroutines, 2 keys, fairness | `IteratorIsCurrent`, `CallsReturn`, no deadlock |
| `MCLock` | 3 processes, 3 deaths, fairness, any lock may grow old | `ExclusiveUnlessStolen`, `DeadLockIsRemoved` |

Runs that find a disagreement between the code and what it says of itself (quoted
in `PROJECT.json` under "findings"):

| Run | Shows |
|---|---|
| `MCTornFrame` | a failed append leaves half a frame; later synced frames behind it are cut off at the next Open |
| `MCStaleGet` | under SyncBatch, after a loss of power between AddFile and Reset, Get and the iterator disagree |
| `MCLockRace` | two processes that find the same stale lock both get it |
| `MCSeekInclusive` | Seek skips a key equal to its argument |

The same models show more when the constants of a run are changed:

* `"addFile"` added to the `Faults` of `MCErrors` violates `ManifestNamesWholeTables`: a
  failed AddFile removes the table but has appended it to the manifest's state, which the
  next update writes to MANIFEST, after which Open fails.
* `"process"` added to its `Crashes` violates `GetMatchesIterator`, as in `MCStaleGet`, under
  SyncFull: a process that dies while it appends leaves a frame that is whole but not
  synced; the next process replays and flushes it, and power is lost before the reset.
* `"replace"` added to the `Faults` of `MCErrors` violates `IteratorShowsStore`: Compact
  closes its readers before the manifest accepts the replacement, and when it does not
  `db.tables` keeps closed readers, whose keys the iterator leaves out. Get returns an error
  for those keys: `GetShowsStore` holds in `MCLevels` with the same failure.
* `"readInput"` in the `Faults` of `MCLevels` violates
  `MaintenanceKeepsStore`: an unreadable block ends an input of the merge silently, and
  the input is then removed.
* `EmptyKeyBatch` as the `Batches` of `MCBatch` (with `EmptyKey` in `Key`) violates
  `FlushEmptiesMemtable`: a batch with a nil key is accepted and logged, the table writer
  refuses the key, and from then on no flush succeeds. A key given as an empty slice can be
  flushed until the process restarts and finds it as nil in the log.
* `Ages = "any"` in `MCLockRace` violates `MutualExclusion` in a second way: nothing renews
  the file of a lock that is held longer than StaleAge, and `maybeRemoveStale` does not ask
  whether its owner is dead, as the comment at `lock.go:45` has it.
* `Nested = TRUE` in `MCDBLock` ends in a deadlock: a goroutine that writes with an
  iterator open waits for itself, and all later calls wait for it.

Two smaller points met on the way are not stated as properties. `Log.appends` restarts
at Open, so `UnsyncedIsBounded` counts the frames of one process; what an earlier one
left unsynced comes on top. And `Compact` compares `CompactThreshold`, documented as a
number of level-0 tables, with the number of all tables.

*Bounds.* `MaxSeq` bounds the operations written, `MaxFile` the tables allocated,
`MaxFaults` the failing calls. Three sequence numbers suffice for a version, its
successor and one that overtakes both; three file numbers for two flushes and the
compaction of their tables, five for a second compaction over both levels. One
value suffices because versions are told apart by their numbers and a value from a
tombstone. `Room` keeps an operation from starting when the numbers are used up,
so no operation is cut off in its middle by a bound. Behaviours end when the bounds
are used up and the store is closed or idle: deadlock is not checked in the runs of
the engine for that reason. The other runs check deadlock; in
`MCMerge` that shows too that the Writer never refuses an entry for its order.

In `MCSkipList` five nodes are three keys, their head and the head after one Clear,
or fewer keys and more of them; two levels make every difference between a node that is
on an upper level and one that is not. In `MCMerge` the keys are chosen so that a key is
a prefix of the next, shares a part with it, or nothing; a restart every two entries
and blocks of one, of two or three, and of all entries put the boundaries everywhere.
The hashes collide and wrap around. In `MCDBLock` three goroutines are a reader with an
iterator, a writer that waits for it and a call that waits behind both.

*View.* The runs use the view `LiveView`: states that differ only in the contents
of table files to which neither copy of the manifest, nor a reader, nor the
operation in progress refers count as one. No action or property reads such
contents (a new table is created empty first). There is no symmetry: the batches name their keys.

*Fairness.* The engine is checked for safety only: its operations are straight-line code under
one mutex, and that the mutex comes free is a matter of `DBLock`. `FairLockSpec` lets time pass and
every process go on with the attempt it has begun and try again, as the retry loop
of `Acquire` does until its deadline; nobody is obliged to release. `DBSpec` has weak
fairness of a goroutine inside a call and of closing an iterator, which is the caller's
part of the contract, and strong fairness of getting the writers' mutex: Go's
sync.Mutex hands itself to a waiter that has waited for long.

## 4. Proofs

| Theorem | Assumption | Says |
|---|---|---|
| `TypeCorrect` | - | `Spec => []TypeOK` |
| `FreshNames` | - | `Spec => []OutputNameIsFresh` |
| `SeqsIdentifyWrites` | - | `Spec => []SeqIdentifiesWrite` |
| `ListedTablesOpen` | AddFile does not fail | `Spec => []ManifestNamesWholeTables` |
| `SyncedFramesSurvive` | no append fails half way | `Spec => []SyncedFramesAreReplayed` |
| `UnsyncedBounded` | no append and no sync fails | `Spec => []UnsyncedIsBounded` |
| `FlushesEmptyMemtable` | no call of a flush fails, no key of length 0 | `Spec => FlushEmptiesMemtable` |
| `MaintenanceIsInvisible` | no input block is unreadable | `Spec => MaintenanceKeepsStore` |
| `IteratorsShowStore` | nor does opening the output or Replace fail | `Spec => []IteratorShowsStore` |
| `GetsMatchIterator` | no frame is unreadable, no append fails half way; if power can be lost: SyncFull, no other crash, no sync fails | `Spec => []GetMatchesIterator` |
| `GetsShowStore` | those of `GetsMatchIterator`, and no input block is unreadable | `Spec => []GetShowsStore` |
| `ImplementsStore` | no frame or input block is unreadable, no append or sync fails | `Spec => ImplementsKVStore` |
| `LockExcludes` | - | `LockSpec => []ExclusiveUnlessStolen` |
| `IteratorsAreCurrent` | - | `DBSpec => []IteratorIsCurrent` |
| `ListImplementsMemTable` | - | `SkipSpec => []ImplementsMemTable` |
| `SearchesAreExact` | - | `SkipSpec => []SearchIsExact` |
| `CountersAgree` | - | `SkipSpec => []CountersMatch` |
| `WalksVisitAll` | - | `SkipSpec => []WalkVisitsAll` |
| `GetsFindNewest` | - | `MergeSpec => []GetFindsNewest` |
| `IteratorsFollowTable` | - | `MergeSpec => []IteratorFollowsTable` |
| `FootersMatch` | - | `MergeSpec => []FooterMatches` |
| `NumberReadsBack` | - | `DecodeUint64` is the inverse of `EncodeUint64` |
| `FilterHasKeys` | - | a filter never reports a key absent it was built with |

They hold for all keys, values, batches, policies, bounds and sets of failing calls
and crashes; the assumptions on constants are those of the modules (`MaxSeq` etc.
are naturals, batches are nonempty sequences of operations, there are finitely many
goroutines, a key of the skip list is a positive rank and a value its length). For a merge they
are, beside `InputAssumption`, that keys and values are strings of bytes whose length a varint
can hold (`ByteAssumption`; in Go a length is an int, which does), that a block size and a restart
interval are positive (`WriterOptions.normalize` sees to that). Nothing is assumed of the
hashes; the base of the varints and their length, the sizes of filters and blocks are any.
An assumption in the table excludes errors after which the property is false, and TLC shows that it is needed: each call or crash that one of them excludes,
allowed again in a run (for `readInput` in `IteratorsShowStore` and `GetsShowStore` together with
`openSst`; for `sync` in `GetsMatchIterator` and `GetsShowStore` together with `alloc`, three failures in all), gives a
counterexample. Where this is a disagreement with the code's own
words it is one of the findings or of the points of section 3.

*Types.* `TypeOK` is not inductive: the numbers that `ApplyWrite` counts back from
`nextSeq` are in range only because they are those of the last frame of the log
(`AppendedFrame`), a flush finds a file number because it started with one left
(`FlushHasRoom`), and Open starts without closed readers (`NoReaders`).

*Fresh names.* `FreshInv` orders the numbers: NextFile on disk is at most NextFile in
memory, all listed tables lie below the NextFile of their copy of the manifest, and
every file, every reader and the number in hand lie below NextFile on disk. So a
number that is taken from memory is above everything that exists, even when
earlier numbers were lost with a failed persist or a crash.

*Sequence numbers.* `SeqInv` looks at everything stored anywhere: the memtable, the whole
log, also what stands behind a torn frame, and every file that a manifest, a reader or the
operation in progress refers to. No two entries of it share a number, none has a number above
`nextSeq` while the process runs, and the MaxSeq in the manifest bounds its table. The last
part is what Open needs: the number it goes on from is the highest of log and manifest.

*Listed tables.* `WholeInv` says that both copies of the manifest list only finished
tables, that the table in hand is in neither list until it is finished, and that the
inputs of a compaction are in neither list when their removal begins. It uses
`FreshInv`: the output of a compaction is never one of its inputs.

*Torn frames.* `TornInv`: a torn frame is the last one, and there is none while the
process runs, because Open has truncated it.

*Syncs.* `SyncInv` compares `Log.appends` with the log: of the frames counted, only those
since the last multiple of SyncEveryN may be unsynced. A flush that fails to truncate the
log has synced nothing, and the count goes on.

*Maintenance.* What is compared are sets of entries, by the newest version of each key.
`Covers(A, B)` says that adding `B` to `A` changes nothing a reader sees, `Same` that each
covers the other; `OperatorProofs` has their algebra. `KeepInv`: the two manifests look the
same, although they may list different tables after a failed update; they cover whatever a
reader has open; and what a compaction lists is the newest of what it takes away.
`ReadInv` is the converse for readers: the memtable and the tables in `db.tables` cover
what is listed. A table that could not be opened after its flush is covered because its
entries stay in the memtable. `ShutInv` says that a reader is closed only while a compaction
replaces it: the iterator needs it, since it takes a closed reader for an empty table; Get does not,
since it returns the error.

*Get.* It takes what the memtable has, and only if that is nothing goes through all tables for
the highest sequence number. So the tables need no order among them, but the memtable must not
hold a version older than one in a table (`MemIsNewest`). `GetFinds` puts this into terms of
`Covers`, once for the comparison with the iterator and once for that with the store. After a restart the memtable is what the log holds, which
makes this a property of log and tables: what a table holds is in the log or older
than all of it (`OldOrLogged`). A log that loses its end breaks that, unless the frames that can
be lost are in no table (`NothingIsLost`).

*The refinement.* `LogInv`: while the process runs, memtable and listed tables cover what has
been applied of the log, the memtable holds nothing else, and the frame not yet applied is not
synced and has the highest numbers. With `KeepInv` this gives, for every step, the step
of `KVStore` it implements: an append is `Attempt`, `ApplyWrite` is `Acknowledge`, a sync or a
finished flush `Persist`, a crash `Stop`, the rest stutters. The work is in the
`recoverable` maps: each is the view of the listed tables with a prefix of the log, and
listing a table, resetting the log and losing its end change both parts.

*The lock.* As long as nothing was stolen, a process between creating the file and
removing it owns the file.

*Goroutines.* `LockInv`: the count of the mutex is at least the number of goroutines in a
reading call plus the number of open iterators, and it is 0 while a writer is in. (It may
be higher: an iterator that is overwritten keeps its lock.) So there is no open iterator
when the store changes, and `SnapshotInv` follows: an open iterator's items are the
keys that are present now, in order. That `sort.Search` and `Next` place it where the keys
from `from[g]` on begin rests on lemmas about sorted sequences (`InOrderProperty`,
`SearchPlace`); their induction is replaced by counting, with the pigeonhole theorem
of the library.

*The skip list.* `ShapeInv` says where every pointer leads: on each level of a node to the node
of its own list that is next by key among those on that level, or to Nil when there is none. A list
is the run of nodes from one head to the next in the order of allocation (`Peer`), so this holds
for the lists that Clear has dropped as well, in which an iterator may still stand. `Insert` keeps it
because the search leaves each level at the last smaller node (`IsLast`, `PathFacts`). That the
recursive functions of the model have values at all is shown by giving them: what is reached from a
node is the least set that its pointers do not lead out of (`Reach`), and what the search computes on a
level follows by descending from the greatest key at which it would not (`KeyInduction`). The fold in
`CountersMatch` is a count: `AllBytes` has n pairs for an entry of n bytes, and its cardinality satisfies
the equation of the fold whatever element the fold picks (`SumIsCount`, by `PartInduction`).
`WalkInv` keeps for every key that is due a node of the iterator's list that has it and lies ahead.

*Bytes.* `byteutil.Compare` is shown to be a total order of all strings. What a recursive encoder
or decoder computes for every input needs induction, which no prover here does over data; as
for the skip list it is replaced by giving the value. `Encoded(x)` lists the digits of x, with as
many as its length demands, and satisfies the equation of `EncodeUint64`, and as a lesser number is called at
each step there is only one such function (`EncodeIs`); the fold of the decoder sums the digits
(`DigitsFold`, `DigitSum`). The filter is the fold of `FilterAdd`, and has the bits of every key it
went through (`BuildFolds`).

*A table.* Entry j of a list is at `off[j]` of its block and takes `sh[j]` bytes of its key from
the entry before it; `bd[b]` entries come before block b. `Laid` says that the bytes of
a block are just these entries, and that `sh[j]` bytes of two keys in a row agree;
`RestartsAt` that a restart is the place of an entry stored whole, the first of them that of the block.
Given this, `blockIter.Next` reads entry after entry (`BlockReads`), the binary search over restarts
stops at one that is not behind the target (`SearchRestarts`), the loop behind it at the
first key not smaller (`BlockSeeks`), and the binary search over blocks at the one that has it
(`SearchIndexIs`). `TableGets`, `IterNexts` and `IterSeeks` put them together for the reader.
`WriterLaid` is the same for a Writer: the blocks of its index and the buffer are the entries
added so far. Add keeps it, with and without a restart, with and without a flush of the block
(`WriterLaidAdd`), and Finish makes the table of it (`FinishLaid`).

*The merge.* `MergeInv` compares what is left, in the heap and in the inputs, with what was written: the
newest versions of the keys that are left, but for the last key taken, are the rest of the
list of all that is to be written (`Progress`). That one of them is the next in the list
when it is taken needs that every input has its least entry in the heap (`Queue`), so that the least
of the heap is the least of all (`PopIsLeast`). When the heap is empty everything is written.
`TableInv` adds the layout: the Writer has what was written, and later the iterator of the
table is on the entry that is due (`Reads`). The numbers `off`, `sh` and `bd` are not in
the state; the invariant says that there are some.

Only model-checked: all liveness (`CallsReturn`, `DeadLockIsRemoved`;
fairness and ENABLED are out of the prover's reach), and that no deadlock occurs in the runs that
check it. Every safety property of every passing run is proved.

## 5. Plan

1. Done: the engine over abstract parts, the lock, the scan; types, fresh names,
   listed tables, torn frames, mutual exclusion proved.
2. Done: the parts in detail, each compared with its abstract module: skip list, table
   files with filter and varints, merge; goroutines and iterators; read errors in recovery.
3. Done: proofs of every safety property of the engine and of the refinement of `KVStore`, of
   the iterators under `db.mu`, and of the skip list.
4. Done: `Merge`: that the merge hands the newest versions to the Writer in key order, and
   what Get and the iterator find in the table.
5. Open: the steps that section 7 leaves out, first of all a MANIFEST whose rename is lost.

## 6. Correspondence

`PROJECT.json` maps each definition to the lines it models and lists, for each
property, a mutant of the code's behaviour that violates it. Mutants are defined
next to the definition they replace and named after it.

## 7. Not modelled

* `crc32x`: of a checksum the models use that half a frame is recognised as such, which
  is a matter of probability. The hashes of the filter, made from it, are a parameter.
* The encodings of MANIFEST (JSON and binary), of the filter, of a table's index and
  footer, and of the payload of a frame: pure conversions, of which an undamaged file needs
  only that they read back what was written.
* The rest of `varintx` (signed numbers, streams), `bloomx` (Merge, Clone, estimates) and
  `byteutil` (fixed-width numbers, buffers and their pool): the store does not call it.
* A rename of MANIFEST, or the name of a new log, lost with the power: the code syncs the
  directory after the rename, without looking at the result, and the model takes the
  sync as done.
* The end of `Reset`: its truncation and its Sync are one step, which may report an error of
  either. Power lost between the two finds the log as it was or empty, which the states before
  and after the step have; that a log whose Sync has failed comes back later is left out.
* A block that a reader cannot read: the iterator of the store ends its walk over that table
  without an error (`db.go:587`-`592`), Get returns one. The files that readers have open are taken to be
  readable; a merge reads through readers of its own and may fail (`readInput`).
* An Open that fails before the tables are opened: it has changed at most the end of the
  log, as `OpenFail` does. A frame with a right checksum and a payload that cannot
  be decoded: the log has no such frame.
* The accessors of a memtable iterator, which read an entry without the list's lock:
  the store uses Snapshot instead.
* Stats, path helpers and unused functions (`PickBySize`, `ValidateSorted`, `SetLogSeq`,
  `AscendRange`) change no state of the store.
