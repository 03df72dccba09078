------------------------------- MODULE DBLock -------------------------------
(***************************************************************************)
(* Goroutines that share a DB.  Every call takes db.mu, a Go RWMutex: Get, *)
(* Stats and the like as a reader, everything that writes as the writer.   *)
(* NewIterator leaves with the read lock, and only Iterator.Close gives it *)
(* back.  A writer that waits shuts new readers out, and Unlock lets all   *)
(* the readers in that have come meanwhile.                                *)
(*                                                                         *)
(* What the calls do to log, memtable and tables is module LSM; here the   *)
(* contents are the set of keys that are present.                          *)
(***************************************************************************)
EXTENDS Integers, Sequences, FiniteSets

CONSTANTS
    Goroutine,
    Nobody,   \* no writer
    MaxKey,   \* bound: keys are ranks, and this is the highest
    Nested    \* whether a goroutine calls the DB while it has an iterator open

ASSUME GoroutineAssumption == IsFiniteSet(Goroutine) /\ Nobody \notin Goroutine
ASSUME KeyAssumption == MaxKey \in Nat \ {0} /\ Nested \in BOOLEAN

VARIABLES
    readers, \* db.mu: how many read locks are held
    writer,  \* db.mu: the writer that holds the lock or waits for the readers to leave
    pc,      \* where in its call each goroutine is
    call,    \* the call of each goroutine
    store,   \* the keys that are present
    closed,  \* db.closed
    iter,    \* the iterator of each goroutine
    from     \* history: the iterator has all keys from this one on ahead of it

muVars == <<readers, writer, pc>>
dbVars == <<store, closed>>
iterVars == <<iter, from>>
lockedVars == <<muVars, call, dbVars, iterVars>>

Keys == 1 .. MaxKey

\* Put and Delete; Write is several of them.  Flush, Compact and Sync leave the contents alone.
WriteCalls == [op : {"put", "delete"}, key : Keys] \cup [op : {"flush", "close"}, key : {0}]

ReadCalls == [op : {"get", "iter"}, key : {0}]

Returned == [op |-> "none", key |-> 0]

\* An iterator that has been closed, or has not been made yet.
NoIter == [items |-> << >>, idx |-> 0, open |-> FALSE]

DBInit ==
    /\ readers = 0
    /\ writer = Nobody
    /\ pc = [g \in Goroutine |-> "out"]
    /\ call = [g \in Goroutine |-> Returned]
    /\ store = {}
    /\ closed = FALSE
    /\ iter = [g \in Goroutine |-> NoIter]
    /\ from = [g \in Goroutine |-> MaxKey + 1]

-----------------------------------------------------------------------------
(***************************************************************************)
(* sync.RWMutex.                                                           *)
(***************************************************************************)
\* RLock, at once or behind a writer.
Read(g) ==
    /\ pc[g] = "out"
    /\ Nested \/ ~iter[g].open
    /\ \E c \in ReadCalls : call' = [call EXCEPT ![g] = c]
    /\ IF writer = Nobody
       THEN pc' = [pc EXCEPT ![g] = "reading"] /\ readers' = readers + 1
       ELSE pc' = [pc EXCEPT ![g] = "rwait"] /\ UNCHANGED readers
    /\ UNCHANGED <<writer, dbVars, iterVars>>

\* Mutant: the lock is not taken.
Write_NoLock(g) ==
    /\ pc[g] = "out"
    /\ Nested \/ ~iter[g].open
    /\ \E c \in WriteCalls : call' = [call EXCEPT ![g] = c]
    /\ pc' = [pc EXCEPT ![g] = "writing"]
    /\ UNCHANGED <<readers, writer, dbVars, iterVars>>

\* Lock: first come the other writers, then the readers.
Write(g) ==
    /\ pc[g] = "out"
    /\ Nested \/ ~iter[g].open
    /\ \E c \in WriteCalls : call' = [call EXCEPT ![g] = c]
    /\ pc' = [pc EXCEPT ![g] = "wwait"]
    /\ UNCHANGED <<readers, writer, dbVars, iterVars>>

Announce(g) ==
    /\ pc[g] = "wwait"
    /\ writer = Nobody
    /\ writer' = g
    /\ pc' = [pc EXCEPT ![g] = "drain"]
    /\ UNCHANGED <<readers, call, dbVars, iterVars>>

Enter(g) ==
    /\ pc[g] = "drain"
    /\ readers = 0
    /\ pc' = [pc EXCEPT ![g] = "writing"]
    /\ UNCHANGED <<readers, writer, call, dbVars, iterVars>>

\* Unlock: the readers that wait become readers.
Unlock(g) ==
    LET waiting == {h \in Goroutine : pc[h] = "rwait"}
    IN  /\ writer' = Nobody
        /\ readers' = readers + Cardinality(waiting)
        /\ pc' = [h \in Goroutine |->
                     CASE h = g -> "out" [] h \in waiting -> "reading" [] OTHER -> pc[h]]

-----------------------------------------------------------------------------
(***************************************************************************)
(* The calls, with the lock held.                                          *)
(***************************************************************************)
\* Get, Has, Stats, TableCount.
GetReturns(g) ==
    /\ pc[g] = "reading"
    /\ call[g].op = "get"
    /\ readers' = readers - 1
    /\ pc' = [pc EXCEPT ![g] = "out"]
    /\ call' = [call EXCEPT ![g] = Returned]
    /\ UNCHANGED <<writer, dbVars, iterVars>>

\* Every method that writes returns ErrClosed once the DB is closed.
WriteReturns(g) ==
    /\ pc[g] = "writing"
    /\ store' = CASE closed -> store
                  [] call[g].op = "put" -> store \cup {call[g].key}
                  [] call[g].op = "delete" -> store \ {call[g].key}
                  [] OTHER -> store
    /\ closed' = (closed \/ call[g].op = "close")
    /\ Unlock(g)
    /\ call' = [call EXCEPT ![g] = Returned]
    /\ UNCHANGED iterVars

\* collectMerged.  NewIterator does not look at closed, and readers that are closed yield nothing.
Merged == IF closed THEN SUBSET store ELSE {store}

\* The keys of S in the order of the merge: each stands behind those that are smaller.
InOrder(S) == [i \in 1 .. Cardinality(S) |-> CHOOSE k \in S : Cardinality({m \in S : m < k}) = i - 1]

\* An iterator a goroutine has open already is lost, and with it its lock.
NewIterator(g) ==
    /\ pc[g] = "reading"
    /\ call[g].op = "iter"
    /\ \E S \in Merged :
          iter' = [iter EXCEPT ![g] = [items |-> InOrder(S), idx |-> 0, open |-> TRUE]]
    /\ from' = [from EXCEPT ![g] = MaxKey + 1]
    /\ pc' = [pc EXCEPT ![g] = "out"]
    /\ call' = [call EXCEPT ![g] = Returned]
    /\ UNCHANGED <<readers, writer, dbVars>>

-----------------------------------------------------------------------------
(***************************************************************************)
(* The iterator, over items that NewIterator has collected.  Positions     *)
(* count from 1; 0 is the code's -1.                                       *)
(***************************************************************************)
MoveTo(g, i, k) ==
    /\ iter' = [iter EXCEPT ![g].idx = IF i \in DOMAIN iter[g].items THEN i ELSE 0]
    /\ from' = [from EXCEPT ![g] = k]
    /\ UNCHANGED <<muVars, call, dbVars>>

Using(g) == pc[g] = "out" /\ iter[g].open

SeekToFirst(g) == Using(g) /\ MoveTo(g, 1, 1)

\* sort.Search for the first key that is not smaller.
Seek(g, t) ==
    /\ Using(g)
    /\ MoveTo(g, 1 + Cardinality({i \in DOMAIN iter[g].items : iter[g].items[i] < t}), t)

Next(g) ==
    /\ Using(g)
    /\ iter[g].idx # 0
    /\ MoveTo(g, iter[g].idx + 1, iter[g].items[iter[g].idx] + 1)

\* Mutant: Close does not release the lock.
CloseIter_KeepsLock(g) ==
    /\ Using(g)
    /\ iter' = [iter EXCEPT ![g] = NoIter]
    /\ from' = [from EXCEPT ![g] = MaxKey + 1]
    /\ UNCHANGED <<muVars, call, dbVars>>

\* Iterator.Close, with its effect; a second call has none.
CloseIter(g) ==
    /\ Using(g)
    /\ readers' = readers - 1
    /\ iter' = [iter EXCEPT ![g] = NoIter]
    /\ from' = [from EXCEPT ![g] = MaxKey + 1]
    /\ UNCHANGED <<writer, pc, call, dbVars>>

-----------------------------------------------------------------------------
\* What a goroutine in a call, or in want of the lock, does next.
Proceed(g) == Enter(g) \/ GetReturns(g) \/ WriteReturns(g) \/ NewIterator(g)

DBNext ==
    \E g \in Goroutine :
        \/ Read(g) \/ Write(g)
        \/ Announce(g) \/ Proceed(g)
        \/ SeekToFirst(g) \/ Next(g) \/ CloseIter(g)
        \/ \E t \in Keys : Seek(g, t)

(***************************************************************************)
(* Goroutines are scheduled fairly and calls end; sync.Mutex, for which    *)
(* the writers queue, starves nobody; a caller closes its iterators.       *)
(***************************************************************************)
DBSpec ==
    /\ DBInit
    /\ [][DBNext]_lockedVars
    /\ \A g \in Goroutine :
          /\ SF_lockedVars(Announce(g))
          /\ WF_lockedVars(Proceed(g))
          /\ WF_lockedVars(CloseIter(g))

-----------------------------------------------------------------------------
\* The keys an iterator will come to, the one it is on included.
Ahead(g) ==
    LET it == iter[g]
    IN  {it.items[i] : i \in {j \in DOMAIN it.items : it.idx # 0 /\ j >= it.idx}}

(***************************************************************************)
(* An iterator shows the store as it is at every moment until it is closed *)
(* (NewIterator, Iterator.Seek, Iterator.Next, Iterator.Close): whatever   *)
(* the other goroutines call meanwhile, it has exactly the keys that are   *)
(* now present ahead of it, from where it was placed on.                   *)
(***************************************************************************)
IteratorIsCurrent ==
    ~closed => \A g \in Goroutine : iter[g].open => Ahead(g) = {k \in store : k >= from[g]}

\* Every call returns, readers and writers alike, as long as iterators are closed: a writer is not
\* starved by readers that keep coming, nor a reader by writers (DB.NewIterator, Iterator.Close).
CallsReturn == \A g \in Goroutine : pc[g] # "out" ~> pc[g] = "out"
=============================================================================
