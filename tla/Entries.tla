------------------------------ MODULE Entries ------------------------------
(***************************************************************************)
(* The data every layer of the store shares.  An operation writes a value  *)
(* or a tombstone under a key; the write-ahead log gives it a sequence     *)
(* number and from then on it is an entry.  The memtable, the tables and   *)
(* the log all hold sets of entries, and for one key the entry with the    *)
(* highest sequence number decides.                                        *)
(***************************************************************************)
EXTENDS Integers, Sequences, FiniteSets

CONSTANTS
    Key,        \* the keys written in this instance
    Value,      \* the values a Put may store
    Tombstone,  \* what a Delete writes; a reader sees it as "not found"
    EmptyKey    \* the key of length 0, which only WriteBatch lets through; it need not be in Key

ASSUME TombstoneAssumption == Tombstone \notin Value

Op == [key : Key, val : Value \cup {Tombstone}]

Entry == [key : Key, val : Value \cup {Tombstone}, seq : Nat]

KeysOf(E) == {e.key : e \in E}

SeqsOf(E) == {e.seq : e \in E}

\* The largest of a finite set of naturals, 0 when there is none.
Highest(S) == IF S = {} THEN 0 ELSE CHOOSE m \in S : \A n \in S : n <= m

(***************************************************************************)
(* The newest version of every key of E: what a memtable keeps, what a     *)
(* merge writes.                                                           *)
(***************************************************************************)
Top(E) == {e \in E : \A f \in E : f.key = e.key => f.seq <= e.seq}

\* What a reader of the entries E finds: "never written" and "deleted" look alike.
View(E) ==
    [k \in Key |->
        IF k \in KeysOf(E)
        THEN (CHOOSE e \in E : e.key = k /\ \A f \in E : f.key = k => f.seq <= e.seq).val
        ELSE Tombstone]
=============================================================================
