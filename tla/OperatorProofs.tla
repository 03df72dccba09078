--------------------------- MODULE OperatorProofs ---------------------------
(***************************************************************************)
(* Facts about the operators the engine is built from, for every argument. *)
(***************************************************************************)
EXTENDS MemTable, WAL, Manifest, SSTable, Compact, SequenceTheorems, FiniteSetTheorems,
    WellFoundedInduction, TLAPS

\* Every non-empty set of naturals has a least element.
LEMMA LeastNatural ==
    ASSUME NEW T \in SUBSET Nat, T # {}
    PROVE  \E x \in T : \A y \in T : x <= y
<1> DEFINE R == OpToRel(<, Nat)
<1>1. IsWellFoundedOn(R, Nat)
  BY NatLessThanWellFounded
<1>2. \A x, y \in Nat : y < x => <<y, x>> \in R
  BY DEF OpToRel
<1> HIDE DEF R
<1>3. PICK x \in T : \A y \in T : ~(<<y, x>> \in R)
  BY <1>1, WFMin
<1>4. ASSUME NEW y \in T PROVE x <= y
  <2>1. x \in Nat /\ y \in Nat
    BY <1>3
  <2>2. ~(y < x)
    BY <1>2, <1>3, <2>1
  <2> QED
    BY <2>1, <2>2
<1> QED
  BY <1>3, <1>4

\* Every bounded set of naturals that is not empty has a greatest element.
LEMMA GreatestNatural ==
    ASSUME NEW n \in Nat, NEW S \in SUBSET (0 .. n), S # {}
    PROVE  \E x \in S : \A y \in S : y <= x
<1> DEFINE T == {n - s : s \in S}
<1>1. T \in SUBSET Nat /\ T # {}
  <2>1. \A s \in S : n - s \in Nat
    OBVIOUS
  <2> QED
    BY <2>1
<1>2. PICK t \in T : \A u \in T : t <= u
  BY <1>1, LeastNatural
<1>3. PICK x \in S : t = n - x
  OBVIOUS
<1>4. \A y \in S : y <= x
  BY <1>2, <1>3
<1> QED
  BY <1>4

\* Every finite set of naturals that is not empty has a greatest element.
LEMMA GreatestOfFinite ==
    ASSUME NEW S \in SUBSET Nat, IsFiniteSet(S), S # {}
    PROVE  \E x \in S : \A y \in S : y <= x
<1> DEFINE A(k) == {m \in S : m > k}
           c == [k \in S |-> Cardinality(A(k))]
           T == {c[k] : k \in S}
<1>1. \A k \in S : IsFiniteSet(A(k)) /\ c[k] \in Nat
  BY FS_Subset, FS_CardinalityType
<1>2. ASSUME NEW k \in S, NEW l \in S, l > k PROVE c[l] < c[k]
  <2>1. A(l) \in SUBSET A(k) /\ l \in A(k) /\ l \notin A(l)
    <3>1. k \in Nat /\ l \in Nat
      OBVIOUS
    <3>2. \A m \in S : m \in Nat /\ (m > l => m > k) /\ ~(l > l)
      BY <1>2, <3>1
    <3> QED
      BY <1>2, <3>2
  <2> QED
    BY <1>1, <2>1, FS_Subset
<1>3. T \in SUBSET Nat /\ T # {}
  BY <1>1
<1>4. PICK t \in T : \A u \in T : t <= u
  BY <1>3, LeastNatural
<1>5. PICK x \in S : t = c[x]
  OBVIOUS
<1>6. ASSUME NEW y \in S PROVE y <= x
  <2>1. c[x] <= c[y] /\ c[x] \in Nat /\ c[y] \in Nat
    BY <1>1, <1>4, <1>5
  <2>2. y > x => c[y] < c[x]
    BY <1>2
  <2>3. x \in Nat /\ y \in Nat
    OBVIOUS
  <2> HIDE DEF c
  <2> QED
    BY <2>1, <2>2, <2>3
<1> QED
  BY <1>6

\* Highest of a bounded set of naturals is one of them, or 0, and no member is higher.
LEMMA HighestProperty ==
    ASSUME NEW n \in Nat, NEW S \in SUBSET (0 .. n)
    PROVE  /\ Highest(S) \in 0 .. n
           /\ \A s \in S : s <= Highest(S)
<1>1. CASE S = {}
  BY <1>1 DEF Highest
<1>2. CASE S # {}
  <2>1. \E m \in S : \A s \in S : s <= m
    BY <1>2, GreatestNatural
  <2>2. Highest(S) \in S /\ \A s \in S : s <= Highest(S)
    BY <1>2, <2>1 DEF Highest
  <2> QED
    BY <2>2
<1> QED
  BY <1>1, <1>2

\* scanValidPrefix stops somewhere: after the last frame or right before the first torn one.
LEMMA ValidLenProperty ==
    ASSUME NEW F, NEW w \in Seq(F)
    PROVE  /\ ValidLen(w) \in 0 .. Len(w)
           /\ \A i \in 1 .. ValidLen(w) : w[i] # Torn
           /\ ValidLen(w) = Len(w) \/ w[ValidLen(w) + 1] = Torn
<1> DEFINE P(n) == /\ \A i \in 1 .. n : w[i] # Torn
                   /\ n = Len(w) \/ w[n + 1] = Torn
<1>1. Len(w) \in Nat
  BY LenProperties
<1>2. \E n \in 0 .. Len(w) : P(n)
  <2>1. CASE \A i \in 1 .. Len(w) : w[i] # Torn
    BY <1>1, <2>1
  <2>2. CASE \E i \in 1 .. Len(w) : w[i] = Torn
    <3> DEFINE T == {i \in 1 .. Len(w) : w[i] = Torn}
    <3>1. T \in SUBSET Nat /\ T # {}
      BY <1>1, <2>2
    <3>2. PICK m \in T : \A y \in T : m <= y
      BY <3>1, LeastNatural
    <3>3. m \in 1 .. Len(w) /\ w[m] = Torn
      BY <3>2
    <3>4. \A i \in 1 .. m - 1 : w[i] # Torn
      BY <1>1, <3>2, <3>3
    <3>5. m - 1 \in 0 .. Len(w) /\ (m - 1) + 1 = m
      BY <1>1, <3>3
    <3>6. P(m - 1)
      BY <3>3, <3>4, <3>5
    <3> QED
      BY <3>5, <3>6
  <2> QED
    BY <2>1, <2>2
<1> HIDE DEF P
<1>3. ValidLen(w) = CHOOSE n \in 0 .. Len(w) : P(n)
  BY DEF ValidLen, P
<1>4. ValidLen(w) \in 0 .. Len(w) /\ P(ValidLen(w))
  BY <1>2, <1>3
<1> QED
  BY <1>4 DEF P

\* A prefix of the log is a log of the same frames.
LEMMA PrefixProperty ==
    ASSUME NEW F, NEW w \in Seq(F), NEW n \in 0 .. Len(w)
    PROVE  /\ Prefix(w, n) \in Seq(F)
           /\ Len(Prefix(w, n)) = n
           /\ \A i \in 1 .. n : Prefix(w, n)[i] = w[i]
<1>1. Len(w) \in Nat /\ \A i \in 1 .. n : w[i] \in F
  BY LenProperties, ElementOfSeq
<1>2. /\ SubSeq(w, 1, n) \in Seq(F)
      /\ Len(SubSeq(w, 1, n)) = IF 1 <= n THEN n - 1 + 1 ELSE 0
      /\ \A i \in 1 .. n - 1 + 1 : SubSeq(w, 1, n)[i] = w[1 + i - 1]
  BY <1>1, SubSeqProperties
<1>3. n - 1 + 1 = n /\ \A i \in 1 .. n : 1 + i - 1 = i
  OBVIOUS
<1> QED
  BY <1>2, <1>3 DEF Prefix

\* The log recoverTail leaves has the frames before the first torn one.
LEMMA RecoverTailProperty ==
    ASSUME NEW F, NEW w \in Seq(F)
    PROVE  /\ recoverTail(w) \in Seq(F)
           /\ Len(recoverTail(w)) = ValidLen(w)
           /\ ValidLen(w) \in 0 .. Len(w)
           /\ \A i \in 1 .. ValidLen(w) : recoverTail(w)[i] = w[i] /\ w[i] # Torn
  BY ValidLenProperty, PrefixProperty DEF recoverTail

\* The records of a frame whose sequence numbers end by N are entries numbered up to N.
LEMMA FrameEntriesType ==
    ASSUME NEW N \in Nat, NEW f \in [first : 0 .. N, ops : Seq(Op)],
           f.first + Len(f.ops) <= N + 1
    PROVE  FrameEntries(f) \subseteq [key : Key, val : Value \cup {Tombstone}, seq : 0 .. N]
<1> SUFFICES ASSUME NEW i \in 1 .. Len(f.ops)
             PROVE  [key |-> f.ops[i].key, val |-> f.ops[i].val, seq |-> f.first + i - 1]
                        \in [key : Key, val : Value \cup {Tombstone}, seq : 0 .. N]
  BY DEF FrameEntries
<1>1. f.ops \in Seq(Op) /\ f.first \in 0 .. N
  OBVIOUS
<1>2. Len(f.ops) \in Nat /\ f.ops[i] \in Op
  BY <1>1, LenProperties, ElementOfSeq
<1>3. f.ops[i].key \in Key /\ f.ops[i].val \in Value \cup {Tombstone}
  BY <1>2 DEF Op
<1>4. f.first + i - 1 \in 0 .. N
  BY <1>1, <1>2
<1> QED
  BY <1>3, <1>4

\* So are the records of a whole log.
LEMMA LogEntriesType ==
    ASSUME NEW N \in Nat, NEW w \in Seq([first : 0 .. N, ops : Seq(Op)]),
           \A i \in 1 .. Len(w) : w[i].first + Len(w[i].ops) <= N + 1
    PROVE  LogEntries(w) \subseteq [key : Key, val : Value \cup {Tombstone}, seq : 0 .. N]
<1>1. ASSUME NEW i \in 1 .. Len(w)
      PROVE  FrameEntries(w[i]) \subseteq [key : Key, val : Value \cup {Tombstone}, seq : 0 .. N]
  <2>1. w[i] \in [first : 0 .. N, ops : Seq(Op)]
    BY ElementOfSeq
  <2> QED
    BY <2>1, FrameEntriesType
<1> QED
  BY <1>1 DEF LogEntries

\* The highest sequence number of entries numbered up to N is at most N.
LEMMA HighestSeqType ==
    ASSUME NEW N \in Nat,
           NEW E \in SUBSET [key : Key, val : Value \cup {Tombstone}, seq : 0 .. N]
    PROVE  Highest(SeqsOf(E)) \in 0 .. N
<1>1. SeqsOf(E) \in SUBSET (0 .. N)
  BY DEF SeqsOf
<1> QED
  BY <1>1, HighestProperty

\* A memtable and a merge keep some of the entries they are given.
LEMMA TopIsSubset ==
    ASSUME NEW E
    PROVE  Top(E) \subseteq E
  BY DEF Top

\* A compaction takes its inputs from the tables it is offered.
LEMMA CompactInputsSubset ==
    ASSUME NEW tables, NEW level
    PROVE  CompactInputs(tables, level) \subseteq tables
  BY DEF CompactInputs, PlanLevel0, FirstTwo

-----------------------------------------------------------------------------
\* The records of a part of the log are records of the log.
LEMMA PrefixEntries ==
    ASSUME NEW F, NEW w \in Seq(F), NEW n \in 0 .. Len(w)
    PROVE  LogEntries(Prefix(w, n)) \subseteq LogEntries(w)
<1>1. Len(w) \in Nat
  BY LenProperties
<1>2. Len(Prefix(w, n)) = n /\ \A i \in 1 .. n : Prefix(w, n)[i] = w[i]
  BY PrefixProperty
<1>3. \A i \in 1 .. n : i \in 1 .. Len(w)
  BY <1>1
<1> QED
  BY <1>2, <1>3 DEF LogEntries

\* So are those that Replay hands out.
LEMMA ReplayEntries ==
    ASSUME NEW F, NEW w \in Seq(F)
    PROVE  Replay(w) \subseteq LogEntries(w)
  BY ValidLenProperty, PrefixEntries DEF Replay, recoverTail

\* An append adds the records of its frame.
LEMMA AppendEntries ==
    ASSUME NEW F, NEW w \in Seq(F), NEW f \in F
    PROVE  LogEntries(Append(w, f)) = LogEntries(w) \cup FrameEntries(f)
<1> DEFINE v == Append(w, f)
<1>1. Len(w) \in Nat
  BY LenProperties
<1>2. Len(v) = Len(w) + 1 /\ v[Len(w) + 1] = f /\ \A i \in 1 .. Len(w) : v[i] = w[i]
  BY AppendProperties
<1>3. 1 .. Len(w) + 1 = (1 .. Len(w)) \cup {Len(w) + 1}
  BY <1>1
<1> HIDE DEF v
<1>4. ASSUME NEW e
      PROVE  e \in LogEntries(v) <=> e \in LogEntries(w) \cup FrameEntries(f)
  <2>1. e \in LogEntries(v) <=> \E i \in (1 .. Len(w)) \cup {Len(w) + 1} : e \in FrameEntries(v[i])
    BY <1>2, <1>3 DEF LogEntries
  <2>2. e \in LogEntries(w) <=> \E i \in 1 .. Len(w) : e \in FrameEntries(w[i])
    BY DEF LogEntries
  <2> QED
    BY <1>2, <2>1, <2>2, Zenon
<1> QED
  BY <1>4 DEF v

\* What is left of a torn frame yields no record.
LEMMA TornHasNoEntries == FrameEntries(Torn) = {}
<1>1. Torn.ops = << >>
  BY DEF Torn, Frame
<1>2. Len(Torn.ops) = 0
  BY <1>1
<1> QED
  BY <1>2 DEF FrameEntries

\* A replay that ends early, at a frame that cannot be read, hands out no other records.
LEMMA ReplayOfPrefix ==
    ASSUME NEW F, NEW w \in Seq(F), NEW n \in 0 .. Len(w)
    PROVE  Replay(Prefix(w, n)) \subseteq Replay(w)
<1> DEFINE p == Prefix(w, n)
           m == ValidLen(p)
<1>1. Len(w) \in Nat /\ p \in Seq(F) /\ Len(p) = n /\ \A i \in 1 .. n : p[i] = w[i]
  BY LenProperties, PrefixProperty
<1> HIDE DEF p
<1>2. m \in 0 .. n /\ \A i \in 1 .. m : p[i] # Torn
  BY <1>1, ValidLenProperty
<1>3. /\ ValidLen(w) \in 0 .. Len(w)
      /\ ValidLen(w) = Len(w) \/ w[ValidLen(w) + 1] = Torn
  BY ValidLenProperty
<1>4. \A i \in 1 .. m : w[i] # Torn
  BY <1>1, <1>2
<1> HIDE DEF m
<1>5. m <= ValidLen(w)
  <2>1. CASE ValidLen(w) = Len(w)
    BY <1>1, <1>2, <2>1
  <2>2. CASE w[ValidLen(w) + 1] = Torn
    BY <1>1, <1>2, <1>3, <1>4, <2>2
  <2> QED
    BY <1>3, <2>1, <2>2
<1>6. /\ Len(recoverTail(p)) = m /\ \A i \in 1 .. m : recoverTail(p)[i] = p[i]
      /\ Len(recoverTail(w)) = ValidLen(w) /\ \A i \in 1 .. ValidLen(w) : recoverTail(w)[i] = w[i]
  BY <1>1, RecoverTailProperty DEF m
<1>7. \A i \in 1 .. m : i \in 1 .. ValidLen(w) /\ recoverTail(p)[i] = recoverTail(w)[i]
  BY <1>1, <1>2, <1>3, <1>5, <1>6
<1> QED
  BY <1>6, <1>7 DEF Replay, LogEntries, p

-----------------------------------------------------------------------------
(***************************************************************************)
(* What readers see.  Two sets of entries look the same when each has, for *)
(* every entry of the other, one of the same key that is at least as new.  *)
(***************************************************************************)
EntryUpTo(N) == [key : Key, val : Value \cup {Tombstone}, seq : 0 .. N]

Covers(D, E) == \A e \in E : \E d \in D : d.key = e.key /\ e.seq <= d.seq

OnePerSeq(E) == \A e, f \in E : e.seq = f.seq => e = f

NewestIn(E, e) == e \in E /\ \A f \in E : f.key = e.key => f.seq <= e.seq

\* A key that has an entry has a newest one.
LEMMA NewestExists ==
    ASSUME NEW N \in Nat, NEW E \in SUBSET EntryUpTo(N), NEW e \in E
    PROVE  \E d \in E : d.key = e.key /\ NewestIn(E, d)
<1> DEFINE S == {d.seq : d \in {f \in E : f.key = e.key}}
<1>1. S \in SUBSET (0 .. N) /\ S # {}
  BY DEF EntryUpTo
<1>2. PICK s \in S : \A t \in S : t <= s
  BY <1>1, GreatestNatural
<1>3. PICK d \in E : d.key = e.key /\ d.seq = s
  BY <1>2
<1>4. \A f \in E : f.key = d.key => f.seq <= d.seq
  BY <1>2, <1>3
<1> QED
  BY <1>3, <1>4 DEF NewestIn

\* A reader finds the newest entry of a key, and nothing for a key without entries.
LEMMA ViewNewest ==
    ASSUME NEW N \in Nat, NEW E \in SUBSET EntryUpTo(N), OnePerSeq(E), NEW e, NewestIn(E, e)
    PROVE  View(E)[e.key] = e.val
<1> DEFINE P(d) == d.key = e.key /\ \A f \in E : f.key = e.key => f.seq <= d.seq
<1>1. e \in E /\ P(e) /\ e.key \in Key /\ e.key \in KeysOf(E)
  BY DEF NewestIn, EntryUpTo, KeysOf
<1>2. ASSUME NEW d \in E, P(d) PROVE d = e
  <2>1. d.seq <= e.seq /\ e.seq <= d.seq /\ d.seq \in Nat /\ e.seq \in Nat
    BY <1>1, <1>2 DEF EntryUpTo
  <2>2. d.seq = e.seq
    BY <2>1
  <2> QED
    BY <1>1, <2>2 DEF OnePerSeq
<1>3. (CHOOSE d \in E : P(d)) = e
  BY <1>1, <1>2
<1> QED
  BY <1>1, <1>3 DEF View

\* "Never written".
LEMMA ViewNone ==
    ASSUME NEW E, NEW k \in Key, \A e \in E : e.key # k
    PROVE  View(E)[k] = Tombstone
  BY DEF View, KeysOf

\* Sets that cover each other show the same contents.
LEMMA SameView ==
    ASSUME NEW N \in Nat, NEW D \in SUBSET EntryUpTo(N), NEW E \in SUBSET EntryUpTo(N),
           OnePerSeq(D \cup E), Covers(D, E), Covers(E, D)
    PROVE  View(D) = View(E)
<1>1. OnePerSeq(D) /\ OnePerSeq(E)
  BY DEF OnePerSeq
<1>2. ASSUME NEW k \in Key PROVE View(D)[k] = View(E)[k]
  <2>1. CASE \E e \in E : e.key = k
    <3>1. PICK e \in E : e.key = k /\ NewestIn(E, e)
      BY <2>1, NewestExists
    <3>2. PICK c \in D : c.key = k /\ e.seq <= c.seq
      BY <3>1 DEF Covers
    <3>3. PICK d \in D : d.key = k /\ NewestIn(D, d)
      BY <3>2, NewestExists
    <3>4. PICK g \in E : g.key = k /\ d.seq <= g.seq
      BY <3>3 DEF Covers
    <3>5. e.seq <= c.seq /\ c.seq <= d.seq /\ d.seq <= g.seq /\ g.seq <= e.seq
      BY <3>1, <3>2, <3>3, <3>4 DEF NewestIn
    <3>6. e.seq \in Nat /\ c.seq \in Nat /\ d.seq \in Nat /\ g.seq \in Nat
      BY <3>1, <3>2, <3>3, <3>4 DEF EntryUpTo
    <3>7. e.seq = d.seq
      BY <3>5, <3>6
    <3>8. e = d
      BY <3>7 DEF OnePerSeq
    <3>9. View(D)[d.key] = d.val /\ View(E)[e.key] = e.val
      BY <1>1, <3>1, <3>3, ViewNewest
    <3> QED
      BY <3>1, <3>3, <3>8, <3>9
  <2>2. CASE \A e \in E : e.key # k
    <3>1. \A d \in D : d.key # k
      BY <2>2 DEF Covers
    <3> QED
      BY <2>2, <3>1, ViewNone
  <2> QED
    BY <2>1, <2>2
<1> QED
  BY <1>2 DEF View

\* A memtable and a merge keep the newest entry of every key they are given.
LEMMA TopCovers ==
    ASSUME NEW N \in Nat, NEW E \in SUBSET EntryUpTo(N)
    PROVE  Covers(Top(E), E)
  BY NewestExists DEF Covers, Top, NewestIn

\* A set covers its parts.
LEMMA CoversPart ==
    ASSUME NEW N \in Nat, NEW D \in SUBSET EntryUpTo(N), NEW E \in SUBSET D
    PROVE  Covers(D, E)
<1>1. \A e \in E : e \in D /\ e.seq <= e.seq
  BY DEF EntryUpTo
<1> QED
  BY <1>1 DEF Covers

\* Covering is transitive.
LEMMA CoversTransitive ==
    ASSUME NEW N \in Nat, NEW C \in SUBSET EntryUpTo(N), NEW D \in SUBSET EntryUpTo(N),
           NEW E \in SUBSET EntryUpTo(N), Covers(C, D), Covers(D, E)
    PROVE  Covers(C, E)
<1> SUFFICES ASSUME NEW e \in E PROVE \E c \in C : c.key = e.key /\ e.seq <= c.seq
  BY DEF Covers
<1>1. PICK d \in D : d.key = e.key /\ e.seq <= d.seq
  BY DEF Covers
<1>2. PICK c \in C : c.key = d.key /\ d.seq <= c.seq
  BY DEF Covers
<1>3. c.seq \in Nat /\ d.seq \in Nat /\ e.seq \in Nat
  BY DEF EntryUpTo
<1>4. e.seq <= c.seq
  BY <1>1, <1>2, <1>3
<1> QED
  BY <1>1, <1>2, <1>4

\* Parts are covered one by one.
LEMMA CoversUnion ==
    ASSUME NEW D, NEW E, NEW F, Covers(D, E), Covers(D, F)
    PROVE  Covers(D, E \cup F)
  BY DEF Covers

\* More entries cover no less.
LEMMA CoversMore ==
    ASSUME NEW C, NEW D, NEW E, Covers(C, E), C \subseteq D
    PROVE  Covers(D, E)
  BY DEF Covers

Same(D, E) == Covers(D, E) /\ Covers(E, D)

\* Looking the same is an equivalence.
LEMMA SameTransitive ==
    ASSUME NEW N \in Nat, NEW C \in SUBSET EntryUpTo(N), NEW D \in SUBSET EntryUpTo(N),
           NEW E \in SUBSET EntryUpTo(N), Same(C, D), Same(D, E)
    PROVE  Same(C, E)
  BY CoversTransitive DEF Same

\* Every set looks like itself.
LEMMA SameReflexive ==
    ASSUME NEW N \in Nat, NEW E \in SUBSET EntryUpTo(N)
    PROVE  Same(E, E)
  BY CoversPart DEF Same

\* What looks the same does so next to anything else.
LEMMA SameUnion ==
    ASSUME NEW N \in Nat, NEW D \in SUBSET EntryUpTo(N), NEW E \in SUBSET EntryUpTo(N),
           NEW X \in SUBSET EntryUpTo(N), Same(D, E)
    PROVE  Same(D \cup X, E \cup X)
<1>1. D \cup X \in SUBSET EntryUpTo(N) /\ E \cup X \in SUBSET EntryUpTo(N)
  OBVIOUS
<1>2. Covers(D \cup X, X) /\ Covers(E \cup X, X)
  BY <1>1, CoversPart
<1>3. Covers(D \cup X, E) /\ Covers(E \cup X, D)
  BY CoversMore DEF Same
<1> QED
  BY <1>2, <1>3, CoversUnion DEF Same

\* Adding what is covered changes nothing.
LEMMA SameAbsorb ==
    ASSUME NEW N \in Nat, NEW D \in SUBSET EntryUpTo(N), NEW E \in SUBSET EntryUpTo(N), Covers(D, E)
    PROVE  Same(D \cup E, D)
<1>1. Covers(D, D) /\ Covers(D \cup E, D)
  BY CoversPart
<1> QED
  BY <1>1, CoversUnion DEF Same

\* The newest entries of a set look like the set.
LEMMA SameTop ==
    ASSUME NEW N \in Nat, NEW E \in SUBSET EntryUpTo(N)
    PROVE  Same(Top(E), E)
  BY TopCovers, TopIsSubset, CoversPart DEF Same

-----------------------------------------------------------------------------
(***************************************************************************)
(* Parts of the log, and what scanValidPrefix finds in them.               *)
(***************************************************************************)
\* There is one place where the scan can stop.
LEMMA ValidLenUnique ==
    ASSUME NEW F, NEW w \in Seq(F), NEW n \in 0 .. Len(w),
           \A i \in 1 .. n : w[i] # Torn, n = Len(w) \/ w[n + 1] = Torn
    PROVE  ValidLen(w) = n
<1> DEFINE m == ValidLen(w)
<1>1. /\ m \in 0 .. Len(w) /\ \A i \in 1 .. m : w[i] # Torn
      /\ m = Len(w) \/ w[m + 1] = Torn
  BY ValidLenProperty
<1>2. Len(w) \in Nat
  BY LenProperties
<1> HIDE DEF m
<1>3. ~(m < n)
  BY <1>1, <1>2
<1>4. ~(n < m)
  BY <1>1, <1>2
<1>5. m = n
  BY <1>1, <1>2, <1>3, <1>4
<1> QED
  BY <1>5 DEF m

\* The whole log is a part of itself.
LEMMA WholePrefix ==
    ASSUME NEW F, NEW w \in Seq(F)
    PROVE  Prefix(w, Len(w)) = w
  BY SubSeqFull DEF Prefix

\* Logs that begin alike have the same parts.
LEMMA PrefixAgree ==
    ASSUME NEW F, NEW v \in Seq(F), NEW w \in Seq(F), NEW n \in Nat, n <= Len(v), n <= Len(w),
           \A i \in 1 .. n : v[i] = w[i]
    PROVE  Prefix(v, n) = Prefix(w, n)
<1>1. Len(v) \in Nat /\ Len(w) \in Nat
  BY LenProperties
<1>2. n \in 0 .. Len(v) /\ n \in 0 .. Len(w)
  BY <1>1
<1>3. /\ Prefix(v, n) \in Seq(F) /\ Len(Prefix(v, n)) = n /\ \A i \in 1 .. n : Prefix(v, n)[i] = v[i]
      /\ Prefix(w, n) \in Seq(F) /\ Len(Prefix(w, n)) = n /\ \A i \in 1 .. n : Prefix(w, n)[i] = w[i]
  BY <1>2, PrefixProperty
<1> QED
  BY <1>3, SeqEqual

\* A part of a part is a part.
LEMMA PrefixOfPrefix ==
    ASSUME NEW F, NEW w \in Seq(F), NEW m \in 0 .. Len(w), NEW n \in 0 .. m
    PROVE  Prefix(Prefix(w, m), n) = Prefix(w, n)
<1>1. Len(w) \in Nat
  BY LenProperties
<1>2. Prefix(w, m) \in Seq(F) /\ Len(Prefix(w, m)) = m /\ \A i \in 1 .. m : Prefix(w, m)[i] = w[i]
  BY PrefixProperty
<1>3. n \in Nat /\ n <= Len(w) /\ n <= m /\ \A i \in 1 .. n : i \in 1 .. m
  BY <1>1
<1> QED
  BY <1>2, <1>3, PrefixAgree

\* An append changes no part of what was there.
LEMMA PrefixOfAppend ==
    ASSUME NEW F, NEW w \in Seq(F), NEW f \in F, NEW n \in 0 .. Len(w)
    PROVE  Prefix(Append(w, f), n) = Prefix(w, n)
<1>1. Len(w) \in Nat
  BY LenProperties
<1>2. Append(w, f) \in Seq(F) /\ Len(Append(w, f)) = Len(w) + 1 /\ \A i \in 1 .. Len(w) : Append(w, f)[i] = w[i]
  BY AppendProperties
<1>3. n \in Nat /\ n <= Len(w) /\ n <= Len(w) + 1 /\ \A i \in 1 .. n : i \in 1 .. Len(w)
  BY <1>1
<1> QED
  BY <1>2, <1>3, PrefixAgree

\* The scan of a part stops where the part ends or where the scan of the log does.
LEMMA ValidLenOfPrefix ==
    ASSUME NEW F, NEW w \in Seq(F), NEW n \in 0 .. Len(w)
    PROVE  ValidLen(Prefix(w, n)) = IF n <= ValidLen(w) THEN n ELSE ValidLen(w)
<1> DEFINE p == Prefix(w, n)
           m == ValidLen(w)
<1>1. Len(w) \in Nat
  BY LenProperties
<1>2. p \in Seq(F) /\ Len(p) = n /\ \A i \in 1 .. n : p[i] = w[i]
  BY PrefixProperty
<1>3. m \in 0 .. Len(w) /\ (\A i \in 1 .. m : w[i] # Torn) /\ (m = Len(w) \/ w[m + 1] = Torn)
  BY ValidLenProperty
<1> HIDE DEF p, m
<1>4. CASE n <= m
  <2>1. n \in 0 .. Len(p) /\ \A i \in 1 .. n : p[i] # Torn
    BY <1>1, <1>2, <1>3, <1>4
  <2>2. ValidLen(p) = n
    BY <1>2, <2>1, ValidLenUnique
  <2> QED
    BY <1>4, <2>2 DEF p, m
<1>5. CASE ~(n <= m)
  <2>1. m \in 0 .. Len(p) /\ m + 1 \in 1 .. n /\ w[m + 1] = Torn
    BY <1>1, <1>2, <1>3, <1>5
  <2>2. (\A i \in 1 .. m : p[i] # Torn) /\ p[m + 1] = Torn
    BY <1>1, <1>2, <1>3, <1>5, <2>1
  <2>3. ValidLen(p) = m
    BY <1>2, <2>1, <2>2, ValidLenUnique
  <2> QED
    BY <1>5, <2>3 DEF p, m
<1> QED
  BY <1>4, <1>5

\* What is left of a torn frame does not make the log longer.
LEMMA ValidLenOfTorn ==
    ASSUME NEW F, NEW w \in Seq(F), Torn \in F
    PROVE  ValidLen(Append(w, Torn)) = ValidLen(w)
<1> DEFINE v == Append(w, Torn)
           m == ValidLen(w)
<1>1. Len(w) \in Nat
  BY LenProperties
<1>2. v \in Seq(F) /\ Len(v) = Len(w) + 1 /\ v[Len(w) + 1] = Torn /\ \A i \in 1 .. Len(w) : v[i] = w[i]
  BY AppendProperties
<1>3. m \in 0 .. Len(w) /\ (\A i \in 1 .. m : w[i] # Torn) /\ (m = Len(w) \/ w[m + 1] = Torn)
  BY ValidLenProperty
<1> HIDE DEF v, m
<1>4. m \in 0 .. Len(v) /\ (\A i \in 1 .. m : v[i] # Torn) /\ v[m + 1] = Torn
  BY <1>1, <1>2, <1>3
<1>5. ValidLen(v) = m
  BY <1>2, <1>4, ValidLenUnique
<1> QED
  BY <1>5 DEF v, m

\* A log without torn frames is replayed whole.
LEMMA WholeLog ==
    ASSUME NEW F, NEW w \in Seq(F), \A i \in 1 .. Len(w) : w[i] # Torn
    PROVE  ValidLen(w) = Len(w) /\ Replay(w) = LogEntries(w)
<1>1. Len(w) \in 0 .. Len(w)
  BY LenProperties
<1>2. ValidLen(w) = Len(w)
  BY <1>1, ValidLenUnique
<1> QED
  BY <1>2, WholePrefix DEF Replay, recoverTail

-----------------------------------------------------------------------------
(***************************************************************************)
(* Remainders, for what happens every so many calls.                       *)
(***************************************************************************)
\* Quotient and remainder.
LEMMA Remainder ==
    ASSUME NEW a \in Nat, NEW N \in Nat \ {0}
    PROVE  a \div N \in Int /\ a % N \in 0 .. N - 1 /\ a % N = a - N * (a \div N)
<1>1. a \div N \in Int
  BY SMTT(30)
<1>2. a % N \in 0 .. N - 1
  BY SMTT(30)
<1>3. a % N = a - N * (a \div N)
  BY Z3
<1> QED
  BY <1>1, <1>2, <1>3

\* A larger quotient takes at least one more divisor.
LEMMA NextMultiple ==
    ASSUME NEW p \in Int, NEW q \in Int, NEW N \in Nat \ {0}, p < q
    PROVE  N * p + N <= N * q
  OBVIOUS

\* The remainder grows with the number until it returns to 0.
LEMMA NextRemainder ==
    ASSUME NEW a \in Nat, NEW N \in Nat \ {0}, (a + 1) % N # 0
    PROVE  (a + 1) % N = (a % N) + 1
<1> DEFINE p == a \div N
           q == (a + 1) \div N
           r == a % N
           s == (a + 1) % N
           P == N * p
           Q == N * q
<1>1. p \in Int /\ r \in 0 .. N - 1 /\ r = a - P
  BY Remainder, Zenon
<1>2. q \in Int /\ s \in 0 .. N - 1 /\ s = (a + 1) - Q
  <2>1. a + 1 \in Nat
    OBVIOUS
  <2> QED
    BY <2>1, Remainder, Zenon
<1>3. P \in Int /\ Q \in Int
  BY <1>1, <1>2
<1>4. (p < q => P + N <= Q) /\ (q < p => Q + N <= P) /\ (p = q => P = Q)
  BY <1>1, <1>2, NextMultiple
<1>5. s # 0
  OBVIOUS
<1> HIDE DEF p, q, r, s, P, Q
<1>6. s = r + 1
  BY <1>1, <1>2, <1>3, <1>4, <1>5
<1> QED
  BY <1>6 DEF r, s

-----------------------------------------------------------------------------
(***************************************************************************)
(* Following pointers.  What is reached from a node by a partial function  *)
(* nxt, defined on T, is the least set that nxt does not lead out of; from *)
(* it come functions that satisfy the recursive equations of the model.    *)
(***************************************************************************)
Reach(D, T, nxt, x) ==
    {y \in D : \A C \in SUBSET D : x \in C /\ (\A z \in C \cap T : nxt[z] \in C) => y \in C}

\* What is reached is the node and what is reached from the next one.
LEMMA ReachStep ==
    ASSUME NEW D, NEW T \in SUBSET D, NEW nxt, \A z \in T : nxt[z] \in D, NEW x \in D
    PROVE  /\ x \in T => Reach(D, T, nxt, x) = {x} \cup Reach(D, T, nxt, nxt[x])
           /\ x \notin T => Reach(D, T, nxt, x) = {x}
<1> DEFINE Shut(C) == \A z \in C \cap T : nxt[z] \in C
           R(y) == Reach(D, T, nxt, y)
<1>1. \A y \in D : R(y) \in SUBSET D /\ y \in R(y) /\ \A C \in SUBSET D : y \in C /\ Shut(C) => R(y) \subseteq C
  BY DEF Reach
<1>2. ASSUME NEW y \in D PROVE Shut(R(y))
  <2> SUFFICES ASSUME NEW z \in R(y) \cap T, NEW C \in SUBSET D, y \in C, Shut(C) PROVE nxt[z] \in C
    BY <1>1 DEF Reach
  <2>1. z \in C
    BY <1>1
  <2> QED
    BY <2>1
<1>3. ASSUME x \in T PROVE R(x) = {x} \cup R(nxt[x])
  <2>1. nxt[x] \in D /\ nxt[x] \in R(x)
    BY <1>1, <1>2, <1>3
  <2>2. R(nxt[x]) \subseteq R(x)
    BY <1>1, <1>2, <2>1
  <2>3. nxt[x] \in R(nxt[x]) /\ Shut(R(nxt[x])) /\ R(nxt[x]) \in SUBSET D
    BY <1>1, <1>2, <2>1
  <2>4. Shut({x} \cup R(nxt[x]))
    BY <2>3
  <2>5. R(x) \subseteq {x} \cup R(nxt[x])
    <3> DEFINE C == {x} \cup R(nxt[x])
    <3>1. C \in SUBSET D /\ x \in C
      BY <2>3
    <3> HIDE DEF R
    <3> QED
      BY <1>1, <2>4, <3>1, ZenonT(60)
  <2> QED
    BY <1>1, <2>2, <2>5
<1>4. ASSUME x \notin T PROVE R(x) = {x}
  <2>1. Shut({x})
    BY <1>4
  <2>2. R(x) \subseteq {x}
    BY <1>1, <2>1
  <2> QED
    BY <1>1, <2>2
<1> QED
  BY <1>3, <1>4

AnyOf(S) == CHOOSE y \in S : TRUE

\* nxt does not lead out of D.
Stays(D, T, nxt) == T \in SUBSET D /\ \A z \in T : nxt[z] \in D

\* Where following nxt ends, and all it comes to.
EndOf(D, T, nxt) == [x \in D |-> AnyOf(Reach(D, T, nxt, x) \ T)]

AllOf(D, T, nxt) == [x \in D |-> IF x \in T THEN Reach(D, T, nxt, nxt[x]) ELSE {}]

\* They are what the recursive equations ask for.
LEMMA Following ==
    ASSUME NEW D, NEW T, NEW nxt, Stays(D, T, nxt), NEW x \in D
    PROVE  /\ x \in T => EndOf(D, T, nxt)[x] = EndOf(D, T, nxt)[nxt[x]]
           /\ x \notin T => EndOf(D, T, nxt)[x] = x
           /\ x \in T => AllOf(D, T, nxt)[x] = {nxt[x]} \cup AllOf(D, T, nxt)[nxt[x]]
           /\ x \notin T => AllOf(D, T, nxt)[x] = {}
<1> DEFINE R(y) == Reach(D, T, nxt, y)
           f == EndOf(D, T, nxt)
           g == AllOf(D, T, nxt)
<1>1. \A y \in D : (y \in T => R(y) = {y} \cup R(nxt[y])) /\ (y \notin T => R(y) = {y})
  BY ReachStep DEF Stays
<1>2. \A y \in D : f[y] = AnyOf(R(y) \ T) /\ g[y] = IF y \in T THEN R(nxt[y]) ELSE {}
  BY DEF EndOf, AllOf
<1> HIDE DEF R, f, g
<1>3. CASE x \in T
  <2>1. nxt[x] \in D /\ R(x) \ T = R(nxt[x]) \ T
    BY <1>1, <1>3 DEF Stays
  <2>2. f[x] = f[nxt[x]]
    BY <1>2, <2>1
  <2>3. R(nxt[x]) = {nxt[x]} \cup g[nxt[x]]
    BY <1>1, <1>2, <2>1
  <2> QED
    BY <1>2, <1>3, <2>2, <2>3 DEF f, g
<1>4. CASE x \notin T
  <2>1. R(x) \ T = {x}
    BY <1>1, <1>4
  <2>2. f[x] = x
    BY <1>2, <2>1 DEF AnyOf
  <2> QED
    BY <1>2, <1>4, <2>2 DEF f, g
<1> QED
  BY <1>3, <1>4

-----------------------------------------------------------------------------
(***************************************************************************)
(* Induction over the parts of a finite set.                               *)
(***************************************************************************)
\* G has a part of S whenever it has that part without any one of its elements.
Inductive(S, G) == \A s \in SUBSET S : (\A x \in s : s \ {x} \in G) => s \in G

\* Then G has every part of S, if S is finite.
LEMMA PartInduction ==
    ASSUME NEW S, IsFiniteSet(S), NEW G, Inductive(S, G), NEW s \in SUBSET S
    PROVE  s \in G
<1> DEFINE B == {t \in SUBSET S : t \notin G}
           c == [t \in SUBSET S |-> Cardinality(t)]
           T == {c[t] : t \in B}
<1>1. \A t \in SUBSET S : IsFiniteSet(t) /\ c[t] \in Nat
  BY FS_Subset, FS_CardinalityType
<1> SUFFICES ASSUME B # {} PROVE FALSE
  OBVIOUS
<1>2. T \in SUBSET Nat /\ T # {}
  BY <1>1
<1>3. PICK m \in T : \A n \in T : m <= n
  BY <1>2, LeastNatural
<1>4. PICK t \in B : m = c[t]
  OBVIOUS
<1>5. PICK x \in t : t \ {x} \notin G
  BY DEF Inductive
<1>6. t \ {x} \in SUBSET S /\ c[t \ {x}] = c[t] - 1
  BY <1>1, <1>5, FS_RemoveElement
<1>7. c[t] \in Nat
  BY <1>1
<1>8. t \ {x} \in B
  BY <1>5, <1>6
<1>9. c[t] <= c[t \ {x}]
  BY <1>3, <1>4, <1>8
<1> HIDE DEF c
<1> QED
  BY <1>6, <1>7, <1>9

-----------------------------------------------------------------------------
(***************************************************************************)
(* Sums.  A sum over a set is a fold that picks the elements in some       *)
(* order; it is the number of elements of a set that holds n pairs for     *)
(* every element of weight n, which shows that the order does not matter.  *)
(***************************************************************************)
PairsOf(d, x) == {<<x, i>> : i \in 1 .. d[x]}

AllPairs(d, s) == UNION {PairsOf(d, x) : x \in s}

SumOf(d, s) == Cardinality(AllPairs(d, s))

\* The recursive equation of the fold.
IsSum(d, S, f) ==
    f = [s \in SUBSET S |-> IF s = {} THEN 0 ELSE d[AnyOf(s)] + f[s \ {AnyOf(s)}]]

\* An element has as many pairs as its weight.
LEMMA PairsOfOne ==
    ASSUME NEW S, NEW d \in [S -> Nat], NEW x \in S
    PROVE  IsFiniteSet(PairsOf(d, x)) /\ Cardinality(PairsOf(d, x)) = d[x]
<1> DEFINE n == d[x]
           f == [i \in 1 .. n |-> <<x, i>>]
<1>1. n \in Nat
  OBVIOUS
<1> HIDE DEF n
<1>2. f \in Bijection(1 .. n, PairsOf(d, x))
  BY DEF PairsOf, n, Bijection, Injection, Surjection, IsInjective
<1>3. ExistsBijection(1 .. n, PairsOf(d, x))
  BY <1>2 DEF ExistsBijection
<1> QED
  BY <1>1, <1>3, FS_CountingElements, FS_NatBijection DEF n

\* An element more has its own pairs.
LEMMA PairsOfMore ==
    ASSUME NEW S, NEW d \in [S -> Nat], NEW s \in SUBSET S, NEW x \in s, IsFiniteSet(AllPairs(d, s \ {x}))
    PROVE  IsFiniteSet(AllPairs(d, s)) /\ SumOf(d, s) = d[x] + SumOf(d, s \ {x})
<1> DEFINE A == PairsOf(d, x)
           B == AllPairs(d, s \ {x})
<1>1. x \in S /\ d[x] \in Nat
  OBVIOUS
<1>2. IsFiniteSet(A) /\ Cardinality(A) = d[x]
  BY <1>1, PairsOfOne
<1>3. AllPairs(d, s) = A \cup B
  BY DEF AllPairs
<1>4. A \cap B = {}
  BY DEF AllPairs, PairsOf
<1>5. Cardinality({}) = 0 /\ Cardinality(B) \in Nat
  BY FS_EmptySet, FS_CardinalityType
<1> HIDE DEF A, B
<1>6. IsFiniteSet(B)
  BY DEF B
<1>7. IsFiniteSet(A \cup B) /\ Cardinality(A \cup B) = Cardinality(A) + Cardinality(B) - Cardinality(A \cap B)
  BY <1>2, <1>6, FS_Union
<1>8. IsFiniteSet(AllPairs(d, s)) /\ SumOf(d, s) = d[x] + Cardinality(B) - 0
  BY <1>2, <1>3, <1>4, <1>5, <1>7, Zenon DEF SumOf
<1>9. SumOf(d, s) = d[x] + Cardinality(B)
  BY <1>1, <1>5, <1>8
<1> QED
  BY <1>8, <1>9 DEF SumOf, B

\* A finite set has finitely many pairs.
LEMMA PairsFinite ==
    ASSUME NEW S, IsFiniteSet(S), NEW d \in [S -> Nat], NEW s \in SUBSET S
    PROVE  IsFiniteSet(AllPairs(d, s)) /\ SumOf(d, s) \in Nat
<1> DEFINE G == {t \in SUBSET S : IsFiniteSet(AllPairs(d, t))}
<1>1. ASSUME NEW t \in SUBSET S, NEW x \in t, t \ {x} \in G PROVE t \in G
  BY <1>1, PairsOfMore
<1>2. {} \in G
  BY FS_EmptySet DEF AllPairs
<1>3. Inductive(S, G)
  BY <1>1, <1>2 DEF Inductive
<1>4. s \in G
  <2> HIDE DEF G
  <2> QED
    BY <1>3, PartInduction
<1> QED
  BY <1>4, FS_CardinalityType DEF SumOf

\* The sum grows by the weight of each element.
LEMMA SumStep ==
    ASSUME NEW S, IsFiniteSet(S), NEW d \in [S -> Nat]
    PROVE  /\ SumOf(d, {}) = 0
           /\ \A s \in SUBSET S : SumOf(d, s) \in Nat
           /\ \A s \in SUBSET S : \A x \in s : SumOf(d, s) = d[x] + SumOf(d, s \ {x})
<1>1. SumOf(d, {}) = 0
  BY FS_EmptySet DEF SumOf, AllPairs
<1>2. ASSUME NEW s \in SUBSET S, NEW x \in s PROVE SumOf(d, s) = d[x] + SumOf(d, s \ {x})
  <2>1. s \ {x} \in SUBSET S
    OBVIOUS
  <2> QED
    BY <2>1, PairsFinite, PairsOfMore
<1> QED
  BY <1>1, <1>2, PairsFinite

\* The sum is a fold, and every fold is the sum.
LEMMA SumIsFold ==
    ASSUME NEW S, IsFiniteSet(S), NEW d \in [S -> Nat]
    PROVE  /\ \E f : IsSum(d, S, f)
           /\ \A f : IsSum(d, S, f) => f[S] = SumOf(d, S)
<1> DEFINE c == [s \in SUBSET S |-> SumOf(d, s)]
<1>1. \A s \in SUBSET S : s # {} => AnyOf(s) \in s /\ s \ {AnyOf(s)} \in SUBSET S
  BY DEF AnyOf
<1>2. \A s \in SUBSET S : c[s] = IF s = {} THEN 0 ELSE d[AnyOf(s)] + c[s \ {AnyOf(s)}]
  <2> SUFFICES ASSUME NEW s \in SUBSET S
               PROVE  c[s] = IF s = {} THEN 0 ELSE d[AnyOf(s)] + c[s \ {AnyOf(s)}]
    OBVIOUS
  <2>1. c[{}] = 0
    BY SumStep
  <2>2. \A x \in s : SumOf(d, s) = d[x] + SumOf(d, s \ {x})
    BY SumStep
  <2>3. \A x \in s : c[s] = d[x] + c[s \ {x}]
    BY <2>2
  <2> HIDE DEF c
  <2> QED
    BY <1>1, <2>1, <2>3
<1>3. c = [s \in SUBSET S |-> c[s]]
  OBVIOUS
<1>4. c[S] = SumOf(d, S)
  OBVIOUS
<1> HIDE DEF c
<1>5. IsSum(d, S, c)
  BY <1>2, <1>3 DEF IsSum
<1>6. ASSUME NEW f, IsSum(d, S, f) PROVE f[S] = c[S]
  <2> DEFINE G == {s \in SUBSET S : f[s] = c[s]}
  <2>1. \A s \in SUBSET S : f[s] = IF s = {} THEN 0 ELSE d[AnyOf(s)] + f[s \ {AnyOf(s)}]
    BY <1>6 DEF IsSum
  <2>2. ASSUME NEW s \in SUBSET S, \A x \in s : s \ {x} \in G PROVE s \in G
    BY <1>1, <1>2, <2>1, <2>2
  <2>3. Inductive(S, G)
    BY <2>2 DEF Inductive
  <2>4. S \in G
    <3> HIDE DEF G
    <3> QED
      BY <2>3, PartInduction
  <2> QED
    BY <2>4
<1> QED
  BY <1>4, <1>5, <1>6

-----------------------------------------------------------------------------
(***************************************************************************)
(* Induction and recursion over the naturals, with a set for the property  *)
(* and a function for the step.                                            *)
(***************************************************************************)
\* G has 0, and with a number below m the next.
Climbs(G, m) == 0 \in G /\ \A n \in 0 .. m - 1 : n \in G => n + 1 \in G

\* Then it has the numbers up to m.
LEMMA Climb ==
    ASSUME NEW m \in Nat, NEW G, Climbs(G, m)
    PROVE  \A n \in 0 .. m : n \in G
<1> DEFINE B == {n \in 0 .. m : n \notin G}
<1> SUFFICES ASSUME B # {} PROVE FALSE
  OBVIOUS
<1>1. B \in SUBSET Nat
  OBVIOUS
<1>2. PICK n \in B : \A k \in B : n <= k
  BY <1>1, LeastNatural
<1>3. n # 0 /\ n \in 0 .. m /\ n \notin G
  BY DEF Climbs
<1>4. n - 1 \in 0 .. m - 1 /\ n - 1 \in 0 .. m /\ (n - 1) + 1 = n /\ ~(n <= n - 1)
  BY <1>3
<1>5. n - 1 \in G
  BY <1>2, <1>4
<1> QED
  BY <1>3, <1>4, <1>5 DEF Climbs

\* What repeating a step yields, as pairs of how often and what.
Repeats(D, nxt, x) ==
    {p \in Nat \X D : \A C \in SUBSET (Nat \X D) :
        <<0, x>> \in C /\ (\A q \in C : <<q[1] + 1, nxt[q[2]]>> \in C) => p \in C}

OneAfter(n, D, R) == \E y \in D : \A z : <<n, z>> \in R <=> z = y

\* After any number of steps it is one thing.
LEMMA RepeatsOnce ==
    ASSUME NEW D, NEW nxt \in [D -> D], NEW x \in D, NEW n \in Nat
    PROVE  OneAfter(n, D, Repeats(D, nxt, x))
<1> DEFINE R == Repeats(D, nxt, x)
           Shut(C) == \A q \in C : <<q[1] + 1, nxt[q[2]]>> \in C
           G == {k \in Nat : \E y \in D : \A z : <<k, z>> \in R <=> z = y}
<1>1. R \in SUBSET (Nat \X D) /\ <<0, x>> \in R /\ Shut(R)
  <2>1. R \in SUBSET (Nat \X D)
    BY DEF Repeats
  <2>2. <<0, x>> \in R
    BY DEF Repeats
  <2>3. ASSUME NEW q \in R PROVE <<q[1] + 1, nxt[q[2]]>> \in R
    <3>1. q \in Nat \X D /\ <<q[1] + 1, nxt[q[2]]>> \in Nat \X D
      BY <2>1
    <3> SUFFICES ASSUME NEW C \in SUBSET (Nat \X D), <<0, x>> \in C, Shut(C)
                 PROVE  <<q[1] + 1, nxt[q[2]]>> \in C
      BY <3>1 DEF Repeats
    <3>2. q \in C
      BY <2>3 DEF Repeats
    <3> QED
      BY <3>2
  <2> QED
    BY <2>1, <2>2, <2>3
<1>2. ASSUME NEW C \in SUBSET (Nat \X D), <<0, x>> \in C, Shut(C) PROVE R \subseteq C
  BY <1>2 DEF Repeats
<1> HIDE DEF R
<1>3. 0 \in G
  <2> DEFINE C == {q \in R : q[1] = 0 => q[2] = x}
  <2>1. C \in SUBSET (Nat \X D) /\ <<0, x>> \in C
    BY <1>1
  <2>2. ASSUME NEW q \in C PROVE <<q[1] + 1, nxt[q[2]]>> \in C
    <3>1. <<q[1] + 1, nxt[q[2]]>> \in R /\ q[1] \in Nat
      BY <1>1
    <3>2. q[1] + 1 # 0
      BY <3>1
    <3> QED
      BY <3>1, <3>2
  <2>3. R \subseteq C
    <3> HIDE DEF C
    <3> QED
      BY <1>2, <2>1, <2>2
  <2>4. \A z : <<0, z>> \in R <=> z = x
    BY <1>1, <2>3
  <2> QED
    BY <2>4
<1>4. ASSUME NEW k \in Nat, k \in G PROVE k + 1 \in G
  <2>1. PICK y \in D : \A z : <<k, z>> \in R <=> z = y
    BY <1>4
  <2> DEFINE C == {q \in R : q[1] = k + 1 => q[2] = nxt[y]}
  <2>2. C \in SUBSET (Nat \X D) /\ <<0, x>> \in C
    BY <1>1
  <2>3. ASSUME NEW q \in C PROVE <<q[1] + 1, nxt[q[2]]>> \in C
    <3>1. q \in R /\ q \in Nat \X D /\ <<q[1] + 1, nxt[q[2]]>> \in R
      BY <1>1
    <3>2. q[1] \in Nat /\ q = <<q[1], q[2]>>
      BY <3>1
    <3>3. q[1] + 1 = k + 1 => q[2] = y
      BY <2>1, <3>1, <3>2
    <3> QED
      BY <3>1, <3>3
  <2>4. R \subseteq C
    <3> HIDE DEF C
    <3> QED
      BY <1>2, <2>2, <2>3
  <2>5. <<k, y>> \in R
    BY <2>1
  <2>6. <<k + 1, nxt[y]>> \in R
    BY <1>1, <2>5
  <2>7. nxt[y] \in D /\ \A z : <<k + 1, z>> \in R <=> z = nxt[y]
    BY <2>4, <2>6
  <2> QED
    BY <2>7
<1>5. n \in G
  <2> HIDE DEF G
  <2>1. Climbs(G, n)
    BY <1>3, <1>4 DEF Climbs
  <2> QED
    BY <2>1, Climb
<1> QED
  BY <1>5 DEF R, OneAfter

IsIteration(f, D, nxt, x) == f \in [Nat -> D] /\ f[0] = x /\ \A n \in Nat : f[n + 1] = nxt[f[n]]

\* So there is a function of the number of steps.
LEMMA Iterates ==
    ASSUME NEW D, NEW nxt \in [D -> D], NEW x \in D
    PROVE  \E f : IsIteration(f, D, nxt, x)
<1> DEFINE R == Repeats(D, nxt, x)
           f == [n \in Nat |-> CHOOSE y : <<n, y>> \in R]
<1>1. ASSUME NEW n \in Nat PROVE OneAfter(n, D, R)
  BY RepeatsOnce
<1>2. <<0, x>> \in R
  BY DEF Repeats
<1>3. ASSUME NEW n \in Nat, NEW y \in D, <<n, y>> \in R PROVE <<n + 1, nxt[y]>> \in R
  <2> DEFINE q == <<n, y>>
  <2>1. q[1] = n /\ q[2] = y /\ <<n + 1, nxt[y]>> \in Nat \X D
    OBVIOUS
  <2> SUFFICES ASSUME NEW C \in SUBSET (Nat \X D), <<0, x>> \in C, \A p \in C : <<p[1] + 1, nxt[p[2]]>> \in C
               PROVE  <<n + 1, nxt[y]>> \in C
    BY <2>1 DEF Repeats
  <2>2. q \in C
    BY <1>3 DEF Repeats
  <2>3. <<q[1] + 1, nxt[q[2]]>> \in C
    <3> HIDE DEF q
    <3> QED
      BY <2>2
  <2> QED
    BY <2>1, <2>3
<1> HIDE DEF R
<1>4. ASSUME NEW n \in Nat PROVE f[n] \in D /\ \A z : <<n, z>> \in R <=> z = f[n]
  <2>1. PICK y \in D : \A z : <<n, z>> \in R <=> z = y
    BY <1>1 DEF OneAfter
  <2>2. (CHOOSE z : <<n, z>> \in R) = y
    BY <2>1
  <2> QED
    BY <2>1, <2>2
<1>5. f \in [Nat -> D]
  BY <1>4
<1> HIDE DEF f
<1>6. f[0] = x
  BY <1>2, <1>4
<1>7. ASSUME NEW n \in Nat PROVE f[n + 1] = nxt[f[n]]
  <2>1. f[n] \in D /\ <<n, f[n]>> \in R /\ n + 1 \in Nat
    BY <1>4
  <2>2. <<n + 1, nxt[f[n]]>> \in R
    BY <1>3, <2>1
  <2> QED
    BY <1>4, <2>1, <2>2
<1> QED
  BY <1>5, <1>6, <1>7 DEF IsIteration
=============================================================================
