-------------------------- MODULE TableFileProofs --------------------------
(***************************************************************************)
(* Table files, for any keys, values and sizes: what a Writer has laid out *)
(* a Reader finds again.                                                   *)
(***************************************************************************)
EXTENDS TableFile, OperatorProofs

-----------------------------------------------------------------------------
(***************************************************************************)
(* byteutil: Compare is a total order of byte strings.                     *)
(***************************************************************************)
\* a and b agree up to n, and there a ends or is smaller.
LessAt(a, b, n) ==
    /\ n \in Nat /\ n <= Len(a) /\ n < Len(b)
    /\ \A i \in 1 .. n : a[i] = b[i]
    /\ n < Len(a) => a[n + 1] < b[n + 1]

\* The shared prefix is one, and no longer one is.
LEMMA SharedFacts ==
    ASSUME NEW a \in Seq(Nat), NEW b \in Seq(Nat)
    PROVE  LET n == SharedPrefixLen(a, b)
           IN  /\ n \in Nat /\ n <= Len(a) /\ n <= Len(b)
               /\ \A i \in 1 .. n : a[i] = b[i]
               /\ n < Len(a) /\ n < Len(b) => a[n + 1] # b[n + 1]
<1> DEFINE S == {n \in 0 .. Len(a) : n <= Len(b) /\ \A i \in 1 .. n : a[i] = b[i]}
<1>1. Len(a) \in Nat /\ Len(b) \in Nat
  OBVIOUS
<1>2. 0 \in S
  BY <1>1
<1>3. S \in SUBSET (0 .. Len(a))
  OBVIOUS
<1>4. \E m \in S : \A n \in S : n <= m
  BY <1>1, <1>2, <1>3, GreatestNatural
<1>5. \A m, n \in S : n <= m <=> m >= n
  BY <1>1, <1>3
<1> PICK m : m = Max(S)
  OBVIOUS
<1>6. m \in S /\ \A n \in S : n <= m
  BY <1>4, <1>5 DEF Max
<1>7. ASSUME m < Len(a), m < Len(b), a[m + 1] = b[m + 1] PROVE FALSE
  <2>1. m \in Nat /\ m + 1 \in 0 .. Len(a) /\ m + 1 <= Len(b)
    BY <1>1, <1>6, <1>7
  <2>2. \A i \in 1 .. m + 1 : a[i] = b[i]
    <3>1. \A i \in 1 .. m + 1 : i \in 1 .. m \/ i = m + 1
      BY <2>1
    <3> QED
      BY <1>6, <1>7, <3>1
  <2>3. m + 1 <= m
    BY <1>6, <2>1, <2>2
  <2> QED
    BY <2>1, <2>3
<1>8. SharedPrefixLen(a, b) = m
  BY DEF SharedPrefixLen
<1>9. m \in Nat /\ m <= Len(a) /\ m <= Len(b) /\ \A i \in 1 .. m : a[i] = b[i]
  <2>1. m \in 0 .. Len(a) /\ m <= Len(b) /\ \A i \in 1 .. m : a[i] = b[i]
    BY <1>6
  <2> HIDE DEF S
  <2> QED
    BY <1>1, <2>1
<1>10. m < Len(a) /\ m < Len(b) => a[m + 1] # b[m + 1]
  BY <1>7
<1> QED
  BY <1>8, <1>9, <1>10, Zenon

\* Compare is decided at the end of the shared prefix.
LEMMA LessIs ==
    ASSUME NEW a \in Seq(Nat), NEW b \in Seq(Nat)
    PROVE  Less(a, b) <=> \E n \in Nat : LessAt(a, b, n)
<1> PICK m : m = SharedPrefixLen(a, b)
  OBVIOUS
<1>1. /\ m \in Nat /\ m <= Len(a) /\ m <= Len(b)
      /\ \A i \in 1 .. m : a[i] = b[i]
      /\ m < Len(a) /\ m < Len(b) => a[m + 1] # b[m + 1]
  BY SharedFacts
<1>2. Less(a, b) <=> m < Len(b) /\ (m < Len(a) => a[m + 1] < b[m + 1])
  BY DEF Less
<1>3. Less(a, b) => LessAt(a, b, m)
  BY <1>1, <1>2 DEF LessAt
<1>4. ASSUME NEW n \in Nat, LessAt(a, b, n) PROVE Less(a, b)
  <2>1. /\ n <= Len(a) /\ n < Len(b) /\ Len(a) \in Nat /\ Len(b) \in Nat
        /\ \A i \in 1 .. n : a[i] = b[i]
        /\ n < Len(a) => a[n + 1] < b[n + 1]
    BY <1>4 DEF LessAt
  <2>2. CASE m < n
    <3>1. m + 1 \in 1 .. n /\ m < Len(a) /\ m < Len(b)
      BY <1>1, <2>1, <2>2, SMTT(30)
    <3> QED
      BY <1>1, <2>1, <3>1
  <2>3. CASE n < m
    <3>1. n + 1 \in 1 .. m /\ n < Len(a) /\ a[n + 1] \in Nat
      BY <1>1, <2>1, <2>3
    <3>2. a[n + 1] = b[n + 1]
      BY <1>1, <3>1
    <3> QED
      BY <2>1, <3>1, <3>2
  <2>4. CASE n = m
    BY <1>2, <2>1, <2>4
  <2> QED
    BY <1>1, <2>2, <2>3, <2>4
<1> QED
  BY <1>1, <1>3, <1>4

\* No key is before itself.
LEMMA LessIrreflexive ==
    ASSUME NEW a \in Seq(Nat)
    PROVE  ~Less(a, a)
<1> SUFFICES ASSUME NEW n \in Nat, LessAt(a, a, n) PROVE FALSE
  BY LessIs
<1>1. n < Len(a) /\ a[n + 1] < a[n + 1] /\ a[n + 1] \in Nat
  BY DEF LessAt
<1> QED
  BY <1>1

\* What is before a key is before all that come after it.
LEMMA LessTransitive ==
    ASSUME NEW a \in Seq(Nat), NEW b \in Seq(Nat), NEW c \in Seq(Nat), Less(a, b), Less(b, c)
    PROVE  Less(a, c)
<1>1. PICK m \in Nat : LessAt(a, b, m)
  BY LessIs
<1>2. PICK n \in Nat : LessAt(b, c, n)
  BY LessIs
<1>3. /\ Len(a) \in Nat /\ Len(b) \in Nat /\ Len(c) \in Nat
      /\ \A i \in 1 .. Len(a) : a[i] \in Nat
      /\ \A i \in 1 .. Len(b) : b[i] \in Nat
      /\ \A i \in 1 .. Len(c) : c[i] \in Nat
  OBVIOUS
<1>4. CASE m < n
  <2>1. \A i \in 1 .. m : i \in 1 .. n
    BY <1>4
  <2>2. m + 1 \in 1 .. n /\ m + 1 \in 1 .. Len(b)
    BY <1>2, <1>3, <1>4 DEF LessAt
  <2>3. LessAt(a, c, m)
    BY <1>1, <1>2, <1>3, <1>4, <2>1, <2>2, SMTT(30) DEF LessAt
  <2> QED
    BY <2>3, LessIs
<1>5. CASE n <= m
  <2>1. \A i \in 1 .. n : i \in 1 .. m
    BY <1>5
  <2>2. n <= Len(a) /\ n < Len(c) /\ n < Len(b)
    BY <1>1, <1>2, <1>3, <1>5 DEF LessAt
  <2>3. ASSUME n < Len(a) PROVE a[n + 1] < c[n + 1]
    <3>1. n + 1 \in 1 .. Len(a) /\ n + 1 \in 1 .. Len(b) /\ n + 1 \in 1 .. Len(c)
      BY <1>3, <2>2, <2>3
    <3>2. b[n + 1] < c[n + 1]
      BY <1>2, <2>2 DEF LessAt
    <3>3. CASE n = m
      <4>1. a[n + 1] < b[n + 1]
        BY <1>1, <2>3, <3>3 DEF LessAt
      <4>2. PICK p \in Nat, q \in Nat, r \in Nat : p = a[n + 1] /\ q = b[n + 1] /\ r = c[n + 1]
        BY <1>3, <3>1, Zenon
      <4>3. p < q /\ q < r
        BY <3>2, <4>1, <4>2, Zenon
      <4>4. p < r
        BY <4>3
      <4> QED
        BY <4>2, <4>4, Zenon
    <3>4. CASE n < m
      <4>1. n + 1 \in 1 .. m
        BY <3>4
      <4>2. a[n + 1] = b[n + 1]
        BY <1>1, <4>1 DEF LessAt
      <4> QED
        BY <3>2, <4>2
    <3> QED
      BY <1>5, <3>3, <3>4
  <2>4. \A i \in 1 .. n : a[i] = c[i]
    BY <1>1, <1>2, <2>1 DEF LessAt
  <2>5. LessAt(a, c, n)
    BY <2>2, <2>3, <2>4 DEF LessAt
  <2> QED
    BY <2>5, LessIs
<1> QED
  BY <1>4, <1>5

\* Of two different keys one is before the other.
LEMMA LessTotal ==
    ASSUME NEW a \in Seq(Nat), NEW b \in Seq(Nat)
    PROVE  a = b \/ Less(a, b) \/ Less(b, a)
<1> PICK m : m = SharedPrefixLen(a, b)
  OBVIOUS
<1>1. /\ m \in Nat /\ m <= Len(a) /\ m <= Len(b) /\ Len(a) \in Nat /\ Len(b) \in Nat
      /\ \A i \in 1 .. m : a[i] = b[i]
      /\ m < Len(a) /\ m < Len(b) => a[m + 1] # b[m + 1]
  BY SharedFacts
<1>2. CASE m < Len(a) /\ m < Len(b)
  <2>1. a[m + 1] \in Nat /\ b[m + 1] \in Nat
    BY <1>1, <1>2
  <2>2. LessAt(a, b, m) \/ LessAt(b, a, m)
    BY <1>1, <1>2, <2>1 DEF LessAt
  <2> QED
    BY <1>1, <2>2, LessIs
<1>3. CASE m = Len(a) /\ m < Len(b)
  <2>1. LessAt(a, b, m)
    BY <1>1, <1>3 DEF LessAt
  <2> QED
    BY <1>1, <2>1, LessIs
<1>4. CASE m = Len(b) /\ m < Len(a)
  <2>1. LessAt(b, a, m)
    BY <1>1, <1>4 DEF LessAt
  <2> QED
    BY <1>1, <2>1, LessIs
<1>5. CASE m = Len(b) /\ m = Len(a)
  <2>1. Len(a) = Len(b) /\ \A i \in 1 .. Len(a) : a[i] = b[i]
    BY <1>1, <1>5
  <2> QED
    BY <2>1, SeqEqual
<1> QED
  BY <1>1, <1>2, <1>3, <1>4, <1>5

-----------------------------------------------------------------------------
(***************************************************************************)
(* varintx: a number is read back from what it was encoded to.             *)
(***************************************************************************)
\* The weights of the digits.
LEMMA PowEquation ==
    /\ Pow[0] = 1
    /\ \A n \in Nat : Pow[n] \in Nat \ {0} /\ Pow[n + 1] = Base * Pow[n]
<1> DEFINE D == Nat \ {0}
           nxt == [p \in D |-> Base * p]
           Step(f, n) == IF n = 0 THEN 1 ELSE Base * f[n - 1]
<1>1. Base \in Nat /\ Base > 1
  BY VarintAssumption
<1>2. \A p \in D : Base * p \in D
  BY <1>1
<1>3. nxt \in [D -> D] /\ 1 \in D
  BY <1>2
<1>4. PICK f : IsIteration(f, D, nxt, 1)
  <2> HIDE DEF nxt, D
  <2> QED
    BY <1>3, Iterates
<1>5. f \in [Nat -> D] /\ f[0] = 1 /\ \A n \in Nat : f[n] \in D /\ f[n + 1] = Base * f[n]
  BY <1>4 DEF IsIteration
<1>6. \A n \in Nat : f[n] = Step(f, n)
  <2> SUFFICES ASSUME NEW n \in Nat, n # 0 PROVE f[n] = Base * f[n - 1]
    BY <1>5
  <2>1. n - 1 \in Nat /\ (n - 1) + 1 = n
    OBVIOUS
  <2> QED
    BY <1>5, <2>1
<1>7. f = [n \in Nat |-> f[n]]
  BY <1>5
<1>8. f = [n \in Nat |-> Step(f, n)]
  BY <1>6, <1>7
<1>9. Pow = [n \in Nat |-> Step(Pow, n)]
  BY <1>8 DEF Pow
<1>10. Pow[0] = 1 /\ \A n \in Nat : Pow[n + 1] = Base * Pow[n]
  <2>1. \A n \in Nat : Pow[n] = Step(Pow, n)
    <3> HIDE DEF Step
    <3> QED
      BY <1>9, Zenon
  <2>2. \A n \in Nat : n + 1 \in Nat /\ n + 1 # 0 /\ (n + 1) - 1 = n
    OBVIOUS
  <2>3. Pow[0] = 1
    BY <2>1
  <2>4. ASSUME NEW n \in Nat PROVE Pow[n + 1] = Base * Pow[n]
    <3>1. Pow[n + 1] = Base * Pow[(n + 1) - 1]
      BY <2>1, <2>2
    <3> QED
      BY <2>2, <3>1
  <2> QED
    BY <2>3, <2>4
<1>11. ASSUME NEW n \in Nat PROVE Pow[n] \in D
  <2> DEFINE G == {k \in Nat : Pow[k] \in D}
  <2>1. ASSUME NEW k \in Nat, k \in G PROVE k + 1 \in G
    BY <1>2, <1>10, <2>1
  <2>2. Climbs(G, n)
    BY <1>3, <1>10, <2>1 DEF Climbs
  <2>3. n \in G
    <3> HIDE DEF G
    <3> QED
      BY <2>2, Climb
  <2> QED
    BY <2>3
<1> QED
  BY <1>10, <1>11

\* They grow, beyond every number.
LEMMA PowGrows ==
    ASSUME NEW n \in Nat
    PROVE  Pow[n] > n /\ \A k \in 0 .. n : Pow[k] <= Pow[n]
<1> DEFINE G == {k \in Nat : Pow[k] > k}
<1>1. Base \in Nat /\ Base > 1
  BY VarintAssumption
<1>2. ASSUME NEW k \in Nat PROVE Pow[k] \in Nat /\ Pow[k] > 0 /\ Pow[k + 1] \in Nat /\ Pow[k + 1] >= Pow[k] + Pow[k]
  <2>1. Pow[k] \in Nat /\ Pow[k] > 0 /\ Pow[k + 1] = Base * Pow[k]
    BY PowEquation
  <2>2. \A p \in Nat : Base * p \in Nat /\ Base * p >= p + p
    BY <1>1
  <2> QED
    BY <2>1, <2>2
<1>3. ASSUME NEW k \in Nat, k \in G PROVE k + 1 \in G
  BY <1>2, <1>3
<1>4. 0 \in G
  BY PowEquation
<1>5. n \in G
  <2> HIDE DEF G
  <2>1. Climbs(G, n)
    BY <1>3, <1>4 DEF Climbs
  <2> QED
    BY <2>1, Climb
<1>6. ASSUME NEW k \in 0 .. n PROVE Pow[k] <= Pow[n]
  <2> DEFINE H == {j \in Nat : Pow[k] <= Pow[k + j]}
  <2>1. ASSUME NEW j \in Nat, j \in H PROVE j + 1 \in H
    <3>1. k + j \in Nat /\ k + (j + 1) = (k + j) + 1 /\ k \in Nat
      OBVIOUS
    <3>2. Pow[k + j] <= Pow[k + j + 1] /\ Pow[k + j] \in Nat /\ Pow[k] \in Nat /\ Pow[k + j + 1] \in Nat
      BY <1>2, <3>1
    <3> QED
      BY <2>1, <3>1, <3>2
  <2>2. 0 \in H
    BY <1>2
  <2>3. n - k \in Nat /\ k + (n - k) = n
    OBVIOUS
  <2>4. n - k \in H
    <3> HIDE DEF H
    <3>1. Climbs(H, n - k)
      BY <2>1, <2>2 DEF Climbs
    <3> QED
      BY <2>3, <3>1, Climb
  <2> QED
    BY <2>3, <2>4
<1> QED
  BY <1>5, <1>6

\* The largest number needs at most MaxLen digits.
LEMMA MaxUintFacts ==
    /\ MaxUint \in Nat /\ MaxUint < Pow[MaxLen]
    /\ MaxUint < Pow[MaxLen - 1] + Pow[MaxLen - 1]
<1>1. MaxLen - 1 \in Nat /\ (MaxLen - 1) + 1 = MaxLen /\ Base \in Nat /\ Base > 1
  BY VarintAssumption
<1>2. PICK p \in Nat \ {0} : p = Pow[MaxLen - 1]
  BY <1>1, PowEquation
<1>3. Pow[MaxLen] = Base * p
  BY <1>1, <1>2, PowEquation
<1>4. MaxUint = 2 * p - 1
  BY <1>2 DEF MaxUint
<1>5. Base * p >= p + p
  BY <1>1
<1> QED
  BY <1>1, <1>2, <1>3, <1>4, <1>5

\* How many digits a number has.
IsLength(x, l) == l \in Nat \ {0} /\ x < Pow[l] /\ (l = 1 \/ Pow[l - 1] <= x)

DigitsOf(x) == CHOOSE l \in Nat \ {0} : IsLength(x, l)

\* The bytes of a number, each given by its place.
Encoded(x) ==
    [i \in 1 .. DigitsOf(x) |->
        IF i < DigitsOf(x) THEN ((x \div Pow[i - 1]) % Base) + Base ELSE x \div Pow[i - 1]]

\* A number has one length.
LEMMA LengthUnique ==
    ASSUME NEW x \in Nat, NEW k, IsLength(x, k), NEW l, IsLength(x, l)
    PROVE  k = l
<1>1. ASSUME NEW i, NEW j, IsLength(x, i), IsLength(x, j), i < j PROVE FALSE
  <2>1. i \in Nat /\ j \in Nat /\ j - 1 \in Nat /\ i \in 0 .. j - 1 /\ j # 1
    BY <1>1 DEF IsLength
  <2>2. Pow[i] <= Pow[j - 1] /\ Pow[i] \in Nat /\ Pow[j - 1] \in Nat
    BY <2>1, PowGrows, PowEquation
  <2>3. x < Pow[i] /\ Pow[j - 1] <= x
    BY <1>1, <2>1 DEF IsLength
  <2> QED
    BY <2>2, <2>3
<1>2. k \in Nat /\ l \in Nat
  BY DEF IsLength
<1> QED
  BY <1>1, <1>2

\* And it has a length.
LEMMA LengthExists ==
    ASSUME NEW x \in Nat
    PROVE  IsLength(x, DigitsOf(x))
<1> DEFINE T == {l \in Nat \ {0} : x < Pow[l]}
<1>1. x + 1 \in T
  <2>1. Pow[x + 1] > x + 1 /\ Pow[x + 1] \in Nat
    BY PowGrows, PowEquation
  <2> QED
    BY <2>1
<1>2. T \in SUBSET Nat
  OBVIOUS
<1>3. PICK l \in T : \A k \in T : l <= k
  BY <1>1, <1>2, LeastNatural
<1>4. l \in Nat \ {0} /\ x < Pow[l]
  BY <1>3
<1>5. ASSUME l # 1, ~(Pow[l - 1] <= x) PROVE FALSE
  <2>1. l - 1 \in Nat \ {0} /\ l - 1 \in Nat
    BY <1>4, <1>5
  <2>2. Pow[l - 1] \in Nat
    BY <2>1, PowEquation
  <2>3. l - 1 \in T
    BY <1>5, <2>1, <2>2
  <2> QED
    BY <1>3, <1>4, <2>3
<1>6. IsLength(x, l)
  BY <1>4, <1>5 DEF IsLength
<1>7. \E k \in Nat \ {0} : IsLength(x, k)
  BY <1>4, <1>6
<1> QED
  BY <1>7 DEF DigitsOf

\* Quotients.
LEMMA Division ==
    ASSUME NEW x \in Nat, NEW p \in Nat \ {0}
    PROVE  /\ x \div p \in Nat /\ x % p \in 0 .. p - 1 /\ x = p * (x \div p) + (x % p)
           /\ x \div 1 = x
<1>1. x \div p \in Nat
  OBVIOUS
<1>2. x % p \in 0 .. p - 1
  OBVIOUS
<1>3. x = p * (x \div p) + (x % p)
  OBVIOUS
<1>4. x \div 1 = x
  OBVIOUS
<1> QED
  BY <1>1, <1>2, <1>3, <1>4

\* A number below q times p has a quotient by p below q, and the other way round.
LEMMA QuotientBelow ==
    ASSUME NEW x \in Nat, NEW p \in Nat \ {0}, NEW q \in Nat
    PROVE  x < q * p <=> x \div p < q
<1> PICK d \in Nat, r \in 0 .. p - 1 : d = x \div p /\ x = p * d + r
  BY Division
<1>1. d < q => x < q * p
  <2> SUFFICES ASSUME d < q PROVE x < q * p
    OBVIOUS
  <2>1. (d + 1) * p <= q * p
    BY Z3
  <2>2. (d + 1) * p = p * d + p
    OBVIOUS
  <2>3. q * p \in Nat /\ p * d \in Nat
    OBVIOUS
  <2> QED
    BY <2>1, <2>2, <2>3
<1>2. ~(d < q) => ~(x < q * p)
  <2> SUFFICES ASSUME q <= d PROVE q * p <= x
    OBVIOUS
  <2>1. q * p <= d * p
    BY Z3
  <2>2. q * p \in Nat /\ p * d \in Nat /\ d * p = p * d
    OBVIOUS
  <2> QED
    BY <2>1, <2>2
<1> QED
  BY <1>1, <1>2

\* Encoded is a sequence of bytes.
LEMMA EncodedType ==
    ASSUME NEW x \in Nat
    PROVE  /\ Encoded(x) \in Seq(Nat) /\ Len(Encoded(x)) = DigitsOf(x) /\ DigitsOf(x) \in Nat \ {0}
           /\ \A i \in 1 .. DigitsOf(x) :
                 Encoded(x)[i] = IF i < DigitsOf(x) THEN ((x \div Pow[i - 1]) % Base) + Base ELSE x \div Pow[i - 1]
<1> DEFINE B(i) == IF i < DigitsOf(x) THEN ((x \div Pow[i - 1]) % Base) + Base ELSE x \div Pow[i - 1]
<1>1. DigitsOf(x) \in Nat \ {0}
  BY LengthExists DEF IsLength
<1>2. ASSUME NEW i \in 1 .. DigitsOf(x) PROVE B(i) \in Nat
  <2>1. i - 1 \in Nat
    BY <1>1
  <2>2. Pow[i - 1] \in Nat \ {0}
    BY <2>1, PowEquation
  <2>3. x \div Pow[i - 1] \in Nat
    BY <2>2, Division
  <2>4. Base \in Nat \ {0}
    BY VarintAssumption
  <2>5. (x \div Pow[i - 1]) % Base \in Nat
    BY <2>3, <2>4
  <2> QED
    BY <2>3, <2>4, <2>5
<1>3. Encoded(x) = [i \in 1 .. DigitsOf(x) |-> B(i)]
  BY DEF Encoded
<1>4. \A i \in 1 .. DigitsOf(x) : Encoded(x)[i] = B(i)
  BY <1>3
<1> HIDE DEF B
<1>5. Encoded(x) \in [1 .. DigitsOf(x) -> Nat]
  BY <1>2, <1>3
<1>6. Encoded(x) \in Seq(Nat) /\ Len(Encoded(x)) = DigitsOf(x)
  BY <1>1, <1>5
<1> QED
  BY <1>1, <1>4, <1>6 DEF B

\* A number has one digit more than its quotient.
LEMMA LengthStep ==
    ASSUME NEW x \in Nat
    PROVE  /\ x < Base => DigitsOf(x) = 1
           /\ x >= Base => DigitsOf(x) = DigitsOf(x \div Base) + 1
<1>1. Base \in Nat \ {0} /\ Base > 1 /\ Pow[1] = Base /\ Pow[0] = 1
  <2>1. Base \in Nat \ {0} /\ Base > 1
    BY VarintAssumption
  <2>2. Pow[0 + 1] = Base * Pow[0] /\ Pow[0] = 1
    BY PowEquation
  <2> QED
    BY <2>1, <2>2
<1>2. IsLength(x, DigitsOf(x))
  BY LengthExists
<1>3. ASSUME x < Base PROVE DigitsOf(x) = 1
  <2>1. IsLength(x, 1)
    BY <1>1, <1>3 DEF IsLength
  <2> QED
    BY <1>2, <2>1, LengthUnique
<1>4. ASSUME x >= Base PROVE DigitsOf(x) = DigitsOf(x \div Base) + 1
  <2> PICK q \in Nat : q = x \div Base
    BY <1>1, Division
  <2> PICK l : l = DigitsOf(q)
    OBVIOUS
  <2>1. l \in Nat \ {0} /\ q < Pow[l] /\ (l = 1 \/ Pow[l - 1] <= q)
    BY LengthExists DEF IsLength
  <2>2. Pow[l] \in Nat /\ Pow[l + 1] = Base * Pow[l] /\ Pow[l + 1] \in Nat
    BY <2>1, PowEquation
  <2>3. x < Pow[l] * Base
    BY <1>1, <2>1, <2>2, QuotientBelow
  <2>4. x < Pow[l + 1]
    <3>1. Pow[l] * Base = Base * Pow[l]
      BY <1>1, <2>2
    <3> QED
      BY <2>2, <2>3, <3>1
  <2>5. Pow[l] <= x
    <3>1. CASE l = 1
      BY <1>1, <1>4, <3>1
    <3>2. CASE l # 1
      <4>1. l - 1 \in Nat /\ (l - 1) + 1 = l /\ Pow[l - 1] <= q
        BY <2>1, <3>2
      <4>2. Pow[l - 1] \in Nat /\ Pow[l] = Base * Pow[l - 1]
        BY <4>1, PowEquation
      <4>3. ~(x < Pow[l - 1] * Base)
        <5>1. ~(q < Pow[l - 1])
          BY <4>1, <4>2
        <5> QED
          BY <1>1, <4>2, <5>1, QuotientBelow
      <4>4. Pow[l - 1] * Base = Pow[l]
        BY <1>1, <4>2
      <4> QED
        BY <2>2, <4>3, <4>4
    <3> QED
      BY <3>1, <3>2
  <2>6. IsLength(x, l + 1)
    <3>1. l + 1 \in Nat \ {0} /\ (l + 1) - 1 = l
      BY <2>1
    <3> QED
      BY <2>4, <2>5, <3>1 DEF IsLength
  <2>7. DigitsOf(x) = l + 1
    BY <1>2, <2>6, LengthUnique
  <2> QED
    BY <2>7
<1> QED
  BY <1>3, <1>4

\* The quotient of a quotient.
LEMMA QuotientTwice ==
    ASSUME NEW x \in Nat, NEW p \in Nat \ {0}, NEW q \in Nat \ {0}
    PROVE  (x \div p) \div q = x \div (p * q)
  OBVIOUS

\* The bytes of a number are its lowest digit and the bytes of the quotient.
LEMMA EncodedStep ==
    ASSUME NEW x \in Nat
    PROVE  Encoded(x) = IF x >= Base THEN <<(x % Base) + Base>> \o Encoded(x \div Base) ELSE <<x>>
<1>1. Base \in Nat \ {0} /\ Base > 1 /\ Pow[0] = 1 /\ x \div 1 = x
  BY VarintAssumption, PowEquation, Division
<1>2. /\ Encoded(x) \in Seq(Nat) /\ Len(Encoded(x)) = DigitsOf(x) /\ DigitsOf(x) \in Nat \ {0}
      /\ \A i \in 1 .. DigitsOf(x) :
            Encoded(x)[i] = IF i < DigitsOf(x) THEN ((x \div Pow[i - 1]) % Base) + Base ELSE x \div Pow[i - 1]
  BY EncodedType
<1>3. CASE ~(x >= Base)
  <2>1. DigitsOf(x) = 1
    BY <1>1, <1>3, LengthStep
  <2>2. Encoded(x)[1] = x \div Pow[1 - 1]
    BY <1>2, <2>1
  <2>3. Encoded(x)[1] = x
    BY <1>1, <2>2
  <2>4. <<x>> \in Seq(Nat) /\ Len(<<x>>) = 1 /\ <<x>>[1] = x
    OBVIOUS
  <2>5. \A i \in 1 .. 1 : i = 1
    OBVIOUS
  <2>6. Encoded(x) = <<x>>
    BY <1>2, <2>1, <2>3, <2>4, <2>5, SeqEqual
  <2> QED
    BY <1>3, <2>6
<1>4. CASE x >= Base
  <2> PICK q \in Nat : q = x \div Base
    BY <1>1, Division
  <2> PICK l : l = DigitsOf(q)
    OBVIOUS
  <2>1. /\ Encoded(q) \in Seq(Nat) /\ Len(Encoded(q)) = l /\ l \in Nat \ {0}
        /\ \A i \in 1 .. l : Encoded(q)[i] = IF i < l THEN ((q \div Pow[i - 1]) % Base) + Base ELSE q \div Pow[i - 1]
    BY EncodedType
  <2>2. DigitsOf(x) = l + 1
    BY <1>4, LengthStep
  <2>a. x % Base \in Nat /\ (x % Base) + Base \in Nat
    BY <1>1
  <2>b. PICK d \in Nat : d = (x % Base) + Base
    BY <2>a
  <2>c. PICK r : r = <<d>> \o Encoded(q)
    OBVIOUS
  <2>3. r \in Seq(Nat) /\ Len(r) = l + 1 /\ r[1] = d /\ \A i \in 2 .. l + 1 : r[i] = Encoded(q)[i - 1]
    BY <2>c, <2>1
  <2>4. ASSUME NEW i \in 1 .. l + 1 PROVE Encoded(x)[i] = r[i]
    <3>1. CASE i = 1
      <4>1. Encoded(x)[1] = ((x \div Pow[1 - 1]) % Base) + Base
        BY <1>2, <2>1, <2>2, <3>1
      <4>2. Encoded(x)[1] = (x % Base) + Base
        <5>1. 1 - 1 = 0
          OBVIOUS
        <5>2. x \div Pow[1 - 1] = x
          BY <1>1, <5>1, Zenon
        <5> QED
          BY <4>1, <5>2, Zenon
      <4> QED
        BY <2>b, <2>3, <3>1, <4>2
    <3>2. CASE i # 1
      <4> PICK p : p = Pow[i - 2]
        OBVIOUS
      <4>1. i \in 2 .. l + 1 /\ i - 1 \in 1 .. l /\ i - 2 \in Nat /\ (i - 2) + 1 = i - 1 /\ (i - 1) - 1 = i - 2
        BY <2>1, <3>2
      <4>2. p \in Nat \ {0} /\ Pow[i - 1] = Base * p
        BY <4>1, PowEquation
      <4>3. q \div p = x \div (Base * p)
        BY <1>1, <4>2, QuotientTwice
      <4>4. Encoded(q)[i - 1] = IF i - 1 < l THEN ((q \div p) % Base) + Base ELSE q \div p
        BY <2>1, <4>1
      <4>5. Encoded(x)[i] = IF i < l + 1 THEN ((x \div Pow[i - 1]) % Base) + Base ELSE x \div Pow[i - 1]
        BY <1>2, <2>2
      <4>6. i - 1 < l <=> i < l + 1
        BY <2>1
      <4> QED
        BY <2>3, <4>1, <4>2, <4>3, <4>4, <4>5, <4>6
    <3> QED
      BY <3>1, <3>2
  <2>5. Encoded(x) = r
    BY <1>2, <2>2, <2>3, <2>4, SeqEqual
  <2> QED
    BY <1>4, <2>b, <2>c, <2>5
<1> QED
  BY <1>3, <1>4

\* This is what EncodeUint64 writes.
LEMMA EncodeIs ==
    ASSUME NEW x \in 0 .. MaxUint
    PROVE  EncodeUint64(x) = Encoded(x)
<1> DEFINE D == 0 .. MaxUint
           Step(f, n) == IF n >= Base THEN <<(n % Base) + Base>> \o f[n \div Base] ELSE <<n>>
           g == [n \in D |-> Encoded(n)]
           enc == CHOOSE f : f = [n \in D |-> Step(f, n)]
<1>1. Base \in Nat \ {0} /\ Base > 1 /\ MaxUint \in Nat
  BY VarintAssumption, MaxUintFacts
<1>2. ASSUME NEW n \in D, n >= Base PROVE n \div Base \in D /\ n \div Base < n
  <2>1. n \in Nat /\ n \div Base \in Nat
    BY <1>1
  <2>2. n * Base >= n + n
    BY <1>1, <2>1
  <2>3. n < n * Base
    BY <1>1, <1>2, <2>1, <2>2
  <2>4. n \div Base < n
    BY <1>1, <2>1, <2>3, QuotientBelow
  <2> QED
    BY <1>1, <2>1, <2>4
<1>3. ASSUME NEW n \in D PROVE g[n] = Step(g, n)
  <2>1. n \in Nat /\ g[n] = Encoded(n)
    OBVIOUS
  <2>2. n >= Base => g[n \div Base] = Encoded(n \div Base)
    BY <1>2
  <2>3. Encoded(n) = IF n >= Base THEN <<(n % Base) + Base>> \o Encoded(n \div Base) ELSE <<n>>
    BY <2>1, EncodedStep
  <2> HIDE DEF g
  <2> QED
    BY <2>1, <2>2, <2>3
<1>4. g = [n \in D |-> g[n]]
  OBVIOUS
<1> HIDE DEF g
<1>5. g = [n \in D |-> Step(g, n)]
  BY <1>3, <1>4
<1>6. enc = [n \in D |-> Step(enc, n)]
  BY <1>5
<1> HIDE DEF enc
<1>7. \A n \in D : enc[n] = Step(enc, n)
  <2> HIDE DEF Step, D
  <2> QED
    BY <1>6, Zenon
<1>8. enc[x] = g[x]
  <2> DEFINE B == {n \in D : enc[n] # g[n]}
  <2> SUFFICES ASSUME B # {} PROVE FALSE
    OBVIOUS
  <2>1. B \in SUBSET Nat
    BY <1>1
  <2>2. PICK n \in B : \A k \in B : n <= k
    BY <2>1, LeastNatural
  <2>3. n \in D /\ n \in Nat /\ enc[n] # g[n]
    BY <2>1, <2>2
  <2>4. enc[n] = Step(enc, n) /\ g[n] = Step(g, n)
    BY <1>3, <1>7, <2>3
  <2>5. CASE n >= Base
    <3>1. n \div Base \in D /\ n \div Base < n /\ n \div Base \in Nat
      BY <1>1, <1>2, <2>3, <2>5
    <3>2. n \div Base \notin B
      BY <2>2, <2>3, <3>1
    <3>3. enc[n \div Base] = g[n \div Base]
      BY <3>1, <3>2
    <3> QED
      BY <2>3, <2>4, <2>5, <3>3
  <2>6. CASE ~(n >= Base)
    BY <2>3, <2>4, <2>6
  <2> QED
    BY <2>5, <2>6
<1>9. EncodeUint64(x) = enc[x]
  BY DEF EncodeUint64, enc
<1>10. g[x] = Encoded(x)
  BY DEF g
<1> QED
  BY <1>8, <1>9, <1>10

\* Digit i of a number, with its weight.
Weight(x, i) == ((x \div Pow[i - 1]) % Base) * Pow[i - 1]

\* A digit completes the remainder.
LEMMA DigitStep ==
    ASSUME NEW x \in Nat, NEW i \in Nat \ {0}
    PROVE  Weight(x, i) \in Nat /\ x % Pow[i] = Weight(x, i) + (x % Pow[i - 1])
<1>1. Base \in Nat \ {0}
  BY VarintAssumption
<1>a. PICK p : p = Pow[i - 1]
  OBVIOUS
<1>2. i - 1 \in Nat /\ (i - 1) + 1 = i
  OBVIOUS
<1>3. Pow[i - 1] \in Nat \ {0} /\ Pow[(i - 1) + 1] = Base * Pow[i - 1]
  BY <1>2, PowEquation
<1>4. p \in Nat \ {0} /\ Pow[i] = Base * p
  BY <1>2, <1>3, <1>a
<1>b. PICK q \in Nat, r \in 0 .. p - 1 : q = x \div p /\ r = x % p /\ x = p * q + r
  <2>1. x \div p \in Nat /\ x % p \in 0 .. p - 1 /\ x = p * (x \div p) + (x % p)
    BY <1>4, Division
  <2> QED
    BY <2>1, Zenon
<1>c. PICK v \in Nat, u \in 0 .. Base - 1 : v = q \div Base /\ u = q % Base /\ q = Base * v + u
  <2>1. q \div Base \in Nat /\ q % Base \in 0 .. Base - 1 /\ q = Base * (q \div Base) + (q % Base)
    BY <1>1, Division
  <2> QED
    BY <2>1, Zenon
<1>5. Weight(x, i) = u * p
  BY <1>a, <1>b, <1>c DEF Weight
<1>6. u * p \in Nat /\ r \in Nat /\ u \in Nat
  BY <1>1, <1>4, <1>b, <1>c
<1>7. u * p + r < Base * p
  <2>1. (u + 1) * p <= Base * p
    <3>1. u + 1 <= Base
      BY <1>1, <1>c
    <3> HIDE <1>a, <1>b, <1>c
    <3> QED
      BY <1>1, <1>4, <1>6, <3>1, Z3
  <2>2. (u + 1) * p = u * p + p
    BY <1>4, <1>6
  <2>3. Base * p \in Nat /\ r < p
    BY <1>1, <1>4, <1>b
  <2> QED
    BY <1>4, <1>6, <2>1, <2>2, <2>3
<1>8. x = (Base * p) * v + (u * p + r)
  <2>1. p * q = p * (Base * v + u)
    BY <1>c
  <2>2. p * (Base * v + u) = (Base * p) * v + u * p
    BY <1>1, <1>4, <1>6
  <2>3. (Base * p) * v \in Nat
    BY <1>1, <1>4
  <2> QED
    BY <1>4, <1>6, <1>b, <2>1, <2>2, <2>3
<1>9. x % (Base * p) = u * p + r
  <2>a. PICK m \in Nat \ {0}, y \in Nat : m = Base * p /\ y = u * p + r
    BY <1>1, <1>4, <1>6
  <2>1. y < m /\ x = m * v + y
    BY <1>7, <1>8, <2>a
  <2>2. x % m = y
    BY <2>1
  <2> QED
    BY <2>a, <2>2
<1> QED
  BY <1>4, <1>5, <1>6, <1>9, <1>a, <1>b

\* The digits up to place l.
AreDigits(d, x, l) == d = [i \in 1 .. l |-> Weight(x, i)]

\* They add up to the remainder.
LEMMA DigitSum ==
    ASSUME NEW x \in Nat, NEW l \in Nat, NEW d, AreDigits(d, x, l)
    PROVE  d \in [1 .. l -> Nat] /\ SumOf(d, 1 .. l) = x % Pow[l]
<1>1. \A i \in 1 .. l : d[i] = Weight(x, i)
  BY DEF AreDigits
<1>2. \A i \in 1 .. l : i \in Nat \ {0} /\ Weight(x, i) \in Nat
  BY DigitStep
<1>3. d \in [1 .. l -> Nat]
  BY <1>1, <1>2 DEF AreDigits
<1>5. IsFiniteSet(1 .. l)
  BY FS_Interval
<1>6. /\ SumOf(d, {}) = 0 /\ \A s \in SUBSET (1 .. l) : SumOf(d, s) \in Nat
      /\ \A s \in SUBSET (1 .. l) : \A i \in s : SumOf(d, s) = d[i] + SumOf(d, s \ {i})
  <2> DEFINE D == 1 .. l
  <2>1. IsFiniteSet(D) /\ d \in [D -> Nat]
    BY <1>3, <1>5
  <2> HIDE DEF D
  <2>2. /\ SumOf(d, {}) = 0 /\ \A s \in SUBSET D : SumOf(d, s) \in Nat
        /\ \A s \in SUBSET D : \A i \in s : SumOf(d, s) = d[i] + SumOf(d, s \ {i})
    BY <2>1, SumStep
  <2> QED
    BY <2>2 DEF D
<1> DEFINE G == {j \in 0 .. l : SumOf(d, 1 .. j) = x % Pow[j]}
<1>7. 0 \in G
  <2>1. 1 .. 0 = {} /\ Pow[0] = 1 /\ x % 1 = 0
    BY PowEquation
  <2> QED
    BY <1>6, <2>1
<1>8. ASSUME NEW j \in 0 .. l - 1, j \in G PROVE j + 1 \in G
  <2>1. j + 1 \in 1 .. l /\ (j + 1) - 1 = j /\ 1 .. j + 1 \in SUBSET (1 .. l) /\ j + 1 \in 1 .. j + 1
    OBVIOUS
  <2>2. (1 .. j + 1) \ {j + 1} = 1 .. j
    OBVIOUS
  <2>3. SumOf(d, 1 .. j + 1) = d[j + 1] + SumOf(d, 1 .. j)
    BY <1>6, <2>1, <2>2
  <2>4. x % Pow[j + 1] = d[j + 1] + (x % Pow[j])
    <3>1. j + 1 \in Nat \ {0}
      OBVIOUS
    <3>2. x % Pow[j + 1] = Weight(x, j + 1) + (x % Pow[(j + 1) - 1])
      BY <3>1, DigitStep
    <3> QED
      BY <1>1, <2>1, <3>2
  <2> QED
    BY <1>8, <2>1, <2>3, <2>4
<1>9. l \in G
  <2> HIDE DEF G
  <2>1. Climbs(G, l)
    BY <1>7, <1>8 DEF Climbs
  <2> QED
    BY <2>1, Climb
<1> QED
  BY <1>3, <1>9

\* b begins with c.
StartsWith(b, c) == Len(c) <= Len(b) /\ \A i \in 1 .. Len(c) : b[i] = c[i]

\* The bytes of a number, read from the front: the high bit, the digit.
LEMMA ByteOfNumber ==
    ASSUME NEW x \in 0 .. MaxUint, NEW b \in Seq(Nat), StartsWith(b, Encoded(x))
    PROVE  LET l == DigitsOf(x)
           IN  /\ l \in 1 .. MaxLen /\ l <= Len(b) /\ x < Pow[l]
               /\ \A i \in 1 .. l : (b[i] % Base) * Pow[i - 1] = Weight(x, i)
               /\ \A i \in 1 .. l - 1 : b[i] >= Base
               /\ b[l] < Base
               /\ l = MaxLen => b[l] <= 1
<1> DEFINE l == DigitsOf(x)
<1>1. MaxUint \in Nat /\ MaxUint < Pow[MaxLen] /\ MaxUint < Pow[MaxLen - 1] + Pow[MaxLen - 1]
  BY MaxUintFacts
<1>2. x \in Nat /\ x <= MaxUint
  BY <1>1
<1>3. l \in Nat \ {0} /\ x < Pow[l] /\ (l = 1 \/ Pow[l - 1] <= x)
  BY <1>2, LengthExists DEF IsLength
<1>4. Base \in Nat /\ Base > 1 /\ MaxLen \in Nat \ {0}
  BY VarintAssumption
<1>5. /\ Len(Encoded(x)) = l
      /\ \A i \in 1 .. l :
            Encoded(x)[i] = IF i < l THEN ((x \div Pow[i - 1]) % Base) + Base ELSE x \div Pow[i - 1]
  BY <1>2, EncodedType
<1> HIDE DEF l
<1>6. /\ l <= Len(b)
      /\ \A i \in 1 .. l : b[i] = IF i < l THEN ((x \div Pow[i - 1]) % Base) + Base ELSE x \div Pow[i - 1]
  BY <1>5 DEF StartsWith
<1>7. ASSUME NEW i \in 1 .. l PROVE Pow[i - 1] \in Nat \ {0} /\ Pow[i] = Pow[i - 1] * Base /\ x \div Pow[i - 1] \in Nat
  <2>1. i - 1 \in Nat /\ (i - 1) + 1 = i
    BY <1>3
  <2>2. Pow[i - 1] \in Nat \ {0} /\ Pow[(i - 1) + 1] = Base * Pow[i - 1]
    BY <2>1, PowEquation
  <2>3. Base * Pow[i - 1] = Pow[i - 1] * Base
    BY <1>4, <2>2
  <2>4. x \div Pow[i - 1] \in Nat
    BY <1>2, <2>2, Division
  <2> QED
    BY <2>1, <2>2, <2>3, <2>4
<1>8. l <= MaxLen
  <2> SUFFICES ASSUME MaxLen < l PROVE FALSE
    BY <1>3, <1>4
  <2>1. l - 1 \in Nat /\ MaxLen \in 0 .. l - 1 /\ l # 1
    BY <1>3, <1>4
  <2>2. Pow[MaxLen] <= Pow[l - 1] /\ Pow[l - 1] \in Nat /\ Pow[MaxLen] \in Nat
    BY <1>4, <2>1, PowGrows, PowEquation
  <2> QED
    BY <1>1, <1>2, <1>3, <2>1, <2>2
<1>9. l \in 1 .. l
  BY <1>3
<1>10. b[l] = x \div Pow[l - 1] /\ b[l] \in Nat
  BY <1>3, <1>6, <1>7, <1>9
<1>11. b[l] < Base
  <2>a. PICK p \in Nat \ {0} : p = Pow[l - 1]
    BY <1>7, <1>9
  <2>1. x < Base * p
    <3>1. Pow[l] = Base * p
      BY <1>4, <1>7, <1>9, <2>a
    <3> QED
      BY <1>3, <3>1
  <2>2. x \div p < Base
    BY <1>2, <1>4, <2>1, QuotientBelow
  <2> QED
    BY <1>10, <2>2, <2>a
<1>12. ASSUME l = MaxLen PROVE b[l] <= 1
  <2>a. PICK p \in Nat \ {0} : p = Pow[l - 1]
    BY <1>7, <1>9
  <2>1. x < 2 * p
    BY <1>1, <1>2, <1>12, <2>a
  <2>2. x \div p < 2
    BY <1>2, <2>1, QuotientBelow
  <2> QED
    BY <1>10, <2>2, <2>a
<1>13. ASSUME NEW i \in 1 .. l - 1 PROVE b[i] >= Base /\ b[i] % Base = (x \div Pow[i - 1]) % Base
  <2>0. i \in 1 .. l
    BY <1>3
  <2>a. PICK q \in Nat : q = x \div Pow[i - 1]
    BY <2>0, <1>7, Zenon
  <2>1. b[i] = (q % Base) + Base
    BY <1>3, <1>6, <2>a
  <2>b. PICK r \in 0 .. Base - 1 : r = q % Base
    BY <1>4
  <2>2. (r + Base) % Base = r
    BY <1>4
  <2> QED
    BY <1>4, <2>1, <2>2, <2>a, <2>b
<1>14. b[l] % Base = b[l] /\ (x \div Pow[l - 1]) % Base = x \div Pow[l - 1]
  <2>1. \A z \in Nat : z < Base => z % Base = z
    BY <1>4
  <2> QED
    BY <1>10, <1>11, <2>1
<1>15. ASSUME NEW i \in 1 .. l PROVE (b[i] % Base) * Pow[i - 1] = Weight(x, i)
  <2>1. b[i] % Base = (x \div Pow[i - 1]) % Base
    <3>1. i = l \/ i \in 1 .. l - 1
      BY <1>3
    <3> QED
      BY <1>10, <1>13, <1>14, <3>1
  <2> QED
    BY <2>1 DEF Weight
<1> QED
  BY <1>3, <1>6, <1>8, <1>11, <1>12, <1>13, <1>15 DEF l

\* A set's smallest member.
LEMMA MinIs ==
    ASSUME NEW S \in SUBSET Nat, NEW m \in S, \A n \in S : m <= n
    PROVE  Min(S) = m
<1> DEFINE P(z) == z \in S /\ \A y \in S : z <= y
<1>1. P(m)
  OBVIOUS
<1>2. \A z : P(z) => z = m
  OBVIOUS
<1>3. Min(S) = CHOOSE z : P(z)
  BY DEF Min
<1> HIDE DEF P
<1> QED
  BY <1>1, <1>2, <1>3

\* What DecodeUint64 makes of n bytes.
DigitsOfBytes(b, n) ==
    LET Digit(i) == (b[i] % Base) * Pow[i - 1] IN MapThenSumSet(Digit, 1 .. n)

\* The sum over the digits of a number is the number.
LEMMA DigitsFold ==
    ASSUME NEW x \in Nat, NEW l \in Nat, x < Pow[l], NEW b,
           \A i \in 1 .. l : (b[i] % Base) * Pow[i - 1] = Weight(x, i)
    PROVE  DigitsOfBytes(b, l) = x
<1> DEFINE S == 1 .. l
           Digit(i) == (b[i] % Base) * Pow[i - 1]
           d == [i \in S |-> Weight(x, i)]
           Step(f, s) == IF s = {} THEN 0 ELSE Digit(AnyOf(s)) + f[s \ {AnyOf(s)}]
           iter == CHOOSE f : f = [s \in SUBSET S |-> Step(f, s)]
<1>1. DigitsOfBytes(b, l) = iter[S]
  BY DEF DigitsOfBytes, MapThenSumSet, MapThenFoldSet, AnyOf
<1>2. AreDigits(d, x, l)
  BY DEF AreDigits
<1>3. \A i \in S : d[i] = Digit(i)
  OBVIOUS
<1>4. IsFiniteSet(S)
  BY FS_Interval
<1> HIDE DEF d
<1>5. d \in [S -> Nat] /\ SumOf(d, S) = x % Pow[l]
  BY <1>2, DigitSum
<1> HIDE DEF S, iter, Digit
<1>6. ASSUME NEW s \in SUBSET S, s # {} PROVE d[AnyOf(s)] = Digit(AnyOf(s))
  BY <1>3, <1>6 DEF AnyOf
<1>7. PICK f : IsSum(d, S, f)
  BY <1>4, <1>5, SumIsFold
<1>8. f = [s \in SUBSET S |-> Step(f, s)]
  BY <1>6, <1>7 DEF IsSum
<1>9. iter = [s \in SUBSET S |-> Step(iter, s)]
  BY <1>8 DEF iter
<1>10. IsSum(d, S, iter)
  BY <1>6, <1>9 DEF IsSum
<1>11. iter[S] = x % Pow[l]
  BY <1>4, <1>5, <1>10, SumIsFold
<1>12. x % Pow[l] = x
  <2>1. Pow[l] \in Nat \ {0}
    BY PowEquation
  <2> QED
    BY <2>1
<1> QED
  BY <1>1, <1>11, <1>12

\* A number is read back from its bytes, whatever follows them.
THEOREM NumberReadsBack ==
    ASSUME NEW x \in 0 .. MaxUint, NEW b \in Seq(Nat), StartsWith(b, EncodeUint64(x))
    PROVE  DecodeUint64(b) = [x |-> x, n |-> Len(EncodeUint64(x))]
<1> DEFINE l == DigitsOf(x)
           ends == {i \in 1 .. Len(b) : b[i] < Base}
           n == Min(ends)
<1>1. x \in Nat
  BY MaxUintFacts
<1>2. EncodeUint64(x) = Encoded(x) /\ Len(EncodeUint64(x)) = l
  BY <1>1, EncodeIs, EncodedType
<1>3. /\ l \in 1 .. MaxLen /\ l <= Len(b) /\ x < Pow[l]
      /\ \A i \in 1 .. l : (b[i] % Base) * Pow[i - 1] = Weight(x, i)
      /\ \A i \in 1 .. l - 1 : b[i] >= Base
      /\ b[l] < Base
      /\ l = MaxLen => b[l] <= 1
  BY <1>2, ByteOfNumber
<1>4. DecodeUint64(b) = IF ends = {} \/ n > MaxLen \/ (n = MaxLen /\ b[n] > 1)
                        THEN DecodeError
                        ELSE [x |-> DigitsOfBytes(b, n), n |-> n]
  BY DEF DecodeUint64, DigitsOfBytes
<1>5. Base \in Nat /\ MaxLen \in Nat
  BY VarintAssumption
<1>6. l \in ends /\ ends \in SUBSET Nat
  BY <1>3, <1>5
<1>7. \A i \in ends : l <= i
  <2> SUFFICES ASSUME NEW i \in ends, i < l PROVE FALSE
    BY <1>3, <1>5
  <2>1. i \in 1 .. l - 1 /\ b[i] < Base /\ b[i] \in Nat
    BY <1>3, <1>5
  <2> QED
    BY <1>3, <1>5, <2>1
<1>8. n = l
  <2> HIDE DEF ends, l
  <2> QED
    BY <1>6, <1>7, MinIs
<1>9. ~(ends = {} \/ n > MaxLen \/ (n = MaxLen /\ b[n] > 1))
  <2>1. b[l] \in Nat /\ l \in Nat
    BY <1>3, <1>5
  <2> HIDE DEF ends, n, l
  <2> QED
    BY <1>3, <1>5, <1>6, <1>8, <2>1
<1>10. DigitsOfBytes(b, n) = x
  <2>1. l \in Nat
    BY <1>3, <1>5
  <2> HIDE DEF n, l
  <2>2. DigitsOfBytes(b, l) = x
    BY <1>1, <1>3, <2>1, DigitsFold
  <2> QED
    BY <1>8, <2>2
<1> HIDE DEF n, l, ends
<1> QED
  BY <1>2, <1>4, <1>8, <1>9, <1>10

\* The bytes of a number are at least one.
LEMMA EncodeType ==
    ASSUME NEW x \in 0 .. MaxUint
    PROVE  EncodeUint64(x) \in Seq(Nat) /\ Len(EncodeUint64(x)) \in Nat \ {0}
<1>1. x \in Nat
  BY MaxUintFacts
<1>2. EncodeUint64(x) = Encoded(x)
  BY EncodeIs
<1> QED
  BY <1>1, <1>2, EncodedType

-----------------------------------------------------------------------------
(***************************************************************************)
(* bloomx: a filter answers "absent" for no key that was recorded.         *)
(***************************************************************************)
\* The filter f with the keys at the places s added.
Filled(f, keys, s) == [bits |-> UNION {Probes(f, keys[i]) : i \in s}, m |-> f.m, k |-> f.k]

\* An empty filter.
IsEmptyFilter(f) == f = [bits |-> {}, m |-> f.m, k |-> f.k]

\* To add one more is FilterAdd.
LEMMA FilledStep ==
    ASSUME NEW f, IsEmptyFilter(f), NEW keys, NEW s
    PROVE  /\ Filled(f, keys, {}) = f
           /\ \A i \in s : Filled(f, keys, s) = FilterAdd(Filled(f, keys, s \ {i}), keys[i])
<1>1. Filled(f, keys, {}) = f
  <2>1. UNION {Probes(f, keys[i]) : i \in {}} = {}
    OBVIOUS
  <2> QED
    BY <2>1 DEF Filled, IsEmptyFilter
<1>2. ASSUME NEW i \in s PROVE Filled(f, keys, s) = FilterAdd(Filled(f, keys, s \ {i}), keys[i])
  <2> DEFINE P(j) == Probes(f, keys[j])
             U(z) == UNION {P(j) : j \in z}
  <2>1. U(s) = U(s \ {i}) \cup P(i)
    <3> HIDE DEF P
    <3> QED
      OBVIOUS
  <2>2. Probes(Filled(f, keys, s \ {i}), keys[i]) = P(i)
    BY DEF Filled, Probes
  <2>3. FilterAdd(Filled(f, keys, s \ {i}), keys[i]) = [bits |-> U(s \ {i}) \cup P(i), m |-> f.m, k |-> f.k]
    <3> DEFINE h == Filled(f, keys, s \ {i})
    <3>1. h = [bits |-> U(s \ {i}), m |-> f.m, k |-> f.k]
      BY DEF Filled
    <3>2. FilterAdd(h, keys[i]) = [h EXCEPT !.bits = @ \cup P(i)]
      BY <2>2 DEF FilterAdd
    <3> HIDE DEF h, U, P
    <3>3. [h EXCEPT !.bits = @ \cup P(i)] = [bits |-> U(s \ {i}) \cup P(i), m |-> f.m, k |-> f.k]
      BY <3>1, SMTT(30)
    <3> QED
      BY <3>2, <3>3, Zenon DEF h
  <2>4. Filled(f, keys, s) = [bits |-> U(s), m |-> f.m, k |-> f.k]
    BY DEF Filled
  <2> HIDE DEF U, P
  <2> QED
    BY <2>1, <2>3, <2>4
<1> QED
  BY <1>1, <1>2

\* The fold of Build, whatever it starts with, adds all.
LEMMA BuildFolds ==
    ASSUME NEW T, NEW keys \in Seq(T), NEW base, IsEmptyFilter(base)
    PROVE  FoldLeft(FilterAdd, base, keys) = Filled(base, keys, DOMAIN keys)
<1> DEFINE S == DOMAIN keys
           Step(f, s) == IF s = {} THEN base ELSE FilterAdd(f[s \ {Max(s)}], keys[Max(s)])
           iter == CHOOSE f : f = [s \in SUBSET S |-> Step(f, s)]
           g == [s \in SUBSET S |-> Filled(base, keys, s)]
<1>1. FoldLeft(FilterAdd, base, keys) = iter[S]
  BY DEF FoldLeft, MapThenFoldSet
<1>2. ASSUME NEW s \in SUBSET S, s # {} PROVE Max(s) \in s /\ s \ {Max(s)} \in SUBSET S
  <2>1. S = 1 .. Len(keys) /\ IsFiniteSet(S)
    BY FS_Interval
  <2>2. s \in SUBSET Nat /\ IsFiniteSet(s)
    BY <2>1, FS_Subset
  <2>3. \E m \in s : \A n \in s : n <= m
    BY <1>2, <2>2, GreatestOfFinite
  <2>4. \E m \in s : \A n \in s : m >= n
    BY <2>2, <2>3
  <2>5. Max(s) \in s
    BY <2>4 DEF Max
  <2> QED
    BY <2>5
<1>3. ASSUME NEW s \in SUBSET S PROVE g[s] = Step(g, s)
  <2>1. CASE s = {}
    BY <2>1, FilledStep
  <2>2. CASE s # {}
    <3>1. Filled(base, keys, s) = FilterAdd(Filled(base, keys, s \ {Max(s)}), keys[Max(s)])
      BY <1>2, <2>2, FilledStep
    <3>2. g[s \ {Max(s)}] = Filled(base, keys, s \ {Max(s)}) /\ g[s] = Filled(base, keys, s)
      BY <1>2, <2>2
    <3> HIDE DEF g
    <3> QED
      BY <2>2, <3>1, <3>2
  <2> QED
    BY <2>1, <2>2
<1>4. g = [s \in SUBSET S |-> g[s]]
  OBVIOUS
<1>5. g[S] = Filled(base, keys, S)
  OBVIOUS
<1> HIDE DEF g, S
<1>6. g = [s \in SUBSET S |-> Step(g, s)]
  BY <1>3, <1>4
<1>7. iter = [s \in SUBSET S |-> Step(iter, s)]
  BY <1>6
<1> HIDE DEF iter
<1>8. \A s \in SUBSET S : iter[s] = Step(iter, s)
  <2> HIDE DEF Step
  <2> QED
    BY <1>7, Zenon
<1> DEFINE G == {s \in SUBSET S : iter[s] = g[s]}
<1>9. ASSUME NEW s \in SUBSET S, \A x \in s : s \ {x} \in G PROVE s \in G
  <2>1. CASE s = {}
    BY <1>3, <1>8, <2>1
  <2>2. CASE s # {}
    <3>1. iter[s \ {Max(s)}] = g[s \ {Max(s)}]
      BY <1>2, <1>9, <2>2
    <3>2. iter[s] = Step(iter, s) /\ g[s] = Step(g, s)
      BY <1>3, <1>8
    <3> QED
      BY <2>2, <3>1, <3>2
  <2> QED
    BY <2>1, <2>2
<1>10. S \in G
  <2>1. IsFiniteSet(S)
    BY FS_Interval DEF S
  <2>2. Inductive(S, G)
    <3> HIDE DEF G
    <3> QED
      BY <1>9 DEF Inductive
  <2> HIDE DEF G
  <2> QED
    BY <2>1, <2>2, PartInduction
<1> QED
  BY <1>1, <1>5, <1>10 DEF S

\* No key the Builder has recorded is ever reported absent.
THEOREM FilterHasKeys ==
    ASSUME NEW T, NEW keys \in Seq(T), NEW i \in 1 .. Len(keys)
    PROVE  MayContain(Build(keys), keys[i])
<1> DEFINE f == NewFilter(Len(keys))
           h == Filled(f, keys, DOMAIN keys)
<1>1. IsEmptyFilter(f)
  BY DEF IsEmptyFilter, NewFilter
<1> HIDE DEF f
<1>2. Build(keys) = h
  BY <1>1, BuildFolds DEF Build, f
<1>3. Probes(h, keys[i]) = Probes(f, keys[i])
  BY DEF Filled, Probes
<1>4. h.bits = UNION {Probes(f, keys[j]) : j \in DOMAIN keys}
  BY DEF Filled
<1>5. i \in DOMAIN keys
  OBVIOUS
<1> HIDE DEF h
<1>6. Probes(f, keys[i]) \subseteq h.bits
  BY <1>4, <1>5
<1> QED
  BY <1>2, <1>3, <1>6 DEF MayContain

-----------------------------------------------------------------------------
(***************************************************************************)
(* blockIter.Next: an entry is read back from what Add wrote, given the    *)
(* bytes its key shares with the one before.                               *)
(***************************************************************************)
\* data has c behind the first o bytes.
HasAt(data, o, c) == o + Len(c) <= Len(data) /\ \A i \in 1 .. Len(c) : data[o + i] = c[i]

\* Reading from there begins with it.
LEMMA FromStarts ==
    ASSUME NEW data \in Seq(Nat), NEW o \in Nat, NEW c \in Seq(Nat), HasAt(data, o, c)
    PROVE  From(data, o) \in Seq(Nat) /\ StartsWith(From(data, o), c)
<1>1. o <= Len(data) /\ Len(c) \in Nat /\ Len(data) \in Nat /\ o + Len(c) <= Len(data)
  BY DEF HasAt
<1>2. From(data, o) \in Seq(Nat) /\ Len(From(data, o)) = Len(data) - o
  BY <1>1 DEF From
<1>3. ASSUME NEW i \in 1 .. Len(c) PROVE From(data, o)[i] = data[o + i]
  <2>1. i \in 1 .. Len(data) - o
    BY <1>1
  <2> QED
    BY <1>1, <2>1 DEF From
<1> QED
  BY <1>1, <1>2, <1>3 DEF HasAt, StartsWith

\* Of two strings in a row each has its place.
LEMMA HasBoth ==
    ASSUME NEW data \in Seq(Nat), NEW o \in Nat, NEW c \in Seq(Nat), NEW d \in Seq(Nat), HasAt(data, o, c \o d)
    PROVE  HasAt(data, o, c) /\ HasAt(data, o + Len(c), d)
<1>1. Len(c \o d) = Len(c) + Len(d) /\ Len(c) \in Nat /\ Len(d) \in Nat /\ Len(data) \in Nat
  OBVIOUS
<1>2. o + (Len(c) + Len(d)) <= Len(data) /\ \A i \in 1 .. Len(c) + Len(d) : data[o + i] = (c \o d)[i]
  BY <1>1 DEF HasAt
<1>3. ASSUME NEW i \in 1 .. Len(c) PROVE data[o + i] = c[i]
  <2>1. i \in 1 .. Len(c) + Len(d) /\ (c \o d)[i] = c[i]
    BY <1>1
  <2> QED
    BY <1>2, <2>1
<1>4. ASSUME NEW i \in 1 .. Len(d) PROVE data[(o + Len(c)) + i] = d[i]
  <2>1. Len(c) + i \in 1 .. Len(c) + Len(d) /\ (c \o d)[Len(c) + i] = d[i] /\ o + (Len(c) + i) = (o + Len(c)) + i
    BY <1>1, SMTT(30)
  <2> QED
    BY <1>2, <2>1
<1> QED
  BY <1>1, <1>2, <1>3, <1>4 DEF HasAt

\* What is at a place is what SubSeq cuts out.
LEMMA CutOut ==
    ASSUME NEW data \in Seq(Nat), NEW o \in Nat, NEW c \in Seq(Nat), HasAt(data, o, c)
    PROVE  SubSeq(data, o + 1, o + Len(c)) = c
<1>1. Len(c) \in Nat /\ Len(data) \in Nat /\ o + Len(c) <= Len(data)
  BY DEF HasAt
<1>2. PICK r : r = SubSeq(data, o + 1, o + Len(c))
  OBVIOUS
<1>3. r \in Seq(Nat) /\ Len(r) = Len(c) /\ \A i \in 1 .. Len(c) : r[i] = data[o + i]
  BY <1>1, <1>2, SMTT(30)
<1>4. \A i \in 1 .. Len(c) : r[i] = c[i]
  BY <1>3 DEF HasAt
<1>5. r = c
  BY <1>3, <1>4, SeqEqual
<1> QED
  BY <1>2, <1>5

\* A number at a place is read back.
LEMMA NumberAt ==
    ASSUME NEW data \in Seq(Nat), NEW o \in Nat, NEW x \in 0 .. MaxUint, HasAt(data, o, EncodeUint64(x))
    PROVE  /\ DecodeUint64(From(data, o)) = [x |-> x, n |-> Len(EncodeUint64(x))]
           /\ DecodeUint64(From(data, o)) # DecodeError
<1>1. EncodeUint64(x) \in Seq(Nat) /\ Len(EncodeUint64(x)) \in Nat \ {0}
  BY EncodeType
<1>2. From(data, o) \in Seq(Nat) /\ StartsWith(From(data, o), EncodeUint64(x))
  BY <1>1, FromStarts
<1>3. DecodeUint64(From(data, o)) = [x |-> x, n |-> Len(EncodeUint64(x))]
  BY <1>2, NumberReadsBack
<1> QED
  BY <1>1, <1>3 DEF DecodeError

\* Where the four numbers of an entry begin, and where the last ends.
NumberPlaces(data, o) ==
    CHOOSE f : f = [i \in 0 .. 4 |-> IF i = 0 THEN o ELSE f[i - 1] + DecodeUint64(From(data, f[i - 1])).n]

\* Each begins where the one before ends.
LEMMA NumberPlacesIs ==
    ASSUME NEW data, NEW o
    PROVE  LET at == NumberPlaces(data, o)
           IN  /\ at[0] = o
               /\ at[1] = at[0] + DecodeUint64(From(data, at[0])).n
               /\ at[2] = at[1] + DecodeUint64(From(data, at[1])).n
               /\ at[3] = at[2] + DecodeUint64(From(data, at[2])).n
               /\ at[4] = at[3] + DecodeUint64(From(data, at[3])).n
<1> DEFINE D(p) == p + DecodeUint64(From(data, p)).n
           Step(f, i) == IF i = 0 THEN o ELSE D(f[i - 1])
           g == [i \in 0 .. 4 |-> IF i = 0 THEN o ELSE IF i = 1 THEN D(o) ELSE IF i = 2 THEN D(D(o))
                                  ELSE IF i = 3 THEN D(D(D(o))) ELSE D(D(D(D(o))))]
           at == CHOOSE f : f = [i \in 0 .. 4 |-> Step(f, i)]
<1>1. NumberPlaces(data, o) = at
  BY DEF NumberPlaces
<1> HIDE DEF D
<1>2. g[0] = o /\ g[1] = D(g[0]) /\ g[2] = D(g[1]) /\ g[3] = D(g[2]) /\ g[4] = D(g[3])
  OBVIOUS
<1>3. g = [i \in 0 .. 4 |-> g[i]]
  OBVIOUS
<1> HIDE DEF g
<1>4. \A i \in 0 .. 4 : i = 0 \/ i = 1 \/ i = 2 \/ i = 3 \/ i = 4
  OBVIOUS
<1>5. 1 - 1 = 0 /\ 2 - 1 = 1 /\ 3 - 1 = 2 /\ 4 - 1 = 3
  OBVIOUS
<1>6. ASSUME NEW i \in 0 .. 4 PROVE g[i] = Step(g, i)
  BY <1>2, <1>4, <1>5
<1>7. g = [i \in 0 .. 4 |-> Step(g, i)]
  BY <1>3, <1>6
<1>8. at = [i \in 0 .. 4 |-> Step(at, i)]
  BY <1>7
<1> HIDE DEF at
<1>9. \A i \in 0 .. 4 : at[i] = Step(at, i)
  BY <1>8
<1>10. at[0] = o /\ at[1] = D(at[0]) /\ at[2] = D(at[1]) /\ at[3] = D(at[2]) /\ at[4] = D(at[3])
  BY <1>9, <1>5
<1> QED
  BY <1>1, <1>10 DEF D

\* What an entry's value is stored as.
Stored(e) == IF e.val = Tombstone THEN << >> ELSE e.val

Flag(e) == IF e.val = Tombstone THEN flagDelete ELSE flagValue

\* An iterator on an entry that ends at off.
Positioned(e, off) ==
    [off |-> off, key |-> e.key, value |-> Stored(e), seq |-> e.seq, deleted |-> e.val = Tombstone, valid |-> TRUE]

\* The parts of an entry and what they say.
LEMMA EntryType ==
    ASSUME NEW e \in TableEntry
    PROVE  /\ e.key \in Seq(Nat) /\ Len(e.key) \in 0 .. MaxUint /\ e.key \in Key
           /\ Stored(e) \in Seq(Nat) /\ Len(Stored(e)) \in 0 .. MaxUint
           /\ e.seq \in 0 .. MaxUint
           /\ Flag(e) \in Nat /\ (Flag(e) = flagDelete <=> e.val = Tombstone)
           /\ \A off : EntryOf(Positioned(e, off)) = e
<1>1. MaxUint \in Nat
  BY MaxUintFacts
<1>2. e.key \in Key /\ e.val \in Value \cup {Tombstone} /\ e.seq \in 0 .. MaxUint
  BY DEF TableEntry
<1>3. e.key \in Seq(Nat) /\ Len(e.key) \in 0 .. MaxUint
  BY <1>1, <1>2, ByteAssumption
<1>4. Stored(e) \in Seq(Nat) /\ Len(Stored(e)) \in 0 .. MaxUint
  BY <1>1, <1>2, ByteAssumption DEF Stored
<1>5. Flag(e) \in Nat /\ (Flag(e) = flagDelete <=> e.val = Tombstone)
  BY DEF Flag, flagDelete, flagValue
<1>6. ASSUME NEW off PROVE EntryOf(Positioned(e, off)) = e
  <2>1. e = [key |-> e.key, val |-> e.val, seq |-> e.seq]
    BY DEF TableEntry
  <2> QED
    BY <2>1 DEF EntryOf, Positioned, Stored
<1> QED
  BY <1>2, <1>3, <1>4, <1>5, <1>6

\* Two strings in a row.
LEMMA Concat ==
    ASSUME NEW c \in Seq(Nat), NEW d \in Seq(Nat)
    PROVE  c \o d \in Seq(Nat) /\ Len(c \o d) = Len(c) + Len(d) /\ Len(c) \in Nat /\ Len(d) \in Nat
  OBVIOUS

\* The parts of an entry at o, which end at a, b, c and d; then come the flag, the key and the value.
PartsAt(data, o, e, s, a, b, c, d) ==
    /\ HasAt(data, o, EncodeUint64(s)) /\ a = o + Len(EncodeUint64(s))
    /\ HasAt(data, a, EncodeUint64(Len(e.key) - s)) /\ b = a + Len(EncodeUint64(Len(e.key) - s))
    /\ HasAt(data, b, EncodeUint64(Len(Stored(e)))) /\ c = b + Len(EncodeUint64(Len(Stored(e))))
    /\ HasAt(data, c, EncodeUint64(e.seq)) /\ d = c + Len(EncodeUint64(e.seq))
    /\ HasAt(data, d, <<Flag(e)>>)
    /\ HasAt(data, d + 1, From(e.key, s))
    /\ HasAt(data, d + 1 + (Len(e.key) - s), Stored(e))
    /\ o + Len(EncodeEntry(e, s)) = d + 1 + (Len(e.key) - s) + Len(Stored(e))
    /\ o < Len(data) /\ o + Len(EncodeEntry(e, s)) <= Len(data)

\* The bytes of an entry: their number, and what is where they are stored.
LEMMA EntryBytes ==
    ASSUME NEW e \in TableEntry, NEW s \in 0 .. Len(e.key)
    PROVE  /\ EncodeEntry(e, s) \in Seq(Nat) /\ Len(EncodeEntry(e, s)) \in Nat \ {0}
           /\ \A data \in Seq(Nat), o \in Nat : HasAt(data, o, EncodeEntry(e, s)) =>
                 \E a \in Nat, b \in Nat, c \in Nat, d \in Nat : PartsAt(data, o, e, s, a, b, c, d)
<1>1. /\ e.key \in Seq(Nat) /\ Len(e.key) \in 0 .. MaxUint
      /\ Stored(e) \in Seq(Nat) /\ Len(Stored(e)) \in 0 .. MaxUint
      /\ e.seq \in 0 .. MaxUint /\ Flag(e) \in Nat
  BY EntryType
<1>2. MaxUint \in Nat /\ s \in 0 .. MaxUint /\ Len(e.key) - s \in 0 .. MaxUint
  BY <1>1, MaxUintFacts
<1>3. PICK c1, c2, c3, c4, c5, c6, c7 :
        /\ c1 = EncodeUint64(s) /\ c2 = EncodeUint64(Len(e.key) - s) /\ c3 = EncodeUint64(Len(Stored(e)))
        /\ c4 = EncodeUint64(e.seq) /\ c5 = <<Flag(e)>> /\ c6 = From(e.key, s) /\ c7 = Stored(e)
  OBVIOUS
<1>4. EncodeEntry(e, s) = c1 \o c2 \o c3 \o c4 \o c5 \o c6 \o c7
  BY <1>3 DEF EncodeEntry, Stored, Flag
<1>5. c1 \in Seq(Nat) /\ Len(c1) \in Nat \ {0}
  BY <1>2, <1>3, EncodeType
<1>6. c2 \in Seq(Nat) /\ Len(c2) \in Nat \ {0}
  BY <1>2, <1>3, EncodeType
<1>7. c3 \in Seq(Nat) /\ Len(c3) \in Nat \ {0}
  BY <1>1, <1>3, EncodeType
<1>8. c4 \in Seq(Nat) /\ Len(c4) \in Nat \ {0}
  BY <1>1, <1>3, EncodeType
<1>9. c5 \in Seq(Nat) /\ Len(c5) = 1
  BY <1>1, <1>3
<1>10. c6 \in Seq(Nat) /\ Len(c6) = Len(e.key) - s
  BY <1>1, <1>3, SMTT(30) DEF From
<1>11. c7 \in Seq(Nat) /\ Len(c7) \in Nat
  BY <1>1, <1>3
<1>12. PICK r2, r3, r4, r5, r6 :
         r2 = c1 \o c2 /\ r3 = r2 \o c3 /\ r4 = r3 \o c4 /\ r5 = r4 \o c5 /\ r6 = r5 \o c6
  OBVIOUS
<1>13. EncodeEntry(e, s) = r6 \o c7
  BY <1>4, <1>12
<1>a. PICK l1 \in Nat, l2 \in Nat, l3 \in Nat, l4 \in Nat, l6 \in Nat, l7 \in Nat :
        l1 = Len(c1) /\ l2 = Len(c2) /\ l3 = Len(c3) /\ l4 = Len(c4) /\ l6 = Len(e.key) - s /\ l7 = Len(c7)
  <2>1. Len(e.key) - s \in Nat
    BY <1>1
  <2>2. Len(c1) \in Nat /\ Len(c2) \in Nat /\ Len(c3) \in Nat /\ Len(c4) \in Nat /\ Len(c7) \in Nat
    BY <1>5, <1>6, <1>7, <1>8, <1>11
  <2> QED
    BY <2>1, <2>2, Zenon
<1>14. /\ r2 \in Seq(Nat) /\ Len(r2) = l1 + l2
       /\ r3 \in Seq(Nat) /\ Len(r3) = l1 + l2 + l3
       /\ r4 \in Seq(Nat) /\ Len(r4) = l1 + l2 + l3 + l4
       /\ r5 \in Seq(Nat) /\ Len(r5) = l1 + l2 + l3 + l4 + 1
       /\ r6 \in Seq(Nat) /\ Len(r6) = l1 + l2 + l3 + l4 + 1 + l6
  <2>1. r2 \in Seq(Nat) /\ Len(r2) = l1 + l2
    BY <1>5, <1>6, <1>12, <1>a, Concat, Zenon
  <2>2. r3 \in Seq(Nat) /\ Len(r3) = l1 + l2 + l3
    BY <1>7, <1>12, <2>1, <1>a, Concat, Zenon
  <2>3. r4 \in Seq(Nat) /\ Len(r4) = l1 + l2 + l3 + l4
    BY <1>8, <1>12, <2>2, <1>a, Concat, ZenonT(60)
  <2>4. r5 \in Seq(Nat) /\ Len(r5) = l1 + l2 + l3 + l4 + 1
    BY <1>9, <1>12, <2>3, Concat, ZenonT(60)
  <2>5. r6 \in Seq(Nat) /\ Len(r6) = l1 + l2 + l3 + l4 + 1 + l6
    <3>1. r5 \o c6 \in Seq(Nat) /\ Len(r5 \o c6) = Len(r5) + Len(c6)
      BY <1>10, <2>4, Concat
    <3>2. Len(c6) = l6 /\ r6 = r5 \o c6
      BY <1>10, <1>12, <1>a, Zenon
    <3> QED
      BY <2>4, <3>1, <3>2, Zenon
  <2> QED
    BY <2>1, <2>2, <2>3, <2>4, <2>5
<1>15. EncodeEntry(e, s) \in Seq(Nat) /\ Len(EncodeEntry(e, s)) = l1 + l2 + l3 + l4 + 1 + l6 + l7
  <2>1. r6 \o c7 \in Seq(Nat) /\ Len(r6 \o c7) = Len(r6) + Len(c7)
    BY <1>11, <1>14, Concat
  <2>2. Len(c7) = l7 /\ Len(r6) = l1 + l2 + l3 + l4 + 1 + l6
    BY <1>14, <1>a
  <2> QED
    BY <1>13, <2>1, <2>2, Zenon
<1>16. l1 > 0
  BY <1>5, <1>a
<1>17. ASSUME NEW data \in Seq(Nat), NEW o \in Nat, HasAt(data, o, EncodeEntry(e, s))
       PROVE  \E a \in Nat, b \in Nat, c \in Nat, d \in Nat : PartsAt(data, o, e, s, a, b, c, d)
  <2>1. HasAt(data, o, r6) /\ HasAt(data, o + Len(r6), c7)
    BY <1>11, <1>13, <1>14, <1>17, HasBoth
  <2>2. HasAt(data, o, r5) /\ HasAt(data, o + Len(r5), c6)
    BY <1>10, <1>12, <1>14, <2>1, HasBoth
  <2>3. HasAt(data, o, r4) /\ HasAt(data, o + Len(r4), c5)
    BY <1>9, <1>12, <1>14, <2>2, HasBoth
  <2>4. HasAt(data, o, r3) /\ HasAt(data, o + Len(r3), c4)
    BY <1>8, <1>12, <1>14, <2>3, HasBoth
  <2>5. HasAt(data, o, r2) /\ HasAt(data, o + Len(r2), c3)
    BY <1>7, <1>12, <1>14, <2>4, HasBoth
  <2>6. HasAt(data, o, c1) /\ HasAt(data, o + Len(c1), c2)
    BY <1>5, <1>6, <1>12, <1>14, <2>5, HasBoth
  <2>7. PICK a, b, c, d : a = o + Len(c1) /\ b = o + Len(r2) /\ c = o + Len(r3) /\ d = o + Len(r4)
    OBVIOUS
  <2>8. /\ a \in Nat /\ b \in Nat /\ c \in Nat /\ d \in Nat
        /\ b = a + Len(c2) /\ c = b + Len(c3) /\ d = c + Len(c4)
        /\ o + Len(r5) = d + 1 /\ o + Len(r6) = d + 1 + (Len(e.key) - s)
        /\ o + Len(EncodeEntry(e, s)) = d + 1 + (Len(e.key) - s) + Len(c7)
    <3>1. a = o + l1 /\ b = o + (l1 + l2) /\ c = o + (l1 + l2 + l3) /\ d = o + (l1 + l2 + l3 + l4)
      BY <1>14, <1>a, <2>7, Zenon
    <3>2. /\ a \in Nat /\ b \in Nat /\ c \in Nat /\ d \in Nat
          /\ b = a + l2 /\ c = b + l3 /\ d = c + l4
          /\ o + (l1 + l2 + l3 + l4 + 1) = d + 1 /\ o + (l1 + l2 + l3 + l4 + 1 + l6) = d + 1 + l6
          /\ o + (l1 + l2 + l3 + l4 + 1 + l6 + l7) = d + 1 + l6 + l7
      BY <3>1
    <3> QED
      BY <1>14, <1>15, <1>a, <3>2, Zenon
  <2>9. o + Len(EncodeEntry(e, s)) <= Len(data) /\ o < Len(data)
    <3>1. o + Len(EncodeEntry(e, s)) <= Len(data) /\ Len(data) \in Nat
      BY <1>17 DEF HasAt
    <3>2. Len(EncodeEntry(e, s)) > 0 /\ Len(EncodeEntry(e, s)) \in Nat
      BY <1>15, <1>16
    <3> QED
      BY <3>1, <3>2
  <2>10. HasAt(data, a, c2) /\ HasAt(data, b, c3) /\ HasAt(data, c, c4) /\ HasAt(data, d, c5)
         /\ HasAt(data, d + 1, c6) /\ HasAt(data, d + 1 + (Len(e.key) - s), c7)
    BY <2>1, <2>2, <2>3, <2>4, <2>5, <2>6, <2>7, <2>8, Zenon
  <2>11. PartsAt(data, o, e, s, a, b, c, d)
    BY <1>3, <2>6, <2>7, <2>8, <2>9, <2>10, Zenon DEF PartsAt
  <2> QED
    BY <2>8, <2>11, Zenon
<1>18. Len(EncodeEntry(e, s)) \in Nat \ {0}
  BY <1>15, <1>16
<1>19. EncodeEntry(e, s) \in Seq(Nat)
  BY <1>15
<1> QED
  BY <1>17, <1>18, <1>19

\* Two keys have the first s bytes in common.
SameFront(a, b, s) == SubSeq(a, 1, s) = SubSeq(b, 1, s)

\* The second of two strings in a row.
LEMMA ConcatRight ==
    ASSUME NEW c \in Seq(Nat), NEW d \in Seq(Nat), NEW j \in 1 .. Len(d)
    PROVE  (c \o d)[Len(c) + j] = d[j]
  OBVIOUS

\* A key is its front and the rest.
LEMMA FrontAndRest ==
    ASSUME NEW k \in Seq(Nat), NEW s \in 0 .. Len(k)
    PROVE  SubSeq(k, 1, s) \o From(k, s) = k
<1>1. PICK f, r, w : f = SubSeq(k, 1, s) /\ r = From(k, s) /\ w = f \o r
  OBVIOUS
<1>2. Len(k) \in Nat /\ s \in Nat /\ s <= Len(k)
  OBVIOUS
<1>3. f \in Seq(Nat) /\ Len(f) = s /\ \A i \in 1 .. s : f[i] = k[i]
  BY <1>1, <1>2
<1>4. r \in Seq(Nat) /\ Len(r) = Len(k) - s /\ \A i \in 1 .. Len(k) - s : r[i] = k[s + i]
  BY <1>1, <1>2 DEF From
<1>5. w \in Seq(Nat) /\ Len(w) = Len(k)
  <2>1. w \in Seq(Nat) /\ Len(w) = Len(f) + Len(r)
    BY <1>1, <1>3, <1>4, Concat
  <2> QED
    BY <1>2, <1>3, <1>4, <2>1
<1>6. ASSUME NEW i \in 1 .. Len(k) PROVE w[i] = k[i]
  <2>1. CASE i <= s
    <3>1. i \in 1 .. Len(f)
      BY <1>3, <2>1
    <3>2. w[i] = f[i]
      BY <1>1, <1>3, <1>4, <3>1
    <3> QED
      BY <1>3, <3>1, <3>2
  <2>2. CASE ~(i <= s)
    <3>1. i - s \in 1 .. Len(k) - s /\ s + (i - s) = i
      BY <1>2, <2>2
    <3>2. w[Len(f) + (i - s)] = r[i - s]
      <4>1. \A j \in 1 .. Len(r) : (f \o r)[Len(f) + j] = r[j]
        BY <1>3, <1>4, ConcatRight, Zenon
      <4> QED
        BY <1>1, <1>4, <3>1, <4>1
    <3> QED
      BY <1>3, <1>4, <3>1, <3>2
  <2> QED
    BY <2>1, <2>2
<1>7. w = k
  BY <1>5, <1>6, SeqEqual
<1> QED
  BY <1>1, <1>7

\* blockIter.Next comes to the entry that is stored where it stands.
LEMMA NextReads ==
    ASSUME NEW block, block.data \in Seq(Nat), NEW it, it.off \in Nat, NEW e \in TableEntry, NEW s \in 0 .. Len(e.key),
           HasAt(block.data, it.off, EncodeEntry(e, s)), SameFront(it.key, e.key, s)
    PROVE  blockNext(block, it) = Positioned(e, it.off + Len(EncodeEntry(e, s)))
<1> DEFINE data == block.data
           o == it.off
           D(p) == DecodeUint64(From(data, p))
           at == NumberPlaces(data, o)
           Num(i) == D(at[i - 1])
           rest == at[4] + 1
           end == rest + Num(2).x + Num(3).x
           kl == Len(e.key) - s
           vl == Len(Stored(e))
<1>1. PICK a \in Nat, b \in Nat, c \in Nat, d \in Nat : PartsAt(data, o, e, s, a, b, c, d)
  BY EntryBytes
<1>2. /\ e.key \in Seq(Nat) /\ Len(e.key) \in 0 .. MaxUint
      /\ Stored(e) \in Seq(Nat) /\ vl \in 0 .. MaxUint
      /\ e.seq \in 0 .. MaxUint /\ Flag(e) \in Nat
      /\ (Flag(e) = flagDelete <=> e.val = Tombstone)
  BY EntryType
<1>3. MaxUint \in Nat /\ s \in 0 .. MaxUint /\ kl \in 0 .. MaxUint /\ kl \in Nat /\ vl \in Nat
  BY <1>2, MaxUintFacts
<1>4. blockNext(block, it) =
        IF o >= Len(data) \/ (\E i \in 1 .. 4 : Num(i) = DecodeError) \/ end > Len(data)
        THEN [it EXCEPT !.valid = FALSE]
        ELSE [off |-> end,
              key |-> SubSeq(it.key, 1, Num(1).x) \o SubSeq(data, rest + 1, rest + Num(2).x),
              value |-> SubSeq(data, rest + Num(2).x + 1, end),
              seq |-> Num(4).x,
              deleted |-> data[rest] = flagDelete,
              valid |-> TRUE]
  BY DEF blockNext, NumberPlaces
<1>5. /\ at[0] = o
      /\ at[1] = at[0] + D(at[0]).n
      /\ at[2] = at[1] + D(at[1]).n
      /\ at[3] = at[2] + D(at[2]).n
      /\ at[4] = at[3] + D(at[3]).n
  BY NumberPlacesIs
<1> HIDE DEF at, data, o
<1>6. data \in Seq(Nat) /\ o \in Nat
  BY DEF data, o
<1>7. D(o) = [x |-> s, n |-> Len(EncodeUint64(s))] /\ D(o) # DecodeError
  BY <1>1, <1>3, <1>6, NumberAt DEF PartsAt
<1>8. D(a) = [x |-> kl, n |-> Len(EncodeUint64(kl))] /\ D(a) # DecodeError
  BY <1>1, <1>3, <1>6, NumberAt, ZenonT(60) DEF PartsAt
<1>9. D(b) = [x |-> vl, n |-> Len(EncodeUint64(vl))] /\ D(b) # DecodeError
  BY <1>1, <1>2, <1>6, NumberAt DEF PartsAt
<1>10. D(c) = [x |-> e.seq, n |-> Len(EncodeUint64(e.seq))] /\ D(c) # DecodeError
  BY <1>1, <1>2, <1>6, NumberAt DEF PartsAt
<1>11. a = o + D(o).n /\ b = a + D(a).n /\ c = b + D(b).n /\ d = c + D(c).n
  <2>1. /\ D(o).n = Len(EncodeUint64(s)) /\ D(a).n = Len(EncodeUint64(kl))
        /\ D(b).n = Len(EncodeUint64(vl)) /\ D(c).n = Len(EncodeUint64(e.seq))
    BY <1>7, <1>8, <1>9, <1>10
  <2> HIDE DEF D
  <2> QED
    BY <1>1, <2>1, Zenon DEF PartsAt
<1> HIDE DEF D
<1>12. at[0] = o /\ at[1] = a /\ at[2] = b /\ at[3] = c /\ at[4] = d
  BY <1>5, <1>11, Zenon
<1>13. Num(1) = D(o) /\ Num(2) = D(a) /\ Num(3) = D(b) /\ Num(4) = D(c)
  <2>1. 1 - 1 = 0 /\ 2 - 1 = 1 /\ 3 - 1 = 2 /\ 4 - 1 = 3
    OBVIOUS
  <2> QED
    BY <1>12, <2>1, Zenon
<1>14. Num(1).x = s /\ Num(2).x = kl /\ Num(3).x = vl /\ Num(4).x = e.seq
  BY <1>7, <1>8, <1>9, <1>10, <1>13
<1>15. ~\E i \in 1 .. 4 : Num(i) = DecodeError
  <2>1. \A i \in 1 .. 4 : i = 1 \/ i = 2 \/ i = 3 \/ i = 4
    OBVIOUS
  <2> HIDE DEF Num
  <2> QED
    BY <1>7, <1>8, <1>9, <1>10, <1>13, <2>1, Zenon
<1>16. rest = d + 1 /\ end = d + 1 + kl + vl
  BY <1>12, <1>14
<1> HIDE DEF rest, end, Num
<1>17. end = o + Len(EncodeEntry(e, s)) /\ o < Len(data) /\ end <= Len(data) /\ Len(data) \in Nat
  <2>1. end = o + Len(EncodeEntry(e, s)) /\ o < Len(data) /\ end <= Len(data)
    BY <1>1, <1>16, Zenon DEF PartsAt
  <2>2. Len(data) \in Nat
    BY <1>6
  <2> QED
    BY <2>1, <2>2
<1>18. ~(o >= Len(data)) /\ ~(end > Len(data))
  <2>1. end \in Nat
    <3> HIDE DEF kl, vl
    <3> QED
      BY <1>3, <1>16
  <2> QED
    BY <1>6, <1>17, <2>1
<1>19. data[rest] = Flag(e)
  <2>1. HasAt(data, d, <<Flag(e)>>)
    BY <1>1 DEF PartsAt
  <2>2. Len(<<Flag(e)>>) = 1 /\ <<Flag(e)>>[1] = Flag(e) /\ 1 \in 1 .. 1
    OBVIOUS
  <2>3. data[d + 1] = Flag(e)
    BY <2>1, <2>2 DEF HasAt
  <2> QED
    BY <1>16, <2>3
<1>20. SubSeq(data, rest + 1, rest + kl) = From(e.key, s)
  <2>1. From(e.key, s) \in Seq(Nat) /\ Len(From(e.key, s)) = kl
    BY <1>2, SMTT(30) DEF From
  <2>2. HasAt(data, d + 1, From(e.key, s))
    BY <1>1, Zenon DEF PartsAt
  <2>4. d + 1 \in Nat
    OBVIOUS
  <2>3. SubSeq(data, (d + 1) + 1, (d + 1) + Len(From(e.key, s))) = From(e.key, s)
    BY <1>6, <2>1, <2>2, <2>4, CutOut
  <2> HIDE DEF kl
  <2> QED
    BY <1>16, <2>1, <2>3, Zenon
<1>21. SubSeq(data, rest + kl + 1, end) = Stored(e)
  <2>1. HasAt(data, d + 1 + kl, Stored(e))
    BY <1>1, Zenon DEF PartsAt
  <2> HIDE DEF kl
  <2>3. d + 1 + kl \in Nat
    BY <1>3
  <2>2. SubSeq(data, (d + 1 + kl) + 1, (d + 1 + kl) + Len(Stored(e))) = Stored(e)
    BY <1>2, <1>6, <2>1, <2>3, CutOut
  <2> QED
    BY <1>16, <2>2, Zenon
<1>22. SubSeq(it.key, 1, s) \o From(e.key, s) = e.key
  BY <1>2, FrontAndRest, Zenon DEF SameFront
<1> HIDE DEF kl, vl
<1>23. blockNext(block, it) =
             [off |-> end,
              key |-> SubSeq(it.key, 1, Num(1).x) \o SubSeq(data, rest + 1, rest + Num(2).x),
              value |-> SubSeq(data, rest + Num(2).x + 1, end),
              seq |-> Num(4).x,
              deleted |-> data[rest] = flagDelete,
              valid |-> TRUE]
  BY <1>4, <1>15, <1>18, Zenon
<1>24. SubSeq(it.key, 1, Num(1).x) \o SubSeq(data, rest + 1, rest + Num(2).x) = e.key
  BY <1>14, <1>20, <1>22, Zenon
<1>25. SubSeq(data, rest + Num(2).x + 1, end) = Stored(e)
  BY <1>14, <1>21, Zenon
<1>26. (data[rest] = flagDelete) = (e.val = Tombstone)
  BY <1>2, <1>19
<1>27. blockNext(block, it) =
             [off |-> end, key |-> e.key, value |-> Stored(e), seq |-> e.seq, deleted |-> e.val = Tombstone,
              valid |-> TRUE]
  BY <1>14, <1>23, <1>24, <1>25, <1>26, Zenon
<1> QED
  BY <1>17, <1>27, Zenon DEF Positioned, o

\* At the end of a block there is no next entry.
LEMMA NextEnds ==
    ASSUME NEW block, NEW it, it.off >= Len(block.data)
    PROVE  blockNext(block, it) = [it EXCEPT !.valid = FALSE]
  BY DEF blockNext

-----------------------------------------------------------------------------
(***************************************************************************)
(* Entries in the order of their keys.                                     *)
(***************************************************************************)
\* The keys of entries are byte strings.
LEMMA KeysAreBytes ==
    ASSUME NEW e \in TableEntry
    PROVE  e.key \in Key /\ e.key \in Seq(Nat)
  BY ByteAssumption DEF TableEntry

\* Keys are ordered.
LEMMA KeyOrder ==
    ASSUME NEW e \in TableEntry, NEW f \in TableEntry, NEW g \in TableEntry
    PROVE  /\ ~Less(e.key, e.key)
           /\ e.key = f.key \/ Less(e.key, f.key) \/ Less(f.key, e.key)
           /\ Less(e.key, f.key) /\ Less(f.key, g.key) => Less(e.key, g.key)
<1>1. e.key \in Seq(Nat) /\ f.key \in Seq(Nat) /\ g.key \in Seq(Nat)
  BY KeysAreBytes
<1> QED
  BY <1>1, LessIrreflexive, LessTotal, LessTransitive

\* A list of entries in ascending order.
Sorted(s) == s \in Seq(TableEntry) /\ \A i, j \in 1 .. Len(s) : i < j => Less(s[i].key, s[j].key)

\* The keys of a list.
LEMMA SortedKeys ==
    ASSUME NEW es, Sorted(es)
    PROVE  /\ es \in Seq(TableEntry) /\ Len(es) \in Nat
           /\ \A i \in 1 .. Len(es) : es[i] \in TableEntry /\ es[i].key \in Key /\ es[i].key \in Seq(Nat)
           /\ \A i, j \in 1 .. Len(es) : i < j => Less(es[i].key, es[j].key)
<1>1. es \in Seq(TableEntry) /\ \A i, j \in 1 .. Len(es) : i < j => Less(es[i].key, es[j].key)
  BY DEF Sorted
<1>2. Len(es) \in Nat /\ \A i \in 1 .. Len(es) : es[i] \in TableEntry
  BY <1>1
<1> QED
  BY <1>1, <1>2, KeysAreBytes

-----------------------------------------------------------------------------
(***************************************************************************)
(* A block of the entries lo + 1 to hi of the list es.  Entry j is at      *)
(* off[j], and sh[j] bytes of its key are those of the key before it.      *)
(***************************************************************************)
\* Where entry j ends; lo stands for the beginning of the block.
Size(es, off, sh, lo, j) == IF j = lo THEN 0 ELSE off[j] + Len(EncodeEntry(es[j], sh[j]))

Laid(data, es, off, sh, lo, hi) ==
    /\ data \in Seq(Nat) /\ Len(data) = Size(es, off, sh, lo, hi)
    /\ \A j \in lo + 1 .. hi :
          /\ off[j] = Size(es, off, sh, lo, j - 1)
          /\ sh[j] \in 0 .. Len(es[j].key)
          /\ HasAt(data, off[j], EncodeEntry(es[j], sh[j]))
          /\ IF j = lo + 1 THEN sh[j] = 0 ELSE SameFront(es[j - 1].key, es[j].key, sh[j])

\* A restart is the place of an entry with its whole key; the first is that of the block.
RestartsAt(restarts, off, sh, lo, hi) ==
    /\ restarts \in Seq(Nat)
    /\ \A i \in 1 .. Len(restarts) : \E j \in lo + 1 .. hi : restarts[i] = off[j] /\ sh[j] = 0
    /\ lo # hi => restarts # << >> /\ restarts[1] = off[lo + 1]

BlockLaid(blk, es, off, sh, lo, hi) ==
    /\ lo \in Nat /\ hi \in Nat /\ lo < hi /\ hi <= Len(es)
    /\ Laid(blk.data, es, off, sh, lo, hi)
    /\ RestartsAt(blk.restarts, off, sh, lo, hi)
    /\ blk.lastKey = es[hi].key

\* An iterator on entry j.
OnEntry(es, off, sh, j) == Positioned(es[j], off[j] + Len(EncodeEntry(es[j], sh[j])))

\* No key shares nothing with any.
LEMMA NothingShared ==
    ASSUME NEW k \in Seq(Nat)
    PROVE  SameFront(<< >>, k, 0)
<1>1. \A s \in Seq(Nat) : SubSeq(s, 1, 0) = << >>
  OBVIOUS
<1>2. << >> \in Seq(Nat)
  OBVIOUS
<1>3. SubSeq(<< >>, 1, 0) = << >> /\ SubSeq(k, 1, 0) = << >>
  BY <1>1, <1>2, Zenon
<1> QED
  BY <1>3, Zenon DEF SameFront

\* A block of which every entry can be read.
Readable(blk, es, off, sh, lo, hi) ==
    /\ \A j \in lo + 1 .. hi : sh[j] = 0 => blockNext(blk, BlockAt(off[j])) = OnEntry(es, off, sh, j)
    /\ \A j \in lo + 1 .. hi - 1 : blockNext(blk, OnEntry(es, off, sh, j)) = OnEntry(es, off, sh, j + 1)
    /\ ~blockNext(blk, OnEntry(es, off, sh, hi)).valid

\* blockIter.Next in a block goes from entry to entry.
LEMMA BlockReads ==
    ASSUME NEW es, Sorted(es), NEW off \in [Nat -> Nat], NEW sh \in [Nat -> Nat], NEW blk, NEW lo, NEW hi,
           BlockLaid(blk, es, off, sh, lo, hi)
    PROVE  Readable(blk, es, off, sh, lo, hi)
<1>1. lo \in Nat /\ hi \in Nat /\ lo < hi /\ hi <= Len(es) /\ Laid(blk.data, es, off, sh, lo, hi)
  BY DEF BlockLaid
<1>2. /\ blk.data \in Seq(Nat) /\ Len(blk.data) = Size(es, off, sh, lo, hi)
      /\ \A j \in lo + 1 .. hi :
          /\ off[j] = Size(es, off, sh, lo, j - 1)
          /\ sh[j] \in 0 .. Len(es[j].key)
          /\ HasAt(blk.data, off[j], EncodeEntry(es[j], sh[j]))
          /\ IF j = lo + 1 THEN sh[j] = 0 ELSE SameFront(es[j - 1].key, es[j].key, sh[j])
  BY <1>1 DEF Laid
<1>3. Len(es) \in Nat /\ \A j \in lo + 1 .. hi : j \in Nat /\ es[j] \in TableEntry /\ es[j].key \in Seq(Nat)
  <2>1. Len(es) \in Nat /\ \A i \in 1 .. Len(es) : es[i] \in TableEntry /\ es[i].key \in Seq(Nat)
    BY SortedKeys
  <2>2. \A j \in lo + 1 .. hi : j \in Nat /\ j \in 1 .. Len(es)
    BY <1>1, <2>1
  <2> QED
    BY <2>1, <2>2
<1>4. ASSUME NEW j \in lo + 1 .. hi, sh[j] = 0
      PROVE  blockNext(blk, BlockAt(off[j])) = OnEntry(es, off, sh, j)
  <2>1. PICK it : it = BlockAt(off[j])
    OBVIOUS
  <2>2. it.off = off[j] /\ it.key = << >> /\ off[j] \in Nat
    BY <1>3, <2>1 DEF BlockAt
  <2>3. SameFront(it.key, es[j].key, sh[j])
    BY <1>3, <1>4, <2>2, NothingShared, Zenon
  <2>4. HasAt(blk.data, it.off, EncodeEntry(es[j], sh[j]))
    BY <1>2, <2>2, Zenon
  <2>5. blockNext(blk, it) = Positioned(es[j], it.off + Len(EncodeEntry(es[j], sh[j])))
    BY <1>2, <1>3, <2>2, <2>3, <2>4, NextReads
  <2> QED
    BY <2>1, <2>2, <2>5, Zenon DEF OnEntry
<1>5. ASSUME NEW j \in lo + 1 .. hi - 1
      PROVE  blockNext(blk, OnEntry(es, off, sh, j)) = OnEntry(es, off, sh, j + 1)
  <2>1. PICK it : it = OnEntry(es, off, sh, j)
    OBVIOUS
  <2>2. j + 1 \in lo + 1 .. hi /\ (j + 1) - 1 = j /\ j # lo /\ j + 1 # lo + 1 /\ j \in lo + 1 .. hi
    BY <1>1
  <2>3. it.off = off[j] + Len(EncodeEntry(es[j], sh[j])) /\ it.key = es[j].key
    BY <2>1 DEF OnEntry, Positioned
  <2>4. off[j + 1] = Size(es, off, sh, lo, (j + 1) - 1) /\ off[j + 1] \in Nat
    BY <1>2, <1>3, <2>2
  <2>5. off[j + 1] = it.off
    BY <2>2, <2>3, <2>4, Zenon DEF Size
  <2>6. SameFront(it.key, es[j + 1].key, sh[j + 1])
    <3>1. SameFront(es[(j + 1) - 1].key, es[j + 1].key, sh[j + 1])
      BY <1>2, <2>2
    <3> QED
      BY <2>2, <2>3, <3>1, Zenon
  <2>7. HasAt(blk.data, it.off, EncodeEntry(es[j + 1], sh[j + 1]))
    BY <1>2, <2>2, <2>5, Zenon
  <2>8. es[j + 1] \in TableEntry /\ sh[j + 1] \in 0 .. Len(es[j + 1].key) /\ it.off \in Nat
    BY <1>2, <1>3, <2>2, <2>4, <2>5, Zenon
  <2>9. blockNext(blk, it) = Positioned(es[j + 1], it.off + Len(EncodeEntry(es[j + 1], sh[j + 1])))
    BY <1>2, <2>6, <2>7, <2>8, NextReads
  <2> QED
    BY <2>1, <2>5, <2>9, Zenon DEF OnEntry
<1>6. ~blockNext(blk, OnEntry(es, off, sh, hi)).valid
  <2>1. PICK it : it = OnEntry(es, off, sh, hi)
    OBVIOUS
  <2>2. it.off = off[hi] + Len(EncodeEntry(es[hi], sh[hi])) /\ DOMAIN it = {"off", "key", "value", "seq", "deleted", "valid"}
    BY <2>1 DEF OnEntry, Positioned
  <2>3. it.off = Len(blk.data) /\ Len(blk.data) \in Nat
    <3>1. hi # lo
      BY <1>1
    <3>2. Len(blk.data) = off[hi] + Len(EncodeEntry(es[hi], sh[hi]))
      BY <1>2, <3>1, Zenon DEF Size
    <3>3. Len(blk.data) \in Nat
      BY <1>2
    <3> QED
      BY <2>2, <3>2, <3>3, Zenon
  <2>4. it.off >= Len(blk.data)
    BY <2>3
  <2>5. blockNext(blk, it) = [it EXCEPT !.valid = FALSE]
    BY <2>4, NextEnds
  <2>6. ~blockNext(blk, it).valid
    <3>1. "valid" \in DOMAIN it
      BY <2>2
    <3> QED
      BY <2>5, <3>1
  <2> QED
    BY <2>1, <2>6
<1> QED
  BY <1>4, <1>5, <1>6 DEF Readable

-----------------------------------------------------------------------------
(***************************************************************************)
(* blockIter.Seek.                                                         *)
(***************************************************************************)
\* Restart i is not behind the target.
NotBehind(block, target, i) ==
    LET at == blockNext(block, BlockAt(block.restarts[i])) IN at.valid /\ ~Less(target, at.key)

\* The middle of a range is in its upper part.
LEMMA Middle ==
    ASSUME NEW lo \in Nat, NEW hi \in Nat, lo < hi
    PROVE  (lo + hi + 1) \div 2 \in lo + 1 .. hi
  OBVIOUS

\* The binary search ends on the first restart, or on one that is not behind the target.
LEMMA SearchRestarts ==
    ASSUME NEW block, NEW n \in Nat \ {0}, Len(block.restarts) = n, NEW target
    PROVE  LET r == searchRestarts(block, target) IN r \in 1 .. n /\ (r = 1 \/ NotBehind(block, target, r))
<1> DEFINE I == 1 .. n
           D == I \X I
           mid(p) == (p[1] + p[2] + 1) \div 2
           good(i) == NotBehind(block, target, i)
           Step(f, p) == IF p[1] >= p[2] THEN p[1] ELSE IF ~good(mid(p)) THEN f[<<p[1], mid(p) - 1>>]
                         ELSE f[<<mid(p), p[2]>>]
           Between == CHOOSE f : f = [p \in D |-> Step(f, p)]
           T == {p \in D : ~(p[1] >= p[2])}
           nxt == [p \in T |-> IF ~good(mid(p)) THEN <<p[1], mid(p) - 1>> ELSE <<mid(p), p[2]>>]
           g == [p \in D |-> EndOf(D, T, nxt)[p][1]]
<1>1. searchRestarts(block, target) = Between[<<1, n>>]
  BY ZenonT(60) DEF searchRestarts, NotBehind
<1> HIDE DEF good
<1>2. ASSUME NEW p \in T PROVE /\ p = <<p[1], p[2]>> /\ p[1] \in I /\ p[2] \in I /\ p[1] < p[2]
                               /\ mid(p) \in p[1] + 1 .. p[2]
                               /\ <<p[1], mid(p) - 1>> \in D /\ <<mid(p), p[2]>> \in D
  <2>1. p = <<p[1], p[2]>> /\ p[1] \in I /\ p[2] \in I /\ p[1] < p[2]
    OBVIOUS
  <2>2. mid(p) \in p[1] + 1 .. p[2]
    BY <2>1, Middle
  <2> HIDE DEF mid
  <2>3. mid(p) \in I /\ mid(p) - 1 \in I
    BY <2>1, <2>2
  <2> QED
    BY <2>1, <2>2, <2>3
<1> HIDE DEF mid
<1>3. \A p \in T : nxt[p] = IF ~good(mid(p)) THEN <<p[1], mid(p) - 1>> ELSE <<mid(p), p[2]>>
  OBVIOUS
<1> HIDE DEF nxt
<1>4. T \in SUBSET D /\ \A p \in T : nxt[p] \in D
  <2>1. T \in SUBSET D
    OBVIOUS
  <2>2. \A p \in T : nxt[p] \in D
    <3> HIDE DEF T, D
    <3> QED
      BY <1>2, <1>3
  <2> QED
    BY <2>1, <2>2
<1>5. Stays(D, T, nxt)
  <2> HIDE DEF D, T
  <2> QED
    BY <1>4 DEF Stays
<1>6. \A p \in D : g[p] = EndOf(D, T, nxt)[p][1]
  <2> HIDE DEF D
  <2> QED
    OBVIOUS
<1>7. ASSUME NEW p \in D PROVE g[p] = Step(g, p)
  <2>1. CASE p \in T
    <3>1. EndOf(D, T, nxt)[p] = EndOf(D, T, nxt)[nxt[p]]
      <4> HIDE DEF D, T
      <4> QED
        BY <1>5, <2>1, Following
    <3>2. g[p] = g[nxt[p]]
      <4> HIDE DEF D, T, g
      <4> QED
        BY <1>4, <1>6, <2>1, <3>1, Zenon
    <3>3. ~(p[1] >= p[2])
      BY <2>1
    <3> HIDE DEF g, T, D
    <3> QED
      BY <1>3, <2>1, <3>2, <3>3
  <2>2. CASE p \notin T
    <3>1. EndOf(D, T, nxt)[p] = p
      <4> HIDE DEF D, T
      <4> QED
        BY <1>5, <2>2, Following
    <3>2. g[p] = p[1]
      <4> HIDE DEF D, T, g
      <4> QED
        BY <1>6, <3>1, Zenon
    <3>3. p[1] >= p[2]
      BY <2>2
    <3> HIDE DEF g, T, D
    <3> QED
      BY <3>2, <3>3
  <2> QED
    BY <2>1, <2>2
<1>8. g = [p \in D |-> g[p]]
  <2> HIDE DEF D, T
  <2> QED
    OBVIOUS
<1> HIDE DEF g
<1>9. g = [p \in D |-> Step(g, p)]
  <2> HIDE DEF D, Step
  <2> QED
    BY <1>7, <1>8
<1>10. Between = [p \in D |-> Step(Between, p)]
  <2> HIDE DEF D, Step
  <2> QED
    BY <1>9
<1> HIDE DEF Between
<1>11. \A p \in D : Between[p] = Step(Between, p)
  <2> HIDE DEF D, Step
  <2> QED
    BY <1>10, Zenon
<1> DEFINE OK(i) == i \in I /\ (i = 1 \/ good(i))
           G == {m \in 0 .. n : \A p \in D : p[2] <= p[1] + m /\ OK(p[1]) => OK(Between[p])}
<1>12. 0 \in G
  <2> SUFFICES ASSUME NEW p \in D, p[2] <= p[1] + 0, OK(p[1]) PROVE OK(Between[p])
    OBVIOUS
  <2>1. p[1] >= p[2]
    OBVIOUS
  <2>2. Between[p] = p[1]
    <3> HIDE DEF D
    <3> QED
      BY <1>11, <2>1
  <2> QED
    BY <2>2, Zenon
<1>13. ASSUME NEW m \in 0 .. n - 1, m \in G PROVE m + 1 \in G
  <2> SUFFICES ASSUME NEW p \in D, p[2] <= p[1] + (m + 1), OK(p[1]) PROVE OK(Between[p])
    OBVIOUS
  <2>0. \A q \in D : q[2] <= q[1] + m /\ OK(q[1]) => OK(Between[q])
    BY <1>13
  <2>1. CASE p[1] >= p[2]
    <3>1. Between[p] = p[1]
      <4> HIDE DEF D
      <4> QED
        BY <1>11, <2>1
    <3> QED
      BY <3>1, Zenon
  <2>2. CASE ~(p[1] >= p[2])
    <3>1. p \in T
      BY <2>2
    <3>2. /\ p[1] \in I /\ p[2] \in I /\ mid(p) \in p[1] + 1 .. p[2]
          /\ <<p[1], mid(p) - 1>> \in D /\ <<mid(p), p[2]>> \in D
      <4> HIDE DEF T, D
      <4> QED
        BY <1>2, <3>1
    <3>3. CASE ~good(mid(p))
      <4>1. Between[p] = Between[<<p[1], mid(p) - 1>>]
        <5> HIDE DEF D
        <5> QED
          BY <1>11, <2>2, <3>3
      <4>a. PICK q \in D : q = <<p[1], mid(p) - 1>>
        BY <3>2, Zenon
      <4>2. q[1] = p[1] /\ q[2] = mid(p) - 1
        BY <4>a
      <4>3. q[2] <= q[1] + m
        BY <3>2, <4>2
      <4>4. OK(Between[q])
        <5> HIDE DEF OK, D
        <5> QED
          BY <2>0, <4>2, <4>3
      <4> HIDE DEF OK
      <4> QED
        BY <4>1, <4>4, <4>a
    <3>4. CASE good(mid(p))
      <4>1. Between[p] = Between[<<mid(p), p[2]>>]
        <5> HIDE DEF D
        <5> QED
          BY <1>11, <2>2, <3>4
      <4>a. PICK q \in D : q = <<mid(p), p[2]>>
        BY <3>2, Zenon
      <4>2. q[1] = mid(p) /\ q[2] = p[2]
        BY <4>a
      <4>3. q[2] <= q[1] + m
        BY <3>2, <4>2
      <4>4. OK(q[1])
        BY <3>2, <3>4, <4>2
      <4>5. OK(Between[q])
        <5> HIDE DEF OK, D
        <5> QED
          BY <2>0, <4>3, <4>4
      <4> HIDE DEF OK
      <4> QED
        BY <4>1, <4>5, <4>a
    <3> QED
      BY <3>3, <3>4
  <2> QED
    BY <2>1, <2>2
<1>14. n \in G
  <2> HIDE DEF G
  <2>1. Climbs(G, n)
    BY <1>12, <1>13 DEF Climbs
  <2> QED
    BY <2>1, Climb
<1>15. OK(Between[<<1, n>>])
  <2>0. <<1, n>> \in D
    OBVIOUS
  <2>a. PICK p \in D : p = <<1, n>>
    BY <2>0, Zenon
  <2>1. p[1] = 1 /\ p[2] = n
    BY <2>a
  <2>2. OK(p[1]) /\ p[2] <= p[1] + n
    BY <2>1
  <2>3. OK(Between[p])
    <3> HIDE DEF OK, D
    <3> QED
      BY <1>14, <2>2
  <2> HIDE DEF OK
  <2> QED
    BY <2>3, <2>a
<1> QED
  BY <1>1, <1>15 DEF good

\* Every entry takes a byte.
LEMMA BlockHasBytes ==
    ASSUME NEW es, Sorted(es), NEW off \in [Nat -> Nat], NEW sh \in [Nat -> Nat], NEW data, NEW lo \in Nat, NEW hi \in Nat,
           lo <= hi, hi <= Len(es), Laid(data, es, off, sh, lo, hi)
    PROVE  Len(data) \in Nat /\ hi - lo <= Len(data)
<1> DEFINE sz(j) == Size(es, off, sh, lo, j)
           G == {i \in 0 .. hi - lo : sz(lo + i) >= i}
<1>1. /\ data \in Seq(Nat) /\ Len(data) = sz(hi)
      /\ \A j \in lo + 1 .. hi : off[j] = sz(j - 1) /\ sh[j] \in 0 .. Len(es[j].key)
  BY DEF Laid
<1>2. 0 \in G
  <2>1. lo + 0 = lo /\ 0 \in 0 .. hi - lo
    OBVIOUS
  <2>2. sz(lo) = 0
    BY DEF Size
  <2> HIDE DEF sz
  <2> QED
    BY <2>1, <2>2
<1>3. ASSUME NEW i \in 0 .. (hi - lo) - 1, i \in G PROVE i + 1 \in G
  <2>1. PICK j : j = lo + (i + 1)
    OBVIOUS
  <2>2. j \in lo + 1 .. hi /\ j - 1 = lo + i /\ j # lo /\ j \in Nat /\ j \in 1 .. Len(es)
    <3>1. Len(es) \in Nat
      BY SortedKeys
    <3>2. j \in lo + 1 .. hi /\ j - 1 = lo + i /\ j # lo /\ j \in Nat
      BY <2>1
    <3>3. j >= 1 /\ j <= Len(es)
      BY <3>1, <3>2
    <3> QED
      BY <3>1, <3>2, <3>3
  <2>3. sz(j) = off[j] + Len(EncodeEntry(es[j], sh[j]))
    BY <2>2, Zenon DEF Size
  <2>4. es[j] \in TableEntry /\ sh[j] \in 0 .. Len(es[j].key)
    BY <1>1, <2>2, SortedKeys
  <2>5. Len(EncodeEntry(es[j], sh[j])) \in Nat \ {0}
    BY <2>4, EntryBytes
  <2>6. off[j] = sz(lo + i) /\ off[j] \in Nat
    BY <1>1, <2>2
  <2>7. off[j] >= i
    <3> HIDE DEF sz
    <3> QED
      BY <1>3, <2>6
  <2>8. sz(j) >= i + 1
    <3>1. PICK x \in Nat, y \in Nat \ {0} : x = off[j] /\ y = Len(EncodeEntry(es[j], sh[j]))
      BY <2>5, <2>6, Zenon
    <3>2. x >= i /\ sz(j) = x + y
      BY <2>3, <2>7, <3>1, Zenon
    <3> HIDE DEF sz
    <3> QED
      BY <3>2
  <2> HIDE DEF sz
  <2> QED
    BY <2>1, <2>8
<1>4. hi - lo \in G
  <2>1. hi - lo \in Nat /\ hi - lo \in 0 .. hi - lo
    OBVIOUS
  <2> HIDE DEF G
  <2>2. Climbs(G, hi - lo)
    BY <1>2, <1>3 DEF Climbs
  <2> QED
    BY <2>1, <2>2, Climb
<1>5. lo + (hi - lo) = hi
  OBVIOUS
<1> HIDE DEF sz
<1> QED
  BY <1>1, <1>4, <1>5

\* The first key of a range that is not smaller than the target.
FirstNotLess(es, target, lo, m) == ~Less(es[m].key, target) /\ \A j \in lo + 1 .. m - 1 : Less(es[j].key, target)

\* An iterator on an entry of the range with only smaller ones before.
StartsOn(it, es, off, sh, lo, hi, target) ==
    \E k \in lo + 1 .. hi : it = OnEntry(es, off, sh, k) /\ \A j \in lo + 1 .. k - 1 : Less(es[j].key, target)

\* Where the search starts, everything before is smaller.
LEMMA SeekStarts ==
    ASSUME NEW es, Sorted(es), NEW off \in [Nat -> Nat], NEW sh \in [Nat -> Nat], NEW blk, NEW lo, NEW hi,
           BlockLaid(blk, es, off, sh, lo, hi), NEW target \in Seq(Nat)
    PROVE  StartsOn(blockNext(blk, BlockAt(blk.restarts[searchRestarts(blk, target)])), es, off, sh, lo, hi, target)
<1> DEFINE r == searchRestarts(blk, target)
           At(i) == blockNext(blk, BlockAt(blk.restarts[i]))
<1>1. lo \in Nat /\ hi \in Nat /\ lo < hi /\ hi <= Len(es) /\ Laid(blk.data, es, off, sh, lo, hi)
      /\ RestartsAt(blk.restarts, off, sh, lo, hi)
  BY DEF BlockLaid
<1>2. /\ blk.restarts \in Seq(Nat) /\ blk.restarts # << >> /\ blk.restarts[1] = off[lo + 1]
      /\ \A i \in 1 .. Len(blk.restarts) : \E j \in lo + 1 .. hi : blk.restarts[i] = off[j] /\ sh[j] = 0
  <2>1. lo # hi
    BY <1>1
  <2> QED
    BY <1>1, <2>1 DEF RestartsAt
<1>3. Len(blk.restarts) \in Nat \ {0}
  BY <1>2, EmptySeq, Zenon
<1>4. r \in 1 .. Len(blk.restarts) /\ (r = 1 \/ NotBehind(blk, target, r))
  BY <1>3, SearchRestarts
<1> HIDE DEF r
<1>5. lo + 1 \in lo + 1 .. hi
  BY <1>1
<1>8. Readable(blk, es, off, sh, lo, hi)
  BY BlockReads
<1>6. CASE r = 1
  <2>1. sh[lo + 1] = 0
    BY <1>1, <1>5 DEF Laid
  <2>2. blockNext(blk, BlockAt(off[lo + 1])) = OnEntry(es, off, sh, lo + 1)
    BY <1>5, <1>8, <2>1, Zenon DEF Readable
  <2>3. At(r) = OnEntry(es, off, sh, lo + 1)
    BY <1>2, <1>6, <2>2, Zenon
  <2>4. \A j \in lo + 1 .. (lo + 1) - 1 : FALSE
    BY <1>1
  <2> QED
    BY <1>5, <2>3, <2>4, Zenon DEF r, StartsOn
<1>7. CASE r # 1
  <2>1. PICK k \in lo + 1 .. hi : blk.restarts[r] = off[k] /\ sh[k] = 0
    BY <1>2, <1>4
  <2>2. blockNext(blk, BlockAt(off[k])) = OnEntry(es, off, sh, k)
    BY <1>8, <2>1, Zenon DEF Readable
  <2>3. At(r) = OnEntry(es, off, sh, k)
    BY <2>1, <2>2, Zenon
  <2>4. At(r).key = es[k].key
    BY <2>3 DEF OnEntry, Positioned
  <2>5. ~Less(target, es[k].key)
    BY <1>4, <1>7, <2>4 DEF NotBehind
  <2>6. k \in 1 .. Len(es) /\ Len(es) \in Nat
    BY <1>1, SortedKeys
  <2>7. es[k].key \in Seq(Nat)
    BY <2>6, SortedKeys
  <2>8. es[k].key = target \/ Less(es[k].key, target)
    BY <2>5, <2>7, LessTotal
  <2>9. ASSUME NEW j \in lo + 1 .. k - 1 PROVE Less(es[j].key, target)
    <3>1. j \in 1 .. Len(es) /\ j < k
      BY <1>1, <2>6
    <3>2. es[j].key \in Seq(Nat) /\ Less(es[j].key, es[k].key)
      BY <2>6, <3>1, SortedKeys
    <3>3. CASE es[k].key = target
      BY <3>2, <3>3, Zenon
    <3>4. CASE Less(es[k].key, target)
      BY <2>7, <3>2, <3>4, LessTransitive
    <3> QED
      BY <2>8, <3>3, <3>4
  <2> QED
    BY <2>3, <2>9, Zenon DEF r, StartsOn
<1> QED
  BY <1>6, <1>7

\* Seek in a block that does not end before the target comes to the first key that is not smaller.
LEMMA BlockSeeks ==
    ASSUME NEW es, Sorted(es), NEW off \in [Nat -> Nat], NEW sh \in [Nat -> Nat], NEW blk, NEW lo, NEW hi,
           BlockLaid(blk, es, off, sh, lo, hi), NEW target \in Seq(Nat), ~Less(es[hi].key, target)
    PROVE  \E m \in lo + 1 .. hi :
              blockSeek(blk, target) = OnEntry(es, off, sh, m) /\ FirstNotLess(es, target, lo, m)
<1> DEFINE start == blockNext(blk, BlockAt(blk.restarts[searchRestarts(blk, target)]))
           n == Len(blk.data)
           Go(it) == IF it.valid /\ Less(it.key, target) THEN blockNext(blk, it) ELSE it
           Step(f, i) == IF i = 0 THEN start ELSE Go(f[i - 1])
           Round == CHOOSE f : f = [i \in 0 .. n |-> Step(f, i)]
           On(j) == OnEntry(es, off, sh, j)
<1>1. lo \in Nat /\ hi \in Nat /\ lo < hi /\ hi <= Len(es) /\ Laid(blk.data, es, off, sh, lo, hi)
  BY DEF BlockLaid
<1>2. n \in Nat /\ hi - lo <= n
  <2>1. lo <= hi
    BY <1>1
  <2> QED
    BY <1>1, <2>1, BlockHasBytes, Zenon
<1>3. blockSeek(blk, target) = Round[n]
  BY DEF blockSeek
<1>4. PICK k \in lo + 1 .. hi : start = On(k) /\ \A j \in lo + 1 .. k - 1 : Less(es[j].key, target)
  <2>1. StartsOn(start, es, off, sh, lo, hi, target)
    BY SeekStarts
  <2> QED
    BY <2>1, Zenon DEF StartsOn
<1> HIDE DEF start, n
<1> DEFINE M == {j \in k .. hi : ~Less(es[j].key, target)}
<1>5. hi \in M /\ M \in SUBSET Nat
  BY <1>1
<1>6. PICK m \in M : \A j \in M : m <= j
  BY <1>5, LeastNatural
<1>7. m \in k .. hi /\ m \in lo + 1 .. hi /\ ~Less(es[m].key, target) /\ m \in Nat /\ k \in Nat
  BY <1>1, <1>6
<1>8. ASSUME NEW j \in k .. m - 1 PROVE Less(es[j].key, target)
  <2>1. j \in k .. hi /\ j \in Nat /\ j < m
    BY <1>1, <1>7
  <2>2. j \notin M
    BY <1>6, <1>7, <2>1
  <2> QED
    BY <2>1, <2>2
<1>9. FirstNotLess(es, target, lo, m)
  <2>1. \A j \in lo + 1 .. m - 1 : j \in lo + 1 .. k - 1 \/ j \in k .. m - 1
    BY <1>1, <1>7
  <2> QED
    BY <1>4, <1>7, <1>8, <2>1 DEF FirstNotLess
<1> HIDE DEF M
<1>10. \A j : On(j).valid /\ On(j).key = es[j].key
  BY DEF OnEntry, Positioned
<1>11. \A j \in lo + 1 .. hi - 1 : blockNext(blk, On(j)) = On(j + 1)
  <2>1. Readable(blk, es, off, sh, lo, hi)
    BY BlockReads
  <2> QED
    BY <2>1, Zenon DEF Readable
<1> HIDE DEF On
<1>12. ASSUME NEW j \in k .. m - 1 PROVE Go(On(j)) = On(j + 1)
  <2>1. j \in lo + 1 .. hi - 1
    BY <1>1, <1>7
  <2> QED
    BY <1>8, <1>10, <1>11, <2>1
<1>13. Go(On(m)) = On(m)
  BY <1>7, <1>10
<1> HIDE DEF Go
<1> DEFINE pl(i) == IF k + i <= m THEN k + i ELSE m
           g == [i \in 0 .. n |-> On(pl(i))]
<1>14. ASSUME NEW i \in 0 .. n PROVE g[i] = Step(g, i)
  <2>1. CASE i = 0
    <3>1. pl(i) = k
      BY <1>7, <2>1
    <3>2. g[i] = On(pl(i))
      OBVIOUS
    <3> QED
      BY <1>4, <2>1, <3>1, <3>2
  <2>2. CASE i # 0
    <3>1. i - 1 \in 0 .. n /\ g[i] = On(pl(i)) /\ g[i - 1] = On(pl(i - 1))
      BY <1>2, <2>2
    <3>2. Go(On(pl(i - 1))) = On(pl(i))
      <4>1. CASE k + i <= m
        <5>1. pl(i - 1) = k + (i - 1) /\ pl(i) = k + i /\ k + (i - 1) \in k .. m - 1 /\ (k + (i - 1)) + 1 = k + i
          BY <1>2, <1>7, <2>2, <4>1
        <5> HIDE DEF pl
        <5> QED
          BY <1>12, <5>1
      <4>2. CASE ~(k + i <= m)
        <5>1. pl(i - 1) = m /\ pl(i) = m
          BY <1>2, <1>7, <2>2, <4>2
        <5> HIDE DEF pl
        <5> QED
          BY <1>13, <5>1
      <4> QED
        BY <4>1, <4>2
    <3> HIDE DEF g, pl
    <3> QED
      BY <2>2, <3>1, <3>2
  <2> QED
    BY <2>1, <2>2
<1>15. g = [i \in 0 .. n |-> g[i]]
  OBVIOUS
<1>16. g[n] = On(m)
  <2>1. pl(n) = m
    BY <1>1, <1>2, <1>7
  <2>2. n \in 0 .. n
    BY <1>2
  <2> HIDE DEF pl
  <2> QED
    BY <2>1, <2>2
<1> HIDE DEF g
<1>17. g = [i \in 0 .. n |-> Step(g, i)]
  BY <1>14, <1>15
<1>18. Round = [i \in 0 .. n |-> Step(Round, i)]
  BY <1>17
<1> HIDE DEF Round
<1>19. \A i \in 0 .. n : Round[i] = Step(Round, i)
  BY <1>18
<1> DEFINE G == {i \in 0 .. n : Round[i] = g[i]}
<1>20. 0 \in G
  <2>1. 0 \in 0 .. n
    BY <1>2
  <2>2. Round[0] = start /\ g[0] = start
    BY <1>14, <1>19, <2>1
  <2> QED
    BY <2>1, <2>2
<1>21. ASSUME NEW i \in 0 .. n - 1, i \in G PROVE i + 1 \in G
  <2>1. i + 1 \in 0 .. n /\ i + 1 # 0 /\ (i + 1) - 1 = i
    BY <1>2
  <2>2. Round[i + 1] = Go(Round[(i + 1) - 1]) /\ g[i + 1] = Go(g[(i + 1) - 1])
    BY <1>14, <1>19, <2>1
  <2>3. Round[i] = g[i]
    BY <1>21
  <2> QED
    BY <2>1, <2>2, <2>3
<1>22. n \in G
  <2>1. n \in 0 .. n
    BY <1>2
  <2> HIDE DEF G
  <2>2. Climbs(G, n)
    BY <1>20, <1>21 DEF Climbs
  <2> QED
    BY <1>2, <2>1, <2>2, Climb
<1>23. blockSeek(blk, target) = On(m)
  BY <1>3, <1>16, <1>22
<1> QED
  BY <1>7, <1>9, <1>23 DEF On

-----------------------------------------------------------------------------
(***************************************************************************)
(* The index: block b has the entries bd[b] + 1 to bd[b + 1].              *)
(***************************************************************************)
Block == [lastKey : Seq(Nat), data : Seq(Nat), restarts : Seq(Nat)]

IndexLaid(index, es, off, sh, bd) ==
    /\ off \in [Nat -> Nat] /\ sh \in [Nat -> Nat] /\ bd \in [Nat -> Nat]
    /\ index \in Seq(Block) /\ bd[1] = 0
    /\ \A b \in 1 .. Len(index) : BlockLaid(index[b], es, off, sh, bd[b], bd[b + 1])

\* The index has all of the list.
TableLaid(index, es, off, sh, bd) == IndexLaid(index, es, off, sh, bd) /\ bd[Len(index) + 1] = Len(es)

\* The blocks come one after the other.
LEMMA BoundsGrow ==
    ASSUME NEW es, NEW off, NEW sh, NEW bd, NEW index, IndexLaid(index, es, off, sh, bd)
    PROVE  \A c \in 1 .. Len(index) + 1 : \A b \in 1 .. c : bd[b] <= bd[c]
<1>1. /\ bd \in [Nat -> Nat] /\ index \in Seq(Block)
      /\ \A b \in 1 .. Len(index) : BlockLaid(index[b], es, off, sh, bd[b], bd[b + 1])
  BY DEF IndexLaid
<1>2. Len(index) \in Nat
  BY <1>1
<1>3. \A b \in 1 .. Len(index) : bd[b] < bd[b + 1]
  BY <1>1 DEF BlockLaid
<1> DEFINE G == {n \in 0 .. Len(index) : \A b \in 1 .. n + 1 : bd[b] <= bd[n + 1]}
<1>4. 0 \in G
  <2>1. \A b \in 1 .. 0 + 1 : b = 0 + 1
    OBVIOUS
  <2>2. bd[0 + 1] \in Nat
    BY <1>1
  <2>3. bd[0 + 1] <= bd[0 + 1]
    BY <2>2
  <2> QED
    BY <1>2, <2>1, <2>3
<1>5. ASSUME NEW n \in 0 .. Len(index) - 1, n \in G PROVE n + 1 \in G
  <2>1. n + 1 \in 1 .. Len(index) /\ n + 1 \in 0 .. Len(index) /\ n + 1 \in Nat /\ (n + 1) + 1 \in Nat
    BY <1>2
  <2>2. bd[n + 1] < bd[(n + 1) + 1] /\ bd[n + 1] \in Nat /\ bd[(n + 1) + 1] \in Nat
    BY <1>1, <1>3, <2>1
  <2>3. ASSUME NEW b \in 1 .. (n + 1) + 1 PROVE bd[b] <= bd[(n + 1) + 1]
    <3>1. CASE b \in 1 .. n + 1
      <4>1. \A a \in 1 .. n + 1 : bd[a] <= bd[n + 1]
        BY <1>5
      <4>3. b \in Nat
        OBVIOUS
      <4>4. bd[b] \in Nat
        BY <1>1, <4>3
      <4>2. bd[b] <= bd[n + 1] /\ bd[b] \in Nat
        BY <3>1, <4>1, <4>4, Zenon
      <4> QED
        BY <2>2, <4>2
    <3>2. CASE b \notin 1 .. n + 1
      <4>1. b = (n + 1) + 1
        BY <1>2, <3>2
      <4> QED
        BY <2>2, <4>1
    <3> QED
      BY <3>1, <3>2
  <2> QED
    BY <2>1, <2>3
<1>6. \A n \in 0 .. Len(index) : n \in G
  <2> HIDE DEF G
  <2>1. Climbs(G, Len(index))
    BY <1>4, <1>5 DEF Climbs
  <2> QED
    BY <1>2, <2>1, Climb
<1>7. ASSUME NEW c \in 1 .. Len(index) + 1, NEW b \in 1 .. c PROVE bd[b] <= bd[c]
  <2>1. c - 1 \in 0 .. Len(index) /\ (c - 1) + 1 = c
    BY <1>2
  <2>2. \A a \in 1 .. (c - 1) + 1 : bd[a] <= bd[(c - 1) + 1]
    BY <1>6, <2>1
  <2> QED
    BY <2>1, <2>2
<1> QED
  BY <1>7

\* Every entry is in a block.
LEMMA BlockOfEntry ==
    ASSUME NEW es, NEW off, NEW sh, NEW bd, NEW index, TableLaid(index, es, off, sh, bd), NEW j \in 1 .. Len(es)
    PROVE  \E b \in 1 .. Len(index) : j \in bd[b] + 1 .. bd[b + 1]
<1>1. bd \in [Nat -> Nat] /\ index \in Seq(Block) /\ bd[1] = 0 /\ bd[Len(index) + 1] = Len(es)
  BY DEF TableLaid, IndexLaid
<1>a. PICK l : l = Len(index)
  OBVIOUS
<1>2. l \in Nat /\ l + 1 \in Nat
  <2>1. Len(index) \in Nat
    BY <1>1
  <2> QED
    BY <1>a, <2>1
<1>b. PICK m \in Nat : m = Len(es) /\ m = bd[l + 1]
  <2>1. bd[l + 1] = Len(es) /\ bd[l + 1] \in Nat
    BY <1>1, <1>2, <1>a
  <2> QED
    BY <2>1, Zenon
<1>3. j \in 1 .. m /\ bd \in [Nat -> Nat] /\ bd[1] = 0
  BY <1>1, <1>b
<1> DEFINE C == {c \in 1 .. l + 1 : j <= bd[c]}
<1>4. l + 1 \in C /\ C \in SUBSET Nat
  <2>1. j <= bd[l + 1]
    BY <1>3, <1>b
  <2> QED
    BY <1>2, <2>1
<1>5. PICK c \in C : \A a \in C : c <= a
  <2> HIDE DEF C
  <2> QED
    BY <1>4, LeastNatural
<1>6. c \in 1 .. l + 1 /\ j <= bd[c] /\ c \in Nat /\ c # 1 /\ j \in Nat
  <2>1. c \in 1 .. l + 1 /\ j <= bd[c] /\ c \in Nat /\ j \in Nat /\ j >= 1
    BY <1>3, <1>5
  <2>2. c # 1
    BY <1>3, <2>1
  <2> QED
    BY <2>1, <2>2
<1>7. c - 1 \in 1 .. l /\ (c - 1) + 1 = c /\ c - 1 \in Nat /\ c - 1 \in 1 .. l + 1
  BY <1>2, <1>6
<1>8. c - 1 \notin C
  <2> HIDE DEF C
  <2> QED
    BY <1>5, <1>6, <1>7
<1>9. ~(j <= bd[c - 1])
  BY <1>7, <1>8
<1>c. bd[c - 1] \in Nat /\ bd[c] \in Nat
  BY <1>3, <1>6, <1>7
<1>10. j \in bd[c - 1] + 1 .. bd[c]
  BY <1>6, <1>9, <1>c
<1>11. c - 1 \in 1 .. Len(index) /\ j \in bd[c - 1] + 1 .. bd[(c - 1) + 1]
  BY <1>7, <1>10, <1>a, Zenon
<1> QED
  BY <1>11, Zenon

\* A set of numbers without gaps.
LEMMA DownClosed ==
    ASSUME NEW n \in Nat, NEW S \in SUBSET (1 .. n), \A a \in S : \A b \in 1 .. a : b \in S
    PROVE  Cardinality(S) \in 0 .. n /\ S = 1 .. Cardinality(S)
<1>1. IsFiniteSet(S) /\ S \in SUBSET Nat
  <2>1. 1 \in Int /\ n \in Int /\ S \in SUBSET Nat
    OBVIOUS
  <2>2. IsFiniteSet(1 .. n)
    BY <2>1, FS_Interval
  <2> QED
    BY <2>1, <2>2, FS_Subset
<1>2. CASE S = {}
  <2>1. Cardinality(S) = 0 /\ 1 .. 0 = {}
    BY <1>2, FS_EmptySet
  <2> QED
    BY <1>2, <2>1
<1>3. CASE S # {}
  <2>1. PICK m \in S : \A y \in S : y <= m
    BY <1>1, <1>3, GreatestOfFinite
  <2>2. m \in 1 .. n /\ m \in Nat
    OBVIOUS
  <2>3. S = 1 .. m
    <3>1. \A b \in 1 .. m : b \in S
      OBVIOUS
    <3>2. ASSUME NEW b \in S PROVE b \in 1 .. m
      <4>1. b <= m /\ b \in 1 .. n
        BY <2>1
      <4> QED
        BY <2>2, <4>1
    <3> QED
      BY <3>1, <3>2
  <2>4. Cardinality(1 .. m) = m
    <3>1. 1 \in Int /\ m \in Int /\ ~(1 > m)
      BY <2>2
    <3>2. Cardinality(1 .. m) = IF 1 > m THEN 0 ELSE m - 1 + 1
      BY <3>1, FS_Interval
    <3> QED
      BY <2>2, <3>1, <3>2
  <2>5. Cardinality(S) = m
    BY <2>3, <2>4, Zenon
  <2>6. m \in 0 .. n
    BY <2>2
  <2> QED
    BY <2>3, <2>5, <2>6, Zenon
<1> QED
  BY <1>2, <1>3

-----------------------------------------------------------------------------
(***************************************************************************)
(* Reader.Get and Iterator.Seek: searchIndex finds the block, and Seek in  *)
(* it the entry.                                                           *)
(***************************************************************************)
\* i is the first block that does not end before the target.
FirstBlock(index, target, i) ==
    /\ i \in 1 .. Len(index) + 1
    /\ \A b \in 1 .. i - 1 : Less(index[b].lastKey, target)
    /\ i <= Len(index) => ~Less(index[i].lastKey, target)

\* A block ends with a key of the list, and later blocks with later ones.
LEMMA LastKeys ==
    ASSUME NEW es, Sorted(es), NEW off, NEW sh, NEW bd, NEW index, IndexLaid(index, es, off, sh, bd),
           NEW c \in 1 .. Len(index)
    PROVE  /\ bd[c + 1] \in 1 .. Len(es) /\ index[c].lastKey = es[bd[c + 1]].key
           /\ \A b \in 1 .. c : index[b].lastKey = index[c].lastKey \/ Less(index[b].lastKey, index[c].lastKey)
<1>1. /\ bd \in [Nat -> Nat] /\ index \in Seq(Block)
      /\ \A b \in 1 .. Len(index) : BlockLaid(index[b], es, off, sh, bd[b], bd[b + 1])
  BY DEF IndexLaid
<1>2. Len(index) \in Nat /\ Len(es) \in Nat
  BY <1>1, SortedKeys
<1>3. ASSUME NEW b \in 1 .. Len(index) PROVE bd[b + 1] \in 1 .. Len(es) /\ index[b].lastKey = es[bd[b + 1]].key
  <2>1. BlockLaid(index[b], es, off, sh, bd[b], bd[b + 1])
    BY <1>1
  <2>2. bd[b] \in Nat /\ bd[b + 1] \in Nat /\ bd[b] < bd[b + 1] /\ bd[b + 1] <= Len(es)
        /\ index[b].lastKey = es[bd[b + 1]].key
    BY <2>1, Zenon DEF BlockLaid
  <2>3. bd[b + 1] \in 1 .. Len(es)
    BY <1>2, <2>2
  <2> QED
    BY <2>2, <2>3
<1>4. ASSUME NEW b \in 1 .. c PROVE index[b].lastKey = index[c].lastKey \/ Less(index[b].lastKey, index[c].lastKey)
  <2>1. b \in 1 .. Len(index) /\ c + 1 \in 1 .. Len(index) + 1 /\ b + 1 \in 1 .. c + 1
    BY <1>2
  <2>2. bd[b + 1] <= bd[c + 1]
    BY <2>1, BoundsGrow
  <2>3. PICK x \in 1 .. Len(es), y \in 1 .. Len(es) : x = bd[b + 1] /\ y = bd[c + 1]
    BY <1>3, <2>1, Zenon
  <2>4. x = y \/ x < y
    <3>1. x <= y
      BY <2>2, <2>3, Zenon
    <3> QED
      BY <1>2, <3>1
  <2>5. index[b].lastKey = es[x].key /\ index[c].lastKey = es[y].key
    BY <1>3, <2>1, <2>3, Zenon
  <2>6. x < y => Less(es[x].key, es[y].key)
    BY SortedKeys
  <2> QED
    BY <2>4, <2>5, <2>6, Zenon
<1> QED
  BY <1>3, <1>4

\* searchIndex finds it.
LEMMA SearchIndexIs ==
    ASSUME NEW es, Sorted(es), NEW off, NEW sh, NEW bd, NEW index, IndexLaid(index, es, off, sh, bd),
           NEW target \in Seq(Nat)
    PROVE  FirstBlock(index, target, searchIndex(index, target))
<1> DEFINE S == {b \in 1 .. Len(index) : Less(index[b].lastKey, target)}
           n == Cardinality(S)
<1>1. index \in Seq(Block)
  BY DEF IndexLaid
<1>2. Len(index) \in Nat /\ DOMAIN index = 1 .. Len(index)
  BY <1>1
<1>3. ASSUME NEW a \in S, NEW b \in 1 .. a PROVE b \in S
  <2>1. a \in 1 .. Len(index) /\ b \in 1 .. Len(index)
    BY <1>2
  <2>2. index[b].lastKey = index[a].lastKey \/ Less(index[b].lastKey, index[a].lastKey)
    BY <2>1, LastKeys
  <2>3. index[a].lastKey \in Seq(Nat) /\ index[b].lastKey \in Seq(Nat)
    <3>1. index[a] \in Block /\ index[b] \in Block
      BY <1>1, <2>1
    <3> QED
      BY <3>1 DEF Block
  <2>4. Less(index[a].lastKey, target)
    OBVIOUS
  <2>5. Less(index[b].lastKey, target)
    <3>1. CASE index[b].lastKey = index[a].lastKey
      BY <2>4, <3>1, Zenon
    <3>2. CASE Less(index[b].lastKey, index[a].lastKey)
      BY <2>3, <2>4, <3>2, LessTransitive
    <3> QED
      BY <2>2, <3>1, <3>2
  <2> QED
    BY <2>1, <2>5
<1>4. S \in SUBSET (1 .. Len(index))
  OBVIOUS
<1>5. \A b \in 1 .. Len(index) : b \in S <=> Less(index[b].lastKey, target)
  OBVIOUS
<1>6. searchIndex(index, target) = 1 + n
  BY <1>2, Zenon DEF searchIndex
<1> HIDE DEF S
<1>7. n \in 0 .. Len(index) /\ S = 1 .. n
  BY <1>2, <1>3, <1>4, DownClosed
<1> HIDE DEF n
<1>8. PICK i : i = 1 + n
  OBVIOUS
<1>9. i \in 1 .. Len(index) + 1 /\ i - 1 = n /\ i \notin 1 .. n
  BY <1>2, <1>7, <1>8
<1>10. \A b \in 1 .. i - 1 : Less(index[b].lastKey, target)
  <2>1. \A b \in 1 .. n : b \in 1 .. Len(index)
    BY <1>2, <1>7
  <2> QED
    BY <1>5, <1>7, <1>9, <2>1
<1>11. i <= Len(index) => ~Less(index[i].lastKey, target)
  <2>1. i <= Len(index) => i \in 1 .. Len(index)
    BY <1>2, <1>9
  <2> QED
    BY <1>5, <1>7, <1>9, <2>1
<1>12. FirstBlock(index, target, i)
  BY <1>9, <1>10, <1>11 DEF FirstBlock
<1> QED
  BY <1>6, <1>8, <1>12

\* Either every key is smaller, or the block has the first that is not, and Seek comes to it.
Sought(index, es, off, sh, bd, target) ==
    LET i == searchIndex(index, target)
    IN  \/ i = Len(index) + 1 /\ \A j \in 1 .. Len(es) : Less(es[j].key, target)
        \/ /\ i \in 1 .. Len(index)
           /\ \E m \in bd[i] + 1 .. bd[i + 1] :
                 /\ blockSeek(index[i], target) = OnEntry(es, off, sh, m)
                 /\ m \in 1 .. Len(es) /\ FirstNotLess(es, target, 0, m)

\* This is so in every table.
LEMMA TableSeeks ==
    ASSUME NEW es, Sorted(es), NEW off, NEW sh, NEW bd, NEW index, TableLaid(index, es, off, sh, bd),
           NEW target \in Seq(Nat)
    PROVE  Sought(index, es, off, sh, bd, target)
<1>1. IndexLaid(index, es, off, sh, bd)
  BY DEF TableLaid
<1>2. PICK i : i = searchIndex(index, target)
  OBVIOUS
<1>3. FirstBlock(index, target, i)
  BY <1>1, <1>2, SearchIndexIs
<1>4. /\ off \in [Nat -> Nat] /\ sh \in [Nat -> Nat] /\ bd \in [Nat -> Nat] /\ index \in Seq(Block)
      /\ \A b \in 1 .. Len(index) : BlockLaid(index[b], es, off, sh, bd[b], bd[b + 1])
  BY <1>1 DEF IndexLaid
<1>5. Len(index) \in Nat /\ Len(es) \in Nat
  BY <1>4, SortedKeys
<1>6. /\ i \in 1 .. Len(index) + 1
      /\ \A b \in 1 .. i - 1 : Less(index[b].lastKey, target)
      /\ i <= Len(index) => ~Less(index[i].lastKey, target)
  BY <1>3 DEF FirstBlock
\* Every entry of a block before block i is smaller.
<1>7. ASSUME NEW j \in 1 .. Len(es), NEW b \in 1 .. i - 1, b \in 1 .. Len(index), j <= bd[b + 1]
      PROVE  Less(es[j].key, target)
  <2>1. bd[b + 1] \in 1 .. Len(es) /\ index[b].lastKey = es[bd[b + 1]].key
    BY <1>1, <1>7, LastKeys
  <2>2. Less(index[b].lastKey, target)
    BY <1>6
  <2>3. PICK x \in 1 .. Len(es) : x = bd[b + 1]
    BY <2>1, Zenon
  <2>4. Less(es[x].key, target) /\ j <= x
    BY <1>7, <2>1, <2>2, <2>3, Zenon
  <2>5. es[j].key \in Seq(Nat) /\ es[x].key \in Seq(Nat) /\ (j < x => Less(es[j].key, es[x].key))
    BY SortedKeys
  <2>6. j = x \/ j < x
    BY <1>5, <2>4
  <2>7. CASE j = x
    BY <2>4, <2>7, Zenon
  <2>8. CASE j < x
    BY <2>4, <2>5, <2>8, LessTransitive
  <2> QED
    BY <2>6, <2>7, <2>8
<1>8. CASE i = Len(index) + 1
  <2>1. ASSUME NEW j \in 1 .. Len(es) PROVE Less(es[j].key, target)
    <3>1. PICK b \in 1 .. Len(index) : j \in bd[b] + 1 .. bd[b + 1]
      BY BlockOfEntry
    <3>2. b \in 1 .. i - 1 /\ j <= bd[b + 1]
      BY <1>4, <1>5, <1>8, <3>1
    <3> QED
      BY <1>7, <3>2
  <2> QED
    BY <1>2, <1>8, <2>1, Zenon DEF Sought
<1>9. CASE i # Len(index) + 1
  <2>1. i \in 1 .. Len(index) /\ i <= Len(index)
    BY <1>5, <1>6, <1>9
  <2>a. PICK lo, hi, blk : lo = bd[i] /\ hi = bd[i + 1] /\ blk = index[i]
    OBVIOUS
  <2>2. BlockLaid(blk, es, off, sh, lo, hi)
    BY <1>4, <2>1, <2>a, Zenon
  <2>3. ~Less(es[hi].key, target)
    <3>1. index[i].lastKey = es[bd[i + 1]].key
      BY <1>1, <2>1, LastKeys
    <3>2. ~Less(index[i].lastKey, target)
      BY <1>6, <2>1
    <3> QED
      BY <2>a, <3>1, <3>2, Zenon
  <2>4. PICK m \in lo + 1 .. hi : blockSeek(blk, target) = OnEntry(es, off, sh, m) /\ FirstNotLess(es, target, lo, m)
    BY <1>4, <2>2, <2>3, BlockSeeks, ZenonT(60)
  <2>5. lo \in Nat /\ hi \in Nat /\ lo < hi /\ hi <= Len(es)
    BY <2>2 DEF BlockLaid
  <2>6. m \in 1 .. Len(es) /\ m \in Nat
    BY <1>5, <2>5
  <2>7. ASSUME NEW j \in 0 + 1 .. m - 1 PROVE Less(es[j].key, target)
    <3>1. j \in 1 .. Len(es) /\ j \in Nat
      BY <1>5, <2>6
    <3>2. CASE j \in lo + 1 .. m - 1
      BY <2>4, <3>2 DEF FirstNotLess
    <3>3. CASE j \notin lo + 1 .. m - 1
      <4>1. j <= lo
        BY <2>5, <2>6, <3>3
      <4>2. i # 1
        <5>1. lo # 0
          BY <2>5, <4>1
        <5>2. bd[1] = 0
          BY <1>1 DEF IndexLaid
        <5> QED
          BY <2>a, <5>1, <5>2, Zenon
      <4>3. i - 1 \in 1 .. i - 1 /\ i - 1 \in 1 .. Len(index) /\ (i - 1) + 1 = i
        BY <1>5, <2>1, <4>2
      <4>4. j <= bd[(i - 1) + 1]
        BY <2>a, <4>1, <4>3, Zenon
      <4> QED
        BY <1>7, <3>1, <4>3, <4>4
    <3> QED
      BY <3>2, <3>3
  <2>8. FirstNotLess(es, target, 0, m)
    BY <2>4, <2>7 DEF FirstNotLess
  <2> QED
    BY <1>2, <2>1, <2>4, <2>6, <2>8, <2>a, Zenon DEF Sought
<1> QED
  BY <1>8, <1>9

\* The filter knows the keys of the list.
FilterHas(bloom, es) == \A j \in 1 .. Len(es) : MayContain(bloom, es[j].key)

\* The entry of the list with this key.
Found(es, k) == {e \in {es[j] : j \in 1 .. Len(es)} : e.key = k}

\* Get finds the entry of a key of the list, and nothing for others.
LEMMA TableGets ==
    ASSUME NEW es, Sorted(es), NEW off, NEW sh, NEW bd, NEW t, TableLaid(t.index, es, off, sh, bd),
           FilterHas(t.bloom, es), NEW k \in Seq(Nat)
    PROVE  TableGet(t, k) = Found(es, k)
<1>0. \A j \in 1 .. Len(es) : MayContain(t.bloom, es[j].key)
  BY Zenon DEF FilterHas
<1> DEFINE i == searchIndex(t.index, k)
           it == blockSeek(t.index[i], k)
           R == {e \in {es[j] : j \in 1 .. Len(es)} : e.key = k}
<1>1. TableGet(t, k) = IF ~MayContain(t.bloom, k) \/ i > Len(t.index) \/ ~(it.valid /\ it.key = k)
                       THEN {} ELSE {EntryOf(it)}
  BY DEF TableGet
<1>2. Sought(t.index, es, off, sh, bd, k)
  BY TableSeeks
<1>3. \/ i = Len(t.index) + 1 /\ \A j \in 1 .. Len(es) : Less(es[j].key, k)
      \/ /\ i \in 1 .. Len(t.index)
         /\ \E m \in bd[i] + 1 .. bd[i + 1] :
               it = OnEntry(es, off, sh, m) /\ m \in 1 .. Len(es) /\ FirstNotLess(es, k, 0, m)
  BY <1>2, Zenon DEF Sought
<1>4. Len(t.index) \in Nat
  <2>1. t.index \in Seq(Block)
    BY DEF TableLaid, IndexLaid
  <2> QED
    BY <2>1
<1>5. Len(es) \in Nat /\ \A j \in 1 .. Len(es) : es[j] \in TableEntry /\ es[j].key \in Seq(Nat)
  BY SortedKeys
<1>6. \A a, b \in 1 .. Len(es) : a < b => Less(es[a].key, es[b].key)
  BY SortedKeys
<1>7. ~Less(k, k)
  BY LessIrreflexive
<1> HIDE DEF i, it
<1>8. CASE i = Len(t.index) + 1 /\ \A j \in 1 .. Len(es) : Less(es[j].key, k)
  <2>1. i > Len(t.index)
    BY <1>4, <1>8
  <2>2. R = {}
    BY <1>7, <1>8
  <2> HIDE DEF R
  <2>3. TableGet(t, k) = R
    BY <1>1, <2>1, <2>2
  <2> QED
    BY <2>3 DEF R, Found
<1>9. CASE i \in 1 .. Len(t.index) /\ \E m \in bd[i] + 1 .. bd[i + 1] :
               it = OnEntry(es, off, sh, m) /\ m \in 1 .. Len(es) /\ FirstNotLess(es, k, 0, m)
  <2>1. PICK m \in 1 .. Len(es) : it = OnEntry(es, off, sh, m) /\ FirstNotLess(es, k, 0, m)
    BY <1>9, Zenon
  <2>2. it.valid /\ it.key = es[m].key
    BY <2>1 DEF OnEntry, Positioned
  <2>3. EntryOf(it) = es[m]
    BY <1>5, <2>1, EntryType DEF OnEntry
  <2>4. ~(i > Len(t.index))
    BY <1>4, <1>9
  <2>5. ~Less(es[m].key, k) /\ \A j \in 0 + 1 .. m - 1 : Less(es[j].key, k)
    BY <2>1 DEF FirstNotLess
  <2>6. \A j \in 1 .. Len(es) : j \in 0 + 1 .. m - 1 \/ j = m \/ m < j
    BY <1>5
  <2>7. CASE es[m].key = k
    <3>1. MayContain(t.bloom, k)
      BY <1>0, <2>7, Zenon
    <3>2. TableGet(t, k) = {es[m]}
      BY <1>1, <2>2, <2>3, <2>4, <2>7, <3>1
    <3>3. ASSUME NEW j \in 1 .. Len(es), es[j].key = k PROVE j = m
      <4>1. CASE j \in 0 + 1 .. m - 1
        BY <1>7, <2>5, <3>3, <4>1, Zenon
      <4>2. CASE m < j
        <5>1. Less(es[m].key, es[j].key)
          BY <1>6, <4>2
        <5> QED
          BY <1>7, <2>7, <3>3, <5>1, Zenon
      <4> QED
        BY <2>6, <4>1, <4>2
    <3>4. R = {es[m]}
      BY <2>7, <3>3
    <3> HIDE DEF R
    <3>5. TableGet(t, k) = R
      BY <3>2, <3>4
    <3> QED
      BY <3>5 DEF R, Found
  <2>8. CASE es[m].key # k
    <3>1. TableGet(t, k) = {}
      BY <1>1, <2>2, <2>8
    <3>2. ASSUME NEW j \in 1 .. Len(es), es[j].key = k PROVE FALSE
      <4>1. CASE j \in 0 + 1 .. m - 1
        BY <1>7, <2>5, <3>2, <4>1, Zenon
      <4>2. CASE m < j
        <5>1. Less(es[m].key, es[j].key)
          BY <1>6, <4>2
        <5> QED
          BY <2>5, <3>2, <5>1, Zenon
      <4>3. CASE j = m
        BY <2>8, <3>2, <4>3
      <4> QED
        BY <2>6, <4>1, <4>2, <4>3
    <3>3. R = {}
      BY <3>2
    <3> HIDE DEF R
    <3>4. TableGet(t, k) = R
      BY <3>1, <3>3
    <3> QED
      BY <3>4 DEF R, Found
  <2> QED
    BY <2>7, <2>8
<1> QED
  BY <1>3, <1>8, <1>9

-----------------------------------------------------------------------------
(***************************************************************************)
(* Iterator.                                                               *)
(***************************************************************************)
\* The iterator is on entry m, or past the end when there is no such entry.
IterAt(t, it, es, off, sh, bd, m) ==
    /\ m \in 1 .. Len(es) + 1
    /\ m = Len(es) + 1 => it = PastEnd(t)
    /\ m # Len(es) + 1 =>
          \E b \in 1 .. Len(t.index) : m \in bd[b] + 1 .. bd[b + 1] /\ it = [bi |-> b, at |-> OnEntry(es, off, sh, m)]

\* newBlockIter stands on the first entry of the block.
LEMMA AtBlockIs ==
    ASSUME NEW es, Sorted(es), NEW off, NEW sh, NEW bd, NEW t, TableLaid(t.index, es, off, sh, bd),
           NEW b \in 1 .. Len(t.index) + 1
    PROVE  IterAt(t, AtBlock(t, b), es, off, sh, bd, bd[b] + 1)
<1>1. /\ off \in [Nat -> Nat] /\ sh \in [Nat -> Nat] /\ bd \in [Nat -> Nat] /\ t.index \in Seq(Block)
      /\ \A c \in 1 .. Len(t.index) : BlockLaid(t.index[c], es, off, sh, bd[c], bd[c + 1])
      /\ bd[Len(t.index) + 1] = Len(es)
  BY DEF TableLaid, IndexLaid
<1>2. Len(es) \in Nat
  BY SortedKeys
<1>3. Len(t.index) \in Nat /\ DOMAIN t.index = 1 .. Len(t.index)
  <2>1. t.index \in Seq(Block)
    BY <1>1
  <2> QED
    BY <2>1
<1>4. CASE b = Len(t.index) + 1
  <2>1. b \notin 1 .. Len(t.index)
    BY <1>3, <1>4
  <2>2. AtBlock(t, b) = PastEnd(t)
    BY <1>3, <2>1, Zenon DEF AtBlock
  <2>3. bd[b] + 1 = Len(es) + 1
    BY <1>1, <1>4, Zenon
  <2>4. bd[b] + 1 \in 1 .. Len(es) + 1
    BY <1>2, <2>3
  <2> QED
    BY <2>2, <2>3, <2>4 DEF IterAt
<1>5. CASE b # Len(t.index) + 1
  <2>1. b \in 1 .. Len(t.index)
    BY <1>3, <1>5
  <2>a. PICK lo, hi, blk : lo = bd[b] /\ hi = bd[b + 1] /\ blk = t.index[b]
    OBVIOUS
  <2>2. BlockLaid(blk, es, off, sh, lo, hi)
    BY <1>1, <2>1, <2>a, Zenon
  <2>3. lo \in Nat /\ hi \in Nat /\ lo < hi /\ hi <= Len(es) /\ Laid(blk.data, es, off, sh, lo, hi)
    BY <2>2 DEF BlockLaid
  <2>4. lo + 1 \in lo + 1 .. hi /\ (lo + 1) - 1 = lo /\ lo + 1 \in 1 .. Len(es) + 1 /\ lo + 1 # Len(es) + 1
    BY <1>2, <2>3
  <2>5. sh[lo + 1] = 0 /\ off[lo + 1] = Size(es, off, sh, lo, (lo + 1) - 1)
    BY <2>3, <2>4 DEF Laid
  <2>6. off[lo + 1] = 0
    BY <2>4, <2>5, Zenon DEF Size
  <2>7. Readable(blk, es, off, sh, lo, hi)
    BY <1>1, <2>2, BlockReads
  <2>8. blockNext(blk, BlockAt(off[lo + 1])) = OnEntry(es, off, sh, lo + 1)
    BY <2>4, <2>5, <2>7, Zenon DEF Readable
  <2>9. AtBlock(t, b) = [bi |-> b, at |-> blockNext(t.index[b], BlockAt(0))]
    BY <1>3, <2>1, Zenon DEF AtBlock
  <2>10. AtBlock(t, b) = [bi |-> b, at |-> OnEntry(es, off, sh, lo + 1)]
    BY <2>6, <2>8, <2>9, <2>a, Zenon
  <2> QED
    BY <2>1, <2>4, <2>10, <2>a, Zenon DEF IterAt
<1> QED
  BY <1>4, <1>5

\* Next goes to the next entry, or past the end.
LEMMA IterNexts ==
    ASSUME NEW es, Sorted(es), NEW off, NEW sh, NEW bd, NEW t, TableLaid(t.index, es, off, sh, bd),
           NEW it, NEW m, IterAt(t, it, es, off, sh, bd, m)
    PROVE  IF m = Len(es) + 1 THEN IterNext(t, it) = it ELSE IterAt(t, IterNext(t, it), es, off, sh, bd, m + 1)
<1>1. /\ off \in [Nat -> Nat] /\ sh \in [Nat -> Nat] /\ bd \in [Nat -> Nat] /\ t.index \in Seq(Block)
      /\ \A c \in 1 .. Len(t.index) : BlockLaid(t.index[c], es, off, sh, bd[c], bd[c + 1])
      /\ bd[Len(t.index) + 1] = Len(es)
  BY DEF TableLaid, IndexLaid
<1>2. Len(es) \in Nat
  BY SortedKeys
<1>3. Len(t.index) \in Nat /\ DOMAIN t.index = 1 .. Len(t.index)
  <2>1. t.index \in Seq(Block)
    BY <1>1
  <2> QED
    BY <2>1
<1>4. CASE m = Len(es) + 1
  <2>1. it = PastEnd(t)
    BY <1>4 DEF IterAt
  <2>2. it.bi = Len(t.index) + 1
    BY <2>1 DEF PastEnd
  <2>3. it.bi \notin DOMAIN t.index
    BY <1>3, <2>2
  <2>4. IterNext(t, it) = it
    BY <2>3 DEF IterNext
  <2> QED
    BY <1>4, <2>4
<1>5. CASE m # Len(es) + 1
  <2>1. PICK b \in 1 .. Len(t.index) : m \in bd[b] + 1 .. bd[b + 1] /\ it = [bi |-> b, at |-> OnEntry(es, off, sh, m)]
    BY <1>5 DEF IterAt
  <2>a. PICK lo, hi, blk : lo = bd[b] /\ hi = bd[b + 1] /\ blk = t.index[b]
    OBVIOUS
  <2>2. BlockLaid(blk, es, off, sh, lo, hi)
    BY <1>1, <2>a, Zenon
  <2>3. lo \in Nat /\ hi \in Nat /\ lo < hi /\ hi <= Len(es)
    BY <2>2 DEF BlockLaid
  <2>4. Readable(blk, es, off, sh, lo, hi)
    BY <1>1, <2>2, BlockReads
  <2>5. m \in lo + 1 .. hi /\ m \in Nat
    <3>1. m \in lo + 1 .. hi
      BY <2>1, <2>a, Zenon
    <3> QED
      BY <2>3, <3>1
  <2>b. PICK n : n = blockNext(blk, OnEntry(es, off, sh, m))
    OBVIOUS
  <2>c. it.bi = b /\ it.at = OnEntry(es, off, sh, m)
    BY <2>1
  <2>6. IterNext(t, it) = IF n.valid THEN [it EXCEPT !.at = n] ELSE AtBlock(t, b + 1)
    <3>1. it.bi \in DOMAIN t.index
      BY <1>3, <2>c
    <3> QED
      BY <2>a, <2>b, <2>c, <3>1, Zenon DEF IterNext
  <2>7. CASE m = hi
    <3>1. ~n.valid
      BY <2>4, <2>7, <2>b, Zenon DEF Readable
    <3>2. b + 1 \in 1 .. Len(t.index) + 1
      BY <1>3
    <3>3. IterAt(t, AtBlock(t, b + 1), es, off, sh, bd, bd[b + 1] + 1)
      BY <3>2, AtBlockIs
    <3>4. IterAt(t, IterNext(t, it), es, off, sh, bd, m + 1)
      BY <2>6, <2>7, <2>a, <3>1, <3>3, Zenon
    <3> QED
      BY <1>5, <3>4
  <2>8. CASE m # hi
    <3>1. m \in lo + 1 .. hi - 1 /\ m + 1 \in lo + 1 .. hi /\ m + 1 \in 1 .. Len(es) + 1 /\ m + 1 # Len(es) + 1
      BY <1>2, <2>3, <2>5, <2>8
    <3>2. n = OnEntry(es, off, sh, m + 1)
      BY <2>4, <2>b, <3>1, Zenon DEF Readable
    <3>3. n.valid
      BY <3>2 DEF OnEntry, Positioned
    <3>4. [it EXCEPT !.at = n] = [bi |-> b, at |-> n]
      BY <2>1
    <3>5. IterNext(t, it) = [bi |-> b, at |-> OnEntry(es, off, sh, m + 1)]
      BY <2>6, <3>2, <3>3, <3>4, Zenon
    <3>6. IterAt(t, IterNext(t, it), es, off, sh, bd, m + 1)
      BY <2>a, <3>1, <3>5, Zenon DEF IterAt
    <3> QED
      BY <1>5, <3>6
  <2> QED
    BY <2>7, <2>8
<1> QED
  BY <1>4, <1>5

\* Seek goes to the first entry that is not smaller.
LEMMA IterSeeks ==
    ASSUME NEW es, Sorted(es), NEW off, NEW sh, NEW bd, NEW t, TableLaid(t.index, es, off, sh, bd),
           NEW k \in Seq(Nat)
    PROVE  \E m \in 1 .. Len(es) + 1 :
              /\ IterAt(t, IterSeek(t, k), es, off, sh, bd, m)
              /\ \A j \in 1 .. m - 1 : Less(es[j].key, k)
              /\ m # Len(es) + 1 => ~Less(es[m].key, k)
<1>1. PICK i : i = searchIndex(t.index, k)
  OBVIOUS
<1>2. PICK a : a = blockSeek(t.index[i], k)
  OBVIOUS
<1>3. Sought(t.index, es, off, sh, bd, k)
  BY TableSeeks
<1>4. \/ i = Len(t.index) + 1 /\ \A j \in 1 .. Len(es) : Less(es[j].key, k)
      \/ /\ i \in 1 .. Len(t.index)
         /\ \E m \in bd[i] + 1 .. bd[i + 1] :
               a = OnEntry(es, off, sh, m) /\ m \in 1 .. Len(es) /\ FirstNotLess(es, k, 0, m)
  BY <1>1, <1>2, <1>3, Zenon DEF Sought
<1>5. Len(es) \in Nat
  BY SortedKeys
<1>6. Len(t.index) \in Nat
  <2>1. t.index \in Seq(Block)
    BY DEF TableLaid, IndexLaid
  <2> QED
    BY <2>1
<1>7. CASE i = Len(t.index) + 1 /\ \A j \in 1 .. Len(es) : Less(es[j].key, k)
  <2>1. i > Len(t.index)
    BY <1>6, <1>7
  <2>2. IterSeek(t, k) = PastEnd(t)
    BY <1>1, <2>1, Zenon DEF IterSeek
  <2>3. Len(es) + 1 \in 1 .. Len(es) + 1 /\ (Len(es) + 1) - 1 = Len(es)
    BY <1>5
  <2>4. IterAt(t, IterSeek(t, k), es, off, sh, bd, Len(es) + 1)
    BY <2>2, <2>3 DEF IterAt
  <2> QED
    BY <1>7, <2>3, <2>4, Zenon
<1>8. CASE i \in 1 .. Len(t.index) /\ \E m \in bd[i] + 1 .. bd[i + 1] :
               a = OnEntry(es, off, sh, m) /\ m \in 1 .. Len(es) /\ FirstNotLess(es, k, 0, m)
  <2>1. PICK m \in bd[i] + 1 .. bd[i + 1] : a = OnEntry(es, off, sh, m) /\ m \in 1 .. Len(es) /\ FirstNotLess(es, k, 0, m)
    BY <1>8
  <2>2. a.valid
    BY <2>1 DEF OnEntry, Positioned
  <2>3. ~(i > Len(t.index))
    BY <1>6, <1>8
  <2>a. PICK x : x = [bi |-> i, at |-> a]
    OBVIOUS
  <2>b. x.at = a
    BY <2>a
  <2>4. IterSeek(t, k) = x
    BY <1>1, <1>2, <2>2, <2>3, <2>a, <2>b, Zenon DEF IterSeek
  <2>5. m \in 1 .. Len(es) + 1 /\ m # Len(es) + 1
    BY <1>5, <2>1
  <2>6. IterAt(t, IterSeek(t, k), es, off, sh, bd, m)
    BY <1>8, <2>1, <2>4, <2>5, <2>a, Zenon DEF IterAt
  <2>7. ~Less(es[m].key, k) /\ \A j \in 0 + 1 .. m - 1 : Less(es[j].key, k)
    BY <2>1, Zenon DEF FirstNotLess
  <2>8. 0 + 1 = 1
    OBVIOUS
  <2> QED
    BY <2>5, <2>6, <2>7, <2>8, Zenon
<1> QED
  BY <1>4, <1>7, <1>8

-----------------------------------------------------------------------------
(***************************************************************************)
(* Writer.Add, field by field.                                             *)
(***************************************************************************)
IsWriter(v) ==
    \E s, b, r, n, i, k, m :
        v = [blockSize |-> s, buf |-> b, restarts |-> r, blockEntries |-> n, index |-> i, keys |-> k, maxSeq |-> m]

SharedBy(v, e) == IF IsRestart(v) THEN 0 ELSE SharedPrefixLen(lastKey(v), e.key)

Restarts(v) == IF IsRestart(v) THEN Append(v.restarts, Len(v.buf)) ELSE v.restarts

Grown(v, e) == v.buf \o EncodeEntry(e, SharedBy(v, e))

\* The entry goes into the buffer, and with it the block into the index when it is full.
WriterAdded(v, e, a) ==
    /\ IsWriter(a) /\ a.blockSize = v.blockSize /\ a.keys = Append(v.keys, e.key)
    /\ a.maxSeq = IF e.seq > v.maxSeq THEN e.seq ELSE v.maxSeq
    /\ Len(Grown(v, e)) >= v.blockSize /\ Grown(v, e) # << >> =>
           /\ a.buf = << >> /\ a.restarts = << >> /\ a.blockEntries = 0
           /\ a.index = Append(v.index, [lastKey |-> a.keys[Len(a.keys)], data |-> Grown(v, e),
                                         restarts |-> Restarts(v)])
    /\ ~(Len(Grown(v, e)) >= v.blockSize) =>
           /\ a.buf = Grown(v, e) /\ a.restarts = Restarts(v)
           /\ a.blockEntries = v.blockEntries + 1 /\ a.index = v.index

\* This is Add.
LEMMA AddFacts ==
    ASSUME NEW v, IsWriter(v), NEW e
    PROVE  WriterAdded(v, e, Add(v, e))
<1> DEFINE b == [v EXCEPT !.restarts = Restarts(v), !.buf = Grown(v, e), !.blockEntries = v.blockEntries + 1,
                          !.keys = Append(v.keys, e.key), !.maxSeq = IF e.seq > v.maxSeq THEN e.seq ELSE v.maxSeq]
<1>1. Add(v, e) = IF Len(b.buf) >= v.blockSize THEN flushBlock(b) ELSE b
  BY Zenon DEF Add, Restarts, Grown, SharedBy
<1>2. /\ IsWriter(b) /\ b.blockSize = v.blockSize /\ b.keys = Append(v.keys, e.key) /\ b.index = v.index
      /\ b.maxSeq = IF e.seq > v.maxSeq THEN e.seq ELSE v.maxSeq
      /\ b.buf = Grown(v, e) /\ b.restarts = Restarts(v) /\ b.blockEntries = v.blockEntries + 1
  <2> PICK r : r = Restarts(v)
    OBVIOUS
  <2> PICK g : g = Grown(v, e)
    OBVIOUS
  <2> PICK k : k = Append(v.keys, e.key)
    OBVIOUS
  <2> PICK m : m = IF e.seq > v.maxSeq THEN e.seq ELSE v.maxSeq
    OBVIOUS
  <2> PICK n : n = v.blockEntries + 1
    OBVIOUS
  <2>1. b = [v EXCEPT !.restarts = r, !.buf = g, !.blockEntries = n, !.keys = k, !.maxSeq = m]
    OBVIOUS
  <2>2. b = [blockSize |-> v.blockSize, buf |-> g, restarts |-> r, blockEntries |-> n, index |-> v.index,
             keys |-> k, maxSeq |-> m]
    <3> HIDE DEF b
    <3>1. PICK s1, b1, r1, n1, i1, k1, m1 :
             v = [blockSize |-> s1, buf |-> b1, restarts |-> r1, blockEntries |-> n1, index |-> i1, keys |-> k1,
                  maxSeq |-> m1]
      BY DEF IsWriter
    <3> QED
      BY <2>1, <3>1, ZenonT(60)
  <2> HIDE DEF b
  <2> QED
    BY <2>2, ZenonT(60) DEF IsWriter
<1> HIDE DEF b
<1>3. b.buf = << >> => flushBlock(b) = b
  BY DEF flushBlock
<1>4. ASSUME b.buf # << >>
      PROVE  LET a == flushBlock(b)
             IN  /\ IsWriter(a) /\ a.blockSize = b.blockSize /\ a.keys = b.keys /\ a.maxSeq = b.maxSeq
                 /\ a.buf = << >> /\ a.restarts = << >> /\ a.blockEntries = 0
                 /\ a.index = Append(b.index, [lastKey |-> b.keys[Len(b.keys)], data |-> b.buf,
                                               restarts |-> b.restarts])
  <2>1. flushBlock(b) = [b EXCEPT !.index = Append(b.index, [lastKey |-> b.keys[Len(b.keys)], data |-> b.buf,
                                                             restarts |-> b.restarts]),
                                  !.buf = << >>, !.restarts = << >>, !.blockEntries = 0]
    BY <1>4 DEF flushBlock, lastKey
  <2> QED
    BY <1>2, <2>1 DEF IsWriter
<1>5. CASE Len(b.buf) >= v.blockSize /\ b.buf # << >>
  <2>1. Add(v, e) = flushBlock(b)
    BY <1>1, <1>5
  <2> QED
    BY <1>2, <1>4, <1>5, <2>1 DEF WriterAdded
<1>6. CASE ~(Len(b.buf) >= v.blockSize) \/ b.buf = << >>
  <2>1. Add(v, e) = b
    BY <1>1, <1>3, <1>6
  <2> QED
    BY <1>2, <1>6, <2>1 DEF WriterAdded
<1> QED
  BY <1>5, <1>6

-----------------------------------------------------------------------------
(***************************************************************************)
(* The Writer: the blocks in its index and the buffer are the entries      *)
(* added so far.                                                           *)
(***************************************************************************)
\* a and b have the same numbers for lo + 1 to hi.
Agree(a, b, lo, hi) == \A j \in lo + 1 .. hi : b[j] = a[j]

\* Only the numbers of its own entries matter for a block.
LEMMA LaidAgree ==
    ASSUME NEW data, NEW es, NEW off, NEW sh, NEW off2, NEW sh2, NEW lo \in Nat, NEW hi \in Nat, lo <= hi,
           Agree(off, off2, lo, hi), Agree(sh, sh2, lo, hi), Laid(data, es, off, sh, lo, hi)
    PROVE  Laid(data, es, off2, sh2, lo, hi)
<1>1. \A j \in lo + 1 .. hi : off2[j] = off[j] /\ sh2[j] = sh[j]
  BY DEF Agree
<1>2. ASSUME NEW j \in lo .. hi PROVE Size(es, off2, sh2, lo, j) = Size(es, off, sh, lo, j)
  <2>1. CASE j = lo
    BY <2>1, Zenon DEF Size
  <2>2. CASE j # lo
    <3>1. j \in lo + 1 .. hi
      BY <2>2
    <3>2. off2[j] = off[j] /\ sh2[j] = sh[j]
      BY <1>1, <3>1
    <3> QED
      BY <3>2, Zenon DEF Size
  <2> QED
    BY <2>1, <2>2
<1>3. data \in Seq(Nat) /\ Len(data) = Size(es, off, sh, lo, hi)
  BY DEF Laid
<1>4. hi \in lo .. hi
  OBVIOUS
<1>5. Len(data) = Size(es, off2, sh2, lo, hi)
  BY <1>2, <1>3, <1>4, Zenon
<1>6. ASSUME NEW j \in lo + 1 .. hi
      PROVE  /\ off2[j] = Size(es, off2, sh2, lo, j - 1)
             /\ sh2[j] \in 0 .. Len(es[j].key)
             /\ HasAt(data, off2[j], EncodeEntry(es[j], sh2[j]))
             /\ IF j = lo + 1 THEN sh2[j] = 0 ELSE SameFront(es[j - 1].key, es[j].key, sh2[j])
  <2>1. j - 1 \in lo .. hi
    OBVIOUS
  <2>2. /\ off[j] = Size(es, off, sh, lo, j - 1)
        /\ sh[j] \in 0 .. Len(es[j].key)
        /\ HasAt(data, off[j], EncodeEntry(es[j], sh[j]))
        /\ IF j = lo + 1 THEN sh[j] = 0 ELSE SameFront(es[j - 1].key, es[j].key, sh[j])
    BY Zenon DEF Laid
  <2>3. Size(es, off2, sh2, lo, j - 1) = Size(es, off, sh, lo, j - 1)
    BY <1>2, <2>1, Zenon
  <2>4. off2[j] = off[j] /\ sh2[j] = sh[j]
    BY <1>1, Zenon
  <2> QED
    BY <2>2, <2>3, <2>4, Zenon
<1> QED
  BY <1>3, <1>5, <1>6, Zenon DEF Laid

\* So it is for its restarts.
LEMMA RestartsAgree ==
    ASSUME NEW r, NEW off, NEW sh, NEW off2, NEW sh2, NEW lo \in Nat, NEW hi \in Nat, lo <= hi,
           Agree(off, off2, lo, hi), Agree(sh, sh2, lo, hi), RestartsAt(r, off, sh, lo, hi)
    PROVE  RestartsAt(r, off2, sh2, lo, hi)
<1>1. \A j \in lo + 1 .. hi : off2[j] = off[j] /\ sh2[j] = sh[j]
  BY DEF Agree
<1>2. /\ r \in Seq(Nat)
      /\ \A i \in 1 .. Len(r) : \E j \in lo + 1 .. hi : r[i] = off[j] /\ sh[j] = 0
      /\ lo # hi => r # << >> /\ r[1] = off[lo + 1]
  BY Zenon DEF RestartsAt
<1>3. \A i \in 1 .. Len(r) : \E j \in lo + 1 .. hi : r[i] = off2[j] /\ sh2[j] = 0
  BY <1>1, <1>2, ZenonT(60)
<1>4. lo # hi => lo + 1 \in lo + 1 .. hi
  OBVIOUS
<1>5. lo # hi => r # << >> /\ r[1] = off2[lo + 1]
  BY <1>1, <1>2, <1>4, Zenon
<1> QED
  BY <1>2, <1>3, <1>5, Zenon DEF RestartsAt

\* A block with one entry more.
LEMMA LaidGrows ==
    ASSUME NEW es, Sorted(es), NEW off \in [Nat -> Nat], NEW sh, NEW lo \in Nat, NEW n \in Nat, lo <= n, n + 1 <= Len(es),
           NEW data, Laid(data, es, off, sh, lo, n), off[n + 1] = Len(data),
           NEW s, sh[n + 1] = s, s \in 0 .. Len(es[n + 1].key),
           n = lo => s = 0, n # lo => SameFront(es[n].key, es[n + 1].key, s)
    PROVE  Laid(data \o EncodeEntry(es[n + 1], s), es, off, sh, lo, n + 1)
<1>a. PICK e : e = es[n + 1]
  OBVIOUS
<1>b. PICK c : c = EncodeEntry(e, s)
  OBVIOUS
<1>c. PICK d : d = data \o c
  OBVIOUS
<1>1. Len(es) \in Nat /\ \A j \in 1 .. Len(es) : es[j] \in TableEntry
  BY SortedKeys
<1>2. e \in TableEntry
  <2>1. n + 1 \in 1 .. Len(es)
    BY <1>1
  <2> QED
    BY <1>1, <1>a, <2>1, Zenon
<1>3. data \in Seq(Nat) /\ Len(data) = Size(es, off, sh, lo, n)
  BY Zenon DEF Laid
<1>4. c \in Seq(Nat) /\ Len(c) \in Nat
  <2>1. s \in 0 .. Len(e.key)
    BY <1>a, Zenon
  <2> QED
    BY <1>2, <1>b, <2>1, EntryBytes
<1>5. d \in Seq(Nat) /\ Len(d) = Len(data) + Len(c) /\ Len(data) \in Nat
  BY <1>3, <1>4, <1>c, Concat
<1>6. \A i \in 1 .. Len(data) : d[i] = data[i]
  BY <1>3, <1>4, <1>c
<1>7. \A i \in 1 .. Len(c) : d[Len(data) + i] = c[i]
  BY <1>3, <1>4, <1>c, ConcatRight, Zenon
<1>8. Len(d) = Size(es, off, sh, lo, n + 1)
  <2>1. n + 1 # lo
    OBVIOUS
  <2>2. Size(es, off, sh, lo, n + 1) = off[n + 1] + Len(EncodeEntry(es[n + 1], sh[n + 1]))
    BY <2>1, Zenon DEF Size
  <2>3. Size(es, off, sh, lo, n + 1) = Len(data) + Len(c)
    BY <1>a, <1>b, <2>2, Zenon
  <2> QED
    BY <1>5, <2>3, Zenon
<1>9. ASSUME NEW j \in lo + 1 .. n + 1
      PROVE  /\ off[j] = Size(es, off, sh, lo, j - 1)
             /\ sh[j] \in 0 .. Len(es[j].key)
             /\ HasAt(d, off[j], EncodeEntry(es[j], sh[j]))
             /\ IF j = lo + 1 THEN sh[j] = 0 ELSE SameFront(es[j - 1].key, es[j].key, sh[j])
  <2>1. CASE j = n + 1
    <3>1. (n + 1) - 1 = n /\ (n + 1 = lo + 1 <=> n = lo)
      OBVIOUS
    <3>2. HasAt(d, Len(data), c)
      <4>1. Len(data) + Len(c) <= Len(d)
        BY <1>4, <1>5
      <4> QED
        BY <1>7, <4>1, Zenon DEF HasAt
    <3>3. HasAt(d, off[j], EncodeEntry(es[j], sh[j]))
      BY <1>a, <1>b, <2>1, <3>2, Zenon
    <3>4. off[j] = Size(es, off, sh, lo, j - 1)
      BY <1>3, <2>1, <3>1, Zenon
    <3>5. IF j = lo + 1 THEN sh[j] = 0 ELSE SameFront(es[j - 1].key, es[j].key, sh[j])
      BY <2>1, <3>1, Zenon
    <3>6. sh[j] \in 0 .. Len(es[j].key)
      BY <2>1, Zenon
    <3> QED
      BY <3>3, <3>4, <3>5, <3>6
  <2>2. CASE j # n + 1
    <3>1. j \in lo + 1 .. n
      BY <2>2
    <3>2. /\ off[j] = Size(es, off, sh, lo, j - 1)
          /\ sh[j] \in 0 .. Len(es[j].key)
          /\ HasAt(data, off[j], EncodeEntry(es[j], sh[j]))
          /\ IF j = lo + 1 THEN sh[j] = 0 ELSE SameFront(es[j - 1].key, es[j].key, sh[j])
      BY <3>1, Zenon DEF Laid
    <3>3. PICK o, f : o = off[j] /\ f = EncodeEntry(es[j], sh[j])
      OBVIOUS
    <3>4. HasAt(data, o, f)
      BY <3>2, <3>3, Zenon
    <3>5. HasAt(d, o, f)
      <4>0. o \in Nat /\ Len(f) \in Nat
        <5>1. j \in Nat /\ j \in 1 .. Len(es)
          BY <1>1, <3>1
        <5>2. off[j] \in Nat
          BY <5>1
        <5>3. es[j] \in TableEntry
          BY <1>1, <5>1, Zenon
        <5>4. Len(EncodeEntry(es[j], sh[j])) \in Nat
          BY <3>2, <5>3, EntryBytes
        <5> QED
          BY <3>3, <5>2, <5>4, Zenon
      <4>1. o + Len(f) <= Len(data) /\ \A i \in 1 .. Len(f) : data[o + i] = f[i]
        BY <3>4, Zenon DEF HasAt
      <4>2. \A i \in 1 .. Len(f) : o + i \in 1 .. Len(data)
        <5>1. PICK p \in Nat, q \in Nat : p = Len(f) /\ q = Len(data)
          BY <1>5, <4>0, Zenon
        <5>2. o + p <= q /\ o \in Nat
          BY <4>0, <4>1, <5>1, Zenon
        <5>3. \A i \in 1 .. p : o + i \in 1 .. q
          BY <5>2
        <5> QED
          BY <5>1, <5>3, Zenon
      <4>3. o + Len(f) <= Len(d)
        BY <1>4, <1>5, <4>0, <4>1
      <4> QED
        BY <1>6, <4>1, <4>2, <4>3, Zenon DEF HasAt
    <3> QED
      BY <3>2, <3>3, <3>5, Zenon
  <2> QED
    BY <2>1, <2>2
<1>10. Laid(d, es, off, sh, lo, n + 1)
  BY <1>5, <1>8, <1>9, Zenon DEF Laid
<1> QED
  BY <1>10, <1>a, <1>b, <1>c, Zenon

\* A length is a number.
LEMMA LengthIsNat ==
    ASSUME NEW T, NEW s \in Seq(T)
    PROVE  Len(s) \in Nat
  OBVIOUS

\* A number is appended.
LEMMA AppendNat ==
    ASSUME NEW r \in Seq(Nat), NEW x \in Nat
    PROVE  /\ Append(r, x) \in Seq(Nat) /\ Len(Append(r, x)) = Len(r) + 1 /\ Append(r, x)[Len(r) + 1] = x
           /\ \A i \in 1 .. Len(r) : Append(r, x)[i] = r[i]
  OBVIOUS

\* Its restarts, when the entry is one ...
LEMMA RestartsGrow ==
    ASSUME NEW off \in [Nat -> Nat], NEW sh, NEW lo \in Nat, NEW n \in Nat, lo <= n,
           NEW r, RestartsAt(r, off, sh, lo, n), sh[n + 1] = 0
    PROVE  RestartsAt(Append(r, off[n + 1]), off, sh, lo, n + 1)
<1>a. PICK x \in Nat : x = off[n + 1]
  OBVIOUS
<1>1. /\ r \in Seq(Nat)
      /\ \A i \in 1 .. Len(r) : \E j \in lo + 1 .. n : r[i] = off[j] /\ sh[j] = 0
      /\ lo # n => r # << >> /\ r[1] = off[lo + 1]
  BY Zenon DEF RestartsAt
<1>b. PICK a : a = Append(r, x)
  OBVIOUS
<1>2. /\ a \in Seq(Nat) /\ Len(a) = Len(r) + 1 /\ Len(r) \in Nat /\ a[Len(r) + 1] = x
      /\ \A i \in 1 .. Len(r) : a[i] = r[i]
  <2>1. r \in Seq(Nat)
    BY <1>1
  <2>2. Len(r) \in Nat
    BY <2>1
  <2>3. /\ Append(r, x) \in Seq(Nat) /\ Len(Append(r, x)) = Len(r) + 1 /\ Append(r, x)[Len(r) + 1] = x
        /\ \A i \in 1 .. Len(r) : Append(r, x)[i] = r[i]
    BY <2>1, AppendNat
  <2> QED
    BY <1>b, <2>2, <2>3, Zenon
<1>3. ASSUME NEW i \in 1 .. Len(a) PROVE \E j \in lo + 1 .. n + 1 : a[i] = off[j] /\ sh[j] = 0
  <2>1. CASE i \in 1 .. Len(r)
    <3>1. PICK j \in lo + 1 .. n : r[i] = off[j] /\ sh[j] = 0
      BY <1>1, <2>1, Zenon
    <3>2. j \in lo + 1 .. n + 1
      OBVIOUS
    <3> QED
      BY <1>2, <2>1, <3>1, <3>2, Zenon
  <2>2. CASE i \notin 1 .. Len(r)
    <3>1. i = Len(r) + 1
      BY <1>2, <2>2
    <3>2. n + 1 \in lo + 1 .. n + 1
      OBVIOUS
    <3>3. a[i] = off[n + 1] /\ sh[n + 1] = 0
      BY <1>2, <1>a, <3>1, Zenon
    <3> QED
      BY <3>2, <3>3, Zenon
  <2> QED
    BY <2>1, <2>2
<1>4. a # << >>
  <2>1. a \in Seq(Nat) /\ Len(a) # 0
    BY <1>2
  <2> QED
    BY <2>1
<1>5. a[1] = off[lo + 1]
  <2>1. CASE lo = n
    <3>1. \A i \in 1 .. Len(r) : FALSE
      <4>1. \A j \in lo + 1 .. n : FALSE
        BY <2>1
      <4> QED
        BY <1>1, <4>1, Zenon
    <3>2. Len(r) = 0
      BY <1>2, <3>1
    <3>3. Len(r) + 1 = 1
      BY <3>2
    <3> QED
      BY <1>2, <1>a, <2>1, <3>3, Zenon
  <2>2. CASE lo # n
    <3>1. r # << >> /\ r[1] = off[lo + 1] /\ r \in Seq(Nat)
      BY <1>1, <2>2, Zenon
    <3>2. 1 \in 1 .. Len(r)
      BY <3>1
    <3> QED
      BY <1>2, <3>1, <3>2, Zenon
  <2> QED
    BY <2>1, <2>2
<1>6. RestartsAt(a, off, sh, lo, n + 1)
  BY <1>2, <1>3, <1>4, <1>5, Zenon DEF RestartsAt
<1> QED
  BY <1>6, <1>a, <1>b, Zenon

\* ... and when it is not.
LEMMA RestartsStay ==
    ASSUME NEW off, NEW sh, NEW lo \in Nat, NEW n \in Nat, lo <= n, lo # n,
           NEW r, RestartsAt(r, off, sh, lo, n)
    PROVE  RestartsAt(r, off, sh, lo, n + 1)
<1>1. /\ r \in Seq(Nat)
      /\ \A i \in 1 .. Len(r) : \E j \in lo + 1 .. n : r[i] = off[j] /\ sh[j] = 0
      /\ lo # n => r # << >> /\ r[1] = off[lo + 1]
  BY Zenon DEF RestartsAt
<1>2. \A j \in lo + 1 .. n : j \in lo + 1 .. n + 1
  OBVIOUS
<1>3. \A i \in 1 .. Len(r) : \E j \in lo + 1 .. n + 1 : r[i] = off[j] /\ sh[j] = 0
  BY <1>1, <1>2, Zenon
<1> QED
  BY <1>1, <1>3, Zenon DEF RestartsAt

\* The keys the Writer has got are those of the list.
HasKeys(v, es) ==
    /\ IsWriter(v)
    /\ v.keys \in Seq(Key) /\ Len(v.keys) <= Len(es)
    /\ \A i \in 1 .. Len(v.keys) : v.keys[i] = es[i].key

\* The buffer has the entries from lo + 1 to n.
BufferLaid(v, es, off, sh, lo, n) ==
    /\ lo \in Nat /\ n \in Nat /\ lo <= n /\ v.blockEntries = n - lo
    /\ Laid(v.buf, es, off, sh, lo, n)
    /\ RestartsAt(v.restarts, off, sh, lo, n)

\* What the next key shares with the last one is found in the block.
LEMMA SharedByFacts ==
    ASSUME NEW es, Sorted(es), NEW v, HasKeys(v, es), NEW n, n = Len(v.keys), n + 1 <= Len(es),
           NEW lo \in Nat, lo <= n, v.blockEntries = n - lo
    PROVE  LET s == SharedBy(v, es[n + 1])
           IN  /\ s \in 0 .. Len(es[n + 1].key)
               /\ IsRestart(v) => s = 0
               /\ ~IsRestart(v) => lo # n
               /\ lo # n => SameFront(es[n].key, es[n + 1].key, s)
<1>1. Len(es) \in Nat /\ \A j \in 1 .. Len(es) : es[j].key \in Seq(Nat)
  BY SortedKeys
<1>2. n \in Nat
  <2>1. v.keys \in Seq(Key)
    BY Zenon DEF HasKeys
  <2> QED
    BY <2>1
<1>3. n + 1 \in 1 .. Len(es)
  BY <1>1, <1>2
<1>a. PICK e : e = es[n + 1]
  OBVIOUS
<1>4. e.key \in Seq(Nat)
  BY <1>1, <1>3, <1>a, Zenon
<1>b. PICK s : s = SharedBy(v, e)
  OBVIOUS
<1>5. ASSUME lo = n PROVE IsRestart(v)
  <2>1. v.blockEntries = 0
    BY <1>5
  <2>2. 0 % RestartInterval = 0
    BY RestartAssumption
  <2> QED
    BY <2>1, <2>2, Zenon DEF IsRestart
<1>6. CASE IsRestart(v)
  <2>1. s = 0
    BY <1>6, <1>b, Zenon DEF SharedBy
  <2>2. 0 \in 0 .. Len(e.key)
    BY <1>4
  <2>3. ASSUME lo # n PROVE SameFront(es[n].key, e.key, 0)
    <3>1. n \in 1 .. Len(es)
      BY <1>1, <1>2, <2>3
    <3>2. es[n].key \in Seq(Nat)
      BY <1>1, <3>1, Zenon
    <3>3. \A q \in Seq(Nat) : SubSeq(q, 1, 0) = << >>
      OBVIOUS
    <3> QED
      BY <1>4, <3>2, <3>3, Zenon DEF SameFront
  <2> QED
    BY <1>6, <1>a, <1>b, <2>1, <2>2, <2>3, Zenon
<1>7. CASE ~IsRestart(v)
  <2>1. lo # n
    BY <1>5, <1>7, Zenon
  <2>2. n \in 1 .. Len(es)
    BY <1>1, <1>2, <2>1
  <2>a. PICK k : k = es[n].key
    OBVIOUS
  <2>3. k \in Seq(Nat)
    BY <1>1, <2>2, <2>a, Zenon
  <2>4. lastKey(v) = k
    <3>1. n \in 1 .. n
      BY <2>2
    <3>2. \A i \in 1 .. n : v.keys[i] = es[i].key
      BY Zenon DEF HasKeys
    <3> QED
      BY <2>a, <3>1, <3>2, Zenon DEF lastKey
  <2>5. s = SharedPrefixLen(k, e.key)
    BY <1>7, <1>b, <2>4, Zenon DEF SharedBy
  <2>6. s \in Nat /\ s <= Len(k) /\ s <= Len(e.key) /\ \A i \in 1 .. s : k[i] = e.key[i]
    BY <1>4, <2>3, <2>5, SharedFacts
  <2>7. s \in 0 .. Len(e.key)
    BY <1>4, <2>6
  <2>8. SameFront(k, e.key, s)
    <3>1. PICK p, q, b : p = SubSeq(k, 1, s) /\ q = SubSeq(b, 1, s) /\ b = e.key
      OBVIOUS
    <3>2. b \in Seq(Nat) /\ s <= Len(b) /\ \A i \in 1 .. s : k[i] = b[i]
      BY <1>4, <2>6, <3>1, Zenon
    <3>3. p \in Seq(Nat) /\ Len(p) = s /\ \A i \in 1 .. s : p[i] = k[i]
      BY <2>3, <2>6, <3>1
    <3>4. q \in Seq(Nat) /\ Len(q) = s /\ \A i \in 1 .. s : q[i] = b[i]
      BY <2>6, <3>1, <3>2, SMTT(30)
    <3>5. \A i \in 1 .. s : p[i] = q[i]
      BY <3>2, <3>3, <3>4, Zenon
    <3>6. p = q
      BY <3>3, <3>4, <3>5, SeqEqual
    <3> QED
      BY <3>1, <3>6, Zenon DEF SameFront
  <2> QED
    BY <1>7, <1>a, <1>b, <2>1, <2>7, <2>8, <2>a, Zenon
<1> QED
  BY <1>6, <1>7

\* A number is put in its place, and the others stay.
LEMMA Put ==
    ASSUME NEW f \in [Nat -> Nat], NEW n \in Nat, NEW x \in Nat
    PROVE  LET g == [f EXCEPT ![n] = x]
           IN  g \in [Nat -> Nat] /\ g[n] = x /\ \A j \in Nat : j # n => g[j] = f[j]
  OBVIOUS

\* Of the list n entries have been added, and e follows.
NextEntry(v, es, n, e) == n = Len(v.keys) /\ n \in Nat /\ n + 1 <= Len(es) /\ e = es[n + 1]

\* The buffer with one entry more.
LEMMA BufferGrows ==
    ASSUME NEW es, Sorted(es), NEW v, HasKeys(v, es), NEW n, NEW e, NextEntry(v, es, n, e),
           NEW off \in [Nat -> Nat], NEW sh \in [Nat -> Nat], NEW lo, BufferLaid(v, es, off, sh, lo, n)
    PROVE  \E off2 \in [Nat -> Nat], sh2 \in [Nat -> Nat] :
              /\ Agree(off, off2, 0, n) /\ Agree(sh, sh2, 0, n)
              /\ Laid(Grown(v, e), es, off2, sh2, lo, n + 1)
              /\ RestartsAt(Restarts(v), off2, sh2, lo, n + 1)
<1>a. PICK s : s = SharedBy(v, e)
  OBVIOUS
<1>1. /\ lo \in Nat /\ n \in Nat /\ lo <= n /\ v.blockEntries = n - lo
      /\ Laid(v.buf, es, off, sh, lo, n) /\ RestartsAt(v.restarts, off, sh, lo, n)
  BY Zenon DEF BufferLaid
<1>2. /\ s \in 0 .. Len(es[n + 1].key)
      /\ IsRestart(v) => s = 0
      /\ ~IsRestart(v) => lo # n
      /\ lo # n => SameFront(es[n].key, es[n + 1].key, s)
  <2>1. n = Len(v.keys) /\ n + 1 <= Len(es) /\ e = es[n + 1]
    BY Zenon DEF NextEntry
  <2>2. lo \in Nat /\ lo <= n /\ v.blockEntries = n - lo
    BY <1>1
  <2> QED
    BY <2>1, <2>2, <1>a, SharedByFacts
<1>3. v.buf \in Seq(Nat) /\ Len(v.buf) \in Nat
  <2>1. v.buf \in Seq(Nat)
    BY <1>1, Zenon DEF Laid
  <2> QED
    BY <2>1, LengthIsNat, Zenon
<1>4. s \in Nat /\ n + 1 \in Nat /\ n \in Nat /\ lo \in Nat
  <2>1. \A m : s \in 0 .. m => s \in Nat
    OBVIOUS
  <2>2. s \in Nat
    BY <1>2, <2>1, Zenon
  <2>3. n \in Nat /\ lo \in Nat
    BY <1>1
  <2> QED
    BY <2>2, <2>3
<1>b. PICK x \in Nat : x = Len(v.buf)
  BY <1>3, Zenon
<1>c. PICK off2 : off2 = [off EXCEPT ![n + 1] = x]
  OBVIOUS
<1>d. PICK sh2 : sh2 = [sh EXCEPT ![n + 1] = s]
  OBVIOUS
<1>5. off2 \in [Nat -> Nat] /\ off2[n + 1] = x /\ \A j \in Nat : j # n + 1 => off2[j] = off[j]
  BY <1>4, <1>c, Put
<1>6. sh2 \in [Nat -> Nat] /\ sh2[n + 1] = s /\ \A j \in Nat : j # n + 1 => sh2[j] = sh[j]
  BY <1>4, <1>d, Put
<1>7. Agree(off, off2, 0, n) /\ Agree(sh, sh2, 0, n) /\ Agree(off, off2, lo, n) /\ Agree(sh, sh2, lo, n)
  <2>1. \A j \in 0 + 1 .. n : j \in Nat /\ j # n + 1
    BY <1>4
  <2>2. \A j \in lo + 1 .. n : j \in Nat /\ j # n + 1
    BY <1>4
  <2> QED
    BY <1>5, <1>6, <2>1, <2>2, Zenon DEF Agree
<1>8. Laid(v.buf, es, off2, sh2, lo, n)
  BY <1>1, <1>7, LaidAgree, Zenon
<1>9. RestartsAt(v.restarts, off2, sh2, lo, n)
  BY <1>1, <1>7, RestartsAgree, Zenon
<1>10. Laid(v.buf \o EncodeEntry(es[n + 1], s), es, off2, sh2, lo, n + 1)
  <2>1. off2[n + 1] = Len(v.buf)
    BY <1>5, <1>b, Zenon
  <2>2. n = lo => s = 0
    BY <1>2, Zenon
  <2>3. n # lo => SameFront(es[n].key, es[n + 1].key, s)
    BY <1>2, Zenon
  <2>4. off2 \in [Nat -> Nat] /\ sh2[n + 1] = s
    BY <1>5, <1>6
  <2>5. s \in 0 .. Len(es[n + 1].key) /\ lo \in Nat /\ n \in Nat /\ lo <= n
    BY <1>1, <1>2
  <2> QED
    BY <1>8, <2>1, <2>2, <2>3, <2>4, <2>5, LaidGrows, Zenon DEF NextEntry
<1>11. Laid(Grown(v, e), es, off2, sh2, lo, n + 1)
  BY <1>10, <1>a, Zenon DEF Grown, NextEntry
<1>12. RestartsAt(Restarts(v), off2, sh2, lo, n + 1)
  <2>1. CASE IsRestart(v)
    <3>1. sh2[n + 1] = 0 /\ off2[n + 1] = Len(v.buf) /\ off2 \in [Nat -> Nat]
      BY <1>2, <1>5, <1>6, <1>b, <2>1, Zenon
    <3>2. RestartsAt(Append(v.restarts, off2[n + 1]), off2, sh2, lo, n + 1)
      BY <1>1, <1>9, <3>1, RestartsGrow, Zenon
    <3> QED
      BY <2>1, <3>1, <3>2, Zenon DEF Restarts
  <2>2. CASE ~IsRestart(v)
    <3>1. lo # n
      BY <1>2, <2>2, Zenon
    <3>2. RestartsAt(v.restarts, off2, sh2, lo, n + 1)
      BY <1>1, <1>9, <3>1, RestartsStay, Zenon
    <3> QED
      BY <2>2, <3>2, Zenon DEF Restarts
  <2> QED
    BY <2>1, <2>2
<1> QED
  BY <1>5, <1>6, <1>7, <1>11, <1>12, Zenon

\* The blocks of the index stay what they are.
LEMMA IndexAgree ==
    ASSUME NEW es, NEW off, NEW sh, NEW bd, NEW index, IndexLaid(index, es, off, sh, bd), NEW n \in Nat,
           bd[Len(index) + 1] <= n, NEW off2 \in [Nat -> Nat], NEW sh2 \in [Nat -> Nat],
           Agree(off, off2, 0, n), Agree(sh, sh2, 0, n)
    PROVE  IndexLaid(index, es, off2, sh2, bd)
<1>1. /\ bd \in [Nat -> Nat] /\ index \in Seq(Block) /\ bd[1] = 0
      /\ \A b \in 1 .. Len(index) : BlockLaid(index[b], es, off, sh, bd[b], bd[b + 1])
  BY Zenon DEF IndexLaid
<1>2. Len(index) \in Nat
  <2>1. index \in Seq(Block)
    BY <1>1
  <2> QED
    BY <2>1
<1>3. \A c \in 1 .. Len(index) + 1 : \A b \in 1 .. c : bd[b] <= bd[c]
  BY BoundsGrow
<1>4. ASSUME NEW b \in 1 .. Len(index) PROVE BlockLaid(index[b], es, off2, sh2, bd[b], bd[b + 1])
  <2>a. PICK lo, hi, blk : lo = bd[b] /\ hi = bd[b + 1] /\ blk = index[b]
    OBVIOUS
  <2>1. BlockLaid(blk, es, off, sh, lo, hi)
    BY <1>1, <2>a, Zenon
  <2>2. /\ lo \in Nat /\ hi \in Nat /\ lo < hi /\ hi <= Len(es) /\ Laid(blk.data, es, off, sh, lo, hi)
        /\ RestartsAt(blk.restarts, off, sh, lo, hi) /\ blk.lastKey = es[hi].key
    BY <2>1, Zenon DEF BlockLaid
  <2>3. hi <= n
    <3>1. b + 1 \in 1 .. Len(index) + 1 /\ Len(index) + 1 \in 1 .. Len(index) + 1 /\ Len(index) + 1 \in Nat
      <4>1. PICK l \in Nat : l = Len(index)
        BY <1>2, Zenon
      <4>2. b \in 1 .. l
        BY <4>1, Zenon
      <4>3. b + 1 \in 1 .. l + 1 /\ l + 1 \in 1 .. l + 1 /\ l + 1 \in Nat
        BY <4>2
      <4> QED
        BY <4>1, <4>3, Zenon
    <3>2. hi <= bd[Len(index) + 1]
      BY <1>3, <2>a, <3>1, Zenon
    <3>3. PICK m \in Nat : m = bd[Len(index) + 1]
      <4>1. bd \in [Nat -> Nat]
        BY <1>1
      <4>2. bd[Len(index) + 1] \in Nat
        BY <3>1, <4>1
      <4> QED
        BY <4>2, Zenon
    <3>4. hi <= m /\ m <= n
      BY <3>2, <3>3, Zenon
    <3> QED
      BY <2>2, <3>4
  <2>4. Agree(off, off2, lo, hi) /\ Agree(sh, sh2, lo, hi)
    <3>1. \A j \in lo + 1 .. hi : j \in 0 + 1 .. n
      BY <2>2, <2>3
    <3> QED
      BY <3>1, Zenon DEF Agree
  <2>5. lo <= hi
    BY <2>2
  <2>6. Laid(blk.data, es, off2, sh2, lo, hi)
    BY <2>2, <2>4, <2>5, LaidAgree, Zenon
  <2>7. RestartsAt(blk.restarts, off2, sh2, lo, hi)
    BY <2>2, <2>4, <2>5, RestartsAgree, Zenon
  <2>8. BlockLaid(blk, es, off2, sh2, lo, hi)
    BY <2>2, <2>6, <2>7, Zenon DEF BlockLaid
  <2> QED
    BY <2>8, <2>a, Zenon
<1> QED
  BY <1>1, <1>4, Zenon DEF IndexLaid

\* The index has the first hi entries.
UpTo(index, es, off, sh, hi) == \E bd : IndexLaid(index, es, off, sh, bd) /\ bd[Len(index) + 1] = hi

\* One block more.
LEMMA IndexGrows ==
    ASSUME NEW es, NEW off, NEW sh, NEW bd, NEW index, IndexLaid(index, es, off, sh, bd),
           NEW blk \in Block, NEW hi, BlockLaid(blk, es, off, sh, bd[Len(index) + 1], hi)
    PROVE  UpTo(Append(index, blk), es, off, sh, hi)
<1>1. /\ off \in [Nat -> Nat] /\ sh \in [Nat -> Nat] /\ bd \in [Nat -> Nat] /\ index \in Seq(Block) /\ bd[1] = 0
      /\ \A b \in 1 .. Len(index) : BlockLaid(index[b], es, off, sh, bd[b], bd[b + 1])
  BY Zenon DEF IndexLaid
<1>a. PICK l \in Nat : l = Len(index)
  <2>1. index \in Seq(Block)
    BY <1>1
  <2>2. Len(index) \in Nat
    BY <2>1, LengthIsNat, Zenon
  <2> QED
    BY <2>2, Zenon
<1>b. PICK a : a = Append(index, blk)
  OBVIOUS
<1>2. a \in Seq(Block) /\ Len(a) = l + 1 /\ a[l + 1] = blk /\ \A b \in 1 .. l : a[b] = index[b]
  <2>1. index \in Seq(Block)
    BY <1>1
  <2>2. /\ Append(index, blk) \in Seq(Block) /\ Len(Append(index, blk)) = Len(index) + 1
        /\ Append(index, blk)[Len(index) + 1] = blk /\ \A b \in 1 .. Len(index) : Append(index, blk)[b] = index[b]
    BY <2>1, AppendProperties
  <2> QED
    BY <1>a, <1>b, <2>2, Zenon
<1>3. hi \in Nat
  BY Zenon DEF BlockLaid
<1>c. PICK bd2 : bd2 = [bd EXCEPT ![l + 2] = hi]
  OBVIOUS
<1>4. bd2 \in [Nat -> Nat] /\ bd2[l + 2] = hi /\ \A j \in Nat : j # l + 2 => bd2[j] = bd[j]
  <2>1. l + 2 \in Nat
    OBVIOUS
  <2>2. bd \in [Nat -> Nat]
    BY <1>1
  <2> QED
    BY <1>3, <1>c, <2>1, <2>2, Put, ZenonT(60)
<1>5. bd2[1] = 0
  <2>1. 1 # l + 2 /\ 1 \in Nat
    OBVIOUS
  <2> QED
    BY <1>1, <1>4, <2>1, Zenon
<1>6. ASSUME NEW b \in 1 .. l + 1 PROVE BlockLaid(a[b], es, off, sh, bd2[b], bd2[b + 1])
  <2>1. CASE b = l + 1
    <3>1. (l + 1) + 1 = l + 2 /\ l + 1 # l + 2 /\ l + 1 \in Nat
      OBVIOUS
    <3>2. bd2[l + 1] = bd[l + 1] /\ bd2[(l + 1) + 1] = hi /\ a[l + 1] = blk
      BY <1>2, <1>4, <3>1, Zenon
    <3> QED
      BY <1>a, <2>1, <3>2, Zenon
  <2>2. CASE b # l + 1
    <3>1. b \in 1 .. l /\ b \in Nat /\ b + 1 \in Nat /\ b # l + 2 /\ b + 1 # l + 2
      BY <2>2
    <3>2. bd2[b] = bd[b] /\ bd2[b + 1] = bd[b + 1] /\ a[b] = index[b]
      BY <1>2, <1>4, <3>1, Zenon
    <3> QED
      BY <1>1, <1>a, <3>1, <3>2, Zenon
  <2> QED
    BY <2>1, <2>2
<1>7. IndexLaid(a, es, off, sh, bd2)
  BY <1>1, <1>2, <1>4, <1>5, <1>6, Zenon DEF IndexLaid
<1>8. (l + 1) + 1 = l + 2
  OBVIOUS
<1>9. bd2[Len(a) + 1] = hi
  BY <1>2, <1>4, <1>8, Zenon
<1> QED
  BY <1>7, <1>9, <1>b, Zenon DEF UpTo

\* An empty buffer has no entry.
LEMMA NothingLaid ==
    ASSUME NEW es, NEW off, NEW sh, NEW n \in Nat
    PROVE  Laid(<< >>, es, off, sh, n, n) /\ RestartsAt(<< >>, off, sh, n, n)
<1>1. \A j \in n + 1 .. n : FALSE
  OBVIOUS
<1>2. << >> \in Seq(Nat) /\ Len(<< >>) = 0 /\ \A i \in 1 .. Len(<< >>) : FALSE
  OBVIOUS
<1>3. Size(es, off, sh, n, n) = 0
  BY Zenon DEF Size
<1> QED
  BY <1>1, <1>2, <1>3, Zenon DEF Laid, RestartsAt

\* The index and the buffer together have what was added.
WriterLaid(v, es, off, sh, bd) ==
    /\ IndexLaid(v.index, es, off, sh, bd)
    /\ BufferLaid(v, es, off, sh, bd[Len(v.index) + 1], Len(v.keys))

\* Nothing was added to a new Writer.
LEMMA WriterLaidNew ==
    ASSUME NEW es, NEW n
    PROVE  \E off, sh, bd : WriterLaid(NewWriter(n), es, off, sh, bd)
<1>a. PICK v : v = NewWriter(n)
  OBVIOUS
<1>b. PICK z : z = [j \in Nat |-> 0]
  OBVIOUS
<1>1. /\ v.buf = << >> /\ v.restarts = << >> /\ v.index = << >> /\ v.keys = << >> /\ v.blockEntries = 0
  BY <1>a DEF NewWriter
<1>2. z \in [Nat -> Nat] /\ z[1] = 0 /\ z[0 + 1] = 0
  BY <1>b
<1>3. << >> \in Seq(Block) /\ Len(<< >>) = 0 /\ \A i \in 1 .. Len(<< >>) : FALSE
  OBVIOUS
<1>4. IndexLaid(v.index, es, z, z, z)
  BY <1>1, <1>2, <1>3, Zenon DEF IndexLaid
<1>5. 0 \in Nat /\ 0 <= 0 /\ 0 = 0 - 0
  OBVIOUS
<1>6. BufferLaid(v, es, z, z, 0, 0)
  BY <1>1, <1>5, NothingLaid, Zenon DEF BufferLaid
<1>7. WriterLaid(v, es, z, z, z)
  BY <1>1, <1>2, <1>3, <1>4, <1>6, Zenon DEF WriterLaid
<1> QED
  BY <1>7, <1>a, Zenon

\* What was added is found in the index or the buffer.
LEMMA WriterLaidAdd ==
    ASSUME NEW es, Sorted(es), NEW v, HasKeys(v, es), NEW n, NEW e, NextEntry(v, es, n, e),
           NEW off, NEW sh, NEW bd, WriterLaid(v, es, off, sh, bd), NEW a, WriterAdded(v, e, a)
    PROVE  \E off2, sh2, bd2 : WriterLaid(a, es, off2, sh2, bd2)
<1>1. IndexLaid(v.index, es, off, sh, bd) /\ BufferLaid(v, es, off, sh, bd[Len(v.index) + 1], n)
  BY Zenon DEF WriterLaid, NextEntry
<1>2. off \in [Nat -> Nat] /\ sh \in [Nat -> Nat]
  BY <1>1, Zenon DEF IndexLaid
<1>a. PICK lo : lo = bd[Len(v.index) + 1]
  OBVIOUS
<1>3. BufferLaid(v, es, off, sh, lo, n)
  BY <1>1, <1>a, Zenon
<1>4. lo \in Nat /\ n \in Nat /\ lo <= n /\ v.blockEntries = n - lo
  BY <1>3, Zenon DEF BufferLaid
<1>5. PICK off2 \in [Nat -> Nat], sh2 \in [Nat -> Nat] :
          /\ Agree(off, off2, 0, n) /\ Agree(sh, sh2, 0, n)
          /\ Laid(Grown(v, e), es, off2, sh2, lo, n + 1)
          /\ RestartsAt(Restarts(v), off2, sh2, lo, n + 1)
  BY <1>2, <1>3, BufferGrows, Zenon
<1>6. IndexLaid(v.index, es, off2, sh2, bd)
  <2>1. bd[Len(v.index) + 1] <= n
    BY <1>4, <1>a, Zenon
  <2> QED
    BY <1>1, <1>4, <1>5, <2>1, IndexAgree, Zenon
<1>7. n + 1 <= Len(es) /\ e = es[n + 1] /\ n = Len(v.keys)
  BY Zenon DEF NextEntry
<1>8. e \in TableEntry /\ e.key \in Key /\ e.key \in Seq(Nat)
  <2>1. Len(es) \in Nat /\ \A j \in 1 .. Len(es) : es[j] \in TableEntry
    BY SortedKeys
  <2>2. n + 1 \in 1 .. Len(es)
    <3>1. PICK l \in Nat : l = Len(es)
      BY <2>1, Zenon
    <3>2. n \in Nat /\ n + 1 <= l
      BY <1>4, <1>7, <3>1, Zenon
    <3>3. n + 1 \in 1 .. l
      BY <3>2
    <3> QED
      BY <3>1, <3>3, Zenon
  <2>3. e \in TableEntry
    BY <1>7, <2>1, <2>2, Zenon
  <2> QED
    BY <2>3, KeysAreBytes
<1>b. PICK g : g = Grown(v, e)
  OBVIOUS
<1>c. PICK r : r = Restarts(v)
  OBVIOUS
<1>9. g \in Seq(Nat) /\ r \in Seq(Nat) /\ g # << >>
  <2>1. g \in Seq(Nat) /\ Len(g) = Size(es, off2, sh2, lo, n + 1)
    BY <1>5, <1>b, Zenon DEF Laid
  <2>2. r \in Seq(Nat)
    BY <1>5, <1>c, Zenon DEF RestartsAt
  <2>3. n + 1 # lo /\ n + 1 \in lo + 1 .. n + 1 /\ n + 1 \in Nat
    BY <1>4
  <2>4. sh2[n + 1] \in 0 .. Len(es[n + 1].key)
    BY <1>5, <2>3, Zenon DEF Laid
  <2>5. Len(EncodeEntry(e, sh2[n + 1])) \in Nat \ {0}
    <3>1. sh2[n + 1] \in 0 .. Len(e.key)
      BY <1>7, <2>4, Zenon
    <3> QED
      BY <1>8, <3>1, EntryBytes
  <2>6. off2[n + 1] \in Nat
    BY <1>5, <2>3
  <2>7. Len(g) = off2[n + 1] + Len(EncodeEntry(e, sh2[n + 1]))
    BY <1>7, <2>1, <2>3, Zenon DEF Size
  <2>8. Len(g) # 0
    <3>1. PICK p \in Nat, q \in Nat \ {0} : p = off2[n + 1] /\ q = Len(EncodeEntry(e, sh2[n + 1]))
      BY <2>5, <2>6, Zenon
    <3>2. p + q # 0
      OBVIOUS
    <3> QED
      BY <2>7, <3>1, <3>2, Zenon
  <2>9. Len(<< >>) = 0
    OBVIOUS
  <2> QED
    BY <2>1, <2>2, <2>8, <2>9, Zenon
<1>10. /\ IsWriter(a) /\ a.keys = Append(v.keys, e.key)
       /\ Len(g) >= v.blockSize =>
              /\ a.buf = << >> /\ a.restarts = << >> /\ a.blockEntries = 0
              /\ a.index = Append(v.index, [lastKey |-> a.keys[Len(a.keys)], data |-> g, restarts |-> r])
       /\ ~(Len(g) >= v.blockSize) =>
              /\ a.buf = g /\ a.restarts = r /\ a.blockEntries = v.blockEntries + 1 /\ a.index = v.index
  BY <1>9, <1>b, <1>c, Zenon DEF WriterAdded
<1>11. Len(a.keys) = n + 1 /\ a.keys[n + 1] = e.key
  <2>1. v.keys \in Seq(Key)
    BY Zenon DEF HasKeys
  <2>2. Len(Append(v.keys, e.key)) = Len(v.keys) + 1 /\ Append(v.keys, e.key)[Len(v.keys) + 1] = e.key
    BY <1>8, <2>1, AppendProperties
  <2> QED
    BY <1>7, <1>10, <2>2, Zenon
<1>12. n + 1 \in Nat /\ lo <= n + 1 /\ lo < n + 1
  BY <1>4
<1>13. CASE ~(Len(g) >= v.blockSize)
  <2>1. a.buf = g /\ a.restarts = r /\ a.blockEntries = v.blockEntries + 1 /\ a.index = v.index
    BY <1>10, <1>13
  <2>2. (n - lo) + 1 = (n + 1) - lo
    BY <1>4
  <2>3. a.blockEntries = (n + 1) - lo
    BY <1>4, <2>1, <2>2, Zenon
  <2>4. BufferLaid(a, es, off2, sh2, lo, n + 1)
    BY <1>4, <1>5, <1>12, <1>b, <1>c, <2>1, <2>3, Zenon DEF BufferLaid
  <2>5. WriterLaid(a, es, off2, sh2, bd)
    BY <1>6, <1>11, <1>a, <2>1, <2>4, Zenon DEF WriterLaid
  <2> QED
    BY <2>5, Zenon
<1>14. CASE Len(g) >= v.blockSize
  <2>a. PICK blk : blk = [lastKey |-> e.key, data |-> g, restarts |-> r]
    OBVIOUS
  <2>1. /\ a.buf = << >> /\ a.restarts = << >> /\ a.blockEntries = 0 /\ a.index = Append(v.index, blk)
    BY <1>10, <1>11, <1>14, <2>a, Zenon
  <2>2. blk.lastKey = e.key /\ blk.data = g /\ blk.restarts = r /\ blk \in Block
    <3>1. blk.lastKey = e.key /\ blk.data = g /\ blk.restarts = r
      BY <2>a
    <3>2. blk \in Block
      BY <1>8, <1>9, <2>a DEF Block
    <3> QED
      BY <3>1, <3>2
  <2>3. BlockLaid(blk, es, off2, sh2, lo, n + 1)
    BY <1>4, <1>5, <1>7, <1>12, <1>b, <1>c, <2>2, Zenon DEF BlockLaid
  <2>4. BlockLaid(blk, es, off2, sh2, bd[Len(v.index) + 1], n + 1)
    BY <1>a, <2>3, Zenon
  <2>5. PICK bd2 : /\ IndexLaid(Append(v.index, blk), es, off2, sh2, bd2)
                   /\ bd2[Len(Append(v.index, blk)) + 1] = n + 1
    <3>1. UpTo(Append(v.index, blk), es, off2, sh2, n + 1)
      BY <1>6, <2>2, <2>4, IndexGrows, Zenon
    <3> QED
      BY <3>1, Zenon DEF UpTo
  <2>6. 0 = (n + 1) - (n + 1) /\ n + 1 <= n + 1
    BY <1>12
  <2>7. BufferLaid(a, es, off2, sh2, n + 1, n + 1)
    BY <1>12, <2>1, <2>6, NothingLaid, Zenon DEF BufferLaid
  <2>8. WriterLaid(a, es, off2, sh2, bd2)
    BY <1>11, <2>1, <2>5, <2>7, Zenon DEF WriterLaid
  <2> QED
    BY <2>8, Zenon
<1> QED
  BY <1>13, <1>14

\* A table that has the list: its blocks, and a filter with all of its keys.
TableHolds(t, es) ==
    /\ \E off, sh, bd : TableLaid(t.index, es, off, sh, bd)
    /\ FilterHas(t.bloom, es)

\* Finish flushes what is left in the buffer, and then the table has the list.
LEMMA FinishLaid ==
    ASSUME NEW es, Sorted(es), NEW v, HasKeys(v, es), Len(v.keys) = Len(es),
           NEW off, NEW sh, NEW bd, WriterLaid(v, es, off, sh, bd)
    PROVE  TableHolds(FinishTable(v), es)
<1>a. PICK n : n = Len(es)
  OBVIOUS
<1>b. PICK lo : lo = bd[Len(v.index) + 1]
  OBVIOUS
<1>1. IndexLaid(v.index, es, off, sh, bd) /\ BufferLaid(v, es, off, sh, lo, n)
  BY <1>a, <1>b, Zenon DEF WriterLaid
<1>2. /\ lo \in Nat /\ n \in Nat /\ lo <= n /\ Laid(v.buf, es, off, sh, lo, n)
      /\ RestartsAt(v.restarts, off, sh, lo, n)
  BY <1>1, Zenon DEF BufferLaid
<1>c. PICK buf : buf = v.buf
  OBVIOUS
<1>3. buf \in Seq(Nat) /\ Len(buf) = Size(es, off, sh, lo, n)
  BY <1>2, <1>c, Zenon DEF Laid
<1>4. off \in [Nat -> Nat] /\ sh \in [Nat -> Nat]
  BY <1>1, Zenon DEF IndexLaid
<1>d. PICK blk : blk = [lastKey |-> lastKey(v), data |-> buf, restarts |-> v.restarts]
  OBVIOUS
<1>5. flushBlock(v).index = IF buf = << >> THEN v.index ELSE Append(v.index, blk)
  <2>1. IsWriter(v)
    BY Zenon DEF HasKeys
  <2>2. CASE buf = << >>
    BY <1>c, <2>2, Zenon DEF flushBlock
  <2>3. CASE buf # << >>
    <3>1. flushBlock(v) = [v EXCEPT !.index = Append(v.index, blk), !.buf = << >>, !.restarts = << >>,
                                    !.blockEntries = 0]
      BY <1>c, <1>d, <2>3 DEF flushBlock
    <3>2. PICK x : x = Append(v.index, blk)
      OBVIOUS
    <3>3. flushBlock(v) = [v EXCEPT !.index = x, !.buf = << >>, !.restarts = << >>, !.blockEntries = 0]
      BY <3>1, <3>2, Zenon
    <3>4. flushBlock(v).index = x
      BY <2>1, <3>3 DEF IsWriter
    <3> QED
      BY <2>3, <3>2, <3>4, Zenon
  <2> QED
    BY <2>2, <2>3
<1>6. \A j \in 1 .. n : es[j] \in TableEntry /\ es[j].key \in Seq(Nat)
  BY <1>a, SortedKeys, Zenon
<1>7. \E off2, sh2, bd2 : TableLaid(flushBlock(v).index, es, off2, sh2, bd2)
  <2>1. CASE lo = n
    <3>1. Len(buf) = 0
      BY <1>3, <2>1, Zenon DEF Size
    <3>2. buf = << >>
      BY <1>3, <3>1, EmptySeq, Zenon
    <3>3. flushBlock(v).index = v.index
      BY <1>5, <3>2, Zenon
    <3>4. TableLaid(v.index, es, off, sh, bd)
      BY <1>1, <1>a, <1>b, <2>1, Zenon DEF TableLaid
    <3> QED
      BY <3>3, <3>4, Zenon
  <2>2. CASE lo # n
    <3>1. n \in lo + 1 .. n /\ n \in 1 .. n /\ lo < n /\ n <= n
      BY <1>2, <2>2
    <3>2. buf # << >>
      <4>1. sh[n] \in 0 .. Len(es[n].key)
        BY <1>2, <3>1, Zenon DEF Laid
      <4>2. Len(EncodeEntry(es[n], sh[n])) \in Nat \ {0}
        BY <1>6, <3>1, <4>1, EntryBytes
      <4>3. off[n] \in Nat
        BY <1>2, <1>4
      <4>4. PICK p \in Nat, q \in Nat \ {0} : p = off[n] /\ q = Len(EncodeEntry(es[n], sh[n]))
        BY <4>2, <4>3, Zenon
      <4>5. Len(buf) = p + q
        BY <1>3, <2>2, <4>4, Zenon DEF Size
      <4>6. p + q # 0
        OBVIOUS
      <4>7. Len(<< >>) = 0
        OBVIOUS
      <4> QED
        BY <4>5, <4>6, <4>7, Zenon
    <3>3. flushBlock(v).index = Append(v.index, blk)
      BY <1>5, <3>2, Zenon
    <3>4. lastKey(v) = es[n].key
      <4>1. n = Len(v.keys)
        BY <1>a
      <4>2. \A i \in 1 .. n : v.keys[i] = es[i].key
        BY <4>1, Zenon DEF HasKeys
      <4> QED
        BY <3>1, <4>1, <4>2, Zenon DEF lastKey
    <3>5. /\ blk.lastKey = es[n].key /\ blk.data = buf /\ blk.restarts = v.restarts /\ blk \in Block
      <4>1. blk.lastKey = lastKey(v) /\ blk.data = buf /\ blk.restarts = v.restarts
        BY <1>d
      <4>2. PICK k, r : k = lastKey(v) /\ r = v.restarts
        OBVIOUS
      <4>3. k \in Seq(Nat)
        BY <1>6, <3>1, <3>4, <4>2, Zenon
      <4>4. r \in Seq(Nat)
        BY <1>2, <4>2, Zenon DEF RestartsAt
      <4>5. blk = [lastKey |-> k, data |-> buf, restarts |-> r]
        BY <1>d, <4>2, Zenon
      <4>6. blk \in Block
        BY <1>3, <4>3, <4>4, <4>5 DEF Block
      <4> QED
        BY <3>4, <4>1, <4>6, Zenon
    <3>6. n <= Len(es)
      BY <1>a, <3>1, Zenon
    <3>7. BlockLaid(blk, es, off, sh, bd[Len(v.index) + 1], n)
      BY <1>2, <1>b, <1>c, <3>1, <3>5, <3>6, Zenon DEF BlockLaid
    <3>8. UpTo(Append(v.index, blk), es, off, sh, n)
      BY <1>1, <3>5, <3>7, IndexGrows, Zenon
    <3>9. PICK bd2 : IndexLaid(Append(v.index, blk), es, off, sh, bd2) /\ bd2[Len(Append(v.index, blk)) + 1] = n
      BY <3>8, Zenon DEF UpTo
    <3>10. TableLaid(Append(v.index, blk), es, off, sh, bd2)
      BY <1>a, <3>9, Zenon DEF TableLaid
    <3> QED
      BY <3>3, <3>10, Zenon
  <2> QED
    BY <2>1, <2>2
<1>8. ASSUME NEW j \in 1 .. n PROVE MayContain(Build(v.keys), es[j].key)
  <2>1. v.keys \in Seq(Key) /\ j \in 1 .. Len(v.keys) /\ v.keys[j] = es[j].key
    BY <1>a, <1>8, Zenon DEF HasKeys
  <2>2. MayContain(Build(v.keys), v.keys[j])
    BY <2>1, FilterHasKeys, Zenon
  <2> QED
    BY <2>1, <2>2, Zenon
<1>9. FinishTable(v).index = flushBlock(v).index /\ FinishTable(v).bloom = Build(v.keys)
  BY DEF FinishTable
<1> QED
  BY <1>7, <1>8, <1>9, <1>a, Zenon DEF TableHolds, FilterHas
=============================================================================
