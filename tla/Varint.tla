------------------------------- MODULE Varint -------------------------------
(***************************************************************************)
(* internal/varintx: numbers as sequences of bytes, the low digits first;  *)
(* every byte but the last has its high bit set.  The code has 128 for     *)
(* Base and 10 for MaxLen, which leaves one bit of the last byte.  A       *)
(* smaller pair has the same boundaries nearer to zero.                    *)
(***************************************************************************)
EXTENDS Naturals, Sequences, FiniteSets, FiniteSetsExt

CONSTANTS
    Base,    \* 0x80, the high bit of a byte
    MaxLen   \* MaxUint64Len

ASSUME VarintAssumption == Base \in Nat \ {0, 1} /\ MaxLen \in Nat \ {0}

\* The weight of digit n: shifted by n times 7 bits.
Pow[n \in Nat] == IF n = 0 THEN 1 ELSE Base * Pow[n - 1]

\* What is left for the last byte of a number of full length is one bit.
MaxUint == 2 * Pow[MaxLen - 1] - 1

EncodeUint64(x) ==
    LET Enc[n \in 0 .. MaxUint] ==
            IF n >= Base THEN <<(n % Base) + Base>> \o Enc[n \div Base] ELSE <<n>>
    IN  Enc[x]

\* ErrOverflow and ErrTruncated.
DecodeError == [x |-> 0, n |-> 0]

\* The number at the start of b and how many bytes it takes.
DecodeUint64(b) ==
    LET ends == {i \in 1 .. Len(b) : b[i] < Base}
        n == Min(ends)
        Digit(i) == (b[i] % Base) * Pow[i - 1]
    IN  IF ends = {} \/ n > MaxLen \/ (n = MaxLen /\ b[n] > 1)
        THEN DecodeError
        ELSE [x |-> MapThenSumSet(Digit, 1 .. n), n |-> n]
=============================================================================
