-------------------------------- MODULE WAL --------------------------------
(***************************************************************************)
(* internal/wal: the log is a sequence of frames, each a record or a batch *)
(* of records with consecutive sequence numbers, protected by a checksum.  *)
(* A frame whose bytes are not all in the file fails its length or         *)
(* checksum test; whatever is left of it is the value Torn.                *)
(***************************************************************************)
EXTENDS Entries

Frame(first, ops) == [first |-> first, ops |-> ops]

Torn == Frame(0, << >>)

\* The records decodeFrame returns for a frame.  (An empty key it returns as nil: see MayRefuse.)
FrameEntries(f) ==
    {[key |-> f.ops[i].key, val |-> f.ops[i].val, seq |-> f.first + i - 1] : i \in 1 .. Len(f.ops)}

LogEntries(w) == UNION {FrameEntries(w[i]) : i \in 1 .. Len(w)}

(***************************************************************************)
(* scanValidPrefix walks the frames from the start and stops at the first  *)
(* one that is not whole.                                                  *)
(***************************************************************************)
ValidLen(w) ==
    CHOOSE n \in 0 .. Len(w) :
        /\ \A i \in 1 .. n : w[i] # Torn
        /\ n = Len(w) \/ w[n + 1] = Torn

Prefix(w, n) == SubSeq(w, 1, n)

\* Mutant: a torn tail is left in the file.
recoverTail_KeepsTail(w) == w

\* recoverTail truncates the log to its valid prefix.
recoverTail(w) == Prefix(w, ValidLen(w))

\* The sequence number recoverTail leaves in nextSeq.
recoveredSeq(w) == Highest(SeqsOf(LogEntries(recoverTail(w))))

\* Replay hands every record before the first frame that is not whole to the memtable.
Replay(w) == LogEntries(recoverTail(w))
=============================================================================
