------------------------------ MODULE CPBuffer ------------------------------
(***************************************************************************)
(* cpbuffer, the circular buffer of fixed capacity in which the control    *)
(* connections (and dinitctl) collect bytes from a socket and in which the *)
(* log keeps messages.  It implements BoundedFifo.                         *)
(***************************************************************************)
EXTENDS Integers, Sequences

CONSTANTS Data, SIZE
ASSUME SizeAssumption == SIZE \in Nat \ {0} /\ Data # {}

VARIABLES buf, cur_idx, length, event
vars == <<buf, cur_idx, length, event>>

Index == 0 .. SIZE - 1
\* Every index is brought back into the array by at most one subtraction.
Wrap(p) == IF p >= SIZE THEN p - SIZE ELSE p
Strings(n) == [1 .. n -> Data]
Fewer(m, n) == IF m < n THEN m ELSE n
get_free == SIZE - length

Init ==
  /\ buf \in [Index -> Data]
  /\ cur_idx = 0 /\ length = 0
  /\ event = [op |-> "none", s |-> <<>>]

\* memcpy of n elements of s, from the k-th on, to b + i
Copied(b, i, s, k, n) == [j \in Index |-> IF i <= j /\ j < i + n THEN s[k + (j - i)] ELSE b[j]]

\* read() fills the space up to the end of the array or the start of the contents.
FillLimit(pos) == Fewer(SIZE - pos, SIZE - length)
Fill ==
  LET pos == Wrap(cur_idx + length)
  IN \E r \in 0 .. FillLimit(pos) : \E s \in Strings(r) :
       /\ buf' = Copied(buf, pos, s, 1, r)
       /\ length' = length + r
       /\ event' = [op |-> "put", s |-> s]
       /\ UNCHANGED cur_idx

\* The caller makes certain that there is room.
AppendFirstSpan(s, n) ==
  Copied(buf, Wrap(cur_idx + length), s, 1, Fewer(SIZE - Wrap(cur_idx + length), n))
AppendBoth(s, n) ==
  LET index == Wrap(cur_idx + length)
      max == SIZE - index
      first == Copied(buf, index, s, 1, Fewer(max, n))
  IN IF n > max THEN Copied(first, 0, s, max + 1, n - max) ELSE first
AppendString ==
  \E n \in 0 .. get_free : \E s \in Strings(n) :
    /\ buf' = AppendBoth(s, n)
    /\ length' = length + n
    /\ event' = [op |-> "put", s |-> s]
    /\ UNCHANGED cur_idx

Consume ==
  \E amount \in 0 .. length :
    /\ cur_idx' = Wrap(cur_idx + amount)
    /\ length' = length - amount
    /\ event' = [op |-> "drop", s |-> <<>>]
    /\ UNCHANGED buf

TrimTo ==
  \E new_length \in 0 .. length :
    /\ length' = new_length
    /\ event' = [op |-> "cut", s |-> <<>>]
    /\ UNCHANGED <<buf, cur_idx>>

Reset ==
  /\ cur_idx' = 0 /\ length' = 0
  /\ event' = [op |-> "cut", s |-> <<>>]
  /\ UNCHANGED buf

\* extract and extract_string: one copy, or two when the string passes the end of the array
Extracted(index, n) ==
  LET start == Wrap(cur_idx + index)
      half == SIZE - start
  IN [k \in 1 .. n |-> IF start + n > SIZE /\ k > half THEN buf[k - half - 1] ELSE buf[start + k - 1]]
Extract ==
  \E index \in 0 .. length : \E n \in 0 .. length - index :
    /\ event' = [op |-> "peek", s |-> Extracted(index, n)]
    /\ UNCHANGED <<buf, cur_idx, length>>

Next == Fill \/ AppendString \/ Consume \/ TrimTo \/ Reset \/ Extract
Spec == Init /\ [][Next]_vars

-----------------------------------------------------------------------------
\* get_contiguous_length(get_ptr(0)), asked for a buffer that is not empty
EndBeforeStart(eidx) == eidx >= cur_idx
EndAfterStart(eidx) == eidx > cur_idx
get_contiguous_length ==
  LET eidx == Wrap(cur_idx + length)
  IN IF EndAfterStart(eidx) THEN eidx - cur_idx ELSE SIZE - cur_idx

TypeOK ==
  /\ buf \in [Index -> Data]
  /\ cur_idx \in Index
  /\ length \in 0 .. SIZE

\* The contents, in order
Contents == [i \in 1 .. length |-> buf[Wrap(cur_idx + (i - 1))]]

\* The span that the log writes first lies within the contents and runs to their end or to the end
\* of the array, also when the buffer is full and the two indices are equal.
SpanIsContents == length > 0 => get_contiguous_length = Fewer(length, SIZE - cur_idx)

\* What every operation puts in, leaves and returns is what a queue would: the buffer implements
\* BoundedFifo, however often the indices have wrapped around.
Fifo == INSTANCE BoundedFifo WITH q <- Contents, Capacity <- SIZE
ImplementsFifo == Fifo!Spec
=============================================================================
