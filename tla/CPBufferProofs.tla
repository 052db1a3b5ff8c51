--------------------------- MODULE CPBufferProofs ---------------------------
(* The circular buffer implements the bounded queue, for every capacity and every alphabet. *)
EXTENDS CPBuffer, SequenceTheorems, TLAPS

\* The leaves are for the SMT solver, where they do not name another prover.
USE SMTT(60)

\* The indices stay within the array and the length within the capacity.
THEOREM BufferTypeCorrect == Spec => []TypeOK
<1>1. Init => TypeOK
  BY SizeAssumption DEF Init, TypeOK, Index
<1>2. TypeOK /\ [Next]_vars => TypeOK'
  <2> SUFFICES ASSUME TypeOK, [Next]_vars PROVE TypeOK'
    OBVIOUS
  <2> USE SizeAssumption DEF TypeOK, Index
  <2>1. CASE Fill
    <3>0. PICK r \in 0 .. FillLimit(Wrap(cur_idx + length)) : \E s \in Strings(r) :
            /\ buf' = Copied(buf, Wrap(cur_idx + length), s, 1, r)
            /\ length' = length + r /\ UNCHANGED cur_idx
      BY <2>1 DEF Fill
    <3>1. PICK s \in Strings(r) :
            /\ buf' = Copied(buf, Wrap(cur_idx + length), s, 1, r)
            /\ length' = length + r /\ UNCHANGED cur_idx
      BY <3>0
    <3>2. r <= SIZE - length /\ r \in Nat
      BY DEF FillLimit, Fewer, Wrap
    <3>3. buf' \in [Index -> Data]
      BY <3>1, <3>2 DEF Copied, Strings, Wrap
    <3> QED  BY <3>1, <3>2, <3>3
  <2>2. CASE AppendString
    <3>0. PICK n \in 0 .. get_free : \E s \in Strings(n) :
            buf' = AppendBoth(s, n) /\ length' = length + n /\ UNCHANGED cur_idx
      BY <2>2 DEF AppendString
    <3>1. PICK s \in Strings(n) :
            buf' = AppendBoth(s, n) /\ length' = length + n /\ UNCHANGED cur_idx
      BY <3>0
    <3>2. buf' \in [Index -> Data]
      BY <3>1 DEF AppendBoth, Copied, Strings, Wrap, Fewer, get_free
    <3> QED  BY <3>1, <3>2 DEF get_free
  <2>3. CASE Consume
    BY <2>3 DEF Consume, Wrap
  <2>4. CASE TrimTo
    BY <2>4 DEF TrimTo
  <2>5. CASE Reset
    BY <2>5 DEF Reset
  <2>6. CASE Extract
    BY <2>6 DEF Extract
  <2>7. CASE UNCHANGED vars
    BY <2>7 DEF vars
  <2> QED  BY <2>1, <2>2, <2>3, <2>4, <2>5, <2>6, <2>7 DEF Next
<1> QED  BY <1>1, <1>2, PTL DEF Spec

\* The contiguous span that get_contiguous_length reports is the first part of the contents.
THEOREM SpanCorrect == Spec => []SpanIsContents
<1>1. TypeOK => SpanIsContents
  BY SizeAssumption DEF TypeOK, SpanIsContents, get_contiguous_length, EndAfterStart, Wrap, Fewer,
      Index
<1> QED  BY <1>1, BufferTypeCorrect, PTL

\* The contents form a sequence over Data.
LEMMA ContentsType == ASSUME TypeOK PROVE Contents \in Seq(Data) /\ Len(Contents) = length
<1>1. \A i \in 1 .. length : buf[Wrap(cur_idx + (i - 1))] \in Data
  BY SizeAssumption DEF TypeOK, Wrap, Index
<1> QED  BY <1>1 DEF Contents, TypeOK

\* Copying a string behind the contents, in one or two spans, makes the queue longer by it.
LEMMA PutAppends ==
  ASSUME TypeOK, NEW n \in 0 .. get_free, NEW s \in Strings(n),
         length' = length + n, cur_idx' = cur_idx,
         \A k \in 1 .. n : buf'[Wrap(cur_idx + (length + k - 1))] = s[k],
         \A i \in 1 .. length : buf'[Wrap(cur_idx + (i - 1))] = buf[Wrap(cur_idx + (i - 1))],
         event' = [op |-> "put", s |-> s]
  PROVE  Fifo!Put
<1> USE SizeAssumption DEF TypeOK, Index
<1>1. Contents \in Seq(Data) /\ Len(Contents) = length
  BY ContentsType
<1>2. s \in Seq(Data) /\ Len(s) = n
  BY DEF Strings, get_free
<1>3. Contents' = [i \in 1 .. length + n |-> buf'[Wrap(cur_idx + (i - 1))]]
  BY DEF Contents
<1>4. /\ Contents \o s \in Seq(Data) /\ Len(Contents \o s) = length + n
      /\ \A i \in 1 .. length + n :
           (Contents \o s)[i] = IF i <= length THEN Contents[i] ELSE s[i - length]
  <2>1. /\ Contents \o s \in Seq(Data) /\ Len(Contents \o s) = Len(Contents) + Len(s)
        /\ \A i \in 1 .. Len(Contents) + Len(s) :
             (Contents \o s)[i] = IF i <= Len(Contents) THEN Contents[i] ELSE s[i - Len(Contents)]
    BY ZenonT(60), <1>1, <1>2, ConcatProperties
  <2> QED  BY <2>1, <1>1, <1>2
<1>5. \A i \in 1 .. length + n :
        buf'[Wrap(cur_idx + (i - 1))] = IF i <= length THEN Contents[i] ELSE s[i - length]
  <2> SUFFICES ASSUME NEW i \in 1 .. length + n
               PROVE  buf'[Wrap(cur_idx + (i - 1))] = IF i <= length THEN Contents[i] ELSE s[i - length]
    BY ZenonT(60)
  <2>1. CASE i <= length
    <3>1. i \in 1 .. length  BY <2>1
    <3> QED  BY ZenonT(60), <2>1, <3>1 DEF Contents
  <2>2. CASE ~(i <= length)
    <3>1. i - length \in 1 .. n /\ length + (i - length) - 1 = i - 1  BY <2>2 DEF get_free
    <3> QED  BY <2>2, <3>1
  <2> QED  BY <2>1, <2>2
<1>6. Contents' = Contents \o s
  <2>1. Contents \o s \in [1 .. length + n -> Data]
    BY ZenonT(60), <1>4, LenProperties
  <2> QED  BY ZenonT(60), <2>1, <1>3, <1>4, <1>5
<1>7. n \in 0 .. SIZE - Len(Contents)
  BY <1>1 DEF get_free
<1> QED  BY ZenonT(60), <1>6, <1>7 DEF Fifo!Put, Fifo!Strings, Strings

\* Every operation of the buffer is an operation of the queue.
LEMMA StepSimulates == ASSUME TypeOK, [Next]_vars PROVE [Fifo!Next]_<<Contents, event>>
<1> USE SizeAssumption DEF TypeOK, Index
<1>0. Contents \in Seq(Data) /\ Len(Contents) = length
  BY ContentsType
<1>1. CASE Fill
  <2> DEFINE pos == Wrap(cur_idx + length)
  <2>0. PICK r \in 0 .. FillLimit(pos) : \E s \in Strings(r) :
          /\ buf' = Copied(buf, pos, s, 1, r) /\ length' = length + r /\ cur_idx' = cur_idx
          /\ event' = [op |-> "put", s |-> s]
    BY <1>1 DEF Fill
  <2>1. PICK s \in Strings(r) :
          /\ buf' = Copied(buf, pos, s, 1, r) /\ length' = length + r /\ cur_idx' = cur_idx
          /\ event' = [op |-> "put", s |-> s]
    BY <2>0
  <2>2. r \in 0 .. get_free /\ r <= SIZE - pos /\ pos \in Index
    BY DEF FillLimit, Fewer, Wrap, get_free
  <2>3. \A k \in 1 .. r : buf'[Wrap(cur_idx + (length + k - 1))] = s[k]
    <3> SUFFICES ASSUME NEW k \in 1 .. r PROVE buf'[Wrap(cur_idx + (length + k - 1))] = s[k]
      OBVIOUS
    <3>1. Wrap(cur_idx + (length + k - 1)) = pos + (k - 1) /\ pos + (k - 1) \in Index
      BY <2>2 DEF Wrap, get_free
    <3>2. pos <= pos + (k - 1) /\ pos + (k - 1) < pos + r /\ 1 + ((pos + (k - 1)) - pos) = k
      BY <2>2
    <3> HIDE DEF pos
    <3> QED  BY <3>1, <3>2, <2>1 DEF Copied
  <2>4. \A i \in 1 .. length : buf'[Wrap(cur_idx + (i - 1))] = buf[Wrap(cur_idx + (i - 1))]
    BY <2>1, <2>2 DEF Copied, Wrap, get_free
  <2>5. Fifo!Put
    BY <2>1, <2>2, <2>3, <2>4, PutAppends
  <2> QED  BY <2>5 DEF Fifo!Next
<1>2. CASE AppendString
  <2>0. PICK n \in 0 .. get_free : \E s \in Strings(n) :
          /\ buf' = AppendBoth(s, n) /\ length' = length + n /\ cur_idx' = cur_idx
          /\ event' = [op |-> "put", s |-> s]
    BY <1>2 DEF AppendString
  <2>1. PICK s \in Strings(n) :
          /\ buf' = AppendBoth(s, n) /\ length' = length + n /\ cur_idx' = cur_idx
          /\ event' = [op |-> "put", s |-> s]
    BY <2>0
  <2>3. \A k \in 1 .. n : buf'[Wrap(cur_idx + (length + k - 1))] = s[k]
    <3> SUFFICES ASSUME NEW k \in 1 .. n PROVE buf'[Wrap(cur_idx + (length + k - 1))] = s[k]
      OBVIOUS
    <3> DEFINE i == Wrap(cur_idx + length)  max == SIZE - i
    <3>1. i \in Index /\ max \in 1 .. SIZE /\ n \in 0 .. SIZE - length /\ k \in 1 .. n
      BY DEF Wrap, get_free
    <3>2. CASE k <= max
      <4>1. Wrap(cur_idx + (length + k - 1)) = i + (k - 1) /\ i + (k - 1) \in Index
        BY <3>1, <3>2 DEF Wrap
      <4>2. /\ i <= i + (k - 1) /\ i + (k - 1) < i + Fewer(max, n)
            /\ 1 + ((i + (k - 1)) - i) = k
        BY <3>1, <3>2 DEF Fewer
      <4>3. n > max => ~(i + (k - 1) < 0 + (n - max))
        BY <3>1, <3>2 DEF Wrap
      <4> HIDE DEF i, max
      <4>4. Copied(buf, i, s, 1, Fewer(max, n))[i + (k - 1)] = s[k]
        BY <4>1, <4>2 DEF Copied
      <4>5. n > max => Copied(Copied(buf, i, s, 1, Fewer(max, n)), 0, s, max + 1,
          n - max)[i + (k - 1)] = s[k]
        BY <4>1, <4>3, <4>4 DEF Copied
      <4> USE DEF i, max
      <4> QED  BY <2>1, <4>1, <4>4, <4>5 DEF AppendBoth
    <3>3. CASE k > max
      <4>1. Wrap(cur_idx + (length + k - 1)) = k - max - 1 /\ k - max - 1 \in Index
        BY <3>1, <3>3 DEF Wrap
      <4>2. 0 <= k - max - 1 /\ k - max - 1 < 0 + (n - max) /\ n > max
            /\ (max + 1) + ((k - max - 1) - 0) = k
        BY <3>1, <3>3
      <4> HIDE DEF i, max
      <4>3. Copied(Copied(buf, i, s, 1, Fewer(max, n)), 0, s, max + 1, n - max)[k - max - 1] = s[k]
        BY <4>1, <4>2 DEF Copied
      <4> USE DEF i, max
      <4> QED  BY <2>1, <4>1, <4>2, <4>3 DEF AppendBoth
    <3> QED  BY <3>1, <3>2, <3>3
  <2>4. \A i \in 1 .. length : buf'[Wrap(cur_idx + (i - 1))] = buf[Wrap(cur_idx + (i - 1))]
    BY <2>1 DEF AppendBoth, Copied, Wrap, get_free, Fewer
  <2>5. Fifo!Put
    BY <2>1, <2>3, <2>4, PutAppends
  <2> QED  BY <2>5 DEF Fifo!Next
<1>3. CASE Consume
  <2>1. PICK a \in 0 .. length :
          /\ cur_idx' = Wrap(cur_idx + a) /\ length' = length - a /\ buf' = buf
          /\ event' = [op |-> "drop", s |-> <<>>]
    BY <1>3 DEF Consume
  <2>2. Contents' = [i \in 1 .. length - a |-> buf[Wrap(Wrap(cur_idx + a) + (i - 1))]]
    BY <2>1 DEF Contents
  <2>3. SubSeq(Contents, a + 1, length) = [i \in 1 .. length - a |-> Contents[a + i]]
    BY <1>0
  <2>4. \A i \in 1 .. length - a : buf[Wrap(Wrap(cur_idx + a) + (i - 1))] = Contents[a + i]
    BY DEF Contents, Wrap
  <2>5. Contents' = SubSeq(Contents, a + 1, Len(Contents))
    BY ZenonT(60), <2>2, <2>3, <2>4, <1>0
  <2>6. Fifo!Drop
    BY <2>1, <2>5, <1>0 DEF Fifo!Drop
  <2> QED  BY <2>6 DEF Fifo!Next
<1>4. CASE TrimTo
  <2>1. PICK m \in 0 .. length :
          /\ cur_idx' = cur_idx /\ length' = m /\ buf' = buf
          /\ event' = [op |-> "cut", s |-> <<>>]
    BY <1>4 DEF TrimTo
  <2>2. Contents' = [i \in 1 .. m |-> buf[Wrap(cur_idx + (i - 1))]]
    BY <2>1 DEF Contents
  <2>3. SubSeq(Contents, 1, m) = [i \in 1 .. m |-> Contents[i]]
    BY <1>0
  <2>4. \A i \in 1 .. m : buf[Wrap(cur_idx + (i - 1))] = Contents[i]
    BY DEF Contents
  <2>5. Contents' = SubSeq(Contents, 1, m)
    BY <2>2, <2>3, <2>4
  <2>6. Fifo!Cut
    BY <2>1, <2>5, <1>0 DEF Fifo!Cut
  <2> QED  BY <2>6 DEF Fifo!Next
<1>5. CASE Reset
  <2>1. Contents' = <<>> /\ event' = [op |-> "cut", s |-> <<>>]
    BY <1>5 DEF Reset, Contents
  <2>2. SubSeq(Contents, 1, 0) = <<>>
    BY <1>0
  <2>3. 0 \in 0 .. Len(Contents)
    BY <1>0
  <2>4. Fifo!Cut
    BY <2>1, <2>2, <2>3 DEF Fifo!Cut
  <2> QED  BY <2>4 DEF Fifo!Next
<1>6. CASE Extract
  <2>0. PICK index \in 0 .. length : \E n \in 0 .. length - index :
          /\ event' = [op |-> "peek", s |-> Extracted(index, n)]
          /\ buf' = buf /\ cur_idx' = cur_idx /\ length' = length
    BY <1>6 DEF Extract
  <2>1. PICK n \in 0 .. length - index :
          /\ event' = [op |-> "peek", s |-> Extracted(index, n)]
          /\ buf' = buf /\ cur_idx' = cur_idx /\ length' = length
    BY <2>0
  <2>2. Contents' = Contents
    BY <2>1 DEF Contents
  <2>3. SubSeq(Contents, index + 1, index + n) = [k \in 1 .. n |-> Contents[index + k]]
    BY <1>0
  <2>4. Extracted(index, n) = [k \in 1 .. n |-> Contents[index + k]]
    BY DEF Extracted, Contents, Wrap
  <2>5. Fifo!Peek
    BY ZenonT(60), <2>1, <2>2, <2>3, <2>4, <1>0 DEF Fifo!Peek
  <2> QED  BY <2>5 DEF Fifo!Next
<1>7. CASE UNCHANGED vars
  BY <1>7 DEF vars, Contents
<1> QED  BY <1>1, <1>2, <1>3, <1>4, <1>5, <1>6, <1>7 DEF Next

\* cpbuffer behaves like a bounded queue: what append and fill put in is what extract and consume
\* see, in order, whatever the capacity and however the contents wrap around the array.
THEOREM BufferIsFifo == Spec => ImplementsFifo
<1>1. Init => Fifo!Init
  BY DEF Init, Contents, Fifo!Init
<1>2. TypeOK /\ [Next]_vars => [Fifo!Next]_<<Contents, event>>
  BY StepSimulates
<1> QED  BY <1>1, <1>2, BufferTypeCorrect, PTL DEF Spec, ImplementsFifo, Fifo!Spec
=============================================================================
