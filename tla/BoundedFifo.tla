---------------------------- MODULE BoundedFifo ----------------------------
(* What cpbuffer promises: a queue of at most Capacity elements.  "event" is the operation that was *)
(* last performed, with the elements that went in or came out.                                     *)
EXTENDS Integers, Sequences

CONSTANTS Data, Capacity
VARIABLES q, event

Strings(n) == [1 .. n -> Data]
Init == q = <<>> /\ event = [op |-> "none", s |-> <<>>]
Put == \E n \in 0 .. Capacity - Len(q) : \E s \in Strings(n) :
         q' = q \o s /\ event' = [op |-> "put", s |-> s]
Drop == \E n \in 0 .. Len(q) :
          /\ q' = SubSeq(q, n + 1, Len(q))
          /\ event' = [op |-> "drop", s |-> <<>>]
Peek == \E i \in 0 .. Len(q) : \E n \in 0 .. Len(q) - i :
          q' = q /\ event' = [op |-> "peek", s |-> SubSeq(q, i + 1, i + n)]
Cut == \E n \in 0 .. Len(q) :
         /\ q' = SubSeq(q, 1, n)
         /\ event' = [op |-> "cut", s |-> <<>>]
Next == Put \/ Drop \/ Peek \/ Cut
Spec == Init /\ [][Next]_<<q, event>>
=============================================================================
