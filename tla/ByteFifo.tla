------------------------------ MODULE ByteFifo ------------------------------
(* What a connection's decoder wants of its buffer: a queue that holds at  *)
(* most Size bytes, takes as many as fit and returns them in their order.  *)
EXTENDS Naturals, Sequences

CONSTANTS Size, Byte, MaxCall

VARIABLES q, out

Least(m, n) == IF m < n THEN m ELSE n

Init == q = <<>> /\ out = <<>>

Put(data) ==
    /\ q' = q \o SubSeq(data, 1, Least(Len(data), Size - Len(q)))
    /\ UNCHANGED out

Get(n) ==
    /\ out' = SubSeq(q, 1, Least(n, Len(q)))
    /\ q' = SubSeq(q, Least(n, Len(q)) + 1, Len(q))

Next ==
    \/ \E n \in 0 .. MaxCall : \E data \in [1 .. n -> Byte] : Put(data)
    \/ \E n \in 0 .. MaxCall : Get(n)

Spec == Init /\ [][Next]_<<q, out>>
=============================================================================
