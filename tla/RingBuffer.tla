----------------------------- MODULE RingBuffer -----------------------------
(* The ring buffers of util.c, in which a connection collects the bytes of *)
(* a header or of a body.  One byte of the array always stays free, so     *)
(* that equal positions mean an empty buffer.  rb_write and rb_read return *)
(* what was available before the call; no caller looks at it.              *)
EXTENDS Integers, Sequences

CONSTANTS
    Size,     \* what rb_new is asked for
    Byte,
    MaxCall   \* bound: the longest write and read

ASSUME SizeAssumption == Size \in Nat /\ MaxCall \in Nat

VARIABLES
    buffer,
    wpos, rpos,
    out         \* what the last rb_read has put into its caller's array

vars == <<buffer, wpos, rpos, out>>

bufsize == Size + 1
Pos == 0 .. bufsize - 1

Least(m, n) == IF m < n THEN m ELSE n

\* rb_can_read
CanRead ==
    IF rpos <= wpos THEN wpos - rpos ELSE (bufsize - rpos) + wpos

\* Mutant: the free byte is given away.
CanWriteAll ==
    IF wpos < rpos THEN rpos - wpos ELSE (bufsize - wpos) + rpos

\* rb_can_write
CanWrite ==
    IF wpos < rpos THEN rpos - wpos - 1 ELSE (bufsize - wpos) + (rpos - 1)

\* The position of the i-th byte from pos on.
At(pos, i) == (pos + i - 1) % bufsize

\* rb_new; what malloc returns has not been written to.
Init ==
    /\ buffer \in [Pos -> Byte]
    /\ wpos = 0 /\ rpos = 0
    /\ out = <<>>

\* rb_write
Write(data) ==
    LET k == Least(Len(data), CanWrite)
    IN /\ buffer' = [j \in Pos |->
                       IF \E i \in 1 .. k : j = At(wpos, i)
                       THEN data[CHOOSE i \in 1 .. k : j = At(wpos, i)]
                       ELSE buffer[j]]
       /\ wpos' = (wpos + k) % bufsize
       /\ UNCHANGED <<rpos, out>>

\* Mutant: the position is not taken back to the front of the array.
ReadNoWrap(n) ==
    LET k == Least(n, CanRead)
    IN /\ out' = [i \in 1 .. k |-> buffer[At(rpos, i)]]
       /\ rpos' = Least(rpos + k, Size)
       /\ UNCHANGED <<buffer, wpos>>

\* rb_read
Read(n) ==
    LET k == Least(n, CanRead)
    IN /\ out' = [i \in 1 .. k |-> buffer[At(rpos, i)]]
       /\ rpos' = (rpos + k) % bufsize
       /\ UNCHANGED <<buffer, wpos>>

Next ==
    \/ \E n \in 0 .. MaxCall : \E data \in [1 .. n -> Byte] : Write(data)
    \/ \E n \in 0 .. MaxCall : Read(n)

Spec == Init /\ [][Next]_vars
-----------------------------------------------------------------------------
TypeOK ==
    /\ buffer \in [Pos -> Byte]
    /\ wpos \in Pos /\ rpos \in Pos
    /\ out \in Seq(Byte)

\* What can be read and what can be written add up to the size asked for:
\* the poll loop takes a packet for complete when nothing more fits.
Capacity == CanRead \in 0 .. Size /\ CanRead + CanWrite = Size

\* The buffer is a queue: however the positions have gone round the array,
\* bytes come out once, unchanged and in their order.
Fifo == INSTANCE ByteFifo WITH
    q <- [i \in 1 .. CanRead |-> buffer[At(rpos, i)]]

ImplementsFifo == Fifo!Spec
=============================================================================
