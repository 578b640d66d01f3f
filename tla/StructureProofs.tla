-------------------------- MODULE StructureProofs --------------------------
(* The ring buffer, the heap, the memory management unit and the packets,  *)
(* each for every value of its constants.                                  *)
EXTENDS RingBuffer, Heap, Mmu, PacketCodec, Integers, Recursion,
        SequenceTheorems, FiniteSetTheorems, TLAPS
-----------------------------------------------------------------------------
(* The ring buffer: every size, every kind of byte and every call.         *)

Bytes == [i \in 1 .. CanRead |-> buffer[At(rpos, i)]]
-----------------------------------------------------------------------------
(* The remainder, for the three times an index can have gone round.        *)

\* The array has at least one byte.
LEMMA SizeIsNat == bufsize \in Nat /\ bufsize > 0 /\ Size \in Nat
BY SizeAssumption DEF bufsize

\* The remainder of an index that has gone round the array at most twice.
LEMMA Mod ==
    ASSUME NEW n \in Nat, n > 0, NEW x \in Nat
    PROVE  /\ x % n \in 0 .. n - 1
           /\ x < n => x % n = x
           /\ n <= x /\ x < n + n => x % n = x - n
<1>1. x % n \in 0 .. n - 1
  BY SMT
<1>2. ASSUME x < n PROVE x % n = x
  BY <1>2, SMT
<1>3. ASSUME n <= x, x < n + n PROVE x % n = x - n
  BY <1>3, SMT
<1> QED
  BY <1>1, <1>2, <1>3

\* Every index that rb_write and rb_read compute lies in the array.
LEMMA AtInArray ==
    ASSUME NEW pos \in Pos, NEW i \in Nat \ {0}
    PROVE  At(pos, i) \in Pos
<1>1. pos + i - 1 \in Nat
  BY SizeIsNat DEF Pos
<1> QED
  BY <1>1, SizeIsNat, Mod DEF At, Pos

\* Where the i-th byte is, without the remainder.
LEMMA AtValue ==
    ASSUME NEW pos \in Pos, NEW i \in 1 .. bufsize
    PROVE  At(pos, i) = IF pos + i - 1 < bufsize THEN pos + i - 1
                        ELSE pos + i - 1 - bufsize
<1>1. PICK x \in Nat : x = pos + i - 1 /\ x < bufsize + bufsize
  BY SizeIsNat DEF Pos
<1>2. x % bufsize = IF x < bufsize THEN x ELSE x - bufsize
  BY <1>1, SizeIsNat, Mod
<1>3. At(pos, i) = x % bufsize
  BY <1>1, Zenon DEF At
<1> QED
  BY <1>1, <1>2, <1>3, SizeIsNat DEF Pos

\* Where a position is after k bytes.
LEMMA MoveValue ==
    ASSUME NEW pos \in Pos, NEW k \in 0 .. Size
    PROVE  /\ (pos + k) % bufsize \in Pos
           /\ (pos + k) % bufsize = IF pos + k < bufsize THEN pos + k
                                    ELSE pos + k - bufsize
<1>1. pos + k \in Nat /\ pos + k < bufsize + bufsize
  BY SizeIsNat DEF Pos, bufsize
<1> QED
  BY <1>1, SizeIsNat, Mod DEF Pos

\* Bytes that are counted from a position moved by k are k bytes further.
LEMMA AtMoved ==
    ASSUME NEW pos \in Pos, NEW k \in 0 .. Size, NEW i \in Nat \ {0},
           k + i <= bufsize
    PROVE  At((pos + k) % bufsize, i) = At(pos, k + i)
<1>1. i \in 1 .. bufsize /\ k + i \in 1 .. bufsize
  BY SizeIsNat
<1>2. /\ At((pos + k) % bufsize, i)
           = IF ((pos + k) % bufsize) + i - 1 < bufsize
             THEN ((pos + k) % bufsize) + i - 1
             ELSE ((pos + k) % bufsize) + i - 1 - bufsize
      /\ At(pos, k + i) = IF pos + (k + i) - 1 < bufsize THEN pos + (k + i) - 1
                          ELSE pos + (k + i) - 1 - bufsize
  BY <1>1, MoveValue, AtValue
<1> QED
  BY <1>1, <1>2, MoveValue, SizeIsNat DEF Pos

\* Different bytes lie at different places.
LEMMA AtApart ==
    ASSUME NEW pos \in Pos, NEW i \in 1 .. bufsize, NEW j \in 1 .. bufsize,
           At(pos, i) = At(pos, j)
    PROVE  i = j
BY AtValue, SizeIsNat DEF Pos

\* The lesser of two numbers is one of them and not above either.
LEMMA LeastIs ==
    ASSUME NEW m \in Nat, NEW n \in Nat
    PROVE  /\ Least(m, n) \in Nat /\ Least(m, n) <= m /\ Least(m, n) <= n
BY DEF Least
-----------------------------------------------------------------------------
(* Positions and capacity.                                                 *)

\* What can be read and written, as numbers below the array's length.
LEMMA CountRange ==
    ASSUME TypeOK
    PROVE  /\ CanRead \in 0 .. Size
           /\ CanWrite = Size - CanRead
           /\ rpos <= wpos => CanRead = wpos - rpos
           /\ wpos < rpos => CanRead = bufsize - rpos + wpos
BY SizeIsNat DEF TypeOK, Pos, CanRead, CanWrite, bufsize

\* wpos is where the next byte goes: behind those that can be read.
LEMMA WriteStart ==
    ASSUME TypeOK PROVE wpos = (rpos + CanRead) % bufsize
<1>1. (rpos + CanRead) % bufsize = IF rpos + CanRead < bufsize
                                   THEN rpos + CanRead
                                   ELSE rpos + CanRead - bufsize
  BY CountRange, MoveValue DEF TypeOK
<1>2. CASE rpos <= wpos
  BY <1>1, <1>2, CountRange, SizeIsNat DEF TypeOK, Pos
<1>3. CASE wpos < rpos
  BY <1>1, <1>3, CountRange, SizeIsNat DEF TypeOK, Pos
<1> QED
  BY <1>2, <1>3 DEF TypeOK, Pos

\* A write of k bytes moves wpos by k and leaves k more to read.
LEMMA WriteCounts ==
    ASSUME TypeOK, NEW k \in 0 .. Size, k <= CanWrite,
           wpos' = (wpos + k) % bufsize, rpos' = rpos
    PROVE  wpos' \in Pos /\ CanRead' = CanRead + k
BY CountRange, MoveValue, SizeIsNat DEF TypeOK, Pos, CanRead, bufsize

\* A read of k bytes moves rpos by k and leaves k fewer to read.
LEMMA ReadCounts ==
    ASSUME TypeOK, NEW k \in 0 .. Size, k <= CanRead,
           rpos' = (rpos + k) % bufsize, wpos' = wpos
    PROVE  rpos' \in Pos /\ CanRead' = CanRead - k
BY CountRange, MoveValue, SizeIsNat DEF TypeOK, Pos, CanRead, bufsize
-----------------------------------------------------------------------------
(* Types and capacity are kept.                                            *)

\* rb_new makes a buffer of its type.
LEMMA InitTypeOK == Init => TypeOK
BY SizeIsNat DEF Init, TypeOK, Pos

\* How many bytes a call moves.
LEMMA WriteAmount ==
    ASSUME TypeOK, NEW n \in Nat, NEW given \in [1 .. n -> Byte]
    PROVE  LET k == Least(Len(given), CanWrite)
           IN k \in 0 .. Size /\ k <= CanWrite /\ k <= n
<1>1. Len(given) = n
  OBVIOUS
<1>2. CanWrite \in Nat /\ CanWrite <= Size
  BY CountRange, SizeIsNat
<1>3. PICK w \in Nat : w = CanWrite
  BY <1>2
<1>4. Least(n, w) \in Nat /\ Least(n, w) <= w /\ Least(n, w) <= n
  BY LeastIs
<1> QED
  BY <1>1, <1>2, <1>3, <1>4, SizeIsNat

\* How many bytes rb_read moves.
LEMMA ReadAmount ==
    ASSUME TypeOK, NEW n \in Nat
    PROVE  LET k == Least(n, CanRead)
           IN k \in 0 .. Size /\ k <= CanRead
<1>1. PICK r \in 0 .. Size : r = CanRead
  BY CountRange
<1>2. Least(n, r) \in Nat /\ Least(n, r) <= r
  BY LeastIs, SizeIsNat
<1> QED
  BY <1>1, <1>2, SizeIsNat

\* rb_write leaves a buffer of its type.
LEMMA WriteTypeOK ==
    ASSUME TypeOK, NEW n \in Nat, NEW given \in [1 .. n -> Byte], Write(given)
    PROVE  TypeOK'
<1> DEFINE k == Least(Len(given), CanWrite)
<1>1. k \in 0 .. Size /\ k <= CanWrite /\ k <= n
  BY WriteAmount
<1>2. \A i \in 1 .. k : given[i] \in Byte
  BY <1>1
<1>3. buffer' \in [Pos -> Byte]
  <2> SUFFICES ASSUME NEW j \in Pos PROVE buffer'[j] \in Byte
    BY DEF Write
  <2>1. CASE \E i \in 1 .. k : j = At(wpos, i)
    BY <1>2, <2>1 DEF Write
  <2>2. CASE ~\E i \in 1 .. k : j = At(wpos, i)
    BY <2>2 DEF Write, TypeOK
  <2> QED
    BY <2>1, <2>2
<1>4. wpos' \in Pos /\ rpos' = rpos /\ out' = out
  BY <1>1, WriteCounts DEF Write
<1> QED
  BY <1>3, <1>4 DEF TypeOK

\* rb_read leaves a buffer of its type.
LEMMA ReadTypeOK ==
    ASSUME TypeOK, NEW n \in Nat, Read(n)
    PROVE  TypeOK'
<1> DEFINE k == Least(n, CanRead)
<1>1. k \in 0 .. Size /\ k <= CanRead
  BY ReadAmount
<1>2. \A i \in 1 .. k : buffer[At(rpos, i)] \in Byte
  BY <1>1, AtInArray, SizeIsNat DEF TypeOK
<1>3. out' \in Seq(Byte)
  BY <1>1, <1>2, SizeIsNat, IsASeq DEF Read
<1>4. rpos' \in Pos /\ wpos' = wpos /\ buffer' = buffer
  BY <1>1, ReadCounts DEF Read
<1> QED
  BY <1>3, <1>4 DEF TypeOK

\* The positions stay in the array and what is in the buffer are bytes.
THEOREM TypeCorrect == Spec => []TypeOK
<1>1. ASSUME TypeOK, [Next]_vars PROVE TypeOK'
  <2>1. ASSUME NEW n \in 0 .. MaxCall, NEW given \in [1 .. n -> Byte], Write(given)
        PROVE  TypeOK'
    BY <1>1, <2>1, SizeAssumption, WriteTypeOK
  <2>2. ASSUME NEW n \in 0 .. MaxCall, Read(n) PROVE TypeOK'
    BY <1>1, <2>2, SizeAssumption, ReadTypeOK
  <2>3. CASE UNCHANGED vars
    BY <1>1, <2>3 DEF vars, TypeOK
  <2> QED
    BY <1>1, <2>1, <2>2, <2>3 DEF Next
<1> QED
  BY <1>1, InitTypeOK, PTL DEF Spec

\* However often the positions have gone round the array, a buffer that
\* rb_new was asked to make for Size bytes holds exactly that many.
THEOREM CapacityKept == Spec => []Capacity
<1>1. TypeOK => Capacity
  BY CountRange, SizeIsNat DEF Capacity
<1> QED
  BY <1>1, TypeCorrect, PTL
-----------------------------------------------------------------------------
(* The buffer implements the queue of ByteFifo.                            *)

\* The abstract queue: as long as what can be read, byte by byte.
LEMMA BytesAre ==
    ASSUME TypeOK
    PROVE  /\ Bytes \in Seq(Byte) /\ Len(Bytes) = CanRead
           /\ \A i \in 1 .. CanRead : Bytes[i] = buffer[At(rpos, i)]
<1>1. CanRead \in Nat
  BY CountRange, SizeIsNat
<1>2. \A i \in 1 .. CanRead : buffer[At(rpos, i)] \in Byte
  BY <1>1, AtInArray DEF TypeOK
<1> QED
  BY <1>1, <1>2 DEF Bytes

\* The same in the state after a step.
LEMMA BytesWillBe ==
    ASSUME TypeOK', CanRead' \in Nat
    PROVE  /\ Bytes' \in Seq(Byte) /\ Len(Bytes') = CanRead'
           /\ \A i \in 1 .. CanRead' : Bytes'[i] = buffer'[At(rpos', i)]
<1>1. \A i \in 1 .. CanRead' : buffer'[At(rpos', i)] \in Byte
  BY AtInArray DEF TypeOK
<1> QED
  BY <1>1 DEF Bytes, At, bufsize

\* What a read returns is the front of the queue, and the rest stays.
LEMMA ReadIsGet ==
    ASSUME TypeOK, TypeOK', NEW n \in Nat, Read(n)
    PROVE  /\ out' = SubSeq(Bytes, 1, Least(n, Len(Bytes)))
           /\ Bytes' = SubSeq(Bytes, Least(n, Len(Bytes)) + 1, Len(Bytes))
<1>1. PICK k \in Nat : k = Least(n, CanRead)
  BY ReadAmount, SizeIsNat
<1>2. k \in 0 .. Size /\ k <= CanRead /\ CanRead \in 0 .. Size
  BY <1>1, ReadAmount, CountRange
<1>3. Len(Bytes) = CanRead /\ Bytes \in Seq(Byte)
      /\ \A i \in 1 .. CanRead : Bytes[i] = buffer[At(rpos, i)]
  BY BytesAre
<1>4. /\ out' = [i \in 1 .. k |-> buffer[At(rpos, i)]]
      /\ rpos' = (rpos + k) % bufsize /\ buffer' = buffer /\ wpos' = wpos
  BY <1>1 DEF Read
<1>5. out' = SubSeq(Bytes, 1, k)
  <2>1. /\ SubSeq(Bytes, 1, k) \in Seq(Byte) /\ Len(SubSeq(Bytes, 1, k)) = k
        /\ \A i \in 1 .. k : SubSeq(Bytes, 1, k)[i] = Bytes[i]
    BY <1>2, <1>3, SizeIsNat
  <2>2. out' \in Seq(Byte) /\ Len(out') = k
        /\ \A i \in 1 .. k : out'[i] = Bytes[i]
    BY <1>2, <1>3, <1>4, SizeIsNat DEF TypeOK
  <2> QED
    BY <2>1, <2>2, SeqEqual
<1>6. CanRead' = CanRead - k /\ CanRead' \in Nat
  BY <1>2, <1>4, ReadCounts, SizeIsNat
<1>7. Bytes' = SubSeq(Bytes, k + 1, CanRead)
  <2>1. /\ SubSeq(Bytes, k + 1, CanRead) \in Seq(Byte)
        /\ Len(SubSeq(Bytes, k + 1, CanRead)) = CanRead - k
        /\ \A i \in 1 .. CanRead - k :
              SubSeq(Bytes, k + 1, CanRead)[i] = Bytes[k + i]
    BY <1>2, <1>3, SizeIsNat
  <2>2. Bytes' \in Seq(Byte) /\ Len(Bytes') = CanRead - k
    BY <1>6, BytesWillBe
  <2>3. ASSUME NEW i \in 1 .. CanRead - k PROVE Bytes'[i] = Bytes[k + i]
    <3>1. Bytes'[i] = buffer[At((rpos + k) % bufsize, i)]
      BY <1>4, <1>6, BytesWillBe
    <3>2. At((rpos + k) % bufsize, i) = At(rpos, k + i)
      BY <1>2, AtMoved, SizeIsNat DEF TypeOK, bufsize
    <3>3. k + i \in 1 .. CanRead
      BY <1>2, SizeIsNat
    <3> QED
      BY <1>3, <3>1, <3>2, <3>3
  <2> QED
    BY <2>1, <2>2, <2>3, SeqEqual
<1> QED
  BY <1>1, <1>3, <1>5, <1>7

\* A write leaves what is in the buffer alone: it begins where the next byte
\* goes and ends before it meets the first one.
LEMMA WriteApart ==
    ASSUME TypeOK, NEW i \in 1 .. CanRead, NEW j \in 1 .. CanWrite
    PROVE  At(rpos, i) # At(wpos, j)
<1>1. CanRead \in 0 .. Size /\ CanRead + j <= Size /\ j \in Nat \ {0}
  BY CountRange, SizeIsNat
<1>2. At(wpos, j) = At(rpos, CanRead + j)
  BY <1>1, WriteStart, AtMoved, SizeIsNat DEF TypeOK, bufsize
<1>3. i \in 1 .. bufsize /\ CanRead + j \in 1 .. bufsize /\ i # CanRead + j
  BY <1>1, SizeIsNat DEF bufsize
<1> QED
  BY <1>2, <1>3, AtApart DEF TypeOK

\* A write puts what it takes of the caller's bytes at the queue's end.
LEMMA WriteIsPut ==
    ASSUME TypeOK, TypeOK', NEW n \in Nat, NEW given \in [1 .. n -> Byte],
           Write(given)
    PROVE  /\ Bytes' = Bytes \o
                  SubSeq(given, 1, Least(Len(given), Size - Len(Bytes)))
           /\ out' = out
<1>1. PICK k \in Nat : k = Least(Len(given), CanWrite)
  BY WriteAmount, SizeIsNat
<1>2. /\ k \in 0 .. Size /\ k <= CanWrite /\ k <= n
      /\ CanRead \in 0 .. Size /\ CanWrite = Size - CanRead
      /\ given \in Seq(Byte) /\ Len(given) = n
  BY <1>1, WriteAmount, CountRange
<1>3. Len(Bytes) = CanRead /\ Bytes \in Seq(Byte)
      /\ \A i \in 1 .. CanRead : Bytes[i] = buffer[At(rpos, i)]
  BY BytesAre
<1>4. /\ buffer' = [j \in Pos |->
                       IF \E i \in 1 .. k : j = At(wpos, i)
                       THEN given[CHOOSE i \in 1 .. k : j = At(wpos, i)]
                       ELSE buffer[j]]
      /\ wpos' = (wpos + k) % bufsize /\ rpos' = rpos /\ out' = out
  BY <1>1, Zenon DEF Write
<1>5. CanRead' = CanRead + k /\ CanRead' \in Nat
  BY <1>2, <1>4, WriteCounts, SizeIsNat
<1>6. /\ SubSeq(given, 1, k) \in Seq(Byte) /\ Len(SubSeq(given, 1, k)) = k
      /\ \A i \in 1 .. k : SubSeq(given, 1, k)[i] = given[i]
  BY <1>2, SizeIsNat
<1>7. /\ Bytes \o SubSeq(given, 1, k) \in Seq(Byte)
      /\ Len(Bytes \o SubSeq(given, 1, k)) = CanRead + k
      /\ \A i \in 1 .. CanRead + k :
            (Bytes \o SubSeq(given, 1, k))[i]
              = IF i <= CanRead THEN Bytes[i] ELSE given[i - CanRead]
  <2>1. PICK b \in Seq(Byte) : b = Bytes
    BY <1>3
  <2>2. PICK d \in Seq(Byte) : d = SubSeq(given, 1, k)
    BY <1>6
  <2>3. /\ b \o d \in Seq(Byte) /\ Len(b \o d) = Len(b) + Len(d)
        /\ \A i \in 1 .. Len(b) + Len(d) :
              (b \o d)[i] = IF i <= Len(b) THEN b[i] ELSE d[i - Len(b)]
    BY ConcatProperties
  <2>4. Len(b) = CanRead /\ Len(d) = k /\ \A i \in 1 .. k : d[i] = given[i]
    BY <1>3, <1>6, <2>1, <2>2
  <2>5. ASSUME NEW i \in 1 .. CanRead + k, ~(i <= CanRead)
        PROVE  d[i - CanRead] = given[i - CanRead]
    BY <1>2, <2>4, <2>5, SizeIsNat
  <2> QED
    BY <2>1, <2>2, <2>3, <2>4, <2>5
<1>8. ASSUME NEW i \in 1 .. CanRead + k
      PROVE  buffer'[At(rpos, i)]
               = IF i <= CanRead THEN Bytes[i] ELSE given[i - CanRead]
  <2>1. At(rpos, i) \in Pos
    BY <1>2, AtInArray, SizeIsNat DEF TypeOK
  <2>2. CASE i <= CanRead
    <3>1. i \in 1 .. CanRead /\ 1 .. k \subseteq 1 .. CanWrite
      BY <1>2, <2>2, SizeIsNat
    <3>2. ~\E j \in 1 .. k : At(rpos, i) = At(wpos, j)
      BY <3>1, WriteApart
    <3> QED
      BY <1>3, <1>4, <2>1, <2>2, <3>1, <3>2
  <2>3. CASE ~(i <= CanRead)
    <3>1. PICK d \in 1 .. k : i = CanRead + d
      BY <1>2, <2>3, SizeIsNat
    <3>2. \A j \in 1 .. k : At(wpos, j) = At(rpos, CanRead + j)
      BY <1>2, WriteStart, AtMoved, SizeIsNat DEF TypeOK, bufsize
    <3>3. \A j \in 1 .. k : At(rpos, i) = At(wpos, j) => j = d
      <4> SUFFICES ASSUME NEW j \in 1 .. k, At(rpos, i) = At(wpos, j)
                   PROVE  j = d
        OBVIOUS
      <4>1. At(rpos, CanRead + d) = At(rpos, CanRead + j)
        BY <3>1, <3>2
      <4>2. CanRead + d \in 1 .. bufsize /\ CanRead + j \in 1 .. bufsize
        BY <1>2, SizeIsNat DEF bufsize
      <4>3. CanRead + d = CanRead + j
        BY <4>1, <4>2, AtApart DEF TypeOK
      <4> QED
        BY <1>2, <4>3
    <3>4. At(rpos, i) = At(wpos, d)
      BY <3>1, <3>2
    <3>5. (CHOOSE j \in 1 .. k : At(rpos, i) = At(wpos, j)) = d
      BY <3>3, <3>4
    <3>6. buffer'[At(rpos, i)] = given[d]
      BY <1>4, <2>1, <3>4, <3>5
    <3>7. i - CanRead = d
      BY <1>2, <3>1
    <3> QED
      BY <2>3, <3>6, <3>7
  <2> QED
    BY <2>2, <2>3
<1>9. Bytes' = Bytes \o SubSeq(given, 1, k)
  <2>1. Bytes' \in Seq(Byte) /\ Len(Bytes') = CanRead + k
        /\ \A i \in 1 .. CanRead + k : Bytes'[i] = buffer'[At(rpos, i)]
    BY <1>4, <1>5, BytesWillBe
  <2> QED
    BY <1>7, <1>8, <2>1, SeqEqual
<1>10. k = Least(Len(given), Size - Len(Bytes))
  BY <1>1, <1>2, <1>3
<1> QED
  BY <1>4, <1>9, <1>10

\* Every behaviour of the array and its two positions is one of a queue of
\* Size bytes: nothing is lost, doubled, changed or put in another order.
THEOREM BufferIsFifo == Spec => ImplementsFifo
<1>1. Init => Fifo!Init
  <2> SUFFICES ASSUME Init PROVE Bytes = <<>> /\ out = <<>>
    BY DEF Fifo!Init, Bytes
  <2>1. CanRead = 0 /\ out = <<>>
    BY DEF Init, CanRead
  <2> QED
    BY <2>1 DEF Bytes
<1>2. ASSUME TypeOK, TypeOK', [Next]_vars PROVE [Fifo!Next]_<<Bytes, out>>
  <2>1. ASSUME NEW n \in 0 .. MaxCall, NEW given \in [1 .. n -> Byte], Write(given)
        PROVE  Fifo!Put(given)
    <3>1. n \in Nat
      BY SizeAssumption
    <3> QED
      BY <1>2, <2>1, <3>1, WriteIsPut DEF Fifo!Put, Fifo!Least, Least, Bytes
  <2>2. ASSUME NEW n \in 0 .. MaxCall, Read(n) PROVE Fifo!Get(n)
    <3>1. n \in Nat
      BY SizeAssumption
    <3> QED
      BY <1>2, <2>2, <3>1, ReadIsGet DEF Fifo!Get, Fifo!Least, Least, Bytes
  <2>3. CASE UNCHANGED vars
    BY <2>3 DEF vars, Bytes, CanRead, At, bufsize
  <2> QED
    BY <1>2, <2>1, <2>2, <2>3 DEF Next, Fifo!Next
<1> QED
  BY <1>1, <1>2, TypeCorrect, PTL
     DEF Spec, ImplementsFifo, Fifo!Spec, Bytes
-----------------------------------------------------------------------------
(* The heap: every size of the array and every sequence of calls.          *)

(* The blocks of an array, as Absorb and Split leave them.                 *)
Block == [next : Addr \cup {Null}, prev : Addr \cup {Null}, size : 0 .. Words, used : BOOLEAN]

Ends(bs, b) == b + Header + bs[b].size

\* b lies in front of its neighbour, and each of the two links to the other.
Placed(bs, D, b) ==
    /\ Ends(bs, b) <= Words
    /\ Ends(bs, b) = Words => bs[b].next = Null
    /\ Ends(bs, b) # Words => /\ bs[b].next = Ends(bs, b)
                              /\ Ends(bs, b) \in D
                              /\ bs[Ends(bs, b)].prev = b
    /\ \A a \in D : a <= b \/ Ends(bs, b) <= a
    /\ b # 0 => bs[b].prev \in D /\ Ends(bs, bs[b].prev) = b

\* The blocks cover the array, each links to its two neighbours, and every
\* block but the first has one in front of it.
Layout(bs) ==
    /\ DOMAIN bs \subseteq Addr /\ bs \in [DOMAIN bs -> Block]
    /\ 0 \in DOMAIN bs /\ bs[0].prev = Null
    /\ \A b \in DOMAIN bs : Placed(bs, DOMAIN bs, b)

\* The array has room for a header, and its words are numbers.
LEMMA HeapSize ==
    /\ Words \in Nat /\ Words > Header /\ Header = 3 /\ Addr \subseteq Nat /\ Null \notin Addr
    /\ \A x : x \in Addr <=> x \in Nat /\ x < Words
BY HeapAssumption DEF Addr, Header

\* What one block says of itself.
LEMMA BlockIs ==
    ASSUME NEW bs, Layout(bs), NEW b \in DOMAIN bs
    PROVE  /\ b \in Nat /\ b \in Addr /\ bs[b].size \in 0 .. Words /\ bs[b].used \in BOOLEAN
           /\ Ends(bs, b) \in Nat /\ b < Ends(bs, b) /\ b + 3 <= Ends(bs, b) /\ Ends(bs, b) <= Words
           /\ Ends(bs, b) = b + 3 + bs[b].size
           /\ bs[b].next # Null <=> Ends(bs, b) # Words
           /\ bs[b].next # Null => /\ bs[b].next = Ends(bs, b) /\ bs[b].next \in DOMAIN bs
                                   /\ bs[bs[b].next].prev = b
           /\ bs[b].prev # Null <=> b # 0
           /\ bs[b].prev # Null => /\ bs[b].prev \in DOMAIN bs /\ bs[bs[b].prev].next = b
                                   /\ bs[b].prev < b /\ Ends(bs, bs[b].prev) = b
           /\ \A a \in DOMAIN bs : a <= b \/ Ends(bs, b) <= a
<1>1. \A c \in DOMAIN bs : /\ c \in Nat /\ c \in Addr /\ c < Words /\ bs[c].size \in Nat
                           /\ bs[c].size \in 0 .. Words
                           /\ bs[c].used \in BOOLEAN /\ c # Null
  BY HeapSize DEF Layout, Block
<1>2. \A c \in DOMAIN bs : /\ Ends(bs, c) \in Nat /\ Ends(bs, c) = c + 3 + bs[c].size
                           /\ c < Ends(bs, c) /\ c + 3 <= Ends(bs, c)
  BY <1>1 DEF Ends, Header
<1>3. /\ Ends(bs, b) <= Words
      /\ Ends(bs, b) = Words => bs[b].next = Null
      /\ Ends(bs, b) # Words => /\ bs[b].next = Ends(bs, b)
                                /\ Ends(bs, b) \in DOMAIN bs
                                /\ bs[Ends(bs, b)].prev = b
      /\ \A a \in DOMAIN bs : a <= b \/ Ends(bs, b) <= a
      /\ b # 0 => bs[b].prev \in DOMAIN bs /\ Ends(bs, bs[b].prev) = b
      /\ bs[0].prev = Null
  BY DEF Layout, Placed
<1>4. bs[b].next # Null <=> Ends(bs, b) # Words
  BY <1>1, <1>3
<1>5. bs[b].prev # Null <=> b # 0
  BY <1>1, <1>3
<1>6. ASSUME bs[b].prev # Null
      PROVE  /\ bs[b].prev \in DOMAIN bs /\ bs[bs[b].prev].next = b
             /\ bs[b].prev < b /\ Ends(bs, bs[b].prev) = b
  <2>1. PICK v \in DOMAIN bs : v = bs[b].prev /\ Ends(bs, v) = b
    BY <1>3, <1>5, <1>6
  <2>2. Ends(bs, v) # Words
    BY <1>1, <2>1, HeapSize
  <2>3. bs[v].next = b /\ v < b
    BY <1>2, <2>1, <2>2 DEF Layout, Placed
  <2> QED
    BY <2>1, <2>3
<1> QED
  BY <1>1, <1>2, <1>3, <1>4, <1>5, <1>6

\* Two blocks lie apart.
LEMMA BlocksApart ==
    ASSUME NEW bs, Layout(bs), NEW a \in DOMAIN bs, NEW b \in DOMAIN bs, a # b
    PROVE  Ends(bs, a) <= b \/ Ends(bs, b) <= a
<1>1. a \in Nat /\ b \in Nat
  BY BlockIs
<1>2. (b <= a \/ Ends(bs, a) <= b) /\ (a <= b \/ Ends(bs, b) <= a)
  BY BlockIs
<1> QED
  BY <1>1, <1>2

\* A layout by the fields of its blocks.
LEMMA LayoutBy ==
    ASSUME NEW D \in SUBSET Addr, NEW bs, bs = [x \in D |-> bs[x]], 0 \in D, bs[0].prev = Null,
           \A b \in D : bs[b] \in Block /\ Placed(bs, D, b)
    PROVE  Layout(bs) /\ DOMAIN bs = D
<1>1. DOMAIN bs = D
  OBVIOUS
<1>2. bs \in [D -> Block]
  OBVIOUS
<1> QED
  BY <1>1, <1>2 DEF Layout

\* ns is bs with block b absorbed by block a.
Absorbed(bs, a, b, ns) ==
    /\ Layout(ns) /\ DOMAIN ns = DOMAIN bs \ {b}
    /\ \A x \in DOMAIN ns :
          /\ ns[x].used = bs[x].used
          /\ ns[x].next = IF x = a THEN bs[b].next ELSE bs[x].next
          /\ ns[x].prev = IF x = bs[b].next THEN a ELSE bs[x].prev
          /\ x # a => ns[x].size = bs[x].size

\* Absorb leaves a layout with one block less.
LEMMA AbsorbHolds ==
    ASSUME NEW bs, Layout(bs), NEW a \in DOMAIN bs, NEW b, b = bs[a].next, b # Null,
           NEW ns, ns = Absorb(bs, a)
    PROVE  Absorbed(bs, a, b, ns)
<1>1. /\ b = Ends(bs, a) /\ b \in DOMAIN bs /\ bs[b].prev = a /\ a < b /\ a \in Nat /\ b \in Nat
      /\ a # b
  BY BlockIs
<1>2. PICK c : c = bs[b].next
  OBVIOUS
<1>3. c # a /\ (c # Null => c \in DOMAIN bs /\ c # b /\ c = Ends(bs, b) /\ bs[c].prev = b)
  <2>1. bs[b].next # Null => bs[b].next = Ends(bs, b) /\ bs[b].next \in DOMAIN bs /\ bs[bs[b].next].prev = b
    BY <1>1, BlockIs
  <2>2. Ends(bs, b) \in Nat /\ b < Ends(bs, b)
    BY <1>1, BlockIs
  <2>3. a # Null
    BY <1>1, HeapSize DEF Layout
  <2> QED
    BY <1>1, <1>2, <2>1, <2>2, <2>3
<1>4. PICK D : D = DOMAIN bs \ {b}
  OBVIOUS
<1>5. ns = [x \in D |->
              CASE x = a -> [bs[a] EXCEPT !.size = @ + Header + bs[b].size, !.next = c]
                [] x = c -> [bs[x] EXCEPT !.prev = a]
                [] OTHER -> bs[x]]
  BY <1>2, <1>4 DEF Absorb
<1>6. \A x \in DOMAIN bs : bs[x] \in Block
  BY DEF Layout
<1>7. /\ bs[a].size \in Nat /\ bs[b].size \in Nat
      /\ Ends(bs, a) = a + 3 + bs[a].size /\ Ends(bs, b) = b + 3 + bs[b].size
      /\ Ends(bs, b) <= Words
  BY <1>1, BlockIs
<1>8. PICK big : big = bs[a].size + Header + bs[b].size
  OBVIOUS
<1>9. big \in 0 .. Words /\ a + 3 + big = Ends(bs, b)
  BY <1>1, <1>7, <1>8, HeapSize
<1>10. a \in D /\ ns[a] = [bs[a] EXCEPT !.size = big, !.next = c]
  BY <1>1, <1>3, <1>4, <1>5, <1>8
<1>11. ASSUME NEW x \in D, x # a
       PROVE  ns[x] = IF x = c THEN [bs[x] EXCEPT !.prev = a] ELSE bs[x]
  BY <1>5, <1>11
<1>12. c \in Addr \cup {Null} /\ a \in Addr \cup {Null}
  BY <1>1, <1>3 DEF Layout
<1>13. ns[a] \in Block /\ ns[a].size = big /\ ns[a].next = c /\ ns[a].prev = bs[a].prev
       /\ ns[a].used = bs[a].used
  <2>1. bs[a] \in Block
    BY <1>6
  <2> QED
    BY <1>9, <1>10, <1>12, <2>1 DEF Block
<1>14. ASSUME NEW x \in D, x # a
       PROVE  /\ ns[x] \in Block /\ ns[x].size = bs[x].size /\ ns[x].next = bs[x].next
              /\ ns[x].prev = IF x = c THEN a ELSE bs[x].prev
              /\ ns[x].used = bs[x].used
  <2>1. bs[x] \in Block
    BY <1>4, <1>6
  <2> QED
    BY <1>11, <1>12, <1>14, <2>1 DEF Block
<1>15. Ends(ns, a) = Ends(bs, b) /\ \A x \in D : x # a => Ends(ns, x) = Ends(bs, x)
  <2>1. Ends(ns, a) = Ends(bs, b)
    BY <1>9, <1>13 DEF Ends, Header
  <2> QED
    BY <1>14, <2>1 DEF Ends
<1>16. Layout(ns) /\ DOMAIN ns = D
  <2>1. D \in SUBSET Addr /\ 0 \in D
    BY <1>1, <1>4 DEF Layout
  <2>2. c # 0
    BY <1>1, <1>3, BlockIs, HeapSize DEF Layout
  <2>3. ns[0].prev = Null
    BY <1>13, <1>14, <2>1, <2>2 DEF Layout
  <2>4. ASSUME NEW x \in D
        PROVE  ns[x] \in Block /\ Placed(ns, D, x)
    <3>1. CASE x = a
      <4>1. ns[a] \in Block /\ Ends(ns, a) <= Words /\ ns[a].next = c
        BY <1>7, <1>13, <1>15
      <4>2. c # Null <=> Ends(bs, b) # Words
        BY <1>1, <1>2, BlockIs
      <4>3. c # Null => c \in D /\ c = Ends(ns, a) /\ ns[c].prev = a
        BY <1>3, <1>4, <1>14, <1>15
      <4>4. \A y \in D : y <= a \/ Ends(ns, a) <= y
        <5>1. SUFFICES ASSUME NEW y \in D PROVE y <= a \/ Ends(bs, b) <= y
          BY <1>15
        <5>2. y \in DOMAIN bs /\ y # b /\ y \in Nat /\ Ends(bs, b) \in Nat
          BY <1>1, <1>4, BlockIs
        <5>3. (y <= a \/ b <= y) /\ (y <= b \/ Ends(bs, b) <= y)
          BY <1>1, <5>2, BlockIs
        <5> QED
          BY <1>1, <5>2, <5>3
      <4>5. a # 0 => ns[a].prev \in D /\ Ends(ns, ns[a].prev) = a
        <5>1. SUFFICES ASSUME a # 0 PROVE bs[a].prev \in D /\ Ends(ns, bs[a].prev) = a
          BY <1>13
        <5>2. PICK v \in DOMAIN bs : v = bs[a].prev /\ Ends(bs, v) = a /\ v < a /\ v \in Nat
          BY <5>1, BlockIs
        <5>3. v # a /\ v # b
          BY <1>1, <5>2
        <5> QED
          BY <1>4, <1>15, <5>2, <5>3
      <4> QED
        BY <1>15, <3>1, <4>1, <4>2, <4>3, <4>4, <4>5 DEF Placed
    <3>2. CASE x # a
      <4>1. x \in DOMAIN bs /\ x # b /\ Ends(ns, x) = Ends(bs, x) /\ ns[x] \in Block
            /\ ns[x].next = bs[x].next
        BY <1>4, <1>14, <1>15, <3>2
      <4>2. Ends(bs, x) <= Words /\ (bs[x].next # Null <=> Ends(bs, x) # Words)
            /\ \A y \in D : y <= x \/ Ends(bs, x) <= y
        BY <1>4, <4>1, BlockIs
      <4>3. ASSUME bs[x].next # Null
            PROVE  /\ ns[x].next = Ends(ns, x) /\ Ends(ns, x) \in D /\ ns[Ends(ns, x)].prev = x
        <5>1. PICK y \in DOMAIN bs : y = bs[x].next /\ y = Ends(bs, x) /\ bs[y].prev = x
          BY <4>1, <4>3, BlockIs
        <5>2. y # b /\ y # c /\ y # Null
          BY <1>1, <1>3, <3>2, <4>1, <5>1, HeapSize DEF Layout
        <5>3. y \in D /\ ns[y].prev = x
          BY <1>4, <1>13, <1>14, <5>1, <5>2
        <5> QED
          BY <4>1, <5>1, <5>3
      <4>4. ASSUME x # 0 PROVE ns[x].prev \in D /\ Ends(ns, ns[x].prev) = x
        <5>1. CASE x = c
          BY <1>3, <1>10, <1>14, <1>15, <3>2, <5>1, <4>1, HeapSize DEF Layout
        <5>2. CASE x # c
          <6>1. PICK v \in DOMAIN bs : v = bs[x].prev /\ Ends(bs, v) = x /\ bs[v].next = x
            BY <4>1, <4>4, BlockIs
          <6>2. v # a /\ v # b
            BY <1>2, <4>1, <5>2, <6>1
          <6> QED
            BY <1>4, <1>14, <1>15, <3>2, <5>2, <6>1, <6>2
        <5> QED
          BY <5>1, <5>2
      <4> QED
        BY <4>1, <4>2, <4>3, <4>4 DEF Placed
    <3> QED
      BY <3>1, <3>2
  <2>5. ns = [x \in D |-> ns[x]]
    BY <1>5
  <2> QED
    BY <2>1, <2>3, <2>4, <2>5, LayoutBy
<1>17. ASSUME NEW x \in D
       PROVE  /\ ns[x].used = bs[x].used
              /\ ns[x].next = IF x = a THEN bs[b].next ELSE bs[x].next
              /\ ns[x].prev = IF x = bs[b].next THEN a ELSE bs[x].prev
              /\ x # a => ns[x].size = bs[x].size
  BY <1>2, <1>3, <1>13, <1>14
<1> QED
  BY <1>4, <1>16, <1>17 DEF Absorbed

\* The blocks after a split.
Parted(bs, b, need) ==
    LET new == b + Header + need
    IN [a \in DOMAIN bs \cup {new} |->
          CASE a = new -> [next |-> bs[b].next, prev |-> b,
                           size |-> bs[b].size - need - Header, used |-> FALSE]
            [] a = b   -> [next |-> new, prev |-> bs[b].prev, size |-> need, used |-> TRUE]
            [] a = bs[b].next -> [bs[a] EXCEPT !.prev = new]
            [] OTHER   -> bs[a]]

\* ns is bs with b used for need words, and the rest of it a block new.
SplitAs(bs, b, need, new, ns) ==
    /\ Layout(ns) /\ DOMAIN ns = DOMAIN bs \cup {new} /\ new \notin DOMAIN bs /\ new \in Nat
    /\ ns[new].used = FALSE /\ ns[new].next = bs[b].next
    /\ ns[b].used = TRUE /\ ns[b].next = new /\ ns[b].size = need
    /\ \A x \in DOMAIN bs :
          x # b => ns[x].used = bs[x].used /\ ns[x].next = bs[x].next /\ ns[x].size = bs[x].size

\* A block is split in two.
LEMMA SplitHolds ==
    ASSUME NEW bs, Layout(bs), NEW b \in DOMAIN bs, NEW need \in Nat,
           ~(bs[b].size < need + Header + 1),
           NEW new, new = b + Header + need, NEW ns, ns = Parted(bs, b, need)
    PROVE  SplitAs(bs, b, need, new, ns)
<1>1. PICK c, D : c = bs[b].next /\ D = DOMAIN bs \cup {new}
  OBVIOUS
<1>2. /\ b \in Nat /\ b \in Addr /\ bs[b].size \in Nat /\ Ends(bs, b) \in Nat /\ Ends(bs, b) <= Words
      /\ Ends(bs, b) = b + 3 + bs[b].size /\ bs[b] \in Block /\ bs[b].prev \in Addr \cup {Null}
      /\ c \in Addr \cup {Null}
  <2>1. bs[b] \in Block
    BY DEF Layout
  <2> QED
    BY <1>1, <2>1, BlockIs, HeapSize DEF Block
<1>3. PICK rest \in Nat : rest = bs[b].size - need - Header /\ rest <= Words /\ need <= Words
                          /\ new + 3 + rest = Ends(bs, b)
  <2>1. PICK s \in Nat : s = bs[b].size
    BY <1>2
  <2>2. s >= need + 4 /\ Ends(bs, b) = b + 3 + s /\ new = b + 3 + need
    BY <1>2, <2>1 DEF Header
  <2>3. s - need - Header \in Nat /\ s - need - Header <= Words /\ need <= Words
        /\ new + 3 + (s - need - Header) = Ends(bs, b)
    BY <1>2, <2>2, HeapSize
  <2> QED
    BY <2>1, <2>3
<1>4. /\ new \in Nat /\ b < new /\ new < Ends(bs, b) /\ new # b /\ new \in Addr /\ new # Null
      /\ new # 0
  <2>1. new \in Nat /\ new = b + 3 + need
    BY <1>2 DEF Header
  <2>2. b < new /\ new < Ends(bs, b) /\ new < Words
    BY <1>2, <1>3, <2>1, HeapSize
  <2> QED
    BY <1>2, <2>1, <2>2, HeapSize
<1>5. new \notin DOMAIN bs
  BY <1>2, <1>4, BlockIs
<1>6. /\ c # b /\ c # new
      /\ c # Null <=> Ends(bs, b) # Words
      /\ c # Null => c \in DOMAIN bs /\ c = Ends(bs, b) /\ bs[c].prev = b
  BY <1>1, <1>2, <1>4, BlockIs, HeapSize
<1>7. ns = [a \in D |->
              CASE a = new -> [next |-> c, prev |-> b, size |-> rest, used |-> FALSE]
                [] a = b   -> [next |-> new, prev |-> bs[b].prev, size |-> need, used |-> TRUE]
                [] a = c -> [bs[a] EXCEPT !.prev = new]
                [] OTHER   -> bs[a]]
  BY <1>1, <1>3 DEF Parted
<1>8. ns[new] = [next |-> c, prev |-> b, size |-> rest, used |-> FALSE]
  BY <1>1, <1>4, <1>6, <1>7
<1>9. ns[b] = [next |-> new, prev |-> bs[b].prev, size |-> need, used |-> TRUE]
  BY <1>1, <1>4, <1>6, <1>7
<1>10. ASSUME NEW x \in DOMAIN bs, x # b
       PROVE  ns[x] = IF x = c THEN [bs[x] EXCEPT !.prev = new] ELSE bs[x]
  BY <1>1, <1>5, <1>7, <1>10
<1>11. ns[new] \in Block /\ ns[b] \in Block
  BY <1>2, <1>3, <1>4, <1>8, <1>9 DEF Block
<1>12. ASSUME NEW x \in DOMAIN bs, x # b
       PROVE  /\ ns[x] \in Block /\ ns[x].size = bs[x].size /\ ns[x].next = bs[x].next
              /\ ns[x].prev = IF x = c THEN new ELSE bs[x].prev
              /\ ns[x].used = bs[x].used
  <2>1. bs[x] \in Block
    BY DEF Layout
  <2> QED
    BY <1>4, <1>10, <1>12, <2>1 DEF Block
<1>13. /\ Ends(ns, new) = Ends(bs, b) /\ Ends(ns, b) = new
       /\ \A x \in DOMAIN bs : x # b => Ends(ns, x) = Ends(bs, x)
  <2>1. Ends(ns, new) = Ends(bs, b)
    BY <1>3, <1>8 DEF Ends, Header
  <2>2. Ends(ns, b) = new
    BY <1>9 DEF Ends
  <2> QED
    BY <1>12, <2>1, <2>2 DEF Ends
<1>14. ASSUME NEW x \in D PROVE ns[x] \in Block /\ Placed(ns, D, x)
  <2>1. CASE x = new
    <3>1. c # Null => Ends(ns, new) \in D /\ ns[Ends(ns, new)].prev = new
      BY <1>1, <1>6, <1>12, <1>13
    <3>2. ns[new].next = c /\ ns[new].prev = b /\ b \in D
      BY <1>1, <1>8
    <3>3. ASSUME NEW y \in D PROVE y <= new \/ Ends(ns, new) <= y
      <4>1. CASE y = new
        BY <1>4, <4>1
      <4>2. CASE y \in DOMAIN bs
        <5>1. y <= b \/ Ends(bs, b) <= y
          BY <4>2, BlockIs
        <5>2. y \in Nat
          BY <4>2, BlockIs
        <5> QED
          BY <1>2, <1>4, <1>13, <5>1, <5>2
      <4> QED
        BY <1>1, <4>1, <4>2
    <3> QED
      BY <1>2, <1>6, <1>11, <1>13, <2>1, <3>1, <3>2, <3>3 DEF Placed
  <2>2. CASE x = b
    <3>1. ns[b].next = new /\ ns[b].prev = bs[b].prev /\ new \in D /\ ns[new].prev = b
      BY <1>1, <1>8, <1>9
    <3>2. ASSUME NEW y \in D PROVE y <= b \/ new <= y
      <4>1. CASE y = new
        BY <1>4, <4>1
      <4>2. CASE y \in DOMAIN bs
        <5>1. y <= b \/ Ends(bs, b) <= y
          BY <4>2, BlockIs
        <5>2. y \in Nat
          BY <4>2, BlockIs
        <5> QED
          BY <1>2, <1>4, <5>1, <5>2
      <4> QED
        BY <1>1, <4>1, <4>2
    <3>3. ASSUME b # 0 PROVE bs[b].prev \in D /\ Ends(ns, bs[b].prev) = b
      <4>1. PICK v \in DOMAIN bs : v = bs[b].prev /\ Ends(bs, v) = b /\ v # b
        BY <1>2, <3>3, BlockIs
      <4> QED
        BY <1>1, <1>13, <4>1
    <3>4. new <= Words /\ new # Words
      BY <1>2, <1>4, HeapSize
    <3> QED
      BY <1>11, <1>13, <2>2, <3>1, <3>2, <3>3, <3>4 DEF Placed
  <2>3. CASE x \in DOMAIN bs /\ x # b
    <3>1. /\ ns[x] \in Block /\ Ends(ns, x) = Ends(bs, x) /\ ns[x].next = bs[x].next
          /\ Ends(bs, x) <= Words /\ (bs[x].next # Null <=> Ends(bs, x) # Words)
          /\ x \in Nat /\ Ends(bs, x) \in Nat
      BY <1>12, <1>13, <2>3, BlockIs
    <3>2. ASSUME bs[x].next # Null
          PROVE  /\ ns[x].next = Ends(ns, x) /\ Ends(ns, x) \in D /\ ns[Ends(ns, x)].prev = x
      <4>1. PICK y \in DOMAIN bs : y = bs[x].next /\ y = Ends(bs, x) /\ bs[y].prev = x
        BY <2>3, <3>2, BlockIs
      <4>2. y # c
        BY <1>6, <2>3, <4>1, HeapSize DEF Layout
      <4>3. ns[y].prev = x
        BY <1>9, <1>12, <4>1, <4>2
      <4> QED
        BY <1>1, <3>1, <4>1, <4>3
    <3>3. ASSUME x # 0 PROVE ns[x].prev \in D /\ Ends(ns, ns[x].prev) = x
      <4>1. CASE x = c
        BY <1>1, <1>6, <1>12, <1>13, <2>3, <4>1, HeapSize DEF Layout
      <4>2. CASE x # c
        <5>1. PICK v \in DOMAIN bs : v = bs[x].prev /\ Ends(bs, v) = x /\ bs[v].next = x
          BY <2>3, <3>3, BlockIs
        <5>2. v # b
          BY <1>1, <4>2, <5>1
        <5> QED
          BY <1>1, <1>12, <1>13, <2>3, <4>2, <5>1, <5>2
      <4> QED
        BY <4>1, <4>2
    <3>4. ASSUME NEW y \in D PROVE y <= x \/ Ends(bs, x) <= y
      <4>1. CASE y = new
        <5>1. x <= b \/ Ends(bs, b) <= x
          BY <2>3, BlockIs
        <5>2. Ends(bs, x) <= b \/ Ends(bs, b) <= x
          BY <2>3, BlocksApart
        <5> QED
          BY <1>2, <1>4, <3>1, <4>1, <5>2
      <4>2. CASE y \in DOMAIN bs
        BY <2>3, <4>2, BlockIs
      <4> QED
        BY <1>1, <4>1, <4>2
    <3> QED
      BY <3>1, <3>2, <3>3, <3>4 DEF Placed
  <2> QED
    BY <1>1, <2>1, <2>2, <2>3
<1>15. Layout(ns) /\ DOMAIN ns = D
  <2>1. D \in SUBSET Addr /\ 0 \in D /\ ns = [x \in D |-> ns[x]]
    BY <1>1, <1>4, <1>7 DEF Layout
  <2>2. ns[0].prev = Null
    <3>1. c # 0
      BY <1>2, <1>6, HeapSize
    <3>2. 0 \in DOMAIN bs /\ bs[0].prev = Null
      BY DEF Layout
    <3> QED
      BY <1>9, <1>12, <3>1, <3>2
  <2> QED
    BY <1>14, <2>1, <2>2, LayoutBy
<1>16. ns[new].used = FALSE /\ ns[new].next = bs[b].next
  BY <1>1, <1>8
<1>17. ns[b].used = TRUE /\ ns[b].next = new /\ ns[b].size = need
  BY <1>9
<1>18. ASSUME NEW x \in DOMAIN bs, x # b
       PROVE  ns[x].used = bs[x].used /\ ns[x].next = bs[x].next /\ ns[x].size = bs[x].size
  BY <1>12, <1>18
<1>19. DOMAIN ns = DOMAIN bs \cup {new}
  BY <1>1, <1>15
<1> QED
  BY <1>4, <1>5, <1>15, <1>16, <1>17, <1>18, <1>19 DEF SplitAs
-----------------------------------------------------------------------------
(* The way of the search round the array.                                  *)

\* The search has a block to begin with.
Chain == Layout(block) /\ last \in DOMAIN block

\* From a block the search goes to the next one round the array, and comes
\* back to where it began after the last one.
LEMMA FollowIs ==
    ASSUME Chain, NEW b \in DOMAIN block
    PROVE  /\ Follow(b) \in DOMAIN block /\ Distance(b) \in Nat /\ Distance(b) < Words
           /\ \A a \in DOMAIN block : Distance(a) = Distance(b) => a = b
           /\ Follow(b) = last => \A a \in DOMAIN block : Distance(a) <= Distance(b)
           /\ Follow(b) # last =>
                 /\ Distance(b) < Distance(Follow(b))
                 /\ \A a \in DOMAIN block : Distance(a) <= Distance(b) \/ Distance(Follow(b)) <= Distance(a)
<1>1. Layout(block) /\ last \in DOMAIN block
  BY DEF Chain
<1>2. \A a \in DOMAIN block : a \in Nat /\ a < Words
  <2>1. ASSUME NEW a \in DOMAIN block PROVE a \in Nat /\ a < Words
    BY <1>1, BlockIs, HeapSize
  <2> QED
    BY <2>1
<1>3. PICK e \in Nat : /\ e = Ends(block, b) /\ b < e /\ e <= Words
                       /\ \A a \in DOMAIN block : a <= b \/ e <= a
  BY <1>1, BlockIs
<1>4. \A a \in DOMAIN block : /\ Distance(a) = IF a >= last THEN a - last ELSE a + Words - last
                              /\ Distance(a) \in Nat /\ Distance(a) < Words
  BY <1>1, <1>2, HeapSize DEF Distance
<1>5. \A a \in DOMAIN block : Distance(a) = Distance(b) => a = b
  BY <1>1, <1>2, <1>4, HeapSize
<1>6. 0 \in DOMAIN block
  BY <1>1 DEF Layout
<1>7. CASE e = Words
  <2>1. Follow(b) = 0 /\ \A a \in DOMAIN block : a <= b
    <3>1. block[b].next = Null
      BY <1>1, <1>3, <1>7, BlockIs
    <3>2. \A a \in DOMAIN block : ~(e <= a)
      BY <1>2, <1>7, HeapSize
    <3> QED
      BY <1>3, <3>1, <3>2 DEF Follow
  <2>2. Distance(b) = b - last
    BY <1>1, <1>4, <2>1
  <2>3. last = 0 => \A a \in DOMAIN block : Distance(a) <= Distance(b)
    BY <1>2, <1>4, <2>1, <2>2
  <2>4. last # 0 => Distance(0) = Words - last /\ Distance(b) < Distance(0)
    BY <1>1, <1>2, <1>4, <1>6, <2>2, HeapSize
  <2>5. last # 0 => \A a \in DOMAIN block : Distance(a) <= Distance(b) \/ Distance(0) <= Distance(a)
    <3>1. SUFFICES ASSUME last # 0, NEW a \in DOMAIN block
                   PROVE Distance(a) <= Distance(b) \/ Distance(0) <= Distance(a)
      OBVIOUS
    <3>2. a \in Nat /\ b \in Nat /\ last \in Nat /\ a <= b /\ a < Words /\ Words \in Nat
      BY <1>1, <1>2, <2>1, HeapSize
    <3>3. CASE a >= last
      BY <1>4, <2>2, <3>2, <3>3
    <3>4. CASE ~(a >= last)
      BY <1>4, <2>4, <3>1, <3>2, <3>4
    <3> QED
      BY <3>3, <3>4
  <2> QED
    BY <1>4, <1>5, <1>6, <2>1, <2>3, <2>4, <2>5
<1>8. CASE e # Words
  <2>1. Follow(b) = e /\ e \in DOMAIN block
    BY <1>1, <1>3, <1>8, BlockIs DEF Follow
  <2>2. last \in Nat /\ b \in Nat /\ Words \in Nat /\ e < Words /\ (last <= b \/ e <= last)
    BY <1>1, <1>2, <1>3, <2>1, HeapSize
  <2>3. CASE e = last
    <3>1. Distance(b) = b + Words - last
      BY <1>3, <1>4, <2>2, <2>3
    <3>2. ASSUME NEW a \in DOMAIN block PROVE Distance(a) <= Distance(b)
      <4>1. a \in Nat /\ a < Words /\ (a <= b \/ e <= a)
        BY <1>2, <1>3
      <4>2. Distance(a) = IF a >= last THEN a - last ELSE a + Words - last
        BY <1>4
      <4> QED
        BY <1>3, <2>2, <2>3, <3>1, <4>1, <4>2
    <3> QED
      BY <1>4, <1>5, <2>1, <2>3, <3>2
  <2>4. CASE e # last
    <3>1. Distance(b) < Distance(e)
      <4>1. Distance(b) = (IF b >= last THEN b - last ELSE b + Words - last)
            /\ Distance(e) = (IF e >= last THEN e - last ELSE e + Words - last)
        BY <1>4, <2>1
      <4> QED
        BY <1>3, <2>2, <2>4, <4>1
    <3>2. ASSUME NEW a \in DOMAIN block PROVE Distance(a) <= Distance(b) \/ Distance(e) <= Distance(a)
      <4>1. a \in Nat /\ a < Words /\ (a <= b \/ e <= a)
        BY <1>2, <1>3
      <4>2. /\ Distance(a) = (IF a >= last THEN a - last ELSE a + Words - last)
            /\ Distance(b) = (IF b >= last THEN b - last ELSE b + Words - last)
            /\ Distance(e) = (IF e >= last THEN e - last ELSE e + Words - last)
        BY <1>4, <2>1
      <4> QED
        BY <1>3, <2>2, <2>4, <4>1, <4>2
    <3> QED
      BY <1>4, <1>5, <2>1, <2>4, <3>1, <3>2
  <2> QED
    BY <2>3, <2>4
<1> QED
  BY <1>7, <1>8

\* The blocks in the order of the search.
Seen == LET seen[i \in 0 .. Words] == IF i = 0 THEN last ELSE Follow(seen[i - 1]) IN seen

\* What the search sees are blocks, from the last allocation on.
LEMMA SeenIs ==
    ASSUME Chain
    PROVE  /\ Seen \in [0 .. Words -> DOMAIN block] /\ Seen[0] = last
           /\ \A i \in 0 .. Words - 1 : Seen[i + 1] = Follow(Seen[i])
<1>1. PICK D : D = DOMAIN block
  OBVIOUS
<1>2. Words \in Nat /\ last \in D /\ \A b \in D : Follow(b) \in D
  BY <1>1, FollowIs, HeapSize DEF Chain
<1>3. PICK step : step = [x \in Nat \X D |-> Follow(x[2])]
  OBVIOUS
<1>4. step \in [Nat \X D -> D]
  BY <1>2, <1>3
<1>5. PICK f \in [0 .. Words -> D] : Follows(f, Words, last, step)
  BY <1>2, <1>4, FollowsExists
<1>6. ASSUME NEW i \in 0 .. Words - 1 PROVE f[i + 1] = Follow(f[i])
  <2>1. f[i] \in D /\ i \in Nat
    BY <1>2, <1>5
  <2>2. f[i + 1] = step[<<i, f[i]>>]
    BY <1>5 DEF Follows
  <2> QED
    BY <1>3, <2>1, <2>2
<1>7. f = [i \in 0 .. Words |-> IF i = 0 THEN last ELSE Follow(f[i - 1])]
  <2>1. f[0] = last
    BY <1>5 DEF Follows
  <2>2. ASSUME NEW i \in 0 .. Words, i # 0 PROVE f[i] = Follow(f[i - 1])
    <3>1. i - 1 \in 0 .. Words - 1 /\ (i - 1) + 1 = i
      BY <1>2, <2>2
    <3> QED
      BY <1>6, <3>1
  <2>3. \A i \in 0 .. Words : f[i] = IF i = 0 THEN last ELSE Follow(f[i - 1])
    BY <2>1, <2>2
  <2> QED
    BY <1>5, <2>3
<1>8. PICK g : g = Seen /\ g = [i \in 0 .. Words |-> IF i = 0 THEN last ELSE Follow(g[i - 1])]
  BY <1>7 DEF Seen
<1>9. \A i \in 0 .. Words : g[i] = IF i = 0 THEN last ELSE Follow(g[i - 1])
  BY <1>8
<1>10. g[0] = last /\ \A i \in 0 .. Words - 1 : g[i + 1] = Follow(g[i])
  <2>1. 0 \in 0 .. Words /\ \A i \in 0 .. Words - 1 : i + 1 \in 0 .. Words /\ i + 1 # 0 /\ (i + 1) - 1 = i
    BY <1>2
  <2> QED
    BY <1>9, <2>1
<1>11. \A i \in 0 .. Words : i \in {k \in 0 .. Words : g[k] \in D}
  <2>1. PICK S : S = {k \in 0 .. Words : g[k] \in D}
    OBVIOUS
  <2>2. 0 \in S
    BY <1>2, <1>10, <2>1
  <2>3. ASSUME NEW n \in 0 .. Words - 1, n \in S PROVE n + 1 \in S
    <3>1. n + 1 \in 0 .. Words /\ g[n] \in D /\ g[n + 1] = Follow(g[n])
      BY <1>2, <1>10, <2>1, <2>3
    <3> QED
      BY <1>2, <2>1, <3>1
  <2> QED
    BY <1>2, <2>1, <2>2, <2>3, AllUpTo
<1> QED
  BY <1>1, <1>8, <1>10, <1>11

\* The search has not come back up to i.
Out(i) == \A j \in 1 .. i : Seen[j] # last

\* As long as it has not, it goes away from where it began and leaves
\* nothing out.
LEMMA SeenRises ==
    ASSUME Chain
    PROVE  \A i \in 0 .. Words : Out(i) =>
              /\ Distance(Seen[i]) >= i
              /\ \A j \in 0 .. i : Distance(Seen[j]) <= Distance(Seen[i])
              /\ \A a \in DOMAIN block : Distance(a) <= Distance(Seen[i]) =>
                    \E j \in 0 .. i : Seen[j] = a
<1>1. /\ Words \in Nat /\ Seen[0] = last /\ last \in DOMAIN block
      /\ \A i \in 0 .. Words : Seen[i] \in DOMAIN block
      /\ \A i \in 0 .. Words - 1 : Seen[i + 1] = Follow(Seen[i])
  BY SeenIs, HeapSize DEF Chain
<1>2. \A a \in DOMAIN block : Distance(a) \in Nat
  BY FollowIs
<1>3. PICK S : S = {i \in 0 .. Words : Out(i) =>
              /\ Distance(Seen[i]) >= i
              /\ \A j \in 0 .. i : Distance(Seen[j]) <= Distance(Seen[i])
              /\ \A a \in DOMAIN block : Distance(a) <= Distance(Seen[i]) =>
                    \E j \in 0 .. i : Seen[j] = a}
  OBVIOUS
<1>4. 0 \in S
  <2>1. last \in Nat
    BY <1>1, BlockIs DEF Chain
  <2>2. Distance(last) = 0
    BY <2>1 DEF Distance
  <2>3. \A a \in DOMAIN block : Distance(a) <= 0 => a = last
    BY <1>1, <1>2, <2>2, FollowIs
  <2>4. 0 \in 0 .. Words /\ \A j \in 0 .. 0 : j = 0
    BY <1>1
  <2> QED
    BY <1>1, <1>2, <1>3, <2>2, <2>3, <2>4
<1>5. ASSUME NEW n \in 0 .. Words - 1, n \in S PROVE n + 1 \in S
  <2>1. n \in Nat /\ n \in 0 .. Words /\ n + 1 \in 0 .. Words
    BY <1>1
  <2>2. SUFFICES ASSUME Out(n + 1)
        PROVE  /\ Distance(Seen[n + 1]) >= n + 1
               /\ \A j \in 0 .. n + 1 : Distance(Seen[j]) <= Distance(Seen[n + 1])
               /\ \A a \in DOMAIN block : Distance(a) <= Distance(Seen[n + 1]) =>
                     \E j \in 0 .. n + 1 : Seen[j] = a
    BY <1>3, <2>1
  <2>3. Out(n) /\ Seen[n + 1] # last
    <3>1. n + 1 \in 1 .. n + 1 /\ \A j \in 1 .. n : j \in 1 .. n + 1
      BY <2>1
    <3> QED
      BY <2>2, <3>1 DEF Out
  <2>4. PICK x, y : x = Seen[n] /\ y = Seen[n + 1]
    OBVIOUS
  <2>5. x \in DOMAIN block /\ y \in DOMAIN block /\ y = Follow(x) /\ y # last
    BY <1>1, <2>1, <2>3, <2>4
  <2>6. PICK d \in Nat, e \in Nat : d = Distance(x) /\ e = Distance(y)
    BY <1>2, <2>5
  <2>7. d < e /\ \A a \in DOMAIN block : Distance(a) <= d \/ e <= Distance(a)
    BY <2>5, <2>6, FollowIs
  <2>8. /\ d >= n
        /\ \A j \in 0 .. n : Distance(Seen[j]) <= d
        /\ \A a \in DOMAIN block : Distance(a) <= d => \E j \in 0 .. n : Seen[j] = a
    BY <1>3, <1>5, <2>3, <2>4, <2>6
  <2>9. e >= n + 1
    BY <2>1, <2>6, <2>7, <2>8
  <2>10. ASSUME NEW j \in 0 .. n + 1 PROVE Distance(Seen[j]) <= e
    <3>1. CASE j = n + 1
      BY <2>4, <2>6, <3>1
    <3>2. CASE j # n + 1
      <4>1. j \in 0 .. n /\ j \in 0 .. Words
        BY <1>1, <2>1, <3>2
      <4>2. Distance(Seen[j]) <= d /\ Distance(Seen[j]) \in Nat
        BY <1>1, <1>2, <2>8, <4>1
      <4> QED
        BY <2>6, <2>7, <4>2
    <3> QED
      BY <3>1, <3>2
  <2>11. ASSUME NEW a \in DOMAIN block, Distance(a) <= e
         PROVE  \E j \in 0 .. n + 1 : Seen[j] = a
    <3>1. CASE Distance(a) <= d
      <4>1. PICK j \in 0 .. n : Seen[j] = a
        BY <2>8, <3>1
      <4>2. j \in 0 .. n + 1
        BY <2>1
      <4> QED
        BY <4>1, <4>2
    <3>2. CASE e <= Distance(a)
      <4>1. Distance(a) = e
        BY <1>2, <2>6, <2>11, <3>2
      <4>2. a = y
        BY <2>5, <2>6, <4>1, FollowIs
      <4>3. n + 1 \in 0 .. n + 1
        BY <2>1
      <4> QED
        BY <2>4, <4>2, <4>3
    <3> QED
      BY <2>7, <3>1, <3>2
  <2> QED
    BY <2>4, <2>6, <2>9, <2>10, <2>11
<1>6. \A i \in 0 .. Words : i \in S
  BY <1>1, <1>4, <1>5, AllUpTo
<1> QED
  BY <1>3, <1>6, ZenonT(30)

\* Every block is seen before it comes back.
LEMMA AllSeen ==
    ASSUME Chain, NEW a \in DOMAIN block
    PROVE  \E j \in 0 .. Words : Seen[j] = a /\ Out(j)
<1>1. /\ Words \in Nat /\ \A i \in 0 .. Words : Seen[i] \in DOMAIN block
      /\ \A i \in 0 .. Words - 1 : Seen[i + 1] = Follow(Seen[i])
  BY SeenIs, HeapSize
<1>2. PICK T : T = {m \in 1 .. Words : Seen[m] = last}
  OBVIOUS
<1>3. T # {}
  <2>1. SUFFICES ASSUME T = {} PROVE FALSE
    OBVIOUS
  <2>2. Out(Words)
    BY <1>2, <2>1 DEF Out
  <2>3. Words \in 0 .. Words
    BY <1>1
  <2>4. Distance(Seen[Words]) >= Words
    BY <2>2, <2>3, SeenRises
  <2>5. Distance(Seen[Words]) \in Nat /\ Distance(Seen[Words]) < Words
    BY <1>1, <2>3, FollowIs
  <2> QED
    BY <1>1, <2>4, <2>5
<1>4. PICK m \in T : \A k \in T : m <= k
  <2>1. T \in SUBSET Nat
    BY <1>2
  <2> QED
    BY <1>3, <2>1, SmallestOf
<1>5. PICK i \in 0 .. Words - 1 : i + 1 = m /\ i \in 0 .. Words /\ i \in Nat
  <2>1. m \in 1 .. Words
    BY <1>2
  <2>2. m - 1 \in 0 .. Words - 1 /\ (m - 1) + 1 = m /\ m - 1 \in 0 .. Words /\ m - 1 \in Nat
    BY <1>1, <2>1
  <2> QED
    BY <2>2
<1>6. \A j \in 0 .. i : Out(j)
  <2>1. SUFFICES ASSUME NEW j \in 0 .. i, NEW k \in 1 .. j PROVE Seen[k] # last
    BY DEF Out
  <2>2. k \in 1 .. Words /\ ~(m <= k)
    BY <1>1, <1>5
  <2> QED
    BY <1>2, <1>4, <2>2
<1>7. Follow(Seen[i]) = last /\ Seen[i] \in DOMAIN block
  BY <1>1, <1>2, <1>4, <1>5
<1>8. Distance(a) <= Distance(Seen[i])
  BY <1>7, FollowIs
<1>9. Out(i)
  BY <1>5, <1>6
<1>10. PICK j \in 0 .. i : Seen[j] = a
  BY <1>5, <1>8, <1>9, SeenRises
<1>11. j \in 0 .. Words
  BY <1>1, <1>5
<1> QED
  BY <1>6, <1>10, <1>11

\* What is found is the first that fits, counted from the last allocation.
LEMMA SearchIs ==
    ASSUME Chain, NEW need
    PROVE  LET fit == {b \in DOMAIN block : Fits(b, need)}
               b == Search(need)
           IN IF fit = {} THEN b = Null
              ELSE b \in fit /\ \A a \in fit : Distance(b) <= Distance(a)
<1>1. PICK fit : fit = {b \in DOMAIN block : Fits(b, need)}
  OBVIOUS
<1>2. PICK R : R = {i \in 0 .. Words : Fits(Seen[i], need) /\ Out(i)}
  OBVIOUS
<1>3. Search(need) =
        IF \E i \in 0 .. Words : i \in R
        THEN Seen[CHOOSE i \in 0 .. Words : i \in R /\ \A j \in 0 .. i - 1 : j \notin R]
        ELSE Null
  <2>1. \A i \in 0 .. Words : i \in R <=> Fits(Seen[i], need) /\ \A j \in 1 .. i : Seen[j] # last
    BY <1>2 DEF Out
  <2>2. ASSUME NEW i \in 0 .. Words, NEW j \in 0 .. i - 1 PROVE j \in 0 .. Words
    BY HeapSize
  <2>3. \A i \in 0 .. Words :
           (i \in R /\ \A j \in 0 .. i - 1 : j \notin R)
           <=> (/\ Fits(Seen[i], need) /\ \A j \in 1 .. i : Seen[j] # last
                /\ \A j \in 0 .. i - 1 : ~(Fits(Seen[j], need) /\ \A k \in 1 .. j : Seen[k] # last))
    BY <2>1, <2>2
  <2>4. Search(need) =
          IF \E i \in 0 .. Words : Fits(Seen[i], need) /\ \A j \in 1 .. i : Seen[j] # last
          THEN Seen[CHOOSE i \in 0 .. Words :
                       /\ Fits(Seen[i], need) /\ \A j \in 1 .. i : Seen[j] # last
                       /\ \A j \in 0 .. i - 1 : ~(Fits(Seen[j], need) /\ \A k \in 1 .. j : Seen[k] # last)]
          ELSE Null
    BY DEF Search, Seen
  <2> QED
    BY <2>1, <2>3, <2>4
<1>4. \A i \in R : Seen[i] \in fit /\ Out(i) /\ i \in 0 .. Words
  BY <1>1, <1>2, SeenIs
<1>5. ASSUME NEW a \in fit PROVE \E i \in R : Seen[i] = a
  <2>1. a \in DOMAIN block /\ Fits(a, need)
    BY <1>1
  <2>2. PICK j \in 0 .. Words : Seen[j] = a /\ Out(j)
    BY <2>1, AllSeen
  <2> QED
    BY <1>2, <2>1, <2>2
<1>6. CASE fit = {}
  BY <1>1, <1>3, <1>4, <1>6
<1>7. CASE fit # {}
  <2>1. R # {} /\ R \in SUBSET Nat
    BY <1>2, <1>5, <1>7
  <2>2. PICK m \in R : \A k \in R : m <= k
    BY <2>1, SmallestOf
  <2>3. m \in 0 .. Words /\ \A j \in 0 .. m - 1 : j \notin R
    BY <1>2, <2>1, <2>2
  <2>4. PICK i \in 0 .. Words : i \in R /\ (\A j \in 0 .. i - 1 : j \notin R) /\ Search(need) = Seen[i]
    BY <1>3, <2>2, <2>3
  <2>5. Seen[i] \in fit
    BY <1>4, <2>4
  <2>6. ASSUME NEW a \in fit PROVE Distance(Seen[i]) <= Distance(a)
    <3>1. PICK k \in R : Seen[k] = a
      BY <1>5
    <3>2. k \in 0 .. Words /\ Out(k)
      BY <1>4
    <3>3. i \in 0 .. k
      <4>1. ~(k \in 0 .. i - 1)
        BY <2>4
      <4> QED
        BY <3>2, <4>1
    <3> QED
      BY <3>1, <3>2, <3>3, SeenRises
  <2> QED
    BY <1>1, <1>7, <2>4, <2>5, <2>6
<1> QED
  BY <1>6, <1>7
-----------------------------------------------------------------------------
(* The flag of a block, and what my_free makes of the blocks.              *)

\* No two free blocks are neighbours.
MergedIn(bs) ==
    \A b \in DOMAIN bs : ~bs[b].used /\ bs[b].next # Null => bs[bs[b].next].used

\* The flag of one block is set.
Flagged(bs, b, f) == [bs EXCEPT ![b].used = f]

\* ns is bs with the flag of b set to f.
FlaggedAs(bs, b, f, ns) ==
    /\ Layout(ns) /\ DOMAIN ns = DOMAIN bs
    /\ \A x \in DOMAIN bs :
          /\ ns[x].next = bs[x].next /\ ns[x].prev = bs[x].prev /\ ns[x].size = bs[x].size
          /\ ns[x].used = IF x = b THEN f ELSE bs[x].used

\* A flag changes nothing of the layout.
LEMMA FlagHolds ==
    ASSUME NEW bs, Layout(bs), NEW b \in DOMAIN bs, NEW f \in BOOLEAN,
           NEW ns, ns = Flagged(bs, b, f)
    PROVE  FlaggedAs(bs, b, f, ns)
<1>1. PICK D \in SUBSET Addr : D = DOMAIN bs
  BY DEF Layout
<1>2. bs \in [D -> Block] /\ 0 \in D /\ bs[0].prev = Null
  BY <1>1 DEF Layout
<1>3. DOMAIN ns = D /\ ns = [x \in D |-> ns[x]]
  BY <1>1, <1>2 DEF Flagged
<1>4. ASSUME NEW x \in D
      PROVE  /\ ns[x] \in Block /\ ns[x].next = bs[x].next /\ ns[x].prev = bs[x].prev
             /\ ns[x].size = bs[x].size /\ ns[x].used = IF x = b THEN f ELSE bs[x].used
  <2>1. bs[x] \in Block
    BY <1>2
  <2>2. ns[x] = IF x = b THEN [bs[x] EXCEPT !.used = f] ELSE bs[x]
    BY <1>1, <1>2 DEF Flagged
  <2> QED
    BY <2>1, <2>2 DEF Block
<1>5. \A x \in D : Ends(ns, x) = Ends(bs, x)
  BY <1>4 DEF Ends
<1>6. ASSUME NEW x \in D PROVE Placed(ns, D, x)
  <2>1. Placed(bs, D, x)
    BY <1>1 DEF Layout
  <2>2. Ends(ns, x) = Ends(bs, x) /\ ns[x].next = bs[x].next /\ ns[x].prev = bs[x].prev
    BY <1>4, <1>5
  <2>3. \A y \in D : ns[y].prev = bs[y].prev /\ Ends(ns, y) = Ends(bs, y)
    BY <1>4, <1>5
  <2>4. ns[x].prev \in D => Ends(ns, ns[x].prev) = Ends(bs, bs[x].prev)
    BY <2>2, <2>3
  <2>5. Ends(bs, x) \in D => ns[Ends(bs, x)].prev = bs[Ends(bs, x)].prev
    BY <2>3
  <2> QED
    BY <2>1, <2>2, <2>4, <2>5 DEF Placed
<1>7. ns[0].prev = Null
  BY <1>2, <1>4
<1>8. \A x \in D : ns[x] \in Block /\ Placed(ns, D, x)
  BY <1>4, <1>6
<1>9. Layout(ns) /\ DOMAIN ns = D
  BY <1>1, <1>2, <1>3, <1>7, <1>8, LayoutBy
<1>10. \A x \in D : /\ ns[x].next = bs[x].next /\ ns[x].prev = bs[x].prev
                    /\ ns[x].size = bs[x].size /\ ns[x].used = IF x = b THEN f ELSE bs[x].used
  BY <1>4
<1> QED
  BY <1>1, <1>9, <1>10 DEF FlaggedAs

FreeIn(bs, x) == x # Null /\ ~bs[x].used

\* Block a is joined with the one behind it, when that is free.
Joined(bs, a, free) == IF free THEN Absorb(bs, a) ELSE bs

\* What links a block b to its neighbours, and who else is linked to them.
LEMMA Neighbours ==
    ASSUME NEW bs, Layout(bs), NEW b \in DOMAIN bs
    PROVE  /\ b # Null
           /\ bs[b].next # Null => bs[b].next \in DOMAIN bs /\ bs[b].next # b
                                   /\ bs[b].next # bs[b].prev
           /\ bs[b].prev # Null => bs[b].prev \in DOMAIN bs /\ bs[b].prev # b
                                   /\ bs[bs[b].prev].next = b
           /\ \A x \in DOMAIN bs :
                 /\ bs[x].next = b => x = bs[b].prev
                 /\ bs[x].next # Null /\ bs[x].next = bs[b].next => x = b
<1>1. b \in Nat /\ b # Null
  BY BlockIs, HeapSize
<1>2. bs[b].next # Null => bs[b].next \in DOMAIN bs /\ b < bs[b].next /\ bs[bs[b].next].prev = b
  BY BlockIs
<1>3. bs[b].prev # Null => bs[b].prev \in DOMAIN bs /\ bs[b].prev < b /\ bs[bs[b].prev].next = b
  BY BlockIs
<1>4. ASSUME NEW x \in DOMAIN bs, bs[x].next # Null
      PROVE  bs[bs[x].next].prev = x
  BY <1>4, BlockIs
<1>5. \A x \in DOMAIN bs : x \in Nat
  BY BlockIs
<1>6. bs[b].next # Null => bs[b].next \in Nat /\ bs[b].next # b
  BY <1>1, <1>2, <1>5
<1>7. bs[b].prev # Null => bs[b].prev \in Nat /\ bs[b].prev # b
  BY <1>1, <1>3, <1>5
<1>8. bs[b].next # Null => bs[b].next # bs[b].prev
  BY <1>1, <1>2, <1>3, <1>6, <1>7
<1>9. \A x \in DOMAIN bs : bs[x].next = b => x = bs[b].prev
  BY <1>1, <1>4
<1>10. \A x \in DOMAIN bs : bs[x].next # Null /\ bs[x].next = bs[b].next => x = b
  BY <1>2, <1>4
<1> QED
  BY <1>1, <1>2, <1>3, <1>6, <1>7, <1>8, <1>9, <1>10

\* my_free up to the block behind: b is free, and the next one is not.
GrownTo(bs, b, grown) ==
    /\ Layout(grown) /\ b \in DOMAIN grown /\ DOMAIN grown \subseteq DOMAIN bs
    /\ \A x \in DOMAIN bs : x \in DOMAIN grown \/ (x = bs[b].next /\ FreeIn(bs, bs[b].next))
    /\ grown[b].used = FALSE /\ grown[b].prev = bs[b].prev
    /\ grown[b].next # Null => /\ grown[b].next \in DOMAIN bs /\ grown[b].next # b
                               /\ bs[grown[b].next].used
    /\ \A x \in DOMAIN grown :
          x # b => /\ grown[x].used = bs[x].used /\ grown[x].next = bs[x].next
                   /\ grown[x].size = bs[x].size

\* After the first half of my_free.
LEMMA GrownHolds ==
    ASSUME NEW bs, Layout(bs), MergedIn(bs), NEW b \in DOMAIN bs,
           NEW freed, freed = Flagged(bs, b, FALSE),
           NEW grown, grown = Joined(freed, b, FreeIn(bs, bs[b].next))
    PROVE  GrownTo(bs, b, grown)
<1>1. PICK n : n = bs[b].next
  OBVIOUS
<1>2. PICK D : D = DOMAIN bs
  OBVIOUS
<1>8. FlaggedAs(bs, b, FALSE, freed)
  BY FlagHolds
<1>3. Layout(freed) /\ DOMAIN freed = D /\ b \in D
  BY <1>2, <1>8 DEF FlaggedAs
<1>4. \A x \in D :
            /\ freed[x].next = bs[x].next /\ freed[x].prev = bs[x].prev
            /\ freed[x].size = bs[x].size
            /\ x # b => freed[x].used = bs[x].used
  BY <1>2, <1>8 DEF FlaggedAs
<1>9. freed[b].used = FALSE
  BY <1>8 DEF FlaggedAs
<1>5. n # Null => n \in D /\ n # b /\ n # bs[b].prev
  BY <1>1, <1>2, Neighbours
<1>6. CASE FreeIn(bs, n)
  <2>1. grown = Absorb(freed, b) /\ freed[b].next = n /\ n # Null /\ n \in D /\ n # b
        /\ ~bs[n].used
    BY <1>1, <1>3, <1>4, <1>5, <1>6 DEF Joined, FreeIn
  <2>2. PICK m : m = bs[n].next /\ m = freed[n].next
    BY <1>4, <2>1
  <2>13. b \in DOMAIN freed /\ n = freed[b].next /\ n # Null /\ grown = Absorb(freed, b)
    BY <1>3, <2>1
  <2>14. Absorbed(freed, b, n, grown)
    BY <1>3, <2>13, AbsorbHolds
  <2>3. /\ Layout(grown) /\ DOMAIN grown = D \ {n}
    BY <1>3, <2>14 DEF Absorbed
  <2>4. \A x \in DOMAIN grown :
                /\ grown[x].used = freed[x].used
                /\ grown[x].next = IF x = b THEN m ELSE freed[x].next
                /\ grown[x].prev = IF x = m THEN b ELSE freed[x].prev
                /\ x # b => grown[x].size = freed[x].size
    <3>1. m = freed[n].next
      BY <2>2
    <3> QED
      BY <2>14, <3>1 DEF Absorbed
  <2>5. m # Null => bs[m].used /\ m \in D /\ m # b
    <3>1. SUFFICES ASSUME m # Null PROVE bs[m].used /\ m \in D /\ m # b
      OBVIOUS
    <3>2. bs[m].used
      <4>1. n \in DOMAIN bs /\ ~bs[n].used /\ bs[n].next = m
        BY <1>2, <2>1, <2>2
      <4> QED
        BY <3>1, <4>1 DEF MergedIn
    <3>5. n \in DOMAIN bs /\ bs[n].next = m
      BY <1>2, <2>1, <2>2
    <3>3. m \in D
      <4>1. bs[n].next # Null => bs[n].next \in DOMAIN bs
        BY <3>5, Neighbours
      <4> QED
        BY <1>2, <3>1, <3>5, <4>1
    <3>4. m = b => n = bs[b].prev
      <4>1. \A x \in DOMAIN bs : bs[x].next = b => x = bs[b].prev
        BY Neighbours
      <4> QED
        BY <3>5, <4>1
    <3> QED
      BY <1>5, <2>1, <3>2, <3>3, <3>4
  <2>6. b \in DOMAIN grown
    BY <1>3, <2>1, <2>3
  <2>7. b # m
    <3>1. b # Null
      BY Neighbours
    <3> QED
      BY <2>5, <3>1
  <2>8. grown[b].used = FALSE /\ grown[b].next = m
    BY <1>9, <2>4, <2>6
  <2>9. grown[b].prev = bs[b].prev
    <3>1. grown[b].prev = freed[b].prev
      BY <2>4, <2>6, <2>7
    <3> QED
      BY <1>3, <1>4, <3>1
  <2>10. ASSUME NEW x \in DOMAIN grown, x # b
         PROVE  grown[x].used = bs[x].used /\ grown[x].next = bs[x].next /\ grown[x].size = bs[x].size
    <3>1. x \in D
      BY <2>3
    <3>2. grown[x].used = freed[x].used /\ grown[x].next = freed[x].next
          /\ grown[x].size = freed[x].size
      BY <2>4, <2>10
    <3> QED
      BY <1>4, <2>10, <3>1, <3>2
  <2>11. \A x \in D : x \in DOMAIN grown \/ (x = bs[b].next /\ FreeIn(bs, bs[b].next))
    BY <1>1, <1>6, <2>3
  <2>12. DOMAIN grown \subseteq D
    BY <2>3
  <2> QED
    BY <1>2, <2>3, <2>5, <2>6, <2>8, <2>9, <2>10, <2>11, <2>12 DEF GrownTo
<1>7. CASE ~FreeIn(bs, n)
  <2>1. grown = freed
    BY <1>1, <1>7 DEF Joined
  <2>2. grown[b].used = FALSE /\ grown[b].next = n /\ grown[b].prev = bs[b].prev
    BY <1>1, <1>3, <1>4, <1>9, <2>1
  <2>3. n # Null => bs[n].used
    BY <1>7 DEF FreeIn
  <2>4. \A x \in DOMAIN grown : x # b =>
            grown[x].used = bs[x].used /\ grown[x].next = bs[x].next /\ grown[x].size = bs[x].size
    BY <1>3, <1>4, <2>1
  <2> QED
    BY <1>2, <1>3, <1>5, <2>1, <2>2, <2>3, <2>4 DEF GrownTo
<1> QED
  BY <1>6, <1>7

\* A block is freed and joined with its free neighbours.
FreedTo(bs, b, ns) ==
    /\ Layout(ns) /\ MergedIn(ns) /\ DOMAIN ns \subseteq DOMAIN bs
    /\ \A a \in DOMAIN bs : bs[a].used /\ a # b =>
          a \in DOMAIN ns /\ ns[a].used /\ ns[a].size = bs[a].size
    /\ IF FreeIn(bs, bs[b].prev) THEN bs[b].prev \in DOMAIN ns ELSE b \in DOMAIN ns
    /\ \A a \in DOMAIN bs :
          \/ a \in DOMAIN ns
          \/ a = bs[b].next /\ FreeIn(bs, bs[b].next)
          \/ a = b /\ FreeIn(bs, bs[b].prev)

\* After all of my_free.
LEMMA FreedHolds ==
    ASSUME NEW bs, Layout(bs), MergedIn(bs), NEW b \in DOMAIN bs,
           NEW grown, GrownTo(bs, b, grown),
           NEW ns, ns = Joined(grown, bs[b].prev, FreeIn(bs, bs[b].prev))
    PROVE  FreedTo(bs, b, ns)
<1>1. PICK v : v = bs[b].prev
  OBVIOUS
<1>2. PICK D : D = DOMAIN bs
  OBVIOUS
<1>3. b \in D /\ b # Null /\ (v # Null => v \in D /\ v # b /\ bs[v].next = b /\ v # bs[b].next)
  <2>1. b # Null /\ (bs[b].next # Null => bs[b].next # bs[b].prev)
    BY Neighbours
  <2>2. bs[b].prev # Null => bs[b].prev \in DOMAIN bs /\ bs[b].prev # b
                                   /\ bs[bs[b].prev].next = b
    BY Neighbours
  <2> QED
    BY <1>1, <1>2, <2>1, <2>2
<1>4. /\ Layout(grown) /\ b \in DOMAIN grown /\ DOMAIN grown \subseteq D
      /\ \A x \in D : x \in DOMAIN grown \/ (x = bs[b].next /\ FreeIn(bs, bs[b].next))
      /\ grown[b].used = FALSE /\ grown[b].prev = v
      /\ grown[b].next # Null => /\ grown[b].next \in D /\ grown[b].next # b
                                 /\ bs[grown[b].next].used
      /\ \A x \in DOMAIN grown :
            x # b => /\ grown[x].used = bs[x].used /\ grown[x].next = bs[x].next
                     /\ grown[x].size = bs[x].size
  BY <1>1, <1>2 DEF GrownTo
<1>5. \A x \in D : bs[x].used => x \in DOMAIN grown
  BY <1>4 DEF FreeIn
<1>6. ASSUME NEW x \in DOMAIN grown, x # b, ~bs[x].used, bs[x].next # Null
      PROVE  /\ bs[bs[x].next].used /\ bs[x].next \in DOMAIN grown
             /\ bs[x].next = b => x = v
  <2>1. x \in D
    BY <1>4
  <2>2. bs[bs[x].next].used
    BY <1>2, <1>6, <2>1 DEF MergedIn
  <2>3. bs[x].next \in D
    BY <1>2, <1>6, <2>1, Neighbours
  <2>4. bs[x].next = b => x = v
    BY <1>1, <1>2, <2>1, Neighbours
  <2> QED
    BY <1>5, <2>2, <2>3, <2>4
<1>7. grown[b].next # Null => grown[b].next \in DOMAIN grown /\ grown[grown[b].next].used
  BY <1>4, <1>5
<1>8. CASE FreeIn(bs, v)
  <2>1. ns = Absorb(grown, v) /\ v # Null /\ ~bs[v].used
    BY <1>1, <1>8 DEF Joined, FreeIn
  <2>2. v \in DOMAIN grown /\ v # b /\ grown[v].next = b
    BY <1>3, <1>4, <2>1
  <2>11. v \in DOMAIN grown /\ b = grown[v].next /\ b # Null /\ ns = Absorb(grown, v)
    BY <1>3, <2>1, <2>2
  <2>12. Absorbed(grown, v, b, ns)
    BY <1>4, <2>11, AbsorbHolds
  <2>3. Layout(ns) /\ DOMAIN ns = DOMAIN grown \ {b}
    BY <2>12 DEF Absorbed
  <2>4. \A x \in DOMAIN ns :
              /\ ns[x].used = grown[x].used
              /\ ns[x].next = IF x = v THEN grown[b].next ELSE grown[x].next
              /\ x # v => ns[x].size = grown[x].size
    BY <2>12 DEF Absorbed
  <2>5. ASSUME NEW x \in DOMAIN ns, ~ns[x].used, ns[x].next # Null
        PROVE  ns[ns[x].next].used
    <3>2. x \in DOMAIN grown /\ x # b /\ ~bs[x].used
      <4>1. x \in DOMAIN grown /\ x # b
        BY <2>3
      <4> QED
        BY <1>4, <2>4, <2>5, <4>1
    <3>3. CASE x = v
      <4>1. ns[x].next = grown[b].next
        BY <2>4, <3>3
      <4>2. grown[b].next # b /\ grown[b].next \in DOMAIN grown /\ grown[grown[b].next].used
        BY <1>4, <1>7, <2>5, <4>1
      <4>3. grown[b].next \in DOMAIN ns
        BY <2>3, <4>2
      <4> QED
        BY <2>4, <4>1, <4>2, <4>3
    <3>4. CASE x # v
      <4>1. ns[x].next = bs[x].next /\ bs[x].next # Null
        <5>1. ns[x].next = grown[x].next
          BY <2>4, <3>4
        <5> QED
          BY <1>4, <2>5, <3>2, <5>1
      <4>2. bs[bs[x].next].used /\ bs[x].next \in DOMAIN grown /\ bs[x].next # b
        BY <1>6, <3>2, <3>4, <4>1
      <4>3. bs[x].next \in DOMAIN ns /\ grown[bs[x].next].used
        BY <1>4, <2>3, <4>2
      <4> QED
        BY <2>4, <4>1, <4>3
    <3> QED
      BY <3>3, <3>4
  <2>6. MergedIn(ns)
    BY <2>5 DEF MergedIn
  <2>7. ASSUME NEW a \in D, bs[a].used, a # b
        PROVE  a \in DOMAIN ns /\ ns[a].used /\ ns[a].size = bs[a].size
    <3>1. a \in DOMAIN grown /\ a # v
      BY <1>5, <2>1, <2>7
    <3>2. a \in DOMAIN ns
      BY <2>3, <2>7, <3>1
    <3>3. grown[a].used = bs[a].used /\ grown[a].size = bs[a].size
      BY <1>4, <2>7, <3>1
    <3> QED
      BY <2>4, <2>7, <3>1, <3>2, <3>3
  <2>8. v \in DOMAIN ns
    BY <2>2, <2>3
  <2>9. ASSUME NEW a \in D
        PROVE \/ a \in DOMAIN ns
              \/ a = bs[b].next /\ FreeIn(bs, bs[b].next)
              \/ a = b /\ FreeIn(bs, v)
    BY <1>4, <1>8, <2>3
  <2>10. DOMAIN ns \subseteq D
    BY <1>4, <2>3
  <2> QED
    BY <1>1, <1>2, <1>8, <2>3, <2>6, <2>7, <2>8, <2>9, <2>10 DEF FreedTo
<1>9. CASE ~FreeIn(bs, v)
  <2>1. ns = grown
    BY <1>1, <1>9 DEF Joined
  <2>2. ASSUME NEW x \in DOMAIN grown, ~grown[x].used, grown[x].next # Null
        PROVE  grown[grown[x].next].used
    <3>2. CASE x = b
      BY <1>7, <2>2, <3>2
    <3>3. CASE x # b
      <4>1. ~bs[x].used /\ grown[x].next = bs[x].next
        BY <1>4, <2>2, <3>3
      <4>5. bs[x].next # Null
        BY <2>2, <4>1
      <4>2. bs[bs[x].next].used /\ bs[x].next \in DOMAIN grown /\ (bs[x].next = b => x = v)
        BY <1>6, <3>3, <4>1, <4>5
      <4>3. bs[x].next # b
        <5>1. SUFFICES ASSUME bs[x].next = b PROVE FALSE
          OBVIOUS
        <5>2. x = v /\ x \in D /\ x # Null
          BY <1>4, <4>2, <5>1, HeapSize DEF Layout
        <5> QED
          BY <1>9, <4>1, <5>2 DEF FreeIn
      <4> QED
        BY <1>4, <4>1, <4>2, <4>3
    <3> QED
      BY <3>2, <3>3
  <2>3. MergedIn(ns)
    BY <2>1, <2>2 DEF MergedIn
  <2>4. ASSUME NEW a \in D, bs[a].used, a # b
        PROVE  a \in DOMAIN ns /\ ns[a].used /\ ns[a].size = bs[a].size
    <3>1. a \in DOMAIN grown
      BY <1>5, <2>4
    <3> QED
      BY <1>4, <2>1, <2>4, <3>1
  <2>5. ASSUME NEW a \in D
        PROVE  a \in DOMAIN ns \/ (a = bs[b].next /\ FreeIn(bs, bs[b].next))
    BY <1>4, <2>1
  <2> QED
    BY <1>1, <1>2, <1>4, <1>9, <2>1, <2>3, <2>4, <2>5 DEF FreedTo
<1> QED
  BY <1>8, <1>9
-----------------------------------------------------------------------------
(* What my_calloc takes.                                                   *)

\* A free block is taken, whole or in part.
TakenTo(bs, b, need, ns) ==
    /\ Layout(ns) /\ MergedIn(ns) /\ DOMAIN bs \subseteq DOMAIN ns
    /\ ns[b].used /\ need <= ns[b].size
    /\ \A x \in DOMAIN bs : x # b => ns[x].used = bs[x].used /\ ns[x].size = bs[x].size

\* A block that is too small to split is taken as it is.
LEMMA WholeHolds ==
    ASSUME NEW bs, Layout(bs), MergedIn(bs), NEW b \in DOMAIN bs, ~bs[b].used,
           NEW need \in Nat, bs[b].size >= need,
           NEW ns, ns = Flagged(bs, b, TRUE)
    PROVE  TakenTo(bs, b, need, ns)
<1>1. FlaggedAs(bs, b, TRUE, ns)
  BY FlagHolds
<1>2. PICK D : D = DOMAIN bs
  OBVIOUS
<1>3. Layout(ns) /\ DOMAIN ns = D /\ b \in D
  BY <1>1, <1>2 DEF FlaggedAs
<1>4. ns[b].used = TRUE /\ ns[b].size = bs[b].size
  BY <1>1 DEF FlaggedAs
<1>5. \A x \in D : /\ ns[x].next = bs[x].next /\ ns[x].size = bs[x].size
                   /\ x # b => ns[x].used = bs[x].used
  BY <1>1, <1>2 DEF FlaggedAs
<1>6. ASSUME NEW x \in D, ~ns[x].used, ns[x].next # Null
      PROVE  ns[ns[x].next].used
  <2>1. x # b /\ ~bs[x].used /\ bs[x].next # Null /\ ns[x].next = bs[x].next
    BY <1>4, <1>5, <1>6
  <2>2. bs[bs[x].next].used
    BY <1>2, <2>1 DEF MergedIn
  <2>3. bs[x].next \in D
    <3>1. x \in DOMAIN bs
      BY <1>2
    <3>2. bs[x].next # Null => bs[x].next \in DOMAIN bs
      BY <3>1, Neighbours
    <3> QED
      BY <1>2, <2>1, <3>2
  <2> QED
    BY <1>5, <2>1, <2>2, <2>3
<1>7. MergedIn(ns)
  BY <1>3, <1>6 DEF MergedIn
<1>8. need <= ns[b].size
  <2>1. PICK s \in Nat : s = bs[b].size
    BY BlockIs, HeapSize
  <2> QED
    BY <1>4, <2>1
<1> QED
  BY <1>2, <1>3, <1>4, <1>5, <1>7, <1>8 DEF TakenTo

\* Of a larger one the front is taken; what is left has no free neighbour.
LEMMA PartHolds ==
    ASSUME NEW bs, Layout(bs), MergedIn(bs), NEW b \in DOMAIN bs, ~bs[b].used,
           NEW need \in Nat, ~(bs[b].size < need + Header + 1),
           NEW ns, ns = Parted(bs, b, need)
    PROVE  TakenTo(bs, b, need, ns)
<1>1. PICK new : new = b + Header + need
  OBVIOUS
<1>2. SplitAs(bs, b, need, new, ns)
  BY <1>1, SplitHolds
<1>3. PICK D : D = DOMAIN bs
  OBVIOUS
<1>4. Layout(ns) /\ DOMAIN ns = D \cup {new} /\ new \notin D /\ b \in D
  BY <1>2, <1>3 DEF SplitAs
<1>5. ns[new].used = FALSE /\ ns[new].next = bs[b].next
  BY <1>2 DEF SplitAs
<1>6. ns[b].used = TRUE /\ ns[b].next = new /\ ns[b].size = need
  BY <1>2 DEF SplitAs
<1>7. \A x \in D : x # b => /\ ns[x].used = bs[x].used /\ ns[x].next = bs[x].next
                            /\ ns[x].size = bs[x].size
  BY <1>2, <1>3 DEF SplitAs
<1>8. ASSUME NEW x \in D, ~bs[x].used, bs[x].next # Null
      PROVE  ns[bs[x].next].used
  <2>1. x \in DOMAIN bs
    BY <1>3
  <2>2. bs[bs[x].next].used
    BY <1>8, <2>1 DEF MergedIn
  <2>3. bs[x].next \in D
    <3>2. bs[x].next # Null => bs[x].next \in DOMAIN bs
      BY <2>1, Neighbours
    <3> QED
      BY <1>3, <1>8, <3>2
  <2> QED
    BY <1>6, <1>7, <2>2, <2>3
<1>9. ASSUME NEW x \in D \cup {new}, ~ns[x].used, ns[x].next # Null
      PROVE  ns[ns[x].next].used
  <2>1. CASE x = new
    BY <1>4, <1>5, <1>8, <1>9, <2>1
  <2>2. CASE x # new
    <3>1. x \in D /\ x # b
      BY <1>6, <1>9, <2>2
    <3>2. ~bs[x].used /\ ns[x].next = bs[x].next
      BY <1>7, <1>9, <3>1
    <3> QED
      BY <1>8, <1>9, <3>1, <3>2
  <2> QED
    BY <2>1, <2>2
<1>10. MergedIn(ns)
  BY <1>4, <1>9 DEF MergedIn
<1> QED
  BY <1>3, <1>4, <1>6, <1>7, <1>10 DEF TakenTo

\* A number that is smaller than another is its own remainder.
LEMMA SmallRemainder ==
    ASSUME NEW n \in Nat, NEW x \in Nat, x < n
    PROVE  x % n = x
BY SMT

\* Whole words: a multiple of eight is larger by a word at least.
LEMMA Eights ==
    ASSUME NEW n \in Nat, NEW m \in Nat, n % 8 = 0, m < n
    PROVE  m \div 8 \in Nat /\ n \div 8 \in Nat /\ m \div 8 < n \div 8
BY SMT

\* The block is large enough for all that the caller may use.
LEMMA ReserveIs ==
    ASSUME NEW nmemb \in Nat, NEW size \in Nat
    PROVE  /\ Reserve(nmemb, size) \in Nat /\ Usable(nmemb, size) \in Nat
           /\ Usable(nmemb, size) <= Reserve(nmemb, size)
<1>1. PICK m \in Nat : m = nmemb * size
  <2>1. nmemb * size \in Nat
    BY SMT
  <2> QED
    BY <2>1
<1>2. PICK n \in Nat : n = Limit /\ n > 0 /\ n % 8 = 0 /\ n \div 8 \in Nat /\ n \div 8 > 0
  <2>1. PICK n \in Nat : n = Limit
    BY HeapAssumption
  <2>2. PICK w \in Nat : w = Words /\ w > 3
    BY HeapSize
  <2>3. n > w * 8 /\ n % 8 = 0
    BY <2>1, <2>2, HeapAssumption DEF WordSize
  <2>4. n > 8 /\ n \div 8 \in Nat /\ n \div 8 > 0
    BY <2>1, <2>2, <2>3
  <2> QED
    BY <2>1, <2>3, <2>4
<1>3. Reserve(nmemb, size) = (((m % n) + 7) \div 8) % (n \div 8)
  <2>1. Reserve(nmemb, size) = (((m % n) + (8 - 1)) \div 8) % (n \div 8)
    BY <1>1, <1>2, Zenon DEF Reserve, WordSize
  <2>2. 8 - 1 = 7
    OBVIOUS
  <2> QED
    BY <2>1, <2>2
<1>4. Usable(nmemb, size) = IF m + 7 < n THEN (m + 7) \div 8 ELSE 0
  <2>1. Usable(nmemb, size) = IF m + 8 - 1 < n THEN (m + 8 - 1) \div 8 ELSE 0
    BY <1>1, <1>2, Zenon DEF Usable, WordSize
  <2>2. m + 8 - 1 = m + 7
    OBVIOUS
  <2> QED
    BY <2>1, <2>2
<1>5. Reserve(nmemb, size) \in Nat
  <2>1. PICK r \in Nat : r = m % n
    BY <1>2, SMT
  <2>2. PICK e \in Nat : e = n \div 8 /\ e > 0
    BY <1>2
  <2>3. PICK k \in Nat : k = (r + 7) \div 8
    BY SMT
  <2>4. k % e \in Nat
    BY <2>2, SMT
  <2> QED
    BY <1>3, <2>1, <2>2, <2>3, <2>4
<1>6. CASE m + 7 < n
  <2>1. m % n = m
    BY <1>2, <1>6, SmallRemainder
  <2>2. PICK k \in Nat : k = (m + 7) \div 8 /\ k < n \div 8
    BY <1>2, <1>6, Eights
  <2>3. k % (n \div 8) = k
    BY <1>2, <2>2, SmallRemainder
  <2>4. Reserve(nmemb, size) = k
    BY <1>3, <2>1, <2>2, <2>3
  <2>5. Usable(nmemb, size) = k
    BY <1>4, <1>6, <2>2
  <2> QED
    BY <2>2, <2>4, <2>5
<1>7. CASE ~(m + 7 < n)
  BY <1>4, <1>5, <1>7
<1> QED
  BY <1>6, <1>7
-----------------------------------------------------------------------------
(* The invariant.                                                          *)

\* Every pointer a caller holds is that of a used block, which is at least
\* as large as what he may use of it.
OwnedIn(bs, as) ==
    \A p \in DOMAIN as :
        /\ p \in Nat /\ as[p] \in Nat
        /\ \E b \in DOMAIN bs : p = b + Header /\ bs[b].used /\ as[p] <= bs[b].size

HeapInv ==
    /\ HeapTypeOK
    /\ Layout(block) /\ MergedIn(block) /\ last \in DOMAIN block
    /\ OwnedIn(block, asked)

\* Pointers and numbers of words lie in the array.
LEMMA OwnedTyped ==
    ASSUME NEW bs, Layout(bs), NEW as, OwnedIn(bs, as), NEW p \in DOMAIN as
    PROVE  p \in 0 .. Words /\ as[p] \in 0 .. Words
<1>1. PICK b \in DOMAIN bs : p = b + Header /\ as[p] <= bs[b].size
  BY DEF OwnedIn
<1>2. p \in Nat /\ as[p] \in Nat
  BY DEF OwnedIn
<1>3. PICK s \in Nat : s = bs[b].size /\ s <= Words /\ b + 3 <= Words /\ b \in Nat /\ Words \in Nat
  <2>1. bs[b].size \in 0 .. Words /\ b + 3 <= Ends(bs, b) /\ Ends(bs, b) \in Nat
        /\ Ends(bs, b) <= Words /\ b \in Nat
    BY BlockIs
  <2> QED
    BY <2>1, HeapSize
<1>4. PICK k \in Nat : k = as[p] /\ k <= s
  BY <1>1, <1>2, <1>3
<1>5. p = b + 3 /\ b + 3 \in 0 .. Words
  <2>1. p = b + 3
    BY <1>1 DEF Header
  <2>2. b + 3 \in 0 .. Words
    BY <1>3
  <2> QED
    BY <2>1, <2>2
<1>6. as[p] \in 0 .. Words
  <2>1. s <= Words /\ Words \in Nat /\ k <= s
    BY <1>3, <1>4
  <2>2. k \in 0 .. Words
    BY <2>1
  <2> QED
    BY <1>4, <2>2
<1> QED
  BY <1>5, <1>6

\* A pointer p is granted, for u words.
Granted(as, p, u) == [q \in DOMAIN as \cup {p} |-> IF q = p THEN u ELSE as[q]]

\* What a caller gets, beside what the others have.
LEMMA OwnedAfterCalloc ==
    ASSUME NEW bs, Layout(bs), NEW as, OwnedIn(bs, as), NEW b \in DOMAIN bs, ~bs[b].used,
           NEW need \in Nat, NEW ns, TakenTo(bs, b, need, ns),
           NEW u \in Nat, u <= need, NEW p, p = b + Header,
           NEW na, na = Granted(as, p, u)
    PROVE  OwnedIn(ns, na) /\ p \notin DOMAIN as
<1>1. b \in Nat /\ p \in Nat /\ p = b + 3
  BY BlockIs, HeapSize
<1>2. DOMAIN na = DOMAIN as \cup {p} /\ na[p] = u /\ \A q \in DOMAIN as : q # p => na[q] = as[q]
  BY DEF Granted
<1>3. ASSUME NEW q \in DOMAIN as
      PROVE  /\ q # p /\ q \in Nat /\ as[q] \in Nat
             /\ \E x \in DOMAIN ns : q = x + Header /\ ns[x].used /\ as[q] <= ns[x].size
  <2>1. PICK x \in DOMAIN bs : q = x + Header /\ bs[x].used /\ as[q] <= bs[x].size
    BY DEF OwnedIn
  <2>2. x # b /\ x \in Nat
    BY <2>1, BlockIs
  <2>3. q # p
    BY <1>1, <2>1, <2>2, HeapSize
  <2>4. x \in DOMAIN ns /\ ns[x].used = bs[x].used /\ ns[x].size = bs[x].size
    BY <2>2 DEF TakenTo
  <2>5. q \in Nat /\ as[q] \in Nat
    BY DEF OwnedIn
  <2> QED
    BY <2>1, <2>3, <2>4, <2>5
<1>4. b \in DOMAIN ns /\ ns[b].used /\ need <= ns[b].size /\ Layout(ns)
  BY DEF TakenTo
<1>5. u <= ns[b].size
  <2>1. PICK s \in Nat : s = ns[b].size
    BY <1>4, BlockIs, HeapSize
  <2> QED
    BY <1>4, <2>1
<1>6. ASSUME NEW q \in DOMAIN na
      PROVE  /\ q \in Nat /\ na[q] \in Nat
             /\ \E x \in DOMAIN ns : q = x + Header /\ ns[x].used /\ na[q] <= ns[x].size
  <2>1. CASE q = p
    BY <1>1, <1>2, <1>4, <1>5, <2>1
  <2>2. CASE q # p
    <3>1. q \in DOMAIN as /\ na[q] = as[q]
      BY <1>2, <2>2
    <3> QED
      BY <1>3, <3>1
  <2> QED
    BY <2>1, <2>2
<1> QED
  BY <1>3, <1>6 DEF OwnedIn

\* What the others keep when a block is given back.
LEMMA OwnedAfterFree ==
    ASSUME NEW bs, Layout(bs), NEW as, OwnedIn(bs, as), NEW b \in DOMAIN bs,
           NEW ns, FreedTo(bs, b, ns), NEW p, p = b + Header,
           NEW na, na = [q \in DOMAIN as \ {p} |-> as[q]]
    PROVE  OwnedIn(ns, na)
<1>1. DOMAIN na = DOMAIN as \ {p} /\ \A q \in DOMAIN na : na[q] = as[q]
  OBVIOUS
<1>2. ASSUME NEW q \in DOMAIN na
      PROVE  /\ q \in Nat /\ na[q] \in Nat
             /\ \E x \in DOMAIN ns : q = x + Header /\ ns[x].used /\ na[q] <= ns[x].size
  <2>1. q \in DOMAIN as /\ q # p
    BY <1>1
  <2>2. PICK x \in DOMAIN bs : q = x + Header /\ bs[x].used /\ as[q] <= bs[x].size
    BY <2>1 DEF OwnedIn
  <2>3. x # b
    BY <2>1, <2>2
  <2>4. x \in DOMAIN ns /\ ns[x].used /\ ns[x].size = bs[x].size
    BY <2>2, <2>3 DEF FreedTo
  <2>5. q \in Nat /\ as[q] \in Nat /\ na[q] = as[q]
    BY <1>1, <2>1 DEF OwnedIn
  <2> QED
    BY <2>2, <2>4, <2>5
<1> QED
  BY <1>2 DEF OwnedIn

\* The blocks before and after my_calloc; it takes the block b that the
\* search has found.
LEMMA CallocTakes ==
    ASSUME HeapInv, NEW nmemb \in Nat, NEW size \in Nat, NEW c,
           NEW need, need = Reserve(nmemb, size), NEW b, b = Search(need), b # Null,
           IF TooSmallToSplit(b, need) THEN TakeWhole(b, c) ELSE Split(b, need, c)
    PROVE  /\ b \in DOMAIN block /\ ~block[b].used /\ need \in Nat /\ block[b].size >= need
           /\ TakenTo(block, b, need, block')
<1>1. need \in Nat
  BY ReserveIs
<1>2. Layout(block) /\ MergedIn(block) /\ Chain
  BY DEF HeapInv, Chain
<1>3. b \in DOMAIN block /\ Fits(b, need)
  <2>1. PICK fit : fit = {x \in DOMAIN block : Fits(x, need)}
    OBVIOUS
  <2>2. IF fit = {} THEN b = Null ELSE b \in fit
    BY <1>2, <2>1, SearchIs
  <2> QED
    BY <2>1, <2>2
<1>4. ~block[b].used /\ block[b].size >= need
  BY <1>3 DEF Fits
<1>5. CASE TooSmallToSplit(b, need)
  <2>1. block' = Flagged(block, b, TRUE)
    BY <1>5 DEF TakeWhole, Flagged
  <2> QED
    BY <1>1, <1>2, <1>3, <1>4, <2>1, WholeHolds
<1>6. CASE ~TooSmallToSplit(b, need)
  <2>1. block' = Parted(block, b, need)
    BY <1>6 DEF Split, Parted
  <2>2. ~(block[b].size < need + Header + 1)
    BY <1>6 DEF TooSmallToSplit
  <2> QED
    BY <1>1, <1>2, <1>3, <1>4, <2>1, <2>2, PartHolds
<1> QED
  BY <1>5, <1>6

\* The same for my_free, which leaves the last allocation at a block.
LEMMA FreeTakes ==
    ASSUME HeapInv, NEW p \in DOMAIN asked, Free(p), NEW b, b = p - Header
    PROVE  /\ b \in DOMAIN block /\ p = b + Header /\ block[b].used
           /\ FreedTo(block, b, block') /\ last' \in DOMAIN block'
<1>1. Layout(block) /\ MergedIn(block) /\ OwnedIn(block, asked) /\ last \in DOMAIN block
  BY DEF HeapInv
<1>2. PICK x \in DOMAIN block : p = x + Header /\ block[x].used
  BY <1>1 DEF OwnedIn
<1>3. x = b
  <2>1. x \in Nat
    BY <1>1, BlockIs
  <2> QED
    BY <1>2, <2>1, HeapSize
<1>4. PICK n, v : n = block[b].next /\ v = block[b].prev
  OBVIOUS
<1>5. PICK freed : freed = Flagged(block, b, FALSE)
  OBVIOUS
<1>6. PICK grown : grown = Joined(freed, b, FreeIn(block, block[b].next))
  OBVIOUS
<1>7. GrownTo(block, b, grown)
  BY <1>1, <1>2, <1>3, <1>5, <1>6, GrownHolds
<1>8. block' = Joined(grown, block[b].prev, FreeIn(block, block[b].prev))
  BY <1>5, <1>6 DEF Free, Joined, FreeIn, IsFree, Flagged
<1>9. FreedTo(block, b, block')
  BY <1>1, <1>2, <1>3, <1>7, <1>8, FreedHolds
<1>10. PICK position : position = IF FreeIn(block, n) /\ last = n THEN b ELSE last
  OBVIOUS
<1>11. last' = IF FreeIn(block, v) /\ position = b THEN v ELSE position
  BY <1>4, <1>10 DEF Free, FreeIn, IsFree
<1>12. /\ IF FreeIn(block, v) THEN v \in DOMAIN block' ELSE b \in DOMAIN block'
       /\ \/ last \in DOMAIN block'
          \/ last = n /\ FreeIn(block, n)
          \/ last = b /\ FreeIn(block, v)
  BY <1>1, <1>4, <1>9 DEF FreedTo
<1>13. last' \in DOMAIN block'
  BY <1>10, <1>11, <1>12
<1> QED
  BY <1>2, <1>3, <1>9, <1>13

\* The words of the array that are not b's keep what is in them.
Kept(d, nd, b, e) == \A w \in Addr : w < b \/ e <= w => nd[w] = d[w]

\* Words are filled and wiped inside one block.
LEMMA FilledIs ==
    ASSUME NEW d, NEW b \in Nat, NEW n \in Nat, NEW e \in Nat, b + 3 + n <= e, NEW c
    PROVE  /\ Kept(d, Filled(d, b, n, c), b, e)
           /\ \A i \in 0 .. n - 1 : b + Header + i \in Addr => Filled(d, b, n, c)[b + Header + i] = c
           /\ d \in [Addr -> Fill \cup {Junk}] /\ c \in Fill
              => Filled(d, b, n, c) \in [Addr -> Fill \cup {Junk}]
<1>1. PICK nd : nd = [w \in Addr |-> IF w \in b + 3 .. b + 3 + n - 1 THEN c ELSE d[w]]
  OBVIOUS
<1>2. Filled(d, b, n, c) = nd
  BY <1>1 DEF Filled, Header
<1>3. Kept(d, nd, b, e)
  <2>1. SUFFICES ASSUME NEW w \in Addr, w < b \/ e <= w PROVE nd[w] = d[w]
    BY DEF Kept
  <2>2. w \in Nat
    BY HeapSize
  <2>3. w \notin b + 3 .. b + 3 + n - 1
    BY <2>1, <2>2
  <2> QED
    BY <1>1, <2>3
<1>4. ASSUME NEW i \in 0 .. n - 1, b + 3 + i \in Addr PROVE nd[b + 3 + i] = c
  <2>1. b + 3 + i \in b + 3 .. b + 3 + n - 1
    OBVIOUS
  <2> QED
    BY <1>1, <1>4, <2>1
<1>5. d \in [Addr -> Fill \cup {Junk}] /\ c \in Fill => nd \in [Addr -> Fill \cup {Junk}]
  BY <1>1
<1> QED
  BY <1>2, <1>3, <1>4, <1>5 DEF Header

\* The same when they are wiped.
LEMMA WipedIs ==
    ASSUME NEW d, NEW f \in Nat, NEW n \in Nat, NEW b \in Nat, NEW e \in Nat, b <= f, f + n <= e
    PROVE  /\ Kept(d, Wiped(d, f, n), b, e)
           /\ d \in [Addr -> Fill \cup {Junk}] => Wiped(d, f, n) \in [Addr -> Fill \cup {Junk}]
<1>1. PICK nd : nd = [w \in Addr |-> IF w \in f .. f + n - 1 THEN Junk ELSE d[w]]
  OBVIOUS
<1>2. Wiped(d, f, n) = nd
  BY <1>1 DEF Wiped
<1>3. Kept(d, nd, b, e)
  <2>1. SUFFICES ASSUME NEW w \in Addr, w < b \/ e <= w PROVE nd[w] = d[w]
    BY DEF Kept
  <2>2. w \in Nat
    BY HeapSize
  <2>3. w \notin f .. f + n - 1
    BY <2>1, <2>2
  <2> QED
    BY <1>1, <2>3
<1>4. d \in [Addr -> Fill \cup {Junk}] => nd \in [Addr -> Fill \cup {Junk}]
  BY <1>1
<1> QED
  BY <1>2, <1>3, <1>4

\* my_calloc fills the block that it takes and leaves the words of the
\* others alone.
LEMMA CallocFills ==
    ASSUME HeapInv, NEW c \in Fill, NEW b \in DOMAIN block, NEW need \in Nat, block[b].size >= need,
           IF TooSmallToSplit(b, need) THEN TakeWhole(b, c) ELSE Split(b, need, c)
    PROVE  /\ data' \in [Addr -> Fill \cup {Junk}]
           /\ Kept(data, data', b, Ends(block, b))
           /\ \A i \in 0 .. need - 1 : b + Header + i \in Addr => data'[b + Header + i] = c
<1>1. Layout(block) /\ data \in [Addr -> Fill \cup {Junk}]
  BY DEF HeapInv, HeapTypeOK
<1>2. PICK s \in Nat, e \in Nat : s = block[b].size /\ e = Ends(block, b) /\ e = b + 3 + s /\ need <= s
  <2>1. block[b].size \in 0 .. Words /\ Ends(block, b) \in Nat
        /\ Ends(block, b) = b + 3 + block[b].size
    BY <1>1, BlockIs
  <2>2. block[b].size \in Nat
    BY <2>1, HeapSize
  <2> QED
    BY <2>1, <2>2
<1>3. b \in Nat
  BY <1>1, BlockIs
<1>4. CASE TooSmallToSplit(b, need)
  <2>1. PICK nd : nd = Filled(data, b, s, c)
    OBVIOUS
  <2>2. data' = nd
    BY <1>2, <1>4, <2>1 DEF TakeWhole
  <2>3. b + 3 + s <= e
    BY <1>2, <1>3
  <2>4. /\ Kept(data, nd, b, e)
        /\ \A i \in 0 .. s - 1 : b + Header + i \in Addr => nd[b + Header + i] = c
        /\ nd \in [Addr -> Fill \cup {Junk}]
    BY <1>1, <1>3, <2>1, <2>3, FilledIs
  <2>5. \A i \in 0 .. need - 1 : i \in 0 .. s - 1
    BY <1>2
  <2> QED
    BY <1>2, <2>2, <2>4, <2>5
<1>5. CASE ~TooSmallToSplit(b, need)
  <2>1. PICK new : new = b + Header + need
    OBVIOUS
  <2>2. PICK wd : wd = Wiped(data, new, Header)
    OBVIOUS
  <2>3. PICK nd : nd = Filled(wd, b, need, c)
    OBVIOUS
  <2>4. data' = nd
    BY <1>5, <2>1, <2>2, <2>3 DEF Split
  <2>5. ~(s < need + 3 + 1)
    BY <1>2, <1>5 DEF TooSmallToSplit, Header
  <2>6. new \in Nat /\ new = b + 3 + need /\ b <= new /\ new + 3 <= e /\ b + 3 + need <= e
    BY <1>2, <1>3, <2>1, <2>5 DEF Header
  <2>7. Kept(data, wd, b, e) /\ wd \in [Addr -> Fill \cup {Junk}]
    BY <1>1, <1>2, <1>3, <2>2, <2>6, WipedIs DEF Header
  <2>8. /\ Kept(wd, nd, b, e)
        /\ \A i \in 0 .. need - 1 : b + Header + i \in Addr => nd[b + Header + i] = c
        /\ nd \in [Addr -> Fill \cup {Junk}]
    <3>1. b + 3 + need <= e /\ e \in Nat /\ wd \in [Addr -> Fill \cup {Junk}]
      BY <1>2, <2>6, <2>7
    <3>2. /\ Kept(wd, Filled(wd, b, need, c), b, e)
          /\ \A i \in 0 .. need - 1 :
               b + Header + i \in Addr => Filled(wd, b, need, c)[b + Header + i] = c
          /\ Filled(wd, b, need, c) \in [Addr -> Fill \cup {Junk}]
      BY <1>3, <3>1, FilledIs, ZenonT(20)
    <3> QED
      BY <2>3, <3>2, Zenon
  <2>9. Kept(data, nd, b, e)
    BY <2>7, <2>8 DEF Kept
  <2> QED
    BY <1>2, <2>4, <2>8, <2>9
<1> QED
  BY <1>4, <1>5

\* my_free touches the words of its own block only.
LEMMA FreeWipes ==
    ASSUME HeapInv, NEW p \in DOMAIN asked, Free(p), NEW b, b = p - Header
    PROVE  data' \in [Addr -> Fill \cup {Junk}] /\ Kept(data, data', b, Ends(block, b))
<1>1. Layout(block) /\ data \in [Addr -> Fill \cup {Junk}]
  BY DEF HeapInv, HeapTypeOK
<1>2. b \in DOMAIN block /\ p = b + 3
  BY FreeTakes DEF Header
<1>3. PICK s \in Nat, e \in Nat : s = block[b].size /\ e = Ends(block, b) /\ e = b + 3 + s
  <2>1. block[b].size \in 0 .. Words /\ Ends(block, b) \in Nat
        /\ Ends(block, b) = b + 3 + block[b].size
    BY <1>1, <1>2, BlockIs
  <2> QED
    BY <2>1, HeapSize
<1>4. b \in Nat /\ p \in Nat /\ b <= p /\ p + s <= e
  <2>1. b \in Nat
    BY <1>1, <1>2, BlockIs
  <2> QED
    <3>1. p \in Nat /\ b <= p
      BY <1>2, <2>1
    <3>2. p + s <= e
      <4>1. e = b + 3 + s
        BY <1>3
      <4> QED
        BY <1>2, <2>1, <4>1
    <3> QED
      BY <2>1, <3>1, <3>2
<1>5. data' = Wiped(data, p, s)
  BY <1>3 DEF Free
<1> QED
  BY <1>1, <1>3, <1>4, <1>5, WipedIs

\* The words of another pointer lie outside of b.
LEMMA OthersApart ==
    ASSUME NEW bs, Layout(bs), NEW as, OwnedIn(bs, as), NEW b \in DOMAIN bs,
           NEW p \in DOMAIN as, p # b + Header, NEW i \in 0 .. as[p] - 1
    PROVE  p + i \in Addr /\ (p + i < b \/ Ends(bs, b) <= p + i)
<1>1. PICK a \in DOMAIN bs : p = a + Header /\ as[p] <= bs[a].size
  BY DEF OwnedIn
<1>2. a # b
  BY <1>1
<1>3. Ends(bs, a) <= b \/ Ends(bs, b) <= a
  BY <1>2, BlocksApart
<1>4. PICK k \in Nat : k = as[p]
  BY DEF OwnedIn
<1>5. /\ a \in Nat /\ Ends(bs, a) \in Nat /\ Ends(bs, a) <= Words /\ bs[a].size \in Nat
      /\ Ends(bs, a) = a + 3 + bs[a].size
  BY BlockIs, HeapSize
<1>6. b \in Nat /\ Ends(bs, b) \in Nat
  BY BlockIs
<1>7. PICK s \in Nat : s = bs[a].size /\ k <= s
  BY <1>1, <1>4, <1>5
<1>14. PICK e \in Nat : e = Ends(bs, b)
  BY <1>6
<1>15. PICK f \in Nat : f = Ends(bs, a) /\ f = a + 3 + s
  BY <1>5, <1>7
<1>8. f = Ends(bs, a) /\ e = Ends(bs, b) /\ f = a + 3 + s
  BY <1>14, <1>15
<1>9. p + i = a + 3 + i /\ i \in Nat /\ i < k
  <2>1. i \in 0 .. k - 1
    BY <1>4
  <2>2. p = a + 3
    BY <1>1 DEF Header
  <2>3. i \in Nat /\ i < k
    BY <2>1
  <2> QED
    BY <2>2, <2>3
<1>10. a + 3 + i \in Nat /\ a + 3 + i < f /\ a < a + 3 + i
  BY <1>5, <1>7, <1>8, <1>9
<1>11. PICK w \in Nat : w = p + i /\ w < f /\ a < w
  BY <1>9, <1>10
<1>12. w \in Addr
  <2>1. w < Words
    BY <1>5, <1>8, <1>11, HeapSize
  <2> QED
    BY <2>1, HeapSize
<1>13. w < b \/ e <= w
  BY <1>3, <1>5, <1>6, <1>8, <1>11
<1> QED
  BY <1>8, <1>11, <1>12, <1>13
-----------------------------------------------------------------------------
(* The invariant is kept.                                                  *)

\* Blocks and pointers have their types.
LEMMA TypedFrom ==
    ASSUME NEW bs, Layout(bs), NEW as, OwnedIn(bs, as), as = [p \in DOMAIN as |-> as[p]]
    PROVE  /\ DOMAIN bs \subseteq Addr /\ bs \in [DOMAIN bs -> Block]
           /\ DOMAIN as \subseteq 0 .. Words /\ as \in [DOMAIN as -> 0 .. Words]
<1>1. \A p \in DOMAIN as : p \in 0 .. Words /\ as[p] \in 0 .. Words
  BY OwnedTyped
<1>2. as \in [DOMAIN as -> 0 .. Words]
  BY <1>1
<1> QED
  BY <1>1, <1>2 DEF Layout

\* my_calloc_init makes one block of the array.
LEMMA HeapInitInv == HeapInit => HeapInv
<1>1. SUFFICES ASSUME HeapInit PROVE HeapInv
  OBVIOUS
<1>2. PICK w \in Nat : w = Words /\ w > 3
  BY HeapSize
<1>3. 0 \in Addr /\ Words - Header \in 0 .. Words /\ 0 + Header + (Words - Header) = Words
  BY <1>2, HeapSize
<1>4. DOMAIN block = {0} /\ block[0].next = Null /\ block[0].prev = Null
      /\ block[0].size = Words - Header /\ block[0].used = FALSE /\ block[0] \in Block
  BY <1>1, <1>3 DEF HeapInit, Block
<1>5. Ends(block, 0) = Words
  BY <1>3, <1>4 DEF Ends
<1>6. Placed(block, {0}, 0)
  BY <1>2, <1>4, <1>5 DEF Placed
<1>7. block = [x \in {0} |-> block[x]]
  BY <1>1 DEF HeapInit
<1>8. Layout(block)
  <2>1. \A x \in {0} : block[x] \in Block /\ Placed(block, {0}, x)
    BY <1>4, <1>6
  <2> QED
    BY <1>3, <1>4, <1>7, <2>1, LayoutBy
<1>9. MergedIn(block)
  BY <1>4 DEF MergedIn
<1>10. asked = [p \in {} |-> 0] /\ DOMAIN asked = {}
  BY <1>1 DEF HeapInit
<1>11. OwnedIn(block, asked)
  BY <1>10 DEF OwnedIn
<1>12. asked = [p \in DOMAIN asked |-> asked[p]]
  BY <1>10
<1>13. /\ DOMAIN block \subseteq Addr /\ block \in [DOMAIN block -> Block]
       /\ DOMAIN asked \subseteq 0 .. Words /\ asked \in [DOMAIN asked -> 0 .. Words]
  BY <1>8, <1>11, <1>12, TypedFrom
<1>14. last \in Addr /\ last \in DOMAIN block /\ data \in [Addr -> Fill \cup {Junk}]
       /\ ret \in 0 .. Words \cup {Null}
  BY <1>1, <1>3, <1>4 DEF HeapInit
<1>15. HeapTypeOK
  BY <1>13, <1>14 DEF HeapTypeOK, Block
<1> QED
  BY <1>8, <1>9, <1>11, <1>14, <1>15 DEF HeapInv

\* A call that finds a block, of what it changes.
LEMMA CallocOwns ==
    ASSUME HeapInv, NEW nmemb \in Nat, NEW size \in Nat, NEW c \in Fill,
           NEW need, need = Reserve(nmemb, size), NEW b, b = Search(need), b # Null,
           IF TooSmallToSplit(b, need) THEN TakeWhole(b, c) ELSE Split(b, need, c),
           NEW p, p = b + Header, NEW u, u = Usable(nmemb, size),
           asked' = Granted(asked, p, u)
    PROVE  /\ OwnedIn(block', asked') /\ p \notin DOMAIN asked /\ u \in Nat /\ u <= need
           /\ Layout(block') /\ MergedIn(block') /\ b \in DOMAIN block' /\ p \in 0 .. Words
           /\ DOMAIN asked' = DOMAIN asked \cup {p}
<1>1. b \in DOMAIN block /\ ~block[b].used /\ need \in Nat /\ TakenTo(block, b, need, block')
  BY CallocTakes
<1>2. u \in Nat /\ u <= need
  BY ReserveIs
<1>3. Layout(block) /\ OwnedIn(block, asked)
  BY DEF HeapInv
<1>4. OwnedIn(block', asked') /\ p \notin DOMAIN asked
  BY <1>1, <1>2, <1>3, OwnedAfterCalloc
<1>5. Layout(block') /\ MergedIn(block') /\ b \in DOMAIN block'
  BY <1>1 DEF TakenTo
<1>6. p \in DOMAIN asked' /\ DOMAIN asked' = DOMAIN asked \cup {p}
  BY DEF Granted
<1>7. p \in 0 .. Words
  BY <1>4, <1>5, <1>6, OwnedTyped
<1> QED
  BY <1>2, <1>4, <1>5, <1>6, <1>7

\* my_calloc keeps the invariant,
LEMMA CallocKeeps ==
    ASSUME HeapInv, NEW nmemb \in Nat, NEW size \in Nat, NEW c \in Fill, Calloc(nmemb, size, c)
    PROVE  HeapInv'
<1>1. PICK need : need = Reserve(nmemb, size)
  OBVIOUS
<1>2. PICK b : b = Search(need)
  OBVIOUS
<1>3. CASE ret' = Null /\ UNCHANGED <<block, last, data, asked>>
  BY <1>3 DEF HeapInv, HeapTypeOK
<1>4. CASE /\ b # Null
           /\ IF TooSmallToSplit(b, need) THEN TakeWhole(b, c) ELSE Split(b, need, c)
           /\ last' = b
           /\ ret' = b + Header
           /\ asked' = [p \in DOMAIN asked \cup {ret'} |->
                         IF p = ret' THEN Usable(nmemb, size) ELSE asked[p]]
  <2>1. PICK p : p = b + Header
    OBVIOUS
  <2>2. PICK u : u = Usable(nmemb, size)
    OBVIOUS
  <2>3. ret' = p /\ asked' = Granted(asked, p, u)
    BY <1>4, <2>1, <2>2 DEF Granted
  <2>4. OwnedIn(block', asked') /\ Layout(block') /\ MergedIn(block') /\ b \in DOMAIN block'
        /\ p \in 0 .. Words
    <3>1. b # Null /\ IF TooSmallToSplit(b, need) THEN TakeWhole(b, c) ELSE Split(b, need, c)
      BY <1>4
    <3>2. asked' = Granted(asked, p, u)
      BY <2>3
    <3> QED
      BY <1>1, <1>2, <2>1, <2>2, <3>1, <3>2, CallocOwns
  <2>5. asked' = [q \in DOMAIN asked' |-> asked'[q]]
    BY <2>3 DEF Granted
  <2>6. /\ DOMAIN block' \subseteq Addr /\ block' \in [DOMAIN block' -> Block]
        /\ DOMAIN asked' \subseteq 0 .. Words /\ asked' \in [DOMAIN asked' -> 0 .. Words]
    BY <2>4, <2>5, TypedFrom
  <2>7. data' \in [Addr -> Fill \cup {Junk}]
    <3>1. b \in DOMAIN block /\ need \in Nat /\ block[b].size >= need
      BY <1>1, <1>2, <1>4, CallocTakes
    <3> QED
      BY <1>4, <3>1, CallocFills
  <2>8. last' \in Addr /\ last' \in DOMAIN block' /\ ret' \in 0 .. Words \cup {Null}
    BY <1>4, <2>3, <2>4, <2>6
  <2>9. HeapTypeOK'
    BY <2>6, <2>7, <2>8 DEF HeapTypeOK, Block
  <2> QED
    BY <2>4, <2>8, <2>9 DEF HeapInv
<1> QED
  BY <1>1, <1>2, <1>3, <1>4 DEF Calloc

\* and so does my_free.
LEMMA FreeKeeps ==
    ASSUME HeapInv, NEW p \in DOMAIN asked, Free(p)
    PROVE  HeapInv'
<1>1. PICK b : b = p - Header
  OBVIOUS
<1>2. b \in DOMAIN block /\ p = b + Header /\ FreedTo(block, b, block') /\ last' \in DOMAIN block'
  BY <1>1, FreeTakes
<1>3. Layout(block') /\ MergedIn(block')
  BY <1>2 DEF FreedTo
<1>4. asked' = [q \in DOMAIN asked \ {p} |-> asked[q]] /\ ret' = Null
  BY DEF Free, Return
<1>5. OwnedIn(block', asked')
  <2>1. Layout(block) /\ OwnedIn(block, asked)
    BY DEF HeapInv
  <2> QED
    BY <1>2, <1>4, <2>1, OwnedAfterFree
<1>6. asked' = [q \in DOMAIN asked' |-> asked'[q]]
  BY <1>4
<1>7. /\ DOMAIN block' \subseteq Addr /\ block' \in [DOMAIN block' -> Block]
      /\ DOMAIN asked' \subseteq 0 .. Words /\ asked' \in [DOMAIN asked' -> 0 .. Words]
  BY <1>3, <1>5, <1>6, TypedFrom
<1>8. data' \in [Addr -> Fill \cup {Junk}]
  BY <1>1, FreeWipes
<1>9. HeapTypeOK'
  BY <1>2, <1>4, <1>7, <1>8 DEF HeapTypeOK, Block
<1> QED
  BY <1>2, <1>3, <1>5, <1>9 DEF HeapInv

\* Every call does.
LEMMA HeapStep == HeapInv /\ [HeapNext]_heapVars => HeapInv'
<1>1. SUFFICES ASSUME HeapInv, [HeapNext]_heapVars PROVE HeapInv'
  OBVIOUS
<1>2. CASE HeapNext
  <2>1. ASSUME NEW nmemb \in Nmemb, NEW size \in Sizes, NEW c \in Fill, Calloc(nmemb, size, c)
        PROVE  HeapInv'
    BY <1>1, <2>1, CallocKeeps, HeapAssumption
  <2>2. ASSUME NEW p \in DOMAIN asked, Free(p) PROVE HeapInv'
    BY <1>1, <2>2, FreeKeeps
  <2> QED
    BY <1>2, <2>1, <2>2 DEF HeapNext
<1>3. CASE UNCHANGED heapVars
  BY <1>1, <1>3 DEF HeapInv, HeapTypeOK, heapVars
<1> QED
  BY <1>1, <1>2, <1>3

\* my_calloc and my_free keep the blocks joined and linked, whoever calls.
THEOREM HeapInvariant == HeapSpec => []HeapInv
BY HeapInitInv, HeapStep, PTL DEF HeapSpec
-----------------------------------------------------------------------------
\* The links join neighbours, no block overlaps another, free blocks are
\* joined, and the search finds the next block that fits.
LEMMA HeapInvIsSound == HeapInv => HeapSound
<1>1. SUFFICES ASSUME HeapInv PROVE HeapSound
  OBVIOUS
<1>2. HeapTypeOK /\ Layout(block) /\ MergedIn(block) /\ LastIsBlock /\ Chain
  BY <1>1 DEF HeapInv, LastIsBlock, Chain
<1>3. Tiled
  <2>1. 0 \in DOMAIN block /\ block[0].prev = Null
    BY <1>2 DEF Layout
  <2>2. ASSUME NEW b \in DOMAIN block
        PROVE  /\ End(b) <= Words
               /\ IF End(b) = Words THEN block[b].next = Null
                  ELSE /\ block[b].next = End(b)
                       /\ End(b) \in DOMAIN block
                       /\ block[End(b)].prev = b
               /\ \A a \in DOMAIN block : a \in b + 1 .. End(b) => a = End(b)
    <3>1. PICK e \in Nat : e = Ends(block, b) /\ e = End(b)
      <4>1. Ends(block, b) \in Nat
        BY <1>2, BlockIs
      <4> QED
        BY <4>1 DEF Ends, End
    <3>2. Placed(block, DOMAIN block, b)
      BY <1>2 DEF Layout
    <3>3. /\ e <= Words
          /\ e = Words => block[b].next = Null
          /\ e # Words => block[b].next = e /\ e \in DOMAIN block /\ block[e].prev = b
          /\ \A a \in DOMAIN block : a <= b \/ e <= a
      BY <3>1, <3>2 DEF Placed
    <3>4. ASSUME NEW a \in DOMAIN block, a \in b + 1 .. e PROVE a = e
      <4>1. a \in Nat /\ b \in Nat
        BY <1>2, BlockIs
      <4> QED
        BY <3>3, <3>4, <4>1
    <3> QED
      BY <3>1, <3>3, <3>4
  <2> QED
    BY <2>1, <2>2 DEF Tiled
<1>4. Merged
  BY <1>2 DEF Merged, MergedIn, IsFree
<1>5. NextFit
  BY <1>2, SearchIs DEF NextFit
<1> QED
  BY <1>2, <1>3, <1>4, <1>5 DEF HeapSound

\* At every call my_calloc and my_free find the blocks as they rely on
\* them, and my_calloc finds the next block that is large enough.
THEOREM HeapIsSound == HeapSpec => []HeapSound
BY HeapInvariant, HeapInvIsSound, PTL
-----------------------------------------------------------------------------
(* What the callers see.                                                   *)

\* The contents of the words that they may use.
LiveOf(as, d) == [p \in DOMAIN as |-> [i \in 0 .. as[p] - 1 |-> d[p + i]]]

\* One more pointer, to u words c; and one less.
LiveWith(l, p, u, c) ==
    [q \in DOMAIN l \cup {p} |-> IF q = p THEN [i \in 0 .. u - 1 |-> c] ELSE l[q]]

LiveWithout(l, p) == [q \in DOMAIN l \ {p} |-> l[q]]

\* What is granted is new, and filled.
LEMMA LiveAfterCalloc ==
    ASSUME NEW bs, Layout(bs), NEW as, OwnedIn(bs, as), NEW b \in DOMAIN bs,
           NEW d, NEW nd, Kept(d, nd, b, Ends(bs, b)),
           NEW need \in Nat, need <= bs[b].size, NEW u \in Nat, u <= need, NEW c,
           \A i \in 0 .. need - 1 : b + Header + i \in Addr => nd[b + Header + i] = c,
           NEW p, p = b + Header, p \notin DOMAIN as,
           NEW na, na = Granted(as, p, u)
    PROVE  /\ p + u <= Words
           /\ \A q \in DOMAIN as : \A i \in 0 .. as[q] - 1 : q + i \notin p .. p + u - 1
           /\ LiveOf(na, nd) = LiveWith(LiveOf(as, d), p, u, c)
<1>1. PICK e \in Nat : e = Ends(bs, b) /\ e <= Words /\ b \in Nat
  BY BlockIs
<1>2. PICK s \in Nat : s = bs[b].size /\ e = b + 3 + s
  <2>1. bs[b].size \in 0 .. Words /\ Ends(bs, b) = b + 3 + bs[b].size
    BY BlockIs
  <2>2. bs[b].size \in Nat
    BY <2>1, HeapSize
  <2> QED
    BY <1>1, <2>1, <2>2
<1>3. p = b + 3 /\ p \in Nat
  BY <1>1 DEF Header
<1>4. u <= s
  BY <1>2
<1>5. p + u <= e
  <2>1. e = b + 3 + s
    BY <1>2
  <2> QED
    BY <1>1, <1>3, <1>4, <2>1
<1>6. p + u <= Words
  BY <1>1, <1>3, <1>5, HeapSize
<1>7. ASSUME NEW q \in DOMAIN as, NEW i \in 0 .. as[q] - 1
      PROVE  q + i \notin p .. p + u - 1
  <2>1. q # b + Header
    OBVIOUS
  <2>2. q + i \in Addr /\ (q + i < b \/ Ends(bs, b) <= q + i)
    BY <2>1, OthersApart
  <2>3. PICK w \in Nat : w = q + i /\ (w < b \/ e <= w)
    BY <1>1, <2>2, HeapSize
  <2>4. w \notin p .. p + u - 1
    BY <1>1, <1>3, <1>5, <2>3
  <2> QED
    BY <2>3, <2>4
<1>8. DOMAIN na = DOMAIN as \cup {p} /\ na[p] = u /\ \A q \in DOMAIN as : na[q] = as[q]
  BY DEF Granted
<1>9. [i \in 0 .. na[p] - 1 |-> nd[p + i]] = [i \in 0 .. u - 1 |-> c]
  <2>1. ASSUME NEW i \in 0 .. u - 1 PROVE nd[p + i] = c
    <3>1. i \in 0 .. need - 1 /\ i \in Nat /\ i < u
      OBVIOUS
    <3>2. p + i \in Nat /\ p + i < p + u
      BY <1>3, <3>1
    <3>3. p + i \in Addr
      BY <1>3, <1>6, <3>2, HeapSize
    <3> QED
      BY <3>1, <3>3
  <2> QED
    BY <1>8, <2>1
<1>10. ASSUME NEW q \in DOMAIN as
       PROVE  [i \in 0 .. na[q] - 1 |-> nd[q + i]] = [i \in 0 .. as[q] - 1 |-> d[q + i]]
  <2>1. q # b + Header
    OBVIOUS
  <2>2. ASSUME NEW i \in 0 .. as[q] - 1 PROVE nd[q + i] = d[q + i]
    <3>1. q + i \in Addr /\ (q + i < b \/ Ends(bs, b) <= q + i)
      BY <2>1, OthersApart
    <3> QED
      BY <3>1 DEF Kept
  <2>3. [i \in 0 .. as[q] - 1 |-> nd[q + i]] = [i \in 0 .. as[q] - 1 |-> d[q + i]]
    BY <2>2
  <2> QED
    BY <1>8, <2>3
<1>11. \A q \in DOMAIN as : LiveOf(as, d)[q] = [i \in 0 .. as[q] - 1 |-> d[q + i]]
  BY DEF LiveOf
<1>12. ASSUME NEW q \in DOMAIN as \cup {p}
       PROVE  [i \in 0 .. na[q] - 1 |-> nd[q + i]]
                = IF q = p THEN [i \in 0 .. u - 1 |-> c] ELSE LiveOf(as, d)[q]
  <2>1. CASE q = p
    BY <1>9, <2>1
  <2>2. CASE q # p
    <3>1. q \in DOMAIN as
      BY <2>2
    <3> QED
      BY <1>10, <1>11, <2>2, <3>1
  <2> QED
    BY <2>1, <2>2
<1>13. LiveOf(na, nd) = [q \in DOMAIN as \cup {p} |-> [i \in 0 .. na[q] - 1 |-> nd[q + i]]]
  <2>1. DOMAIN na = DOMAIN as \cup {p}
    BY <1>8
  <2> QED
    BY <2>1 DEF LiveOf
<1>14. LiveOf(na, nd) = [q \in DOMAIN as \cup {p} |->
                           IF q = p THEN [i \in 0 .. u - 1 |-> c] ELSE LiveOf(as, d)[q]]
  BY <1>12, <1>13, ZenonT(30)
<1>15. DOMAIN LiveOf(as, d) = DOMAIN as
  BY DEF LiveOf
<1>16. LiveOf(na, nd) = LiveWith(LiveOf(as, d), p, u, c)
  BY <1>14, <1>15 DEF LiveWith
<1> QED
  BY <1>6, <1>7, <1>16

\* What is given back is gone, and the rest is as it was.
LEMMA LiveAfterFree ==
    ASSUME NEW bs, Layout(bs), NEW as, OwnedIn(bs, as), NEW b \in DOMAIN bs,
           NEW d, NEW nd, Kept(d, nd, b, Ends(bs, b)),
           NEW p, p = b + Header,
           NEW na, na = LiveWithout(as, p)
    PROVE  LiveOf(na, nd) = LiveWithout(LiveOf(as, d), p)
<1>1. DOMAIN na = DOMAIN as \ {p} /\ \A q \in DOMAIN as \ {p} : na[q] = as[q]
  BY DEF LiveWithout
<1>2. ASSUME NEW q \in DOMAIN as \ {p}
      PROVE  [i \in 0 .. na[q] - 1 |-> nd[q + i]] = LiveOf(as, d)[q]
  <2>1. q \in DOMAIN as /\ q # b + Header
    OBVIOUS
  <2>4. ASSUME NEW i \in 0 .. as[q] - 1 PROVE nd[q + i] = d[q + i]
    <3>1. q + i \in Addr /\ (q + i < b \/ Ends(bs, b) <= q + i)
      BY <2>1, OthersApart
    <3> QED
      BY <3>1 DEF Kept
  <2>2. [i \in 0 .. as[q] - 1 |-> nd[q + i]] = [i \in 0 .. as[q] - 1 |-> d[q + i]]
    BY <2>4
  <2>3. LiveOf(as, d)[q] = [i \in 0 .. as[q] - 1 |-> d[q + i]]
    BY <2>1 DEF LiveOf
  <2> QED
    BY <1>1, <2>2, <2>3
<1>3. LiveOf(na, nd) = [q \in DOMAIN as \ {p} |-> [i \in 0 .. na[q] - 1 |-> nd[q + i]]]
  BY <1>1 DEF LiveOf
<1>4. DOMAIN LiveOf(as, d) = DOMAIN as
  BY DEF LiveOf
<1> QED
  <2>1. LiveOf(na, nd) = [q \in DOMAIN as \ {p} |-> LiveOf(as, d)[q]]
    BY <1>2, <1>3, ZenonT(30)
  <2> QED
    BY <1>4, <2>1 DEF LiveWithout

\* A call of my_calloc is a grant or a refusal,
LEMMA CallocGrants ==
    ASSUME HeapInv, NEW nmemb \in Nmemb, NEW size \in Sizes, NEW c \in Fill, Calloc(nmemb, size, c)
    PROVE  Callers!Next
<1>1. nmemb \in Nat /\ size \in Nat
  BY HeapAssumption
<1>2. PICK need : need = Reserve(nmemb, size)
  OBVIOUS
<1>3. PICK b : b = Search(need)
  OBVIOUS
<1>4. CASE ret' = Null /\ UNCHANGED <<block, last, data, asked>>
  <2>1. Callers!Refuse
    BY <1>4 DEF Callers!Refuse
  <2> QED
    BY <2>1 DEF Callers!Next
<1>5. CASE /\ b # Null
           /\ IF TooSmallToSplit(b, need) THEN TakeWhole(b, c) ELSE Split(b, need, c)
           /\ last' = b
           /\ ret' = b + Header
           /\ asked' = [p \in DOMAIN asked \cup {ret'} |->
                         IF p = ret' THEN Usable(nmemb, size) ELSE asked[p]]
  <2>1. PICK p : p = b + Header
    OBVIOUS
  <2>2. PICK u : u = Usable(nmemb, size)
    OBVIOUS
  <2>3. ret' = p /\ asked' = Granted(asked, p, u)
    BY <1>5, <2>1, <2>2 DEF Granted
  <2>4. b # Null /\ IF TooSmallToSplit(b, need) THEN TakeWhole(b, c) ELSE Split(b, need, c)
    BY <1>5
  <2>5. p \notin DOMAIN asked /\ u \in Nat /\ u <= need /\ p \in 0 .. Words
    BY <1>1, <1>2, <1>3, <2>1, <2>2, <2>3, <2>4, CallocOwns
  <2>6. b \in DOMAIN block /\ need \in Nat /\ block[b].size >= need
    BY <1>1, <1>2, <1>3, <2>4, CallocTakes
  <2>7. /\ Kept(data, data', b, Ends(block, b))
        /\ \A i \in 0 .. need - 1 : b + Header + i \in Addr => data'[b + Header + i] = c
    BY <2>4, <2>6, CallocFills
  <2>8. Layout(block) /\ OwnedIn(block, asked)
    BY DEF HeapInv
  <2>9. need <= block[b].size
    <3>1. PICK s \in Nat : s = block[b].size
      BY <2>6, <2>8, BlockIs, HeapSize
    <3> QED
      BY <2>6, <3>1
  <2>10. /\ p + u <= Words
         /\ \A q \in DOMAIN asked : \A i \in 0 .. asked[q] - 1 : q + i \notin p .. p + u - 1
         /\ LiveOf(asked', data') = LiveWith(LiveOf(asked, data), p, u, c)
    BY <2>1, <2>3, <2>5, <2>6, <2>7, <2>8, <2>9, LiveAfterCalloc
  <2>11. Callers!Grant(p, u, c)
    <3>1. DOMAIN LiveOf(asked, data) = DOMAIN asked
          /\ \A q \in DOMAIN asked : DOMAIN LiveOf(asked, data)[q] = 0 .. asked[q] - 1
      BY DEF LiveOf
    <3>2. \A q \in DOMAIN LiveOf(asked, data) : \A i \in DOMAIN LiveOf(asked, data)[q] :
             q + i \notin p .. p + u - 1
      BY <2>10, <3>1
    <3>3. Callers!Disjoint(p, u)
      BY <3>2 DEF Callers!Disjoint, Callers!Extent, LiveOf
    <3>4. LiveOf(asked', data') = [q \in DOMAIN LiveOf(asked, data) \cup {p} |->
                IF q = p THEN [i \in 0 .. u - 1 |-> c] ELSE LiveOf(asked, data)[q]]
      BY <2>10 DEF LiveWith
    <3>5. p \notin DOMAIN LiveOf(asked, data)
      BY <2>5, <3>1
    <3> QED
      BY <2>3, <2>10, <3>3, <3>4, <3>5 DEF Callers!Grant, LiveOf
  <2>12. u = Callers!WordsFor(nmemb * size)
    BY <2>2 DEF Usable, Callers!WordsFor
  <2> QED
    BY <2>5, <2>11, <2>12 DEF Callers!Next
<1> QED
  BY <1>2, <1>3, <1>4, <1>5 DEF Calloc

\* and a call of my_free the end of a grant.
LEMMA FreeEndsGrant ==
    ASSUME HeapInv, NEW p \in DOMAIN asked, Free(p)
    PROVE  Callers!Next
<1>1. PICK b : b = p - Header
  OBVIOUS
<1>2. b \in DOMAIN block /\ p = b + Header
  BY <1>1, FreeTakes
<1>3. Kept(data, data', b, Ends(block, b))
  BY <1>1, FreeWipes
<1>4. Layout(block) /\ OwnedIn(block, asked)
  BY DEF HeapInv
<1>5. asked' = LiveWithout(asked, p) /\ ret' = Null
  BY DEF Free, Return, LiveWithout
<1>6. LiveOf(asked', data') = LiveWithout(LiveOf(asked, data), p)
  BY <1>2, <1>3, <1>4, <1>5, LiveAfterFree
<1>7. DOMAIN LiveOf(asked, data) = DOMAIN asked
  BY DEF LiveOf
<1>8. LiveOf(asked', data') = [q \in DOMAIN LiveOf(asked, data) \ {p} |-> LiveOf(asked, data)[q]]
  BY <1>6 DEF LiveWithout
<1>9. Callers!Free(p)
  BY <1>5, <1>8 DEF Callers!Free, LiveOf
<1> QED
  BY <1>7, <1>9 DEF Callers!Next, LiveOf

\* What a caller has got from my_calloc is his alone until he gives it back:
\* filled as he asked, apart from what the others hold, and changed by
\* nobody's call.
THEOREM MemoryIsOwn == HeapSpec => ImplementsAllocator
<1>1. HeapInit => Callers!Init
  BY DEF HeapInit, Callers!Init
<1>2. ASSUME HeapInv, [HeapNext]_heapVars PROVE [Callers!Next]_<<LiveOf(asked, data), ret>>
  <2>1. ASSUME NEW nmemb \in Nmemb, NEW size \in Sizes, NEW c \in Fill, Calloc(nmemb, size, c)
        PROVE  Callers!Next
    BY <1>2, <2>1, CallocGrants
  <2>2. ASSUME NEW p \in DOMAIN asked, Free(p) PROVE Callers!Next
    BY <1>2, <2>2, FreeEndsGrant
  <2>3. CASE UNCHANGED heapVars
    BY <2>3 DEF heapVars, LiveOf
  <2> QED
    BY <1>2, <2>1, <2>2, <2>3 DEF HeapNext
<1> QED
  BY <1>1, <1>2, HeapInvariant, PTL DEF HeapSpec, ImplementsAllocator, Callers!Spec, LiveOf
-----------------------------------------------------------------------------
(* The memory management unit: every number of processes and pages, every  *)
(* page size and every content of the page tables.                         *)

\* Quotient and remainder of an address determine it.
LEMMA DivMod ==
    ASSUME NEW a \in Nat, NEW d \in Nat \ {0}
    PROVE  /\ a \div d \in Nat /\ a % d \in 0 .. d - 1
           /\ a = d * (a \div d) + (a % d)
BY SMT

\* Products grow with their factors.
LEMMA TimesMonotone ==
    ASSUME NEW a \in Nat, NEW b \in Nat, NEW d \in Nat, a <= b
    PROVE  d * a <= d * b /\ d * a \in Nat /\ d * b \in Nat
BY SMT

\* A frame and an offset inside a page make an address of that frame.
LEMMA FrameOfAddress ==
    ASSUME NEW f \in Nat, NEW o \in Nat, NEW d \in Nat \ {0}, o < d
    PROVE  (f * d + o) \div d = f
BY SMT

\* An address below n pages is in one of them.
LEMMA PageBelow ==
    ASSUME NEW a \in Nat, NEW n \in Nat, NEW d \in Nat \ {0}, a < n * d
    PROVE  a \div d < n
BY SMT
-----------------------------------------------------------------------------
\* The table a request goes to, and the entry it names there.
Base(r) == SwitchProcess(r.p_num)
Index(r) == Base(r) + (r.addr \div PageSize)

\* The bits of an entry never contradict each other.
BitsOK(e) == e.modified => e.accessed /\ "WRITE" \in e.perm

MmuInv ==
    /\ pte \in [Entry -> PageTableEntry]
    /\ \A i \in Entry : BitsOK(pte[i])

\* The parts of a request, and the sizes as numbers.
LEMMA RequestTyped ==
    ASSUME NEW r \in Request
    PROVE  /\ r.p_num \in Nat /\ r.p_num <= ProcNum /\ r.addr \in Nat
           /\ r.addr < VirtualPages * PageSize /\ r.type \in Right
           /\ VirtualPages \in Nat /\ PageSize \in Nat \ {0} /\ PtAmount \in Nat \ {0}
           /\ ProcNum \in Nat \ {0} /\ VirtualPages * PageSize \in Nat
<1>1. /\ VirtualPages \in Nat /\ PageSize \in Nat \ {0} /\ PtAmount \in Nat \ {0}
      /\ ProcNum \in Nat \ {0}
  BY MmuAssumption
<1>2. VirtualPages * PageSize \in Nat
  BY <1>1, TimesMonotone
<1> QED
  BY <1>1, <1>2 DEF Request

\* Whatever page a process names, the entry lies in the memory.
LEMMA IndexInMemory ==
    ASSUME NEW r \in Request, r.p_num < ProcNum
    PROVE  Index(r) \in Entry /\ Base(r) = r.p_num * PtAmount
<1>1. /\ r.p_num \in Nat /\ r.addr \in Nat /\ r.addr < VirtualPages * PageSize
      /\ VirtualPages \in Nat /\ PageSize \in Nat \ {0} /\ PtAmount \in Nat \ {0}
      /\ ProcNum \in Nat \ {0}
  BY RequestTyped
<1>2. r.addr \div PageSize < VirtualPages /\ r.addr \div PageSize \in Nat
  BY <1>1, PageBelow, DivMod
<1>3. /\ PtAmount * r.p_num <= PtAmount * (ProcNum - 1)
      /\ PtAmount * r.p_num \in Nat /\ PtAmount * (ProcNum - 1) \in Nat
  BY <1>1, TimesMonotone
<1>4. r.p_num * PtAmount = PtAmount * r.p_num /\ (ProcNum - 1) * PtAmount = PtAmount * (ProcNum - 1)
  BY <1>1
<1>5. Base(r) = r.p_num * PtAmount
  BY DEF Base, SwitchProcess
<1> QED
  BY <1>1, <1>2, <1>3, <1>4, <1>5 DEF Index, Entry

\* What a granted request does to the entry it uses.
LEMMA MarkedTyped ==
    ASSUME NEW e \in PageTableEntry, NEW t \in Right, Allows(e, t), BitsOK(e)
    PROVE  /\ Marked(e, t) \in PageTableEntry /\ BitsOK(Marked(e, t))
           /\ BitsTellUse(e, Marked(e, t))
BY DEF PageTableEntry, Allows, Marked, BitsOK, BitsTellUse

\* The two outcomes of a request.
LEMMA CheckCases ==
    ASSUME NEW r \in Request, CheckRequest(r)
    PROVE  /\ request' = r /\ ptbr' = Base(r)
           /\ \/ /\ r.p_num < ProcNum /\ Allows(pte[Index(r)], r.type)
                 /\ pte' = [pte EXCEPT ![Index(r)] = Marked(@, r.type)]
                 /\ granted' = pte[Index(r)].page * PageSize + (r.addr % PageSize)
              \/ granted' = MY_NULL /\ pte' = pte
BY DEF CheckRequest, Base, Index

\* The memory keeps its form.
LEMMA MmuStep ==
    ASSUME MmuInv, NEW r \in Request, CheckRequest(r)
    PROVE  MmuInv' /\ \A i \in Entry : BitsTellUse(pte[i], pte'[i])
<1>1. CASE pte' = pte
  BY <1>1 DEF MmuInv, BitsTellUse, BitsOK
<1>2. CASE /\ r.p_num < ProcNum /\ Allows(pte[Index(r)], r.type)
           /\ pte' = [pte EXCEPT ![Index(r)] = Marked(@, r.type)]
  <2>1. Index(r) \in Entry /\ r.type \in Right
    BY <1>2, IndexInMemory, RequestTyped
  <2>2. /\ Marked(pte[Index(r)], r.type) \in PageTableEntry
        /\ BitsOK(Marked(pte[Index(r)], r.type))
        /\ BitsTellUse(pte[Index(r)], Marked(pte[Index(r)], r.type))
    BY <1>2, <2>1, MarkedTyped DEF MmuInv
  <2> HIDE DEF Index
  <2>3. \A i \in Entry : pte'[i] = IF i = Index(r) THEN Marked(pte[Index(r)], r.type) ELSE pte[i]
    BY <1>2, <2>1 DEF MmuInv
  <2>4. pte' \in [Entry -> PageTableEntry]
    BY <1>2, <2>1, <2>2 DEF MmuInv
  <2>5. \A i \in Entry : BitsTellUse(pte[i], pte[i])
    BY DEF MmuInv, BitsTellUse, BitsOK
  <2>6. \A i \in Entry : BitsOK(pte'[i]) /\ BitsTellUse(pte[i], pte'[i])
    BY <2>2, <2>3, <2>5 DEF MmuInv
  <2> QED
    BY <2>4, <2>6 DEF MmuInv
<1> QED
  BY <1>1, <1>2, CheckCases

\* A process inside its own pages uses an entry of its own table.
LEMMA IndexIsOwn ==
    ASSUME NEW r \in Request, InOwnPages(r)
    PROVE  Index(r) \in OwnEntries(r.p_num)
<1>1. /\ r.p_num \in Nat /\ r.p_num < ProcNum /\ r.addr \in Nat
      /\ PageSize \in Nat \ {0} /\ PtAmount \in Nat \ {0}
      /\ r.addr < PtAmount * PageSize
  BY RequestTyped DEF InOwnPages
<1>2. r.addr \div PageSize < PtAmount /\ r.addr \div PageSize \in Nat
  BY <1>1, PageBelow, DivMod
<1>3. r.p_num * PtAmount \in Nat /\ (r.p_num + 1) * PtAmount = r.p_num * PtAmount + PtAmount
  BY <1>1, SMT
<1>4. Base(r) = r.p_num * PtAmount
  BY <1>1, IndexInMemory
<1> QED
  BY <1>1, <1>2, <1>3, <1>4 DEF Index, OwnEntries

\* Such a request disturbs no other process, and is given an address in a
\* frame of its own.
LEMMA OwnTableStep ==
    ASSUME MmuInv, NEW r \in Request, CheckRequest(r), InOwnPages(r)
    PROVE  /\ \A i \in Entry \ OwnEntries(r.p_num) : pte'[i] = pte[i]
           /\ granted' # MY_NULL =>
                \E i \in OwnEntries(r.p_num) : granted' \div PageSize = pte[i].page
<1>1. CASE granted' = MY_NULL /\ pte' = pte
  BY <1>1
<1>2. CASE /\ r.p_num < ProcNum
           /\ pte' = [pte EXCEPT ![Index(r)] = Marked(@, r.type)]
           /\ granted' = pte[Index(r)].page * PageSize + (r.addr % PageSize)
  <2>1. Index(r) \in OwnEntries(r.p_num) /\ Index(r) \in Entry
    BY <1>2, IndexIsOwn, IndexInMemory
  <2>2. \A i \in Entry \ OwnEntries(r.p_num) : pte'[i] = pte[i]
    BY <1>2, <2>1 DEF MmuInv
  <2>3. pte[Index(r)].page \in Nat
    BY <2>1 DEF MmuInv, PageTableEntry, Frame
  <2>4. r.addr % PageSize \in Nat /\ r.addr % PageSize < PageSize /\ PageSize \in Nat \ {0}
    <3>1. r.addr \in Nat /\ PageSize \in Nat \ {0}
      BY RequestTyped
    <3>2. r.addr % PageSize \in 0 .. PageSize - 1
      BY <3>1, DivMod
    <3> QED
      BY <3>1, <3>2
  <2>5. granted' \div PageSize = pte[Index(r)].page
    BY <1>2, <2>3, <2>4, FrameOfAddress
  <2> QED
    BY <2>1, <2>2, <2>5
<1> QED
  BY <1>1, <1>2, CheckCases
-----------------------------------------------------------------------------
\* The page tables stay well formed: no page counts as modified that has
\* not been accessed, or that may not be written.
THEOREM MmuInvariant == MmuSpec => []MmuInv
<1>1. MmuInit => MmuInv
  BY MmuAssumption DEF MmuInit, MmuInv, BitsOK
<1>2. MmuInv /\ [MmuNext]_mmuVars => MmuInv'
  <2> SUFFICES ASSUME MmuInv, [MmuNext]_mmuVars PROVE MmuInv'
    OBVIOUS
  <2>1. CASE UNCHANGED mmuVars
    BY <2>1 DEF mmuVars, MmuInv, BitsOK
  <2> QED
    BY <2>1, MmuStep DEF MmuNext
<1> QED
  BY <1>1, <1>2, PTL DEF MmuSpec

\* mmu_check_request keeps processes apart that stay inside their own pages,
\* whatever the page table base register held, and no request of anybody
\* clears a bit (mmu.c:33-57, mmu_translate and mmu_check_request).
THEOREM ProcessesKeptApart == MmuSpec => KeepsToOwnTable
<1>1. ASSUME MmuInv, [MmuNext]_mmuVars
      PROVE  [/\ \A i \in Entry : BitsTellUse(pte[i], pte'[i])
              /\ InOwnPages(request') =>
                   /\ \A i \in Entry \ OwnEntries(request'.p_num) : pte'[i] = pte[i]
                   /\ granted' # MY_NULL =>
                        \E i \in OwnEntries(request'.p_num) :
                            granted' \div PageSize = pte[i].page]_mmuVars
  <2>1. ASSUME NEW r \in Request, CheckRequest(r)
        PROVE  /\ \A i \in Entry : BitsTellUse(pte[i], pte'[i])
               /\ InOwnPages(request') =>
                    /\ \A i \in Entry \ OwnEntries(request'.p_num) : pte'[i] = pte[i]
                    /\ granted' # MY_NULL =>
                         \E i \in OwnEntries(request'.p_num) :
                             granted' \div PageSize = pte[i].page
    <3>1. request' = r
      BY <2>1, CheckCases
    <3> QED
      BY <1>1, <2>1, <3>1, MmuStep, OwnTableStep
  <2> QED
    BY <1>1, <2>1 DEF MmuNext
<1> QED
  BY <1>1, MmuInvariant, PTL DEF MmuSpec, KeepsToOwnTable
-----------------------------------------------------------------------------
(* The packets: every base of the bytes, and every packet whose fields fit  *)
(* into their types.                                                       *)

\* The number without its last byte, and that byte.
LEMMA Below ==
    ASSUME NEW x \in Nat, NEW k \in Nat, x < ByteBase * k
    PROVE  High(x) \in Nat /\ High(x) < k /\ Low(x) \in Octet /\ High(x) * ByteBase + Low(x) = x
<1>1. ByteBase \in Nat /\ ByteBase > 1
  BY CodecAssumption
<1>2. x \div ByteBase \in Nat /\ x % ByteBase \in 0 .. ByteBase - 1
        /\ x = ByteBase * (x \div ByteBase) + (x % ByteBase)
  <2>1. ByteBase \in Nat \ {0}
    BY <1>1
  <2> QED BY <2>1, DivMod
<1>3. ASSUME NEW q \in Nat, NEW r \in Nat, x = ByteBase * q + r
      PROVE  q < k /\ q * ByteBase + r = x
  <2>1. q * ByteBase + r = x
    BY <1>1, <1>3
  <2>2. ASSUME q >= k PROVE FALSE
    <3>1. ByteBase * q = ByteBase * k + ByteBase * (q - k)
      BY <1>1
    <3>2. ByteBase * (q - k) >= 0
      BY <1>1, <2>2
    <3> QED BY <1>1, <1>3, <3>1, <3>2
  <2> QED BY <2>1, <2>2
<1> QED BY <1>1, <1>2, <1>3 DEF High, Low, Octet

\* A byte is its own last byte.
LEMMA LowIs ==
    ASSUME NEW x \in Octet
    PROVE  Low(x) = x
BY CodecAssumption DEF Low, Octet

\* Two bytes say every number of 16 bits.
LEMMA TwoIs ==
    ASSUME NEW x \in 0 .. Word16 - 1
    PROVE  /\ TwoBytes(x) \in Seq(Octet) /\ Len(TwoBytes(x)) = 2
           /\ TwoBytes(x)[1] \in Octet /\ TwoBytes(x)[2] \in Octet
           /\ TwoBytes(x)[1] * ByteBase + TwoBytes(x)[2] = x
<1>1. ByteBase \in Nat /\ x \in Nat /\ x < ByteBase * ByteBase
  BY CodecAssumption DEF Word16
<1>2. High(x) \in Octet /\ Low(x) \in Octet /\ High(x) * ByteBase + Low(x) = x
  BY <1>1, Below DEF Octet
<1>3. Low(High(x)) = High(x)
  BY <1>2, LowIs
<1> QED BY <1>2, <1>3 DEF TwoBytes

\* Four bytes say every number of 32 bits.
LEMMA FourIs ==
    ASSUME NEW x \in 0 .. Word32 - 1
    PROVE  /\ FourBytes(x) \in Seq(Octet) /\ Len(FourBytes(x)) = 4
           /\ \A i \in 1 .. 4 : FourBytes(x)[i] \in Octet
           /\ Four(FourBytes(x), 1) = x
<1> DEFINE y == High(x)  z == High(y)  w == High(z)
<1>1. ByteBase \in Nat /\ ByteBase > 1 /\ x \in Nat
        /\ x < ByteBase * (ByteBase * (ByteBase * ByteBase))
  BY CodecAssumption DEF Word16, Word32
<1>2. y \in Nat /\ y < ByteBase * (ByteBase * ByteBase) /\ Low(x) \in Octet
        /\ y * ByteBase + Low(x) = x
  <2>1. ByteBase * (ByteBase * ByteBase) \in Nat
    BY <1>1
  <2> QED BY <1>1, <2>1, Below
<1>3. z \in Nat /\ z < ByteBase * ByteBase /\ Low(y) \in Octet /\ z * ByteBase + Low(y) = y
  <2>1. ByteBase * ByteBase \in Nat
    BY <1>1
  <2> HIDE DEF y
  <2> QED BY <1>2, <2>1, Below
<1>4. w \in Octet /\ Low(z) \in Octet /\ w * ByteBase + Low(z) = z
  <2> HIDE DEF z
  <2>1. High(z) \in Nat /\ High(z) < ByteBase /\ Low(z) \in Octet /\ High(z) * ByteBase + Low(z) = z
    BY <1>1, <1>3, Below
  <2> QED BY <1>1, <2>1 DEF Octet
<1>5. Low(w) = w
  BY <1>4, LowIs
<1>6. FourBytes(x) = <<w, Low(z), Low(y), Low(x)>>
  BY <1>5 DEF FourBytes
<1>7. ASSUME NEW a \in Nat, NEW c \in Nat, NEW d \in Nat
      PROVE  a * (ByteBase * ByteBase) + (c * ByteBase + d) = (a * ByteBase + c) * ByteBase + d
  BY <1>1
<1>8. Four(FourBytes(x), 1) = (w * ByteBase + Low(z)) * Word16 + (Low(y) * ByteBase + Low(x))
  BY <1>6 DEF Four, Two
<1> HIDE DEF y, z, w
<1>9. w \in Nat /\ Low(z) \in Nat /\ Low(y) \in Nat /\ Low(x) \in Nat
  BY <1>1, <1>2, <1>3, <1>4 DEF Octet
<1>10. Four(FourBytes(x), 1) = x
  <2>1. w * ByteBase + Low(z) = z /\ z * ByteBase + Low(y) = y /\ y * ByteBase + Low(x) = x
    BY <1>2, <1>3, <1>4
  <2>2. y \in Nat /\ z \in Nat
    BY <1>2, <1>3
  <2>3. z * (ByteBase * ByteBase) + (Low(y) * ByteBase + Low(x)) = (z * ByteBase + Low(y)) * ByteBase + Low(x)
    BY <1>7, <1>9, <2>2
  <2> QED BY <1>8, <2>1, <2>3, Zenon DEF Word16
<1> QED BY <1>2, <1>3, <1>4, <1>6, <1>10

\* What stands where when bytes are appended to bytes.
LEMMA Appended ==
    ASSUME NEW s \in Seq(Octet), NEW t \in Seq(Octet)
    PROVE  /\ s \o t \in Seq(Octet) /\ Len(s \o t) = Len(s) + Len(t)
           /\ \A i \in 1 .. Len(s) : (s \o t)[i] = s[i]
           /\ \A i \in 1 .. Len(t) : (s \o t)[Len(s) + i] = t[i]
OBVIOUS

\* A number of 16 bits that is appended can be read there, and nothing before
\* it changes.
LEMMA TwoJoined ==
    ASSUME NEW s \in Seq(Octet), NEW x \in 0 .. Word16 - 1
    PROVE  /\ s \o TwoBytes(x) \in Seq(Octet) /\ Len(s \o TwoBytes(x)) = Len(s) + 2
           /\ \A i \in 1 .. Len(s) : (s \o TwoBytes(x))[i] = s[i]
           /\ Two(s \o TwoBytes(x), Len(s) + 1) = x
<1>1. PICK t \in Seq(Octet) : t = TwoBytes(x) /\ Len(t) = 2 /\ t[1] * ByteBase + t[2] = x
  BY TwoIs, Zenon
<1>2. PICK u \in Seq(Octet) : u = s \o t
  BY <1>1, Appended, Zenon
<1>3. /\ Len(u) = Len(s) + Len(t) /\ \A i \in 1 .. Len(s) : u[i] = s[i]
      /\ \A i \in 1 .. Len(t) : u[Len(s) + i] = t[i]
  <2>1. /\ Len(s \o t) = Len(s) + Len(t) /\ \A i \in 1 .. Len(s) : (s \o t)[i] = s[i]
        /\ \A i \in 1 .. Len(t) : (s \o t)[Len(s) + i] = t[i]
    BY Appended, Zenon
  <2> QED BY <1>2, <2>1, Zenon
<1>4. u[Len(s) + 1] = t[1] /\ u[Len(s) + 1 + 1] = t[2]
  <2>1. u[Len(s) + 1] = t[1] /\ u[Len(s) + 2] = t[2]
    BY <1>1, <1>3
  <2>2. Len(s) + 1 + 1 = Len(s) + 2
    <3>1. Len(s) \in Nat
      BY LenProperties
    <3> QED BY <3>1
  <2> QED BY <2>1, <2>2, Zenon
<1>5. Two(u, Len(s) + 1) = x
  BY <1>1, <1>4, Zenon DEF Two
<1>6. Len(u) = Len(s) + 2
  BY <1>1, <1>3
<1> QED BY <1>1, <1>2, <1>3, <1>5, <1>6, Zenon

\* The same for a number of 32 bits.
LEMMA FourJoined ==
    ASSUME NEW s \in Seq(Octet), NEW x \in 0 .. Word32 - 1
    PROVE  /\ s \o FourBytes(x) \in Seq(Octet) /\ Len(s \o FourBytes(x)) = Len(s) + 4
           /\ \A i \in 1 .. Len(s) : (s \o FourBytes(x))[i] = s[i]
           /\ Four(s \o FourBytes(x), Len(s) + 1) = x
<1>1. PICK t \in Seq(Octet) : t = FourBytes(x) /\ Len(t) = 4 /\ Four(t, 1) = x
  BY FourIs, Zenon
<1>2. PICK u \in Seq(Octet) : u = s \o t
  BY <1>1, Appended, Zenon
<1>3. /\ Len(u) = Len(s) + Len(t) /\ \A i \in 1 .. Len(s) : u[i] = s[i]
      /\ \A i \in 1 .. Len(t) : u[Len(s) + i] = t[i]
  <2>1. /\ Len(s \o t) = Len(s) + Len(t) /\ \A i \in 1 .. Len(s) : (s \o t)[i] = s[i]
        /\ \A i \in 1 .. Len(t) : (s \o t)[Len(s) + i] = t[i]
    BY Appended, Zenon
  <2> QED BY <1>2, <2>1, Zenon
<1>4. /\ u[Len(s) + 1] = t[1] /\ u[Len(s) + 1 + 1] = t[1 + 1]
      /\ u[Len(s) + 1 + 2] = t[1 + 2] /\ u[Len(s) + 1 + 2 + 1] = t[1 + 2 + 1]
  <2>1. u[Len(s) + 1] = t[1] /\ u[Len(s) + 2] = t[2] /\ u[Len(s) + 3] = t[3] /\ u[Len(s) + 4] = t[4]
    BY <1>1, <1>3
  <2>2. /\ Len(s) + 1 + 1 = Len(s) + 2 /\ Len(s) + 1 + 2 = Len(s) + 3
        /\ Len(s) + 1 + 2 + 1 = Len(s) + 4 /\ 1 + 1 = 2 /\ 1 + 2 = 3 /\ 1 + 2 + 1 = 4
    <3>1. Len(s) \in Nat
      BY LenProperties
    <3> QED BY <3>1
  <2> QED BY <2>1, <2>2, Zenon
<1>5. Four(u, Len(s) + 1) = Four(t, 1)
  BY <1>4, Zenon DEF Four, Two
<1>6. Len(u) = Len(s) + 4
  BY <1>1, <1>3
<1> QED BY <1>1, <1>2, <1>3, <1>5, <1>6, Zenon

\* The flags alone.
LEMMA FlagIs ==
    ASSUME NEW f \in Octet
    PROVE  <<f>> \in Seq(Octet) /\ Len(<<f>>) = 1 /\ <<f>>[1] = f
OBVIOUS

\* All 11 bytes of a control packet are decoded to the packet.
LEMMA CtrlDecoded ==
    ASSUME NEW p \in Packets, p.ctrl
    PROVE  /\ Serialize(p) \in Seq(Octet) /\ Len(Serialize(p)) = 11
           /\ Serialize(p)[1] = ByteBase - 1
           /\ Body(Serialize(p)) = p
<1>1. /\ p = CtrlPacket(p.hash_id, p.node_id, p.node_ip, p.node_port)
      /\ p.hash_id \in 0 .. Word16 - 1 /\ p.node_id \in 0 .. Word16 - 1
      /\ p.node_port \in 0 .. Word16 - 1 /\ p.node_ip \in 0 .. Word32 - 1
  BY CodecAssumption
<1> DEFINE s1 == <<ByteBase - 1>>
           s2 == s1 \o TwoBytes(p.hash_id)
           s3 == s2 \o TwoBytes(p.node_id)
           s4 == s3 \o FourBytes(p.node_ip)
           s5 == s4 \o TwoBytes(p.node_port)
<1>2. Serialize(p) = s5
  BY DEF Serialize
<1>3. s1 \in Seq(Octet) /\ Len(s1) = 1 /\ s1[1] = ByteBase - 1
  BY CodecAssumption, FlagIs DEF Octet
<1> HIDE DEF s1
<1>4. s2 \in Seq(Octet) /\ Len(s2) = 3 /\ (\A i \in 1 .. 1 : s2[i] = s1[i]) /\ Two(s2, 2) = p.hash_id
  <2>1. /\ s2 \in Seq(Octet) /\ Len(s2) = Len(s1) + 2
        /\ \A i \in 1 .. Len(s1) : s2[i] = s1[i]
        /\ Two(s2, Len(s1) + 1) = p.hash_id
    BY <1>1, <1>3, TwoJoined, Zenon
  <2>2. Len(s1) + 1 = 2 /\ Len(s1) + 2 = 3
    BY <1>3
  <2> QED BY <1>3, <2>1, <2>2, Zenon
<1> HIDE DEF s2
<1>5. s3 \in Seq(Octet) /\ Len(s3) = 5 /\ (\A i \in 1 .. 3 : s3[i] = s2[i]) /\ Two(s3, 4) = p.node_id
  <2>1. /\ s3 \in Seq(Octet) /\ Len(s3) = Len(s2) + 2
        /\ \A i \in 1 .. Len(s2) : s3[i] = s2[i]
        /\ Two(s3, Len(s2) + 1) = p.node_id
    BY <1>1, <1>4, TwoJoined, Zenon
  <2>2. Len(s2) + 1 = 4 /\ Len(s2) + 2 = 5
    BY <1>4
  <2> QED BY <1>4, <2>1, <2>2, Zenon
<1> HIDE DEF s3
<1>6. s4 \in Seq(Octet) /\ Len(s4) = 9 /\ (\A i \in 1 .. 5 : s4[i] = s3[i]) /\ Four(s4, 6) = p.node_ip
  <2>1. /\ s4 \in Seq(Octet) /\ Len(s4) = Len(s3) + 4
        /\ \A i \in 1 .. Len(s3) : s4[i] = s3[i]
        /\ Four(s4, Len(s3) + 1) = p.node_ip
    BY <1>1, <1>5, FourJoined, Zenon
  <2>2. Len(s3) + 1 = 6 /\ Len(s3) + 4 = 9
    BY <1>5
  <2> QED BY <1>5, <2>1, <2>2, Zenon
<1> HIDE DEF s4
<1>7. s5 \in Seq(Octet) /\ Len(s5) = 11 /\ (\A i \in 1 .. 9 : s5[i] = s4[i]) /\ Two(s5, 10) = p.node_port
  <2>1. /\ s5 \in Seq(Octet) /\ Len(s5) = Len(s4) + 2
        /\ \A i \in 1 .. Len(s4) : s5[i] = s4[i]
        /\ Two(s5, Len(s4) + 1) = p.node_port
    BY <1>1, <1>6, TwoJoined, Zenon
  <2>2. Len(s4) + 1 = 10 /\ Len(s4) + 2 = 11
    BY <1>6
  <2> QED BY <1>6, <2>1, <2>2, Zenon
<1> HIDE DEF s5
<1>8. s5[1] = ByteBase - 1
  BY <1>3, <1>4, <1>5, <1>6, <1>7
<1>9. Two(s5, 2) = p.hash_id
  <2>1. s5[2] = s2[2] /\ s5[3] = s2[3]
    BY <1>5, <1>6, <1>7
  <2> QED BY <1>4, <2>1 DEF Two
<1>10. Two(s5, 4) = p.node_id
  <2>1. s5[4] = s3[4] /\ s5[5] = s3[5]
    BY <1>6, <1>7
  <2> QED BY <1>5, <2>1 DEF Two
<1>11. Two(s5, 6) * Word16 + Two(s5, 8) = p.node_ip
  <2>1. s5[6] = s4[6] /\ s5[7] = s4[7] /\ s5[8] = s4[8] /\ s5[9] = s4[9]
    BY <1>7
  <2> QED BY <1>6, <2>1 DEF Two, Four
<1>12. Body(s5) = p
  BY <1>1, <1>7, <1>8, <1>9, <1>10, <1>11 DEF Body, IsCtrl
<1> QED BY <1>2, <1>7, <1>8, <1>12
\* Bytes that stand behind the first d are the field cut out there.
LEMMA PartIs ==
    ASSUME NEW s \in Seq(Octet), NEW t \in Seq(Octet), NEW d \in Nat, d + Len(t) <= Len(s),
           \A i \in 1 .. Len(t) : s[d + i] = t[i]
    PROVE  SubSeq(s, d + 1, d + Len(t)) = t
<1> DEFINE q == SubSeq(s, d + 1, d + Len(t))
<1>1. Len(t) \in Nat /\ Len(s) \in Nat
  BY LenProperties
<1>2. \A i \in d + 1 .. d + Len(t) : s[i] \in Octet
  BY <1>1, ElementOfSeq
<1>3. /\ q \in Seq(Octet) /\ Len(q) = IF d + 1 <= d + Len(t) THEN d + Len(t) - (d + 1) + 1 ELSE 0
      /\ \A i \in 1 .. d + Len(t) - (d + 1) + 1 : q[i] = s[d + 1 + i - 1]
  <2>1. d + 1 \in Int /\ d + Len(t) \in Int
    BY <1>1
  <2> QED BY <1>2, <2>1, SubSeqProperties
<1> HIDE DEF q
<1>4. Len(q) = Len(t)
  BY <1>1, <1>3
<1>5. ASSUME NEW i \in 1 .. Len(t) PROVE q[i] = t[i]
  <2>1. q[i] = s[d + 1 + i - 1] /\ d + 1 + i - 1 = d + i
    BY <1>1, <1>3
  <2> QED BY <2>1
<1>6. q = t
  BY <1>3, <1>4, <1>5, SeqEqual
<1> QED BY <1>6 DEF q

\* All the bytes of a data packet are decoded to the packet, and its header
\* says the lengths of key and value.
LEMMA DataDecoded ==
    ASSUME NEW p \in Packets, ~p.ctrl
    PROVE  /\ Serialize(p) \in Seq(Octet)
           /\ Len(Serialize(p)) = HeaderLen + (Len(p.key) + Len(p.value))
           /\ ~IsCtrl(Serialize(p))
           /\ KeyLen(Serialize(p)) = Len(p.key) /\ ValueLen(Serialize(p)) = Len(p.value)
           /\ Body(Serialize(p)) = p
<1>1. /\ p = DataPacket(p.key, p.value)
      /\ p.key \in Seq(Octet) /\ p.value \in Seq(Octet)
      /\ Len(p.key) < Word16 /\ Len(p.value) < Word32
  BY CodecAssumption
<1>2. Len(p.key) \in 0 .. Word16 - 1 /\ Len(p.value) \in 0 .. Word32 - 1
  <2>1. Word16 \in Nat /\ Word32 \in Nat
    BY CodecAssumption DEF Word16, Word32
  <2> QED BY <1>1, <2>1, LenProperties
<1> DEFINE s1 == <<0>>
           s2 == s1 \o TwoBytes(Len(p.key))
           s3 == s2 \o FourBytes(Len(p.value))
           s4 == s3 \o p.key
           s5 == s4 \o p.value
<1>3. Serialize(p) = s5
  BY DEF Serialize
<1>4. s1 \in Seq(Octet) /\ Len(s1) = 1 /\ s1[1] = 0 /\ ByteBase - 1 # 0
  BY CodecAssumption, FlagIs DEF Octet
<1> HIDE DEF s1
<1>5. s2 \in Seq(Octet) /\ Len(s2) = 3 /\ (\A i \in 1 .. 1 : s2[i] = s1[i]) /\ Two(s2, 2) = Len(p.key)
  <2>1. /\ s2 \in Seq(Octet) /\ Len(s2) = Len(s1) + 2
        /\ \A i \in 1 .. Len(s1) : s2[i] = s1[i]
        /\ Two(s2, Len(s1) + 1) = Len(p.key)
    BY <1>2, <1>4, TwoJoined, Zenon
  <2>2. Len(s1) + 1 = 2 /\ Len(s1) + 2 = 3
    BY <1>4
  <2> QED BY <1>4, <2>1, <2>2, Zenon
<1> HIDE DEF s2
<1>6. s3 \in Seq(Octet) /\ Len(s3) = 7 /\ (\A i \in 1 .. 3 : s3[i] = s2[i]) /\ Four(s3, 4) = Len(p.value)
  <2>1. /\ s3 \in Seq(Octet) /\ Len(s3) = Len(s2) + 4
        /\ \A i \in 1 .. Len(s2) : s3[i] = s2[i]
        /\ Four(s3, Len(s2) + 1) = Len(p.value)
    BY <1>2, <1>5, FourJoined, Zenon
  <2>2. Len(s2) + 1 = 4 /\ Len(s2) + 4 = 7
    BY <1>5
  <2> QED BY <1>5, <2>1, <2>2, Zenon
<1> HIDE DEF s3
<1>7. PICK key \in Seq(Octet), value \in Seq(Octet) : key = p.key /\ value = p.value
  BY <1>1
<1>8. /\ s4 \in Seq(Octet) /\ Len(s4) = Len(s3) + Len(key)
      /\ \A i \in 1 .. Len(s3) : s4[i] = s3[i]
      /\ \A i \in 1 .. Len(key) : s4[Len(s3) + i] = key[i]
  <2>1. s4 = s3 \o key
    BY <1>7
  <2> HIDE DEF s4
  <2>2. s3 \in Seq(Octet) /\ key \in Seq(Octet)
    BY <1>6
  <2>3. /\ s3 \o key \in Seq(Octet) /\ Len(s3 \o key) = Len(s3) + Len(key)
        /\ \A i \in 1 .. Len(s3) : (s3 \o key)[i] = s3[i]
        /\ \A i \in 1 .. Len(key) : (s3 \o key)[Len(s3) + i] = key[i]
    BY <2>2, Appended, Zenon
  <2> QED BY <2>1, <2>3, Zenon
<1> HIDE DEF s4
<1>9. /\ s5 \in Seq(Octet) /\ Len(s5) = Len(s4) + Len(value)
      /\ \A i \in 1 .. Len(s4) : s5[i] = s4[i]
      /\ \A i \in 1 .. Len(value) : s5[Len(s4) + i] = value[i]
  <2>1. s5 = s4 \o value
    BY <1>7
  <2> HIDE DEF s5
  <2>2. s4 \in Seq(Octet) /\ value \in Seq(Octet)
    BY <1>8
  <2>3. /\ s4 \o value \in Seq(Octet) /\ Len(s4 \o value) = Len(s4) + Len(value)
        /\ \A i \in 1 .. Len(s4) : (s4 \o value)[i] = s4[i]
        /\ \A i \in 1 .. Len(value) : (s4 \o value)[Len(s4) + i] = value[i]
    BY <2>2, Appended, Zenon
  <2> QED BY <2>1, <2>3, Zenon
<1> HIDE DEF s5
<1>10. PICK k \in Nat, v \in Nat : k = Len(key) /\ v = Len(value)
  BY LenProperties
<1>11. Len(s4) = 7 + k /\ Len(s5) = 7 + (k + v)
  BY <1>6, <1>8, <1>9, <1>10
<1>12. \A i \in 1 .. 7 : s5[i] = s3[i]
  <2> SUFFICES ASSUME NEW i \in 1 .. 7 PROVE s5[i] = s3[i]
    OBVIOUS
  <2>1. i \in 1 .. Len(s3) /\ i \in 1 .. Len(s4)
    BY <1>6, <1>10, <1>11
  <2> QED BY <1>8, <1>9, <2>1
<1>13. s5[1] = 0
  BY <1>4, <1>5, <1>6, <1>12
<1>14. KeyLen(s5) = k
  <2>1. s5[2] = s2[2] /\ s5[2 + 1] = s2[2 + 1]
    BY <1>6, <1>12
  <2>2. Two(s5, 2) = Two(s2, 2)
    BY <2>1, Zenon DEF Two
  <2> QED BY <1>5, <1>7, <1>10, <2>2 DEF KeyLen
<1>15. ValueLen(s5) = v
  <2>1. /\ s5[4] = s3[4] /\ s5[4 + 1] = s3[4 + 1] /\ s5[4 + 2] = s3[4 + 2]
        /\ s5[4 + 2 + 1] = s3[4 + 2 + 1]
    BY <1>12
  <2>2. Four(s5, 4) = Four(s3, 4)
    BY <2>1, Zenon DEF Two, Four
  <2> QED BY <1>6, <1>7, <1>10, <2>2 DEF ValueLen
<1>16. Field(s5, 7 + 1, 7 + k) = key
  <2>1. 7 \in Nat /\ 7 + Len(key) <= Len(s5)
    BY <1>10, <1>11
  <2>2. ASSUME NEW i \in 1 .. Len(key) PROVE s5[7 + i] = key[i]
    <3>1. Len(s3) + i = 7 + i /\ 7 + i \in 1 .. Len(s4)
      BY <1>6, <1>10, <1>11
    <3>2. s4[Len(s3) + i] = key[i]
      BY <1>8
    <3> QED BY <1>9, <3>1, <3>2
  <2>3. SubSeq(s5, 7 + 1, 7 + Len(key)) = key
    BY <1>9, <2>1, <2>2, PartIs
  <2> QED BY <1>10, <2>3 DEF Field
<1>17. Field(s5, 7 + k + 1, 7 + (k + v)) = value
  <2>1. 7 + k \in Nat /\ 7 + k + Len(value) <= Len(s5)
    BY <1>10, <1>11
  <2>2. ASSUME NEW i \in 1 .. Len(value) PROVE s5[7 + k + i] = value[i]
    BY <1>9, <1>11
  <2>3. SubSeq(s5, 7 + k + 1, 7 + k + Len(value)) = value
    BY <1>9, <2>1, <2>2, PartIs
  <2>4. 7 + k + Len(value) = 7 + (k + v)
    BY <1>10
  <2> QED BY <2>3, <2>4 DEF Field
<1>18. ~IsCtrl(s5)
  BY <1>4, <1>13 DEF IsCtrl
<1>19. Body(s5) = DataPacket(key, value)
  BY <1>14, <1>15, <1>16, <1>17, <1>18 DEF Body, Copied, HeaderLen
<1> QED BY <1>1, <1>3, <1>7, <1>9, <1>10, <1>11, <1>14, <1>15, <1>18, <1>19 DEF HeaderLen
\* What has arrived is a prefix of what was sent, and the decoder has done
\* nothing before anything arrived.
CodecInv ==
    /\ packet \in Packets
    /\ bytes = <<>> \/ \E n \in 1 .. Len(Serialize(packet)) : bytes = SubSeq(Serialize(packet), 1, n)
    /\ bytes = <<>> => decoded = NoPacket /\ ~overread
    /\ DecodesWhatWasSent

\* The first n bytes are those of the whole.
LEMMA PrefixIs ==
    ASSUME NEW s \in Seq(Octet), NEW n \in 1 .. Len(s)
    PROVE  /\ Len(SubSeq(s, 1, n)) = n
           /\ \A i \in 1 .. n : SubSeq(s, 1, n)[i] = s[i]
           /\ n = Len(s) => SubSeq(s, 1, n) = s
<1>1. Len(s) \in Nat /\ n \in Nat /\ 1 \in Int /\ n \in Int /\ 1 <= n /\ n - 1 + 1 = n
  BY LenProperties
<1>2. \A i \in 1 .. n : s[i] \in Octet
  BY <1>1, ElementOfSeq
<1> DEFINE q == SubSeq(s, 1, n)
<1>3. /\ Len(q) = IF 1 <= n THEN n - 1 + 1 ELSE 0
      /\ \A i \in 1 .. n - 1 + 1 : q[i] = s[1 + i - 1]
  BY <1>1, <1>2, SubSeqProperties
<1>4. n = Len(s) => q = s
  BY SubSeqFull
<1> HIDE DEF q
<1>5. ASSUME NEW i \in 1 .. n PROVE q[i] = s[i]
  <2>1. 1 + i - 1 = i
    BY <1>1
  <2> QED BY <1>1, <1>3, <2>1
<1>6. Len(q) = n
  BY <1>1, <1>3
<1> QED BY <1>4, <1>5, <1>6 DEF q

\* What the decoder sees in the first n bytes of a control packet.
LEMMA CtrlCut ==
    ASSUME NEW p \in Packets, p.ctrl, NEW n \in 1 .. Len(Serialize(p))
    PROVE  LET b == SubSeq(Serialize(p), 1, n) IN
           /\ Len(b) = n /\ IsCtrl(b) /\ Copied(b) = 4
           /\ n >= HeaderLen + Copied(b) => b = Serialize(p) /\ Body(b) = p
<1> DEFINE s == Serialize(p)  b == SubSeq(s, 1, n)
<1>1. s \in Seq(Octet) /\ Len(s) = 11 /\ s[1] = ByteBase - 1 /\ Body(s) = p
  BY CtrlDecoded
<1> HIDE DEF s
<1>2. Len(b) = n /\ (\A i \in 1 .. n : b[i] = s[i]) /\ (n = Len(s) => b = s)
  <2>1. s \in Seq(Octet) /\ n \in 1 .. Len(s)
    BY <1>1 DEF s
  <2> QED BY <2>1, PrefixIs
<1>3. n \in 1 .. 11
  BY <1>1 DEF s
<1> HIDE DEF b
<1>4. IsCtrl(b)
  BY <1>1, <1>2, <1>3 DEF IsCtrl
<1>5. Copied(b) = 4
  BY <1>4 DEF Copied
<1>6. n >= HeaderLen + 4 => n = Len(s)
  BY <1>1, <1>3 DEF HeaderLen
<1> QED BY <1>1, <1>2, <1>4, <1>5, <1>6 DEF b, s

\* What the decoder sees in the first n bytes of a data packet: the lengths
\* as soon as the header is there.
LEMMA DataCut ==
    ASSUME NEW p \in Packets, ~p.ctrl, NEW n \in 1 .. Len(Serialize(p))
    PROVE  LET b == SubSeq(Serialize(p), 1, n)  size == Len(p.key) + Len(p.value) IN
           /\ Len(b) = n /\ ~IsCtrl(b) /\ size \in Nat /\ Len(Serialize(p)) = HeaderLen + size
           /\ n >= HeaderLen => Copied(b) = size /\ BodySize(b) = size % Word32
           /\ n >= HeaderLen /\ n >= HeaderLen + Copied(b) => b = Serialize(p) /\ Body(b) = p
<1> DEFINE s == Serialize(p)  b == SubSeq(s, 1, n)  size == Len(p.key) + Len(p.value)
<1>1. /\ s \in Seq(Octet) /\ Len(s) = HeaderLen + size /\ ~IsCtrl(s)
      /\ KeyLen(s) = Len(p.key) /\ ValueLen(s) = Len(p.value) /\ Body(s) = p
  BY DataDecoded
<1>2. size \in Nat
  <2>1. p.key \in Seq(Octet) /\ p.value \in Seq(Octet)
    BY CodecAssumption
  <2>2. Len(p.key) \in Nat /\ Len(p.value) \in Nat
    BY <2>1, LenProperties, Zenon
  <2>3. PICK k \in Nat, v \in Nat : k = Len(p.key) /\ v = Len(p.value)
    BY <2>2, Zenon
  <2>4. k + v \in Nat
    OBVIOUS
  <2> QED BY <2>3, <2>4, Zenon
<1>3. n \in 1 .. Len(s)
  OBVIOUS
<1> HIDE DEF s
<1>4. Len(b) = n /\ (\A i \in 1 .. n : b[i] = s[i]) /\ (n = Len(s) => b = s)
  BY <1>1, <1>3, PrefixIs
<1> HIDE DEF b
<1>5. ~IsCtrl(b)
  <2>1. b[1] = s[1]
    BY <1>3, <1>4
  <2> QED BY <1>1, <2>1 DEF IsCtrl
<1>6. ASSUME n >= HeaderLen PROVE Copied(b) = size /\ BodySize(b) = size % Word32
  <2>1. \A i \in 1 .. 7 : b[i] = s[i]
    BY <1>3, <1>4, <1>6 DEF HeaderLen
  <2>2. b[2] = s[2] /\ b[2 + 1] = s[2 + 1]
    BY <2>1
  <2>3. /\ b[4] = s[4] /\ b[4 + 1] = s[4 + 1] /\ b[4 + 2] = s[4 + 2]
        /\ b[4 + 2 + 1] = s[4 + 2 + 1]
    BY <2>1
  <2>4. KeyLen(b) = KeyLen(s) /\ ValueLen(b) = ValueLen(s)
    BY <2>2, <2>3, Zenon DEF KeyLen, ValueLen, Four, Two
  <2> QED BY <1>1, <1>5, <2>4 DEF Copied, BodySize
<1>7. ASSUME n >= HeaderLen, n >= HeaderLen + Copied(b) PROVE n = Len(s)
  <2> HIDE DEF size
  <2> QED BY <1>1, <1>2, <1>3, <1>6, <1>7 DEF HeaderLen
<1> QED BY <1>1, <1>2, <1>4, <1>5, <1>6, <1>7 DEF b, s

\* packet_decode keeps the invariant: a packet that passes the two tests and
\* is complete is what was sent, and one that passes them incomplete lacks no
\* more than a header, or is too long for 32 bits.
LEMMA DecodeKeeps == CodecInv /\ Decode => CodecInv'
<1> SUFFICES ASSUME CodecInv, Decode PROVE CodecInv'
  OBVIOUS
<1>1. packet' = packet /\ bytes' = bytes /\ packet \in Packets /\ bytes # <<>> /\ decoded = NoPacket
  BY DEF CodecInv, Decode
<1>2. PICK n \in 1 .. Len(Serialize(packet)) : bytes = SubSeq(Serialize(packet), 1, n)
  BY <1>1 DEF CodecInv
<1> DEFINE size == Len(packet.key) + Len(packet.value)
<1>3. \/ packet.ctrl /\ Len(Serialize(packet)) = 11 /\ Len(bytes) = n /\ IsCtrl(bytes)
           /\ Copied(bytes) = 4
           /\ (n >= HeaderLen + Copied(bytes) => bytes = Serialize(packet) /\ Body(bytes) = packet)
      \/ /\ ~packet.ctrl /\ size \in Nat /\ Len(Serialize(packet)) = HeaderLen + size
         /\ Len(bytes) = n /\ ~IsCtrl(bytes)
         /\ n >= HeaderLen => Copied(bytes) = size /\ BodySize(bytes) = size % Word32
         /\ n >= HeaderLen /\ n >= HeaderLen + Copied(bytes)
              => bytes = Serialize(packet) /\ Body(bytes) = packet
  BY <1>1, <1>2, CtrlCut, CtrlDecoded, DataCut
<1>4. ASSUME overread' = TRUE, ~Short(bytes), Len(bytes) < HeaderLen + Copied(bytes)
      PROVE  \/ Len(bytes) + HeaderLen >= Len(Serialize(packet))
             \/ Len(Serialize(packet)) >= HeaderLen + Word32
  <2>0. Len(bytes) = n /\ n \in Nat
    <3>1. n \in Nat
      <4>1. Len(Serialize(packet)) \in Nat
        BY <1>3 DEF HeaderLen
      <4> QED BY <4>1
    <3> QED BY <1>3, <3>1
  <2>1. n >= HeaderLen /\ (IsCtrl(bytes) \/ ~(n < BodySize(bytes)))
    <3>1. Len(bytes) >= HeaderLen /\ (IsCtrl(bytes) \/ ~(Len(bytes) < BodySize(bytes)))
      BY <1>4, Zenon DEF Short
    <3> QED BY <2>0, <3>1
  <2>2. CASE IsCtrl(bytes)
    <3>1. Len(Serialize(packet)) = 11
      BY <1>3, <2>2
    <3> QED BY <2>0, <2>1, <3>1 DEF HeaderLen
  <2>3. CASE ~IsCtrl(bytes)
    <3>1. PICK m \in Nat : m = size
      BY <1>3, <2>3
    <3>2. Word32 \in Nat \ {0}
      BY CodecAssumption DEF Word32, Word16
    <3>3. m < Word32 => m % Word32 = m
      BY <3>2
    <3>4. ~(n < m % Word32) /\ Len(Serialize(packet)) = HeaderLen + m /\ Len(bytes) = n
      BY <1>3, <2>1, <2>3, <3>1
    <3>5. m % Word32 \in Nat
      BY <3>2
    <3> QED BY <2>0, <2>1, <3>2, <3>3, <3>4, <3>5 DEF HeaderLen
  <2> QED BY <2>2, <2>3
<1>5. ASSUME ~Short(bytes), Len(bytes) >= HeaderLen + Copied(bytes)
      PROVE  Body(bytes) = packet /\ bytes = Serialize(packet)
  BY <1>3, <1>5 DEF Short
<1>6. DecodesWhatWasSent'
  <2>1. CASE Short(bytes) /\ UNCHANGED <<decoded, overread>>
    BY <1>1, <2>1 DEF Decode, DecodesWhatWasSent
  <2>2. CASE /\ ~Short(bytes) /\ Len(bytes) < HeaderLen + Copied(bytes)
             /\ overread' = TRUE /\ UNCHANGED decoded
    BY <1>1, <1>4, <2>2 DEF DecodesWhatWasSent
  <2>3. CASE /\ ~Short(bytes) /\ Len(bytes) >= HeaderLen + Copied(bytes)
             /\ decoded' = Body(bytes) /\ UNCHANGED overread
    BY <1>1, <1>5, <2>3 DEF Decode, DecodesWhatWasSent
  <2> QED BY <2>1, <2>2, <2>3 DEF Decode
<1> QED BY <1>1, <1>6 DEF CodecInv

\* Whatever packet is sent, with a key and a value of any length that the
\* header can say, the other side decodes that packet or none, and reads
\* behind what it received only if no more than a header is missing.
THEOREM CodecIsExact == CodecSpec => []DecodesWhatWasSent
<1>1. CodecInit => CodecInv
  BY DEF CodecInit, CodecInv, DecodesWhatWasSent
<1>2. CodecInv /\ [CodecNext]_codecVars => CodecInv'
  <2>1. CodecInv /\ Transfer => CodecInv'
    BY DEF CodecInv, Transfer, DecodesWhatWasSent
  <2>2. CodecInv /\ UNCHANGED codecVars => CodecInv'
    BY DEF CodecInv, codecVars, DecodesWhatWasSent
  <2> QED BY <2>1, <2>2, DecodeKeeps DEF CodecNext
<1>3. CodecInv => DecodesWhatWasSent
  BY DEF CodecInv
<1> QED BY <1>1, <1>2, <1>3, PTL DEF CodecSpec
=============================================================================
