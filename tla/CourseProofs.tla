---------------------------- MODULE CourseProofs ----------------------------
(* The exercises of the programming course, each for every value of its    *)
(* constants: the list of books, the sorting programs and the counted      *)
(* loops, the calculator, the phone book and the binary heap.              *)
EXTENDS BookList, Programs, RpnStack, PhoneBook, MaxHeap, Integers, Recursion,
        SequenceTheorems, FiniteSetTheorems, TLAPS
-----------------------------------------------------------------------------
(* The list of books: every number of lines and every order of the ISBNs.  *)

\* The elements in the order p of their links, from f to the last one.
Way(p, c, f, nx) ==
    /\ IF c = 0 THEN f = NoElement ELSE f = p[1] /\ nx[p[c]] = NoElement
    /\ \A k \in 1 .. c - 1 : nx[p[k]] = p[k + 1]

\* Each of the c elements once.
Whole(p, c) ==
    /\ \A j, k \in 1 .. c : p[j] = p[k] => j = k
    /\ \A e \in 1 .. c : \E k \in 1 .. c : p[k] = e

\* In the order the program promises.
Ordered(p, c, is) == \A k \in 1 .. c - 1 :
    IF keepsSorted THEN is[p[k]] <= is[p[k + 1]] ELSE p[k] > p[k + 1]

OnTheWay(p) ==
    p \in [1 .. count -> 1 .. count] /\ Way(p, count, first, next)
      /\ Whole(p, count) /\ Ordered(p, count, isbn)

\* There is a way that leads past every element once, in this order.
ListInv ==
    /\ count \in 0 .. MaxBooks /\ keepsSorted \in BOOLEAN
    /\ isbn \in Seq(Isbn) /\ Len(isbn) = count
    /\ next \in Seq(Element \cup {NoElement}) /\ Len(next) = count
    /\ \E p : OnTheWay(p)

\* What the names of the elements and the array of their links have.
LEMMA ListBasics ==
    ASSUME ListInv
    PROVE  count \in Nat /\ DOMAIN next = 1 .. count /\ NoElement \notin 1 .. count
<1>1. count \in 0 .. MaxBooks /\ next \in Seq(Element \cup {NoElement}) /\ Len(next) = count
  BY DEF ListInv
<1>2. MaxBooks \in Nat /\ NoElement \notin 1 .. MaxBooks
  BY BookListAssumption DEF Element
<1>3. DOMAIN next = 1 .. count
  BY <1>1, LenProperties
<1> QED
  BY <1>1, <1>2, <1>3

\* A way is a sequence of elements.
LEMMA WaySeq ==
    ASSUME NEW c \in Nat, NEW p \in [1 .. c -> 1 .. c]
    PROVE  p \in Seq(1 .. c) /\ Len(p) = c
OBVIOUS

\* What is left of the way from its k-th element on.
LEMMA RestIs ==
    ASSUME NEW c \in Nat, NEW p \in [1 .. c -> 1 .. c], NEW k \in 1 .. c
    PROVE  SubSeq(p, k, c) = <<p[k]>> \o SubSeq(p, k + 1, c)
<1>1. p \in Seq(1 .. c) /\ Len(p) = c
  BY WaySeq
<1>2. k \in 1 .. Len(p) /\ c \in k .. Len(p)
  BY <1>1
<1> QED
  BY <1>1, <1>2, SubSeqRecursiveFirst

\* f is what print_list finds from an element on.
Rest(f, nx) == f = [e \in DOMAIN nx \cup {NoElement} |->
                      IF e = NoElement THEN <<>> ELSE <<e>> \o f[nx[e]]]

\* The loop of print_list ends wherever it begins: there is such an f.
LEMMA RestExists ==
    ASSUME ListInv
    PROVE  \E f : Rest(f, next)
<1>1. count \in Nat /\ DOMAIN next = 1 .. count /\ NoElement \notin 1 .. count
  BY ListBasics
<1>2. PICK p \in [1 .. count -> 1 .. count] : Way(p, count, first, next) /\ Whole(p, count)
  BY DEF ListInv, OnTheWay
<1>3. PICK at : at = [e \in 1 .. count |-> CHOOSE k \in 1 .. count : p[k] = e]
  OBVIOUS
<1>4. \A e \in 1 .. count : at[e] \in 1 .. count /\ p[at[e]] = e
  BY <1>2, <1>3 DEF Whole
<1>5. PICK f : f = [e \in 1 .. count \cup {NoElement} |->
                      IF e = NoElement THEN <<>> ELSE SubSeq(p, at[e], count)]
  OBVIOUS
<1>6. f[NoElement] = <<>> /\ \A e \in 1 .. count : f[e] = SubSeq(p, at[e], count)
  BY <1>1, <1>5
<1>7. ASSUME NEW e \in 1 .. count PROVE f[e] = <<e>> \o f[next[e]]
  <2>1. PICK k \in 1 .. count : k = at[e] /\ p[k] = e /\ f[e] = SubSeq(p, k, count)
    BY <1>4, <1>6
  <2>2. SubSeq(p, k, count) = <<e>> \o SubSeq(p, k + 1, count)
    BY <1>1, <2>1, RestIs
  <2>3. CASE k = count
    <3>1. next[e] = NoElement
      BY <1>1, <1>2, <2>1, <2>3 DEF Way
    <3>2. SubSeq(p, k + 1, count) = <<>>
      <4>1. k + 1 \in Int /\ count \in Int /\ count < k + 1
        BY <1>1, <2>3
      <4> QED
        BY <4>1, SubSeqEmpty
    <3> QED
      BY <1>6, <2>1, <2>2, <3>1, <3>2
  <2>4. CASE k # count
    <3>1. k \in 1 .. count - 1 /\ k + 1 \in 1 .. count
      <4>1. k \in 1 .. count /\ k # count
        BY <2>4
      <4> QED
        BY <1>1, <4>1
    <3>2. next[e] = p[k + 1] /\ p[k + 1] \in 1 .. count
      BY <1>2, <2>1, <3>1 DEF Way
    <3>3. at[p[k + 1]] = k + 1
      <4>1. PICK j \in 1 .. count : j = at[p[k + 1]] /\ p[j] = p[k + 1]
        BY <1>4, <3>2
      <4> QED
        BY <1>2, <3>1, <4>1 DEF Whole
    <3> QED
      BY <1>6, <2>1, <2>2, <3>2, <3>3
  <2> QED
    BY <2>3, <2>4
<1>8. Rest(f, next)
  BY <1>1, <1>5, <1>6, <1>7 DEF Rest
<1> QED
  BY <1>8

\* From the front print_list goes the whole way.
LEMMA BooksAre ==
    ASSUME ListInv
    PROVE  OnTheWay(Books)
<1>1. count \in Nat /\ DOMAIN next = 1 .. count /\ NoElement \notin 1 .. count
  BY ListBasics
<1>2. PICK p \in [1 .. count -> 1 .. count] : OnTheWay(p)
  BY DEF ListInv, OnTheWay
<1>3. PICK f : f = (CHOOSE g : Rest(g, next)) /\ Rest(f, next)
  BY RestExists
<1>4. Books = f[first]
  BY <1>3 DEF Books, Rest
<1>5. f[NoElement] = <<>> /\ \A e \in 1 .. count : f[e] = <<e>> \o f[next[e]]
  BY <1>1, <1>3 DEF Rest
<1>6. CASE count = 0
  <2>1. first = NoElement
    BY <1>2, <1>6 DEF OnTheWay, Way
  <2>2. p = <<>>
    BY <1>2, <1>6
  <2> QED
    BY <1>2, <1>4, <1>5, <2>1, <2>2
<1>7. CASE count # 0
  <2>1. PICK S : S = {n \in 0 .. count - 1 : f[p[count - n]] = SubSeq(p, count - n, count)}
    OBVIOUS
  <2>2. 0 \in S
    <3>1. next[p[count]] = NoElement /\ p[count] \in 1 .. count
      BY <1>1, <1>2, <1>7 DEF OnTheWay, Way
    <3>2. f[p[count]] = <<p[count]>> \o <<>>
      BY <1>5, <3>1
    <3>3. SubSeq(p, count, count) = <<p[count]>> \o SubSeq(p, count + 1, count)
      BY <1>1, <1>2, <1>7, RestIs
    <3>4. SubSeq(p, count + 1, count) = <<>>
      <4>1. count + 1 \in Int /\ count \in Int /\ count < count + 1
        BY <1>1
      <4> QED
        BY <4>1, SubSeqEmpty
    <3>5. count - 0 = count /\ 0 \in 0 .. count - 1
      BY <1>1, <1>7
    <3> QED
      BY <2>1, <3>2, <3>3, <3>4, <3>5
  <2>3. ASSUME NEW n \in 0 .. count - 1 - 1, n \in S PROVE n + 1 \in S
    <3>1. PICK k \in 1 .. count - 1 : k = count - (n + 1) /\ k + 1 = count - n /\ k \in 1 .. count
            /\ n + 1 \in 0 .. count - 1
      BY <1>1, <1>7, <2>3
    <3>2. next[p[k]] = p[k + 1] /\ p[k] \in 1 .. count
      BY <1>2, <3>1 DEF OnTheWay, Way
    <3>3. f[p[k]] = <<p[k]>> \o f[p[k + 1]]
      BY <1>5, <3>2
    <3>4. f[p[k + 1]] = SubSeq(p, k + 1, count)
      BY <2>1, <2>3, <3>1
    <3>5. SubSeq(p, k, count) = <<p[k]>> \o SubSeq(p, k + 1, count)
      BY <1>1, <1>2, <3>1, RestIs
    <3> QED
      BY <2>1, <3>1, <3>3, <3>4, <3>5
  <2>4. count - 1 \in S
    <3>1. count - 1 \in Nat /\ count - 1 \in 0 .. count - 1
      BY <1>1, <1>7
    <3> QED
      BY <2>2, <2>3, <3>1, AllUpTo
  <2>5. f[p[1]] = SubSeq(p, 1, count)
    <3>1. count - (count - 1) = 1
      BY <1>1
    <3> QED
      BY <2>1, <2>4, <3>1
  <2>6. SubSeq(p, 1, count) = p
    BY <1>1, <1>2, WaySeq, SubSeqFull
  <2>7. first = p[1]
    BY <1>2, <1>7 DEF OnTheWay, Way
  <2> QED
    BY <1>2, <1>4, <2>5, <2>6, <2>7
<1> QED
  BY <1>6, <1>7

\* The loop of insert_sorted goes on behind y.
Goes(y, i) == next[y] # NoElement /\ i > isbn[next[y]]

\* f says where it ends when it begins with y.
StopWalk(f, i) == f = [y \in DOMAIN next |-> IF Goes(y, i) THEN f[next[y]] ELSE y]

\* It ends wherever it begins, since the list does.
LEMMA WalkExists ==
    ASSUME ListInv, NEW i
    PROVE  \E f : StopWalk(f, i)
<1>1. count \in Nat /\ DOMAIN next = 1 .. count /\ NoElement \notin 1 .. count
  BY ListBasics
<1>2. PICK p \in [1 .. count -> 1 .. count] : Way(p, count, first, next) /\ Whole(p, count)
  BY DEF ListInv, OnTheWay
<1>3. CASE count = 0
  <2>1. PICK f : f = [y \in DOMAIN next |-> y]
    OBVIOUS
  <2>2. DOMAIN next = {}
    BY <1>1, <1>3
  <2> QED
    BY <2>1, <2>2 DEF StopWalk
<1>4. CASE count # 0
  <2> DEFINE V == 1 .. count
  <2>1. PICK c \in Nat : c = count - 1 /\ count \in V /\ p[count] \in V
    BY <1>1, <1>4
  <2>2. PICK step : step = [x \in Nat \X V |->
             IF x[1] \in 0 .. c - 1 /\ ~Goes(p[c - x[1]], i) THEN p[c - x[1]] ELSE x[2]]
    OBVIOUS
  <2>3. step \in [Nat \X V -> V]
    <3> SUFFICES ASSUME NEW x \in Nat \X V
                 PROVE  (IF x[1] \in 0 .. c - 1 /\ ~Goes(p[c - x[1]], i) THEN p[c - x[1]] ELSE x[2]) \in V
      BY <2>2
    <3>1. x[1] \in Nat /\ x[2] \in V
      OBVIOUS
    <3>2. ASSUME x[1] \in 0 .. c - 1 PROVE p[c - x[1]] \in V
      <4>1. PICK m \in 0 .. c - 1 : m = x[1]
        BY <3>2
      <4>2. c - m \in 1 .. count
        BY <1>1, <2>1
      <4> QED
        BY <4>1, <4>2
    <3> QED
      BY <3>1, <3>2
  <2>4. PICK h \in [0 .. c -> V] : Follows(h, c, p[count], step)
    BY <2>1, <2>3, FollowsExists
  <2>5. PICK at : at = [e \in 1 .. count |-> CHOOSE k \in 1 .. count : p[k] = e]
    OBVIOUS
  <2>6. \A e \in 1 .. count : at[e] \in 1 .. count /\ p[at[e]] = e
    BY <1>2, <2>5 DEF Whole
  <2>7. PICK f : f = [y \in 1 .. count |-> h[count - at[y]]]
    OBVIOUS
  <2>8. ASSUME NEW y \in 1 .. count PROVE f[y] = IF Goes(y, i) THEN f[next[y]] ELSE y
    <3>1. PICK k \in 1 .. count : k = at[y] /\ p[k] = y /\ f[y] = h[count - k]
      BY <2>6, <2>7
    <3>2. CASE k = count
      <4>1. next[y] = NoElement
        BY <1>1, <1>2, <1>4, <3>1, <3>2 DEF Way
      <4>2. count - k = 0
        BY <1>1, <3>2
      <4>3. h[0] = y
        BY <2>4, <3>1, <3>2 DEF Follows
      <4> QED
        BY <3>1, <4>1, <4>2, <4>3 DEF Goes
    <3>3. CASE k # count
      <4>1. k \in 1 .. count - 1 /\ k + 1 \in 1 .. count
        <5>1. k \in 1 .. count /\ k # count
          BY <3>3
        <5> QED
          BY <1>1, <5>1
      <4>2. next[y] = p[k + 1] /\ p[k + 1] \in 1 .. count
        BY <1>2, <3>1, <4>1 DEF Way
      <4>3. at[p[k + 1]] = k + 1
        <5>1. PICK j \in 1 .. count : j = at[p[k + 1]] /\ p[j] = p[k + 1]
          BY <2>6, <4>2
        <5> QED
          BY <1>2, <4>1, <5>1 DEF Whole
      <4>4. PICK n \in 0 .. c - 1 : n = count - (k + 1) /\ n + 1 = count - k /\ c - n = k
        BY <1>1, <2>1, <4>1
      <4>5. f[next[y]] = h[n]
        BY <2>7, <4>2, <4>3, <4>4
      <4>6. h[n] \in V /\ h[n + 1] = step[<<n, h[n]>>]
        <5>1. n \in 0 .. c
          BY <2>1, <4>4
        <5> QED
          BY <2>4, <5>1 DEF Follows
      <4>7. step[<<n, h[n]>>] = IF Goes(y, i) THEN h[n] ELSE y
        <5>1. PICK u \in V : u = h[n]
          BY <4>6
        <5>4. PICK x \in Nat \X V : x = <<n, u>> /\ x[1] = n /\ x[2] = u
          <6>1. n \in Nat
            OBVIOUS
          <6>2. <<n, u>> \in Nat \X V
            BY <6>1
          <6> QED
            BY <6>2
        <5>2. step[x] = IF n \in 0 .. c - 1 /\ ~Goes(p[c - n], i) THEN p[c - n] ELSE h[n]
          BY <2>2, <5>1, <5>4
        <5>3. p[c - n] = y
          BY <3>1, <4>4
        <5> QED
          BY <4>4, <5>1, <5>2, <5>3, <5>4
      <4> QED
        BY <3>1, <4>4, <4>5, <4>6, <4>7
    <3> QED
      BY <3>2, <3>3
  <2>9. StopWalk(f, i)
    BY <1>1, <2>7, <2>8 DEF StopWalk
  <2> QED
    BY <2>9
<1> QED
  BY <1>3, <1>4

\* elem1 has gone past all books with a smaller ISBN, and stands before one
\* that has none, or at the end.
LEMMA StopIs ==
    ASSUME ListInv, NEW i, NEW p \in [1 .. count -> 1 .. count], OnTheWay(p), count # 0
    PROVE  \E j \in 1 .. count :
              /\ StopAfter(first, i) = p[j]
              /\ \A m \in 1 .. j - 1 : Goes(p[m], i)
              /\ ~Goes(p[j], i)
<1>1. count \in Nat /\ DOMAIN next = 1 .. count /\ NoElement \notin 1 .. count
  BY ListBasics
<1>2. PICK f : f = (CHOOSE g : StopWalk(g, i)) /\ StopWalk(f, i)
  BY WalkExists
<1>3. StopAfter(first, i) = f[first]
  BY <1>2 DEF StopAfter, StopWalk, Goes
<1>4. \A y \in 1 .. count : f[y] = IF Goes(y, i) THEN f[next[y]] ELSE y
  BY <1>1, <1>2 DEF StopWalk
<1> DEFINE Stops(k) == \E j \in k .. count :
              f[p[k]] = p[j] /\ (\A m \in k .. j - 1 : Goes(p[m], i)) /\ ~Goes(p[j], i)
<1>5. PICK S : S = {n \in 0 .. count - 1 : Stops(count - n)}
  OBVIOUS
<1>6. 0 \in S
  <2>1. next[p[count]] = NoElement /\ p[count] \in 1 .. count
    BY <1>1 DEF OnTheWay, Way
  <2>2. f[p[count]] = p[count] /\ ~Goes(p[count], i)
    BY <1>4, <2>1 DEF Goes
  <2>3. count \in count .. count /\ count .. count - 1 = {} /\ count - 0 = count /\ 0 \in 0 .. count - 1
    BY <1>1
  <2> QED
    BY <1>5, <2>2, <2>3
<1>7. ASSUME NEW n \in 0 .. count - 1 - 1, n \in S PROVE n + 1 \in S
  <2>1. PICK k \in 1 .. count - 1 : k = count - (n + 1) /\ k + 1 = count - n /\ k \in 1 .. count
          /\ n + 1 \in 0 .. count - 1
    BY <1>1
  <2>2. next[p[k]] = p[k + 1] /\ p[k] \in 1 .. count
    BY <2>1 DEF OnTheWay, Way
  <2>3. Stops(k)
    <3>1. CASE Goes(p[k], i)
      <4>1. PICK j \in k + 1 .. count :
              f[p[k + 1]] = p[j] /\ (\A m \in k + 1 .. j - 1 : Goes(p[m], i)) /\ ~Goes(p[j], i)
        BY <1>5, <1>7, <2>1
      <4>2. f[p[k]] = p[j]
        BY <1>4, <2>2, <3>1, <4>1
      <4>3. ASSUME NEW m \in k .. j - 1 PROVE Goes(p[m], i)
        <5>1. m = k \/ m \in k + 1 .. j - 1
          BY <1>1, <4>1
        <5> QED
          BY <3>1, <4>1, <5>1
      <4>4. j \in k .. count
        BY <1>1, <4>1
      <4> QED
        BY <4>1, <4>2, <4>3, <4>4
    <3>2. CASE ~Goes(p[k], i)
      <4>1. f[p[k]] = p[k]
        BY <1>4, <2>2, <3>2
      <4>2. k \in k .. count /\ k .. k - 1 = {}
        BY <1>1
      <4> QED
        BY <3>2, <4>1, <4>2
    <3> QED
      BY <3>1, <3>2
  <2> QED
    BY <1>5, <2>1, <2>3
<1>8. count - 1 \in S
  <2>1. count - 1 \in Nat /\ count - 1 \in 0 .. count - 1
    BY <1>1
  <2> QED
    BY <1>6, <1>7, <2>1, AllUpTo
<1>9. Stops(1)
  <2>1. count - (count - 1) = 1
    BY <1>1
  <2> QED
    BY <1>5, <1>8, <2>1
<1>10. first = p[1]
  BY DEF OnTheWay, Way
<1> QED
  BY <1>3, <1>9, <1>10

\* The way with one element more, behind its j-th one.
With(p, c, j) ==
    [k \in 1 .. c + 1 |-> IF k <= j THEN p[k] ELSE IF k = j + 1 THEN c + 1 ELSE p[k - 1]]

\* What stands where then.
IsWith(q, p, c, j) ==
    /\ \A k \in 1 .. j : q[k] = p[k]
    /\ q[j + 1] = c + 1
    /\ \A k \in j + 1 .. c : q[k + 1] = p[k]

\* The longer way has the places it should have,
LEMMA WithIs ==
    ASSUME NEW c \in Nat, NEW p \in [1 .. c -> 1 .. c], NEW j \in 0 .. c
    PROVE  IsWith(With(p, c, j), p, c, j) /\ With(p, c, j) \in [1 .. c + 1 -> 1 .. c + 1]
<1> DEFINE q == With(p, c, j)
<1>1. ASSUME NEW k \in 1 .. j PROVE q[k] = p[k]
  <2>1. k \in 1 .. c + 1 /\ k <= j
    OBVIOUS
  <2> QED
    BY <2>1 DEF With
<1>2. q[j + 1] = c + 1
  <2>1. j + 1 \in 1 .. c + 1 /\ ~(j + 1 <= j)
    OBVIOUS
  <2> QED
    BY <2>1 DEF With
<1>3. ASSUME NEW k \in j + 1 .. c PROVE q[k + 1] = p[k]
  <2>1. k + 1 \in 1 .. c + 1 /\ ~(k + 1 <= j) /\ k + 1 # j + 1 /\ k + 1 - 1 = k
    OBVIOUS
  <2> QED
    BY <2>1 DEF With
<1>4. ASSUME NEW k \in 1 .. c + 1
      PROVE  (IF k <= j THEN p[k] ELSE IF k = j + 1 THEN c + 1 ELSE p[k - 1]) \in 1 .. c + 1
  <2>1. CASE k <= j
    <3>1. k \in 1 .. c
      BY <2>1
    <3> QED
      BY <2>1, <3>1
  <2>2. CASE k = j + 1
    BY <2>2
  <2>3. CASE ~(k <= j) /\ k # j + 1
    <3>1. k - 1 \in 1 .. c
      BY <2>3
    <3>2. p[k - 1] \in 1 .. c + 1
      BY <3>1
    <3> QED
      BY <2>3, <3>2
  <2> QED
    BY <2>1, <2>2, <2>3
<1>5. q \in [1 .. c + 1 -> 1 .. c + 1]
  BY <1>4 DEF With
<1> QED
  BY <1>1, <1>2, <1>3, <1>5 DEF IsWith

\* leads past every element once,
LEMMA WithWhole ==
    ASSUME NEW c \in Nat, NEW p \in [1 .. c -> 1 .. c], NEW j \in 0 .. c, NEW q, IsWith(q, p, c, j),
           Whole(p, c)
    PROVE  Whole(q, c + 1)
<1>1. /\ \A k \in 1 .. j : q[k] = p[k]
      /\ q[j + 1] = c + 1
      /\ \A k \in j + 1 .. c : q[k + 1] = p[k]
  BY DEF IsWith
\* Every place but the new one is that of an old element.
<1>2. ASSUME NEW k \in 1 .. c + 1, k # j + 1
      PROVE  \E m \in 1 .. c : q[k] = p[m] /\ k = IF m <= j THEN m ELSE m + 1
  <2>1. CASE k <= j
    <3>1. k \in 1 .. j /\ k \in 1 .. c
      BY <2>1
    <3> QED
      BY <1>1, <2>1, <3>1
  <2>2. CASE ~(k <= j)
    <3>1. PICK m \in j + 1 .. c : m = k - 1 /\ k = m + 1 /\ m \in 1 .. c /\ ~(m <= j)
      BY <1>2, <2>2
    <3> QED
      BY <1>1, <3>1
  <2> QED
    BY <2>1, <2>2
<1>3. ASSUME NEW m \in 1 .. c PROVE p[m] # c + 1
  OBVIOUS
<1>4. ASSUME NEW a \in 1 .. c + 1, NEW b \in 1 .. c + 1, q[a] = q[b] PROVE a = b
  <2>1. CASE a = j + 1 /\ b = j + 1
    BY <2>1
  <2>2. CASE a = j + 1 /\ b # j + 1
    BY <1>1, <1>2, <1>3, <1>4, <2>2
  <2>3. CASE a # j + 1 /\ b = j + 1
    BY <1>1, <1>2, <1>3, <1>4, <2>3
  <2>4. CASE a # j + 1 /\ b # j + 1
    <3>1. PICK m \in 1 .. c : q[a] = p[m] /\ a = IF m <= j THEN m ELSE m + 1
      BY <1>2, <2>4
    <3>2. PICK n \in 1 .. c : q[b] = p[n] /\ b = IF n <= j THEN n ELSE n + 1
      BY <1>2, <2>4
    <3>3. p[m] = p[n]
      BY <1>4, <3>1, <3>2
    <3>4. m = n
      BY <3>3 DEF Whole
    <3> QED
      BY <3>1, <3>2, <3>4
  <2> QED
    BY <2>1, <2>2, <2>3, <2>4
<1>5. ASSUME NEW e \in 1 .. c + 1 PROVE \E k \in 1 .. c + 1 : q[k] = e
  <2>1. CASE e = c + 1
    <3>1. j + 1 \in 1 .. c + 1
      OBVIOUS
    <3> QED
      BY <1>1, <2>1, <3>1
  <2>2. CASE e # c + 1
    <3>1. e \in 1 .. c
      BY <2>2
    <3>2. PICK m \in 1 .. c : p[m] = e
      BY <3>1 DEF Whole
    <3>3. CASE m <= j
      <4>1. m \in 1 .. j /\ m \in 1 .. c + 1
        BY <3>3
      <4> QED
        BY <1>1, <3>2, <4>1
    <3>4. CASE ~(m <= j)
      <4>1. m \in j + 1 .. c /\ m + 1 \in 1 .. c + 1
        BY <3>4
      <4> QED
        BY <1>1, <3>2, <4>1
    <3> QED
      BY <3>3, <3>4
  <2> QED
    BY <2>1, <2>2
<1> QED
  BY <1>4, <1>5 DEF Whole

\* follows the links once the j-th element points to the new one and that to
\* the one behind,
LEMMA WithWay ==
    ASSUME NEW c \in Nat, NEW p \in [1 .. c -> 1 .. c], NEW j \in 0 .. c, NEW q, IsWith(q, p, c, j),
           NEW f, NEW nx, NEW ft, NEW mx, Way(p, c, f, nx),
           j # 0 => mx[p[j]] = c + 1,
           \A k \in 1 .. c : k # j => mx[p[k]] = nx[p[k]],
           mx[c + 1] = (IF j = 0 THEN f ELSE nx[p[j]]),
           ft = IF j = 0 THEN c + 1 ELSE f
    PROVE  Way(q, c + 1, ft, mx)
<1>1. /\ \A k \in 1 .. j : q[k] = p[k]
      /\ q[j + 1] = c + 1
      /\ \A k \in j + 1 .. c : q[k + 1] = p[k]
  BY DEF IsWith
<1>2. mx[c + 1] = IF j = c THEN NoElement ELSE p[j + 1]
  <2>1. CASE j = 0
    BY <2>1 DEF Way
  <2>2. CASE j # 0 /\ j = c
    BY <2>2 DEF Way
  <2>3. CASE j # 0 /\ j # c
    <3>1. j \in 1 .. c - 1
      BY <2>3
    <3> QED
      BY <2>3, <3>1 DEF Way
  <2> QED
    BY <2>1, <2>2, <2>3
<1>3. ft = q[1]
  <2>1. CASE j = 0
    <3>1. j + 1 = 1
      BY <2>1
    <3> QED
      BY <1>1, <2>1, <3>1
  <2>2. CASE j # 0
    <3>1. 1 \in 1 .. j /\ c # 0
      BY <2>2
    <3> QED
      BY <1>1, <2>2, <3>1 DEF Way
  <2> QED
    BY <2>1, <2>2
<1>4. mx[q[c + 1]] = NoElement
  <2>1. CASE j = c
    BY <1>1, <1>2, <2>1
  <2>2. CASE j # c
    <3>1. c \in j + 1 .. c /\ c \in 1 .. c /\ c # j /\ c # 0
      BY <2>2
    <3>2. q[c + 1] = p[c] /\ mx[p[c]] = nx[p[c]]
      BY <1>1, <3>1
    <3> QED
      BY <3>1, <3>2 DEF Way
  <2> QED
    BY <2>1, <2>2
<1>5. ASSUME NEW k \in 1 .. c PROVE mx[q[k]] = q[k + 1]
  <2>1. CASE k < j
    <3>1. k \in 1 .. j /\ k + 1 \in 1 .. j /\ k # j /\ k \in 1 .. c - 1
      BY <2>1
    <3>2. q[k] = p[k] /\ q[k + 1] = p[k + 1] /\ mx[p[k]] = nx[p[k]]
      BY <1>1, <3>1
    <3> QED
      BY <3>1, <3>2 DEF Way
  <2>2. CASE k = j
    <3>1. k \in 1 .. j /\ j # 0
      BY <2>2
    <3> QED
      BY <1>1, <2>2, <3>1
  <2>3. CASE k = j + 1
    <3>1. j # c /\ k \in j + 1 .. c
      BY <2>3
    <3> QED
      BY <1>1, <1>2, <2>3, <3>1
  <2>4. CASE k > j + 1
    <3>1. PICK m \in 1 .. c - 1 : m = k - 1 /\ k = m + 1
      BY <2>4
    <3>2. m \in j + 1 .. c /\ m \in 1 .. c /\ m # j /\ k \in j + 1 .. c
      BY <2>4, <3>1
    <3>3. q[m + 1] = p[m] /\ q[k + 1] = p[k] /\ mx[p[m]] = nx[p[m]]
      BY <1>1, <3>2
    <3> QED
      BY <3>1, <3>3 DEF Way
  <2>5. k < j \/ k = j \/ k = j + 1 \/ k > j + 1
    OBVIOUS
  <2> QED
    BY <2>1, <2>2, <2>3, <2>4, <2>5
<1>6. c + 1 # 0 /\ c + 1 - 1 = c
  OBVIOUS
<1> QED
  BY <1>3, <1>4, <1>5, <1>6 DEF Way

\* and is in order if the new book fits between its neighbours.
LEMMA WithOrdered ==
    ASSUME NEW c \in Nat, NEW p \in [1 .. c -> 1 .. c], NEW j \in 0 .. c, NEW q, IsWith(q, p, c, j),
           NEW is, NEW js, NEW i, Ordered(p, c, is),
           \A e \in 1 .. c : js[e] = is[e], js[c + 1] = i,
           IF keepsSorted THEN /\ j # 0 => is[p[j]] <= i
                               /\ j # c => i <= is[p[j + 1]]
                          ELSE j = 0
    PROVE  Ordered(q, c + 1, js)
<1>1. /\ \A k \in 1 .. j : q[k] = p[k]
      /\ q[j + 1] = c + 1
      /\ \A k \in j + 1 .. c : q[k + 1] = p[k]
  BY DEF IsWith
<1>2. \A k \in 1 .. c : p[k] \in 1 .. c /\ js[p[k]] = is[p[k]]
  OBVIOUS
<1>3. ASSUME NEW k \in 1 .. c
      PROVE  IF keepsSorted THEN js[q[k]] <= js[q[k + 1]] ELSE q[k] > q[k + 1]
  <2>1. CASE k < j
    <3>1. k \in 1 .. j /\ k + 1 \in 1 .. j /\ k \in 1 .. c - 1 /\ k + 1 \in 1 .. c
      BY <2>1
    <3>2. q[k] = p[k] /\ q[k + 1] = p[k + 1]
      BY <1>1, <3>1
    <3> QED
      BY <1>2, <3>1, <3>2 DEF Ordered
  <2>2. CASE k = j
    <3>1. k \in 1 .. j /\ j # 0
      BY <2>2
    <3> QED
      BY <1>1, <1>2, <2>2, <3>1
  <2>3. CASE k = j + 1
    <3>0. j # c /\ k \in j + 1 .. c
      BY <2>3
    <3>1. j # c /\ k \in j + 1 .. c /\ q[k] = c + 1 /\ q[k + 1] = p[k]
      BY <1>1, <2>3, <3>0
    <3>2. p[k] \in 1 .. c /\ js[p[k]] = is[p[k]]
      BY <1>2
    <3>3. keepsSorted => js[q[k]] <= js[q[k + 1]]
      BY <2>3, <3>1, <3>2
    <3>4. q[k] > q[k + 1]
      BY <3>1, <3>2
    <3> QED
      BY <3>3, <3>4
  <2>4. CASE k > j + 1
    <3>1. PICK m \in 1 .. c - 1 : m = k - 1 /\ k = m + 1
      BY <2>4
    <3>2. m \in j + 1 .. c /\ m \in 1 .. c /\ k \in j + 1 .. c
      BY <2>4, <3>1
    <3>3. q[k] = p[m] /\ q[k + 1] = p[m + 1]
      BY <1>1, <3>1, <3>2
    <3>4. IF keepsSorted THEN is[p[m]] <= is[p[m + 1]] ELSE p[m] > p[m + 1]
      BY <3>1 DEF Ordered
    <3>5. js[p[m]] = is[p[m]] /\ js[p[m + 1]] = is[p[m + 1]]
      BY <1>2, <3>1, <3>2
    <3> QED
      BY <3>3, <3>4, <3>5, Zenon
  <2>5. k < j \/ k = j \/ k = j + 1 \/ k > j + 1
    OBVIOUS
  <2> QED
    BY <2>1, <2>2, <2>3, <2>4, <2>5
<1>4. c + 1 - 1 = c
  OBVIOUS
<1> QED
  BY <1>3, <1>4 DEF Ordered

\* Where the new book goes: behind the j-th one.
GoesBehind(p, j, i) ==
    /\ first' = IF j = 0 THEN count + 1 ELSE first
    /\ next' = IF j = 0 THEN Append(next, first)
               ELSE Append([next EXCEPT ![p[j]] = count + 1], next[p[j]])
    /\ IF keepsSorted THEN /\ j # 0 => isbn[p[j]] <= i
                           /\ j # count => i <= isbn[p[j + 1]]
                      ELSE j = 0

\* insert_at_begin puts it behind the 0-th element.
LEMMA BeginIs ==
    ASSUME ListInv, NEW p, OnTheWay(p), NEW i, InsertAtBegin(count + 1),
           keepsSorted /\ count # 0 => i <= isbn[p[1]]
    PROVE  GoesBehind(p, 0, i)
<1>1. 0 + 1 = 1 /\ (0 # count <=> count # 0)
  BY ListBasics
<1> QED
  BY <1>1 DEF GoesBehind, InsertAtBegin

\* Either program puts it where it belongs.
LEMMA PlaceIs ==
    ASSUME ListInv, NEW p, OnTheWay(p), NEW i \in Isbn,
           \/ ~keepsSorted /\ InsertAtBegin(count + 1)
           \/ keepsSorted /\ InsertSorted(count + 1, i)
    PROVE  \E j \in 0 .. count : GoesBehind(p, j, i)
<1>1. count \in Nat /\ NoElement \notin 1 .. count
  BY ListBasics
<1>2. p \in [1 .. count -> 1 .. count] /\ Way(p, count, first, next)
  BY DEF OnTheWay
<1>3. i \in Nat /\ \A e \in 1 .. count : isbn[e] \in Nat
  <2>1. \A e \in 1 .. count : isbn[e] \in Isbn
    BY ElementOfSeq DEF ListInv
  <2> QED
    BY <2>1, BookListAssumption
<1>4. 0 \in 0 .. count
  BY <1>1
<1>5. CASE ~keepsSorted /\ InsertAtBegin(count + 1)
  BY <1>4, <1>5, BeginIs
<1>6. CASE keepsSorted /\ GoesFirst(i) /\ InsertAtBegin(count + 1)
  <2>1. ASSUME count # 0 PROVE i <= isbn[p[1]]
    <3>1. first = p[1] /\ p[1] \in 1 .. count
      BY <1>1, <1>2, <2>1 DEF Way
    <3>2. i < isbn[p[1]]
      BY <1>1, <1>6, <3>1 DEF GoesFirst
    <3> QED
      BY <1>3, <3>1, <3>2
  <2> QED
    BY <1>4, <1>6, <2>1, BeginIs
<1>7. CASE keepsSorted /\ ~GoesFirst(i) /\ InsertSorted(count + 1, i)
  <2>1. count # 0
    BY <1>2, <1>7 DEF GoesFirst, Way
  <2>2. PICK j \in 1 .. count : /\ StopAfter(first, i) = p[j]
                                /\ \A m \in 1 .. j - 1 : Goes(p[m], i)
                                /\ ~Goes(p[j], i)
    BY <1>2, <2>1, StopIs
  <2>3. /\ next' = Append([next EXCEPT ![p[j]] = count + 1], next[p[j]])
        /\ first' = first
    BY <1>7, <2>2 DEF InsertSorted
  <2>4. isbn[p[j]] <= i
    <3>1. CASE j = 1
      <4>1. first = p[1] /\ p[1] \in 1 .. count
        BY <1>1, <1>2, <2>1 DEF Way
      <4>2. ~(i < isbn[p[1]])
        BY <1>7, <4>1 DEF GoesFirst
      <4> QED
        BY <1>3, <3>1, <4>1, <4>2
    <3>2. CASE j # 1
      <4>1. PICK m \in 1 .. count - 1 : m = j - 1 /\ m + 1 = j /\ m \in 1 .. j - 1
        BY <1>1, <3>2
      <4>2. next[p[m]] = p[j] /\ Goes(p[m], i)
        BY <1>2, <2>2, <4>1 DEF Way
      <4>3. i > isbn[p[j]] /\ p[j] \in 1 .. count
        BY <1>2, <4>2 DEF Goes
      <4> QED
        BY <1>3, <4>3
    <3> QED
      BY <3>1, <3>2
  <2>5. ASSUME j # count PROVE i <= isbn[p[j + 1]]
    <3>1. j \in 1 .. count - 1 /\ j + 1 \in 1 .. count
      BY <1>1, <2>5
    <3>2. next[p[j]] = p[j + 1] /\ p[j + 1] \in 1 .. count
      BY <1>2, <3>1 DEF Way
    <3>3. ~(i > isbn[p[j + 1]])
      BY <1>1, <2>2, <3>2 DEF Goes
    <3> QED
      BY <1>3, <3>2, <3>3
  <2>6. j \in 0 .. count /\ j # 0
    BY <1>1
  <2> QED
    BY <1>7, <2>3, <2>4, <2>5, <2>6 DEF GoesBehind
<1> QED
  BY <1>5, <1>6, <1>7 DEF InsertSorted

\* One line of the file more.
LEMMA ListStep == ListInv /\ ListNext => ListInv'
<1> SUFFICES ASSUME ListInv, ListNext PROVE ListInv'
  OBVIOUS
<1>1. PICK i \in Isbn : ReadBook(i)
  BY DEF ListNext
<1>2. PICK p : OnTheWay(p)
  BY DEF ListInv
<1>3. PICK c \in Nat : c = count /\ c + 1 \in Element /\ c \in 0 .. MaxBooks /\ NoElement \notin 1 .. c
  BY <1>1, ListBasics DEF ReadBook, ListInv
<1>4. /\ isbn' = Append(isbn, i) /\ count' = c + 1 /\ keepsSorted' = keepsSorted
      /\ isbn \in Seq(Isbn) /\ Len(isbn) = c
      /\ next \in Seq(Element \cup {NoElement}) /\ Len(next) = c
      /\ keepsSorted \in BOOLEAN
  BY <1>1, <1>3 DEF ReadBook, ListInv
<1>5. PICK j \in 0 .. c : GoesBehind(p, j, i)
  BY <1>1, <1>2, <1>3, <1>4, PlaceIs DEF ReadBook
<1>6. /\ p \in [1 .. c -> 1 .. c] /\ Way(p, c, first, next) /\ Whole(p, c) /\ Ordered(p, c, isbn)
  BY <1>2, <1>3 DEF OnTheWay
<1>7. /\ isbn' \in Seq(Isbn) /\ Len(isbn') = c + 1
      /\ \A e \in 1 .. c : isbn'[e] = isbn[e]
      /\ isbn'[c + 1] = i
  BY <1>4, AppendProperties
<1>8. /\ first \in Element \cup {NoElement}
      /\ j # 0 => next[p[j]] \in Element \cup {NoElement} /\ p[j] \in 1 .. c
  <2>1. \A e \in 1 .. c : e \in Element /\ next[e] \in Element \cup {NoElement}
    <3>1. \A e \in 1 .. c : next[e] \in Element \cup {NoElement}
      BY <1>4, ElementOfSeq
    <3>2. \A e \in 1 .. c : e \in Element
      BY <1>3, BookListAssumption DEF Element
    <3> QED
      BY <3>1, <3>2
  <2>2. first \in Element \cup {NoElement}
    <3>1. CASE c = 0
      BY <1>6, <3>1 DEF Way
    <3>2. CASE c # 0
      <4>1. 1 \in 1 .. c
        BY <3>2
      <4>2. first = p[1] /\ p[1] \in 1 .. c
        BY <1>6, <3>2, <4>1 DEF Way
      <4> QED
        BY <2>1, <4>2
    <3> QED
      BY <3>1, <3>2
  <2>3. ASSUME j # 0 PROVE next[p[j]] \in Element \cup {NoElement} /\ p[j] \in 1 .. c
    <3>1. j \in 1 .. c
      BY <2>3
    <3>2. p[j] \in 1 .. c
      BY <1>6, <3>1
    <3> QED
      BY <2>1, <3>2
  <2> QED
    BY <2>2, <2>3
<1>9. PICK nx \in Seq(Element \cup {NoElement}) :
         /\ nx = (IF j = 0 THEN next ELSE [next EXCEPT ![p[j]] = c + 1]) /\ Len(nx) = c
         /\ j # 0 => nx[p[j]] = c + 1
         /\ \A k \in 1 .. c : k # j => nx[p[k]] = next[p[k]]
  <2>1. CASE j = 0
    BY <1>4, <2>1
  <2>2. CASE j # 0
    <3>1. j \in 1 .. c /\ p[j] \in 1 .. Len(next) /\ c + 1 \in Element \cup {NoElement}
      BY <1>3, <1>4, <1>8, <2>2
    <3>2. PICK nx : nx = [next EXCEPT ![p[j]] = c + 1]
      OBVIOUS
    <3>3. /\ nx \in Seq(Element \cup {NoElement}) /\ Len(nx) = c
          /\ \A e \in 1 .. c : nx[e] = IF e = p[j] THEN c + 1 ELSE next[e]
      BY <1>4, <3>1, <3>2, ExceptSeq
    <3>4. ASSUME NEW k \in 1 .. c, k # j PROVE nx[p[k]] = next[p[k]]
      <4>1. p[k] \in 1 .. c /\ p[k] # p[j]
        BY <1>6, <3>1, <3>4 DEF Whole
      <4> QED
        BY <3>3, <4>1
    <3>5. nx[p[j]] = c + 1
      BY <1>4, <3>1, <3>3
    <3> QED
      BY <2>2, <3>2, <3>3, <3>4, <3>5
  <2> QED
    BY <2>1, <2>2
<1>10. PICK v \in Element \cup {NoElement} : v = (IF j = 0 THEN first ELSE next[p[j]])
  BY <1>8
<1>11. next' = Append(nx, v) /\ first' = IF j = 0 THEN c + 1 ELSE first
  BY <1>3, <1>5, <1>9, <1>10 DEF GoesBehind
<1>12. /\ next' \in Seq(Element \cup {NoElement}) /\ Len(next') = c + 1
       /\ \A e \in 1 .. c : next'[e] = nx[e]
       /\ next'[c + 1] = v
  BY <1>9, <1>11, AppendProperties
<1>13. PICK q \in [1 .. c + 1 -> 1 .. c + 1] : IsWith(q, p, c, j)
  BY <1>6, WithIs
<1>14. Whole(q, c + 1)
  BY <1>6, <1>13, WithWhole
<1>15. Way(q, c + 1, first', next')
  <2>1. j # 0 => next'[p[j]] = c + 1
    BY <1>8, <1>9, <1>12
  <2>2. \A k \in 1 .. c : k # j => next'[p[k]] = next[p[k]]
    <3> SUFFICES ASSUME NEW k \in 1 .. c, k # j PROVE next'[p[k]] = next[p[k]]
      OBVIOUS
    <3>1. p[k] \in 1 .. c /\ nx[p[k]] = next[p[k]]
      BY <1>6, <1>9
    <3> QED
      BY <1>12, <3>1
  <2>3. PICK mx, ft : mx = next' /\ ft = first'
    OBVIOUS
  <2>4. /\ j # 0 => mx[p[j]] = c + 1
        /\ \A k \in 1 .. c : k # j => mx[p[k]] = next[p[k]]
        /\ mx[c + 1] = (IF j = 0 THEN first ELSE next[p[j]])
        /\ ft = IF j = 0 THEN c + 1 ELSE first
    BY <1>10, <1>11, <1>12, <2>1, <2>2, <2>3
  <2>5. Way(q, c + 1, ft, mx)
    BY <1>6, <1>13, <2>4, WithWay
  <2> QED
    BY <2>3, <2>5
<1>16. Ordered(q, c + 1, isbn')
  <2>1. IF keepsSorted THEN /\ j # 0 => isbn[p[j]] <= i
                            /\ j # c => i <= isbn[p[j + 1]]
                       ELSE j = 0
    BY <1>3, <1>5 DEF GoesBehind
  <2> QED
    BY <1>6, <1>7, <1>13, <2>1, WithOrdered
<1>17. OnTheWay(q)'
  BY <1>4, <1>13, <1>14, <1>15, <1>16 DEF OnTheWay, Way, Whole, Ordered
<1>18. c + 1 \in 0 .. MaxBooks
  BY <1>3 DEF Element
<1> QED
  BY <1>4, <1>7, <1>12, <1>17, <1>18 DEF ListInv

\* With such a way the list is what print_list and free_list rely on.
LEMMA ListInvIsSound == ListInv => ListSound
<1> SUFFICES ASSUME ListInv PROVE ListSound
  OBVIOUS
<1>1. count \in Nat /\ Len(isbn) = count
  BY ListBasics DEF ListInv
<1>2. PICK b : b = Books /\ OnTheWay(b)
  BY BooksAre
<1>3. b \in [1 .. count -> 1 .. count] /\ Len(b) = count
  BY <1>1, <1>2, WaySeq DEF OnTheWay
<1>4. EveryBookOnce
  BY <1>1, <1>2, <1>3 DEF EveryBookOnce, OnTheWay, Whole
<1>5. InOrderOfProgram
  BY <1>2, <1>3 DEF InOrderOfProgram, OnTheWay, Ordered
<1> QED
  BY <1>4, <1>5 DEF ListSound

\* The elements form one list, without a loop and without a lost element,
\* whatever is read and in both programs.
THEOREM ListInvariant == ListSpec => []ListInv
<1>1. ListInit => ListInv
  <2> SUFFICES ASSUME ListInit PROVE ListInv
    OBVIOUS
  <2>1. count = 0 /\ 0 \in 0 .. MaxBooks
    BY BookListAssumption DEF ListInit
  <2>2. isbn \in Seq(Isbn) /\ Len(isbn) = 0 /\ next \in Seq(Element \cup {NoElement}) /\ Len(next) = 0
    BY DEF ListInit
  <2>3. PICK p : p = [k \in 1 .. 0 |-> k]
    OBVIOUS
  <2>4. OnTheWay(p)
    BY <2>1, <2>3 DEF OnTheWay, Way, Whole, Ordered, ListInit
  <2> QED
    BY <2>1, <2>2, <2>4 DEF ListInv, ListInit
<1>2. ListInv /\ UNCHANGED listVars => ListInv'
  <2> SUFFICES ASSUME ListInv, UNCHANGED listVars PROVE ListInv'
    OBVIOUS
  <2>1. PICK p : OnTheWay(p)
    BY DEF ListInv
  <2>2. /\ keepsSorted' = keepsSorted /\ count' = count /\ first' = first
        /\ isbn' = isbn /\ next' = next
    BY DEF listVars
  <2>3. OnTheWay(p)'
    BY <2>1, <2>2 DEF OnTheWay, Way, Whole, Ordered
  <2> QED
    BY <2>2, <2>3 DEF ListInv
<1> QED
  BY <1>1, <1>2, ListStep, PTL DEF ListSpec

\* Every book that has been read is found once, in the order of the program,
\* for every number of books, all ISBNs and every order in the file.
THEOREM ListIsSound == ListSpec => []ListSound
BY ListInvariant, ListInvIsSound, PTL
-----------------------------------------------------------------------------
(* The sorting programs: every length, every range of values.              *)

Place == 0 .. len - 1
Arrays == [Place -> Value]

\* No place twice.
Once(f) == \A i, j \in Place : f[i] = f[j] => i = j

\* b has a's values, those of other places: f says which.
Shuffled(b, a, f) ==
    /\ f \in [Place -> Place] /\ Once(f)
    /\ \A i \in Place : b[i] = a[f[i]]

\* Outside of low .. high nothing has moved.
Still(f, low, high) == \A i \in Place : i < low \/ i > high => f[i] = i

\* Sorted from low to high.
Ascending(a, low, high) ==
    \A i, j \in Place : low <= i /\ i < j /\ j <= high => a[i] <= a[j]

LEMMA PlaceFinite ==
    ASSUME len \in Nat
    PROVE  IsFiniteSet(Place) /\ Cardinality(Place) = len
<1>1. 0 \in Int /\ len - 1 \in Int
  OBVIOUS
<1>2. /\ IsFiniteSet(0 .. len - 1)
      /\ Cardinality(0 .. len - 1) = IF 0 > len - 1 THEN 0 ELSE (len - 1) - 0 + 1
  BY <1>1, FS_Interval
<1> QED
  BY <1>2 DEF Place

\* A map of the places that has none twice has them all.
LEMMA OnceIsOnto ==
    ASSUME len \in Nat, NEW f \in [Place -> Place], Once(f)
    PROVE  \A k \in Place : \E i \in Place : f[i] = k
<1>1. f \in Injection(Place, Place)
  BY DEF Injection, IsInjective, Once
<1>2. f \in Surjection(Place, Place)
  BY <1>1, PlaceFinite, FS_Injection
<1> QED
  BY <1>2 DEF Surjection

\* One after the other.
LEMMA ShuffledTwice ==
    ASSUME NEW a, NEW b, NEW c, NEW f, NEW g, Shuffled(b, a, f), Shuffled(c, b, g)
    PROVE  \E h : /\ Shuffled(c, a, h)
                  /\ \A low, high : Still(f, low, high) /\ Still(g, low, high)
                                        => Still(h, low, high)
<1>1. PICK h : h = [i \in Place |-> f[g[i]]]
  OBVIOUS
<1>2. h \in [Place -> Place] /\ \A i \in Place : h[i] = f[g[i]] /\ g[i] \in Place
  BY <1>1 DEF Shuffled
<1>3. Once(h)
  BY <1>2 DEF Shuffled, Once
<1>4. \A i \in Place : c[i] = a[h[i]]
  BY <1>2 DEF Shuffled
<1>5. ASSUME NEW low, NEW high, Still(f, low, high), Still(g, low, high)
      PROVE  Still(h, low, high)
  BY <1>2, <1>5 DEF Still
<1> QED
  BY <1>2, <1>3, <1>4, <1>5 DEF Shuffled

\* Nothing has been moved.
LEMMA ShuffledNot ==
    ASSUME NEW a
    PROVE  \E f : Shuffled(a, a, f) /\ \A low, high : Still(f, low, high)
<1>1. PICK f : f = [i \in Place |-> i]
  OBVIOUS
<1> QED
  BY <1>1 DEF Shuffled, Once, Still

\* A value is there as often as it was before.
LEMMA AsOften ==
    ASSUME len \in Nat, NEW a \in Arrays, NEW b \in Arrays, NEW f, Shuffled(b, a, f), NEW v
    PROVE  HowMany(b, v) = HowMany(a, v)
<1>1. PICK S : S = {i \in Place : b[i] = v}
  OBVIOUS
<1>2. PICK T : T = {i \in Place : a[i] = v}
  OBVIOUS
<1>3. PICK g : g = [i \in S |-> f[i]]
  OBVIOUS
<1>4. g \in [S -> T] /\ \A i \in S : g[i] = f[i]
  BY <1>1, <1>2, <1>3 DEF Shuffled
<1>5. \A i, j \in S : g[i] = g[j] => i = j
  BY <1>1, <1>4 DEF Shuffled, Once
<1>6. ASSUME NEW k \in T PROVE \E i \in S : g[i] = k
  <2>1. PICK i \in Place : f[i] = k
    BY <1>2, OnceIsOnto DEF Shuffled
  <2>2. b[i] = v
    BY <1>2, <2>1 DEF Shuffled
  <2> QED
    BY <1>1, <1>4, <2>1, <2>2
<1>7. ExistsBijection(S, T)
  <2>1. g \in Bijection(S, T)
    BY <1>4, <1>5, <1>6 DEF Bijection, Injection, IsInjective, Surjection
  <2> QED
    BY <2>1 DEF ExistsBijection
<1>8. IsFiniteSet(S)
  <2>1. S \in SUBSET Place
    BY <1>1
  <2> QED
    BY <2>1, PlaceFinite, FS_Subset
<1>9. Cardinality(T) = Cardinality(S)
  BY <1>7, <1>8, FS_Bijection
<1>10. DOMAIN a = Place /\ DOMAIN b = Place
  BY DEF Arrays
<1> QED
  BY <1>1, <1>2, <1>9, <1>10 DEF HowMany
-----------------------------------------------------------------------------
(* One merge.                                                              *)

\* The two fronts F; the low one is taken.
FromLeft(a, mid, high, F) == F[1] <= mid /\ (F[2] > high \/ a[F[1]] <= a[F[2]])
Front(a, mid, high, F) == IF FromLeft(a, mid, high, F) THEN F[1] ELSE F[2]
Past(a, mid, high, F) ==
    IF FromLeft(a, mid, high, F) THEN <<F[1] + 1, F[2]>> ELSE <<F[1], F[2] + 1>>

\* r is where the fronts are after each element.
FrontsOf(r, a, low, mid, high) ==
    /\ r = [k \in 0 .. high - low |-> r[k]]
    /\ \A k \in 0 .. high - low :
          r[k] = IF k = 0 THEN <<low, mid + 1>> ELSE Past(a, mid, high, r[k - 1])

LEMMA FrontsExist ==
    ASSUME NEW a, NEW low \in Nat, NEW mid \in Nat, NEW high \in Nat, low <= high
    PROVE  \E r : FrontsOf(r, a, low, mid, high)
<1>1. PICK V : V = Nat \X Nat
  OBVIOUS
<1>2. PICK step : step = [x \in Nat \X V |-> Past(a, mid, high, x[2])]
  OBVIOUS
<1>3. \A F \in V : Past(a, mid, high, F) \in V
  BY <1>1 DEF Past
<1>4. step \in [Nat \X V -> V]
  BY <1>2, <1>3
<1>5. \A i \in Nat, F \in V : step[<<i, F>>] = Past(a, mid, high, F)
  BY <1>2
<1>6. <<low, mid + 1>> \in V /\ high - low \in Nat
  BY <1>1
<1>7. PICK r \in [0 .. high - low -> V] : Follows(r, high - low, <<low, mid + 1>>, step)
  BY <1>4, <1>6, FollowsExists
<1>8. ASSUME NEW k \in 0 .. high - low
      PROVE  r[k] = IF k = 0 THEN <<low, mid + 1>> ELSE Past(a, mid, high, r[k - 1])
  <2>1. CASE k = 0
    BY <1>7, <2>1 DEF Follows
  <2>2. CASE k # 0
    <3>1. k - 1 \in 0 .. (high - low) - 1 /\ (k - 1) + 1 = k /\ k - 1 \in Nat
      BY <1>6, <2>2
    <3>2. r[k] = step[<<k - 1, r[k - 1]>>]
      BY <1>7, <3>1 DEF Follows
    <3>3. r[k - 1] \in V
      BY <1>6, <1>7, <3>1
    <3> QED
      BY <1>5, <2>2, <3>1, <3>2, <3>3
  <2> QED
    BY <2>1, <2>2
<1> QED
  BY <1>7, <1>8 DEF FrontsOf

LEMMA MergeIsFunction ==
    ASSUME NEW a, NEW low, NEW mid, NEW high
    PROVE  Merge(a, low, mid, high) = [i \in DOMAIN a |-> Merge(a, low, mid, high)[i]]
<1> DEFINE r == CHOOSE r : r = [k \in 0 .. high - low |->
                              IF k = 0 THEN <<low, mid + 1>>
                              ELSE IF FromLeft(a, mid, high, r[k - 1])
                                   THEN <<r[k - 1][1] + 1, r[k - 1][2]>>
                                   ELSE <<r[k - 1][1], r[k - 1][2] + 1>>]
<1>1. Merge(a, low, mid, high) =
         [i \in DOMAIN a |->
            IF i \in low .. high
            THEN IF FromLeft(a, mid, high, r[i - low])
                 THEN a[r[i - low][1]] ELSE a[r[i - low][2]]
            ELSE a[i]]
  BY DEF Merge, FromLeft
<1> HIDE DEF r
<1> QED
  BY <1>1

\* What merge writes.
IsMerged(b, r, a, low, mid, high) ==
    /\ FrontsOf(r, a, low, mid, high)
    /\ DOMAIN b = DOMAIN a
    /\ \A i \in DOMAIN a :
          b[i] = IF i \in low .. high THEN a[Front(a, mid, high, r[i - low])] ELSE a[i]

LEMMA MergeIs ==
    ASSUME NEW a, NEW low \in Nat, NEW mid \in Nat, NEW high \in Nat, low <= high
    PROVE  \E r : IsMerged(Merge(a, low, mid, high), r, a, low, mid, high)
<1> DEFINE R == CHOOSE r : r = [k \in 0 .. high - low |->
                              IF k = 0 THEN <<low, mid + 1>>
                              ELSE IF FromLeft(a, mid, high, r[k - 1])
                                   THEN <<r[k - 1][1] + 1, r[k - 1][2]>>
                                   ELSE <<r[k - 1][1], r[k - 1][2] + 1>>]
<1>1. PICK r : FrontsOf(r, a, low, mid, high)
  BY FrontsExist
<1>2. r = [k \in 0 .. high - low |->
                              IF k = 0 THEN <<low, mid + 1>>
                              ELSE IF FromLeft(a, mid, high, r[k - 1])
                                   THEN <<r[k - 1][1] + 1, r[k - 1][2]>>
                                   ELSE <<r[k - 1][1], r[k - 1][2] + 1>>]
  BY <1>1, ZenonT(30) DEF FrontsOf, Past
<1>3. R = [k \in 0 .. high - low |->
                              IF k = 0 THEN <<low, mid + 1>>
                              ELSE IF FromLeft(a, mid, high, R[k - 1])
                                   THEN <<R[k - 1][1] + 1, R[k - 1][2]>>
                                   ELSE <<R[k - 1][1], R[k - 1][2] + 1>>]
  BY <1>2
<1>4. FrontsOf(R, a, low, mid, high)
  <2> HIDE DEF R
  <2> QED
    BY <1>3 DEF FrontsOf, Past
<1>5. Merge(a, low, mid, high) =
         [i \in DOMAIN a |->
            IF i \in low .. high
            THEN IF FromLeft(a, mid, high, R[i - low])
                 THEN a[R[i - low][1]] ELSE a[R[i - low][2]]
            ELSE a[i]]
  BY DEF Merge, FromLeft
<1>6. \A F : a[Front(a, mid, high, F)] =
                IF FromLeft(a, mid, high, F) THEN a[F[1]] ELSE a[F[2]]
  BY DEF Front
<1> HIDE DEF R
<1> QED
  BY <1>4, <1>5, <1>6 DEF IsMerged

\* The parts of the array that merge is given.
Halves(low, mid, high) ==
    low \in Nat /\ mid \in Nat /\ high \in Nat /\ low <= mid /\ mid < high /\ high < len

\* Where the fronts are after k elements.
FrontsAt(r, low, mid, high, k) ==
    /\ r[k] \in Nat \X Nat
    /\ low <= r[k][1] /\ r[k][1] <= mid + 1
    /\ mid + 1 <= r[k][2] /\ r[k][2] <= high + 1
    /\ r[k][1] + r[k][2] = (low + mid) + (1 + k)

LEMMA PastIs ==
    ASSUME NEW a, NEW low, NEW mid, NEW high, len \in Nat, Halves(low, mid, high),
           NEW x \in Nat, NEW y \in Nat, low <= x, x <= mid + 1, mid + 1 <= y, y <= high + 1,
           x + y < (mid + 1) + (high + 1)
    PROVE  \/ /\ FromLeft(a, mid, high, <<x, y>>) /\ x <= mid
              /\ Past(a, mid, high, <<x, y>>) = <<x + 1, y>>
              /\ Front(a, mid, high, <<x, y>>) = x
           \/ /\ ~FromLeft(a, mid, high, <<x, y>>) /\ y <= high
              /\ Past(a, mid, high, <<x, y>>) = <<x, y + 1>>
              /\ Front(a, mid, high, <<x, y>>) = y
BY DEF Past, Front, FromLeft, Halves

LEMMA FrontsAre ==
    ASSUME NEW a, NEW low, NEW mid, NEW high, len \in Nat, Halves(low, mid, high),
           NEW r, FrontsOf(r, a, low, mid, high), NEW k \in 0 .. high - low
    PROVE  FrontsAt(r, low, mid, high, k)
<1>1. PICK m : m = high - low /\ m \in Nat
  BY DEF Halves
<1>2. PICK S : S = {n \in 0 .. m : FrontsAt(r, low, mid, high, n)}
  OBVIOUS
<1>3. 0 \in S
  <2>1. 0 \in 0 .. m /\ r[0] = <<low, mid + 1>>
    <3>1. 0 \in 0 .. m /\ 0 \in 0 .. high - low
      BY <1>1
    <3> QED
      BY <3>1 DEF FrontsOf
  <2>2. FrontsAt(r, low, mid, high, 0)
    BY <2>1 DEF FrontsAt, Halves
  <2> QED
    BY <1>2, <2>1, <2>2
<1>4. ASSUME NEW n \in 0 .. m - 1, n \in S PROVE n + 1 \in S
  <2>1. n \in Nat /\ n + 1 \in 0 .. m /\ n + 1 # 0 /\ (n + 1) - 1 = n
    BY <1>1
  <2>2. r[n + 1] = Past(a, mid, high, r[n])
    BY <1>1, <2>1 DEF FrontsOf
  <2>3. FrontsAt(r, low, mid, high, n)
    BY <1>2, <1>4
  <2>4. PICK x \in Nat, y \in Nat : r[n] = <<x, y>>
    BY <2>3 DEF FrontsAt
  <2>5. /\ low <= x /\ x <= mid + 1 /\ mid + 1 <= y /\ y <= high + 1
        /\ x + y = (low + mid) + (1 + n)
    BY <2>3, <2>4 DEF FrontsAt
  <2>6. x + y < (mid + 1) + (high + 1)
    BY <1>1, <2>1, <2>5 DEF Halves
  <2>7. \/ x <= mid /\ r[n + 1] = <<x + 1, y>>
        \/ y <= high /\ r[n + 1] = <<x, y + 1>>
    <3>1. \/ x <= mid /\ Past(a, mid, high, <<x, y>>) = <<x + 1, y>>
          \/ y <= high /\ Past(a, mid, high, <<x, y>>) = <<x, y + 1>>
      <4>1. low <= x /\ x <= mid + 1 /\ mid + 1 <= y /\ y <= high + 1
        BY <2>5
      <4> QED
        BY <2>6, <4>1, PastIs
    <3>2. r[n + 1] = Past(a, mid, high, <<x, y>>)
      BY <2>2, <2>4
    <3> QED
      BY <3>1, <3>2
  <2>8. low \in Nat /\ mid \in Nat /\ high \in Nat
    BY DEF Halves
  <2>9. FrontsAt(r, low, mid, high, n + 1)
    <3>1. CASE x <= mid /\ r[n + 1] = <<x + 1, y>>
      <4>1. x + 1 \in Nat /\ (x + 1) + y = (low + mid) + (1 + (n + 1))
        BY <2>1, <2>5, <2>8
      <4> QED
        BY <2>5, <2>8, <3>1, <4>1 DEF FrontsAt
    <3>2. CASE y <= high /\ r[n + 1] = <<x, y + 1>>
      <4>1. y + 1 \in Nat /\ x + (y + 1) = (low + mid) + (1 + (n + 1))
        BY <2>1, <2>5, <2>8
      <4> QED
        BY <2>5, <2>8, <3>2, <4>1 DEF FrontsAt
    <3> QED
      BY <2>7, <3>1, <3>2
  <2> QED
    BY <1>2, <2>1, <2>9
<1>5. k \in S
  BY <1>1, <1>3, <1>4, AllUpTo
<1> QED
  BY <1>2, <1>5

\* What has not been taken.
Untaken(F, mid, high) ==
    {x \in Nat : F[1] <= x /\ x <= mid} \cup {x \in Nat : F[2] <= x /\ x <= high}

\* What is taken is there, and is gone afterwards; nothing comes back.
Takes(r, a, mid, high, k) ==
    Untaken(r[k + 1], mid, high) = Untaken(r[k], mid, high) \ {Front(a, mid, high, r[k])}

LEMMA FrontTaken ==
    ASSUME NEW a, NEW low, NEW mid, NEW high, len \in Nat, Halves(low, mid, high),
           NEW r, FrontsOf(r, a, low, mid, high), NEW k \in 0 .. high - low
    PROVE  /\ Front(a, mid, high, r[k]) \in Untaken(r[k], mid, high)
           /\ k < high - low => Takes(r, a, mid, high, k)
<1>1. low \in Nat /\ mid \in Nat /\ high \in Nat /\ low < high
  BY DEF Halves
<1>2. FrontsAt(r, low, mid, high, k)
  BY FrontsAre
<1>3. PICK x \in Nat, y \in Nat : r[k] = <<x, y>>
  BY <1>2 DEF FrontsAt
<1>4. /\ low <= x /\ x <= mid + 1 /\ mid + 1 <= y /\ y <= high + 1
      /\ x + y = (low + mid) + (1 + k) /\ k \in Nat /\ k <= high - low
  BY <1>1, <1>2, <1>3 DEF FrontsAt
<1>5. x + y < (mid + 1) + (high + 1)
  BY <1>1, <1>4
<1>6. \/ /\ Past(a, mid, high, r[k]) = <<x + 1, y>> /\ x <= mid
         /\ Front(a, mid, high, r[k]) = x
      \/ /\ Past(a, mid, high, r[k]) = <<x, y + 1>> /\ y <= high
         /\ Front(a, mid, high, r[k]) = y
  <2>1. \/ /\ Past(a, mid, high, <<x, y>>) = <<x + 1, y>> /\ x <= mid
           /\ Front(a, mid, high, <<x, y>>) = x
        \/ /\ Past(a, mid, high, <<x, y>>) = <<x, y + 1>> /\ y <= high
           /\ Front(a, mid, high, <<x, y>>) = y
    BY <1>4, <1>5, PastIs
  <2> QED
    BY <1>3, <2>1
<1>7. Front(a, mid, high, r[k]) \in Untaken(r[k], mid, high)
  BY <1>1, <1>3, <1>4, <1>6 DEF Untaken
<1>8. ASSUME k < high - low
      PROVE  Untaken(r[k + 1], mid, high) =
                    Untaken(r[k], mid, high) \ {Front(a, mid, high, r[k])}
  <2>1. k + 1 \in 0 .. high - low /\ k + 1 # 0 /\ (k + 1) - 1 = k
    BY <1>1, <1>4, <1>8
  <2>2. r[k + 1] = Past(a, mid, high, r[k])
    BY <2>1 DEF FrontsOf
  <2>3. CASE r[k + 1] = <<x + 1, y>> /\ x <= mid /\ Front(a, mid, high, r[k]) = x
    BY <1>1, <1>3, <1>4, <2>3 DEF Untaken
  <2>4. CASE r[k + 1] = <<x, y + 1>> /\ y <= high /\ Front(a, mid, high, r[k]) = y
    BY <1>1, <1>3, <1>4, <2>4 DEF Untaken
  <2> QED
    BY <1>6, <2>2, <2>3, <2>4
<1> QED
  BY <1>7, <1>8 DEF Takes

LEMMA RestShrinks ==
    ASSUME NEW a, NEW low, NEW mid, NEW high, len \in Nat, Halves(low, mid, high),
           NEW r, FrontsOf(r, a, low, mid, high),
           NEW j \in 0 .. high - low, NEW k \in 0 .. high - low, j < k
    PROVE  Untaken(r[k], mid, high)
             \subseteq Untaken(r[j], mid, high) \ {Front(a, mid, high, r[j])}
<1>1. PICK m : m = high - low /\ m \in Nat /\ j \in Nat /\ k \in Nat /\ j < k /\ k <= m
  BY DEF Halves
<1>2. PICK S : S = {n \in 0 .. (k - j) - 1 :
                      Untaken(r[(j + 1) + n], mid, high)
                        \subseteq Untaken(r[j], mid, high) \ {Front(a, mid, high, r[j])}}
  OBVIOUS
<1>3. 0 \in S
  <2>1. (j + 1) + 0 = j + 1 /\ 0 \in 0 .. (k - j) - 1 /\ j < high - low
    BY <1>1
  <2>2. Takes(r, a, mid, high, j)
    BY <2>1, FrontTaken
  <2> QED
    BY <1>2, <2>1, <2>2 DEF Takes
<1>4. ASSUME NEW n \in 0 .. ((k - j) - 1) - 1, n \in S PROVE n + 1 \in S
  <2>1. PICK i \in 0 .. high - low : i = (j + 1) + n
    BY <1>1
  <2>2. i < high - low /\ (j + 1) + (n + 1) = i + 1 /\ n + 1 \in 0 .. (k - j) - 1
    BY <1>1, <2>1
  <2>3. Takes(r, a, mid, high, i)
    BY <2>2, FrontTaken
  <2>4. Untaken(r[i], mid, high)
          \subseteq Untaken(r[j], mid, high) \ {Front(a, mid, high, r[j])}
    BY <1>2, <1>4, <2>1
  <2> QED
    BY <1>2, <2>1, <2>2, <2>3, <2>4 DEF Takes
<1>5. (k - j) - 1 \in Nat /\ (k - j) - 1 \in 0 .. (k - j) - 1 /\ (j + 1) + ((k - j) - 1) = k
  BY <1>1
<1>6. (k - j) - 1 \in S
  BY <1>3, <1>4, <1>5, AllUpTo
<1> QED
  BY <1>2, <1>5, <1>6

\* Everything that is taken later is left now.
LEMMA TakenLater ==
    ASSUME NEW a, NEW low, NEW mid, NEW high, len \in Nat, Halves(low, mid, high),
           NEW r, FrontsOf(r, a, low, mid, high),
           NEW j \in 0 .. high - low, NEW k \in 0 .. high - low, j < k
    PROVE  /\ Front(a, mid, high, r[k]) \in Untaken(r[j], mid, high)
           /\ Front(a, mid, high, r[k]) # Front(a, mid, high, r[j])
<1>1. Front(a, mid, high, r[k]) \in Untaken(r[k], mid, high)
  BY FrontTaken, Zenon
<1>2. Untaken(r[k], mid, high)
        \subseteq Untaken(r[j], mid, high) \ {Front(a, mid, high, r[j])}
  BY RestShrinks, Zenon
<1> QED
  BY <1>1, <1>2

\* A merge keeps every element of the part it is given.
LEMMA MergeShuffles ==
    ASSUME NEW a \in Arrays, NEW low, NEW mid, NEW high, len \in Nat, Halves(low, mid, high)
    PROVE  /\ Merge(a, low, mid, high) \in Arrays
           /\ \E f : Shuffled(Merge(a, low, mid, high), a, f) /\ Still(f, low, high)
<1>1. PICK b : b = Merge(a, low, mid, high)
  OBVIOUS
<1>2. /\ low \in Nat /\ mid \in Nat /\ high \in Nat /\ low <= mid /\ mid < high /\ high < len
      /\ low <= high /\ DOMAIN a = Place
  BY DEF Halves, Arrays
<1>0. PICK r : IsMerged(b, r, a, low, mid, high)
  BY <1>1, <1>2, MergeIs
<1>3. /\ FrontsOf(r, a, low, mid, high)
      /\ \A i \in Place : b[i] = IF i \in low .. high
                                 THEN a[Front(a, mid, high, r[i - low])] ELSE a[i]
  BY <1>0, <1>2 DEF IsMerged
<1>4. PICK f : f = [i \in Place |-> IF i \in low .. high THEN Front(a, mid, high, r[i - low]) ELSE i]
  OBVIOUS
<1>5. ASSUME NEW i \in low .. high
      PROVE  /\ i \in Place /\ f[i] = Front(a, mid, high, r[i - low]) /\ i - low \in 0 .. high - low
             /\ f[i] \in low .. high /\ f[i] \in Place
  <2>1. i \in Place /\ i - low \in 0 .. high - low
    BY <1>2 DEF Place
  <2>2. f[i] = Front(a, mid, high, r[i - low])
    BY <1>4, <2>1
  <2>3. f[i] \in Untaken(r[i - low], mid, high)
    <3>1. PICK k \in 0 .. high - low : k = i - low
      BY <2>1
    <3>2. Front(a, mid, high, r[k]) \in Untaken(r[k], mid, high)
      BY <1>3, FrontTaken
    <3> QED
      BY <2>2, <3>1, <3>2
  <2>4. FrontsAt(r, low, mid, high, i - low)
    BY <1>3, <2>1, FrontsAre
  <2>5. PICK x \in Nat, y \in Nat : r[i - low] = <<x, y>> /\ low <= x /\ mid + 1 <= y
    BY <2>4 DEF FrontsAt
  <2>6. f[i] \in low .. high
    BY <1>2, <2>3, <2>5 DEF Untaken
  <2>7. f[i] \in Place
    BY <1>2, <2>6 DEF Place
  <2> QED
    BY <2>1, <2>2, <2>6, <2>7
<1>6. \A i \in Place : i \notin low .. high => f[i] = i
  BY <1>4
<1>7. f \in [Place -> Place]
  BY <1>4, <1>5, <1>6
<1>8. ASSUME NEW i \in low .. high, NEW j \in low .. high, i < j PROVE f[i] # f[j]
  <2>1. i - low < j - low /\ i - low \in 0 .. high - low /\ j - low \in 0 .. high - low
    BY <1>2, <1>8
  <2>2. Front(a, mid, high, r[j - low]) # Front(a, mid, high, r[i - low])
    BY <1>3, <2>1, TakenLater
  <2> QED
    BY <1>5, <2>2
<1>9. ASSUME NEW i \in Place, NEW j \in Place, f[i] = f[j] PROVE i = j
  <2>1. CASE i \in low .. high /\ j \in low .. high
    <3>1. i \in Int /\ j \in Int /\ ~(i < j) /\ ~(j < i)
      BY <1>2, <1>8, <1>9, <2>1
    <3> QED
      BY <3>1
  <2>2. CASE i \notin low .. high /\ j \notin low .. high
    BY <1>6, <1>9, <2>2
  <2>3. CASE i \in low .. high /\ j \notin low .. high
    BY <1>5, <1>6, <1>9, <2>3
  <2>4. CASE i \notin low .. high /\ j \in low .. high
    BY <1>5, <1>6, <1>9, <2>4
  <2> QED
    BY <2>1, <2>2, <2>3, <2>4
<1>10. \A i \in Place : b[i] = a[f[i]]
  BY <1>3, <1>5, <1>6
<1>11. Shuffled(b, a, f)
  BY <1>7, <1>9, <1>10 DEF Shuffled, Once
<1>12. Still(f, low, high)
  <2>1. \A i \in Place : i < low \/ i > high => i \notin low .. high
    BY <1>2 DEF Place
  <2> QED
    BY <1>6, <2>1 DEF Still
<1>13. b \in Arrays
  <2>1. \A i \in Place : b[i] \in Value
    BY <1>7, <1>10 DEF Arrays
  <2>2. b = [i \in Place |-> b[i]]
    BY <1>1, <1>2, MergeIsFunction
  <2> QED
    BY <2>1, <2>2 DEF Arrays
<1> QED
  BY <1>1, <1>11, <1>12, <1>13

\* Two sorted halves become one.
LEMMA MergeOrders ==
    ASSUME NEW a \in Arrays, NEW low, NEW mid, NEW high, len \in Nat, Halves(low, mid, high),
           Ascending(a, low, mid), Ascending(a, mid + 1, high)
    PROVE  Ascending(Merge(a, low, mid, high), low, high)
<1>1. PICK b : b = Merge(a, low, mid, high)
  OBVIOUS
<1>2. /\ low \in Nat /\ mid \in Nat /\ high \in Nat /\ low <= mid /\ mid < high /\ high < len
      /\ low <= high /\ DOMAIN a = Place
  BY DEF Halves, Arrays
<1>0. PICK r : IsMerged(b, r, a, low, mid, high)
  BY <1>1, <1>2, MergeIs
<1>3. /\ FrontsOf(r, a, low, mid, high)
      /\ \A i \in Place : b[i] = IF i \in low .. high
                                 THEN a[Front(a, mid, high, r[i - low])] ELSE a[i]
  BY <1>0, <1>2 DEF IsMerged
<1>4. ASSUME NEW k \in 0 .. high - low, NEW x \in Untaken(r[k], mid, high)
      PROVE  a[Front(a, mid, high, r[k])] <= a[x]
  <2>1. FrontsAt(r, low, mid, high, k)
    BY <1>3, FrontsAre
  <2>2. PICK y \in Nat, z \in Nat : r[k] = <<y, z>>
    BY <2>1 DEF FrontsAt
  <2>3. /\ low <= y /\ y <= mid + 1 /\ mid + 1 <= z /\ z <= high + 1
        /\ y + z = (low + mid) + (1 + k) /\ k \in Nat /\ k <= high - low
    BY <1>2, <2>1, <2>2 DEF FrontsAt
  <2>4. y + z < (mid + 1) + (high + 1)
    BY <1>2, <2>3
  <2>5. x \in Nat /\ ((y <= x /\ x <= mid) \/ (z <= x /\ x <= high))
    BY <2>2 DEF Untaken
  <2>6. x \in Place /\ a[x] \in Int
    BY <1>2, <2>3, <2>5, SortingAssumption DEF Place, Arrays, Value
  <2>7. ASSUME NEW v \in low .. mid PROVE v \in Place /\ a[v] \in Int
    BY <1>2, SortingAssumption DEF Place, Arrays, Value
  <2>8. ASSUME NEW v \in mid + 1 .. high PROVE v \in Place /\ a[v] \in Int
    BY <1>2, SortingAssumption DEF Place, Arrays, Value
  <2>9. ASSUME y <= x, x <= mid PROVE y \in low .. mid /\ a[y] <= a[x]
    <3>1. y \in low .. mid
      BY <1>2, <2>3, <2>5, <2>9
    <3>2. CASE y = x
      BY <2>7, <3>1, <3>2
    <3>3. CASE y # x
      BY <2>3, <2>5, <2>6, <2>7, <2>9, <3>1, <3>3 DEF Ascending
    <3> QED
      BY <3>1, <3>2, <3>3
  <2>10. ASSUME z <= x, x <= high PROVE z \in mid + 1 .. high /\ a[z] <= a[x]
    <3>1. z \in mid + 1 .. high
      BY <1>2, <2>3, <2>5, <2>10
    <3>2. CASE z = x
      BY <2>8, <3>1, <3>2
    <3>3. CASE z # x
      BY <2>3, <2>5, <2>6, <2>8, <2>10, <3>1, <3>3 DEF Ascending
    <3> QED
      BY <3>1, <3>2, <3>3
  <2>11. CASE /\ FromLeft(a, mid, high, <<y, z>>) /\ y <= mid
              /\ Front(a, mid, high, <<y, z>>) = y
    <3>1. y \in low .. mid
      BY <1>2, <2>3, <2>11
    <3>2. CASE y <= x /\ x <= mid
      BY <2>2, <2>9, <2>11, <3>2
    <3>3. CASE z <= x /\ x <= high
      <4>1. z \in mid + 1 .. high /\ a[z] <= a[x] /\ a[z] \in Int
        BY <2>8, <2>10, <3>3
      <4>2. a[y] <= a[z]
        BY <1>2, <2>11, <4>1 DEF FromLeft
      <4>3. a[y] \in Int
        BY <2>7, <3>1
      <4>4. a[y] <= a[x]
        BY <2>6, <4>1, <4>2, <4>3
      <4> QED
        BY <2>2, <2>11, <4>4
    <3> QED
      BY <2>5, <3>2, <3>3
  <2>12. CASE /\ ~FromLeft(a, mid, high, <<y, z>>) /\ z <= high
              /\ Front(a, mid, high, <<y, z>>) = z
    <3>1. z \in mid + 1 .. high
      BY <1>2, <2>3, <2>12
    <3>2. CASE z <= x /\ x <= high
      BY <2>2, <2>10, <2>12, <3>2
    <3>3. CASE y <= x /\ x <= mid
      <4>1. y \in low .. mid /\ a[y] <= a[x] /\ a[y] \in Int
        BY <2>7, <2>9, <3>3
      <4>2. ~(a[y] <= a[z])
        BY <1>2, <2>12, <4>1 DEF FromLeft
      <4>3. a[z] \in Int
        BY <2>8, <3>1
      <4>4. a[z] <= a[x]
        BY <2>6, <4>1, <4>2, <4>3
      <4> QED
        BY <2>2, <2>12, <4>4
    <3> QED
      BY <2>5, <3>2, <3>3
  <2>13. \/ /\ FromLeft(a, mid, high, <<y, z>>) /\ y <= mid
            /\ Front(a, mid, high, <<y, z>>) = y
         \/ /\ ~FromLeft(a, mid, high, <<y, z>>) /\ z <= high
            /\ Front(a, mid, high, <<y, z>>) = z
    BY <2>3, <2>4, PastIs
  <2> QED
    BY <2>11, <2>12, <2>13
<1>5. ASSUME NEW i \in Place, NEW j \in Place, low <= i, i < j, j <= high PROVE b[i] <= b[j]
  <2>1. /\ i \in low .. high /\ j \in low .. high /\ i - low < j - low
        /\ i - low \in 0 .. high - low /\ j - low \in 0 .. high - low
    BY <1>2, <1>5 DEF Place
  <2>2. Front(a, mid, high, r[j - low]) \in Untaken(r[i - low], mid, high)
    BY <1>3, <2>1, TakenLater
  <2>3. a[Front(a, mid, high, r[i - low])] <= a[Front(a, mid, high, r[j - low])]
    BY <1>4, <2>1, <2>2
  <2> QED
    BY <1>3, <2>1, <2>3
<1> QED
  BY <1>1, <1>5 DEF Ascending
-----------------------------------------------------------------------------
(* Insertion sort.                                                         *)

\* There is one remainder.
LEMMA OneRemainder ==
    ASSUME NEW w \in Nat \ {0}, NEW q \in Nat, NEW r \in 0 .. w - 1
    PROVE  (w * q + r) % w = r
<1>1. PICK z \in Nat : z = w * q + r
  <2>1. w * q \in Nat
    BY SMT
  <2> QED
    BY <2>1
<1>2. PICK d \in Nat, t \in 0 .. w - 1 : z = w * d + t /\ z % w = t
  <2>1. z \div w \in Nat /\ z % w \in 0 .. w - 1 /\ z = w * (z \div w) + (z % w)
    BY SMT
  <2> QED
    BY <2>1
<1>3. ASSUME d < q PROVE FALSE
  <2>1. PICK e \in Nat : q = d + (1 + e)
    <3>1. q - (d + 1) \in Nat /\ q = d + (1 + (q - (d + 1)))
      BY <1>3
    <3> QED
      BY <3>1
  <2>2. w * q = w * d + (w + w * e) /\ w * e \in Nat /\ w * d \in Nat
    BY <2>1, SMT
  <2> QED
    BY <1>1, <1>2, <2>2
<1>4. ASSUME q < d PROVE FALSE
  <2>1. PICK e \in Nat : d = q + (1 + e)
    <3>1. d - (q + 1) \in Nat /\ d = q + (1 + (d - (q + 1)))
      BY <1>4
    <3> QED
      BY <3>1
  <2>2. w * d = w * q + (w + w * e) /\ w * e \in Nat /\ w * q \in Nat
    BY <2>1, SMT
  <2> QED
    BY <1>1, <1>2, <2>2
<1>5. d = q
  BY <1>3, <1>4
<1>6. w * q \in Nat
  BY SMT
<1>7. t = r
  BY <1>1, <1>2, <1>5, <1>6
<1> QED
  BY <1>1, <1>2, <1>7

\* Counting in a type of fixed width is counting first.
LEMMA ModPlus ==
    ASSUME NEW x \in Nat, NEW y \in Nat, NEW w \in Nat \ {0}
    PROVE  ((x % w) + y) % w = (x + y) % w /\ x % w \in Nat
<1>1. PICK q \in Nat, r \in 0 .. w - 1 : x = w * q + r /\ x % w = r
  <2>1. x \div w \in Nat /\ x % w \in 0 .. w - 1 /\ x = w * (x \div w) + (x % w)
    BY SMT
  <2> QED
    BY <2>1
<1>2. PICK p \in Nat, s \in 0 .. w - 1 : r + y = w * p + s /\ (r + y) % w = s
  <2>1. r + y \in Nat
    BY <1>1
  <2>2. (r + y) \div w \in Nat /\ (r + y) % w \in 0 .. w - 1
          /\ r + y = w * ((r + y) \div w) + ((r + y) % w)
    BY <2>1, SMT
  <2> QED
    BY <2>2
<1>3. x + y = w * (q + p) + s /\ q + p \in Nat
  <2>1. w * (q + p) = w * q + w * p
    BY SMT
  <2> QED
    BY <1>1, <1>2, <2>1
<1>4. (x + y) % w = s
  BY <1>3, OneRemainder
<1> QED
  BY <1>1, <1>2, <1>4

\* Where the loop over the elements before j ends, as a function of where
\* it begins.
Descends(g, a, j) ==
    g = [i \in -1 .. len |-> IF i >= 0 /\ a[i] > a[j] THEN g[i - 1] ELSE i]

LEMMA DescentExists ==
    ASSUME len \in Nat, NEW a, NEW j
    PROVE  \E g : Descends(g, a, j)
<1>1. PICK step : step = [x \in Nat \X Int |-> IF a[x[1]] > a[j] THEN x[2] ELSE x[1]]
  OBVIOUS
<1>2. \A i \in Nat, v \in Int : step[<<i, v>>] = IF a[i] > a[j] THEN v ELSE i
  BY <1>1
<1>3. step \in [Nat \X Int -> Int]
  BY <1>1
<1>4. len + 1 \in Nat /\ -1 \in Int
  OBVIOUS
<1>5. PICK f \in [0 .. len + 1 -> Int] : Follows(f, len + 1, -1, step)
  BY <1>3, <1>4, FollowsExists
<1>6. PICK g : g = [i \in -1 .. len |-> f[i + 1]]
  OBVIOUS
<1>7. ASSUME NEW i \in -1 .. len
      PROVE  g[i] = IF i >= 0 /\ a[i] > a[j] THEN g[i - 1] ELSE i
  <2>1. CASE i = -1
    BY <1>4, <1>5, <1>6, <2>1 DEF Follows
  <2>2. CASE i # -1
    <3>1. i \in Nat /\ i \in 0 .. (len + 1) - 1 /\ i - 1 \in -1 .. len /\ (i - 1) + 1 = i /\ i >= 0
          /\ i \in 0 .. len + 1
      BY <2>2
    <3>2. f[i + 1] = step[<<i, f[i]>>]
      BY <1>5, <3>1 DEF Follows
    <3>3. f[i] \in Int
      BY <1>5, <3>1
    <3>4. g[i] = f[i + 1] /\ g[i - 1] = f[i]
      BY <1>6, <3>1
    <3> QED
      BY <1>2, <3>1, <3>2, <3>3, <3>4
  <2> QED
    BY <2>1, <2>2
<1>8. Descends(g, a, j)
  <2>1. g = [i \in -1 .. len |-> g[i]]
    BY <1>6
  <2> QED
    BY <1>7, <2>1, ZenonT(30) DEF Descends
<1> QED
  BY <1>8

\* Everything from the place of the key to its old one is larger, and what
\* stands before it is not.
LEMMA KeyPlaceIs ==
    ASSUME len \in Nat, NEW a \in Arrays, NEW j \in Place
    PROVE  /\ PlaceOf(a, j) \in 0 .. j
           /\ \A i \in Place : PlaceOf(a, j) <= i /\ i < j => a[i] > a[j]
           /\ PlaceOf(a, j) > 0 => ~(a[PlaceOf(a, j) - 1] > a[j])
<1> DEFINE G == CHOOSE g : g = [i \in -1 .. len |-> IF i >= 0 /\ a[i] > a[j] THEN g[i - 1] ELSE i]
<1>1. Descends(G, a, j)
  <2>1. PICK g : Descends(g, a, j)
    BY DescentExists
  <2> QED
    BY <2>1 DEF Descends
<1>2. PlaceOf(a, j) = G[j - 1] + 1
  BY DEF PlaceOf
<1> HIDE DEF G
<1>3. \A i \in -1 .. len : G[i] = IF i >= 0 /\ a[i] > a[j] THEN G[i - 1] ELSE i
  BY <1>1 DEF Descends
<1>4. PICK S : S = {k \in 0 .. len :
                      /\ G[k - 1] \in Int /\ -1 <= G[k - 1] /\ G[k - 1] <= k - 1
                      /\ \A i \in Place : G[k - 1] < i /\ i < k => a[i] > a[j]
                      /\ G[k - 1] >= 0 => ~(a[G[k - 1]] > a[j])}
  OBVIOUS
<1>5. 0 \in S
  <2>1. 0 - 1 = -1 /\ G[-1] = -1 /\ 0 \in 0 .. len
    BY <1>3
  <2>2. \A i \in Place : ~(i < 0)
    BY DEF Place
  <2> QED
    BY <1>4, <2>1, <2>2
<1>6. ASSUME NEW k \in 0 .. len - 1, k \in S PROVE k + 1 \in S
  <2>1. k \in Nat /\ k + 1 \in 0 .. len /\ k \in -1 .. len /\ (k + 1) - 1 = k /\ k >= 0 /\ k \in Place
    BY DEF Place
  <2>2. \A i \in Place : i < k + 1 => i < k \/ i = k
    BY <2>1 DEF Place
  <2>3. CASE a[k] > a[j]
    <3>1. G[k] = G[k - 1]
      BY <1>3, <2>1, <2>3
    <3>2. G[k] \in Int /\ -1 <= G[k] /\ G[k] <= k
      BY <1>4, <1>6, <2>1, <3>1
    <3>3. \A i \in Place : G[k] < i /\ i < k + 1 => a[i] > a[j]
      BY <1>4, <1>6, <2>2, <2>3, <3>1
    <3>4. G[k] >= 0 => ~(a[G[k]] > a[j])
      BY <1>4, <1>6, <3>1
    <3> QED
      BY <1>4, <2>1, <3>2, <3>3, <3>4
  <2>4. CASE ~(a[k] > a[j])
    <3>1. G[k] = k
      BY <1>3, <2>1, <2>4
    <3>2. \A i \in Place : ~(k < i /\ i < k + 1)
      BY <2>1 DEF Place
    <3> QED
      BY <1>4, <2>1, <2>4, <3>1, <3>2
  <2> QED
    BY <2>3, <2>4
<1>7. j \in 0 .. len /\ j \in Nat
  BY DEF Place
<1>8. j \in S
  BY <1>5, <1>6, <1>7, AllUpTo
<1>9. PICK h \in Int : h = G[j - 1]
  BY <1>4, <1>8
<1>10. /\ -1 <= h /\ h <= j - 1
       /\ \A i \in Place : h < i /\ i < j => a[i] > a[j]
       /\ h >= 0 => ~(a[h] > a[j])
  BY <1>4, <1>8, <1>9
<1>11. PlaceOf(a, j) = h + 1 /\ (h + 1) - 1 = h
  BY <1>2, <1>9
<1>12. h + 1 \in 0 .. j /\ (h + 1 > 0 => h >= 0) /\ \A i \in Place : h + 1 <= i => h < i
  BY <1>7, <1>10 DEF Place
<1> QED
  BY <1>10, <1>11, <1>12

\* a with the element at j taken to p.
Inserted(a, p, j) ==
    [i \in DOMAIN a |-> CASE i = p -> a[j] [] i \in p + 1 .. j -> a[i - 1] [] OTHER -> a[i]]

LEMMA InsertedIs ==
    ASSUME len \in Nat, NEW a, DOMAIN a = Place, NEW j \in Place, NEW p \in 0 .. j
    PROVE  /\ DOMAIN Inserted(a, p, j) = Place
           /\ Inserted(a, p, j) = [i \in Place |-> Inserted(a, p, j)[i]]
           /\ p \in Place /\ Inserted(a, p, j)[p] = a[j]
           /\ \A i \in Place : /\ i < p \/ i > j => Inserted(a, p, j)[i] = a[i]
                               /\ p < i /\ i <= j => i - 1 \in Place /\ Inserted(a, p, j)[i] = a[i - 1]
<1>1. p \in Place /\ p \in Nat /\ j \in Nat /\ p <= j
  BY DEF Place
<1>2. PICK b : b = Inserted(a, p, j)
  OBVIOUS
<1>3. b = [i \in Place |-> CASE i = p -> a[j] [] i \in p + 1 .. j -> a[i - 1] [] OTHER -> a[i]]
  BY <1>2 DEF Inserted
<1>4. b[p] = a[j]
  BY <1>1, <1>3
<1>5. ASSUME NEW i \in Place
      PROVE  /\ i < p \/ i > j => b[i] = a[i]
             /\ p < i /\ i <= j => i - 1 \in Place /\ b[i] = a[i - 1]
  <2>1. i \in Nat /\ i <= len - 1
    BY DEF Place
  <2>2. ASSUME i < p \/ i > j PROVE b[i] = a[i]
    <3>1. i # p /\ i \notin p + 1 .. j
      BY <1>1, <2>1, <2>2
    <3> QED
      BY <1>3, <3>1
  <2>3. ASSUME p < i, i <= j PROVE i - 1 \in Place /\ b[i] = a[i - 1]
    <3>1. i # p /\ i \in p + 1 .. j /\ i - 1 \in Place
      BY <1>1, <2>1, <2>3 DEF Place
    <3> QED
      BY <1>3, <3>1
  <2> QED
    BY <2>2, <2>3
<1>6. b = [i \in Place |-> b[i]] /\ DOMAIN b = Place
  BY <1>3
<1> QED
  BY <1>1, <1>2, <1>4, <1>5, <1>6

\* Nothing is lost on the way,
LEMMA InsertShuffles ==
    ASSUME len \in Nat, NEW a \in Arrays, NEW j \in Place, NEW p \in 0 .. j
    PROVE  /\ Inserted(a, p, j) \in Arrays
           /\ \E f : Shuffled(Inserted(a, p, j), a, f) /\ Still(f, 0, j)
<1>1. p \in Nat /\ j \in Nat /\ p <= j /\ DOMAIN a = Place /\ Place \subseteq Int
  BY DEF Place, Arrays
<1>2. PICK e : e = [i \in Place |-> i]
  OBVIOUS
<1>3. DOMAIN e = Place /\ \A i \in Place : e[i] = i
  BY <1>2
<1>4. PICK f : f = Inserted(e, p, j)
  OBVIOUS
<1>5. /\ f = [i \in Place |-> f[i]] /\ p \in Place /\ f[p] = j
      /\ \A i \in Place : /\ i < p \/ i > j => f[i] = i
                          /\ p < i /\ i <= j => i - 1 \in Place /\ f[i] = i - 1
  BY <1>3, <1>4, InsertedIs
<1>6. PICK b : b = Inserted(a, p, j)
  OBVIOUS
<1>7. /\ b = [i \in Place |-> b[i]] /\ b[p] = a[j]
      /\ \A i \in Place : /\ i < p \/ i > j => b[i] = a[i]
                          /\ p < i /\ i <= j => b[i] = a[i - 1]
  BY <1>1, <1>6, InsertedIs
<1>8. \A i \in Place : i = p \/ (i < p \/ i > j) \/ (p < i /\ i <= j)
  BY <1>1
<1>9. ASSUME NEW i \in Place PROVE f[i] \in Place /\ b[i] = a[f[i]]
  <2>1. CASE i = p
    BY <1>5, <1>7, <2>1
  <2>2. CASE i < p \/ i > j
    BY <1>5, <1>7, <2>2
  <2>3. CASE p < i /\ i <= j
    BY <1>5, <1>7, <2>3
  <2> QED
    BY <1>8, <2>1, <2>2, <2>3
<1>10. ASSUME NEW i \in Place, NEW k \in Place, f[i] = f[k] PROVE i = k
  <2>1. \A x \in Place : \/ x = p /\ f[x] = j
                         \/ x < p /\ f[x] = x
                         \/ x > j /\ f[x] = x
                         \/ p < x /\ x <= j /\ f[x] = x - 1
    BY <1>5, <1>8
  <2>2. i \in Int /\ k \in Int
    BY <1>1
  <2>3. \/ i = p /\ f[i] = j
        \/ i < p /\ f[i] = i
        \/ i > j /\ f[i] = i
        \/ p < i /\ i <= j /\ f[i] = i - 1
    BY <2>1
  <2>4. \/ k = p /\ f[k] = j
        \/ k < p /\ f[k] = k
        \/ k > j /\ f[k] = k
        \/ p < k /\ k <= j /\ f[k] = k - 1
    BY <2>1
  <2> QED
    BY <1>1, <1>10, <2>2, <2>3, <2>4
<1>11. f \in [Place -> Place]
  BY <1>5, <1>9
<1>12. Shuffled(b, a, f)
  BY <1>9, <1>10, <1>11 DEF Shuffled, Once
<1>13. Still(f, 0, j)
  BY <1>1, <1>5 DEF Still, Place
<1>14. b \in Arrays
  BY <1>7, <1>9 DEF Arrays
<1> QED
  BY <1>6, <1>12, <1>13, <1>14

\* and the key comes to stand where it belongs.
LEMMA InsertOrders ==
    ASSUME len \in Nat, NEW a \in Arrays, NEW j \in Place, Ascending(a, 0, j - 1)
    PROVE  Ascending(Inserted(a, PlaceOf(a, j), j), 0, j)
<1>1. PICK p \in 0 .. j : p = PlaceOf(a, j)
  BY KeyPlaceIs
<1>2. /\ \A i \in Place : p <= i /\ i < j => a[i] > a[j]
      /\ p > 0 => ~(a[p - 1] > a[j])
  BY <1>1, KeyPlaceIs
<1>3. /\ p \in Nat /\ j \in Nat /\ p <= j /\ DOMAIN a = Place /\ Place \subseteq Nat
      /\ \A i \in Place : a[i] \in Int
  BY SortingAssumption DEF Place, Arrays, Value
<1>4. PICK b : b = Inserted(a, p, j)
  OBVIOUS
<1>5. /\ b[p] = a[j] /\ p \in Place
      /\ \A i \in Place : /\ i < p \/ i > j => b[i] = a[i]
                          /\ p < i /\ i <= j => i - 1 \in Place /\ b[i] = a[i - 1]
  BY <1>3, <1>4, InsertedIs
<1>6. \A i \in Place, k \in Place : i < k /\ k < j => a[i] <= a[k]
  BY <1>3 DEF Ascending
<1>7. ASSUME NEW i \in Place, i < p PROVE a[i] <= a[j]
  <2>1. p - 1 \in Place /\ p > 0 /\ i <= p - 1 /\ p - 1 < j
    BY <1>3, <1>7 DEF Place
  <2>2. a[p - 1] <= a[j]
    BY <1>2, <1>3, <2>1
  <2>3. a[i] <= a[p - 1]
    <3>1. CASE i = p - 1
      BY <1>3, <2>1, <3>1
    <3>2. CASE i # p - 1
      BY <1>3, <1>6, <2>1, <3>2
    <3> QED
      BY <3>1, <3>2
  <2> QED
    BY <1>3, <2>1, <2>2, <2>3
<1>8. ASSUME NEW i \in Place, NEW k \in Place, i < k, k <= j PROVE b[i] <= b[k]
  <2>0. i \in Nat /\ k \in Nat
    BY <1>3
  <2>1. CASE k < p
    BY <1>3, <1>5, <1>6, <1>8, <2>0, <2>1
  <2>2. CASE k = p
    BY <1>5, <1>7, <1>8, <2>2
  <2>3. CASE p < k
    <3>1. k - 1 \in Place /\ b[k] = a[k - 1] /\ p <= k - 1 /\ k - 1 < j
      BY <1>3, <1>5, <1>8, <2>0, <2>3
    <3>2. CASE i < p
      BY <1>3, <1>5, <1>6, <2>0, <3>1, <3>2
    <3>3. CASE i = p
      BY <1>2, <1>3, <1>5, <3>1, <3>3
    <3>4. CASE p < i
      <4>1. i - 1 \in Place /\ b[i] = a[i - 1] /\ i - 1 < k - 1
        BY <1>5, <1>8, <2>0, <3>1, <3>4
      <4> QED
        BY <1>6, <3>1, <4>1
    <3> QED
      BY <1>3, <2>0, <3>2, <3>3, <3>4
  <2> QED
    BY <1>3, <2>0, <2>1, <2>2, <2>3
<1> QED
  BY <1>1, <1>4, <1>8 DEF Ascending

\* The inversions among the first m elements of the input.
InversionsBelow(m) ==
    {q \in Place \X Place : q[1] < q[2] /\ q[2] < m /\ input[q[1]] > input[q[2]]}

\* The key goes over as many elements as it has inversions with.
LEMMA InversionsGrow ==
    ASSUME len \in Nat, input \in Arrays, NEW a \in Arrays, NEW j \in Place, Ascending(a, 0, j - 1),
           NEW f, Shuffled(a, input, f), \A i \in Place : i >= j => f[i] = i
    PROVE  /\ Cardinality(InversionsBelow(j)) \in Nat
           /\ Cardinality(InversionsBelow(j + 1)) =
                 Cardinality(InversionsBelow(j)) + (j - PlaceOf(a, j))
<1>1. PICK p \in 0 .. j : p = PlaceOf(a, j)
  BY KeyPlaceIs
<1>2. /\ \A i \in Place : p <= i /\ i < j => a[i] > a[j]
      /\ p > 0 => ~(a[p - 1] > a[j])
  BY <1>1, KeyPlaceIs
<1>3. /\ p \in Nat /\ j \in Nat /\ p <= j /\ Place \subseteq Nat
      /\ \A i \in Place : a[i] \in Int /\ input[i] \in Int
  BY SortingAssumption DEF Place, Arrays, Value
<1>4. /\ f \in [Place -> Place] /\ Once(f) /\ \A i \in Place : a[i] = input[f[i]]
      /\ f[j] = j /\ a[j] = input[j]
  BY <1>3 DEF Shuffled
<1>5. ASSUME NEW i \in Place, i < j PROVE f[i] < j
  <2>1. f[i] \in Place /\ f[i] \in Nat /\ i \in Nat
    BY <1>3, <1>4
  <2>2. ASSUME f[i] >= j PROVE FALSE
    <3>1. f[f[i]] = f[i]
      BY <2>1, <2>2
    <3>2. f[i] = i
      BY <1>4, <2>1, <3>1 DEF Once
    <3> QED
      BY <1>3, <1>5, <2>1, <2>2, <3>2
  <2> QED
    BY <1>3, <2>1, <2>2
<1>6. PICK V : V = p .. j - 1
  OBVIOUS
<1>7. IsFiniteSet(V) /\ Cardinality(V) = j - p
  <2>1. p \in Int /\ j - 1 \in Int
    BY <1>3
  <2>2. IsFiniteSet(p .. j - 1) /\ Cardinality(p .. j - 1) = IF p > j - 1 THEN 0 ELSE (j - 1) - p + 1
    BY <2>1, FS_Interval
  <2> QED
    BY <1>3, <1>6, <2>2
<1>8. \A i : i \in V <=> i \in Place /\ i < j /\ a[i] > a[j]
  <2>1. ASSUME NEW i \in V PROVE i \in Place /\ i < j /\ a[i] > a[j]
    BY <1>2, <1>3, <1>6, <2>1 DEF Place
  <2>2. ASSUME NEW i \in Place, i < j, a[i] > a[j] PROVE i \in V
    <3>1. i \in Nat
      BY <1>3
    <3>2. ASSUME i < p PROVE FALSE
      <4>1. p - 1 \in Place /\ p > 0 /\ i <= p - 1 /\ p - 1 < j
        BY <1>3, <3>1, <3>2 DEF Place
      <4>2. a[p - 1] <= a[j]
        BY <1>2, <1>3, <4>1
      <4>3. a[i] <= a[p - 1]
        <5>1. CASE i = p - 1
          BY <1>3, <4>1, <5>1
        <5>2. CASE i # p - 1
          <6>1. i < p - 1 /\ 0 <= i /\ p - 1 <= j - 1
            BY <1>3, <3>1, <4>1, <5>2
          <6> QED
            BY <4>1, <6>1 DEF Ascending
        <5> QED
          BY <5>1, <5>2
      <4> QED
        BY <1>3, <2>2, <4>1, <4>2, <4>3
    <3> QED
      BY <1>3, <1>6, <2>2, <3>1, <3>2
  <2> QED
    BY <2>1, <2>2
<1>9. PICK W : W = {q \in Place \X Place : q[2] = j /\ q[1] < j /\ input[q[1]] > input[j]}
  OBVIOUS
<1>10. PICK g : g = [i \in V |-> <<f[i], j>>]
  OBVIOUS
<1>11. ASSUME NEW i \in V PROVE g[i] = <<f[i], j>> /\ f[i] \in Place /\ g[i] \in W
  <2>1. i \in Place /\ i < j /\ a[i] > a[j]
    BY <1>8
  <2>2. f[i] \in Place /\ f[i] < j /\ input[f[i]] > input[j]
    BY <1>4, <1>5, <2>1
  <2> QED
    BY <1>9, <1>10, <2>2
<1>12. ASSUME NEW w \in W PROVE \E i \in V : g[i] = w
  <2>1. PICK k \in Place : w = <<k, j>> /\ k < j /\ input[k] > input[j]
    BY <1>9
  <2>2. PICK i \in Place : f[i] = k
    BY <1>4, OnceIsOnto
  <2>3. i < j
    <3>1. ASSUME i >= j PROVE FALSE
      BY <1>3, <2>1, <2>2, <3>1
    <3> QED
      BY <1>3, <3>1
  <2>4. i \in V
    BY <1>4, <1>8, <2>1, <2>2, <2>3
  <2> QED
    BY <1>11, <2>1, <2>2, <2>4
<1>13. ExistsBijection(V, W)
  <2>1. g \in [V -> W]
    BY <1>10, <1>11
  <2>2. \A i, k \in V : g[i] = g[k] => i = k
    BY <1>4, <1>8, <1>11 DEF Once
  <2>3. g \in Bijection(V, W)
    BY <1>12, <2>1, <2>2 DEF Bijection, Injection, IsInjective, Surjection
  <2> QED
    BY <2>3 DEF ExistsBijection
<1>14. IsFiniteSet(W) /\ Cardinality(W) = j - p
  BY <1>7, <1>13, FS_Bijection
<1>15. PICK I : I = InversionsBelow(j)
  OBVIOUS
<1>16. InversionsBelow(j + 1) = I \cup W /\ I \cap W = {}
  <2>1. \A k \in Place : (k < j + 1 <=> k < j \/ k = j) /\ ~(k < j /\ k = j)
    BY <1>3
  <2>2. ASSUME NEW q \in Place \X Place
        PROVE  /\ q \in InversionsBelow(j + 1) <=> q \in I \/ q \in W
               /\ ~(q \in I /\ q \in W)
    <3>1. q[1] \in Place /\ q[2] \in Place
      OBVIOUS
    <3>2. /\ q \in InversionsBelow(j + 1) <=>
               q[1] < q[2] /\ q[2] < j + 1 /\ input[q[1]] > input[q[2]]
          /\ q \in I <=> q[1] < q[2] /\ q[2] < j /\ input[q[1]] > input[q[2]]
          /\ q \in W <=> q[2] = j /\ q[1] < q[2] /\ input[q[1]] > input[q[2]]
      BY <1>9, <1>15 DEF InversionsBelow
    <3> QED
      BY <2>1, <3>1, <3>2
  <2>3. /\ InversionsBelow(j + 1) \subseteq Place \X Place
        /\ I \subseteq Place \X Place /\ W \subseteq Place \X Place
    BY <1>9, <1>15 DEF InversionsBelow
  <2> QED
    BY <2>2, <2>3
<1>17. IsFiniteSet(I)
  <2>1. IsFiniteSet(Place \X Place)
    BY PlaceFinite, FS_Product
  <2>2. I \in SUBSET (Place \X Place)
    BY <1>15 DEF InversionsBelow
  <2> QED
    BY <2>1, <2>2, FS_Subset
<1>18. Cardinality(I) \in Nat
  BY <1>17, FS_CardinalityType
<1>19. Cardinality(I \cup W) = Cardinality(I) + Cardinality(W) - Cardinality(I \cap W)
  BY <1>14, <1>17, FS_Union
<1>20. Cardinality(I \cap W) = 0
  BY <1>16, FS_EmptySet
<1>21. Cardinality(I \cup W) = Cardinality(I) + (j - p)
  <2>1. j - p \in Nat
    BY <1>3
  <2> QED
    BY <1>14, <1>18, <1>19, <1>20, <2>1
<1> QED
  BY <1>1, <1>15, <1>16, <1>18, <1>21
-----------------------------------------------------------------------------
(* The recursive merge sort.                                               *)

\* Calls: an array, and the part of it to be sorted.
Call == Arrays \X (0 .. len) \X (-1 .. len - 1)

\* What a call returns, when the calls it makes return what s says.
Returns(s, c) ==
    IF c[2] >= c[3] THEN c[1]
    ELSE Merge(s[<<s[<<c[1], c[2], (c[2] + c[3]) \div 2>>], (c[2] + c[3]) \div 2 + 1, c[3]>>],
               c[2], (c[2] + c[3]) \div 2, c[3])

\* s is merge_sort.
SortsBy(s) == s = [c \in Call |-> Returns(s, c)]

\* A call on two elements or more cuts its part into two that are shorter.
LEMMA HalfWay ==
    ASSUME len \in Nat, NEW a \in Arrays, NEW x \in 0 .. len, NEW y \in -1 .. len - 1, x < y
    PROVE  /\ Halves(x, (x + y) \div 2, y)
           /\ (x + y) \div 2 \in -1 .. len - 1 /\ (x + y) \div 2 + 1 \in 0 .. len
           /\ ((x + y) \div 2) - x < y - x /\ y - ((x + y) \div 2 + 1) < y - x
<1>1. PICK q : q = (x + y) \div 2
  OBVIOUS
<1>2. q \in Nat /\ x <= q /\ q < y
  BY <1>1
<1>3. x \in Nat /\ y \in Nat /\ y < len
  OBVIOUS
<1> QED
  BY <1>1, <1>2, <1>3 DEF Halves

\* The calls a call makes.
LEMMA CallsAreCalls ==
    ASSUME len \in Nat, NEW a \in Arrays, NEW x \in 0 .. len, NEW y \in -1 .. len - 1, x < y,
           NEW q, q = (x + y) \div 2
    PROVE  <<a, x, q>> \in Call /\ <<a, q + 1, y>> \in Call
BY HalfWay DEF Call

LEMMA ReturnsArray ==
    ASSUME len \in Nat, NEW s \in [Call -> Arrays], NEW c \in Call
    PROVE  Returns(s, c) \in Arrays
<1>1. PICK a \in Arrays, x \in 0 .. len, y \in -1 .. len - 1 : c = <<a, x, y>>
  BY DEF Call
<1>2. CASE x >= y
  BY <1>1, <1>2 DEF Returns
<1>3. CASE x < y
  <2>1. PICK q : q = (x + y) \div 2
    OBVIOUS
  <2>2. Halves(x, q, y)
    BY <1>3, <2>1, HalfWay
  <2>3. s[<<a, x, q>>] \in Arrays
    BY <1>3, <2>1, CallsAreCalls
  <2>4. PICK b \in Arrays : b = s[<<a, x, q>>]
    BY <2>3
  <2>5. PICK d \in Arrays : d = s[<<b, q + 1, y>>]
    BY <1>3, <2>1, CallsAreCalls
  <2>6. Returns(s, c) = Merge(d, x, q, y)
    BY <1>1, <1>3, <2>1, <2>4, <2>5 DEF Returns
  <2> QED
    BY <2>2, <2>6, MergeShuffles
<1> QED
  BY <1>2, <1>3

\* Functions that agree on shorter calls return the same.
LEMMA ReturnsSame ==
    ASSUME len \in Nat, NEW s \in [Call -> Arrays], NEW t \in [Call -> Arrays], NEW c \in Call,
           \A d \in Call : d[3] - d[2] < c[3] - c[2] => s[d] = t[d]
    PROVE  Returns(s, c) = Returns(t, c)
<1>1. PICK a \in Arrays, x \in 0 .. len, y \in -1 .. len - 1 : c = <<a, x, y>>
  BY DEF Call
<1>2. CASE x >= y
  BY <1>1, <1>2 DEF Returns
<1>3. CASE x < y
  <2>1. PICK q : q = (x + y) \div 2
    OBVIOUS
  <2>2. q - x < y - x /\ y - (q + 1) < y - x
    BY <1>3, <2>1, HalfWay
  <2>3. s[<<a, x, q>>] = t[<<a, x, q>>] /\ s[<<a, x, q>>] \in Arrays
    <3>1. <<a, x, q>> \in Call
      BY <1>3, <2>1, CallsAreCalls
    <3> QED
      BY <1>1, <2>2, <3>1
  <2>4. PICK b \in Arrays : b = s[<<a, x, q>>] /\ b = t[<<a, x, q>>]
    BY <2>3
  <2>5. s[<<b, q + 1, y>>] = t[<<b, q + 1, y>>]
    <3>1. <<b, q + 1, y>> \in Call
      BY <1>3, <2>1, CallsAreCalls
    <3> QED
      BY <1>1, <2>2, <3>1
  <2> QED
    BY <1>1, <1>3, <2>1, <2>4, <2>5 DEF Returns
<1> QED
  BY <1>2, <1>3

LEMMA SortExists ==
    ASSUME len \in Nat
    PROVE  \E s \in [Call -> Arrays] : SortsBy(s)
<1>1. PICK V : V = [Call -> Arrays]
  OBVIOUS
<1>2. PICK start : start = [c \in Call |-> c[1]]
  OBVIOUS
<1>3. start \in V /\ \A c \in Call : start[c] = c[1]
  BY <1>1, <1>2 DEF Call
<1>4. PICK step : step = [x \in Nat \X V |-> [c \in Call |-> Returns(x[2], c)]]
  OBVIOUS
<1>5. \A i \in Nat, s \in V : step[<<i, s>>] = [c \in Call |-> Returns(s, c)]
  BY <1>4
<1>6. step \in [Nat \X V -> V]
  <2>1. \A s \in V : [c \in Call |-> Returns(s, c)] \in V
    BY <1>1, ReturnsArray
  <2> QED
    BY <1>4, <2>1
<1>7. len + 1 \in Nat
  OBVIOUS
<1>8. PICK f \in [0 .. len + 1 -> V] : Follows(f, len + 1, start, step)
  BY <1>3, <1>6, <1>7, FollowsExists
<1>9. ASSUME NEW n \in 0 .. len
      PROVE  n \in 0 .. len + 1 /\ n + 1 \in 0 .. len + 1 /\ f[n + 1] = [c \in Call |-> Returns(f[n], c)]
  <2>1. n \in 0 .. (len + 1) - 1 /\ n \in Nat /\ n \in 0 .. len + 1 /\ n + 1 \in 0 .. len + 1
    OBVIOUS
  <2>2. f[n + 1] = step[<<n, f[n]>>] /\ f[n] \in V
    BY <1>8, <2>1 DEF Follows
  <2> QED
    BY <1>5, <2>1, <2>2
<1>10. PICK S : S = {n \in 0 .. len : \A c \in Call : c[3] - c[2] < n => f[n + 1][c] = f[n][c]}
  OBVIOUS
<1>11. 0 \in S
  <2>1. 0 \in 0 .. len /\ f[0] = start
    BY <1>8 DEF Follows
  <2>2. ASSUME NEW c \in Call, c[3] - c[2] < 0 PROVE f[1][c] = f[0][c]
    <3>1. f[0 + 1][c] = Returns(f[0], c)
      BY <1>9, <2>1
    <3>2. c[2] >= c[3]
      BY <2>2 DEF Call
    <3>3. f[1][c] = c[1]
      BY <3>1, <3>2 DEF Returns
    <3> QED
      BY <1>3, <2>1, <3>3
  <2> QED
    BY <1>10, <2>1, <2>2
<1>12. ASSUME NEW n \in 0 .. len - 1, n \in S PROVE n + 1 \in S
  <2>1. n \in 0 .. len /\ n + 1 \in 0 .. len /\ n \in Nat
    OBVIOUS
  <2>2. f[n] \in V /\ f[n + 1] \in V
    BY <1>8, <1>9, <2>1
  <2>3. ASSUME NEW c \in Call, c[3] - c[2] < n + 1 PROVE f[(n + 1) + 1][c] = f[n + 1][c]
    <3>1. f[(n + 1) + 1][c] = Returns(f[n + 1], c)
      BY <1>9, <2>1
    <3>2. f[n + 1][c] = Returns(f[n], c)
      BY <1>9, <2>1
    <3>3. ASSUME NEW d \in Call, d[3] - d[2] < c[3] - c[2] PROVE f[n + 1][d] = f[n][d]
      <4>1. d[3] - d[2] < n
        <5>1. d[3] \in Int /\ d[2] \in Int /\ c[3] \in Int /\ c[2] \in Int
          BY DEF Call
        <5> QED
          BY <2>1, <2>3, <3>3, <5>1
      <4> QED
        BY <1>10, <1>12, <4>1
    <3>4. Returns(f[n + 1], c) = Returns(f[n], c)
      BY <1>1, <2>2, <3>3, ReturnsSame
    <3> QED
      BY <3>1, <3>2, <3>4
  <2> QED
    BY <1>10, <2>1, <2>3
<1>13. len \in S /\ len \in 0 .. len
  <2>1. len \in 0 .. len
    OBVIOUS
  <2> QED
    BY <1>11, <1>12, <2>1, AllUpTo
<1>14. PICK s \in [Call -> Arrays] : s = f[len]
  BY <1>1, <1>8, <1>9, <1>13
<1>15. ASSUME NEW c \in Call PROVE s[c] = Returns(s, c)
  <2>1. c[3] - c[2] < len
    BY DEF Call
  <2>2. f[len + 1][c] = f[len][c]
    BY <1>10, <1>13, <2>1
  <2>3. f[len + 1][c] = Returns(s, c)
    BY <1>9, <1>13, <1>14
  <2> QED
    BY <1>14, <2>2, <2>3
<1>16. s = [c \in Call |-> s[c]]
  OBVIOUS
<1> QED
  BY <1>15, <1>16 DEF SortsBy

\* What merge_sort does to the part it is called for.
SortsPart(b, c) ==
    /\ b \in Arrays /\ Ascending(b, c[2], c[3])
    /\ \E f : Shuffled(b, c[1], f) /\ Still(f, c[2], c[3])

LEMMA CallSorts ==
    ASSUME len \in Nat, NEW s, SortsBy(s), NEW c \in Call
    PROVE  SortsPart(s[c], c)
<1>1. \A d \in Call : s[d] = Returns(s, d)
  BY DEF SortsBy
<1>2. PICK S : S = {n \in 0 .. len : \A d \in Call : d[3] - d[2] < n => SortsPart(s[d], d)}
  OBVIOUS
<1>3. ASSUME NEW d \in Call, d[2] >= d[3] PROVE SortsPart(s[d], d)
  <2>1. s[d] = d[1] /\ d[1] \in Arrays
    BY <1>1, <1>3 DEF Returns, Call
  <2>2. Ascending(d[1], d[2], d[3])
    BY <1>3 DEF Ascending, Call, Place
  <2>3. PICK f : Shuffled(d[1], d[1], f) /\ \A low, high : Still(f, low, high)
    BY ShuffledNot
  <2> QED
    BY <2>1, <2>2, <2>3 DEF SortsPart
<1>4. 0 \in S
  <2>1. \A d \in Call : d[3] - d[2] < 0 => d[2] >= d[3]
    BY DEF Call
  <2>2. 0 \in 0 .. len
    OBVIOUS
  <2> QED
    BY <1>2, <1>3, <2>1, <2>2
<1>5. ASSUME NEW n \in 0 .. len - 1, n \in S PROVE n + 1 \in S
  <2>1. n \in Nat /\ n + 1 \in 0 .. len
    OBVIOUS
  <2>2. ASSUME NEW d \in Call, d[3] - d[2] < n + 1 PROVE SortsPart(s[d], d)
    <3>1. PICK a \in Arrays, x \in 0 .. len, y \in -1 .. len - 1 : d = <<a, x, y>>
      BY DEF Call
    <3>2. SUFFICES ASSUME x < y PROVE SortsPart(s[d], d)
      BY <1>3, <3>1
    <3>3. PICK q : q = (x + y) \div 2
      OBVIOUS
    <3>4. /\ Halves(x, q, y) /\ q \in Int /\ q + 1 \in 0 .. len
          /\ q - x < y - x /\ y - (q + 1) < y - x
      BY <3>2, <3>3, HalfWay
    <3>5. q - x < n /\ y - (q + 1) < n
      BY <2>1, <2>2, <3>1, <3>4
    <3>6. PICK b : b = s[<<a, x, q>>]
      OBVIOUS
    <3>7. b \in Arrays /\ Ascending(b, x, q) /\ \E f : Shuffled(b, a, f) /\ Still(f, x, q)
      <4>1. <<a, x, q>> \in Call
        BY <3>2, <3>3, CallsAreCalls
      <4>2. SortsPart(s[<<a, x, q>>], <<a, x, q>>)
        BY <1>2, <1>5, <3>5, <4>1
      <4> QED
        BY <3>6, <4>2 DEF SortsPart
    <3>8. PICK f : Shuffled(b, a, f) /\ Still(f, x, q)
      BY <3>7
    <3>9. PICK e : e = s[<<b, q + 1, y>>]
      OBVIOUS
    <3>10. e \in Arrays /\ Ascending(e, q + 1, y) /\ \E g : Shuffled(e, b, g) /\ Still(g, q + 1, y)
      <4>1. <<b, q + 1, y>> \in Call
        BY <3>2, <3>3, <3>7, CallsAreCalls
      <4>2. SortsPart(s[<<b, q + 1, y>>], <<b, q + 1, y>>)
        BY <1>2, <1>5, <3>5, <4>1
      <4> QED
        BY <3>9, <4>2 DEF SortsPart
    <3>11. PICK g : Shuffled(e, b, g) /\ Still(g, q + 1, y)
      BY <3>10
    <3>12. Ascending(e, x, q)
      <4>1. \A i \in Place : i <= q => e[i] = b[i]
        BY <3>4, <3>11 DEF Shuffled, Still, Place
      <4>2. \A i \in Place, j \in Place : i < j /\ j <= q => i <= q
        BY <3>4 DEF Place
      <4> QED
        BY <3>7, <4>1, <4>2 DEF Ascending
    <3>13. PICK m : m = Merge(e, x, q, y)
      OBVIOUS
    <3>14. m \in Arrays /\ \E h : Shuffled(m, e, h) /\ Still(h, x, y)
      BY <3>4, <3>10, <3>13, MergeShuffles
    <3>15. Ascending(m, x, y)
      BY <3>4, <3>10, <3>12, <3>13, MergeOrders
    <3>16. PICK h : Shuffled(m, e, h) /\ Still(h, x, y)
      BY <3>14
    <3>17. Still(f, x, y) /\ Still(g, x, y)
      BY <3>4, <3>8, <3>11 DEF Still, Place, Halves
    <3>18. PICK k : Shuffled(e, a, k) /\ Still(k, x, y)
      BY <3>8, <3>11, <3>17, ShuffledTwice
    <3>19. PICK l : Shuffled(m, a, l) /\ Still(l, x, y)
      BY <3>16, <3>18, ShuffledTwice
    <3>20. s[d] = m
      BY <1>1, <3>1, <3>2, <3>3, <3>6, <3>9, <3>13 DEF Returns
    <3> QED
      BY <3>1, <3>14, <3>15, <3>19, <3>20 DEF SortsPart
  <2> QED
    BY <1>2, <2>1, <2>2
<1>6. len \in S
  <2>1. len \in 0 .. len
    OBVIOUS
  <2> QED
    BY <1>4, <1>5, <2>1, AllUpTo
<1>7. c[3] - c[2] < len
  BY DEF Call
<1> QED
  BY <1>2, <1>6, <1>7

\* The whole array is sorted.
LEMMA MergeSortSorts ==
    ASSUME len \in Nat, NEW a \in Arrays
    PROVE  /\ MergeSort(a) \in Arrays /\ Ascending(MergeSort(a), 0, len - 1)
           /\ \E f : Shuffled(MergeSort(a), a, f)
<1> DEFINE R == CHOOSE s : s = [c \in [0 .. len - 1 -> Value] \X (0 .. len) \X (-1 .. len - 1) |->
                  IF c[2] >= c[3] THEN c[1]
                  ELSE Merge(s[<<s[<<c[1], c[2], (c[2] + c[3]) \div 2>>],
                                 (c[2] + c[3]) \div 2 + 1, c[3]>>],
                             c[2], (c[2] + c[3]) \div 2, c[3])]
<1>1. PICK s \in [Call -> Arrays] : SortsBy(s)
  BY SortExists
<1>2. SortsBy(R)
  <2>1. \E t : t = [c \in [0 .. len - 1 -> Value] \X (0 .. len) \X (-1 .. len - 1) |->
                  IF c[2] >= c[3] THEN c[1]
                  ELSE Merge(t[<<t[<<c[1], c[2], (c[2] + c[3]) \div 2>>],
                                 (c[2] + c[3]) \div 2 + 1, c[3]>>],
                             c[2], (c[2] + c[3]) \div 2, c[3])]
    BY <1>1 DEF SortsBy, Returns, Call, Arrays, Place
  <2> QED
    BY <2>1, ZenonT(30) DEF SortsBy, Returns, Call, Arrays, Place
<1>3. MergeSort(a) = R[<<a, 0, len - 1>>]
  BY DEF MergeSort
<1> HIDE DEF R
<1>4. <<a, 0, len - 1>> \in Call
  BY DEF Call
<1>5. SortsPart(R[<<a, 0, len - 1>>], <<a, 0, len - 1>>)
  BY <1>2, <1>4, CallSorts
<1> QED
  BY <1>3, <1>5 DEF SortsPart
-----------------------------------------------------------------------------
(* What the sorting programs keep.                                         *)

SortTypes ==
    /\ algorithm \in Algorithm /\ len \in 0 .. MaxLength
    /\ input \in Arrays /\ array \in Arrays
    /\ outer \in Nat /\ inner \in Nat
    /\ algorithm \in {"insertion", "merge"} => outer >= 1
    /\ counts \in [Value -> Nat]
    /\ befehle \in Nat /\ done \in BOOLEAN

\* The first j elements are in order, the others where they were.
InsertedUpTo(a, j) ==
    /\ Ascending(a, 0, j - 1)
    /\ \E f : Shuffled(a, input, f) /\ \A i \in Place : i >= j => f[i] = i

\* The commands before the run for j begins.
InsertionCost(j) == 1 + (6 * (j - 1) + 4 * Cardinality(InversionsBelow(j)))

InsertionSorts == algorithm = "insertion" =>
    /\ outer = 1 \/ outer <= len
    /\ InsertedUpTo(array, outer)
    /\ ~done => befehle % CounterLimit = InsertionCost(outer) % CounterLimit
    /\ done => outer >= len /\ befehle = (1 + InsertionCost(outer)) % CounterLimit

\* The counters are counted up in the width of their type.
LEMMA CountsUp ==
    ASSUME NEW x \in Nat, NEW y \in Nat, NEW z \in Nat, x % CounterLimit = y % CounterLimit
    PROVE  (x + z) % CounterLimit = (y + z) % CounterLimit /\ (x + z) % CounterLimit \in Nat
<1>1. CounterLimit \in Nat \ {0}
  BY SortingAssumption
<1>2. ((x % CounterLimit) + z) % CounterLimit = (x + z) % CounterLimit
  BY <1>1, ModPlus
<1>3. ((y % CounterLimit) + z) % CounterLimit = (y + z) % CounterLimit
  BY <1>1, ModPlus
<1>4. x + z \in Nat
  OBVIOUS
<1>5. (x + z) % CounterLimit \in Nat
  BY <1>1, <1>4, ModPlus
<1> QED
  BY <1>2, <1>3, <1>5

\* and once more, when what has been written is counted on.
LEMMA CountsOn ==
    ASSUME NEW x \in Nat, NEW y \in Nat, x = y % CounterLimit
    PROVE  x % CounterLimit = y % CounterLimit
<1>1. CounterLimit \in Nat \ {0}
  BY SortingAssumption
<1>2. ((y % CounterLimit) + 0) % CounterLimit = (y + 0) % CounterLimit
  BY <1>1, ModPlus
<1>3. y % CounterLimit \in Nat /\ (y % CounterLimit) + 0 = y % CounterLimit /\ y + 0 = y
  BY <1>1, ModPlus
<1> QED
  BY <1>2, <1>3

LEMMA NothingBelowOne ==
    ASSUME len \in Nat
    PROVE  InsertionCost(1) = 1
<1>1. InversionsBelow(1) = {}
  <2>1. ASSUME NEW q \in InversionsBelow(1) PROVE FALSE
    <3>1. q \in Place \X Place /\ q[1] < q[2] /\ q[2] < 1
      BY DEF InversionsBelow
    <3> QED
      BY <3>1 DEF Place
  <2> QED
    BY <2>1
<1>2. Cardinality(InversionsBelow(1)) = 0
  BY <1>1, FS_EmptySet
<1> QED
  BY <1>2 DEF InsertionCost

\* One run of the outer loop.
LEMMA InsertStep ==
    ASSUME len \in Nat, input \in Arrays, NEW a \in Arrays, NEW j \in Place, j >= 1,
           InsertedUpTo(a, j)
    PROVE  /\ Inserted(a, PlaceOf(a, j), j) \in Arrays
           /\ InsertedUpTo(Inserted(a, PlaceOf(a, j), j), j + 1)
           /\ InsertionCost(j) \in Nat /\ 6 + 4 * (j - PlaceOf(a, j)) \in Nat
           /\ InsertionCost(j + 1) = InsertionCost(j) + (6 + 4 * (j - PlaceOf(a, j)))
<1>1. PICK p \in 0 .. j : p = PlaceOf(a, j)
  BY KeyPlaceIs
<1>2. PICK b : b = Inserted(a, p, j)
  OBVIOUS
<1>3. b \in Arrays /\ \E g : Shuffled(b, a, g) /\ Still(g, 0, j)
  BY <1>2, InsertShuffles
<1>4. PICK g : Shuffled(b, a, g) /\ Still(g, 0, j)
  BY <1>3
<1>5. PICK f : Shuffled(a, input, f) /\ \A i \in Place : i >= j => f[i] = i
  BY DEF InsertedUpTo
<1>6. j \in Nat /\ (j + 1) - 1 = j /\ Place \subseteq Nat
  BY DEF Place
<1>7. Still(f, 0, j)
  BY <1>5, <1>6 DEF Still
<1>8. PICK h : Shuffled(b, input, h) /\ Still(h, 0, j)
  BY <1>4, <1>5, <1>7, ShuffledTwice
<1>9. \A i \in Place : i >= j + 1 => h[i] = i
  <2>1. \A i \in Place : i >= j + 1 => i > j
    BY <1>6
  <2> QED
    BY <1>8, <2>1 DEF Still
<1>10. Ascending(a, 0, j - 1)
  BY DEF InsertedUpTo
<1>11. Ascending(b, 0, j)
  BY <1>1, <1>2, <1>10, InsertOrders
<1>12. InsertedUpTo(b, j + 1)
  BY <1>6, <1>8, <1>9, <1>11 DEF InsertedUpTo
<1>13. /\ Cardinality(InversionsBelow(j)) \in Nat
       /\ Cardinality(InversionsBelow(j + 1)) = Cardinality(InversionsBelow(j)) + (j - PlaceOf(a, j))
  BY <1>5, <1>10, InversionsGrow
<1>14. PICK x \in Nat : x = Cardinality(InversionsBelow(j))
  BY <1>13
<1>15. InsertionCost(j) = 1 + (6 * (j - 1) + 4 * x) /\ InsertionCost(j + 1) = 1 + (6 * j + 4 * (x + (j - p)))
  BY <1>1, <1>6, <1>13, <1>14 DEF InsertionCost
<1>16. /\ InsertionCost(j) \in Nat /\ 6 + 4 * (j - p) \in Nat
       /\ InsertionCost(j + 1) = InsertionCost(j) + (6 + 4 * (j - p))
  BY <1>6, <1>15
<1> QED
  BY <1>1, <1>2, <1>3, <1>12, <1>16

\* The array that InsertKey leaves.
LEMMA InsertKeyIs ==
    ASSUME SortTypes, InsertKey
    PROVE  /\ array' = Inserted(array, PlaceOf(array, outer), outer)
           /\ outer \in Place /\ len \in Nat
BY DEF SortTypes, InsertKey, Inserted, Place

LEMMA SortTypesInit == SortInit => SortTypes
<1>1. SUFFICES ASSUME SortInit PROVE SortTypes
  OBVIOUS
<1>2. CounterLimit \in Nat \ {0} /\ MaxValue \in Nat
  BY SortingAssumption
<1>3. befehle \in Nat
  <2>1. 2 + 1 + 3 * (MaxValue + 1) + 1 + 1 \in Nat
    BY <1>2
  <2>2. (2 + 1 + 3 * (MaxValue + 1) + 1 + 1) % CounterLimit \in Nat
    BY <1>2, <2>1, ModPlus
  <2> QED
    BY <1>1, <2>2 DEF SortInit
<1>4. /\ algorithm \in Algorithm /\ len \in 0 .. MaxLength /\ input \in Arrays /\ array = input
      /\ outer = IF algorithm = "count" THEN 0 ELSE 1
      /\ inner = 0 /\ counts = [v \in Value |-> 0] /\ done = FALSE
  BY <1>1 DEF SortInit, Arrays, Place
<1>5. outer \in Nat /\ (algorithm \in {"insertion", "merge"} => outer >= 1)
  BY <1>4
<1>6. counts \in [Value -> Nat] /\ done \in BOOLEAN /\ inner \in Nat
  BY <1>4
<1> QED
  BY <1>3, <1>4, <1>5, <1>6 DEF SortTypes

LEMMA SortTypesKept == SortTypes /\ SortNext => SortTypes'
<1>1. SUFFICES ASSUME SortTypes, SortNext PROVE SortTypes'
  OBVIOUS
<1>2. /\ algorithm' = algorithm /\ input' = input /\ len' = len
      /\ len \in Nat /\ Place' = Place /\ Arrays' = Arrays
  BY <1>1, SortingAssumption DEF SortTypes, SortNext, SortConstant, Place, Arrays
<1>3. /\ algorithm \in Algorithm /\ len \in 0 .. MaxLength
      /\ input \in Arrays /\ array \in Arrays
      /\ outer \in Nat /\ inner \in Nat
      /\ algorithm \in {"insertion", "merge"} => outer >= 1
      /\ counts \in [Value -> Nat]
      /\ befehle \in Nat /\ done \in BOOLEAN
  BY <1>1 DEF SortTypes
<1>4. SUFFICES /\ array' \in Arrays
               /\ outer' \in Nat /\ inner' \in Nat
               /\ algorithm \in {"insertion", "merge"} => outer' >= 1
               /\ counts' \in [Value -> Nat]
               /\ befehle' \in Nat /\ done' \in BOOLEAN
  BY <1>2, <1>3 DEF SortTypes
<1>5. \A k \in Nat : (befehle + k) % CounterLimit \in Nat
  BY <1>3, CountsUp
<1>6. CASE InsertKey
  <2>1. array' = Inserted(array, PlaceOf(array, outer), outer) /\ outer \in Place
    BY <1>1, <1>6, InsertKeyIs
  <2>2. PlaceOf(array, outer) \in 0 .. outer
    BY <1>2, <1>3, <2>1, KeyPlaceIs
  <2>3. PICK p \in 0 .. outer : p = PlaceOf(array, outer)
    BY <2>2
  <2>4. array' \in Arrays
    BY <1>2, <1>3, <2>1, <2>3, InsertShuffles
  <2>5. 6 + 4 * (outer - p) \in Nat
    BY <1>3
  <2>6. befehle' = (befehle + (6 + 4 * (outer - p))) % CounterLimit
    BY <1>6, <2>3 DEF InsertKey, Count
  <2>7. befehle' \in Nat
    BY <1>5, <2>5, <2>6
  <2>8. outer' = outer + 1 /\ inner' = inner /\ counts' = counts /\ done' = done
    BY <1>6 DEF InsertKey
  <2> QED
    BY <1>3, <2>4, <2>7, <2>8
<1>7. CASE InsertionDone
  BY <1>3, <1>5, <1>7 DEF InsertionDone, Count
<1>8. CASE CountValue
  <2>1. outer \in Place
    BY <1>3, <1>8 DEF CountValue, Place
  <2>2. input[outer] \in Value
    BY <1>3, <2>1 DEF Arrays
  <2>3. counts' = [counts EXCEPT ![input[outer]] = counts[input[outer]] + 1]
    BY <1>8 DEF CountValue
  <2>4. counts' \in [Value -> Nat]
    BY <1>3, <2>2, <2>3
  <2> QED
    BY <1>3, <1>5, <1>8, <2>4 DEF CountValue, Count
<1>9. CASE WriteValue
  <2>1. inner \in Value
    BY <1>3, <1>9 DEF WriteValue, Value
  <2>2. array' \in Arrays
    BY <1>3, <1>9, <2>1 DEF WriteValue, Arrays
  <2>3. 4 + 4 * counts[inner] \in Nat
    BY <1>3, <2>1
  <2>4. befehle' \in Nat
    BY <1>5, <1>9, <2>3 DEF WriteValue, Count
  <2> QED
    BY <1>3, <1>9, <2>2, <2>4 DEF WriteValue
<1>10. CASE CountDone
  BY <1>3, <1>5, <1>10 DEF CountDone, Count
<1>11. CASE MergePair
  <2>1. PICK mid, high : /\ mid = Smallest(inner + outer - 1, len - 1)
                         /\ high = Smallest(inner + 2 * outer - 1, len - 1)
    OBVIOUS
  <2>2. Halves(inner, mid, high)
    BY <1>2, <1>3, <1>11, <2>1 DEF MergePair, Smallest, Halves
  <2>3. array' = Merge(array, inner, mid, high)
    BY <1>11, <2>1 DEF MergePair
  <2>4. array' \in Arrays
    BY <1>2, <1>3, <2>2, <2>3, MergeShuffles
  <2> QED
    BY <1>3, <1>11, <2>4 DEF MergePair
<1>12. CASE MergeWider
  BY <1>3, <1>12 DEF MergeWider
<1>13. CASE MergeDone
  BY <1>3, <1>13 DEF MergeDone
<1>14. CASE SortRecursively
  BY <1>2, <1>3, <1>14, MergeSortSorts DEF SortRecursively
<1> QED
  BY <1>1, <1>6, <1>7, <1>8, <1>9, <1>10, <1>11, <1>12, <1>13, <1>14 DEF SortNext

LEMMA InsertionSortsInit == SortInit => InsertionSorts
<1>1. SUFFICES ASSUME SortInit, algorithm = "insertion" PROVE InsertionSorts
  BY DEF InsertionSorts
<1>2. len \in Nat /\ outer = 1 /\ befehle = 1 /\ array = input /\ ~done
  BY <1>1, SortingAssumption DEF SortInit
<1>3. Ascending(array, 0, 1 - 1)
  BY <1>2 DEF Ascending, Place
<1>4. PICK f : Shuffled(array, input, f) /\ \A low, high : Still(f, low, high)
  BY <1>2, ShuffledNot
<1>5. \A i \in Place : f[i] = i
  <2>1. Still(f, len, len)
    BY <1>4
  <2> QED
    BY <1>2, <2>1 DEF Still, Place
<1>6. InsertedUpTo(array, 1)
  BY <1>3, <1>4, <1>5 DEF InsertedUpTo
<1> QED
  BY <1>2, <1>6, NothingBelowOne DEF InsertionSorts

LEMMA InsertionSortsKept == SortTypes /\ InsertionSorts /\ SortNext => InsertionSorts'
<1>1. SUFFICES ASSUME SortTypes, InsertionSorts, SortNext, algorithm = "insertion"
               PROVE InsertionSorts'
  BY DEF InsertionSorts, SortNext, SortConstant
<1>2. /\ algorithm' = algorithm /\ input' = input /\ len' = len
      /\ len \in Nat /\ input \in Arrays /\ array \in Arrays /\ outer \in Nat /\ befehle \in Nat
      /\ outer >= 1
  BY <1>1, SortingAssumption DEF SortTypes, SortNext, SortConstant
<1>3. /\ outer = 1 \/ outer <= len
      /\ InsertedUpTo(array, outer)
      /\ ~done => befehle % CounterLimit = InsertionCost(outer) % CounterLimit
  BY <1>1 DEF InsertionSorts
<1>4. CASE InsertKey
  <2>1. outer \in Place /\ array' = Inserted(array, PlaceOf(array, outer), outer)
    BY <1>1, <1>4, InsertKeyIs
  <2>2. PICK d : d = 6 + 4 * (outer - PlaceOf(array, outer))
    OBVIOUS
  <2>3. /\ InsertedUpTo(array', outer + 1)
        /\ InsertionCost(outer) \in Nat /\ d \in Nat
        /\ InsertionCost(outer + 1) = InsertionCost(outer) + d
    BY <1>2, <1>3, <2>1, <2>2, InsertStep
  <2>4. befehle' = (befehle + d) % CounterLimit /\ outer' = outer + 1 /\ outer < len /\ ~done /\ ~done'
    BY <1>4, <2>2 DEF InsertKey, Count
  <2>5. InsertedUpTo(array, outer)'
    BY <1>2, <2>3, <2>4 DEF InsertedUpTo, Ascending, Shuffled, Once, Place
  <2>6. PICK x : x = InsertionCost(outer + 1)
    OBVIOUS
  <2>7. InsertionCost(outer)' = x
    BY <1>2, <2>4, <2>6 DEF InsertionCost, InversionsBelow, Place
  <2>8. befehle' % CounterLimit = x % CounterLimit
    <3>1. (befehle + d) % CounterLimit = x % CounterLimit /\ befehle' \in Nat
      BY <1>2, <1>3, <2>3, <2>4, <2>6, CountsUp
    <3>2. x \in Nat
      BY <2>3, <2>6
    <3> QED
      BY <2>4, <3>1, <3>2, CountsOn
  <2>9. outer' <= len
    BY <1>2, <2>4
  <2> QED
    BY <1>2, <2>4, <2>5, <2>7, <2>8, <2>9 DEF InsertionSorts
<1>5. CASE InsertionDone
  <2>1. /\ befehle' = (befehle + 1) % CounterLimit /\ outer >= len /\ ~done /\ done'
        /\ array' = array /\ outer' = outer
    BY <1>5 DEF InsertionDone, Count
  <2>2. InsertedUpTo(array, outer)'
    BY <1>2, <1>3, <2>1 DEF InsertedUpTo, Ascending, Shuffled, Once, Place
  <2>3. PICK x : x = InsertionCost(outer)
    OBVIOUS
  <2>4. InsertionCost(outer)' = x
    BY <1>2, <2>1, <2>3 DEF InsertionCost, InversionsBelow, Place
  <2>5. x \in Nat
    <3>1. IsFiniteSet(Place \X Place)
      BY <1>2, PlaceFinite, FS_Product
    <3>2. InversionsBelow(outer) \in SUBSET (Place \X Place)
      BY DEF InversionsBelow
    <3>3. Cardinality(InversionsBelow(outer)) \in Nat
      BY <3>1, <3>2, FS_Subset, FS_CardinalityType
    <3> QED
      BY <1>2, <2>3, <3>3 DEF InsertionCost
  <2>6. (befehle + 1) % CounterLimit = (x + 1) % CounterLimit
    BY <1>2, <1>3, <2>1, <2>3, <2>5, CountsUp
  <2>7. x + 1 = 1 + x
    BY <2>5
  <2> QED
    BY <1>2, <1>3, <2>1, <2>2, <2>4, <2>6, <2>7 DEF InsertionSorts
<1> QED
  BY <1>1, <1>4, <1>5 DEF SortNext, CountValue, WriteValue, CountDone, MergePair, MergeWider,
                          MergeDone, SortRecursively

\* An array that is in order, and is the input's in another, is what every
\* program owes.
LEMMA SortedBy ==
    ASSUME len \in Nat, input \in Arrays, array \in Arrays, Ascending(array, 0, len - 1),
           NEW f, Shuffled(array, input, f)
    PROVE  Sorted
<1>1. \A v : HowMany(array, v) = HowMany(input, v)
  BY AsOften
<1>2. DOMAIN array = Place
  BY DEF Arrays
<1>3. \A i, j \in Place : i < j => array[i] <= array[j]
  BY DEF Ascending, Place
<1> QED
  BY <1>1, <1>2, <1>3 DEF Sorted

LEMMA InsertionDelivers ==
    ASSUME SortTypes, InsertionSorts, algorithm = "insertion"
    PROVE  Sorted /\ CommandsCounted
<1>1. SUFFICES ASSUME done PROVE Sorted /\ CommandsCounted
  BY DEF Sorted, CommandsCounted
<1>2. /\ len \in Nat /\ input \in Arrays /\ array \in Arrays /\ outer \in Nat /\ outer >= 1
  BY SortingAssumption DEF SortTypes
<1>3. /\ outer = 1 \/ outer <= len
      /\ InsertedUpTo(array, outer)
      /\ outer >= len /\ befehle = (1 + InsertionCost(outer)) % CounterLimit
  BY <1>1 DEF InsertionSorts
<1>4. Sorted
  <2>1. Ascending(array, 0, len - 1)
    BY <1>2, <1>3 DEF InsertedUpTo, Ascending, Place
  <2>2. PICK f : Shuffled(array, input, f)
    BY <1>3 DEF InsertedUpTo
  <2> QED
    BY <1>2, <2>1, <2>2, SortedBy
<1>5. InversionsBelow(outer) = {p \in (DOMAIN input) \X (DOMAIN input) :
                             p[1] < p[2] /\ input[p[1]] > input[p[2]]}
  <2>1. DOMAIN input = Place
    BY <1>2 DEF Arrays
  <2>2. \A k \in Place : k < outer
    BY <1>2, <1>3 DEF Place
  <2> QED
    BY <2>1, <2>2 DEF InversionsBelow
<1>6. Inversions = Cardinality(InversionsBelow(outer))
  BY <1>5 DEF Inversions
<1>7. outer - 1 = IF len > 1 THEN len - 1 ELSE 0
  BY <1>2, <1>3
<1>8. Inversions \in Nat
  <2>1. IsFiniteSet(Place \X Place)
    BY <1>2, PlaceFinite, FS_Product
  <2>2. InversionsBelow(outer) \in SUBSET (Place \X Place)
    BY DEF InversionsBelow
  <2> QED
    BY <1>6, <2>1, <2>2, FS_Subset, FS_CardinalityType
<1>9. PICK x \in Nat, y \in Nat : x = Inversions /\ y = outer - 1
  BY <1>2, <1>8
<1>10. 1 + InsertionCost(outer) = 2 + 6 * y + 4 * x
  <2>1. 1 + (1 + (6 * y + 4 * x)) = 2 + 6 * y + 4 * x
    OBVIOUS
  <2> QED
    BY <1>6, <1>9, <2>1 DEF InsertionCost
<1>11. befehle = (2 + 6 * (IF len > 1 THEN len - 1 ELSE 0) + 4 * Inversions) % CounterLimit
  BY <1>3, <1>7, <1>9, <1>10
<1>12. CommandsCounted
  BY <1>11 DEF CommandsCounted
<1> QED
  BY <1>4, <1>12
-----------------------------------------------------------------------------
(* Count sort.                                                             *)

\* The places of v among the first m, those of what is smaller than v, and
\* how many those are.
OfValue(v, m) == {i \in Place : i < m /\ input[i] = v}
BelowValue(v) == {i \in Place : input[i] < v}
BelowOf(v) == Cardinality(BelowValue(v))

\* The commands before the two loops end.
CountCost(j, v) == (5 + 3 * (MaxValue + 1)) + ((3 * j + 4 * v) + 4 * BelowOf(v))

\* Everything below v has been written to its places.
WrittenBelow(a, v) ==
    \A w \in Value, i \in Place : w < v /\ BelowOf(w) <= i /\ i < BelowOf(w + 1) => a[i] = w

CountSorts == algorithm = "count" =>
    /\ outer <= len /\ inner <= MaxValue + 1 /\ (inner > 0 => outer = len)
    /\ \A v \in Value : counts[v] = Cardinality(OfValue(v, outer))
    /\ WrittenBelow(array, inner)
    /\ ~done => befehle % CounterLimit = CountCost(outer, inner) % CounterLimit
    /\ done => /\ outer = len /\ inner = MaxValue + 1
               /\ befehle = (CountCost(len, MaxValue + 1) + 5) % CounterLimit

LEMMA PlacesFinite ==
    ASSUME len \in Nat
    PROVE  /\ \A v, m : IsFiniteSet(OfValue(v, m)) /\ Cardinality(OfValue(v, m)) \in Nat
           /\ \A v : IsFiniteSet(BelowValue(v)) /\ BelowOf(v) \in Nat
<1>1. IsFiniteSet(Place)
  BY PlaceFinite
<1>2. \A v, m : OfValue(v, m) \in SUBSET Place
  BY DEF OfValue
<1>3. \A v : BelowValue(v) \in SUBSET Place
  BY DEF BelowValue
<1>4. \A v, m : IsFiniteSet(OfValue(v, m))
  BY <1>1, <1>2, FS_Subset
<1>5. \A v : IsFiniteSet(BelowValue(v))
  BY <1>1, <1>3, FS_Subset
<1> QED
  BY <1>4, <1>5, FS_CardinalityType DEF BelowOf

\* The places of one value follow those of the smaller ones.
LEMMA BelowGrows ==
    ASSUME len \in Nat, input \in Arrays, NEW v \in Value
    PROVE  BelowOf(v + 1) = BelowOf(v) + Cardinality(OfValue(v, len))
<1>1. \A i \in Place : input[i] \in Int /\ i < len
  BY SortingAssumption DEF Arrays, Value, Place
<1>2. v \in Int
  BY SortingAssumption DEF Value
<1>3. BelowValue(v + 1) = BelowValue(v) \cup OfValue(v, len)
  BY <1>1, <1>2 DEF BelowValue, OfValue
<1>4. BelowValue(v) \cap OfValue(v, len) = {}
  BY <1>1, <1>2 DEF BelowValue, OfValue
<1>5. /\ IsFiniteSet(BelowValue(v)) /\ BelowOf(v) \in Nat
      /\ IsFiniteSet(OfValue(v, len)) /\ Cardinality(OfValue(v, len)) \in Nat
  BY PlacesFinite
<1>6. PICK X, Y : X = BelowValue(v) /\ Y = OfValue(v, len)
  OBVIOUS
<1>7. Cardinality(X \cup Y) = Cardinality(X) + Cardinality(Y) - Cardinality(X \cap Y)
  BY <1>5, <1>6, FS_Union
<1>8. Cardinality(X \cap Y) = 0
  BY <1>4, <1>6, FS_EmptySet
<1>9. Cardinality(X \cup Y) = Cardinality(X) + Cardinality(Y)
  BY <1>5, <1>6, <1>7, <1>8 DEF BelowOf
<1> QED
  BY <1>3, <1>6, <1>9 DEF BelowOf

LEMMA BelowOrdered ==
    ASSUME len \in Nat, input \in Arrays, NEW v \in Int, NEW w \in Int, v <= w
    PROVE  BelowOf(v) <= BelowOf(w)
<1>1. \A i \in Place : input[i] \in Int
  BY SortingAssumption DEF Arrays, Value
<1>2. BelowValue(v) \in SUBSET BelowValue(w)
  BY <1>1 DEF BelowValue
<1>3. IsFiniteSet(BelowValue(w))
  BY PlacesFinite
<1> QED
  BY <1>2, <1>3, FS_Subset DEF BelowOf

LEMMA BelowEnds ==
    ASSUME len \in Nat, input \in Arrays
    PROVE  BelowOf(0) = 0 /\ BelowOf(MaxValue + 1) = len
<1>1. \A i \in Place : input[i] \in Nat /\ input[i] < MaxValue + 1
  BY SortingAssumption DEF Arrays, Value
<1>2. BelowValue(0) = {}
  BY <1>1 DEF BelowValue
<1>3. BelowValue(MaxValue + 1) = Place
  BY <1>1 DEF BelowValue
<1>4. Cardinality(BelowValue(0)) = 0
  BY <1>2, FS_EmptySet
<1> QED
  BY <1>3, <1>4, PlaceFinite DEF BelowOf

\* Every place is one of some value's.
LEMMA PlaceBelow ==
    ASSUME len \in Nat, input \in Arrays, NEW i \in Place
    PROVE  \E v \in Value : BelowOf(v) <= i /\ i < BelowOf(v + 1)
<1>1. MaxValue \in Nat /\ MaxValue + 1 \in Nat /\ i \in Nat /\ i < len
  BY SortingAssumption DEF Place
<1>2. PICK S : S = {n \in 0 .. MaxValue + 1 :
                      i < BelowOf(n) => \E v \in Value : BelowOf(v) <= i /\ i < BelowOf(v + 1)}
  OBVIOUS
<1>3. 0 \in S
  <2>1. 0 \in 0 .. MaxValue + 1 /\ BelowOf(0) = 0
    BY <1>1, BelowEnds
  <2> QED
    BY <1>1, <1>2, <2>1
<1>4. ASSUME NEW n \in 0 .. (MaxValue + 1) - 1, n \in S PROVE n + 1 \in S
  <2>1. n \in Value /\ n + 1 \in 0 .. MaxValue + 1
    BY <1>1 DEF Value
  <2>2. BelowOf(n) \in Nat /\ BelowOf(n + 1) \in Nat
    BY PlacesFinite
  <2>3. BelowOf(n) <= i \/ i < BelowOf(n)
    BY <1>1, <2>2
  <2> QED
    BY <1>2, <1>4, <2>1, <2>3
<1>5. MaxValue + 1 \in 0 .. MaxValue + 1
  BY <1>1
<1>6. MaxValue + 1 \in S
  BY <1>1, <1>3, <1>4, <1>5, AllUpTo
<1> QED
  BY <1>1, <1>2, <1>6, BelowEnds

\* Where k stands is where the places of the next value begin.
SumOf(s) == s = [w \in 0 .. MaxValue + 1 |-> IF w = 0 THEN 0 ELSE s[w - 1] + counts[w - 1]]

LEMMA SumExists ==
    ASSUME counts \in [Value -> Nat]
    PROVE  \E s : SumOf(s)
<1>1. MaxValue \in Nat /\ MaxValue + 1 \in Nat /\ 0 \in Nat
  BY SortingAssumption
<1>2. PICK step : step = [x \in Nat \X Nat |-> IF x[1] \in Value THEN x[2] + counts[x[1]] ELSE 0]
  OBVIOUS
<1>3. \A i \in Nat, k \in Nat : step[<<i, k>>] = IF i \in Value THEN k + counts[i] ELSE 0
  BY <1>2
<1>4. step \in [Nat \X Nat -> Nat]
  BY <1>2
<1>5. PICK s \in [0 .. MaxValue + 1 -> Nat] : Follows(s, MaxValue + 1, 0, step)
  BY <1>1, <1>4, FollowsExists
<1>6. ASSUME NEW w \in 0 .. MaxValue + 1
      PROVE  s[w] = IF w = 0 THEN 0 ELSE s[w - 1] + counts[w - 1]
  <2>1. CASE w = 0
    BY <1>5, <2>1 DEF Follows
  <2>2. CASE w # 0
    <3>1. /\ w - 1 \in 0 .. (MaxValue + 1) - 1 /\ (w - 1) + 1 = w /\ w - 1 \in Nat
          /\ w - 1 \in Value /\ w - 1 \in 0 .. MaxValue + 1
      BY <1>1, <2>2 DEF Value
    <3>2. s[(w - 1) + 1] = step[<<w - 1, s[w - 1]>>]
      BY <1>5, <3>1 DEF Follows
    <3>3. s[w - 1] \in Nat
      BY <1>5, <3>1
    <3> QED
      BY <1>3, <2>2, <3>1, <3>2, <3>3
  <2> QED
    BY <2>1, <2>2
<1>7. s = [w \in 0 .. MaxValue + 1 |-> s[w]]
  BY <1>5
<1> QED
  BY <1>6, <1>7, ZenonT(30) DEF SumOf

LEMMA SmallerIs ==
    ASSUME len \in Nat, input \in Arrays, counts \in [Value -> Nat],
           \A v \in Value : counts[v] = Cardinality(OfValue(v, len)),
           NEW u \in Value
    PROVE  Smaller(u) = BelowOf(u)
<1> DEFINE R == CHOOSE s : s = [w \in 0 .. MaxValue + 1 |->
                                  IF w = 0 THEN 0 ELSE s[w - 1] + counts[w - 1]]
<1>1. SumOf(R)
  <2>1. PICK s : SumOf(s)
    BY SumExists
  <2> QED
    BY <2>1 DEF SumOf
<1>2. Smaller(u) = R[u]
  BY DEF Smaller
<1> HIDE DEF R
<1>3. MaxValue \in Nat /\ MaxValue + 1 \in Nat
  BY SortingAssumption
<1>4. PICK S : S = {n \in 0 .. MaxValue + 1 : R[n] = BelowOf(n)}
  OBVIOUS
<1>5. 0 \in S
  BY <1>1, <1>3, <1>4, BelowEnds DEF SumOf
<1>6. ASSUME NEW n \in 0 .. (MaxValue + 1) - 1, n \in S PROVE n + 1 \in S
  <2>1. n \in Value /\ n + 1 \in 0 .. MaxValue + 1 /\ n + 1 # 0 /\ (n + 1) - 1 = n
    BY <1>3 DEF Value
  <2>2. R[n + 1] = R[n] + counts[n]
    BY <1>1, <2>1 DEF SumOf
  <2>3. BelowOf(n + 1) = BelowOf(n) + Cardinality(OfValue(n, len))
    BY <2>1, BelowGrows
  <2>4. R[n] = BelowOf(n)
    BY <1>4, <1>6
  <2> QED
    BY <1>4, <2>1, <2>2, <2>3, <2>4
<1>7. u \in 0 .. MaxValue + 1
  BY <1>3 DEF Value
<1>8. u \in S
  BY <1>3, <1>5, <1>6, <1>7, AllUpTo
<1> QED
  BY <1>2, <1>4, <1>8

LEMMA CountSortsInit == SortInit => CountSorts
<1>1. SUFFICES ASSUME SortInit, algorithm = "count" PROVE CountSorts
  BY DEF CountSorts
<1>2. /\ len \in Nat /\ input \in Arrays /\ outer = 0 /\ inner = 0 /\ ~done
      /\ counts = [v \in Value |-> 0] /\ MaxValue \in Nat
      /\ befehle = (2 + 1 + 3 * (MaxValue + 1) + 1 + 1) % CounterLimit
  BY <1>1, SortingAssumption DEF SortInit, Arrays, Place
<1>3. ASSUME NEW v \in Value PROVE counts[v] = Cardinality(OfValue(v, 0))
  <2>1. OfValue(v, 0) = {}
    BY DEF OfValue, Place
  <2> QED
    BY <1>2, <2>1, FS_EmptySet
<1>4. WrittenBelow(array, 0)
  BY DEF WrittenBelow, Value
<1>5. CountCost(0, 0) = 2 + 1 + 3 * (MaxValue + 1) + 1 + 1 /\ CountCost(0, 0) \in Nat
  BY <1>2, BelowEnds DEF CountCost
<1>6. befehle % CounterLimit = CountCost(0, 0) % CounterLimit
  <2>1. CounterLimit \in Nat \ {0}
    BY SortingAssumption
  <2>2. befehle \in Nat
    BY <1>2, <1>5, <2>1, ModPlus
  <2> QED
    BY <1>2, <1>5, <2>2, CountsOn
<1> QED
  BY <1>2, <1>3, <1>4, <1>6 DEF CountSorts

\* What the invariant says does not depend on what the steps change.
LEMMA CountSortsNext ==
    ASSUME input' = input, len' = len, NEW j, NEW v, NEW a, NEW c, NEW x, NEW e,
           outer' = j, inner' = v, array' = a, counts' = c, befehle' = x, done' = e,
           j <= len, v <= MaxValue + 1, v > 0 => j = len,
           \A w \in Value : c[w] = Cardinality(OfValue(w, j)),
           WrittenBelow(a, v),
           ~e => x % CounterLimit = CountCost(j, v) % CounterLimit,
           e => /\ j = len /\ v = MaxValue + 1
                /\ x = (CountCost(len, MaxValue + 1) + 5) % CounterLimit
    PROVE  CountSorts'
BY DEF CountSorts, WrittenBelow, CountCost, BelowOf, BelowValue, OfValue, Place

LEMMA CountSortsKept == SortTypes /\ CountSorts /\ SortNext => CountSorts'
<1>1. SUFFICES ASSUME SortTypes, CountSorts, SortNext, algorithm = "count"
               PROVE CountSorts'
  BY DEF CountSorts, SortNext, SortConstant
<1>2. /\ algorithm' = algorithm /\ input' = input /\ len' = len
      /\ len \in Nat /\ input \in Arrays /\ array \in Arrays /\ outer \in Nat /\ inner \in Nat
      /\ counts \in [Value -> Nat] /\ befehle \in Nat /\ MaxValue \in Nat
  BY <1>1, SortingAssumption DEF SortTypes, SortNext, SortConstant
<1>3. /\ outer <= len /\ inner <= MaxValue + 1 /\ (inner > 0 => outer = len)
      /\ \A v \in Value : counts[v] = Cardinality(OfValue(v, outer))
      /\ WrittenBelow(array, inner)
      /\ ~done => befehle % CounterLimit = CountCost(outer, inner) % CounterLimit
  BY <1>1 DEF CountSorts
<1>4. BelowOf(inner) \in Nat
  BY <1>2, PlacesFinite
<1>5. CountCost(outer, inner) \in Nat
  BY <1>2, <1>4 DEF CountCost
<1>6. ASSUME NEW k \in Nat, NEW x, x = (befehle + k) % CounterLimit, ~done
      PROVE  /\ x % CounterLimit = (CountCost(outer, inner) + k) % CounterLimit
             /\ x = (CountCost(outer, inner) + k) % CounterLimit
  <2>1. PICK y \in Nat : y = CountCost(outer, inner)
    BY <1>5
  <2>2. (befehle + k) % CounterLimit = (y + k) % CounterLimit /\ (befehle + k) % CounterLimit \in Nat
    BY <1>2, <1>3, <1>6, <2>1, CountsUp
  <2>3. y + k \in Nat
    BY <2>1
  <2>4. x % CounterLimit = (y + k) % CounterLimit
    BY <1>6, <2>2, <2>3, CountsOn
  <2> QED
    BY <1>6, <2>1, <2>2, <2>4
<1>7. CASE CountValue
  <2>01. PICK j \in Nat : outer' = j /\ j = outer + 1
    BY <1>2, <1>7 DEF CountValue
  <2>02. PICK x, c : befehle' = x /\ counts' = c
    OBVIOUS
  <2>1. outer' = j /\ j = outer + 1 /\ befehle' = x /\ counts' = c
    BY <2>01, <2>02
  <2>2. /\ outer < len /\ ~done /\ x = (befehle + 3) % CounterLimit
        /\ c = [counts EXCEPT ![input[outer]] = counts[input[outer]] + 1]
        /\ array' = array /\ inner' = inner /\ done' = done
    BY <1>7, <2>1 DEF CountValue, Count
  <2>3. outer \in Place /\ j <= len /\ inner = 0
    BY <1>2, <1>3, <2>1, <2>2 DEF Place
  <2>4. input[outer] \in Value
    BY <1>2, <2>3 DEF Arrays
  <2>5. ASSUME NEW v \in Value PROVE c[v] = Cardinality(OfValue(v, j))
    <3>1. IsFiniteSet(OfValue(v, outer)) /\ Cardinality(OfValue(v, outer)) \in Nat
      BY <1>2, PlacesFinite
    <3>2. \A i \in Place : (i < j <=> i < outer \/ i = outer) /\ ~(outer < outer)
      BY <1>2, <2>1 DEF Place
    <3>3. CASE input[outer] = v
      <4>1. OfValue(v, j) = OfValue(v, outer) \cup {outer} /\ outer \notin OfValue(v, outer)
        BY <2>3, <3>2, <3>3 DEF OfValue
      <4>2. Cardinality(OfValue(v, j)) = Cardinality(OfValue(v, outer)) + 1
        BY <3>1, <4>1, FS_AddElement
      <4> QED
        BY <1>2, <1>3, <2>2, <3>3, <4>2
    <3>4. CASE input[outer] # v
      <4>1. OfValue(v, j) = OfValue(v, outer)
        BY <2>3, <3>2, <3>4 DEF OfValue
      <4> QED
        BY <1>2, <1>3, <2>2, <3>4, <4>1
    <3> QED
      BY <3>3, <3>4
  <2>6. x % CounterLimit = CountCost(j, inner) % CounterLimit
    <3>1. CountCost(j, inner) = CountCost(outer, inner) + 3
      BY <1>2, <1>4, <2>1 DEF CountCost
    <3>2. x % CounterLimit = (CountCost(outer, inner) + 3) % CounterLimit
      BY <1>6, <2>2
    <3> QED
      BY <3>1, <3>2
  <2>7. ~(inner > 0)
    BY <2>3
  <2> QED
    BY <1>2, <1>3, <2>1, <2>2, <2>3, <2>5, <2>6, <2>7, CountSortsNext
<1>8. CASE WriteValue
  <2>01. PICK v \in Nat : inner' = v /\ v = inner + 1
    BY <1>2, <1>8 DEF WriteValue
  <2>02. PICK x, a : befehle' = x /\ array' = a
    OBVIOUS
  <2>1. inner' = v /\ v = inner + 1 /\ befehle' = x /\ array' = a
    BY <2>01, <2>02
  <2>2. /\ outer = len /\ inner \in Value /\ ~done /\ v <= MaxValue + 1
    BY <1>2, <1>3, <1>8, <2>1 DEF WriteValue, Value
  <2>3. counts' = counts /\ outer' = outer /\ done' = done
    BY <1>8 DEF WriteValue
  <2>4. PICK n \in Nat : n = counts[inner] /\ n = Cardinality(OfValue(inner, len))
    BY <1>2, <1>3, <2>2
  <2>5. PICK b \in Nat : b = Smaller(inner) /\ b = BelowOf(inner)
    <3>1. \A w \in Value : counts[w] = Cardinality(OfValue(w, len))
      BY <1>3, <2>2
    <3> QED
      BY <1>2, <1>4, <2>2, <3>1, SmallerIs
  <2>6. BelowOf(v) = b + n
    BY <1>2, <2>1, <2>2, <2>4, <2>5, BelowGrows
  <2>7. a = [i \in DOMAIN array |-> IF i \in b .. b + n - 1 THEN inner ELSE array[i]]
    BY <1>8, <2>1, <2>4, <2>5 DEF WriteValue
  <2>8. \A i \in Place : a[i] = IF b <= i /\ i < b + n THEN inner ELSE array[i]
    <3>1. DOMAIN array = Place /\ Place \subseteq Int
      BY <1>2 DEF Arrays, Place
    <3> QED
      BY <2>7, <3>1
  <2>9. WrittenBelow(a, v)
    <3>1. SUFFICES ASSUME NEW w \in Value, NEW i \in Place, w < v, BelowOf(w) <= i, i < BelowOf(w + 1)
                   PROVE  a[i] = w
      BY DEF WrittenBelow
    <3>2. w \in Nat /\ i \in Nat
      BY <1>2 DEF Value, Place
    <3>3. CASE w = inner
      BY <2>1, <2>5, <2>6, <2>8, <3>1, <3>3
    <3>4. CASE w # inner
      <4>1. w < inner /\ w + 1 <= inner /\ w + 1 \in Int
        BY <1>2, <2>1, <3>1, <3>2, <3>4
      <4>2. BelowOf(w + 1) <= b
        BY <1>2, <2>5, <4>1, BelowOrdered
      <4>3. BelowOf(w + 1) \in Nat
        BY <1>2, PlacesFinite
      <4>4. ~(b <= i)
        BY <3>1, <3>2, <4>2, <4>3
      <4>5. array[i] = w
        BY <1>3, <3>1, <4>1 DEF WrittenBelow
      <4> QED
        BY <2>8, <4>4, <4>5
    <3> QED
      BY <3>3, <3>4
  <2>10. x % CounterLimit = CountCost(outer, v) % CounterLimit
    <3>1. 4 + 4 * n \in Nat /\ x = (befehle + (4 + 4 * n)) % CounterLimit
      BY <1>8, <2>1, <2>4 DEF WriteValue, Count
    <3>2. CountCost(outer, v) = CountCost(outer, inner) + (4 + 4 * n)
      BY <1>2, <2>1, <2>5, <2>6 DEF CountCost
    <3>3. x % CounterLimit = (CountCost(outer, inner) + (4 + 4 * n)) % CounterLimit
      BY <1>6, <2>2, <3>1
    <3> QED
      BY <3>2, <3>3
  <2>11. outer <= len
    BY <1>3
  <2> QED
    BY <1>2, <1>3, <2>1, <2>2, <2>3, <2>9, <2>10, <2>11, CountSortsNext
<1>9. CASE CountDone
  <2>1. PICK x : befehle' = x
    OBVIOUS
  <2>2. /\ outer = len /\ inner = MaxValue + 1 /\ ~done /\ done' = TRUE
        /\ array' = array /\ counts' = counts /\ outer' = outer /\ inner' = inner
    BY <1>2, <1>3, <1>9 DEF CountDone
  <2>3. x = (befehle + 5) % CounterLimit
    <3>1. x = (befehle + (1 + 2 + 1 + 1)) % CounterLimit /\ 1 + 2 + 1 + 1 = 5
      BY <1>9, <2>1 DEF CountDone, Count
    <3> QED
      BY <3>1
  <2>4. x = (CountCost(len, MaxValue + 1) + 5) % CounterLimit
    BY <1>6, <2>2, <2>3
  <2> QED
    BY <1>2, <1>3, <2>1, <2>2, <2>4, CountSortsNext
<1> QED
  BY <1>1, <1>7, <1>8, <1>9 DEF SortNext, InsertKey, InsertionDone, MergePair, MergeWider,
                          MergeDone, SortRecursively

LEMMA CountDelivers ==
    ASSUME SortTypes, CountSorts, algorithm = "count"
    PROVE  Sorted /\ CommandsCounted
<1>1. SUFFICES ASSUME done PROVE Sorted /\ CommandsCounted
  BY DEF Sorted, CommandsCounted
<1>2. len \in Nat /\ input \in Arrays /\ array \in Arrays /\ MaxValue \in Nat
  BY SortingAssumption DEF SortTypes
<1>3. /\ WrittenBelow(array, MaxValue + 1)
      /\ befehle = (CountCost(len, MaxValue + 1) + 5) % CounterLimit
  BY <1>1 DEF CountSorts
<1>4. CommandsCounted
  <2>1. BelowOf(MaxValue + 1) = len
    BY <1>2, BelowEnds
  <2>2. CountCost(len, MaxValue + 1) + 5 = 10 + 7 * (MaxValue + 1) + 7 * len
    BY <1>2, <2>1 DEF CountCost
  <2> QED
    BY <1>3, <2>2 DEF CommandsCounted
<1>5. \A v \in Value, i \in Place : BelowOf(v) <= i /\ i < BelowOf(v + 1) => array[i] = v
  BY <1>2, <1>3 DEF WrittenBelow, Value
<1>6. \A v \in Value : BelowOf(v) \in Nat /\ BelowOf(v + 1) \in Nat /\ v \in Nat
  BY <1>2, PlacesFinite DEF Value
<1>7. DOMAIN array = Place /\ DOMAIN input = Place /\ Place \subseteq Nat
  BY <1>2 DEF Arrays, Place
<1>8. ASSUME NEW i \in Place, NEW j \in Place, i < j PROVE array[i] <= array[j]
  <2>1. PICK v \in Value : BelowOf(v) <= i /\ i < BelowOf(v + 1)
    BY <1>2, PlaceBelow
  <2>2. PICK w \in Value : BelowOf(w) <= j /\ j < BelowOf(w + 1)
    BY <1>2, PlaceBelow
  <2>3. ASSUME w < v PROVE FALSE
    <3>1. w + 1 <= v /\ w + 1 \in Int /\ v \in Int
      BY <1>6, <2>3
    <3>2. BelowOf(w + 1) <= BelowOf(v)
      BY <1>2, <3>1, BelowOrdered
    <3>3. i \in Nat /\ j \in Nat
      BY <1>7
    <3> QED
      BY <1>6, <1>8, <2>1, <2>2, <3>2, <3>3
  <2>4. v <= w
    BY <1>6, <2>3
  <2> QED
    BY <1>5, <2>1, <2>2, <2>4
<1>9. ASSUME NEW v \in Value PROVE HowMany(array, v) = HowMany(input, v)
  <2>1. PICK x \in Nat, y \in Nat : x = BelowOf(v) /\ y = BelowOf(v + 1)
    BY <1>6
  <2>2. {i \in Place : array[i] = v} = x .. y - 1
    <3>1. ASSUME NEW i \in Place, array[i] = v PROVE i \in x .. y - 1
      <4>1. PICK w \in Value : BelowOf(w) <= i /\ i < BelowOf(w + 1)
        BY <1>2, PlaceBelow
      <4>2. w = v
        BY <1>5, <3>1, <4>1
      <4> QED
        BY <1>7, <2>1, <4>1, <4>2
    <3>2. ASSUME NEW i \in x .. y - 1 PROVE i \in Place /\ array[i] = v
      <4>1. y <= len
        <5>1. v + 1 <= MaxValue + 1 /\ v + 1 \in Int /\ MaxValue + 1 \in Int
          BY <1>2 DEF Value
        <5>2. BelowOf(v + 1) <= BelowOf(MaxValue + 1)
          BY <1>2, <5>1, BelowOrdered
        <5> QED
          BY <1>2, <2>1, <5>2, BelowEnds
      <4>2. i \in Place
        BY <1>2, <2>1, <4>1 DEF Place
      <4> QED
        BY <1>5, <2>1, <4>2
    <3> QED
      BY <3>1, <3>2
  <2>3. y = x + Cardinality(OfValue(v, len)) /\ Cardinality(OfValue(v, len)) \in Nat
    BY <1>2, <2>1, BelowGrows, PlacesFinite
  <2>4. Cardinality(x .. y - 1) = Cardinality(OfValue(v, len))
    <3>1. x \in Int /\ y - 1 \in Int
      BY <2>1
    <3>2. Cardinality(x .. y - 1) = IF x > y - 1 THEN 0 ELSE (y - 1) - x + 1
      BY <3>1, FS_Interval
    <3> QED
      BY <2>1, <2>3, <3>2
  <2>5. OfValue(v, len) = {i \in DOMAIN input : input[i] = v}
    <3>1. \A i \in Place : i < len
      BY <1>2 DEF Place
    <3> QED
      BY <1>7, <3>1 DEF OfValue
  <2> QED
    BY <1>7, <2>2, <2>4, <2>5 DEF HowMany
<1>10. Sorted
  BY <1>7, <1>8, <1>9 DEF Sorted
<1> QED
  BY <1>4, <1>10
-----------------------------------------------------------------------------
(* The iterative merge sort.                                               *)

\* Where parts of width w begin.
Begins(w) == {k * w : k \in Nat}

\* The parts of the current width are sorted from l on, those of twice the
\* width before it.
PartsSorted(a, w, l) ==
    /\ \A x \in Begins(w) : x >= l => Ascending(a, x, x + w - 1)
    /\ \A x \in Begins(2 * w) : x < l => Ascending(a, x, x + 2 * w - 1)

MergeSorts == algorithm = "merge" =>
    /\ inner \in Begins(2 * outer)
    /\ outer > len - 1 => inner = 0
    /\ PartsSorted(array, outer, inner)
    /\ \E f : Shuffled(array, input, f)
    /\ done => outer > len - 1

LEMMA BeginsAre ==
    ASSUME NEW w \in Nat
    PROVE  /\ 0 \in Begins(w) /\ Begins(w) \subseteq Nat
           /\ \A x \in Begins(w) : x + w \in Begins(w)
           /\ Begins(2 * w) \subseteq Begins(w)
<1>1. \A k \in Nat : k * w \in Nat /\ (k + 1) * w = k * w + w
  BY SMT
<1>2. 0 * w = 0
  BY SMT
<1>3. \A k \in Nat : 2 * k \in Nat /\ k * (2 * w) = (2 * k) * w
  BY SMT
<1>4. 0 \in Begins(w) /\ Begins(w) \subseteq Nat
  BY <1>1, <1>2 DEF Begins
<1>5. ASSUME NEW x \in Begins(w) PROVE x + w \in Begins(w)
  <2>1. PICK k \in Nat : x = k * w
    BY DEF Begins
  <2>2. k + 1 \in Nat /\ x + w = (k + 1) * w
    BY <1>1, <2>1
  <2> QED
    BY <2>2 DEF Begins
<1>6. ASSUME NEW x \in Begins(2 * w) PROVE x \in Begins(w)
  <2>1. PICK k \in Nat : x = k * (2 * w)
    BY DEF Begins
  <2> QED
    BY <1>3, <2>1 DEF Begins
<1> QED
  BY <1>4, <1>5, <1>6

\* One part ends before the next one begins.
LEMMA BeginsApart ==
    ASSUME NEW w \in Nat, NEW x \in Begins(w), NEW y \in Begins(w), x < y
    PROVE  x + w <= y
<1>1. PICK k \in Nat : x = k * w
  BY DEF Begins
<1>2. PICK j \in Nat : y = j * w
  BY DEF Begins
<1>3. ASSUME j <= k PROVE FALSE
  <2>1. PICK d \in Nat : k = j + d
    <3>1. k - j \in Nat /\ k = j + (k - j)
      BY <1>3
    <3> QED
      BY <3>1
  <2>2. k * w = j * w + d * w /\ d * w \in Nat /\ j * w \in Nat
    BY <2>1, SMT
  <2> QED
    BY <1>1, <1>2, <2>2
<1>4. PICK d \in Nat : j = k + (1 + d)
  <2>1. j - (k + 1) \in Nat /\ j = k + (1 + (j - (k + 1)))
    BY <1>3
  <2> QED
    BY <2>1
<1>5. j * w = k * w + (w + d * w) /\ d * w \in Nat /\ k * w \in Nat
  BY <1>4, SMT
<1> QED
  BY <1>1, <1>2, <1>5

\* One element is in order.
LEMMA OneIsSorted ==
    ASSUME len \in Nat, NEW a
    PROVE  PartsSorted(a, 1, 0)
<1>1. \A x \in Begins(1) : Ascending(a, x, x + 1 - 1)
  <2>1. Begins(1) \subseteq Nat
    BY BeginsAre
  <2> QED
    BY <2>1 DEF Ascending, Place
<1>2. Begins(2 * 1) \subseteq Nat
  BY BeginsAre
<1> QED
  BY <1>1, <1>2 DEF PartsSorted

\* One run of the inner loop,
LEMMA PairMerged ==
    ASSUME len \in Nat, NEW a \in Arrays, NEW w \in Nat, w >= 1, NEW l \in Begins(2 * w),
           w <= len - 1, l <= len - 1 - w, PartsSorted(a, w, l),
           NEW mid, mid = Smallest(l + w - 1, len - 1),
           NEW high, high = Smallest(l + 2 * w - 1, len - 1)
    PROVE  /\ Merge(a, l, mid, high) \in Arrays
           /\ \E f : Shuffled(Merge(a, l, mid, high), a, f)
           /\ l + 2 * w \in Begins(2 * w)
           /\ PartsSorted(Merge(a, l, mid, high), w, l + 2 * w)
<1>1. /\ l \in Nat /\ 2 * w \in Nat /\ l + 2 * w \in Begins(2 * w) /\ l \in Begins(w)
      /\ l + w \in Begins(w) /\ Begins(w) \subseteq Nat /\ Begins(2 * w) \subseteq Nat
  <2>1. 2 * w \in Nat
    OBVIOUS
  <2>2. /\ Begins(2 * w) \subseteq Nat /\ l + 2 * w \in Begins(2 * w)
    BY <2>1, BeginsAre
  <2>3. l \in Begins(w) /\ Begins(w) \subseteq Nat
    BY BeginsAre
  <2>4. l + w \in Begins(w)
    BY <2>3, BeginsAre
  <2> QED
    BY <2>1, <2>2, <2>3, <2>4
<1>2. /\ mid = l + w - 1 /\ mid \in Nat /\ high \in Nat /\ high <= l + 2 * w - 1
      /\ high = len - 1 \/ high = l + 2 * w - 1
      /\ mid + 1 = l + w /\ l <= mid /\ mid < high /\ high < len
  BY <1>1 DEF Smallest
<1>3. Halves(l, mid, high)
  BY <1>1, <1>2 DEF Halves
<1>4. Ascending(a, l, mid)
  BY <1>1, <1>2 DEF PartsSorted
<1>5. Ascending(a, mid + 1, high)
  <2>1. Ascending(a, l + w, (l + w) + w - 1)
    BY <1>1 DEF PartsSorted
  <2> QED
    BY <1>1, <1>2, <2>1 DEF Ascending, Place
<1>6. PICK b : b = Merge(a, l, mid, high)
  OBVIOUS
<1>7. b \in Arrays /\ \E f : Shuffled(b, a, f) /\ Still(f, l, high)
  BY <1>3, <1>6, MergeShuffles
<1>8. PICK f : Shuffled(b, a, f) /\ Still(f, l, high)
  BY <1>7
<1>9. Ascending(b, l, high)
  BY <1>3, <1>4, <1>5, <1>6, MergeOrders
<1>10. \A i \in Place : i < l \/ i > high => b[i] = a[i]
  BY <1>8 DEF Shuffled, Still
<1>11. ASSUME NEW x \in Begins(w), x >= l + 2 * w PROVE Ascending(b, x, x + w - 1)
  <2>1. Ascending(a, x, x + w - 1)
    BY <1>1, <1>11 DEF PartsSorted
  <2>2. \A i \in Place : x <= i => b[i] = a[i]
    BY <1>1, <1>2, <1>10, <1>11 DEF Place
  <2>3. \A i \in Place, j \in Place : x <= i /\ i < j => x <= j
    BY <1>1 DEF Place
  <2> QED
    BY <2>1, <2>2, <2>3 DEF Ascending
<1>12. ASSUME NEW x \in Begins(2 * w), x < l + 2 * w PROVE Ascending(b, x, x + 2 * w - 1)
  <2>1. x \in Nat
    BY <1>1
  <2>2. CASE x < l
    <3>1. x + 2 * w <= l
      BY <1>1, <2>2, BeginsApart
    <3>2. Ascending(a, x, x + 2 * w - 1)
      BY <2>2 DEF PartsSorted
    <3>3. \A i \in Place : i <= x + 2 * w - 1 => b[i] = a[i]
      BY <1>1, <1>10, <2>1, <3>1 DEF Place
    <3>4. \A i \in Place, j \in Place : i < j /\ j <= x + 2 * w - 1 => i <= x + 2 * w - 1
      BY <1>1, <2>1 DEF Place
    <3> QED
      BY <3>2, <3>3, <3>4 DEF Ascending
  <2>3. CASE x = l
    <3>1. \A j \in Place : j <= x + 2 * w - 1 => j <= high
      BY <1>1, <1>2, <2>3 DEF Place
    <3> QED
      BY <1>9, <2>3, <3>1 DEF Ascending
  <2>4. CASE l < x
    <3>1. l + 2 * w <= x
      BY <1>1, <2>4, BeginsApart
    <3> QED
      BY <1>1, <1>12, <2>1, <3>1
  <2> QED
    BY <1>1, <2>1, <2>2, <2>3, <2>4
<1> QED
  BY <1>1, <1>6, <1>7, <1>8, <1>11, <1>12 DEF PartsSorted

\* and when no pair is left, the parts are twice as wide.
LEMMA PartsWider ==
    ASSUME len \in Nat, NEW a, NEW w \in Nat, w >= 1, NEW l \in Nat,
           l > len - 1 - w, PartsSorted(a, w, l)
    PROVE  PartsSorted(a, 2 * w, 0)
<1>1. /\ Begins(2 * w) \subseteq Nat /\ Begins(2 * w) \subseteq Begins(w)
      /\ Begins(2 * (2 * w)) \subseteq Nat
  <2>1. 2 * w \in Nat /\ 2 * (2 * w) \in Nat
    OBVIOUS
  <2> QED
    BY <2>1, BeginsAre
<1>2. ASSUME NEW x \in Begins(2 * w) PROVE Ascending(a, x, x + 2 * w - 1)
  <2>1. CASE x < l
    BY <2>1 DEF PartsSorted
  <2>2. CASE x >= l
    <3>1. Ascending(a, x, x + w - 1)
      BY <1>1, <2>2 DEF PartsSorted
    <3>2. \A j \in Place : j <= x + w - 1
      BY <1>1, <2>2 DEF Place
    <3> QED
      BY <3>1, <3>2 DEF Ascending
  <2> QED
    BY <1>1, <2>1, <2>2
<1>3. \A x \in Begins(2 * (2 * w)) : ~(x < 0)
  BY <1>1
<1> QED
  BY <1>2, <1>3 DEF PartsSorted

LEMMA MergeSortsInit == SortInit => MergeSorts
<1>1. SUFFICES ASSUME SortInit, algorithm = "merge" PROVE MergeSorts
  BY DEF MergeSorts
<1>2. len \in Nat /\ outer = 1 /\ inner = 0 /\ array = input /\ ~done
  BY <1>1, SortingAssumption DEF SortInit
<1>3. 0 \in Begins(2 * 1)
  BY BeginsAre
<1>4. PartsSorted(array, 1, 0)
  BY <1>2, OneIsSorted
<1>5. \E f : Shuffled(array, input, f)
  BY <1>2, ShuffledNot
<1> QED
  BY <1>2, <1>3, <1>4, <1>5 DEF MergeSorts

\* What the invariant says does not depend on what the steps change.
LEMMA MergeSortsNext ==
    ASSUME input' = input, len' = len, NEW w, NEW l, NEW a, NEW e,
           outer' = w, inner' = l, array' = a, done' = e,
           l \in Begins(2 * w), w > len - 1 => l = 0, PartsSorted(a, w, l),
           \E f : Shuffled(a, input, f), e => w > len - 1
    PROVE  MergeSorts'
<1>1. Place' = Place
  BY DEF Place
<1>2. PartsSorted(array, outer, inner)'
  BY <1>1 DEF PartsSorted, Ascending, Begins
<1>3. (\E f : Shuffled(array, input, f))'
  BY <1>1 DEF Shuffled, Once
<1>4. (inner \in Begins(2 * outer))' /\ (outer > len - 1 => inner = 0)'
  BY DEF Begins
<1>5. (done => outer > len - 1)'
  OBVIOUS
<1> QED
  BY <1>2, <1>3, <1>4, <1>5 DEF MergeSorts

LEMMA MergeSortsKept == SortTypes /\ MergeSorts /\ SortNext => MergeSorts'
<1>1. SUFFICES ASSUME SortTypes, MergeSorts, SortNext, algorithm = "merge"
               PROVE MergeSorts'
  BY DEF MergeSorts, SortNext, SortConstant
<1>2. /\ algorithm' = algorithm /\ input' = input /\ len' = len
      /\ len \in Nat /\ input \in Arrays /\ array \in Arrays /\ outer \in Nat /\ inner \in Nat
      /\ outer >= 1
  BY <1>1, SortingAssumption DEF SortTypes, SortNext, SortConstant
<1>3. /\ inner \in Begins(2 * outer)
      /\ outer > len - 1 => inner = 0
      /\ PartsSorted(array, outer, inner)
      /\ \E f : Shuffled(array, input, f)
  BY <1>1 DEF MergeSorts
<1>4. PICK f : Shuffled(array, input, f)
  BY <1>3
<1>5. CASE MergePair
  <2>1. PICK mid : mid = Smallest(inner + outer - 1, len - 1)
    OBVIOUS
  <2>2. PICK high : high = Smallest(inner + 2 * outer - 1, len - 1)
    OBVIOUS
  <2>3. PICK a, l : a = Merge(array, inner, mid, high) /\ l = inner + 2 * outer
    OBVIOUS
  <2>4. /\ outer <= len - 1 /\ inner <= len - 1 - outer /\ ~done
        /\ array' = a /\ inner' = l /\ outer' = outer /\ done' = done
    BY <1>5, <2>1, <2>2, <2>3 DEF MergePair
  <2>5. a \in Arrays /\ (\E g : Shuffled(a, array, g)) /\ l \in Begins(2 * outer) /\ PartsSorted(a, outer, l)
    BY <1>2, <1>3, <2>1, <2>2, <2>3, <2>4, PairMerged
  <2>6. PICK g : Shuffled(a, array, g)
    BY <2>5
  <2>7. \E h : Shuffled(a, input, h)
    BY <1>4, <2>6, ShuffledTwice
  <2>8. ~(outer > len - 1)
    BY <1>2, <2>4
  <2> QED
    BY <1>2, <2>4, <2>5, <2>7, <2>8, MergeSortsNext
<1>6. CASE MergeWider
  <2>1. PICK w \in Nat : w = 2 * outer
    BY <1>2
  <2>2. /\ outer' = w /\ inner' = 0 /\ array' = array /\ done' = done /\ ~done
        /\ inner > len - 1 - outer
    <3>1. outer * 2 = 2 * outer
      BY <1>2
    <3> QED
      BY <1>6, <2>1, <3>1 DEF MergeWider
  <2>3. PartsSorted(array, w, 0)
    BY <1>2, <1>3, <2>1, <2>2, PartsWider
  <2>4. 0 \in Begins(2 * w)
    <3>1. 2 * w \in Nat
      BY <2>1
    <3> QED
      BY <3>1, BeginsAre
  <2> QED
    BY <1>2, <1>3, <2>2, <2>3, <2>4, MergeSortsNext
<1>7. CASE MergeDone
  BY <1>2, <1>3, <1>7, MergeSortsNext DEF MergeDone
<1> QED
  BY <1>1, <1>5, <1>6, <1>7 DEF SortNext, InsertKey, InsertionDone, CountValue, WriteValue, CountDone,
                          SortRecursively

LEMMA MergeDelivers ==
    ASSUME SortTypes, MergeSorts, algorithm = "merge", done
    PROVE  Sorted
<1>1. /\ len \in Nat /\ input \in Arrays /\ array \in Arrays /\ outer \in Nat
  BY SortingAssumption DEF SortTypes
<1>2. /\ inner = 0 /\ outer > len - 1
      /\ PartsSorted(array, outer, inner)
      /\ \E f : Shuffled(array, input, f)
  BY DEF MergeSorts
<1>3. Ascending(array, 0, 0 + outer - 1)
  <2>1. 0 \in Begins(outer)
    BY <1>1, BeginsAre
  <2> QED
    BY <1>2, <2>1 DEF PartsSorted
<1>4. Ascending(array, 0, len - 1)
  BY <1>1, <1>2, <1>3 DEF Ascending, Place
<1>5. PICK f : Shuffled(array, input, f)
  BY <1>2
<1> QED
  BY <1>1, <1>4, <1>5, SortedBy
-----------------------------------------------------------------------------
(* All four.                                                               *)

RecursionSorts == algorithm = "merge_recursive" =>
    IF done THEN Ascending(array, 0, len - 1) /\ \E f : Shuffled(array, input, f)
    ELSE array = input

SortInvariant == SortTypes /\ InsertionSorts /\ CountSorts /\ MergeSorts /\ RecursionSorts

LEMMA RecursionSortsKept == SortTypes /\ RecursionSorts /\ SortNext => RecursionSorts'
<1>1. SUFFICES ASSUME SortTypes, RecursionSorts, SortNext, algorithm = "merge_recursive"
               PROVE RecursionSorts'
  BY DEF RecursionSorts, SortNext, SortConstant
<1>2. SortRecursively /\ len' = len /\ input' = input
  BY <1>1 DEF SortNext, SortConstant, InsertKey, InsertionDone, CountValue, WriteValue, CountDone,
              MergePair, MergeWider, MergeDone
<1>3. array = input /\ len \in Nat /\ array \in Arrays
  BY <1>1, <1>2, SortingAssumption DEF RecursionSorts, SortTypes, SortRecursively
<1>4. PICK a : a = MergeSort(array)
  OBVIOUS
<1>5. Ascending(a, 0, len - 1) /\ \E f : Shuffled(a, input, f)
  BY <1>3, <1>4, MergeSortSorts
<1>6. array' = a /\ done'
  BY <1>2, <1>4 DEF SortRecursively
<1>7. Ascending(array, 0, len - 1)' /\ (\E f : Shuffled(array, input, f))'
  BY <1>2, <1>5, <1>6 DEF Ascending, Shuffled, Once, Place
<1> QED
  BY <1>6, <1>7 DEF RecursionSorts

LEMMA SortInvariantKept == SortInvariant /\ [SortNext]_sortVars => SortInvariant'
<1>1. SUFFICES ASSUME SortInvariant, [SortNext]_sortVars PROVE SortInvariant'
  OBVIOUS
<1>2. CASE SortNext
  BY <1>1, <1>2, SortTypesKept, InsertionSortsKept, CountSortsKept, MergeSortsKept,
     RecursionSortsKept DEF SortInvariant
<1>3. CASE UNCHANGED sortVars
  <2>1. SortTypes'
    BY <1>1, <1>3 DEF SortInvariant, SortTypes, sortVars, Arrays, Place
  <2>2. InsertionSorts'
    BY <1>1, <1>3 DEF SortInvariant, sortVars, InsertionSorts, InsertedUpTo, Ascending, Shuffled,
                      Once, Place, InsertionCost, InversionsBelow
  <2>3. CountSorts'
    BY <1>1, <1>3 DEF SortInvariant, sortVars, CountSorts, WrittenBelow, CountCost, BelowOf,
                      BelowValue, OfValue, Place
  <2>4. MergeSorts'
    BY <1>1, <1>3 DEF SortInvariant, sortVars, MergeSorts, PartsSorted, Ascending, Shuffled, Once,
                      Begins, Place
  <2>5. RecursionSorts'
    BY <1>1, <1>3 DEF SortInvariant, sortVars, RecursionSorts, Ascending, Shuffled, Once, Place
  <2> QED
    BY <2>1, <2>2, <2>3, <2>4, <2>5 DEF SortInvariant
<1> QED
  BY <1>1, <1>2, <1>3

LEMMA SortInvariantDelivers == SortInvariant => Sorted /\ CommandsCounted
<1>1. SUFFICES ASSUME SortInvariant PROVE Sorted /\ CommandsCounted
  OBVIOUS
<1>2. SUFFICES ASSUME done PROVE Sorted /\ CommandsCounted
  BY DEF Sorted, CommandsCounted
<1>3. algorithm \in {"insertion", "count", "merge", "merge_recursive"}
  BY <1>1 DEF SortInvariant, SortTypes, Algorithm
<1>4. CASE algorithm = "insertion"
  BY <1>1, <1>4, InsertionDelivers DEF SortInvariant
<1>5. CASE algorithm = "count"
  BY <1>1, <1>5, CountDelivers DEF SortInvariant
<1>6. CASE algorithm = "merge"
  BY <1>1, <1>2, <1>6, MergeDelivers DEF SortInvariant, CommandsCounted
<1>7. CASE algorithm = "merge_recursive"
  <2>1. /\ len \in Nat /\ input \in Arrays /\ array \in Arrays /\ Ascending(array, 0, len - 1)
        /\ \E f : Shuffled(array, input, f)
    BY <1>1, <1>2, <1>7, SortingAssumption DEF SortInvariant, SortTypes, RecursionSorts
  <2>2. PICK f : Shuffled(array, input, f)
    BY <2>1
  <2>3. Sorted
    BY <2>1, <2>2, SortedBy
  <2> QED
    BY <1>7, <2>3 DEF CommandsCounted
<1> QED
  BY <1>3, <1>4, <1>5, <1>6, <1>7
-----------------------------------------------------------------------------
(* The counted loops.                                                      *)

\* The commands of a run that has one loop in it, and of one that has two,
\* one in the other.
RunOfOne(n) == 3 * n + 4
RunOfTwo(n) == n * RunOfOne(n) + 4

\* What has been counted in d loops of n runs each: r lists the runs that
\* have begun, and in all but the last loop the last of them is under way.
Counted(d, n, r, s, c) ==
    \/ /\ d = 1
       /\ \E x \in 0 .. n : r = <<x>> /\ s = x /\ c = 2 + 3 * x
    \/ /\ d = 2
       /\ \E x \in 0 .. n : r = <<x>> /\ s = x * n /\ c = 2 + x * RunOfOne(n)
    \/ /\ d = 2
       /\ \E x \in 0 .. n : \E y \in 0 .. n :
             /\ r = <<x, y>> /\ s = x * n - n + y
             /\ c = 2 + x * RunOfOne(n) - RunOfOne(n) + 3 + 3 * y
    \/ /\ d = 3
       /\ \E x \in 0 .. n : r = <<x>> /\ s = x * (n * n) /\ c = 2 + x * RunOfTwo(n)
    \/ /\ d = 3
       /\ \E x \in 0 .. n : \E y \in 0 .. n :
             /\ r = <<x, y>> /\ s = x * (n * n) - n * n + y * n
             /\ c = 2 + x * RunOfTwo(n) - RunOfTwo(n) + 3 + y * RunOfOne(n)
    \/ /\ d = 3
       /\ \E x \in 0 .. n : \E y \in 0 .. n : \E z \in 0 .. n :
             /\ r = <<x, y, z>> /\ s = x * (n * n) - n * n + y * n - n + z
             /\ c = 2 + x * RunOfTwo(n) - RunOfTwo(n) + 3
                      + y * RunOfOne(n) - RunOfOne(n) + 3 + 3 * z

\* The polynomials.
Returned(d, n, s, c) ==
    \/ d = 1 /\ s = n /\ c = 3 * n + 4
    \/ d = 2 /\ s = n * n /\ c = 3 * (n * n) + 4 * n + 4
    \/ d = 3 /\ s = n * (n * n) /\ c = 3 * (n * (n * n)) + 4 * (n * n) + 4 * n + 4

LoopsCounted ==
    /\ bound \in Nat /\ returned \in BOOLEAN
    /\ ~returned => Counted(depth, bound, runs, sum, commands)
    /\ returned => Returned(depth, bound, sum, commands)

\* The lists of runs.
LEMMA ListIs ==
    ASSUME NEW r \in Seq(Nat)
    PROVE  /\ Len(r) = 1 => r = <<r[1]>>
           /\ Len(r) = 2 => r = <<r[1], r[2]>>
           /\ Len(r) = 3 => r = <<r[1], r[2], r[3]>>
OBVIOUS

LEMMA OneLeft ==
    ASSUME NEW x \in Nat, NEW y \in Nat
    PROVE  SubSeq(<<x, y>>, 1, 1) = <<x>>
<1>1. <<x, y>> \in Seq(Nat) /\ Len(<<x, y>>) = 2
  OBVIOUS
<1>2. SubSeq(<<x, y>>, 1, 1) \in Seq(Nat)
  BY <1>1, SubSeqProperties
<1>3. PICK r \in Seq(Nat) : r = SubSeq(<<x, y>>, 1, 1)
  BY <1>2
<1>4. Len(r) = 1 /\ r[1] = x
  BY <1>3
<1> QED
  BY <1>3, <1>4, ListIs

LEMMA TwoLeft ==
    ASSUME NEW x \in Nat, NEW y \in Nat, NEW z \in Nat
    PROVE  SubSeq(<<x, y, z>>, 1, 2) = <<x, y>>
<1>1. <<x, y, z>> \in Seq(Nat) /\ Len(<<x, y, z>>) = 3
  OBVIOUS
<1>2. SubSeq(<<x, y, z>>, 1, 2) \in Seq(Nat)
  BY <1>1, SubSeqProperties
<1>3. PICK r \in Seq(Nat) : r = SubSeq(<<x, y, z>>, 1, 2)
  BY <1>2
<1>4. Len(r) = 2 /\ r[1] = x /\ r[2] = y
  BY <1>3
<1> QED
  BY <1>3, <1>4, ListIs

LEMMA RunsBegun ==
    ASSUME NEW x \in Nat, NEW y \in Nat, NEW z \in Nat, NEW v \in Nat
    PROVE  /\ Append(SubSeq(<<x>>, 1, 0), v) = <<v>>
           /\ Append(SubSeq(<<x, y>>, 1, 1), v) = <<x, v>>
           /\ Append(SubSeq(<<x, y, z>>, 1, 2), v) = <<x, y, v>>
           /\ Append(<<x>>, v) = <<x, v>> /\ Append(<<x, y>>, v) = <<x, y, v>>
<1>1. SubSeq(<<x>>, 1, 0) = <<>> /\ Append(<<>>, v) = <<v>>
  OBVIOUS
<1>2. Append(<<x>>, v) = <<x, v>>
  <2>1. <<x>> \in Seq(Nat)
    OBVIOUS
  <2>2. Append(<<x>>, v) \in Seq(Nat)
    BY <2>1, AppendProperties
  <2>3. PICK r \in Seq(Nat) : r = Append(<<x>>, v)
    BY <2>2
  <2>4. Len(r) = 2 /\ r[1] = x /\ r[2] = v
    BY <2>3
  <2> QED
    BY <2>3, <2>4, ListIs
<1>3. Append(<<x, y>>, v) = <<x, y, v>>
  <2>1. <<x, y>> \in Seq(Nat)
    OBVIOUS
  <2>2. Append(<<x, y>>, v) \in Seq(Nat)
    BY <2>1, AppendProperties
  <2>3. PICK r \in Seq(Nat) : r = Append(<<x, y>>, v)
    BY <2>2
  <2>4. Len(r) = 3 /\ r[1] = x /\ r[2] = y /\ r[3] = v
    BY <2>3
  <2> QED
    BY <2>3, <2>4, ListIs
<1> QED
  BY <1>1, <1>2, <1>3, OneLeft, TwoLeft

\* One run more.
LEMMA OneMore ==
    ASSUME NEW x \in Nat, NEW m \in Nat
    PROVE  (x + 1) * m = x * m + m /\ x * m \in Nat
BY SMT

LEMMA RunsCost ==
    ASSUME NEW n \in Nat
    PROVE  /\ n * n \in Nat /\ RunOfOne(n) \in Nat /\ RunOfTwo(n) \in Nat
           /\ RunOfTwo(n) = n * RunOfOne(n) + 4 /\ n * RunOfOne(n) \in Nat
           /\ n * RunOfOne(n) = 3 * (n * n) + 4 * n
           /\ n * RunOfTwo(n) = 3 * (n * (n * n)) + 4 * (n * n) + 4 * n
<1>1. n * n \in Nat
  BY SMT
<1>2. PICK q \in Nat : q = n * n
  BY <1>1
<1>3. n * (3 * n + 4) = 3 * (n * n) + 4 * n
  BY SMT
<1>4. n * (3 * q + 4 * n + 4) = 3 * (n * q) + 4 * (n * n) + 4 * n
  BY SMT
<1>5. RunOfOne(n) = 3 * n + 4 /\ RunOfOne(n) \in Nat
  BY DEF RunOfOne
<1>6. n * RunOfOne(n) = 3 * q + 4 * n
  BY <1>2, <1>3, <1>5
<1>7. RunOfTwo(n) = 3 * q + 4 * n + 4
  BY <1>6 DEF RunOfTwo
<1>8. n * RunOfTwo(n) = 3 * (n * q) + 4 * q + 4 * n
  BY <1>2, <1>4, <1>7
<1>9. RunOfTwo(n) = n * RunOfOne(n) + 4
  BY DEF RunOfTwo
<1> QED
  BY <1>1, <1>2, <1>5, <1>6, <1>7, <1>8, <1>9

\* A run begins,
LEMMA RunBegins ==
    ASSUME NEW d \in 1 .. 3, NEW n \in Nat, NEW r, NEW s, NEW c, Counted(d, n, r, s, c),
           r[Len(r)] < n, NEW q, NEW t,
           LET begun == Append(SubSeq(r, 1, Len(r) - 1), r[Len(r)] + 1)
           IN \/ Len(r) = d /\ t = s + 1 /\ q = begun
              \/ Len(r) < d /\ q = Append(begun, 0) /\ t = s
    PROVE  Counted(d, n, q, t, c + 3)
<1>1. PICK A \in Nat : A = RunOfOne(n) /\ A = 3 * n + 4
  BY DEF RunOfOne
<1>2. PICK B \in Nat : B = RunOfTwo(n)
  BY RunsCost
<1>3. PICK N \in Nat : N = n * n
  BY RunsCost
<1>4. CASE d = 1 /\ \E x \in 0 .. n : r = <<x>> /\ s = x /\ c = 2 + 3 * x
  <2>1. PICK x \in 0 .. n : r = <<x>> /\ s = x /\ c = 2 + 3 * x
    BY <1>4
  <2>2. Len(r) = 1 /\ r[Len(r)] = x /\ x < n /\ x \in Nat /\ x + 1 \in 0 .. n /\ Len(r) - 1 = 0
    BY <2>1
  <2>3. q = <<x + 1>> /\ t = x + 1
    BY <1>4, <2>1, <2>2, RunsBegun
  <2>4. c + 3 = 2 + 3 * (x + 1)
    BY <2>1, <2>2
  <2> QED
    BY <1>4, <2>2, <2>3, <2>4 DEF Counted
<1>5. CASE d = 2 /\ \E x \in 0 .. n : r = <<x>> /\ s = x * n /\ c = 2 + x * RunOfOne(n)
  <2>1. PICK x \in 0 .. n : r = <<x>> /\ s = x * n /\ c = 2 + x * A
    BY <1>1, <1>5
  <2>2. /\ Len(r) = 1 /\ r[Len(r)] = x /\ x < n /\ x \in Nat /\ x + 1 \in 0 .. n /\ Len(r) - 1 = 0
        /\ x + 1 \in Nat
    BY <2>1
  <2>3. q = <<x + 1, 0>> /\ t = s
    BY <1>5, <2>1, <2>2, RunsBegun
  <2>4. (x + 1) * n = x * n + n /\ x * n \in Nat /\ (x + 1) * A = x * A + A /\ x * A \in Nat
    BY <2>2, OneMore
  <2>5. t = (x + 1) * n - n + 0 /\ c + 3 = 2 + (x + 1) * A - A + 3 + 3 * 0
    BY <2>1, <2>3, <2>4
  <2>6. 0 \in 0 .. n
    OBVIOUS
  <2> QED
    BY <1>1, <1>5, <2>2, <2>3, <2>5, <2>6 DEF Counted
<1>6. CASE d = 2 /\ \E x \in 0 .. n : \E y \in 0 .. n :
             /\ r = <<x, y>> /\ s = x * n - n + y
             /\ c = 2 + x * RunOfOne(n) - RunOfOne(n) + 3 + 3 * y
  <2>1. PICK x \in 0 .. n, y \in 0 .. n :
             /\ r = <<x, y>> /\ s = x * n - n + y
             /\ c = 2 + x * A - A + 3 + 3 * y
    BY <1>1, <1>6
  <2>2. /\ Len(r) = 2 /\ r[Len(r)] = y /\ y < n /\ x \in Nat /\ y \in Nat /\ y + 1 \in 0 .. n
        /\ Len(r) - 1 = 1
    BY <2>1
  <2>3. q = <<x, y + 1>> /\ t = s + 1
    BY <1>6, <2>1, <2>2, RunsBegun
  <2>4. x * n \in Nat /\ x * A \in Nat
    BY <2>2, OneMore
  <2>5. t = x * n - n + (y + 1) /\ c + 3 = 2 + x * A - A + 3 + 3 * (y + 1)
    BY <2>1, <2>2, <2>3, <2>4
  <2> QED
    BY <1>1, <1>6, <2>2, <2>3, <2>5 DEF Counted
<1>7. CASE d = 3 /\ \E x \in 0 .. n : r = <<x>> /\ s = x * (n * n) /\ c = 2 + x * RunOfTwo(n)
  <2>1. PICK x \in 0 .. n : r = <<x>> /\ s = x * N /\ c = 2 + x * B
    BY <1>2, <1>3, <1>7
  <2>2. /\ Len(r) = 1 /\ r[Len(r)] = x /\ x < n /\ x \in Nat /\ x + 1 \in 0 .. n /\ Len(r) - 1 = 0
        /\ x + 1 \in Nat
    BY <2>1
  <2>3. q = <<x + 1, 0>> /\ t = s
    BY <1>7, <2>1, <2>2, RunsBegun
  <2>4. (x + 1) * N = x * N + N /\ x * N \in Nat /\ (x + 1) * B = x * B + B /\ x * B \in Nat
    BY <2>2, OneMore
  <2>5. 0 * n = 0 /\ 0 * A = 0
    BY SMT
  <2>6. t = (x + 1) * N - N + 0 * n /\ c + 3 = 2 + (x + 1) * B - B + 3 + 0 * A
    BY <2>1, <2>3, <2>4, <2>5
  <2>7. 0 \in 0 .. n
    OBVIOUS
  <2> QED
    BY <1>1, <1>2, <1>3, <1>7, <2>2, <2>3, <2>6, <2>7 DEF Counted
<1>8. CASE d = 3 /\ \E x \in 0 .. n : \E y \in 0 .. n :
             /\ r = <<x, y>> /\ s = x * (n * n) - n * n + y * n
             /\ c = 2 + x * RunOfTwo(n) - RunOfTwo(n) + 3 + y * RunOfOne(n)
  <2>1. PICK x \in 0 .. n, y \in 0 .. n :
             /\ r = <<x, y>> /\ s = x * N - N + y * n
             /\ c = 2 + x * B - B + 3 + y * A
    BY <1>1, <1>2, <1>3, <1>8
  <2>2. /\ Len(r) = 2 /\ r[Len(r)] = y /\ y < n /\ x \in Nat /\ y \in Nat /\ y + 1 \in 0 .. n
        /\ Len(r) - 1 = 1 /\ y + 1 \in Nat
    BY <2>1
  <2>3. q = <<x, y + 1, 0>> /\ t = s
    BY <1>8, <2>1, <2>2, RunsBegun
  <2>4. (y + 1) * n = y * n + n /\ y * n \in Nat /\ (y + 1) * A = y * A + A /\ y * A \in Nat
    BY <2>2, OneMore
  <2>5. x * N \in Nat /\ x * B \in Nat
    BY <2>2, OneMore
  <2>6. /\ t = x * N - N + (y + 1) * n - n + 0
        /\ c + 3 = 2 + x * B - B + 3 + (y + 1) * A - A + 3 + 3 * 0
    BY <2>1, <2>3, <2>4, <2>5
  <2>7. 0 \in 0 .. n
    OBVIOUS
  <2> QED
    BY <1>1, <1>2, <1>3, <1>8, <2>1, <2>2, <2>3, <2>6, <2>7 DEF Counted
<1>9. CASE d = 3 /\ \E x \in 0 .. n : \E y \in 0 .. n : \E z \in 0 .. n :
             /\ r = <<x, y, z>> /\ s = x * (n * n) - n * n + y * n - n + z
             /\ c = 2 + x * RunOfTwo(n) - RunOfTwo(n) + 3
                      + y * RunOfOne(n) - RunOfOne(n) + 3 + 3 * z
  <2>1. PICK x \in 0 .. n, y \in 0 .. n, z \in 0 .. n :
             /\ r = <<x, y, z>> /\ s = x * N - N + y * n - n + z
             /\ c = 2 + x * B - B + 3 + y * A - A + 3 + 3 * z
    BY <1>1, <1>2, <1>3, <1>9
  <2>2. /\ Len(r) = 3 /\ r[Len(r)] = z /\ z < n /\ x \in Nat /\ y \in Nat /\ z \in Nat
        /\ z + 1 \in 0 .. n /\ Len(r) - 1 = 2
    BY <2>1
  <2>3. q = <<x, y, z + 1>> /\ t = s + 1
    BY <1>9, <2>1, <2>2, RunsBegun
  <2>4. y * n \in Nat /\ y * A \in Nat /\ x * N \in Nat /\ x * B \in Nat
    BY <2>2, OneMore
  <2>5. /\ t = x * N - N + y * n - n + (z + 1)
        /\ c + 3 = 2 + x * B - B + 3 + y * A - A + 3 + 3 * (z + 1)
    BY <2>1, <2>2, <2>3, <2>4
  <2> QED
    BY <1>1, <1>2, <1>3, <1>9, <2>1, <2>2, <2>3, <2>5 DEF Counted
<1> QED
  BY <1>4, <1>5, <1>6, <1>7, <1>8, <1>9 DEF Counted

\* and a loop ends: inside another one,
LEMMA InnerEnds ==
    ASSUME NEW d \in 1 .. 3, NEW n \in Nat, NEW r, NEW s, NEW c, Counted(d, n, r, s, c),
           r[Len(r)] = n, Len(r) > 1
    PROVE  Counted(d, n, SubSeq(r, 1, Len(r) - 1), s, c + 1)
<1>1. PICK A \in Nat : A = RunOfOne(n) /\ A = 3 * n + 4
  BY DEF RunOfOne
<1>2. PICK B \in Nat : B = RunOfTwo(n) /\ B = n * A + 4 /\ n * A \in Nat
  BY <1>1, RunsCost
<1>3. PICK N \in Nat : N = n * n
  BY RunsCost
<1>4. ASSUME NEW x, r = <<x>> PROVE FALSE
  <2>1. Len(<<x>>) = 1
    OBVIOUS
  <2>2. Len(r) = 1
    BY <1>4, <2>1, Zenon
  <2> QED
    BY <2>2
<1>5. CASE d = 2 /\ \E x \in 0 .. n : \E y \in 0 .. n :
             /\ r = <<x, y>> /\ s = x * n - n + y
             /\ c = 2 + x * RunOfOne(n) - RunOfOne(n) + 3 + 3 * y
  <2>0. PICK x \in 0 .. n, y \in 0 .. n :
             /\ r = <<x, y>> /\ s = x * n - n + y
             /\ c = 2 + x * RunOfOne(n) - RunOfOne(n) + 3 + 3 * y
    BY <1>5, Zenon
  <2>1. r = <<x, y>> /\ s = x * n - n + y /\ c = 2 + x * A - A + 3 + 3 * y
    BY <1>1, <2>0, Zenon
  <2>2. /\ Len(r) = 2 /\ y = n /\ x \in Nat /\ y \in Nat /\ Len(r) - 1 = 1
    BY <2>1
  <2>3. SubSeq(r, 1, Len(r) - 1) = <<x>>
    <3>1. SubSeq(<<x, y>>, 1, 1) = <<x>>
      BY <2>2, OneLeft
    <3> QED
      BY <2>1, <2>2, <3>1, Zenon
  <2>4. x * n \in Nat /\ x * A \in Nat
    BY <2>2, OneMore
  <2>5. s = x * n /\ c + 1 = 2 + x * A
    BY <1>1, <2>1, <2>2, <2>4
  <2> QED
    BY <1>1, <1>5, <2>1, <2>3, <2>5 DEF Counted
<1>6. CASE d = 3 /\ \E x \in 0 .. n : \E y \in 0 .. n :
             /\ r = <<x, y>> /\ s = x * (n * n) - n * n + y * n
             /\ c = 2 + x * RunOfTwo(n) - RunOfTwo(n) + 3 + y * RunOfOne(n)
  <2>0. PICK x \in 0 .. n, y \in 0 .. n :
             /\ r = <<x, y>> /\ s = x * (n * n) - n * n + y * n
             /\ c = 2 + x * RunOfTwo(n) - RunOfTwo(n) + 3 + y * RunOfOne(n)
    BY <1>6, Zenon
  <2>1. r = <<x, y>> /\ s = x * N - N + y * n /\ c = 2 + x * B - B + 3 + y * A
    BY <1>1, <1>2, <1>3, <2>0, Zenon
  <2>2. /\ Len(r) = 2 /\ y = n /\ x \in Nat /\ y \in Nat /\ Len(r) - 1 = 1
    BY <2>1
  <2>3. SubSeq(r, 1, Len(r) - 1) = <<x>>
    <3>1. SubSeq(<<x, y>>, 1, 1) = <<x>>
      BY <2>2, OneLeft
    <3> QED
      BY <2>1, <2>2, <3>1, Zenon
  <2>4. x * N \in Nat /\ x * B \in Nat
    BY <2>2, OneMore
  <2>5. y * n = N /\ y * A = n * A
    BY <1>3, <2>2
  <2>6. s = x * N /\ c + 1 = 2 + x * B
    BY <1>2, <2>1, <2>4, <2>5
  <2> QED
    BY <1>2, <1>3, <1>6, <2>1, <2>3, <2>6 DEF Counted
<1>7. CASE d = 3 /\ \E x \in 0 .. n : \E y \in 0 .. n : \E z \in 0 .. n :
             /\ r = <<x, y, z>> /\ s = x * (n * n) - n * n + y * n - n + z
             /\ c = 2 + x * RunOfTwo(n) - RunOfTwo(n) + 3
                      + y * RunOfOne(n) - RunOfOne(n) + 3 + 3 * z
  <2>0. PICK x \in 0 .. n, y \in 0 .. n, z \in 0 .. n :
             /\ r = <<x, y, z>> /\ s = x * (n * n) - n * n + y * n - n + z
             /\ c = 2 + x * RunOfTwo(n) - RunOfTwo(n) + 3
                      + y * RunOfOne(n) - RunOfOne(n) + 3 + 3 * z
    BY <1>7, Zenon
  <2>1. /\ r = <<x, y, z>> /\ s = x * N - N + y * n - n + z
        /\ c = 2 + x * B - B + 3 + y * A - A + 3 + 3 * z
    BY <1>1, <1>2, <1>3, <2>0, Zenon
  <2>2. /\ Len(r) = 3 /\ z = n /\ x \in Nat /\ y \in Nat /\ z \in Nat /\ Len(r) - 1 = 2
    BY <2>1
  <2>3. SubSeq(r, 1, Len(r) - 1) = <<x, y>>
    <3>1. SubSeq(<<x, y, z>>, 1, 2) = <<x, y>>
      BY <2>2, TwoLeft
    <3> QED
      BY <2>1, <2>2, <3>1, Zenon
  <2>4. y * n \in Nat /\ y * A \in Nat /\ x * N \in Nat /\ x * B \in Nat
    BY <2>2, OneMore
  <2>5. s = x * N - N + y * n /\ c + 1 = 2 + x * B - B + 3 + y * A
    BY <1>1, <2>1, <2>2, <2>4
  <2> QED
    BY <1>1, <1>2, <1>3, <1>7, <2>1, <2>3, <2>5 DEF Counted
<1>8. CASE d = 1 /\ \E x \in 0 .. n : r = <<x>> /\ s = x /\ c = 2 + 3 * x
  BY <1>4, <1>8, Zenon
<1>9. CASE d = 2 /\ \E x \in 0 .. n : r = <<x>> /\ s = x * n /\ c = 2 + x * RunOfOne(n)
  BY <1>4, <1>9, Zenon
<1>10. CASE d = 3 /\ \E x \in 0 .. n : r = <<x>> /\ s = x * (n * n) /\ c = 2 + x * RunOfTwo(n)
  BY <1>4, <1>10, Zenon
<1>11. \/ /\ d = 1
          /\ \E x \in 0 .. n : r = <<x>> /\ s = x /\ c = 2 + 3 * x
       \/ /\ d = 2
          /\ \E x \in 0 .. n : r = <<x>> /\ s = x * n /\ c = 2 + x * RunOfOne(n)
       \/ /\ d = 2
          /\ \E x \in 0 .. n : \E y \in 0 .. n :
                /\ r = <<x, y>> /\ s = x * n - n + y
                /\ c = 2 + x * RunOfOne(n) - RunOfOne(n) + 3 + 3 * y
       \/ /\ d = 3
          /\ \E x \in 0 .. n : r = <<x>> /\ s = x * (n * n) /\ c = 2 + x * RunOfTwo(n)
       \/ /\ d = 3
          /\ \E x \in 0 .. n : \E y \in 0 .. n :
                /\ r = <<x, y>> /\ s = x * (n * n) - n * n + y * n
                /\ c = 2 + x * RunOfTwo(n) - RunOfTwo(n) + 3 + y * RunOfOne(n)
       \/ /\ d = 3
          /\ \E x \in 0 .. n : \E y \in 0 .. n : \E z \in 0 .. n :
                /\ r = <<x, y, z>> /\ s = x * (n * n) - n * n + y * n - n + z
                /\ c = 2 + x * RunOfTwo(n) - RunOfTwo(n) + 3
                         + y * RunOfOne(n) - RunOfOne(n) + 3 + 3 * z
  <2>1. Counted(d, n, r, s, c)
    OBVIOUS
  <2> QED
    BY ONLY <2>1, Zenon DEF Counted
<1> QED
  BY <1>5, <1>6, <1>7, <1>8, <1>9, <1>10, <1>11, Zenon

\* and the outer one, after which the function returns.
LEMMA OuterEnds ==
    ASSUME NEW d \in 1 .. 3, NEW n \in Nat, NEW r, NEW s, NEW c, Counted(d, n, r, s, c),
           r[Len(r)] = n, Len(r) = 1
    PROVE  Returned(d, n, s, c + 2)
<1>1. \A x, y : Len(<<x, y>>) # 1
  OBVIOUS
<1>2. \A x, y, z : Len(<<x, y, z>>) # 1
  OBVIOUS
<1>3. CASE d = 1 /\ \E x \in 0 .. n : r = <<x>> /\ s = x /\ c = 2 + 3 * x
  BY <1>3 DEF Returned
<1>4. CASE d = 2 /\ \E x \in 0 .. n : r = <<x>> /\ s = x * n /\ c = 2 + x * RunOfOne(n)
  <2>1. r = <<n>> /\ s = n * n /\ c = 2 + n * RunOfOne(n)
    BY <1>4
  <2>2. c + 2 = 3 * (n * n) + 4 * n + 4
    BY <2>1, RunsCost
  <2> QED
    BY <1>4, <2>1, <2>2 DEF Returned
<1>5. CASE d = 3 /\ \E x \in 0 .. n : r = <<x>> /\ s = x * (n * n) /\ c = 2 + x * RunOfTwo(n)
  <2>1. r = <<n>> /\ s = n * (n * n) /\ c = 2 + n * RunOfTwo(n)
    BY <1>5
  <2>2. PICK p \in Nat : p = n * (n * n)
    <3>1. n * n \in Nat
      BY RunsCost
    <3>2. n * (n * n) \in Nat
      BY <3>1, SMT
    <3> QED
      BY <3>2
  <2>3. c = 2 + (3 * p + 4 * (n * n) + 4 * n) /\ n * n \in Nat
    BY <2>1, <2>2, RunsCost
  <2>4. c + 2 = 3 * p + 4 * (n * n) + 4 * n + 4
    BY <2>3
  <2> QED
    BY <1>5, <2>1, <2>2, <2>4 DEF Returned
<1> QED
  BY <1>1, <1>2, <1>3, <1>4, <1>5 DEF Counted

LEMMA LoopsInit == LoopInit => LoopsCounted
<1>1. SUFFICES ASSUME LoopInit PROVE LoopsCounted
  OBVIOUS
<1>2. /\ depth \in 1 .. 3 /\ bound \in Nat /\ 0 \in 0 .. bound
      /\ runs = <<0>> /\ sum = 0 /\ commands = 2 /\ returned = FALSE
  BY <1>1, LoopAssumption DEF LoopInit
<1>3. 0 * bound = 0 /\ 0 * (bound * bound) = 0 /\ 0 * RunOfOne(bound) = 0 /\ 0 * RunOfTwo(bound) = 0
  <2>1. bound * bound \in Nat /\ RunOfOne(bound) \in Nat /\ RunOfTwo(bound) \in Nat
    BY <1>2, RunsCost
  <2>2. \A k \in Nat : 0 * k = 0
    BY SMT
  <2> QED
    BY <1>2, <2>1, <2>2
<1>4. Counted(depth, bound, runs, sum, commands)
  <2>1. CASE depth = 1
    BY <1>2, <2>1 DEF Counted
  <2>2. CASE depth = 2
    BY <1>2, <1>3, <2>2 DEF Counted
  <2>3. CASE depth = 3
    BY <1>2, <1>3, <2>3 DEF Counted
  <2> QED
    BY <1>2, <2>1, <2>2, <2>3
<1> QED
  BY <1>2, <1>4 DEF LoopsCounted

LEMMA LoopsKept == LoopsCounted /\ depth \in 1 .. 3 /\ LoopNext => (LoopsCounted /\ depth \in 1 .. 3)'
<1>1. SUFFICES ASSUME LoopsCounted, depth \in 1 .. 3, LoopNext PROVE (LoopsCounted /\ depth \in 1 .. 3)'
  OBVIOUS
<1>2. depth' = depth /\ bound' = bound /\ bound \in Nat /\ ~returned /\ Counted(depth, bound, runs, sum, commands)
  BY <1>1 DEF LoopNext, BeginRun, EndLoop, LoopsCounted
<1>3. PICK q, t, k : q = runs' /\ t = sum' /\ k = commands'
  OBVIOUS
<1>4. CASE BeginRun
  <2>1. /\ runs[Len(runs)] < bound /\ k = commands + 3 /\ returned' = returned
        /\ LET begun == Append(SubSeq(runs, 1, Len(runs) - 1), runs[Len(runs)] + 1)
           IN \/ Len(runs) = depth /\ t = sum + 1 /\ q = begun
              \/ Len(runs) < depth /\ q = Append(begun, 0) /\ t = sum
    BY <1>3, <1>4 DEF BeginRun, Level, Runs
  <2>2. Counted(depth, bound, q, t, k)
    BY <1>1, <1>2, <2>1, RunBegins
  <2>3. Counted(depth, bound, runs, sum, commands)'
    BY <1>2, <1>3, <2>2 DEF Counted, RunOfOne, RunOfTwo
  <2> QED
    BY <1>1, <1>2, <2>1, <2>3 DEF LoopsCounted
<1>5. CASE EndLoop /\ Level > 1
  <2>1. /\ runs[Len(runs)] = bound /\ Len(runs) > 1 /\ q = SubSeq(runs, 1, Len(runs) - 1)
        /\ k = commands + 1 /\ t = sum /\ returned' = returned
    BY <1>3, <1>5 DEF EndLoop, Level, Runs
  <2>2. Counted(depth, bound, q, t, k)
    BY <1>1, <1>2, <2>1, InnerEnds
  <2>3. Counted(depth, bound, runs, sum, commands)'
    BY <1>2, <1>3, <2>2 DEF Counted, RunOfOne, RunOfTwo
  <2> QED
    BY <1>1, <1>2, <2>1, <2>3 DEF LoopsCounted
<1>6. CASE EndLoop /\ ~(Level > 1)
  <2>1. /\ runs[Len(runs)] = bound /\ Len(runs) = 1
        /\ k = commands + 2 /\ t = sum /\ returned'
    BY <1>3, <1>6 DEF EndLoop, Level
  <2>2. Returned(depth, bound, t, k)
    BY <1>1, <1>2, <2>1, OuterEnds
  <2>3. Returned(depth, bound, sum, commands)'
    BY <1>2, <1>3, <2>2 DEF Returned
  <2>4. returned' \in BOOLEAN
    BY <1>6 DEF EndLoop
  <2> QED
    BY <1>1, <1>2, <2>1, <2>3, <2>4 DEF LoopsCounted
<1> QED
  BY <1>1, <1>4, <1>5, <1>6 DEF LoopNext
-----------------------------------------------------------------------------
(* What the programs deliver.                                              *)

ProgramsInvariant == SortInvariant /\ LoopsCounted /\ depth \in 1 .. 3

\* Insertion sort has the elements before its key in order and those behind
\* it in place, and has counted an inversion for every element moved; count
\* sort has written every value that it has passed to its own places; merge
\* sort has sorted the parts of the current width, behind the inner loop's
\* place those of half of it; and the counted loops have counted every run
\* that has begun.
THEOREM ProgramsKeep == SortSpec /\ LoopSpec => []ProgramsInvariant
<1>1. SortInit => SortInvariant
  <2>1. SortInit => RecursionSorts
    BY DEF SortInit, RecursionSorts
  <2> QED
    BY <2>1, SortTypesInit, InsertionSortsInit, CountSortsInit, MergeSortsInit DEF SortInvariant
<1>2. LoopInit => LoopsCounted /\ depth \in 1 .. 3
  BY LoopsInit DEF LoopInit
<1>3. LoopsCounted /\ depth \in 1 .. 3 /\ [LoopNext]_loopVars => (LoopsCounted /\ depth \in 1 .. 3)'
  <2>1. LoopsCounted /\ depth \in 1 .. 3 /\ UNCHANGED loopVars => (LoopsCounted /\ depth \in 1 .. 3)'
    BY DEF loopVars, LoopsCounted, Counted, Returned, RunOfOne, RunOfTwo
  <2> QED
    BY <2>1, LoopsKept
<1> QED
  BY <1>1, <1>2, <1>3, SortInvariantKept, PTL DEF SortSpec, LoopSpec, ProgramsInvariant

\* Whatever the length of the array, the range of the values and the width
\* of the counters: every sorting program leaves the input's values, each as
\* often as it was there, in their order; insertion sort has then counted 6
\* commands for every key and 4 for every inversion of the input, count sort
\* a number that does not depend on the order; and one, two and three loops
\* of n runs count a linear, a quadratic and a cubic number of commands.
THEOREM ProgramsAreRight == SortSpec /\ LoopSpec => []ProgramsDeliver
<1>1. ProgramsInvariant => ProgramsDeliver
  <2>1. SortInvariant => Sorted /\ CommandsCounted
    BY SortInvariantDelivers
  <2>2. LoopsCounted => CommandsArePolynomial
    BY DEF LoopsCounted, Returned, CommandsArePolynomial
  <2> QED
    BY <2>1, <2>2 DEF ProgramsInvariant, ProgramsDeliver
<1> QED
  BY <1>1, ProgramsKeep, PTL
-----------------------------------------------------------------------------
(* The calculator: a line's value by its structure, and by the stack.      *)

Cell == Int \cup {NaN}

\* process, for any stack.
Processed(s, t) ==
    IF t = Word THEN s
    ELSE IF t \in Number THEN <<t>> \o s
    ELSE <<Applied(t, Top(Below(s)), Top(s))>> \o Below(Below(s))

\* st are the stacks after 0, 1, ... tokens of the line.
Stacks(st, typed) ==
    /\ st \in [0 .. Len(typed) -> Seq(Cell)]
    /\ st[0] = <<>>
    /\ \A k \in 1 .. Len(typed) : st[k] = Processed(st[k - 1], typed[k])

RpnInv ==
    /\ line \in Seq(Token) /\ stack \in Seq(Cell)
    /\ \E st : Stacks(st, line) /\ stack = st[Len(line)]

\* What is pushed can be taken again.
LEMMA Pushed ==
    ASSUME NEW s \in Seq(Cell), NEW v \in Cell
    PROVE  /\ <<v>> \o s \in Seq(Cell) /\ <<v>> \o s # <<>>
           /\ Head(<<v>> \o s) = v /\ Tail(<<v>> \o s) = s
           /\ Top(<<v>> \o s) = v /\ Below(<<v>> \o s) = s
<1>1. <<v>> \in Seq(Cell) /\ Len(<<v>>) = 1 /\ <<v>>[1] = v
  OBVIOUS
<1>2. PICK q : q = <<v>> \o s
  OBVIOUS
<1>3. q \in Seq(Cell) /\ Len(q) = 1 + Len(s) /\ q[1] = v /\ \A i \in 1 .. Len(s) : q[1 + i] = s[i]
  BY <1>1, <1>2, ConcatProperties
<1>4. q # <<>>
  BY <1>3
<1>5. Head(q) = v /\ Tail(q) \in Seq(Cell) /\ Len(Tail(q)) = Len(s)
  BY <1>3, <1>4
<1>6. \A i \in 1 .. Len(s) : Tail(q)[i] = s[i]
  BY <1>3, <1>4
<1>7. Tail(q) = s
  BY <1>5, <1>6, SeqEqual
<1> QED
  BY <1>2, <1>3, <1>4, <1>5, <1>7 DEF Top, Below

LEMMA TopBelow ==
    ASSUME NEW s \in Seq(Cell)
    PROVE  /\ Top(s) \in Cell /\ Below(s) \in Seq(Cell)
           /\ s # <<>> => s = <<Top(s)>> \o Below(s)
<1>1. CASE s = <<>>
  BY <1>1 DEF Top, Below, Cell
<1>2. CASE s # <<>>
  <2>1. Head(s) \in Cell /\ Tail(s) \in Seq(Cell) /\ s = <<Head(s)>> \o Tail(s)
    <3>1. Head(s) \in Cell /\ Tail(s) \in Seq(Cell)
      BY <1>2
    <3>2. PICK q : q = <<Head(s)>> \o Tail(s)
      OBVIOUS
    <3>3. q \in Seq(Cell) /\ Len(q) = 1 + Len(Tail(s)) /\ q[1] = Head(s)
          /\ \A i \in 1 .. Len(Tail(s)) : q[1 + i] = Tail(s)[i]
      <4>1. <<Head(s)>> \in Seq(Cell) /\ Len(<<Head(s)>>) = 1 /\ <<Head(s)>>[1] = Head(s)
        BY <3>1
      <4> QED
        BY <3>1, <3>2, <4>1, ConcatProperties
    <3>4. Len(q) = Len(s)
      BY <1>2, <3>3
    <3>5. ASSUME NEW i \in 1 .. Len(s) PROVE q[i] = s[i]
      <4>1. CASE i = 1
        BY <1>2, <3>3, <4>1
      <4>2. CASE i # 1
        <5>1. i - 1 \in 1 .. Len(Tail(s)) /\ 1 + (i - 1) = i
          BY <1>2, <4>2
        <5>2. Tail(s)[i - 1] = s[i]
          BY <1>2, <5>1
        <5> QED
          BY <3>3, <5>1, <5>2
      <4> QED
        BY <4>1, <4>2
    <3>6. q = s
      BY <3>3, <3>4, <3>5, SeqEqual
    <3> QED
      BY <3>1, <3>2, <3>6
  <2> QED
    BY <1>2, <2>1 DEF Top, Below
<1> QED
  BY <1>1, <1>2

LEMMA AppliedIs ==
    ASSUME NEW op \in Operator, NEW x \in Cell, NEW y \in Cell
    PROVE  /\ Applied(op, x, y) \in Cell
           /\ Applied(op, x, y) # NaN <=> x # NaN /\ y # NaN
<1>1. NaN \notin Int
  BY RpnAssumption
<1>2. CASE x = NaN \/ y = NaN
  BY <1>2 DEF Applied, Cell
<1>3. CASE ~(x = NaN \/ y = NaN)
  <2>1. x \in Int /\ y \in Int
    BY <1>3 DEF Cell
  <2>2. x + y \in Int /\ x - y \in Int
    BY <2>1
  <2>3. x * y \in Int
    BY <2>1
  <2>4. Applied(op, x, y) \in {x + y, x - y, x * y}
    BY <1>3 DEF Applied, Operator
  <2> QED
    BY <1>1, <1>3, <2>2, <2>3, <2>4 DEF Cell
<1> QED
  BY <1>2, <1>3

LEMMA ProcessedIs ==
    ASSUME NEW s \in Seq(Cell), NEW t \in Token
    PROVE  /\ Processed(s, t) \in Seq(Cell)
           /\ t # Word => Processed(s, t) # <<>>
<1>1. CASE t = Word
  BY <1>1 DEF Processed
<1>2. CASE t # Word /\ t \in Number
  <2>1. t \in Cell
    BY <1>2, RpnAssumption DEF Cell
  <2> QED
    BY <1>2, <2>1, Pushed DEF Processed
<1>3. CASE t # Word /\ t \notin Number
  <2>1. t \in Operator
    BY <1>3 DEF Token
  <2>2. Below(s) \in Seq(Cell) /\ Below(Below(s)) \in Seq(Cell) /\ Top(s) \in Cell /\ Top(Below(s)) \in Cell
    BY TopBelow
  <2>3. Applied(t, Top(Below(s)), Top(s)) \in Cell
    BY <2>1, <2>2, AppliedIs
  <2> QED
    BY <1>3, <2>2, <2>3, Pushed DEF Processed
<1> QED
  BY <1>1, <1>2, <1>3

\* Parts of a line of n tokens.
Span(n) == (1 .. n + 1) \X (0 .. n)

Cuts(val, c) == {m \in c[1] .. c[2] - 2 : NaN \notin {val[<<c[1], m>>], val[<<m + 1, c[2] - 1>>]}}

\* The value of a part, when val has the values of its parts.
ValueAt(val, typed, c) ==
    IF c[1] > c[2] THEN NaN
    ELSE IF typed[c[1]] = Word THEN val[<<c[1] + 1, c[2]>>]
    ELSE IF typed[c[2]] = Word THEN val[<<c[1], c[2] - 1>>]
    ELSE IF typed[c[2]] \in Number THEN IF c[1] = c[2] THEN typed[c[2]] ELSE NaN
    ELSE IF Cuts(val, c) = {} THEN NaN
    ELSE LET m == CHOOSE m \in Cuts(val, c) : TRUE
         IN Applied(typed[c[2]], val[<<c[1], m>>], val[<<m + 1, c[2] - 1>>])

Values(val, typed) == val = [c \in Span(Len(typed)) |-> ValueAt(val, typed, c)]

\* The parts a part's value is made of.
LEMMA PartsOf ==
    ASSUME NEW n \in Nat, NEW f \in 1 .. n + 1, NEW t \in 0 .. n, f <= t
    PROVE  /\ f \in 1 .. n /\ t \in 1 .. n
           /\ <<f + 1, t>> \in Span(n) /\ <<f, t - 1>> \in Span(n)
           /\ \A m \in f .. t - 2 : /\ <<f, m>> \in Span(n) /\ <<m + 1, t - 1>> \in Span(n)
                                    /\ m \in 0 .. n /\ m + 1 \in 1 .. n + 1
BY DEF Span

LEMMA ValueIsCell ==
    ASSUME NEW typed \in Seq(Token), NEW val \in [Span(Len(typed)) -> Cell], NEW c \in Span(Len(typed))
    PROVE  ValueAt(val, typed, c) \in Cell
<1>1. PICK n \in Nat : n = Len(typed)
  OBVIOUS
<1>2. PICK f \in 1 .. n + 1, t \in 0 .. n : c = <<f, t>>
  BY <1>1 DEF Span
<1>3. NaN \in Cell
  BY DEF Cell
<1>4. CASE f > t
  BY <1>2, <1>3, <1>4 DEF ValueAt
<1>5. CASE f <= t
  <2>1. typed[f] \in Token /\ typed[t] \in Token
    BY <1>1, <1>2, <1>5
  <2>2. val[<<f + 1, t>>] \in Cell /\ val[<<f, t - 1>>] \in Cell
    BY <1>1, <1>2, <1>5, PartsOf
  <2>3. typed[t] \in Number => typed[t] \in Cell
    BY RpnAssumption DEF Cell
  <2>4. ASSUME typed[t] # Word, typed[t] \notin Number, NEW m \in Cuts(val, c)
        PROVE  Applied(typed[t], val[<<f, m>>], val[<<m + 1, t - 1>>]) \in Cell
    <3>1. m \in f .. t - 2
      BY <1>2, <2>4 DEF Cuts
    <3>2. val[<<f, m>>] \in Cell /\ val[<<m + 1, t - 1>>] \in Cell
      BY <1>1, <1>2, <1>5, <3>1, PartsOf
    <3>3. typed[t] \in Operator
      BY <2>1, <2>4 DEF Token
    <3> QED
      BY <3>2, <3>3, AppliedIs
  <2>5. ~(f > t)
    BY <1>2, <1>5
  <2> QED
    BY <1>2, <1>3, <2>1, <2>2, <2>3, <2>4, <2>5 DEF ValueAt
<1> QED
  BY <1>2, <1>4, <1>5

\* The length of a part.
Extent(c) == IF c[1] > c[2] THEN 0 ELSE (c[2] + 1) - c[1]

LEMMA ValueSame ==
    ASSUME NEW typed \in Seq(Token), NEW v \in [Span(Len(typed)) -> Cell],
           NEW w \in [Span(Len(typed)) -> Cell], NEW c \in Span(Len(typed)),
           \A d \in Span(Len(typed)) : Extent(d) < Extent(c) => v[d] = w[d]
    PROVE  ValueAt(v, typed, c) = ValueAt(w, typed, c)
<1>1. PICK n \in Nat : n = Len(typed)
  OBVIOUS
<1>2. PICK f \in 1 .. n + 1, t \in 0 .. n : c = <<f, t>>
  BY <1>1 DEF Span
<1>3. CASE f > t
  BY <1>2, <1>3 DEF ValueAt
<1>4. CASE f <= t
  <2>1. /\ Extent(<<f + 1, t>>) < Extent(c) /\ Extent(<<f, t - 1>>) < Extent(c)
        /\ \A m \in f .. t - 2 : Extent(<<f, m>>) < Extent(c) /\ Extent(<<m + 1, t - 1>>) < Extent(c)
    BY <1>2, <1>4 DEF Extent
  <2>2. v[<<f + 1, t>>] = w[<<f + 1, t>>] /\ v[<<f, t - 1>>] = w[<<f, t - 1>>]
    BY <1>1, <1>2, <1>4, <2>1, PartsOf
  <2>3. \A m \in f .. t - 2 : v[<<f, m>>] = w[<<f, m>>] /\ v[<<m + 1, t - 1>>] = w[<<m + 1, t - 1>>]
    BY <1>1, <1>2, <1>4, <2>1, PartsOf
  <2>4. Cuts(v, c) = Cuts(w, c)
    BY <1>2, <2>3 DEF Cuts
  <2>5. ~(f > t)
    BY <1>2, <1>4
  <2>6. ASSUME Cuts(w, c) # {}, NEW m, m = CHOOSE k \in Cuts(w, c) : TRUE
        PROVE  v[<<f, m>>] = w[<<f, m>>] /\ v[<<m + 1, t - 1>>] = w[<<m + 1, t - 1>>]
    <3>1. m \in Cuts(w, c)
      BY <2>6
    <3>2. m \in f .. t - 2
      BY <1>2, <3>1 DEF Cuts
    <3> QED
      BY <2>3, <3>2
  <2>7. PICK k : k = CHOOSE m \in Cuts(w, c) : TRUE
    OBVIOUS
  <2>8. k = CHOOSE m \in Cuts(v, c) : TRUE
    BY <2>4, <2>7
  <2>9. Cuts(w, c) # {} => v[<<f, k>>] = w[<<f, k>>] /\ v[<<k + 1, t - 1>>] = w[<<k + 1, t - 1>>]
    BY <2>6, <2>7
  <2> QED
    BY <1>2, <2>2, <2>4, <2>5, <2>7, <2>8, <2>9 DEF ValueAt
<1> QED
  BY <1>2, <1>3, <1>4

LEMMA ValuesExist ==
    ASSUME NEW typed \in Seq(Token)
    PROVE  \E val \in [Span(Len(typed)) -> Cell] : Values(val, typed)
<1>1. PICK n \in Nat : n = Len(typed)
  OBVIOUS
<1>2. PICK D, V : D = Span(Len(typed)) /\ V = Cell
  OBVIOUS
<1>3. PICK start : start = [c \in D |-> NaN]
  OBVIOUS
<1>4. start \in [D -> V]
  BY <1>2, <1>3 DEF Cell
<1>5. PICK rule : rule = [s \in [D -> V] |-> [c \in D |-> ValueAt(s, typed, c)]]
  OBVIOUS
<1>6. rule \in [[D -> V] -> [D -> V]]
  <2>1. \A s \in [D -> V] : [c \in D |-> ValueAt(s, typed, c)] \in [D -> V]
    BY <1>2, ValueIsCell
  <2> QED
    BY <1>5, <2>1
<1>7. PICK weight : weight = [c \in D |-> Extent(c)]
  OBVIOUS
<1>8. weight \in [D -> 0 .. n]
  <2>1. \A c \in D : Extent(c) \in 0 .. n
    BY <1>1, <1>2 DEF Span, Extent
  <2> QED
    BY <1>7, <2>1
<1>9. ASSUME NEW s \in [D -> V], NEW t \in [D -> V], NEW c \in D,
             \A d \in D : weight[d] < weight[c] => s[d] = t[d]
      PROVE  rule[s][c] = rule[t][c]
  <2>1. \A d \in D : Extent(d) < Extent(c) => s[d] = t[d]
    BY <1>7, <1>9
  <2>2. ValueAt(s, typed, c) = ValueAt(t, typed, c)
    BY <1>2, <2>1, ValueSame
  <2> QED
    BY <1>5, <2>2
<1>10. \A s \in [D -> V], t \in [D -> V], c \in D :
            (\A d \in D : weight[d] < weight[c] => s[d] = t[d]) => rule[s][c] = rule[t][c]
  BY <1>9, Zenon
<1>11. PICK s \in [D -> V] : s = rule[s]
  <2>1. Recursive(D, V, start, rule, n, weight)
    BY <1>1, <1>4, <1>6, <1>8, <1>10, Zenon DEF Recursive
  <2> QED
    BY <2>1, RecursionExists
<1>12. s = [c \in D |-> ValueAt(s, typed, c)]
  BY <1>5, <1>11
<1> QED
  BY <1>2, <1>12 DEF Values

LEMMA ValueOfIs ==
    ASSUME NEW typed \in Seq(Token)
    PROVE  \E val : Values(val, typed) /\ ValueOf(typed) = val[<<1, Len(typed)>>]
<1> DEFINE Raw(val) ==
              [c \in (1 .. Len(typed) + 1) \X (0 .. Len(typed)) |->
                  IF c[1] > c[2] THEN NaN
                  ELSE IF typed[c[1]] = Word THEN val[<<c[1] + 1, c[2]>>]
                  ELSE IF typed[c[2]] = Word THEN val[<<c[1], c[2] - 1>>]
                  ELSE IF typed[c[2]] \in Number THEN IF c[1] = c[2] THEN typed[c[2]] ELSE NaN
                  ELSE IF {m \in c[1] .. c[2] - 2 :
                               NaN \notin {val[<<c[1], m>>], val[<<m + 1, c[2] - 1>>]}} = {} THEN NaN
                  ELSE Applied(typed[c[2]],
                         val[<<c[1], CHOOSE m \in {m \in c[1] .. c[2] - 2 :
                               NaN \notin {val[<<c[1], m>>], val[<<m + 1, c[2] - 1>>]}} : TRUE>>],
                         val[<<(CHOOSE m \in {m \in c[1] .. c[2] - 2 :
                               NaN \notin {val[<<c[1], m>>], val[<<m + 1, c[2] - 1>>]}} : TRUE) + 1,
                               c[2] - 1>>])]
<1> DEFINE R == CHOOSE val : val = Raw(val)
<1>1. Values(R, typed)
  <2>1. PICK v : Values(v, typed)
    BY ValuesExist
  <2>2. v = Raw(v)
    BY <2>1 DEF Values, ValueAt, Cuts, Span
  <2> HIDE DEF Raw
  <2>3. R = Raw(R)
    BY <2>2
  <2> USE DEF Raw
  <2> HIDE DEF R
  <2> QED
    BY <2>3 DEF Values, ValueAt, Cuts, Span
<1>2. ValueOf(typed) = R[<<1, Len(typed)>>]
  BY DEF ValueOf
<1> QED
  BY <1>1, <1>2

\* What a part's value says of the parts it is made of.
MadeOf(val, typed, f, t) ==
    /\ f > t => val[<<f, t>>] = NaN
    /\ f <= t =>
         /\ typed[f] = Word => val[<<f, t>>] = val[<<f + 1, t>>]
         /\ typed[f] # Word /\ typed[t] = Word => val[<<f, t>>] = val[<<f, t - 1>>]
         /\ typed[f] # Word /\ typed[t] # Word /\ typed[t] \in Number =>
              val[<<f, t>>] = IF f = t THEN typed[t] ELSE NaN
         /\ typed[f] # Word /\ typed[t] # Word /\ typed[t] \notin Number =>
              IF \E m \in f .. t - 2 : val[<<f, m>>] # NaN /\ val[<<m + 1, t - 1>>] # NaN
              THEN \E m \in f .. t - 2 :
                     /\ val[<<f, m>>] # NaN /\ val[<<m + 1, t - 1>>] # NaN
                     /\ val[<<f, t>>] = Applied(typed[t], val[<<f, m>>], val[<<m + 1, t - 1>>])
              ELSE val[<<f, t>>] = NaN

LEMMA ValueIs ==
    ASSUME NEW typed \in Seq(Token), NEW val, Values(val, typed),
           NEW f \in 1 .. Len(typed) + 1, NEW t \in 0 .. Len(typed)
    PROVE  MadeOf(val, typed, f, t)
<1>1. PICK c : c = <<f, t>>
  OBVIOUS
<1>2. c \in Span(Len(typed)) /\ c[1] = f /\ c[2] = t
  BY <1>1 DEF Span
<1>3. val[c] = ValueAt(val, typed, c)
  BY <1>2 DEF Values
<1>4. CASE f > t
  <2>1. val[c] = NaN /\ ~(f <= t)
    BY <1>2, <1>3, <1>4 DEF ValueAt
  <2> QED
    BY <1>1, <2>1 DEF MadeOf
<1>5. CASE f <= t
  <2>1. ~(f > t)
    BY <1>5
  <2>2. typed[f] = Word => val[c] = val[<<f + 1, t>>]
    BY <1>2, <1>3, <2>1 DEF ValueAt
  <2>3. typed[f] # Word /\ typed[t] = Word => val[c] = val[<<f, t - 1>>]
    BY <1>2, <1>3, <2>1 DEF ValueAt
  <2>4. typed[f] # Word /\ typed[t] # Word /\ typed[t] \in Number =>
          val[c] = IF f = t THEN typed[t] ELSE NaN
    BY <1>2, <1>3, <2>1 DEF ValueAt
  <2>5. ASSUME typed[f] # Word, typed[t] # Word, typed[t] \notin Number
        PROVE  IF \E m \in f .. t - 2 : val[<<f, m>>] # NaN /\ val[<<m + 1, t - 1>>] # NaN
               THEN \E m \in f .. t - 2 :
                      /\ val[<<f, m>>] # NaN /\ val[<<m + 1, t - 1>>] # NaN
                      /\ val[c] = Applied(typed[t], val[<<f, m>>], val[<<m + 1, t - 1>>])
               ELSE val[c] = NaN
    <3>1. val[c] = IF Cuts(val, c) = {} THEN NaN
                   ELSE LET m == CHOOSE m \in Cuts(val, c) : TRUE
                        IN Applied(typed[t], val[<<f, m>>], val[<<m + 1, t - 1>>])
      BY <1>2, <1>3, <2>1, <2>5 DEF ValueAt
    <3>2. Cuts(val, c) = {m \in f .. t - 2 : val[<<f, m>>] # NaN /\ val[<<m + 1, t - 1>>] # NaN}
      BY <1>2 DEF Cuts
    <3>3. CASE Cuts(val, c) = {}
      BY <3>1, <3>2, <3>3
    <3>4. CASE Cuts(val, c) # {}
      <4>1. PICK m : m = CHOOSE k \in Cuts(val, c) : TRUE
        OBVIOUS
      <4>2. m \in Cuts(val, c)
        BY <3>4, <4>1
      <4>3. val[c] = Applied(typed[t], val[<<f, m>>], val[<<m + 1, t - 1>>])
        BY <3>1, <3>4, <4>1
      <4> QED
        BY <3>2, <4>2, <4>3
    <3> QED
      BY <3>3, <3>4
  <2> QED
    BY <1>1, <1>5, <2>1, <2>2, <2>3, <2>4, <2>5, Zenon DEF MadeOf
<1> QED
  BY <1>4, <1>5

LEMMA StackIs ==
    ASSUME NEW typed \in Seq(Token), NEW st, Stacks(st, typed), NEW k \in 1 .. Len(typed)
    PROVE  /\ st[k] \in Seq(Cell) /\ st[k - 1] \in Seq(Cell) /\ typed[k] \in Token
           /\ st[k] = Processed(st[k - 1], typed[k])
BY DEF Stacks

\* Working off a part that has a value pushes this value.
Pushes(val, st, f, t) ==
    /\ val[<<f, t>>] \in Cell
    /\ val[<<f, t>>] # NaN => f <= t /\ st[t] = <<val[<<f, t>>]>> \o st[f - 1]

\* If that is so for its parts, it is so for a part.
LEMMA PushesFromParts ==
    ASSUME NEW typed \in Seq(Token), NEW val, Values(val, typed), NEW st, Stacks(st, typed),
           NEW f \in 1 .. Len(typed) + 1, NEW t \in 0 .. Len(typed), f <= t,
           Pushes(val, st, f + 1, t), Pushes(val, st, f, t - 1),
           \A m \in f .. t - 2 : Pushes(val, st, f, m) /\ Pushes(val, st, m + 1, t - 1)
    PROVE  Pushes(val, st, f, t)
<1>1. PICK n \in Nat : n = Len(typed)
  OBVIOUS
<1>2. f \in 1 .. Len(typed) /\ t \in 1 .. Len(typed) /\ ~(f > t)
  OBVIOUS
<1>3. /\ st[f] = Processed(st[f - 1], typed[f]) /\ st[t] = Processed(st[t - 1], typed[t])
      /\ st[f - 1] \in Seq(Cell) /\ st[t - 1] \in Seq(Cell) /\ typed[f] \in Token /\ typed[t] \in Token
  BY <1>2, StackIs
<1>4. MadeOf(val, typed, f, t)
  BY ValueIs
<1>5. CASE typed[f] = Word
  <2>1. val[<<f, t>>] = val[<<f + 1, t>>]
    BY <1>4, <1>5 DEF MadeOf
  <2>2. st[f] = st[f - 1]
    BY <1>3, <1>5 DEF Processed
  <2>3. (f + 1) - 1 = f
    BY <1>2
  <2> QED
    BY <2>1, <2>2, <2>3 DEF Pushes
<1>6. CASE typed[f] # Word /\ typed[t] = Word
  <2>1. val[<<f, t>>] = val[<<f, t - 1>>]
    BY <1>4, <1>6 DEF MadeOf
  <2>2. st[t] = st[t - 1]
    BY <1>3, <1>6 DEF Processed
  <2> QED
    BY <2>1, <2>2 DEF Pushes
<1>7. CASE typed[f] # Word /\ typed[t] # Word /\ typed[t] \in Number
  <2>1. val[<<f, t>>] = IF f = t THEN typed[t] ELSE NaN
    BY <1>4, <1>7 DEF MadeOf
  <2>2. st[t] = <<typed[t]>> \o st[t - 1]
    BY <1>3, <1>7 DEF Processed
  <2>3. typed[t] \in Cell /\ NaN \in Cell
    BY <1>7, RpnAssumption DEF Cell
  <2> QED
    BY <2>1, <2>2, <2>3 DEF Pushes
<1>8. CASE typed[f] # Word /\ typed[t] # Word /\ typed[t] \notin Number
  <2>1. typed[t] \in Operator
    BY <1>3, <1>8 DEF Token
  <2>2. CASE val[<<f, t>>] = NaN
    BY <2>2 DEF Pushes, Cell
  <2>3. CASE val[<<f, t>>] # NaN
    <3>1. PICK m \in f .. t - 2 :
             /\ val[<<f, m>>] # NaN /\ val[<<m + 1, t - 1>>] # NaN
             /\ val[<<f, t>>] = Applied(typed[t], val[<<f, m>>], val[<<m + 1, t - 1>>])
      BY <1>4, <1>8, <2>3 DEF MadeOf
    <3>2. PICK x, y : x = val[<<f, m>>] /\ y = val[<<m + 1, t - 1>>]
      OBVIOUS
    <3>3. /\ x \in Cell /\ y \in Cell
          /\ st[m] = <<x>> \o st[f - 1] /\ st[t - 1] = <<y>> \o st[(m + 1) - 1]
      BY <3>1, <3>2 DEF Pushes
    <3>4. (m + 1) - 1 = m /\ m \in 0 .. Len(typed)
      BY <1>2
    <3>5. st[m] \in Seq(Cell)
      BY <3>4 DEF Stacks
    <3>6. Top(st[t - 1]) = y /\ Below(st[t - 1]) = st[m]
      <4>1. Top(<<y>> \o st[m]) = y /\ Below(<<y>> \o st[m]) = st[m]
        BY <3>3, <3>5, Pushed
      <4> QED
        BY <3>3, <3>4, <4>1
    <3>7. Top(st[m]) = x /\ Below(st[m]) = st[f - 1]
      <4>1. Top(<<x>> \o st[f - 1]) = x /\ Below(<<x>> \o st[f - 1]) = st[f - 1]
        BY <1>3, <3>3, Pushed
      <4> QED
        BY <3>3, <4>1
    <3>8. st[t] = <<Applied(typed[t], x, y)>> \o st[f - 1]
      BY <1>3, <1>8, <3>6, <3>7 DEF Processed
    <3>9. Applied(typed[t], x, y) \in Cell
      BY <2>1, <3>3, AppliedIs
    <3> QED
      BY <3>1, <3>2, <3>8, <3>9 DEF Pushes
  <2> QED
    BY <2>2, <2>3
<1> QED
  BY <1>5, <1>6, <1>7, <1>8

LEMMA ValueRuns ==
    ASSUME NEW typed \in Seq(Token), NEW val, Values(val, typed), NEW st, Stacks(st, typed),
           NEW f \in 1 .. Len(typed) + 1, NEW t \in 0 .. Len(typed)
    PROVE  Pushes(val, st, f, t)
<1>1. PICK n \in Nat : n = Len(typed)
  OBVIOUS
<1>2. PICK S : S = {e \in 0 .. n : \A x \in 1 .. n + 1, y \in 0 .. n :
                                      (y + 1) - x <= e => Pushes(val, st, x, y)}
  OBVIOUS
<1>3. ASSUME NEW x \in 1 .. n + 1, NEW y \in 0 .. n, x > y PROVE Pushes(val, st, x, y)
  <2>1. MadeOf(val, typed, x, y)
    BY <1>1, ValueIs
  <2>2. val[<<x, y>>] = NaN
    BY <1>3, <2>1 DEF MadeOf
  <2> QED
    BY <2>2 DEF Pushes, Cell
<1>4. 0 \in S
  <2>1. ASSUME NEW x \in 1 .. n + 1, NEW y \in 0 .. n, (y + 1) - x <= 0 PROVE Pushes(val, st, x, y)
    <3>1. x > y
      BY <2>1
    <3> QED
      BY <1>3, <3>1
  <2>2. 0 \in 0 .. n
    BY <1>1
  <2> QED
    BY <1>2, <2>1, <2>2
<1>5. ASSUME NEW e \in 0 .. n - 1, e \in S PROVE e + 1 \in S
  <2>1. ASSUME NEW x \in 1 .. n + 1, NEW y \in 0 .. n, (y + 1) - x <= e + 1, x <= y
        PROVE  Pushes(val, st, x, y)
    <3>1. /\ x + 1 \in 1 .. n + 1 /\ y - 1 \in 0 .. n
          /\ (y + 1) - (x + 1) <= e /\ ((y - 1) + 1) - x <= e
      BY <1>1, <2>1
    <3>2. Pushes(val, st, x + 1, y) /\ Pushes(val, st, x, y - 1)
      BY <1>2, <1>5, <3>1
    <3>3. ASSUME NEW m \in x .. y - 2 PROVE Pushes(val, st, x, m) /\ Pushes(val, st, m + 1, y - 1)
      <4>1. m \in 0 .. n /\ m + 1 \in 1 .. n + 1 /\ (m + 1) - x <= e /\ ((y - 1) + 1) - (m + 1) <= e
        BY <1>1, <2>1
      <4> QED
        BY <1>2, <1>5, <3>1, <4>1
    <3> QED
      BY <1>1, <2>1, <3>2, <3>3, PushesFromParts
  <2>2. e + 1 \in 0 .. n
    BY <1>1
  <2>3. \A x \in 1 .. n + 1, y \in 0 .. n : x <= y \/ x > y
    BY <1>1
  <2> QED
    BY <1>2, <1>3, <2>1, <2>2, <2>3
<1>6. n \in S
  <2>1. n \in 0 .. n
    BY <1>1
  <2> QED
    BY <1>1, <1>4, <1>5, <2>1, AllUpTo
<1>7. (t + 1) - f <= n
  BY <1>1
<1> QED
  BY <1>1, <1>2, <1>6, <1>7

\* What lies on the stack after k tokens is the value of a part that ends
\* there, and begins where the rest of the stack was the whole stack.
Stems(val, typed, st, k) == Top(st[k]) \in Int =>
    \E f \in 1 .. k : /\ typed[f] # Word /\ val[<<f, k>>] = Top(st[k])
                      /\ st[f - 1] = Below(st[k])

LEMMA StemsNext ==
    ASSUME NEW typed \in Seq(Token), NEW val, Values(val, typed), NEW st, Stacks(st, typed),
           NEW k \in 1 .. Len(typed), \A j \in 0 .. k - 1 : Stems(val, typed, st, j)
    PROVE  Stems(val, typed, st, k)
<1>1. SUFFICES ASSUME Top(st[k]) \in Int
               PROVE  \E f \in 1 .. k : /\ typed[f] # Word /\ val[<<f, k>>] = Top(st[k])
                                        /\ st[f - 1] = Below(st[k])
  BY DEF Stems
<1>2. /\ st[k] = Processed(st[k - 1], typed[k])
      /\ st[k - 1] \in Seq(Cell) /\ typed[k] \in Token /\ k - 1 \in 0 .. k - 1 /\ k \in 0 .. Len(typed)
  BY StackIs
<1>3. CASE typed[k] = Word
  <2>1. st[k] = st[k - 1]
    BY <1>2, <1>3 DEF Processed
  <2>2. PICK f \in 1 .. k - 1 : /\ typed[f] # Word /\ val[<<f, k - 1>>] = Top(st[k - 1])
                                /\ st[f - 1] = Below(st[k - 1])
    BY <1>1, <1>2, <2>1 DEF Stems
  <2>3. MadeOf(val, typed, f, k)
    BY <1>2, ValueIs
  <2>4. val[<<f, k>>] = val[<<f, k - 1>>]
    BY <1>3, <2>2, <2>3 DEF MadeOf
  <2>5. f \in 1 .. k
    OBVIOUS
  <2> QED
    BY <2>1, <2>2, <2>4, <2>5
<1>4. CASE typed[k] # Word /\ typed[k] \in Number
  <2>1. st[k] = <<typed[k]>> \o st[k - 1] /\ typed[k] \in Cell
    BY <1>2, <1>4, RpnAssumption DEF Processed, Cell
  <2>2. Top(<<typed[k]>> \o st[k - 1]) = typed[k] /\ Below(<<typed[k]>> \o st[k - 1]) = st[k - 1]
    BY <1>2, <2>1, Pushed
  <2>3. MadeOf(val, typed, k, k)
    BY <1>2, ValueIs
  <2>4. val[<<k, k>>] = typed[k]
    BY <1>4, <2>3 DEF MadeOf
  <2>5. Top(st[k]) = typed[k] /\ Below(st[k]) = st[k - 1] /\ k \in 1 .. k
    BY <2>1, <2>2
  <2> QED
    BY <1>4, <2>4, <2>5
<1>5. CASE typed[k] # Word /\ typed[k] \notin Number
  <2>1. typed[k] \in Operator
    BY <1>2, <1>5 DEF Token
  <2>2. PICK y, s : y = Top(st[k - 1]) /\ s = Below(st[k - 1])
    OBVIOUS
  <2>3. y \in Cell /\ s \in Seq(Cell) /\ Top(s) \in Cell /\ Below(s) \in Seq(Cell)
    BY <1>2, <2>2, TopBelow
  <2>4. PICK x \in Cell, v \in Cell : x = Top(s) /\ v = Applied(typed[k], x, y)
    BY <2>1, <2>3, AppliedIs
  <2>5. st[k] = <<v>> \o Below(s)
    BY <1>2, <1>5, <2>2, <2>4 DEF Processed
  <2>6. Top(<<v>> \o Below(s)) = v /\ Below(<<v>> \o Below(s)) = Below(s)
    BY <2>3, Pushed
  <2>7. x # NaN /\ y # NaN /\ x \in Int /\ y \in Int
    <3>1. v # NaN
      BY <1>1, <2>5, <2>6, RpnAssumption
    <3> QED
      BY <2>1, <2>3, <2>4, <3>1, AppliedIs DEF Cell
  <2>8. PICK g \in 1 .. k - 1 : val[<<g, k - 1>>] = y /\ st[g - 1] = s
    BY <1>2, <2>2, <2>7 DEF Stems
  <2>9. PICK f \in 1 .. g - 1 : typed[f] # Word /\ val[<<f, g - 1>>] = x /\ st[f - 1] = Below(s)
    <3>1. g - 1 \in 0 .. k - 1
      OBVIOUS
    <3> QED
      BY <2>4, <2>7, <2>8, <3>1 DEF Stems
  <2>10. f \in 1 .. k /\ f \in 1 .. Len(typed) + 1 /\ f <= k
    OBVIOUS
  <2>11. \E m \in f .. k - 2 : val[<<f, m>>] # NaN /\ val[<<m + 1, k - 1>>] # NaN
    <3>1. g - 1 \in f .. k - 2 /\ (g - 1) + 1 = g
      OBVIOUS
    <3> QED
      BY <2>7, <2>8, <2>9, <3>1
  <2>12. val[<<f, k>>] # NaN
    <3>1. MadeOf(val, typed, f, k)
      BY <1>2, <2>10, ValueIs
    <3>2. PICK m \in f .. k - 2 :
             /\ val[<<f, m>>] # NaN /\ val[<<m + 1, k - 1>>] # NaN
             /\ val[<<f, k>>] = Applied(typed[k], val[<<f, m>>], val[<<m + 1, k - 1>>])
      BY <1>5, <2>9, <2>10, <2>11, <3>1 DEF MadeOf
    <3>3. Pushes(val, st, f, m) /\ Pushes(val, st, m + 1, k - 1)
      <4>1. m \in 0 .. Len(typed) /\ m + 1 \in 1 .. Len(typed) + 1 /\ k - 1 \in 0 .. Len(typed)
        BY <2>10
      <4> QED
        BY <2>10, <4>1, ValueRuns
    <3>4. val[<<f, m>>] \in Cell /\ val[<<m + 1, k - 1>>] \in Cell
      BY <3>3 DEF Pushes
    <3> QED
      BY <2>1, <3>2, <3>4, AppliedIs
  <2>13. st[k] = <<val[<<f, k>>]>> \o st[f - 1] /\ val[<<f, k>>] \in Cell
    <3>1. Pushes(val, st, f, k)
      BY <1>2, <2>10, ValueRuns
    <3> QED
      BY <2>12, <3>1 DEF Pushes
  <2>14. Top(<<val[<<f, k>>]>> \o Below(s)) = val[<<f, k>>]
    BY <2>3, <2>13, Pushed
  <2> QED
    BY <2>5, <2>6, <2>9, <2>10, <2>13, <2>14
<1> QED
  BY <1>3, <1>4, <1>5

LEMMA StemsAll ==
    ASSUME NEW typed \in Seq(Token), NEW val, Values(val, typed), NEW st, Stacks(st, typed)
    PROVE  \A k \in 0 .. Len(typed) : Stems(val, typed, st, k)
<1>1. PICK n \in Nat : n = Len(typed)
  OBVIOUS
<1>2. PICK S : S = {k \in 0 .. n : \A j \in 0 .. k : Stems(val, typed, st, j)}
  OBVIOUS
<1>3. 0 \in S
  <2>1. Stems(val, typed, st, 0)
    BY RpnAssumption DEF Stems, Stacks, Top
  <2>2. 0 \in 0 .. n /\ 0 .. 0 = {0}
    BY <1>1
  <2> QED
    BY <1>2, <2>1, <2>2
<1>4. ASSUME NEW k \in 0 .. n - 1, k \in S PROVE k + 1 \in S
  <2>1. k + 1 \in 1 .. Len(typed) /\ (k + 1) - 1 = k /\ k + 1 \in 0 .. n
    BY <1>1
  <2>2. Stems(val, typed, st, k + 1)
    BY <1>2, <1>4, <2>1, StemsNext
  <2>3. \A j \in 0 .. k + 1 : j \in 0 .. k \/ j = k + 1
    BY <1>1
  <2> QED
    BY <1>2, <1>4, <2>1, <2>2, <2>3
<1>5. \A k \in 0 .. n : k \in S
  BY <1>1, <1>3, <1>4, AllUpTo
<1>6. ASSUME NEW k \in 0 .. n PROVE Stems(val, typed, st, k)
  <2>1. k \in 0 .. k
    OBVIOUS
  <2> QED
    BY <1>2, <1>5, <2>1
<1> QED
  BY <1>1, <1>6

\* The stack is empty only as long as nothing but words has been read.
LEMMA OnlyWords ==
    ASSUME NEW typed \in Seq(Token), NEW st, Stacks(st, typed)
    PROVE  \A k \in 0 .. Len(typed) : st[k] = <<>> => \A j \in 1 .. k : typed[j] = Word
<1>1. PICK n \in Nat : n = Len(typed)
  OBVIOUS
<1>2. PICK S : S = {k \in 0 .. n : st[k] = <<>> => \A j \in 1 .. k : typed[j] = Word}
  OBVIOUS
<1>3. 0 \in S
  BY <1>1, <1>2
<1>4. ASSUME NEW k \in 0 .. n - 1, k \in S PROVE k + 1 \in S
  <2>1. k + 1 \in 1 .. Len(typed) /\ (k + 1) - 1 = k /\ k + 1 \in 0 .. n
    BY <1>1
  <2>2. /\ st[k + 1] = Processed(st[k], typed[k + 1])
        /\ st[k] \in Seq(Cell) /\ typed[k + 1] \in Token
    BY <2>1, StackIs
  <2>3. ASSUME st[k + 1] = <<>> PROVE \A j \in 1 .. k + 1 : typed[j] = Word
    <3>1. typed[k + 1] = Word
      BY <2>2, <2>3, ProcessedIs
    <3>2. st[k] = <<>>
      BY <2>2, <2>3, <3>1 DEF Processed
    <3>3. \A j \in 1 .. k + 1 : j \in 1 .. k \/ j = k + 1
      OBVIOUS
    <3> QED
      BY <1>2, <1>4, <3>1, <3>2, <3>3
  <2> QED
    BY <1>2, <2>1, <2>3
<1> QED
  BY <1>1, <1>2, <1>3, <1>4, AllUpTo

\* Words in the beginning do not count.
LEMMA WordsSkipped ==
    ASSUME NEW typed \in Seq(Token), NEW val, Values(val, typed), NEW f \in 1 .. Len(typed),
           \A j \in 1 .. f - 1 : typed[j] = Word
    PROVE  val[<<1, Len(typed)>>] = val[<<f, Len(typed)>>]
<1>1. PICK n \in Nat : n = Len(typed)
  OBVIOUS
<1>2. PICK S : S = {e \in 0 .. f - 1 : val[<<f - e, n>>] = val[<<f, n>>]}
  OBVIOUS
<1>3. 0 \in S
  BY <1>2
<1>4. ASSUME NEW e \in 0 .. (f - 1) - 1, e \in S PROVE e + 1 \in S
  <2>1. PICK x : x = f - (e + 1)
    OBVIOUS
  <2>2. x \in 1 .. f - 1 /\ x + 1 = f - e /\ x \in 1 .. Len(typed) + 1 /\ x <= n /\ e + 1 \in 0 .. f - 1
    BY <1>1, <2>1
  <2>3. MadeOf(val, typed, x, n)
    <3>1. n \in 0 .. Len(typed)
      BY <1>1
    <3> QED
      BY <2>2, <3>1, ValueIs
  <2>4. val[<<x, n>>] = val[<<x + 1, n>>]
    BY <2>2, <2>3 DEF MadeOf
  <2> QED
    BY <1>2, <1>4, <2>1, <2>2, <2>4
<1>5. f - 1 \in S
  <2>1. f - 1 \in Nat /\ f - 1 \in 0 .. f - 1
    OBVIOUS
  <2> QED
    BY <1>3, <1>4, <2>1, AllUpTo
<1>6. f - (f - 1) = 1
  OBVIOUS
<1> QED
  BY <1>1, <1>2, <1>5, <1>6

\* What main prints at the end of a line.
AnswerTo(s) == IF Below(s) # <<>> THEN NotEmpty ELSE IF Top(s) = NaN THEN Failed ELSE Top(s)

LEMMA AnswerIsValue ==
    ASSUME NEW typed \in Seq(Token), NEW st, Stacks(st, typed)
    PROVE  /\ AnswerTo(st[Len(typed)]) \in Int <=> ValueOf(typed) # NaN
           /\ AnswerTo(st[Len(typed)]) \in Int => AnswerTo(st[Len(typed)]) = ValueOf(typed)
<1>1. PICK val : Values(val, typed) /\ ValueOf(typed) = val[<<1, Len(typed)>>]
  BY ValueOfIs
<1>2. PICK n \in Nat : n = Len(typed)
  OBVIOUS
<1>3. PICK s : s = st[n]
  OBVIOUS
<1>4. s \in Seq(Cell) /\ n \in 0 .. Len(typed) /\ 1 \in 1 .. Len(typed) + 1
  BY <1>2, <1>3 DEF Stacks
<1>5. ASSUME ValueOf(typed) # NaN PROVE AnswerTo(s) = ValueOf(typed) /\ AnswerTo(s) \in Int
  <2>1. Pushes(val, st, 1, n)
    BY <1>1, <1>4, ValueRuns
  <2>2. s = <<val[<<1, n>>]>> \o st[1 - 1] /\ val[<<1, n>>] \in Cell
    BY <1>1, <1>2, <1>3, <1>5, <2>1 DEF Pushes
  <2>3. st[1 - 1] = <<>> /\ <<>> \in Seq(Cell)
    BY DEF Stacks
  <2>4. Top(<<val[<<1, n>>]>> \o <<>>) = val[<<1, n>>] /\ Below(<<val[<<1, n>>]>> \o <<>>) = <<>>
    BY <2>2, <2>3, Pushed
  <2> QED
    BY <1>1, <1>2, <1>5, <2>2, <2>3, <2>4 DEF AnswerTo, Cell
<1>6. ASSUME AnswerTo(s) \in Int PROVE AnswerTo(s) = ValueOf(typed) /\ ValueOf(typed) # NaN
  <2>1. Below(s) = <<>> /\ Top(s) \in Int /\ AnswerTo(s) = Top(s)
    BY <1>6, RpnAssumption DEF AnswerTo
  <2>2. PICK f \in 1 .. n : /\ typed[f] # Word /\ val[<<f, n>>] = Top(s)
                            /\ st[f - 1] = <<>>
    <3>1. Stems(val, typed, st, n)
      BY <1>1, <1>4, StemsAll
    <3> QED
      BY <1>3, <2>1, <3>1 DEF Stems
  <2>3. f - 1 \in 0 .. Len(typed) /\ f \in 1 .. Len(typed)
    BY <1>2
  <2>4. \A j \in 1 .. f - 1 : typed[j] = Word
    BY <2>2, <2>3, OnlyWords
  <2>5. val[<<1, Len(typed)>>] = val[<<f, Len(typed)>>]
    BY <1>1, <2>3, <2>4, WordsSkipped
  <2> QED
    BY <1>1, <1>2, <2>1, <2>2, <2>5, RpnAssumption
<1> QED
  BY <1>2, <1>3, <1>5, <1>6

LEMMA RpnInvInit == RpnInit => RpnInv
<1>1. SUFFICES ASSUME RpnInit PROVE RpnInv
  OBVIOUS
<1>2. stack = <<>> /\ line = <<>> /\ line \in Seq(Token) /\ stack \in Seq(Cell) /\ Len(line) = 0
  BY <1>1 DEF RpnInit
<1>3. PICK st : st = [k \in 0 .. 0 |-> <<>>]
  OBVIOUS
<1>4. st[0] = <<>> /\ st \in [0 .. 0 -> Seq(Cell)]
  BY <1>3
<1>5. Stacks(st, line)
  BY <1>2, <1>4 DEF Stacks
<1> QED
  BY <1>2, <1>4, <1>5 DEF RpnInv

LEMMA RpnInvKept == RpnInv /\ [RpnNext]_rpnVars => RpnInv'
<1>1. SUFFICES ASSUME RpnInv, [RpnNext]_rpnVars PROVE RpnInv'
  OBVIOUS
<1>2. CASE UNCHANGED rpnVars
  BY <1>1, <1>2 DEF RpnInv, rpnVars, Stacks, Processed
<1>3. CASE EndLine
  <2>1. stack' = <<>> /\ line' = <<>>
    BY <1>3 DEF EndLine
  <2>2. PICK st : st = [k \in 0 .. 0 |-> <<>>]
    OBVIOUS
  <2>3. st[0] = <<>> /\ st \in [0 .. 0 -> Seq(Cell)] /\ Len(<<>>) = 0
    BY <2>2
  <2>4. Stacks(st, <<>>)
    BY <2>3 DEF Stacks
  <2>5. <<>> \in Seq(Token) /\ <<>> \in Seq(Cell)
    OBVIOUS
  <2>6. \E r : Stacks(r, <<>>) /\ <<>> = r[Len(<<>>)]
    BY <2>3, <2>4
  <2> QED
    BY <2>1, <2>5, <2>6 DEF RpnInv, Stacks, Processed
<1>4. ASSUME NEW t \in Token, TypeToken(t) PROVE RpnInv'
  <2>1. PICK q, s : q = line' /\ s = stack'
    OBVIOUS
  <2>2. q = Append(line, t) /\ s = Processed(stack, t)
    BY <1>4, <2>1 DEF TypeToken, Process, Processed
  <2>3. PICK n \in Nat : n = Len(line)
    BY <1>1 DEF RpnInv
  <2>4. PICK st : Stacks(st, line) /\ stack = st[n]
    BY <1>1, <2>3 DEF RpnInv
  <2>5. line \in Seq(Token) /\ stack \in Seq(Cell)
    BY <1>1 DEF RpnInv
  <2>6. /\ q \in Seq(Token) /\ Len(q) = n + 1 /\ q[n + 1] = t
        /\ \A k \in 1 .. n : q[k] = line[k]
    BY <2>2, <2>3, <2>5, AppendProperties
  <2>7. s \in Seq(Cell)
    BY <1>4, <2>2, <2>5, ProcessedIs
  <2>8. PICK r : r = [k \in 0 .. n + 1 |-> IF k = n + 1 THEN s ELSE st[k]]
    OBVIOUS
  <2>9. /\ r[n + 1] = s /\ \A k \in 0 .. n : r[k] = st[k]
    BY <2>3, <2>8
  <2>10. Stacks(r, q)
    <3>1. r \in [0 .. Len(q) -> Seq(Cell)]
      <4>1. \A k \in 0 .. n + 1 : k # n + 1 => k \in 0 .. n
        BY <2>3
      <4>2. \A k \in 0 .. n : st[k] \in Seq(Cell)
        BY <2>3, <2>4 DEF Stacks
      <4> QED
        BY <2>6, <2>7, <2>8, <4>1, <4>2
    <3>2. r[0] = <<>>
      BY <2>3, <2>4, <2>9 DEF Stacks
    <3>3. ASSUME NEW k \in 1 .. Len(q) PROVE r[k] = Processed(r[k - 1], q[k])
      <4>1. CASE k = n + 1
        <5>1. k - 1 = n /\ n \in 0 .. n
          BY <2>3, <4>1
        <5> QED
          BY <2>2, <2>4, <2>6, <2>9, <4>1, <5>1
      <4>2. CASE k # n + 1
        <5>1. k \in 1 .. n /\ k \in 0 .. n /\ k - 1 \in 0 .. n
          BY <2>3, <2>6, <4>2
        <5>2. st[k] = Processed(st[k - 1], line[k])
          BY <2>3, <2>4, <5>1 DEF Stacks
        <5> QED
          BY <2>6, <2>9, <5>1, <5>2
      <4> QED
        BY <4>1, <4>2
    <3> QED
      BY <3>1, <3>2, <3>3 DEF Stacks
  <2>11. \E p : Stacks(p, q) /\ s = p[Len(q)]
    BY <2>6, <2>9, <2>10
  <2> QED
    BY <2>1, <2>6, <2>7, <2>11 DEF RpnInv, Stacks, Processed
<1> QED
  BY <1>1, <1>2, <1>3, <1>4 DEF RpnNext

\* On the stack lies what the tokens of this line have left there, one after
\* the other, from an empty stack on.
THEOREM RpnInvariant == RpnSpec => []RpnInv
BY RpnInvInit, RpnInvKept, PTL DEF RpnSpec

\* For lines and numbers of any size, a line is answered by a number exactly
\* when it is a postfix expression, and then by its value; no line leaves
\* anything on the stack for the next one.
THEOREM CalculatorIsRight == RpnSpec => AnswersValue
<1>1. RpnInv /\ [RpnNext]_rpnVars =>
        [line' = <<>> => /\ (answer' \in Int <=> ValueOf(line) # NaN)
                         /\ answer' \in Int => answer' = ValueOf(line)
                         /\ stack' = <<>>]_rpnVars
  <2>1. SUFFICES ASSUME RpnInv, RpnNext, line' = <<>>
                 PROVE  /\ (answer' \in Int <=> ValueOf(line) # NaN)
                        /\ answer' \in Int => answer' = ValueOf(line)
                        /\ stack' = <<>>
    OBVIOUS
  <2>2. CASE EndLine
    <3>1. PICK st : Stacks(st, line) /\ stack = st[Len(line)]
      BY <2>1 DEF RpnInv
    <3>2. answer' = AnswerTo(stack) /\ stack' = <<>> /\ line \in Seq(Token)
      BY <2>1, <2>2 DEF EndLine, AnswerTo, RpnInv
    <3>3. /\ AnswerTo(stack) \in Int <=> ValueOf(line) # NaN
          /\ AnswerTo(stack) \in Int => AnswerTo(stack) = ValueOf(line)
      BY <3>1, <3>2, AnswerIsValue
    <3> QED
      BY <3>2, <3>3
  <2>3. ASSUME NEW t \in Token, TypeToken(t) PROVE FALSE
    <3>1. Append(line, t) = <<>> /\ line \in Seq(Token)
      BY <2>1, <2>3 DEF TypeToken, RpnInv
    <3>2. Len(Append(line, t)) = Len(line) + 1 /\ Len(line) \in Nat /\ Len(<<>>) = 0
      BY <3>1, AppendProperties
    <3> QED
      BY <3>1, <3>2
  <2>4. EndLine
    BY <2>1, <2>3, Zenon DEF RpnNext
  <2> QED
    BY <2>2, <2>4
<1> QED
  BY <1>1, RpnInvariant, PTL DEF RpnSpec, AnswersValue
-----------------------------------------------------------------------------
(* The phone book: a search tree, and the table it stands for.             *)

Link(n) == DOMAIN n \cup {NoNode}

NodeRecord == [name : Name, left : Phone \cup {NoNode}, right : Phone \cup {NoNode},
               parent : Phone \cup {NoNode}]

\* range[x] are the numbers whose place is at x or below it, and deep[x] is
\* how far x is from the root.
TreeNode(n, r, deep, range, x) ==
    /\ x \in range[x]
    /\ n[x].left \in Link(n) /\ n[x].right \in Link(n)
    /\ n[x].left # NoNode =>
         /\ range[n[x].left] = {z \in range[x] : z < x}
         /\ deep[n[x].left] = deep[x] + 1
    /\ n[x].right # NoNode =>
         /\ range[n[x].right] = {z \in range[x] : z > x}
         /\ deep[n[x].right] = deep[x] + 1
    /\ n[x].left = NoNode => \A z \in DOMAIN n : z \in range[x] => ~(z < x)
    /\ n[x].right = NoNode => \A z \in DOMAIN n : z \in range[x] => ~(z > x)
    /\ x # r => \E q \in DOMAIN n : x \in {n[q].left, n[q].right}

Tree(n, r, m, deep, range) ==
    /\ n \in [DOMAIN n -> NodeRecord] /\ DOMAIN n \subseteq Phone /\ IsFiniteSet(DOMAIN n)
    /\ m \in Nat /\ deep \in [DOMAIN n -> 0 .. m] /\ range \in [DOMAIN n -> SUBSET Nat]
    /\ r \in Link(n)
    /\ r = NoNode => DOMAIN n = {}
    /\ r # NoNode => range[r] = Nat
    /\ \A x \in DOMAIN n : TreeNode(n, r, deep, range, x)

BookInv ==
    /\ \E m, deep, range : Tree(node, root, m, deep, range)
    /\ crashed \in BOOLEAN

\* One step of a search for p in the tree n.
Onward(n, p, x) == IF p <= x THEN n[x].left ELSE n[x].right

\* Where the searches and the walk get from x on.
Finds(s, n, p) == s = [x \in Link(n) |-> IF x \in {NoNode, p} THEN x ELSE s[Onward(n, p, x)]]
Lasts(s, n, p) == s = [x \in DOMAIN n |-> IF Onward(n, p, x) = NoNode THEN x ELSE s[Onward(n, p, x)]]
Walks(s, n) == s = [x \in Link(n) |->
                      IF x = NoNode THEN <<>> ELSE s[n[x].left] \o <<x>> \o s[n[x].right]]

\* What is below a node is deeper.
Height(m, deep, x) == IF x = NoNode THEN 0 ELSE (m + 1) - deep[x]

LEMMA HeightShrinks ==
    ASSUME NEW n, NEW r, NEW m, NEW deep, NEW range, Tree(n, r, m, deep, range)
    PROVE  /\ \A x \in Link(n) : Height(m, deep, x) \in 0 .. m + 1
           /\ \A x \in DOMAIN n :
                /\ n[x].left \in Link(n) /\ n[x].right \in Link(n)
                /\ Height(m, deep, n[x].left) < Height(m, deep, x)
                /\ Height(m, deep, n[x].right) < Height(m, deep, x)
<1>1. m \in Nat /\ deep \in [DOMAIN n -> 0 .. m] /\ DOMAIN n \subseteq Phone
  BY DEF Tree
<1>2. NoNode \notin DOMAIN n
  BY <1>1, PhoneBookAssumption
<1>3. ASSUME NEW x \in DOMAIN n PROVE Height(m, deep, x) \in 1 .. m + 1
  BY <1>1, <1>2, <1>3 DEF Height
<1>4. Height(m, deep, NoNode) = 0
  BY DEF Height
<1>5. ASSUME NEW x \in DOMAIN n, NEW l \in Link(n), l # NoNode => deep[l] = deep[x] + 1
      PROVE  Height(m, deep, l) < Height(m, deep, x)
  <2>1. CASE l = NoNode
    BY <1>1, <1>3, <1>4, <2>1
  <2>2. CASE l # NoNode
    <3>1. l \in DOMAIN n
      BY <2>2 DEF Link
    <3>2. deep[l] \in 0 .. m /\ deep[x] \in 0 .. m
      BY <1>1, <3>1
    <3> QED
      BY <1>1, <1>2, <1>5, <2>2, <3>1, <3>2 DEF Height
  <2> QED
    BY <2>1, <2>2
<1>6. ASSUME NEW x \in DOMAIN n
      PROVE  /\ n[x].left \in Link(n) /\ n[x].right \in Link(n)
             /\ n[x].left # NoNode => deep[n[x].left] = deep[x] + 1
             /\ n[x].right # NoNode => deep[n[x].right] = deep[x] + 1
  BY DEF Tree, TreeNode
<1>7. \A x \in Link(n) : Height(m, deep, x) \in 0 .. m + 1
  BY <1>1, <1>3, <1>4 DEF Link
<1> QED
  BY <1>5, <1>6, <1>7

LEMMA FindsExist ==
    ASSUME NEW n, NEW r, NEW m, NEW deep, NEW range, Tree(n, r, m, deep, range), NEW p
    PROVE  \E s : Finds(s, n, p)
<1>1. PICK D : D = Link(n)
  OBVIOUS
<1>2. PICK start : start = [x \in D |-> NoNode]
  OBVIOUS
<1>3. NoNode \in D /\ start \in [D -> D]
  BY <1>1, <1>2 DEF Link
<1>4. PICK rule : rule = [s \in [D -> D] |->
                            [x \in D |-> IF x \in {NoNode, p} THEN x ELSE s[Onward(n, p, x)]]]
  OBVIOUS
<1>5. ASSUME NEW x \in D, x \notin {NoNode, p}
      PROVE  Onward(n, p, x) \in D /\ Height(m, deep, Onward(n, p, x)) < Height(m, deep, x)
  BY <1>1, <1>5, HeightShrinks DEF Onward, Link
<1>6. rule \in [[D -> D] -> [D -> D]]
  <2>1. ASSUME NEW s \in [D -> D]
        PROVE  [x \in D |-> IF x \in {NoNode, p} THEN x ELSE s[Onward(n, p, x)]] \in [D -> D]
    BY <1>5
  <2> QED
    BY <1>4, <2>1
<1>7. PICK weight : weight = [x \in D |-> Height(m, deep, x)]
  OBVIOUS
<1>8. weight \in [D -> 0 .. m + 1] /\ m + 1 \in Nat
  <2>1. m \in Nat
    BY DEF Tree
  <2>2. \A x \in D : Height(m, deep, x) \in 0 .. m + 1
    BY <1>1, HeightShrinks
  <2> QED
    BY <1>7, <2>1, <2>2
<1>9. ASSUME NEW s \in [D -> D], NEW t \in [D -> D], NEW c \in D,
             \A d \in D : weight[d] < weight[c] => s[d] = t[d]
      PROVE  rule[s][c] = rule[t][c]
  <2>1. c \notin {NoNode, p} => s[Onward(n, p, c)] = t[Onward(n, p, c)]
    BY <1>5, <1>7, <1>9
  <2> QED
    BY <1>4, <2>1
<1>10. Recursive(D, D, start, rule, m + 1, weight)
  BY <1>3, <1>6, <1>8, <1>9, Zenon DEF Recursive
<1>11. PICK s \in [D -> D] : s = rule[s]
  BY <1>10, RecursionExists
<1>12. s = [x \in D |-> IF x \in {NoNode, p} THEN x ELSE s[Onward(n, p, x)]]
  BY <1>4, <1>11
<1> QED
  BY <1>1, <1>12 DEF Finds

LEMMA LastsExist ==
    ASSUME NEW n, NEW r, NEW m, NEW deep, NEW range, Tree(n, r, m, deep, range), NEW p
    PROVE  \E s : Lasts(s, n, p)
<1>1. PICK D : D = DOMAIN n
  OBVIOUS
<1>2. PICK start : start = [x \in D |-> x]
  OBVIOUS
<1>3. start \in [D -> D]
  BY <1>2
<1>4. PICK rule : rule = [s \in [D -> D] |->
                  [x \in D |-> IF Onward(n, p, x) = NoNode THEN x ELSE s[Onward(n, p, x)]]]
  OBVIOUS
<1>5. ASSUME NEW x \in D, Onward(n, p, x) # NoNode
      PROVE  Onward(n, p, x) \in D /\ Height(m, deep, Onward(n, p, x)) < Height(m, deep, x)
  BY <1>1, <1>5, HeightShrinks DEF Onward, Link
<1>6. rule \in [[D -> D] -> [D -> D]]
  <2>1. ASSUME NEW s \in [D -> D]
        PROVE  [x \in D |-> IF Onward(n, p, x) = NoNode THEN x ELSE s[Onward(n, p, x)]] \in [D -> D]
    BY <1>5
  <2> QED
    BY <1>4, <2>1
<1>7. PICK weight : weight = [x \in D |-> Height(m, deep, x)]
  OBVIOUS
<1>8. weight \in [D -> 0 .. m + 1] /\ m + 1 \in Nat
  <2>1. m \in Nat
    BY DEF Tree
  <2>2. \A x \in D : Height(m, deep, x) \in 0 .. m + 1
    BY <1>1, HeightShrinks DEF Link
  <2> QED
    BY <1>7, <2>1, <2>2
<1>9. ASSUME NEW s \in [D -> D], NEW t \in [D -> D], NEW c \in D,
             \A d \in D : weight[d] < weight[c] => s[d] = t[d]
      PROVE  rule[s][c] = rule[t][c]
  <2>1. Onward(n, p, c) # NoNode => s[Onward(n, p, c)] = t[Onward(n, p, c)]
    BY <1>5, <1>7, <1>9
  <2> QED
    BY <1>4, <2>1
<1>10. Recursive(D, D, start, rule, m + 1, weight)
  BY <1>3, <1>6, <1>8, <1>9, Zenon DEF Recursive
<1>11. PICK s \in [D -> D] : s = rule[s]
  BY <1>10, RecursionExists
<1>12. s = [x \in D |-> IF Onward(n, p, x) = NoNode THEN x ELSE s[Onward(n, p, x)]]
  BY <1>4, <1>11
<1> QED
  BY <1>1, <1>12 DEF Lasts

LEMMA WalksExist ==
    ASSUME NEW n, NEW r, NEW m, NEW deep, NEW range, Tree(n, r, m, deep, range)
    PROVE  \E s : Walks(s, n)
<1>1. PICK D, V : D = Link(n) /\ V = Seq(DOMAIN n)
  OBVIOUS
<1>2. PICK start : start = [x \in D |-> <<>>]
  OBVIOUS
<1>3. start \in [D -> V]
  BY <1>1, <1>2
<1>4. PICK rule : rule = [s \in [D -> V] |->
            [x \in D |-> IF x = NoNode THEN <<>> ELSE s[n[x].left] \o <<x>> \o s[n[x].right]]]
  OBVIOUS
<1>5. ASSUME NEW x \in D, x # NoNode
      PROVE  /\ x \in DOMAIN n /\ n[x].left \in D /\ n[x].right \in D
             /\ Height(m, deep, n[x].left) < Height(m, deep, x)
             /\ Height(m, deep, n[x].right) < Height(m, deep, x)
  BY <1>1, <1>5, HeightShrinks DEF Link
<1>6. rule \in [[D -> V] -> [D -> V]]
  <2>1. ASSUME NEW s \in [D -> V], NEW x \in D, x # NoNode
        PROVE  s[n[x].left] \o <<x>> \o s[n[x].right] \in V
    <3>1. s[n[x].left] \in V /\ s[n[x].right] \in V /\ x \in DOMAIN n
      BY <1>5, <2>1
    <3> QED
      BY <1>1, <3>1
  <2>2. <<>> \in V
    BY <1>1
  <2>3. ASSUME NEW s \in [D -> V]
        PROVE  [x \in D |-> IF x = NoNode THEN <<>> ELSE s[n[x].left] \o <<x>> \o s[n[x].right]]
                    \in [D -> V]
    BY <2>1, <2>2
  <2> QED
    BY <1>4, <2>3
<1>7. PICK weight : weight = [x \in D |-> Height(m, deep, x)]
  OBVIOUS
<1>8. weight \in [D -> 0 .. m + 1] /\ m + 1 \in Nat
  <2>1. m \in Nat
    BY DEF Tree
  <2>2. \A x \in D : Height(m, deep, x) \in 0 .. m + 1
    BY <1>1, HeightShrinks
  <2> QED
    BY <1>7, <2>1, <2>2
<1>9. ASSUME NEW s \in [D -> V], NEW t \in [D -> V], NEW c \in D,
             \A d \in D : weight[d] < weight[c] => s[d] = t[d]
      PROVE  rule[s][c] = rule[t][c]
  <2>1. c # NoNode => s[n[c].left] = t[n[c].left] /\ s[n[c].right] = t[n[c].right]
    BY <1>5, <1>7, <1>9
  <2> QED
    BY <1>4, <2>1
<1>10. Recursive(D, V, start, rule, m + 1, weight)
  BY <1>3, <1>6, <1>8, <1>9, Zenon DEF Recursive
<1>11. PICK s \in [D -> V] : s = rule[s]
  BY <1>10, RecursionExists
<1>12. s = [x \in D |-> IF x = NoNode THEN <<>> ELSE s[n[x].left] \o <<x>> \o s[n[x].right]]
  BY <1>4, <1>11
<1> QED
  BY <1>1, <1>12 DEF Walks

\* A search for p goes on where p's place is.
LEMMA GoesOn ==
    ASSUME NEW n, NEW r, NEW m, NEW deep, NEW range, Tree(n, r, m, deep, range),
           NEW p \in Nat, NEW x \in DOMAIN n, p \in range[x], p # x
    PROVE  /\ Onward(n, p, x) \in Link(n) /\ x # NoNode
           /\ Onward(n, p, x) = NoNode => p \notin DOMAIN n
           /\ Onward(n, p, x) # NoNode =>
                /\ Onward(n, p, x) \in DOMAIN n /\ p \in range[Onward(n, p, x)]
                /\ Height(m, deep, Onward(n, p, x)) < Height(m, deep, x)
<1>1. TreeNode(n, r, deep, range, x) /\ x \in Nat /\ x # NoNode
  BY PhoneBookAssumption DEF Tree
<1>2. CASE p <= x
  <2>1. Onward(n, p, x) = n[x].left /\ p < x
    BY <1>1, <1>2 DEF Onward
  <2> QED
    BY <1>1, <2>1, HeightShrinks DEF TreeNode, Link
<1>3. CASE ~(p <= x)
  <2>1. Onward(n, p, x) = n[x].right /\ p > x
    BY <1>1, <1>3 DEF Onward
  <2> QED
    BY <1>1, <2>1, HeightShrinks DEF TreeNode, Link
<1> QED
  BY <1>2, <1>3

LEMMA FindIs ==
    ASSUME NEW n, NEW r, NEW m, NEW deep, NEW range, Tree(n, r, m, deep, range),
           NEW p \in Nat, p # NoNode, NEW s, Finds(s, n, p)
    PROVE  s[r] = IF p \in DOMAIN n THEN p ELSE NoNode
<1>1. \A x \in Link(n) : s[x] = IF x \in {NoNode, p} THEN x ELSE s[Onward(n, p, x)]
  BY DEF Finds
<1>2. PICK k \in Nat : k = m + 2
  BY DEF Tree
<1>3. PICK S : S = {e \in 0 .. k : \A x \in DOMAIN n : Height(m, deep, x) < e /\ p \in range[x] =>
                                      s[x] = IF p \in DOMAIN n THEN p ELSE NoNode}
  OBVIOUS
<1>4. \A x \in DOMAIN n : Height(m, deep, x) \in 0 .. m + 1 /\ x \in Link(n)
  BY HeightShrinks DEF Link
<1>5. 0 \in S
  <2>1. 0 \in 0 .. k /\ \A x \in DOMAIN n : ~(Height(m, deep, x) < 0)
    BY <1>2, <1>4
  <2> QED
    BY <1>3, <2>1
<1>6. ASSUME NEW e \in 0 .. k - 1, e \in S PROVE e + 1 \in S
  <2>1. ASSUME NEW x \in DOMAIN n, Height(m, deep, x) < e + 1, p \in range[x]
        PROVE  s[x] = IF p \in DOMAIN n THEN p ELSE NoNode
    <3>1. CASE x = p
      BY <1>1, <1>4, <3>1
    <3>2. CASE x # p
      <4>1. PICK o : o = Onward(n, p, x)
        OBVIOUS
      <4>2. /\ o \in Link(n) /\ x # NoNode /\ (o = NoNode => p \notin DOMAIN n)
            /\ o # NoNode => o \in DOMAIN n /\ p \in range[o] /\ Height(m, deep, o) < Height(m, deep, x)
        BY <2>1, <3>2, <4>1, GoesOn
      <4>3. s[x] = s[o]
        BY <1>1, <1>4, <3>2, <4>1, <4>2
      <4>4. CASE o = NoNode
        <5>1. s[o] = NoNode
          BY <1>1, <4>2, <4>4
        <5> QED
          BY <4>2, <4>3, <4>4, <5>1
      <4>5. CASE o # NoNode
        <5>1. Height(m, deep, o) < e
          BY <1>4, <2>1, <4>2, <4>5
        <5> QED
          BY <1>3, <1>6, <4>2, <4>3, <4>5, <5>1
      <4> QED
        BY <4>4, <4>5
    <3> QED
      BY <3>1, <3>2
  <2>2. e + 1 \in 0 .. k
    BY <1>2
  <2> QED
    BY <1>3, <2>1, <2>2
<1>7. k \in S
  <2>1. k \in 0 .. k
    BY <1>2
  <2> QED
    BY <1>2, <1>5, <1>6, <2>1, AllUpTo
<1>8. CASE r = NoNode
  BY <1>1, <1>8 DEF Tree, Link
<1>9. CASE r # NoNode
  <2>1. r \in DOMAIN n /\ p \in range[r]
    BY <1>9 DEF Tree, Link
  <2>2. Height(m, deep, r) < k
    BY <1>2, <1>4, <2>1 DEF Tree
  <2> QED
    BY <1>3, <1>7, <2>1, <2>2
<1> QED
  BY <1>8, <1>9

\* The search for a number that is not there ends at the one node where it
\* can be put.
LEMMA LastDown ==
    ASSUME NEW n, NEW r, NEW m, NEW deep, NEW range, Tree(n, r, m, deep, range),
           NEW p \in Nat, p \notin DOMAIN n, NEW s, Lasts(s, n, p)
    PROVE  \A x \in DOMAIN n : p \in range[x] =>
              s[x] \in DOMAIN n /\ p \in range[s[x]] /\ Onward(n, p, s[x]) = NoNode
<1>1. \A x \in DOMAIN n : s[x] = IF Onward(n, p, x) = NoNode THEN x ELSE s[Onward(n, p, x)]
  BY DEF Lasts
<1>2. PICK k \in Nat : k = m + 2
  BY DEF Tree
<1>3. PICK S : S = {e \in 0 .. k : \A x \in DOMAIN n : Height(m, deep, x) < e /\ p \in range[x] =>
                       s[x] \in DOMAIN n /\ p \in range[s[x]] /\ Onward(n, p, s[x]) = NoNode}
  OBVIOUS
<1>4. \A x \in DOMAIN n : Height(m, deep, x) \in 0 .. m + 1 /\ x \in Link(n)
  BY HeightShrinks DEF Link
<1>5. 0 \in S
  <2>1. 0 \in 0 .. k /\ \A x \in DOMAIN n : ~(Height(m, deep, x) < 0)
    BY <1>2, <1>4
  <2> QED
    BY <1>3, <2>1
<1>6. ASSUME NEW e \in 0 .. k - 1, e \in S PROVE e + 1 \in S
  <2>1. ASSUME NEW x \in DOMAIN n, Height(m, deep, x) < e + 1, p \in range[x]
        PROVE  s[x] \in DOMAIN n /\ p \in range[s[x]] /\ Onward(n, p, s[x]) = NoNode
    <3>1. PICK o : o = Onward(n, p, x)
      OBVIOUS
    <3>2. o # NoNode => o \in DOMAIN n /\ p \in range[o] /\ Height(m, deep, o) < Height(m, deep, x)
      BY <2>1, <3>1, GoesOn
    <3>3. CASE o = NoNode
      BY <1>1, <2>1, <3>1, <3>3
    <3>4. CASE o # NoNode
      <4>1. Height(m, deep, o) < e
        BY <1>4, <2>1, <3>2, <3>4
      <4>2. s[x] = s[o]
        BY <1>1, <3>1, <3>4
      <4> QED
        BY <1>3, <1>6, <3>2, <3>4, <4>1, <4>2
    <3> QED
      BY <3>3, <3>4
  <2>2. e + 1 \in 0 .. k
    BY <1>2
  <2> QED
    BY <1>3, <2>1, <2>2
<1>7. k \in S
  <2>1. k \in 0 .. k
    BY <1>2
  <2> QED
    BY <1>2, <1>5, <1>6, <2>1, AllUpTo
<1>8. \A x \in DOMAIN n : Height(m, deep, x) < k
  BY <1>2, <1>4 DEF Tree
<1> QED
  BY <1>3, <1>7, <1>8

LEMMA LastSame ==
    ASSUME NEW n, NEW r, NEW m, NEW deep, NEW range, Tree(n, r, m, deep, range),
           NEW p \in Nat, p \notin DOMAIN n, NEW s, Lasts(s, n, p)
    PROVE  \A x \in DOMAIN n : p \in range[x] => s[x] = s[r]
<1>1. \A x \in DOMAIN n : s[x] = IF Onward(n, p, x) = NoNode THEN x ELSE s[Onward(n, p, x)]
  BY DEF Lasts
<1>2. PICK k \in Nat : k = m + 1
  BY DEF Tree
<1>3. PICK S : S = {e \in 0 .. k : \A x \in DOMAIN n : deep[x] < e /\ p \in range[x] => s[x] = s[r]}
  OBVIOUS
<1>4. \A x \in DOMAIN n : deep[x] \in 0 .. m /\ x \in Nat /\ x # NoNode /\ TreeNode(n, r, deep, range, x)
  BY PhoneBookAssumption DEF Tree
<1>5. 0 \in S
  <2>1. 0 \in 0 .. k /\ \A x \in DOMAIN n : ~(deep[x] < 0)
    BY <1>2, <1>4
  <2> QED
    BY <1>3, <2>1
<1>6. ASSUME NEW e \in 0 .. k - 1, e \in S PROVE e + 1 \in S
  <2>1. ASSUME NEW x \in DOMAIN n, deep[x] < e + 1, p \in range[x], x # r PROVE s[x] = s[r]
    <3>1. PICK q \in DOMAIN n : x \in {n[q].left, n[q].right}
      BY <1>4, <2>1 DEF TreeNode
    <3>2. /\ n[q].left # NoNode => range[n[q].left] = {z \in range[q] : z < q} /\ deep[n[q].left] = deep[q] + 1
          /\ n[q].right # NoNode => range[n[q].right] = {z \in range[q] : z > q} /\ deep[n[q].right] = deep[q] + 1
      BY <1>4 DEF TreeNode
    <3>3. x # NoNode /\ q \in Nat
      BY <1>4
    <3>4. p \in range[q] /\ Onward(n, p, q) = x /\ deep[x] = deep[q] + 1
      <4>1. CASE x = n[q].left
        BY <2>1, <3>2, <3>3, <4>1 DEF Onward
      <4>2. CASE x = n[q].right
        <5>1. p \in range[q] /\ p > q /\ deep[x] = deep[q] + 1
          BY <2>1, <3>2, <3>3, <4>2
        <5>2. ~(p <= q)
          BY <3>3, <5>1
        <5> QED
          BY <4>2, <5>1, <5>2 DEF Onward
      <4> QED
        BY <3>1, <4>1, <4>2
    <3>5. deep[q] < e
      BY <1>4, <2>1, <3>4
    <3>6. s[q] = s[x]
      BY <1>1, <3>3, <3>4
    <3> QED
      BY <1>3, <1>6, <3>4, <3>5, <3>6
  <2>2. e + 1 \in 0 .. k
    BY <1>2
  <2> QED
    BY <1>3, <2>1, <2>2
<1>7. k \in S
  <2>1. k \in 0 .. k
    BY <1>2
  <2> QED
    BY <1>2, <1>5, <1>6, <2>1, AllUpTo
<1>8. \A x \in DOMAIN n : deep[x] < k
  BY <1>2, <1>4 DEF Tree
<1> QED
  BY <1>3, <1>7, <1>8

LEMMA LastIs ==
    ASSUME NEW n, NEW r, NEW m, NEW deep, NEW range, Tree(n, r, m, deep, range),
           NEW p \in Nat, p \notin DOMAIN n, NEW s, Lasts(s, n, p), r # NoNode
    PROVE  /\ s[r] \in DOMAIN n /\ p \in range[s[r]] /\ Onward(n, p, s[r]) = NoNode
           /\ \A x \in DOMAIN n : p \in range[x] /\ Onward(n, p, x) = NoNode => x = s[r]
<1>1. r \in DOMAIN n /\ p \in range[r]
  BY DEF Tree, Link
<1>2. s[r] \in DOMAIN n /\ p \in range[s[r]] /\ Onward(n, p, s[r]) = NoNode
  BY <1>1, LastDown
<1>3. ASSUME NEW x \in DOMAIN n, p \in range[x], Onward(n, p, x) = NoNode PROVE x = s[r]
  <2>1. s[x] = x
    BY <1>3 DEF Lasts
  <2>2. s[x] = s[r]
    BY <1>3, LastSame
  <2> QED
    BY <2>1, <2>2
<1> QED
  BY <1>2, <1>3

\* q lists the numbers of D in their order.
Lists(q, D) ==
    /\ q \in Seq(D)
    /\ \A i, j \in 1 .. Len(q) : i < j => q[i] < q[j]
    /\ \A z \in D : \E i \in 1 .. Len(q) : q[i] = z

LEMMA ListsJoin ==
    ASSUME NEW L \in SUBSET Nat, NEW R \in SUBSET Nat, NEW x \in Nat,
           \A z \in L : z < x, \A z \in R : z > x, NEW a, NEW b, Lists(a, L), Lists(b, R)
    PROVE  Lists(a \o <<x>> \o b, L \cup {x} \cup R)
<1>1. PICK U : U = L \cup {x} \cup R
  OBVIOUS
<1>2. a \in Seq(U) /\ b \in Seq(U) /\ <<x>> \in Seq(U) /\ Len(<<x>>) = 1 /\ <<x>>[1] = x
      /\ a \in Seq(L) /\ b \in Seq(R)
  BY <1>1 DEF Lists
<1>3. PICK la \in Nat, lb \in Nat : la = Len(a) /\ lb = Len(b)
  BY <1>2
<1>4. PICK d : d = a \o <<x>>
  OBVIOUS
<1>5. /\ d \in Seq(U) /\ Len(d) = la + 1
      /\ \A i \in 1 .. la + 1 : d[i] = IF i <= la THEN a[i] ELSE <<x>>[i - la]
  BY <1>2, <1>3, <1>4, ConcatProperties
<1>6. PICK c : c = d \o b
  OBVIOUS
<1>7. /\ c \in Seq(U) /\ Len(c) = (la + 1) + lb
      /\ \A i \in 1 .. (la + 1) + lb : c[i] = IF i <= la + 1 THEN d[i] ELSE b[i - (la + 1)]
  <2>1. /\ d \o b \in Seq(U) /\ Len(d \o b) = Len(d) + Len(b)
        /\ \A i \in 1 .. Len(d) + Len(b) : (d \o b)[i] = IF i <= Len(d) THEN d[i] ELSE b[i - Len(d)]
    BY <1>2, <1>5, ConcatProperties
  <2> QED
    BY <1>3, <1>5, <1>6, <2>1
<1>8. /\ \A i \in 1 .. la : c[i] = a[i] /\ a[i] \in L
      /\ c[la + 1] = x
      /\ \A i \in 1 .. lb : c[i + (la + 1)] = b[i] /\ b[i] \in R
  <2>1. ASSUME NEW i \in 1 .. la PROVE c[i] = a[i] /\ a[i] \in L
    <3>1. i \in 1 .. (la + 1) + lb /\ i <= la + 1 /\ i \in 1 .. la + 1 /\ i <= la
      BY <1>3
    <3> QED
      BY <1>2, <1>3, <1>5, <1>7, <3>1
  <2>2. c[la + 1] = x
    <3>1. la + 1 \in 1 .. (la + 1) + lb /\ la + 1 \in 1 .. la + 1 /\ ~(la + 1 <= la) /\ (la + 1) - la = 1
      BY <1>3
    <3>2. c[la + 1] = d[la + 1]
      BY <1>7, <3>1
    <3>3. d[la + 1] = <<x>>[1]
      BY <1>5, <3>1
    <3> QED
      BY <1>2, <3>2, <3>3
  <2>3. ASSUME NEW i \in 1 .. lb PROVE c[i + (la + 1)] = b[i] /\ b[i] \in R
    <3>1. i + (la + 1) \in 1 .. (la + 1) + lb /\ ~(i + (la + 1) <= la + 1) /\ (i + (la + 1)) - (la + 1) = i
      BY <1>3
    <3>2. c[i + (la + 1)] = b[(i + (la + 1)) - (la + 1)]
      BY <1>7, <3>1
    <3>3. b[i] \in R
      BY <1>2, <1>3
    <3> QED
      BY <3>1, <3>2, <3>3
  <2> QED
    BY <2>1, <2>2, <2>3
<1>9. ASSUME NEW i \in 1 .. Len(c)
      PROVE  \/ i \in 1 .. la
             \/ i = la + 1
             \/ i > la + 1 /\ \E k \in 1 .. lb : i = k + (la + 1)
  <2>1. CASE i > la + 1
    <3>0. i - (la + 1) \in Nat
      BY <1>3, <1>7, <2>1
    <3>1. PICK k \in Nat : k = i - (la + 1)
      BY <3>0
    <3>2. k \in 1 .. lb /\ i = k + (la + 1)
      BY <1>3, <1>7, <2>1, <3>1
    <3> QED
      BY <2>1, <3>2
  <2>2. CASE ~(i > la + 1)
    BY <1>3, <2>2
  <2> QED
    BY <2>1, <2>2
<1>10. ASSUME NEW i \in 1 .. Len(c), NEW j \in 1 .. Len(c), i < j PROVE c[i] < c[j]
  <2>1. CASE i \in 1 .. la /\ j \in 1 .. la
    <3>1. a[i] < a[j]
      BY <1>3, <1>10, <2>1 DEF Lists
    <3> QED
      BY <1>8, <2>1, <3>1
  <2>2. CASE i \in 1 .. la /\ j = la + 1
    BY <1>8, <2>2
  <2>3. CASE i \in 1 .. la /\ j > la + 1
    <3>1. c[j] \in R
      <4>1. PICK l \in 1 .. lb : j = l + (la + 1)
        <5>1. j \notin 1 .. la /\ j # la + 1
          BY <1>3, <2>3
        <5> QED
          BY <1>9, <5>1
      <4> QED
        BY <1>8, <4>1
    <3>2. c[i] < x /\ x < c[j] /\ c[i] \in Nat /\ c[j] \in Nat
      BY <1>8, <2>3, <3>1
    <3> QED
      BY <3>2
  <2>4. CASE i = la + 1 /\ j > la + 1
    <3>1. c[j] \in R
      <4>1. PICK l \in 1 .. lb : j = l + (la + 1)
        <5>1. j \notin 1 .. la /\ j # la + 1
          BY <1>3, <2>4
        <5> QED
          BY <1>9, <5>1
      <4> QED
        BY <1>8, <4>1
    <3> QED
      BY <1>8, <2>4, <3>1
  <2>5. CASE i > la + 1 /\ j > la + 1
    <3>4. i \notin 1 .. la /\ i # la + 1 /\ j \notin 1 .. la /\ j # la + 1
      BY <1>3, <2>5
    <3>0. PICK k \in 1 .. lb : i = k + (la + 1)
      BY <1>9, <3>4
    <3>1. PICK l \in 1 .. lb : j = l + (la + 1)
      BY <1>9, <3>4
    <3>2. k < l
      BY <1>3, <1>10, <3>0, <3>1
    <3>3. b[k] < b[l]
      BY <1>3, <3>2 DEF Lists
    <3> QED
      BY <1>8, <3>0, <3>1, <3>3
  <2> QED
    BY <1>3, <1>9, <1>10, <2>1, <2>2, <2>3, <2>4, <2>5
<1>11. ASSUME NEW z \in U PROVE \E i \in 1 .. Len(c) : c[i] = z
  <2>1. CASE z \in L
    <3>1. PICK i \in 1 .. la : a[i] = z
      BY <1>3, <2>1 DEF Lists
    <3>2. i \in 1 .. Len(c)
      BY <1>3, <1>7
    <3> QED
      BY <1>8, <3>1, <3>2
  <2>2. CASE z = x
    <3>1. la + 1 \in 1 .. Len(c)
      BY <1>3, <1>7
    <3> QED
      BY <1>8, <2>2, <3>1
  <2>3. CASE z \in R
    <3>1. PICK i \in 1 .. lb : b[i] = z
      BY <1>3, <2>3 DEF Lists
    <3>2. i + (la + 1) \in 1 .. Len(c)
      BY <1>3, <1>7
    <3> QED
      BY <1>8, <3>1, <3>2
  <2> QED
    BY <1>1, <2>1, <2>2, <2>3
<1> QED
  BY <1>1, <1>4, <1>6, <1>7, <1>10, <1>11 DEF Lists

\* The nodes at x and below it.
NodesBelow(n, range, x) == IF x = NoNode THEN {} ELSE {z \in DOMAIN n : z \in range[x]}

LEMMA WalkIs ==
    ASSUME NEW n, NEW r, NEW m, NEW deep, NEW range, Tree(n, r, m, deep, range),
           NEW s, Walks(s, n)
    PROVE  Lists(s[r], DOMAIN n)
<1>1. \A x \in Link(n) : s[x] = IF x = NoNode THEN <<>> ELSE s[n[x].left] \o <<x>> \o s[n[x].right]
  BY DEF Walks
<1>2. PICK k \in Nat : k = m + 2
  BY DEF Tree
<1>3. PICK S : S = {e \in 0 .. k : \A x \in Link(n) : Height(m, deep, x) < e =>
                                       Lists(s[x], NodesBelow(n, range, x))}
  OBVIOUS
<1>4. \A x \in Link(n) : Height(m, deep, x) \in 0 .. m + 1
  BY HeightShrinks
<1>5. 0 \in S
  <2>1. 0 \in 0 .. k /\ \A x \in Link(n) : ~(Height(m, deep, x) < 0)
    BY <1>2, <1>4
  <2> QED
    BY <1>3, <2>1
<1>6. ASSUME NEW e \in 0 .. k - 1, e \in S PROVE e + 1 \in S
  <2>1. ASSUME NEW x \in Link(n), Height(m, deep, x) < e + 1
        PROVE  Lists(s[x], NodesBelow(n, range, x))
    <3>1. CASE x = NoNode
      <4>1. s[x] = <<>> /\ NodesBelow(n, range, x) = {}
        BY <1>1, <3>1 DEF NodesBelow
      <4> QED
        BY <4>1 DEF Lists
    <3>2. CASE x # NoNode
      <4>1. PICK l, o : l = n[x].left /\ o = n[x].right
        OBVIOUS
      <4>2. x \in DOMAIN n /\ x \in Nat /\ DOMAIN n \subseteq Nat /\ TreeNode(n, r, deep, range, x)
        BY <3>2, PhoneBookAssumption DEF Tree, Link
      <4>3. /\ l \in Link(n) /\ o \in Link(n)
            /\ Height(m, deep, l) < e /\ Height(m, deep, o) < e
        <5>1. /\ l \in Link(n) /\ o \in Link(n)
              /\ Height(m, deep, l) < Height(m, deep, x) /\ Height(m, deep, o) < Height(m, deep, x)
          BY <4>1, <4>2, HeightShrinks
        <5>2. /\ Height(m, deep, l) \in Int /\ Height(m, deep, o) \in Int
              /\ Height(m, deep, x) \in Int
          BY <1>4, <5>1
        <5> QED
          BY <2>1, <5>1, <5>2
      <4>4. Lists(s[l], NodesBelow(n, range, l)) /\ Lists(s[o], NodesBelow(n, range, o))
        BY <1>3, <1>6, <4>3
      <4>5. NodesBelow(n, range, l) = {z \in DOMAIN n : z \in range[x] /\ z < x}
        <5>1. CASE l = NoNode
          BY <4>1, <4>2, <5>1 DEF NodesBelow, TreeNode
        <5>2. CASE l # NoNode
          BY <4>1, <4>2, <5>2 DEF NodesBelow, TreeNode
        <5> QED
          BY <5>1, <5>2
      <4>6. NodesBelow(n, range, o) = {z \in DOMAIN n : z \in range[x] /\ z > x}
        <5>1. CASE o = NoNode
          BY <4>1, <4>2, <5>1 DEF NodesBelow, TreeNode
        <5>2. CASE o # NoNode
          BY <4>1, <4>2, <5>2 DEF NodesBelow, TreeNode
        <5> QED
          BY <5>1, <5>2
      <4>7. Lists(s[l] \o <<x>> \o s[o], NodesBelow(n, range, l) \cup {x} \cup NodesBelow(n, range, o))
        <5>1. PICK A \in SUBSET Nat, B \in SUBSET Nat : A = NodesBelow(n, range, l) /\ B = NodesBelow(n, range, o)
          BY <4>2, <4>5, <4>6
        <5>2. (\A z \in A : z < x) /\ (\A z \in B : z > x)
          BY <4>5, <4>6, <5>1
        <5> QED
          BY <4>2, <4>4, <5>1, <5>2, ListsJoin
      <4>8. NodesBelow(n, range, l) \cup {x} \cup NodesBelow(n, range, o) = NodesBelow(n, range, x)
        <5>1. NodesBelow(n, range, x) = {z \in DOMAIN n : z \in range[x]} /\ x \in range[x]
          BY <3>2, <4>2 DEF NodesBelow, TreeNode
        <5>2. \A z \in DOMAIN n : z < x \/ z = x \/ z > x
          BY <4>2
        <5> QED
          BY <4>2, <4>5, <4>6, <5>1, <5>2
      <4>9. s[x] = s[l] \o <<x>> \o s[o]
        BY <1>1, <3>2, <4>1
      <4> QED
        BY <4>7, <4>8, <4>9
    <3> QED
      BY <3>1, <3>2
  <2>2. e + 1 \in 0 .. k
    BY <1>2
  <2> QED
    BY <1>3, <2>1, <2>2
<1>7. k \in S
  <2>1. k \in 0 .. k
    BY <1>2
  <2> QED
    BY <1>2, <1>5, <1>6, <2>1, AllUpTo
<1>8. r \in Link(n) /\ Height(m, deep, r) < k
  <2>1. r \in Link(n) /\ m \in Nat
    BY DEF Tree
  <2> QED
    BY <1>2, <1>4, <2>1
<1>9. NodesBelow(n, range, r) = DOMAIN n
  <2>1. CASE r = NoNode
    BY <2>1 DEF Tree, NodesBelow
  <2>2. CASE r # NoNode
    BY <2>2, PhoneBookAssumption DEF Tree, NodesBelow
  <2> QED
    BY <2>1, <2>2
<1> QED
  BY <1>3, <1>7, <1>8, <1>9

\* Such a list has as many places as there are numbers.
LEMMA ListIsWhole ==
    ASSUME NEW D \in SUBSET Nat, IsFiniteSet(D), NEW q, Lists(q, D)
    PROVE  q \in [1 .. Cardinality(D) -> D]
<1>1. PICK k \in Nat : k = Len(q)
  BY DEF Lists
<1>2. q \in [1 .. k -> D]
  BY <1>1 DEF Lists
<1>3. ASSUME NEW i \in 1 .. k, NEW j \in 1 .. k, q[i] = q[j] PROVE i = j
  <2>1. q[i] \in Nat /\ ~(q[i] < q[j]) /\ ~(q[j] < q[i])
    <3>1. q[i] \in D /\ D \subseteq Nat
      BY <1>2
    <3>2. q[i] \in Nat
      BY <3>1
    <3> QED
      BY <1>3, <3>2
  <2>2. ~(i < j) /\ ~(j < i)
    BY <1>1, <2>1 DEF Lists
  <2> QED
    BY <2>2
<1>4. \A z \in D : \E i \in 1 .. k : q[i] = z
  BY <1>1 DEF Lists
<1>5. q \in Bijection(1 .. k, D)
  BY <1>2, <1>3, <1>4 DEF Bijection, Injection, IsInjective, Surjection
<1>6. ExistsBijection(1 .. k, D)
  BY <1>5 DEF ExistsBijection
<1>7. IsFiniteSet(1 .. k) /\ Cardinality(1 .. k) = k
  <2>1. 1 \in Int /\ k \in Int
    OBVIOUS
  <2>2. Cardinality(1 .. k) = IF 1 > k THEN 0 ELSE k - 1 + 1
    BY <2>1, FS_Interval
  <2>3. Cardinality(1 .. k) = k
    <3>1. CASE k = 0
      BY <2>2, <3>1
    <3>2. CASE k >= 1
      BY <2>2, <3>2
    <3> QED
      BY <1>1, <3>1, <3>2
  <2> QED
    BY <2>1, <2>3, FS_Interval
<1>8. Cardinality(D) = k
  BY <1>6, <1>7, FS_Bijection
<1> QED
  BY <1>2, <1>8
-----------------------------------------------------------------------------
\* What find_node and bst_insert_node's loop come to, and what the walk prints.
FoundIn(n, r, p) == (CHOOSE s : Finds(s, n, p))[r]
LastIn(n, r, p) == IF r = NoNode THEN NoNode ELSE (CHOOSE s : Lasts(s, n, p))[r]
WalkOf(n, r) == (CHOOSE s : Walks(s, n))[r]

LEMMA FindNodeIs ==
    ASSUME NEW p
    PROVE  FindNode(p) = FoundIn(node, root, p) /\ FindNode(p)' = FoundIn(node', root', p)
BY DEF FindNode, Towards, FoundIn, Finds, Onward, Link

LEMMA LastBeforeIs ==
    ASSUME NEW p
    PROVE  LastBefore(p) = LastIn(node, root, p)
BY DEF LastBefore, Towards, LastIn, Lasts, Onward

LEMMA InOrderIs == InOrder(root) = WalkOf(node, root)
BY DEF InOrder, WalkOf, Walks, Link

LEMMA FoundIs ==
    ASSUME NEW n, NEW r, NEW m, NEW deep, NEW range, Tree(n, r, m, deep, range), NEW p \in Phone
    PROVE  FoundIn(n, r, p) = IF p \in DOMAIN n THEN p ELSE NoNode
<1>1. p \in Nat /\ p # NoNode
  BY PhoneBookAssumption
<1>2. \E s : Finds(s, n, p)
  BY FindsExist
<1>3. PICK s : s = (CHOOSE t : Finds(t, n, p)) /\ Finds(s, n, p)
  BY <1>2
<1> QED
  BY <1>1, <1>3, FindIs DEF FoundIn

LEMMA LastInIs ==
    ASSUME NEW n, NEW r, NEW m, NEW deep, NEW range, Tree(n, r, m, deep, range), NEW p \in Phone,
           p \notin DOMAIN n, r # NoNode, NEW y, y = LastIn(n, r, p)
    PROVE  /\ y \in DOMAIN n /\ p \in range[y] /\ Onward(n, p, y) = NoNode
           /\ \A x \in DOMAIN n : p \in range[x] /\ Onward(n, p, x) = NoNode => x = y
<1>1. p \in Nat
  BY PhoneBookAssumption
<1>2. \E s : Lasts(s, n, p)
  BY LastsExist
<1>3. PICK s : s = (CHOOSE t : Lasts(t, n, p)) /\ Lasts(s, n, p)
  BY <1>2
<1>4. y = s[r]
  BY <1>3 DEF LastIn
<1>5. /\ s[r] \in DOMAIN n /\ p \in range[s[r]] /\ Onward(n, p, s[r]) = NoNode
      /\ \A x \in DOMAIN n : p \in range[x] /\ Onward(n, p, x) = NoNode => x = s[r]
  BY <1>1, <1>3, LastIs
<1> QED
  BY <1>4, <1>5

LEMMA WalkOfIs ==
    ASSUME NEW n, NEW r, NEW m, NEW deep, NEW range, Tree(n, r, m, deep, range)
    PROVE  Lists(WalkOf(n, r), DOMAIN n)
<1>1. \E s : Walks(s, n)
  BY WalksExist
<1>2. PICK s : s = (CHOOSE t : Walks(t, n)) /\ Walks(s, n)
  BY <1>1
<1> QED
  BY <1>2, WalkIs DEF WalkOf

NameIn(n, x) == n[x].name

Enlarged(S, p) == S \cup {p}

\* n after bst_insert_node has put p under y.
Grafted(n, y, p, who) ==
    LET grown == [x \in DOMAIN n \cup {p} |-> IF x = p THEN Leaf(who, y) ELSE n[x]]
    IN IF y = NoNode THEN grown
       ELSE IF p < y THEN [grown EXCEPT ![y].left = p] ELSE [grown EXCEPT ![y].right = p]

LEMMA GraftedIs ==
    ASSUME NEW n, n \in [DOMAIN n -> NodeRecord], DOMAIN n \subseteq Phone,
           NEW p \in Phone, p \notin DOMAIN n, NEW who \in Name,
           NEW y \in DOMAIN n, NEW g, g = Grafted(n, y, p, who)
    PROVE  /\ g \in [Enlarged(DOMAIN n, p) -> NodeRecord]
           /\ NameIn(g, p) = who /\ g[p].left = NoNode /\ g[p].right = NoNode
           /\ \A x \in DOMAIN n :
                /\ NameIn(g, x) = NameIn(n, x)
                /\ g[x].left = IF x = y /\ p < y THEN p ELSE n[x].left
                /\ g[x].right = IF x = y /\ ~(p < y) THEN p ELSE n[x].right
<1>1. y # NoNode /\ y # p /\ y \in Phone
  BY PhoneBookAssumption
<1>2. PICK h : h = [x \in DOMAIN n \cup {p} |-> IF x = p THEN Leaf(who, y) ELSE n[x]]
  OBVIOUS
<1>3. Leaf(who, y) \in NodeRecord /\ Leaf(who, y).name = who
      /\ Leaf(who, y).left = NoNode /\ Leaf(who, y).right = NoNode
  BY <1>1 DEF Leaf, NodeRecord
<1>4. h \in [DOMAIN n \cup {p} -> NodeRecord] /\ h[p] = Leaf(who, y) /\ \A x \in DOMAIN n : h[x] = n[x]
  BY <1>2, <1>3
<1>5. CASE p < y
  <2>1. g = [h EXCEPT ![y].left = p]
    BY <1>1, <1>2, <1>5 DEF Grafted
  <2>2. \A x \in DOMAIN n \cup {p} : g[x] = IF x = y THEN [h[y] EXCEPT !.left = p] ELSE h[x]
    BY <1>4, <2>1
  <2>3. [h[y] EXCEPT !.left = p] \in NodeRecord
    BY <1>4 DEF NodeRecord
  <2>4. g \in [DOMAIN n \cup {p} -> NodeRecord]
    BY <1>4, <2>1, <2>2, <2>3
  <2>5. /\ [h[y] EXCEPT !.left = p].name = n[y].name /\ [h[y] EXCEPT !.left = p].left = p
        /\ [h[y] EXCEPT !.left = p].right = n[y].right
    BY <1>4 DEF NodeRecord
  <2> QED
    BY <1>1, <1>3, <1>4, <1>5, <2>2, <2>4, <2>5 DEF NameIn, Enlarged
<1>6. CASE ~(p < y)
  <2>1. g = [h EXCEPT ![y].right = p]
    BY <1>1, <1>2, <1>6 DEF Grafted
  <2>2. \A x \in DOMAIN n \cup {p} : g[x] = IF x = y THEN [h[y] EXCEPT !.right = p] ELSE h[x]
    BY <1>4, <2>1
  <2>3. [h[y] EXCEPT !.right = p] \in NodeRecord
    BY <1>4 DEF NodeRecord
  <2>4. g \in [DOMAIN n \cup {p} -> NodeRecord]
    BY <1>4, <2>1, <2>2, <2>3
  <2>5. /\ [h[y] EXCEPT !.right = p].name = n[y].name /\ [h[y] EXCEPT !.right = p].right = p
        /\ [h[y] EXCEPT !.right = p].left = n[y].left
    BY <1>4 DEF NodeRecord
  <2> QED
    BY <1>1, <1>3, <1>4, <1>6, <2>2, <2>4, <2>5 DEF NameIn, Enlarged
<1> QED
  BY <1>5, <1>6

\* The tree with the new number is a search tree again.
LEMMA TreeGrows ==
    ASSUME NEW n, NEW r, NEW m, NEW deep, NEW range, Tree(n, r, m, deep, range),
           NEW p \in Phone, p \notin DOMAIN n, NEW who \in Name, r # NoNode,
           NEW y, y = LastIn(n, r, p), NEW g, g = Grafted(n, y, p, who)
    PROVE  \E m2, d2, r2 : Tree(g, r, m2, d2, r2)
<1>1. /\ y \in DOMAIN n /\ p \in range[y] /\ Onward(n, p, y) = NoNode
      /\ \A x \in DOMAIN n : p \in range[x] /\ Onward(n, p, x) = NoNode => x = y
  BY LastInIs
<1>2. /\ n \in [DOMAIN n -> NodeRecord] /\ DOMAIN n \subseteq Phone /\ IsFiniteSet(DOMAIN n)
      /\ m \in Nat /\ deep \in [DOMAIN n -> 0 .. m] /\ range \in [DOMAIN n -> SUBSET Nat]
      /\ r \in DOMAIN n /\ range[r] = Nat
      /\ \A x \in DOMAIN n : TreeNode(n, r, deep, range, x)
  BY DEF Tree, Link
<1>3. /\ g \in [DOMAIN n \cup {p} -> NodeRecord] /\ DOMAIN g = DOMAIN n \cup {p}
      /\ g[p].left = NoNode /\ g[p].right = NoNode
      /\ \A x \in DOMAIN n :
           /\ g[x].left = IF x = y /\ p < y THEN p ELSE n[x].left
           /\ g[x].right = IF x = y /\ ~(p < y) THEN p ELSE n[x].right
  <2>1. /\ g \in [Enlarged(DOMAIN n, p) -> NodeRecord]
        /\ g[p].left = NoNode /\ g[p].right = NoNode
        /\ \A x \in DOMAIN n :
             /\ g[x].left = IF x = y /\ p < y THEN p ELSE n[x].left
             /\ g[x].right = IF x = y /\ ~(p < y) THEN p ELSE n[x].right
    BY <1>1, <1>2, GraftedIs
  <2> QED
    BY <2>1 DEF Enlarged
<1>4. /\ \A x \in DOMAIN n : x \in Nat /\ x # NoNode /\ x # p
      /\ p \in Nat /\ p # NoNode /\ y \in Nat
  BY <1>1, <1>2, PhoneBookAssumption
<1>5. PICK d2 : d2 = [x \in DOMAIN n \cup {p} |-> IF x = p THEN deep[y] + 1 ELSE deep[x]]
  OBVIOUS
<1>6. d2 \in [DOMAIN g -> 0 .. m + 1] /\ d2[p] = deep[y] + 1 /\ \A x \in DOMAIN n : d2[x] = deep[x]
  BY <1>1, <1>2, <1>3, <1>4, <1>5
<1>7. PICK side \in SUBSET Nat :
         side = IF p < y THEN {z \in range[y] : z < y} ELSE {z \in range[y] : z > y}
  BY <1>1, <1>2
<1>8. PICK r2 : r2 = [x \in DOMAIN n \cup {p} |-> IF x = p THEN side ELSE range[x]]
  OBVIOUS
<1>9. r2 \in [DOMAIN g -> SUBSET Nat] /\ r2[p] = side /\ \A x \in DOMAIN n : r2[x] = range[x]
  BY <1>2, <1>3, <1>4, <1>8
<1>10. p < y => n[y].left = NoNode
  BY <1>1, <1>4 DEF Onward
<1>11. ~(p < y) => n[y].right = NoNode /\ p > y
  <2>1. p # y
    BY <1>1, <1>4
  <2> QED
    BY <1>1, <1>4, <2>1 DEF Onward
<1>12. p \in side /\ \A z \in DOMAIN g : z \in side => z = p
  <2>1. CASE p < y
    <3>1. \A z \in DOMAIN n : z \in range[y] => ~(z < y)
      BY <1>1, <1>2, <1>10, <2>1 DEF TreeNode
    <3> QED
      BY <1>1, <1>3, <1>7, <2>1, <3>1
  <2>2. CASE ~(p < y)
    <3>1. \A z \in DOMAIN n : z \in range[y] => ~(z > y)
      BY <1>1, <1>2, <1>11, <2>2 DEF TreeNode
    <3> QED
      BY <1>1, <1>3, <1>7, <1>11, <2>2, <3>1
  <2> QED
    BY <2>1, <2>2
<1>13. TreeNode(g, r, d2, r2, p)
  <2>1. y \in DOMAIN g /\ p \in {g[y].left, g[y].right}
    BY <1>1, <1>3
  <2>2. \A z \in DOMAIN g : z \in r2[p] => ~(z < p) /\ ~(z > p)
    BY <1>4, <1>9, <1>12
  <2>3. NoNode \in Link(g)
    BY DEF Link
  <2> QED
    BY <1>3, <1>9, <1>12, <2>1, <2>2, <2>3 DEF TreeNode
<1>14. ASSUME NEW x \in DOMAIN n PROVE TreeNode(g, r, d2, r2, x)
  <2>1. /\ x \in range[x]
        /\ n[x].left \in Link(n) /\ n[x].right \in Link(n)
        /\ n[x].left # NoNode =>
             /\ range[n[x].left] = {z \in range[x] : z < x}
             /\ deep[n[x].left] = deep[x] + 1
        /\ n[x].right # NoNode =>
             /\ range[n[x].right] = {z \in range[x] : z > x}
             /\ deep[n[x].right] = deep[x] + 1
        /\ n[x].left = NoNode => \A z \in DOMAIN n : z \in range[x] => ~(z < x)
        /\ n[x].right = NoNode => \A z \in DOMAIN n : z \in range[x] => ~(z > x)
        /\ x # r => \E q \in DOMAIN n : x \in {n[q].left, n[q].right}
    BY <1>2 DEF TreeNode
  <2>2. x \in Nat /\ x # NoNode /\ r2[x] = range[x] /\ d2[x] = deep[x]
    BY <1>4, <1>6, <1>9
  <2>3. /\ g[x].left \in Link(g)
        /\ g[x].left # NoNode =>
             /\ r2[g[x].left] = {z \in r2[x] : z < x}
             /\ d2[g[x].left] = d2[x] + 1
        /\ g[x].left = NoNode => \A z \in DOMAIN g : z \in r2[x] => ~(z < x)
    <3>1. CASE x = y /\ p < y
      <4>1. g[x].left = p
        BY <1>3, <3>1
      <4>2. p \in Link(g)
        BY <1>3 DEF Link
      <4> QED
        BY <1>4, <1>6, <1>7, <1>9, <2>2, <3>1, <4>1, <4>2
    <3>2. CASE ~(x = y /\ p < y)
      <4>1. g[x].left = n[x].left
        BY <1>3, <3>2
      <4>2. g[x].left \in Link(g)
        BY <1>3, <2>1, <4>1 DEF Link
      <4>3. ASSUME g[x].left # NoNode
            PROVE  r2[g[x].left] = {z \in r2[x] : z < x} /\ d2[g[x].left] = d2[x] + 1
        <5>1. n[x].left \in DOMAIN n
          BY <2>1, <4>1, <4>3 DEF Link
        <5> QED
          BY <1>6, <1>9, <2>1, <2>2, <4>1, <4>3, <5>1
      <4>4. ASSUME g[x].left = NoNode, NEW z \in DOMAIN g, z \in r2[x] PROVE ~(z < x)
        <5>1. CASE z = p
          <6>1. SUFFICES ASSUME p < x PROVE FALSE
            BY <5>1
          <6>2. Onward(n, p, x) = NoNode
            BY <1>4, <2>2, <4>1, <4>4, <6>1 DEF Onward
          <6>3. p \in range[x]
            BY <2>2, <4>4, <5>1
          <6>4. x = y
            BY <1>1, <6>2, <6>3
          <6> QED
            BY <3>2, <6>1, <6>4
        <5>2. CASE z # p
          <6>1. z \in DOMAIN n
            BY <1>3, <5>2
          <6> QED
            BY <2>1, <2>2, <4>1, <4>4, <6>1
        <5> QED
          BY <5>1, <5>2
      <4> QED
        BY <4>2, <4>3, <4>4
    <3> QED
      BY <3>1, <3>2
  <2>4. /\ g[x].right \in Link(g)
        /\ g[x].right # NoNode =>
             /\ r2[g[x].right] = {z \in r2[x] : z > x}
             /\ d2[g[x].right] = d2[x] + 1
        /\ g[x].right = NoNode => \A z \in DOMAIN g : z \in r2[x] => ~(z > x)
    <3>1. CASE x = y /\ ~(p < y)
      <4>1. g[x].right = p
        BY <1>3, <3>1
      <4>2. p \in Link(g)
        BY <1>3 DEF Link
      <4> QED
        BY <1>4, <1>6, <1>7, <1>9, <2>2, <3>1, <4>1, <4>2
    <3>2. CASE ~(x = y /\ ~(p < y))
      <4>1. g[x].right = n[x].right
        BY <1>3, <3>2
      <4>2. g[x].right \in Link(g)
        BY <1>3, <2>1, <4>1 DEF Link
      <4>3. ASSUME g[x].right # NoNode
            PROVE  r2[g[x].right] = {z \in r2[x] : z > x} /\ d2[g[x].right] = d2[x] + 1
        <5>1. n[x].right \in DOMAIN n
          BY <2>1, <4>1, <4>3 DEF Link
        <5> QED
          BY <1>6, <1>9, <2>1, <2>2, <4>1, <4>3, <5>1
      <4>4. ASSUME g[x].right = NoNode, NEW z \in DOMAIN g, z \in r2[x] PROVE ~(z > x)
        <5>1. CASE z = p
          <6>1. SUFFICES ASSUME p > x PROVE FALSE
            BY <5>1
          <6>2. Onward(n, p, x) = NoNode
            BY <1>4, <2>2, <4>1, <4>4, <6>1 DEF Onward
          <6>3. p \in range[x]
            BY <2>2, <4>4, <5>1
          <6>4. x = y
            BY <1>1, <6>2, <6>3
          <6>5. p < y
            BY <3>2, <6>4
          <6> QED
            BY <1>4, <6>1, <6>4, <6>5
        <5>2. CASE z # p
          <6>1. z \in DOMAIN n
            BY <1>3, <5>2
          <6> QED
            BY <2>1, <2>2, <4>1, <4>4, <6>1
        <5> QED
          BY <5>1, <5>2
      <4> QED
        BY <4>2, <4>3, <4>4
    <3> QED
      BY <3>1, <3>2
  <2>5. ASSUME x # r PROVE \E q \in DOMAIN g : x \in {g[q].left, g[q].right}
    <3>1. PICK q \in DOMAIN n : x \in {n[q].left, n[q].right}
      BY <2>1, <2>5
    <3>2. /\ n[q].left # NoNode => g[q].left = n[q].left
          /\ n[q].right # NoNode => g[q].right = n[q].right
      BY <1>3, <1>10, <1>11
    <3> QED
      BY <1>3, <2>2, <3>1, <3>2
  <2> QED
    BY <2>1, <2>2, <2>3, <2>4, <2>5 DEF TreeNode
<1>15. IsFiniteSet(DOMAIN g)
  BY <1>2, <1>3, FS_AddElement
<1>16. Tree(g, r, m + 1, d2, r2)
  <2>1. r \in Link(g) /\ r2[r] = Nat /\ m + 1 \in Nat /\ DOMAIN g \subseteq Phone
        /\ g \in [DOMAIN g -> NodeRecord]
    BY <1>2, <1>3, <1>9 DEF Link
  <2>2. \A x \in DOMAIN g : TreeNode(g, r, d2, r2, x)
    BY <1>3, <1>13, <1>14
  <2> QED
    BY <1>6, <1>9, <1>15, <2>1, <2>2 DEF Tree
<1> QED
  BY <1>16

\* The first number makes a tree of one node.
LEMMA TreeStarts ==
    ASSUME NEW n, DOMAIN n = {}, NEW p \in Phone, NEW who \in Name,
           NEW g, g = Grafted(n, NoNode, p, who)
    PROVE  /\ \E m, deep, range : Tree(g, p, m, deep, range)
           /\ DOMAIN g = Enlarged({}, p) /\ NameIn(g, p) = who
<1>1. p \in Nat /\ p # NoNode
  BY PhoneBookAssumption
<1>2. g = [x \in {p} |-> Leaf(who, NoNode)]
  BY DEF Grafted
<1>3. /\ Leaf(who, NoNode) \in NodeRecord /\ Leaf(who, NoNode).name = who
      /\ Leaf(who, NoNode).left = NoNode /\ Leaf(who, NoNode).right = NoNode
  BY DEF Leaf, NodeRecord
<1>4. /\ DOMAIN g = {p} /\ g \in [DOMAIN g -> NodeRecord] /\ g[p].name = who
      /\ g[p].left = NoNode /\ g[p].right = NoNode
  BY <1>2, <1>3
<1>5. PICK d, v : d = [x \in {p} |-> 0] /\ v = [x \in {p} |-> Nat]
  OBVIOUS
<1>6. d \in [DOMAIN g -> 0 .. 0] /\ v \in [DOMAIN g -> SUBSET Nat] /\ v[p] = Nat
  BY <1>4, <1>5
<1>7. TreeNode(g, p, d, v, p)
  <2>1. \A z \in DOMAIN g : ~(z < p) /\ ~(z > p)
    BY <1>1, <1>4
  <2> QED
    BY <1>1, <1>4, <1>6, <2>1 DEF TreeNode, Link
<1>8. IsFiniteSet(DOMAIN g)
  <2>1. IsFiniteSet({p})
    BY FS_Singleton
  <2> QED
    BY <1>4, <2>1
<1>9. Tree(g, p, 0, d, v)
  BY <1>1, <1>4, <1>6, <1>7, <1>8 DEF Tree, Link
<1> QED
  BY <1>4, <1>9 DEF NameIn, Enlarged

\* So does the tree that is freed, and the one the program starts with.
LEMMA EmptyIsTree ==
    ASSUME NEW n, n = [p \in {} |-> 0]
    PROVE  \E m, deep, range : Tree(n, NoNode, m, deep, range)
<1>1. PICK d, v : d = [x \in {} |-> 0] /\ v = [x \in {} |-> Nat]
  OBVIOUS
<1>2. /\ DOMAIN n = {} /\ n \in [DOMAIN n -> NodeRecord] /\ IsFiniteSet(DOMAIN n)
      /\ d \in [DOMAIN n -> 0 .. 0] /\ v \in [DOMAIN n -> SUBSET Nat]
  BY <1>1, FS_EmptySet
<1>3. Tree(n, NoNode, 0, d, v)
  BY <1>2 DEF Tree, Link
<1> QED
  BY <1>3

\* What bst_insert_node does to a search tree.
LEMMA PhoneInserted ==
    ASSUME NEW p \in Phone, NEW who \in Name, BookInv, InsertNode(p, who)
    PROVE  /\ BookInv'
           /\ DOMAIN node' = DOMAIN node \cup {p}
           /\ \A x \in DOMAIN node : NameIn(node', x) = NameIn(node, x)
           /\ p \notin DOMAIN node => NameIn(node', p) = who
<1>1. PICK m, deep, range : Tree(node, root, m, deep, range)
  BY DEF BookInv
<1>2. FindNode(p) = IF p \in DOMAIN node THEN p ELSE NoNode
  BY <1>1, FindNodeIs, FoundIs
<1>3. p # NoNode /\ crashed' = crashed /\ crashed \in BOOLEAN
  BY PhoneBookAssumption DEF InsertNode, BookInv
<1>4. CASE p \in DOMAIN node
  <2>1. node' = node /\ root' = root
    BY <1>2, <1>3, <1>4 DEF InsertNode
  <2>2. BookInv'
    BY <1>1, <1>3, <2>1 DEF BookInv
  <2> QED
    BY <1>4, <2>1, <2>2
<1>5. CASE p \notin DOMAIN node
  <2>1. PICK y : y = LastIn(node, root, p)
    OBVIOUS
  <2>2. node' = Grafted(node, y, p, who) /\ root' = IF root = NoNode THEN p ELSE root
    BY <1>2, <1>3, <1>5, <2>1, LastBeforeIs DEF InsertNode, Linked, Grafted
  <2>3. CASE root = NoNode
    <3>1. DOMAIN node = {} /\ y = NoNode
      BY <1>1, <2>1, <2>3 DEF Tree, LastIn
    <3>2. /\ \E k, d, v : Tree(node', p, k, d, v)
          /\ DOMAIN node' = {p} /\ NameIn(node', p) = who
      <4>1. PICK g : g = node'
        OBVIOUS
      <4>2. PICK n : n = node
        OBVIOUS
      <4>3. DOMAIN n = {} /\ g = Grafted(n, NoNode, p, who)
        BY <2>2, <3>1, <4>1, <4>2
      <4>4. (\E k, d, v : Tree(g, p, k, d, v)) /\ DOMAIN g = Enlarged({}, p) /\ NameIn(g, p) = who
        BY <4>3, TreeStarts
      <4> QED
        BY <4>1, <4>4 DEF Enlarged
    <3>3. BookInv'
      BY <1>3, <2>2, <2>3, <3>2 DEF BookInv
    <3> QED
      BY <3>1, <3>2, <3>3
  <2>4. CASE root # NoNode
    <3>1. \E k, d, v : Tree(node', root, k, d, v)
      BY <1>1, <1>5, <2>1, <2>2, <2>4, TreeGrows
    <3>2. y \in DOMAIN node
      BY <1>1, <1>5, <2>1, <2>4, LastInIs
    <3>3. /\ node' \in [DOMAIN node \cup {p} -> NodeRecord]
          /\ NameIn(node', p) = who /\ \A x \in DOMAIN node : NameIn(node', x) = NameIn(node, x)
      <4>1. PICK g : g = node'
        OBVIOUS
      <4>2. PICK n : n = node
        OBVIOUS
      <4>3. /\ n \in [DOMAIN n -> NodeRecord] /\ DOMAIN n \subseteq Phone
            /\ p \notin DOMAIN n /\ y \in DOMAIN n /\ g = Grafted(n, y, p, who)
        BY <1>1, <1>5, <2>2, <3>2, <4>1, <4>2 DEF Tree
      <4>4. /\ g \in [Enlarged(DOMAIN n, p) -> NodeRecord]
            /\ NameIn(g, p) = who /\ \A x \in DOMAIN n : NameIn(g, x) = NameIn(n, x)
        BY <4>3, GraftedIs
      <4> QED
        BY <4>1, <4>2, <4>4 DEF Enlarged
    <3>4. BookInv'
      BY <1>3, <2>2, <2>4, <3>1 DEF BookInv
    <3> QED
      BY <3>3, <3>4
  <2> QED
    BY <2>3, <2>4
<1> QED
  BY <1>4, <1>5

\* The tree is a search tree: at every node the numbers to its left are
\* smaller and those to its right larger, whatever was inserted and freed.
THEOREM BookInvariant == BookSpec => []BookInv
<1>1. BookInit => BookInv
  BY EmptyIsTree DEF BookInit, BookInv
<1>2. ASSUME BookInv, [BookNext]_bookVars PROVE BookInv'
  <2>1. CASE \E p \in Phone, who \in Name : InsertNode(p, who)
    BY <1>2, <2>1, PhoneInserted
  <2>2. CASE Walk
    <3>1. node' = node /\ root' = root /\ crashed' \in BOOLEAN
      BY <1>2, <2>2 DEF Walk, BookInv
    <3> QED
      BY <1>2, <3>1 DEF BookInv
  <2>3. CASE FreeTree
    <3>1. node' = [p \in {} |-> 0] /\ root' = NoNode /\ crashed' \in BOOLEAN
      BY <1>2, <2>3 DEF FreeTree, BookInv
    <3> QED
      BY <3>1, EmptyIsTree DEF BookInv
  <2>4. CASE UNCHANGED bookVars
    BY <1>2, <2>4 DEF bookVars, BookInv
  <2> QED
    BY <1>2, <2>1, <2>2, <2>3, <2>4 DEF BookNext
<1> QED
  BY <1>1, <1>2, PTL DEF BookSpec

\* The entries the tree stands for.
Entries == [p \in {p \in Phone : FindNode(p) # NoNode} |-> node[p].name]

NamesIn(n) == [p \in DOMAIN n |-> n[p].name]

LEMMA EntriesAre ==
    ASSUME BookInv
    PROVE  Entries = NamesIn(node)
<1>1. PICK m, deep, range : Tree(node, root, m, deep, range)
  BY DEF BookInv
<1>2. \A p \in Phone : FindNode(p) = IF p \in DOMAIN node THEN p ELSE NoNode
  BY <1>1, FindNodeIs, FoundIs
<1>3. {p \in Phone : FindNode(p) # NoNode} = DOMAIN node
  BY <1>1, <1>2, PhoneBookAssumption DEF Tree
<1> QED
  BY <1>3 DEF Entries, NamesIn

LEMMA EntriesWillBe ==
    ASSUME BookInv'
    PROVE  Entries' = NamesIn(node')
<1>1. PICK m, deep, range : Tree(node', root', m, deep, range)
  BY DEF BookInv
<1>2. \A p \in Phone : FindNode(p)' = IF p \in DOMAIN node' THEN p ELSE NoNode
  BY <1>1, FindNodeIs, FoundIs
<1>3. {p \in Phone : FindNode(p)' # NoNode} = DOMAIN node'
  BY <1>1, <1>2, PhoneBookAssumption DEF Tree
<1>4. Entries' = [p \in {p \in Phone : FindNode(p)' # NoNode} |-> node'[p].name]
  BY DEF Entries
<1> QED
  BY <1>3, <1>4 DEF NamesIn

\* Every behaviour of the search tree is one of the table: the first name of
\* a number stays, and the walk prints all numbers in their order.
THEOREM BookIsTable == BookSpec => ImplementsTable
<1>1. BookInit => Table!Init
  <2> SUFFICES ASSUME BookInit PROVE Entries = [p \in {} |-> 0] /\ printed = <<>>
    BY DEF Table!Init, Entries
  <2>1. BookInv
    BY EmptyIsTree DEF BookInit, BookInv
  <2>2. Entries = NamesIn(node) /\ DOMAIN node = {}
    BY <2>1, EntriesAre DEF BookInit
  <2> QED
    BY <2>2 DEF BookInit, NamesIn
<1>2. ASSUME BookInv, BookInv', [BookNext]_bookVars PROVE [Table!Next]_<<Entries, printed>>
  <2>1. Entries = NamesIn(node) /\ Entries' = NamesIn(node')
    BY <1>2, EntriesAre, EntriesWillBe
  <2>2. ASSUME NEW p \in Phone, NEW name \in Name, InsertNode(p, name) PROVE Table!Enter(p, name)
    <3>1. /\ DOMAIN node' = DOMAIN node \cup {p}
          /\ \A x \in DOMAIN node : NameIn(node', x) = NameIn(node, x)
          /\ p \notin DOMAIN node => NameIn(node', p) = name
      BY <1>2, <2>2, PhoneInserted
    <3>2. NamesIn(node') = [q \in DOMAIN NamesIn(node) \cup {p} |->
                              IF q \in DOMAIN NamesIn(node) THEN NamesIn(node)[q] ELSE name]
      BY <3>1 DEF NamesIn, NameIn
    <3>3. printed' = printed
      BY <2>2 DEF InsertNode
    <3> QED
      BY <2>1, <3>2, <3>3 DEF Table!Enter, Entries
  <2>3. CASE Walk
    <3>1. CASE root = NoNode
      BY <2>3, <3>1 DEF Walk, Entries, FindNode, Towards
    <3>2. CASE root # NoNode
      <4>1. PICK m, deep, range : Tree(node, root, m, deep, range)
        BY <1>2 DEF BookInv
      <4>2. printed' = WalkOf(node, root) /\ node' = node
        BY <2>3, <3>2, InOrderIs DEF Walk
      <4>3. Lists(printed', DOMAIN node)
        BY <4>1, <4>2, WalkOfIs
      <4>4. DOMAIN node \in SUBSET Nat /\ IsFiniteSet(DOMAIN node)
        BY <4>1, PhoneBookAssumption DEF Tree
      <4>5. printed' \in [1 .. Cardinality(DOMAIN node) -> DOMAIN node]
        BY <4>3, <4>4, ListIsWhole
      <4>6. \A i, j \in DOMAIN printed' : i < j => printed'[i] < printed'[j]
        <5>1. printed' \in Seq(DOMAIN node)
          BY <4>3 DEF Lists
        <5>2. DOMAIN printed' = 1 .. Len(printed')
          BY <5>1
        <5> QED
          BY <4>3, <5>2 DEF Lists
      <4>7. DOMAIN NamesIn(node) = DOMAIN node /\ Entries' = Entries
        BY <2>1, <4>2 DEF NamesIn
      <4>8. Table!ShowAll
        <5>1. DOMAIN Entries = DOMAIN node
          BY <2>1, <4>7
        <5>2. /\ printed' \in [1 .. Cardinality(DOMAIN Entries) -> DOMAIN Entries]
              /\ \A i, j \in DOMAIN printed' : i < j => printed'[i] < printed'[j]
              /\ Entries' = Entries
          BY <4>5, <4>6, <4>7, <5>1
        <5> QED
          BY <5>2 DEF Table!ShowAll, Table!Cardinality, Cardinality, Entries
      <4> QED
        BY <4>8 DEF Table!Next
    <3> QED
      BY <3>1, <3>2
  <2>4. CASE FreeTree
    <3>1. Entries' = [p \in {} |-> 0] /\ printed' = printed
      BY <2>1, <2>4 DEF FreeTree, NamesIn
    <3> QED
      BY <3>1 DEF Table!Clear, Table!Next, Entries
  <2>5. CASE UNCHANGED bookVars
    <3>1. Entries' = Entries /\ printed' = printed
      BY <2>1, <2>5 DEF bookVars
    <3> QED
      BY <3>1
  <2> QED
    BY <1>2, <2>2, <2>3, <2>4, <2>5 DEF BookNext, Table!Next
<1> QED
  BY <1>1, <1>2, BookInvariant, PTL
     DEF BookSpec, ImplementsTable, Table!Spec, Entries
-----------------------------------------------------------------------------
(* The binary heap, and the priority queue it is.                          *)

\* The first n elements of e are a heap: no element is larger than the one
\* above it.
HeapUpTo(e, n) == \A c \in 1 .. n - 1 : e[c] <= e[Parent(c)]

MaxHeapInv ==
    /\ elements \in [Index -> Int] /\ size \in 0 .. Places
    /\ \A i \in 0 .. size - 1 : elements[i] \in Key
    /\ HeapUpTo(elements, size)

\* The places of k among the first n elements of e, and how many there are.
PlacesOf(e, n, k) == {i \in 0 .. n - 1 : e[i] = k}
TimesIn(e, n, k) == Cardinality(PlacesOf(e, n, k))

\* An element is one of the two below its parent.
LEMMA ParentIs ==
    ASSUME NEW c \in Nat, c > 0
    PROVE  /\ Parent(c) \in Nat /\ Parent(c) < c
           /\ c = 2 * Parent(c) + 1 \/ c = 2 * Parent(c) + 2
BY DEF Parent

LEMMA ParentOf ==
    ASSUME NEW j \in Nat
    PROVE  Parent(2 * j + 1) = j /\ Parent(2 * j + 2) = j
BY DEF Parent

\* The root is the largest element.
LEMMA RootIsLargest ==
    ASSUME NEW e \in [Index -> Int], NEW n \in 1 .. Places, HeapUpTo(e, n)
    PROVE  \A i \in 0 .. n - 1 : e[i] <= e[0]
<1>1. Places \in Nat /\ n \in Nat /\ \A i \in 0 .. n - 1 : i \in Index /\ e[i] \in Int
  BY MaxHeapAssumption DEF Index
<1>2. PICK S : S = {m \in 0 .. n : \A i \in 0 .. n - 1 : i < m => e[i] <= e[0]}
  OBVIOUS
<1>3. 0 \in S
  BY <1>1, <1>2
<1>4. ASSUME NEW m \in 0 .. n - 1, m \in S PROVE m + 1 \in S
  <2>1. ASSUME NEW i \in 0 .. n - 1, i < m + 1 PROVE e[i] <= e[0]
    <3>1. CASE i = 0
      BY <1>1, <3>1
    <3>2. CASE i > 0
      <4>1. Parent(i) \in Nat /\ Parent(i) < i
        BY <3>2, ParentIs
      <4>2. Parent(i) \in 0 .. n - 1 /\ Parent(i) < m /\ i \in 1 .. n - 1
        BY <1>1, <2>1, <3>2, <4>1
      <4>3. e[Parent(i)] <= e[0]
        BY <1>2, <1>4, <4>2
      <4>4. e[i] <= e[Parent(i)]
        BY <4>2 DEF HeapUpTo
      <4>5. e[i] \in Int /\ e[Parent(i)] \in Int /\ e[0] \in Int
        BY <1>1, <4>2
      <4> QED
        BY <4>3, <4>4, <4>5
    <3> QED
      BY <3>1, <3>2
  <2>2. m + 1 \in 0 .. n
    BY <1>1
  <2> QED
    BY <1>2, <2>1, <2>2
<1>5. n \in S
  <2>1. n \in 0 .. n
    BY <1>1
  <2> QED
    BY <1>1, <1>3, <1>4, <2>1, AllUpTo
<1> QED
  BY <1>1, <1>2, <1>5

\* Two arrays hold k equally often if the places of k in the one are those
\* in the other, moved by f.
LEMMA SameTimes ==
    ASSUME NEW a, NEW b, NEW n \in Nat, NEW m \in Nat, NEW k, NEW f,
           f \in Bijection(PlacesOf(a, n, k), PlacesOf(b, m, k))
    PROVE  TimesIn(a, n, k) = TimesIn(b, m, k)
<1>1. IsFiniteSet(PlacesOf(a, n, k))
  <2>1. IsFiniteSet(0 .. n - 1) /\ PlacesOf(a, n, k) \subseteq 0 .. n - 1
    BY FS_Interval DEF PlacesOf
  <2> QED
    BY <2>1, FS_Subset
<1>2. ExistsBijection(PlacesOf(a, n, k), PlacesOf(b, m, k))
  BY DEF ExistsBijection
<1> QED
  BY <1>1, <1>2, FS_Bijection DEF TimesIn

\* Exchanging two of the first n elements changes nothing of that.
LEMMA SwapIs ==
    ASSUME NEW e \in [Index -> Int], NEW n \in 0 .. Places, NEW i \in 0 .. n - 1, NEW j \in 0 .. n - 1,
           i # j, NEW h, h = Swapped(e, i, j)
    PROVE  /\ h \in [Index -> Int] /\ h[i] = e[j] /\ h[j] = e[i]
           /\ \A x \in Index : x \notin {i, j} => h[x] = e[x]
           /\ \A k : TimesIn(h, n, k) = TimesIn(e, n, k)
<1>1. Places \in Nat /\ n \in Nat /\ \A x \in 0 .. n - 1 : x \in Index
  BY MaxHeapAssumption DEF Index
<1>2. /\ h \in [Index -> Int] /\ h[i] = e[j] /\ h[j] = e[i]
      /\ \A x \in Index : x \notin {i, j} => h[x] = e[x]
  BY <1>1 DEF Swapped
<1>3. ASSUME NEW k PROVE TimesIn(h, n, k) = TimesIn(e, n, k)
  <2>1. PICK f : f = [x \in PlacesOf(h, n, k) |-> IF x = i THEN j ELSE IF x = j THEN i ELSE x]
    OBVIOUS
  <2>2. \A x \in PlacesOf(h, n, k) : f[x] = IF x = i THEN j ELSE IF x = j THEN i ELSE x
    BY <2>1
  <2>3. ASSUME NEW x \in PlacesOf(h, n, k) PROVE f[x] \in PlacesOf(e, n, k)
    BY <1>1, <1>2, <2>2 DEF PlacesOf
  <2>4. f \in [PlacesOf(h, n, k) -> PlacesOf(e, n, k)]
    BY <2>1, <2>3
  <2>5. \A x \in PlacesOf(h, n, k), y \in PlacesOf(h, n, k) : f[x] = f[y] => x = y
    BY <2>2
  <2>6. ASSUME NEW y \in PlacesOf(e, n, k) PROVE \E x \in PlacesOf(h, n, k) : f[x] = y
    <3>1. PICK x : x = IF y = i THEN j ELSE IF y = j THEN i ELSE y
      OBVIOUS
    <3>2. x \in PlacesOf(h, n, k)
      BY <1>1, <1>2, <3>1 DEF PlacesOf
    <3> QED
      BY <2>2, <3>1, <3>2
  <2>7. f \in Bijection(PlacesOf(h, n, k), PlacesOf(e, n, k))
    BY <2>4, <2>5, <2>6 DEF Bijection, Injection, IsInjective, Surjection
  <2> QED
    BY <1>1, <2>7, SameTimes
<1> QED
  BY <1>2, <1>3
-----------------------------------------------------------------------------
(* heapify                                                                 *)

\* The first n elements are a heap but for the one at j, which may be smaller
\* than those below it.
HeapBut(e, n, j) ==
    /\ \A c \in 1 .. n - 1 : Parent(c) # j => e[c] <= e[Parent(c)]
    /\ \A c \in 1 .. n - 1 : Parent(c) = j /\ j > 0 => e[c] <= e[Parent(j)]

\* What LargestOf says of an element and its children.
LEMMA LargestIs ==
    ASSUME NEW e \in [Index -> Int], NEW n \in 0 .. Places, NEW j \in Index, NEW l, l = LargestOf(e, n, j)
    PROVE  /\ l = j \/ (l \in 1 .. n - 1 /\ l > j /\ Parent(l) = j /\ e[l] > e[j])
           /\ \A c \in 1 .. n - 1 : Parent(c) = j => e[c] <= e[l]
           /\ l \in Index
<1>1. Places \in Nat /\ n \in Nat /\ j \in Nat /\ j < Places /\ e[j] \in Int
      /\ \A x \in 0 .. n - 1 : x \in Index /\ e[x] \in Int
  BY MaxHeapAssumption DEF Index
<1>2. PICK a \in Nat : a = 2 * j + 1 /\ Parent(a) = j /\ a > j
  BY <1>1, ParentOf
<1>3. PICK b \in Nat : b = 2 * j + 2 /\ Parent(b) = j /\ b > j
  BY <1>1, ParentOf
<1>4. PICK g : g = IF a < n /\ e[a] > e[j] THEN a ELSE j
  OBVIOUS
<1>5. l = IF b < n /\ e[b] > e[g] THEN b ELSE g
  BY <1>2, <1>3, <1>4 DEF LargestOf
<1>6. /\ a < n => a \in 1 .. n - 1 /\ a \in Index /\ e[a] \in Int
      /\ b < n => b \in 1 .. n - 1 /\ b \in Index /\ e[b] \in Int
  BY <1>1, <1>2, <1>3
<1>7. /\ g = j \/ (g \in 1 .. n - 1 /\ g > j /\ Parent(g) = j /\ e[g] > e[j])
      /\ a < n => e[a] <= e[g]
      /\ e[j] <= e[g] /\ g \in Index /\ e[g] \in Int
  BY <1>1, <1>2, <1>4, <1>6
<1>8. /\ l = j \/ (l \in 1 .. n - 1 /\ l > j /\ Parent(l) = j /\ e[l] > e[j])
      /\ a < n => e[a] <= e[l]
      /\ b < n => e[b] <= e[l]
      /\ l \in Index
  BY <1>1, <1>3, <1>5, <1>6, <1>7
<1>9. ASSUME NEW c \in 1 .. n - 1, Parent(c) = j PROVE e[c] <= e[l]
  <2>1. c \in Nat /\ c > 0 /\ c < n
    BY <1>1
  <2>2. c = a \/ c = b
    BY <1>2, <1>3, <1>9, <2>1, ParentIs
  <2> QED
    BY <1>8, <2>1, <2>2
<1> QED
  BY <1>8, <1>9

\* If no element below j is larger than j's, the heap has no exception.
LEMMA SunkIsHeap ==
    ASSUME NEW e \in [Index -> Int], NEW n \in 0 .. Places, NEW j \in Index, HeapBut(e, n, j),
           LargestOf(e, n, j) = j
    PROVE  HeapUpTo(e, n)
<1>1. ASSUME NEW c \in 1 .. n - 1 PROVE e[c] <= e[Parent(c)]
  <2>1. CASE Parent(c) = j
    BY <2>1, LargestIs
  <2>2. CASE Parent(c) # j
    BY <2>2 DEF HeapBut
  <2> QED
    BY <2>1, <2>2
<1> QED
  BY <1>1 DEF HeapUpTo

\* Otherwise the exchange moves the exception one level down.
LEMMA SinkKeeps ==
    ASSUME NEW e \in [Index -> Int], NEW n \in 0 .. Places, NEW j \in Index, HeapBut(e, n, j),
           NEW l, l = LargestOf(e, n, j), l # j, NEW h, h = Swapped(e, j, l)
    PROVE  /\ HeapBut(h, n, l) /\ h \in [Index -> Int]
           /\ \A k : TimesIn(h, n, k) = TimesIn(e, n, k)
<1>1. /\ l \in 1 .. n - 1 /\ l > j /\ Parent(l) = j /\ e[l] > e[j] /\ l \in Index
      /\ \A c \in 1 .. n - 1 : Parent(c) = j => e[c] <= e[l]
  BY LargestIs
<1>2. Places \in Nat /\ n \in Nat /\ j \in Nat /\ j \in 0 .. n - 1 /\ l \in 0 .. n - 1 /\ l \in Nat
      /\ \A x \in 0 .. n - 1 : x \in Index /\ e[x] \in Int
  BY <1>1, MaxHeapAssumption DEF Index
<1>3. /\ h \in [Index -> Int] /\ h[j] = e[l] /\ h[l] = e[j]
      /\ \A x \in Index : x \notin {j, l} => h[x] = e[x]
      /\ \A k : TimesIn(h, n, k) = TimesIn(e, n, k)
  BY <1>1, <1>2, SwapIs
<1>4. ASSUME NEW c \in 1 .. n - 1, Parent(c) # l PROVE h[c] <= h[Parent(c)]
  <2>1. PICK q \in Nat : q = Parent(c) /\ q < c
    BY <1>2, ParentIs
  <2>2. q \in Index /\ c \in Index /\ q # l /\ e[c] \in Int /\ e[q] \in Int
    BY <1>2, <1>4, <2>1
  <2>3. CASE q = j /\ c = l
    BY <1>1, <1>2, <1>3, <2>1, <2>3
  <2>4. CASE q = j /\ c # l
    <3>1. h[c] = e[c] /\ h[q] = e[l]
      BY <1>3, <2>1, <2>2, <2>4
    <3> QED
      BY <1>1, <2>1, <2>4, <3>1
  <2>5. CASE q # j /\ c = j
    <3>1. h[c] = e[l] /\ h[q] = e[q]
      BY <1>3, <2>1, <2>2, <2>5
    <3>2. j > 0
      BY <1>2, <2>5
    <3>3. e[l] <= e[Parent(j)]
      BY <1>1, <3>2 DEF HeapBut
    <3> QED
      BY <2>1, <2>5, <3>1, <3>3
  <2>6. CASE q # j /\ c # j
    <3>1. c # l
      BY <1>1, <2>1, <2>6
    <3>2. h[c] = e[c] /\ h[q] = e[q]
      BY <1>3, <2>2, <2>6, <3>1
    <3>3. e[c] <= e[q]
      BY <2>1, <2>6 DEF HeapBut
    <3> QED
      BY <2>1, <3>2, <3>3
  <2> QED
    BY <2>3, <2>4, <2>5, <2>6
<1>5. ASSUME NEW c \in 1 .. n - 1, Parent(c) = l, l > 0 PROVE h[c] <= h[Parent(l)]
  <2>1. l < c
    BY <1>2, <1>5, ParentIs
  <2>2. c \notin {j, l} /\ c \in Index
    BY <1>1, <1>2, <2>1
  <2>3. h[c] = e[c] /\ h[Parent(l)] = e[l]
    BY <1>1, <1>3, <2>2
  <2>4. e[c] <= e[l]
    BY <1>1, <1>5 DEF HeapBut
  <2> QED
    BY <2>3, <2>4
<1> QED
  BY <1>3, <1>4, <1>5 DEF HeapBut

Sinks(s, n) ==
    s = [c \in [Index -> Int] \X Index |->
           LET l == LargestOf(c[1], n, c[2])
           IN IF l = c[2] THEN c[1] ELSE s[<<Swapped(c[1], c[2], l), l>>]]

LEMMA SinksExist ==
    ASSUME NEW n \in 0 .. Places
    PROVE  \E s : Sinks(s, n)
<1>1. PICK V : V = [Index -> Int]
  OBVIOUS
<1>2. PICK D : D = V \X Index
  OBVIOUS
<1>3. PICK start : start = [c \in D |-> c[1]]
  OBVIOUS
<1>4. start \in [D -> V]
  BY <1>2, <1>3
<1>5. PICK on : on = [c \in D |-> <<Swapped(c[1], c[2], LargestOf(c[1], n, c[2])), LargestOf(c[1], n, c[2])>>]
  OBVIOUS
<1>6. PICK weight : weight = [c \in D |-> Places - c[2]]
  OBVIOUS
<1>7. Places \in Nat
  BY MaxHeapAssumption
<1>8. weight \in [D -> 0 .. Places]
  BY <1>2, <1>6, <1>7 DEF Index
<1>9. ASSUME NEW c \in D, LargestOf(c[1], n, c[2]) # c[2]
      PROVE  on[c] \in D /\ weight[on[c]] < weight[c]
  <2>1. PICK e \in V, j \in Index : c = <<e, j>>
    BY <1>2
  <2>2. PICK l : l = LargestOf(e, n, j)
    OBVIOUS
  <2>3. l \in Index /\ l > j
    BY <1>1, <1>9, <2>1, <2>2, LargestIs
  <2>4. Swapped(e, j, l) \in V
    BY <1>1, <2>3 DEF Swapped
  <2>5. on[c] = <<Swapped(e, j, l), l>>
    BY <1>5, <2>1, <2>2
  <2>6. on[c] \in D
    BY <1>2, <2>3, <2>4, <2>5
  <2>7. weight[on[c]] = Places - l /\ weight[c] = Places - j
    BY <1>6, <2>1, <2>5, <2>6
  <2>8. l \in Int /\ j \in Int
    BY <1>7, <2>3 DEF Index
  <2> QED
    BY <1>7, <2>3, <2>6, <2>7, <2>8
<1>10. PICK rule : rule = [s \in [D -> V] |->
                  [c \in D |-> IF LargestOf(c[1], n, c[2]) = c[2] THEN c[1] ELSE s[on[c]]]]
  OBVIOUS
<1>11. rule \in [[D -> V] -> [D -> V]]
  <2>1. ASSUME NEW s \in [D -> V]
        PROVE  [c \in D |-> IF LargestOf(c[1], n, c[2]) = c[2] THEN c[1] ELSE s[on[c]]] \in [D -> V]
    BY <1>2, <1>9
  <2> QED
    BY <1>10, <2>1
<1>12. ASSUME NEW s \in [D -> V], NEW t \in [D -> V], NEW c \in D,
              \A d \in D : weight[d] < weight[c] => s[d] = t[d]
       PROVE  rule[s][c] = rule[t][c]
  <2>1. LargestOf(c[1], n, c[2]) # c[2] => s[on[c]] = t[on[c]]
    BY <1>9, <1>12
  <2> QED
    BY <1>10, <2>1
<1>13. Recursive(D, V, start, rule, Places, weight)
  BY <1>4, <1>7, <1>8, <1>11, <1>12, Zenon DEF Recursive
<1>14. PICK s \in [D -> V] : s = rule[s]
  BY <1>13, RecursionExists
<1>15. s = [c \in D |-> IF LargestOf(c[1], n, c[2]) = c[2] THEN c[1] ELSE s[on[c]]]
  BY <1>10, <1>14
<1>16. s = [c \in D |-> IF LargestOf(c[1], n, c[2]) = c[2] THEN c[1]
               ELSE s[<<Swapped(c[1], c[2], LargestOf(c[1], n, c[2])), LargestOf(c[1], n, c[2])>>]]
  BY <1>5, <1>15
<1> QED
  BY <1>1, <1>2, <1>16 DEF Sinks

SinkAt(s, e, j) == s[<<e, j>>]

\* What sinks on from j ends in a heap.
LEMMA SinkEnds ==
    ASSUME NEW n \in 0 .. Places, NEW s, Sinks(s, n), NEW e \in [Index -> Int], NEW j \in Index,
           HeapBut(e, n, j), NEW g, g = SinkAt(s, e, j)
    PROVE  /\ g \in [Index -> Int] /\ HeapUpTo(g, n)
           /\ \A k : TimesIn(g, n, k) = TimesIn(e, n, k)
<1> DEFINE Right(a, i) == /\ s[<<a, i>>] \in [Index -> Int] /\ HeapUpTo(s[<<a, i>>], n)
                          /\ \A k : TimesIn(s[<<a, i>>], n, k) = TimesIn(a, n, k)
<1>1. Places \in Nat /\ \A i \in Index : i \in Nat /\ i < Places
  BY MaxHeapAssumption DEF Index
<1>2. \A a \in [Index -> Int], i \in Index :
          s[<<a, i>>] = IF LargestOf(a, n, i) = i THEN a
                        ELSE s[<<Swapped(a, i, LargestOf(a, n, i)), LargestOf(a, n, i)>>]
  BY DEF Sinks
<1>3. PICK S : S = {m \in 0 .. Places : \A a \in [Index -> Int], i \in Index :
                       Places - i <= m /\ HeapBut(a, n, i) => Right(a, i)}
  OBVIOUS
<1>4. 0 \in S
  <2>1. 0 \in 0 .. Places /\ \A i \in Index : ~(Places - i <= 0)
    BY <1>1
  <2> QED
    BY <1>3, <2>1
<1>5. ASSUME NEW m \in 0 .. Places - 1, m \in S PROVE m + 1 \in S
  <2>1. ASSUME NEW a \in [Index -> Int], NEW i \in Index, Places - i <= m + 1, HeapBut(a, n, i)
        PROVE  Right(a, i)
    <3>1. PICK l : l = LargestOf(a, n, i)
      OBVIOUS
    <3>2. CASE l = i
      <4>1. s[<<a, i>>] = a
        BY <1>2, <3>1, <3>2
      <4>2. HeapUpTo(a, n)
        BY <2>1, <3>1, <3>2, SunkIsHeap
      <4> QED
        BY <4>1, <4>2
    <3>3. CASE l # i
      <4>1. PICK h : h = Swapped(a, i, l)
        OBVIOUS
      <4>2. /\ HeapBut(h, n, l) /\ h \in [Index -> Int]
            /\ \A k : TimesIn(h, n, k) = TimesIn(a, n, k)
        BY <2>1, <3>1, <3>3, <4>1, SinkKeeps
      <4>3. l \in Index /\ l > i
        BY <3>1, <3>3, LargestIs
      <4>4. Places - l <= m
        BY <1>1, <2>1, <4>3
      <4>5. Right(h, l)
        BY <1>3, <1>5, <4>2, <4>3, <4>4
      <4>6. s[<<a, i>>] = s[<<h, l>>]
        BY <1>2, <3>1, <3>3, <4>1
      <4> QED
        BY <4>2, <4>5, <4>6
    <3> QED
      BY <3>2, <3>3
  <2>2. m + 1 \in 0 .. Places
    BY <1>1
  <2> HIDE DEF Right
  <2> QED
    BY <1>3, <2>1, <2>2
<1>6. Places \in S
  <2>1. Places \in 0 .. Places
    BY <1>1
  <2> QED
    BY <1>1, <1>4, <1>5, <2>1, AllUpTo
<1>7. Places - j <= Places
  BY <1>1
<1>8. Right(e, j)
  BY <1>3, <1>6, <1>7
<1> QED
  BY <1>8 DEF SinkAt

SunkFrom(e, n, j) == (CHOOSE s : Sinks(s, n))[<<e, j>>]

LEMMA HeapifySinks ==
    ASSUME NEW e, NEW n, NEW j
    PROVE  Heapify(e, n, j) = SunkFrom(e, n, j)
BY DEF Heapify, SunkFrom, Sinks

LEMMA HeapifyIs ==
    ASSUME NEW n \in 0 .. Places, NEW e \in [Index -> Int], NEW j \in Index, HeapBut(e, n, j),
           NEW g, g = Heapify(e, n, j)
    PROVE  /\ g \in [Index -> Int] /\ HeapUpTo(g, n)
           /\ \A k : TimesIn(g, n, k) = TimesIn(e, n, k)
<1>1. \E s : Sinks(s, n)
  BY SinksExist
<1>2. PICK s : s = (CHOOSE t : Sinks(t, n)) /\ Sinks(s, n)
  BY <1>1
<1>3. g = SunkFrom(e, n, j)
  BY HeapifySinks
<1>4. g = s[<<e, j>>]
  BY <1>2, <1>3 DEF SunkFrom
<1>5. g = SinkAt(s, e, j)
  BY <1>4 DEF SinkAt
<1> QED
  BY <1>2, <1>5, SinkEnds

\* Whether k is among the first n elements.
LEMMA TimesIsCount ==
    ASSUME NEW e, NEW n \in Nat, NEW k
    PROVE  /\ IsFiniteSet(PlacesOf(e, n, k)) /\ TimesIn(e, n, k) \in Nat
           /\ TimesIn(e, n, k) > 0 <=> \E i \in 0 .. n - 1 : e[i] = k
<1>1. IsFiniteSet(PlacesOf(e, n, k))
  <2>1. IsFiniteSet(0 .. n - 1) /\ PlacesOf(e, n, k) \subseteq 0 .. n - 1
    BY FS_Interval DEF PlacesOf
  <2> QED
    BY <2>1, FS_Subset
<1>2. TimesIn(e, n, k) \in Nat
  BY <1>1, FS_CardinalityType DEF TimesIn
<1>3. TimesIn(e, n, k) = 0 <=> PlacesOf(e, n, k) = {}
  BY <1>1, FS_EmptySet DEF TimesIn
<1>4. PlacesOf(e, n, k) = {} <=> ~\E i \in 0 .. n - 1 : e[i] = k
  BY DEF PlacesOf
<1> QED
  BY <1>1, <1>2, <1>3, <1>4

\* The last of n elements takes the place of the first.
Topped(e, n) == [e EXCEPT ![0] = e[n - 1]]

\* heap_extract_max takes the element on top away and no other.
LEMMA TopTaken ==
    ASSUME NEW e \in [Index -> Int], NEW n \in 1 .. Places, NEW f, f = Topped(e, n), NEW k
    PROVE  TimesIn(e, n, k) = TimesIn(f, n - 1, k) + IF k = e[0] THEN 1 ELSE 0
<1>1. Places \in Nat /\ n \in Nat /\ n - 1 \in Nat /\ (n - 1) - 1 = n - 2 /\ 0 \in 0 .. n - 1
      /\ \A x \in 0 .. n - 1 : x \in Index
  BY MaxHeapAssumption DEF Index
<1>2. \A x \in 0 .. n - 1 : f[x] = IF x = 0 THEN e[n - 1] ELSE e[x]
  BY <1>1 DEF Topped
<1>3. PICK P : P = PlacesOf(e, n, k) \ {0}
  OBVIOUS
<1>4. IsFiniteSet(PlacesOf(e, n, k)) /\ TimesIn(e, n, k) \in Nat
  BY <1>1, TimesIsCount
<1>5. TimesIn(e, n, k) = Cardinality(P) + IF k = e[0] THEN 1 ELSE 0
  <2>1. 0 \in PlacesOf(e, n, k) <=> k = e[0]
    BY <1>1 DEF PlacesOf
  <2>2. /\ IsFiniteSet(P)
        /\ Cardinality(P) = IF 0 \in PlacesOf(e, n, k) THEN TimesIn(e, n, k) - 1 ELSE TimesIn(e, n, k)
    BY <1>3, <1>4, FS_RemoveElement DEF TimesIn
  <2> QED
    BY <1>4, <2>1, <2>2
<1>6. PICK d : d = [x \in PlacesOf(f, n - 1, k) |-> IF x = 0 THEN n - 1 ELSE x]
  OBVIOUS
<1>7. \A x \in PlacesOf(f, n - 1, k) : /\ d[x] = IF x = 0 THEN n - 1 ELSE x
                                       /\ x \in 0 .. n - 2 /\ f[x] = k /\ x \in 0 .. n - 1
  BY <1>1, <1>6 DEF PlacesOf
<1>8. ASSUME NEW x \in PlacesOf(f, n - 1, k) PROVE d[x] \in P
  <2>1. d[x] \in 0 .. n - 1 /\ d[x] # 0
    <3>1. CASE x = 0
      <4>1. d[x] = n - 1 /\ 0 \in 0 .. n - 2
        BY <1>7, <3>1
      <4> QED
        BY <1>1, <4>1
    <3>2. CASE x # 0
      <4>1. d[x] = x /\ x \in 0 .. n - 1
        BY <1>7, <3>2
      <4> QED
        BY <3>2, <4>1
    <3> QED
      BY <3>1, <3>2
  <2>2. e[d[x]] = k
    BY <1>2, <1>7
  <2> QED
    BY <1>3, <2>1, <2>2 DEF PlacesOf
<1>9. d \in [PlacesOf(f, n - 1, k) -> P]
  BY <1>6, <1>8
<1>10. ASSUME NEW x \in PlacesOf(f, n - 1, k), NEW y \in PlacesOf(f, n - 1, k), d[x] = d[y] PROVE x = y
  <2>3. x \in 0 .. n - 2 /\ y \in 0 .. n - 2
    BY <1>7
  <2>1. x # n - 1 /\ y # n - 1
    BY <1>1, <2>3
  <2>2. d[x] = (IF x = 0 THEN n - 1 ELSE x) /\ d[y] = (IF y = 0 THEN n - 1 ELSE y)
    BY <1>7
  <2> QED
    BY <1>10, <2>1, <2>2
<1>11. ASSUME NEW y \in P PROVE \E x \in PlacesOf(f, n - 1, k) : d[x] = y
  <2>1. y \in 0 .. n - 1 /\ y # 0 /\ e[y] = k
    BY <1>3 DEF PlacesOf
  <2>2. PICK x : x = IF y = n - 1 THEN 0 ELSE y
    OBVIOUS
  <2>3. x \in 0 .. n - 2 /\ x \in 0 .. n - 1
    BY <1>1, <2>1, <2>2
  <2>4. f[x] = k
    BY <1>2, <2>1, <2>2, <2>3
  <2>5. x \in PlacesOf(f, n - 1, k)
    BY <1>1, <2>3, <2>4 DEF PlacesOf
  <2>6. d[x] = y
    BY <1>1, <1>7, <2>1, <2>2, <2>5
  <2> QED
    BY <2>5, <2>6
<1>12. d \in Bijection(PlacesOf(f, n - 1, k), P)
  BY <1>9, <1>10, <1>11 DEF Bijection, Injection, IsInjective, Surjection
<1>13. IsFiniteSet(PlacesOf(f, n - 1, k))
  BY <1>1, TimesIsCount
<1>14. Cardinality(P) = TimesIn(f, n - 1, k)
  BY <1>12, <1>13, FS_Bijection DEF ExistsBijection, TimesIn
<1> QED
  BY <1>5, <1>14
-----------------------------------------------------------------------------
(* heap_insert                                                             *)

\* A is the way from j up to the root.
PathTo(A, j) ==
    /\ A \in SUBSET (0 .. j) /\ j \in A
    /\ \A a \in A : a > 0 => Parent(a) \in A
    /\ \A a \in A : a < j => \E b \in A : b > 0 /\ Parent(b) = a
    /\ \A a \in A, b \in A : a > 0 /\ b > 0 /\ Parent(a) = Parent(b) => a = b
    /\ \A a \in A, b \in A : a > b => Parent(a) >= b

LEMMA PathStarts == PathTo({0}, 0)
BY DEF PathTo

LEMMA PathGrows ==
    ASSUME NEW j \in Nat, j > 0, NEW B, PathTo(B, Parent(j)), NEW A, A = {j} \cup B
    PROVE  PathTo(A, j)
<1>1. PICK q \in Nat : q = Parent(j) /\ q < j
  BY ParentIs
<1>2. /\ B \in SUBSET (0 .. q) /\ q \in B
      /\ \A a \in B : a > 0 => Parent(a) \in B
      /\ \A a \in B : a < q => \E b \in B : b > 0 /\ Parent(b) = a
      /\ \A a \in B, b \in B : a > 0 /\ b > 0 /\ Parent(a) = Parent(b) => a = b
      /\ \A a \in B, b \in B : a > b => Parent(a) >= b
  BY <1>1 DEF PathTo
<1>3. \A a \in B : a \in Nat /\ a <= q /\ a < j
  BY <1>1, <1>2
<1>4. \A a \in B : a > 0 => Parent(a) \in Nat /\ Parent(a) < q
  <2>1. ASSUME NEW a \in B, a > 0 PROVE Parent(a) \in Nat /\ Parent(a) < q
    <3>1. a \in Nat /\ a <= q
      BY <1>3
    <3>2. Parent(a) \in Nat /\ Parent(a) < a
      BY <2>1, <3>1, ParentIs
    <3> QED
      BY <3>1, <3>2
  <2> QED
    BY <2>1
<1>5. A \in SUBSET (0 .. j) /\ j \in A
  BY <1>2, <1>3
<1>6. \A a \in A : a > 0 => Parent(a) \in A
  BY <1>1, <1>2
<1>7. ASSUME NEW a \in A, a < j PROVE \E b \in A : b > 0 /\ Parent(b) = a
  <2>1. a \in B
    BY <1>7
  <2>2. CASE a = q
    BY <1>1, <1>5, <2>2
  <2>3. CASE a # q
    <3>1. a < q
      BY <1>3, <2>1, <2>3
    <3> QED
      BY <1>2, <2>1, <3>1
  <2> QED
    BY <2>2, <2>3
<1>8. ASSUME NEW a \in A, NEW b \in A, a > 0, b > 0, Parent(a) = Parent(b) PROVE a = b
  <2>1. CASE a \in B /\ b \in B
    BY <1>2, <1>8, <2>1
  <2>2. CASE a = j /\ b \in B
    BY <1>1, <1>4, <1>8, <2>2
  <2>3. CASE a \in B /\ b = j
    BY <1>1, <1>4, <1>8, <2>3
  <2> QED
    BY <2>1, <2>2, <2>3
<1>9. ASSUME NEW a \in A, NEW b \in A, a > b PROVE Parent(a) >= b
  <2>1. CASE a \in B
    <3>1. b \in B
      BY <1>3, <1>9, <2>1
    <3> QED
      BY <1>2, <1>9, <2>1, <3>1
  <2>2. CASE a = j
    <3>1. b \in B
      BY <1>9, <2>2
    <3> QED
      BY <1>1, <1>3, <2>2, <3>1
  <2> QED
    BY <2>1, <2>2
<1> QED
  BY <1>5, <1>6, <1>7, <1>8, <1>9 DEF PathTo

\* On the way A of an array the key's place is t.
TopOn(A, e, key, t) ==
    /\ t \in A
    /\ \A a \in A : a > t => e[Parent(a)] < key
    /\ t > 0 => ~(e[Parent(t)] < key)

Ups(up) == up = [j \in Index |-> IF j = 0 THEN {0} ELSE {j} \cup up[Parent(j)]]
Rises(at, e, key) == at = [j \in Index |-> IF j > 0 /\ e[Parent(j)] < key THEN at[Parent(j)] ELSE j]

LEMMA UpsExist == \E up : Ups(up)
<1>1. PICK V : V = SUBSET Index
  OBVIOUS
<1>2. Places \in Nat /\ 0 \in Index /\ \A j \in Index : j \in Nat /\ j < Places
  BY MaxHeapAssumption DEF Index
<1>3. \A j \in Index : j # 0 => Parent(j) \in Index /\ Parent(j) < j
  <2>1. ASSUME NEW j \in Index, j # 0 PROVE Parent(j) \in Index /\ Parent(j) < j
    <3>1. Parent(j) \in Nat /\ Parent(j) < j
      BY <1>2, <2>1, ParentIs
    <3> QED
      BY <1>2, <3>1 DEF Index
  <2> QED
    BY <2>1
<1>4. PICK start : start = [j \in Index |-> {}]
  OBVIOUS
<1>5. start \in [Index -> V]
  BY <1>1, <1>4
<1>6. PICK rule : rule = [s \in [Index -> V] |->
                            [j \in Index |-> IF j = 0 THEN {0} ELSE {j} \cup s[Parent(j)]]]
  OBVIOUS
<1>7. rule \in [[Index -> V] -> [Index -> V]]
  <2>1. ASSUME NEW s \in [Index -> V]
        PROVE  [j \in Index |-> IF j = 0 THEN {0} ELSE {j} \cup s[Parent(j)]] \in [Index -> V]
    BY <1>1, <1>2, <1>3
  <2> QED
    BY <1>6, <2>1
<1>8. PICK own : own = [j \in Index |-> j]
  OBVIOUS
<1>9. own \in [Index -> 0 .. Places]
  BY <1>2, <1>8
<1>10. ASSUME NEW s \in [Index -> V], NEW t \in [Index -> V], NEW c \in Index,
              \A d \in Index : own[d] < own[c] => s[d] = t[d]
       PROVE  rule[s][c] = rule[t][c]
  <2>1. c # 0 => s[Parent(c)] = t[Parent(c)]
    BY <1>3, <1>8, <1>10
  <2> QED
    BY <1>6, <2>1
<1>11. Recursive(Index, V, start, rule, Places, own)
  BY <1>2, <1>5, <1>7, <1>9, <1>10, Zenon DEF Recursive
<1>12. PICK s \in [Index -> V] : s = rule[s]
  BY <1>11, RecursionExists
<1> QED
  BY <1>6, <1>12 DEF Ups

LEMMA RisesExist ==
    ASSUME NEW e, NEW key
    PROVE  \E at : Rises(at, e, key)
<1>2. Places \in Nat /\ \A j \in Index : j \in Nat /\ j < Places
  BY MaxHeapAssumption DEF Index
<1>3. \A j \in Index : j > 0 => Parent(j) \in Index /\ Parent(j) < j
  <2>1. ASSUME NEW j \in Index, j > 0 PROVE Parent(j) \in Index /\ Parent(j) < j
    <3>1. Parent(j) \in Nat /\ Parent(j) < j
      BY <1>2, <2>1, ParentIs
    <3> QED
      BY <1>2, <3>1 DEF Index
  <2> QED
    BY <2>1
<1>4. PICK start : start = [j \in Index |-> j]
  OBVIOUS
<1>5. start \in [Index -> Index]
  BY <1>4
<1>6. PICK rule : rule = [s \in [Index -> Index] |->
               [j \in Index |-> IF j > 0 /\ e[Parent(j)] < key THEN s[Parent(j)] ELSE j]]
  OBVIOUS
<1>7. rule \in [[Index -> Index] -> [Index -> Index]]
  <2>1. ASSUME NEW s \in [Index -> Index]
        PROVE  [j \in Index |-> IF j > 0 /\ e[Parent(j)] < key THEN s[Parent(j)] ELSE j]
                  \in [Index -> Index]
    BY <1>3
  <2> QED
    BY <1>6, <2>1
<1>9. start \in [Index -> 0 .. Places]
  BY <1>2, <1>4
<1>10. ASSUME NEW s \in [Index -> Index], NEW t \in [Index -> Index], NEW c \in Index,
              \A d \in Index : start[d] < start[c] => s[d] = t[d]
       PROVE  rule[s][c] = rule[t][c]
  <2>1. c > 0 => s[Parent(c)] = t[Parent(c)]
    BY <1>3, <1>4, <1>10
  <2> QED
    BY <1>6, <2>1
<1>11. Recursive(Index, Index, start, rule, Places, start)
  BY <1>2, <1>5, <1>7, <1>9, <1>10, Zenon DEF Recursive
<1>12. PICK s \in [Index -> Index] : s = rule[s]
  BY <1>11, RecursionExists
<1> QED
  BY <1>6, <1>12 DEF Rises

LEMMA WayUpIs ==
    ASSUME NEW up, Ups(up), NEW e, NEW key, NEW at, Rises(at, e, key)
    PROVE  \A j \in Index : PathTo(up[j], j) /\ TopOn(up[j], e, key, at[j])
<1>1. Places \in Nat /\ \A j \in Index : j \in Nat /\ j < Places
  BY MaxHeapAssumption DEF Index
<1>2. PICK S : S = {m \in 0 .. Places : \A j \in Index : j < m =>
                      PathTo(up[j], j) /\ TopOn(up[j], e, key, at[j])}
  OBVIOUS
<1>3. 0 \in S
  <2>1. 0 \in 0 .. Places /\ \A j \in Index : ~(j < 0)
    BY <1>1
  <2> QED
    BY <1>2, <2>1
<1>4. ASSUME NEW m \in 0 .. Places - 1, m \in S PROVE m + 1 \in S
  <2>1. ASSUME NEW j \in Index, j < m + 1 PROVE PathTo(up[j], j) /\ TopOn(up[j], e, key, at[j])
    <3>1. CASE j = 0
      <4>1. up[j] = {0} /\ at[j] = 0
        BY <3>1 DEF Ups, Rises
      <4>2. TopOn({0}, e, key, 0)
        BY DEF TopOn
      <4> QED
        BY <3>1, <4>1, <4>2, PathStarts
    <3>2. CASE j # 0
      <4>1. j \in Nat /\ j > 0
        BY <1>1, <3>2
      <4>2. PICK q \in Nat : q = Parent(j) /\ q < j
        BY <4>1, ParentIs
      <4>3. q \in Index /\ q < m
        BY <1>1, <2>1, <4>1, <4>2 DEF Index
      <4>4. PathTo(up[q], q) /\ TopOn(up[q], e, key, at[q])
        BY <1>2, <1>4, <4>3
      <4>5. up[j] = {j} \cup up[q]
        BY <3>2, <4>2 DEF Ups
      <4>6. PathTo(up[j], j)
        BY <4>1, <4>2, <4>4, <4>5, PathGrows
      <4>7. TopOn(up[j], e, key, at[j])
        <5>1. CASE e[q] < key
          <6>1. at[j] = at[q]
            BY <4>1, <4>2, <5>1 DEF Rises
          <6> QED
            BY <4>2, <4>4, <4>5, <5>1, <6>1 DEF TopOn
        <5>2. CASE ~(e[q] < key)
          <6>1. at[j] = j
            BY <4>2, <5>2 DEF Rises
          <6>2. \A a \in up[j] : ~(a > j)
            <7>1. up[j] \in SUBSET (0 .. j)
              BY <4>6 DEF PathTo
            <7> QED
              BY <4>1, <7>1
          <6> QED
            BY <4>2, <4>5, <5>2, <6>1, <6>2 DEF TopOn
        <5> QED
          BY <5>1, <5>2
      <4> QED
        BY <4>6, <4>7
    <3> QED
      BY <3>1, <3>2
  <2>2. m + 1 \in 0 .. Places
    BY <1>1
  <2> QED
    BY <1>2, <2>1, <2>2
<1>5. Places \in S
  <2>1. Places \in 0 .. Places
    BY <1>1
  <2> QED
    BY <1>1, <1>3, <1>4, <2>1, AllUpTo
<1> QED
  BY <1>1, <1>2, <1>5

\* e, when the key has been put on its place t of the way A.
Raised(e, A, t, key) ==
    [i \in Index |-> IF i = t THEN key ELSE IF i \in A /\ i > t THEN e[Parent(i)] ELSE e[i]]

\* What an insertion knows of the heap and of the way.
CanRaise(e, n, A, t, key) ==
    /\ e \in [Index -> Int] /\ n \in Index /\ HeapUpTo(e, n) /\ key \in Int
    /\ PathTo(A, n) /\ TopOn(A, e, key, t)

\* The elements of the result are the key and those of e, each once.
LEMMA RaisedIs ==
    ASSUME NEW e, NEW n, NEW A, NEW t, NEW key, CanRaise(e, n, A, t, key),
           NEW g, g = Raised(e, A, t, key)
    PROVE  /\ n \in Nat /\ n < Places /\ t \in 0 .. n /\ t \in Index
           /\ \A x \in 0 .. n : x \in Index
           /\ g \in [Index -> Int] /\ g[t] = key
           /\ \A x \in A : x > t => /\ Parent(x) \in 0 .. n - 1 /\ Parent(x) \in A /\ Parent(x) >= t
                                    /\ Parent(x) < x /\ g[x] = e[Parent(x)] /\ e[Parent(x)] < key
           /\ \A x \in 0 .. n : x # t /\ ~(x \in A /\ x > t) => x \in 0 .. n - 1 /\ g[x] = e[x]
<1>1. Places \in Nat /\ n \in Nat /\ n < Places /\ \A x \in 0 .. n : x \in Index
  BY MaxHeapAssumption DEF CanRaise, Index
<1>2. A \in SUBSET (0 .. n) /\ n \in A /\ t \in A /\ t \in 0 .. n
  BY DEF CanRaise, PathTo, TopOn
<1>3. ASSUME NEW x \in A, x > t
      PROVE  /\ Parent(x) \in 0 .. n - 1 /\ Parent(x) \in A /\ Parent(x) >= t
             /\ Parent(x) < x /\ e[Parent(x)] < key
  <2>1. x \in Nat /\ x <= n /\ x > 0
    BY <1>1, <1>2, <1>3
  <2>2. Parent(x) \in Nat /\ Parent(x) < x
    BY <2>1, ParentIs
  <2>3. Parent(x) \in 0 .. n - 1
    BY <1>1, <2>1, <2>2
  <2> QED
    BY <1>2, <1>3, <2>1, <2>2, <2>3 DEF CanRaise, PathTo, TopOn
<1>4. \A x \in Index : g[x] = IF x = t THEN key ELSE IF x \in A /\ x > t THEN e[Parent(x)] ELSE e[x]
  BY DEF Raised
<1>5. g \in [Index -> Int]
  <2>1. ASSUME NEW x \in Index PROVE g[x] \in Int
    <3>1. \A y \in Index : e[y] \in Int
      BY DEF CanRaise
    <3>2. x \in A /\ x > t => Parent(x) \in Index
      BY <1>1, <1>3
    <3> QED
      BY <1>4, <3>1, <3>2 DEF CanRaise
  <2> QED
    BY <2>1 DEF Raised
<1>6. ASSUME NEW x \in 0 .. n, x # t, ~(x \in A /\ x > t) PROVE x \in 0 .. n - 1 /\ g[x] = e[x]
  <2>1. x # n
    BY <1>1, <1>2, <1>6
  <2> QED
    BY <1>1, <1>4, <1>6, <2>1
<1> QED
  BY <1>1, <1>2, <1>3, <1>4, <1>5, <1>6

LEMMA RaisedIsHeap ==
    ASSUME NEW e, NEW n, NEW A, NEW t, NEW key, CanRaise(e, n, A, t, key),
           NEW g, g = Raised(e, A, t, key)
    PROVE  HeapUpTo(g, n + 1)
<1>1. /\ n \in Nat /\ n < Places /\ t \in 0 .. n /\ t \in Index
      /\ \A x \in 0 .. n : x \in Index
      /\ g \in [Index -> Int] /\ g[t] = key
      /\ \A x \in A : x > t => /\ Parent(x) \in 0 .. n - 1 /\ Parent(x) \in A /\ Parent(x) >= t
                               /\ Parent(x) < x /\ g[x] = e[Parent(x)] /\ e[Parent(x)] < key
      /\ \A x \in 0 .. n : x # t /\ ~(x \in A /\ x > t) => x \in 0 .. n - 1 /\ g[x] = e[x]
  BY RaisedIs
<1>2. /\ e \in [Index -> Int] /\ key \in Int /\ A \in SUBSET (0 .. n) /\ n \in A /\ t \in A
      /\ \A c \in 1 .. n - 1 : e[c] <= e[Parent(c)]
  BY DEF CanRaise, PathTo, TopOn, HeapUpTo
<1>3. \A x \in 0 .. n : e[x] \in Int /\ g[x] \in Int
  BY <1>1, <1>2
<1>4. ASSUME NEW c \in 1 .. n PROVE g[c] <= g[Parent(c)]
  <2>1. PICK q \in Nat : q = Parent(c) /\ q < c
    BY <1>1, ParentIs
  <2>2. c \in Nat /\ c <= n /\ c \in 0 .. n /\ q \in 0 .. n /\ q \in 0 .. n - 1
    BY <1>1, <2>1
  \* What e has at q stands at q or was moved away for the key.
  <2>3. e[q] <= g[q]
    <3>1. CASE q = t
      <4>1. t < n
        BY <1>1, <2>2, <3>1
      <4>2. PICK b \in A : b > 0 /\ Parent(b) = t
        BY <1>2, <4>1 DEF CanRaise, PathTo
      <4>3. b \in Nat
        BY <1>1, <1>2
      <4>4. b > t
        BY <4>2, <4>3, ParentIs
      <4>5. e[t] < key
        BY <1>1, <4>2, <4>4
      <4> QED
        BY <1>1, <1>2, <1>3, <3>1, <4>5
    <3>2. CASE q # t /\ q \in A /\ q > t
      <4>1. g[q] = e[Parent(q)]
        BY <1>1, <3>2
      <4>2. q \in 1 .. n - 1
        BY <1>1, <2>2, <3>2
      <4> QED
        BY <1>2, <4>1, <4>2
    <3>3. CASE q # t /\ ~(q \in A /\ q > t)
      <4>1. g[q] = e[q]
        BY <1>1, <2>2, <3>3
      <4> QED
        BY <1>3, <2>2, <4>1
    <3> QED
      BY <3>1, <3>2, <3>3
  <2>4. CASE c = t
    <3>1. q \in A /\ ~(e[q] < key)
      BY <1>2, <2>1, <2>2, <2>4 DEF CanRaise, PathTo, TopOn
    <3>2. g[q] = e[q]
      <4>1. q # t /\ ~(q > t)
        BY <2>1, <2>2, <2>4
      <4> QED
        BY <1>1, <2>2, <4>1
    <3> QED
      BY <1>1, <1>2, <1>3, <2>1, <2>2, <2>4, <3>1, <3>2
  <2>5. CASE c \in A /\ c > t
    <3>1. g[c] = e[q]
      BY <1>1, <2>1, <2>5
    <3> QED
      BY <2>1, <2>3, <3>1
  <2>6. CASE c # t /\ ~(c \in A /\ c > t)
    <3>1. g[c] = e[c] /\ c \in 1 .. n - 1
      BY <1>1, <2>2, <2>6
    <3>2. e[c] <= e[q]
      BY <1>2, <2>1, <3>1
    <3>3. e[c] \in Int /\ e[q] \in Int /\ g[q] \in Int
      BY <1>3, <2>2
    <3> QED
      BY <2>1, <2>3, <3>1, <3>2, <3>3
  <2> QED
    BY <2>4, <2>5, <2>6
<1>5. (n + 1) - 1 = n
  BY <1>1
<1> QED
  BY <1>4, <1>5 DEF HeapUpTo

LEMMA RaisedTimes ==
    ASSUME NEW e, NEW n, NEW A, NEW t, NEW key, CanRaise(e, n, A, t, key),
           NEW g, g = Raised(e, A, t, key), NEW k
    PROVE  TimesIn(g, n + 1, k) = TimesIn(e, n, k) + IF k = key THEN 1 ELSE 0
<1>1. /\ n \in Nat /\ t \in 0 .. n
      /\ g[t] = key
      /\ \A x \in A : x > t => /\ Parent(x) \in 0 .. n - 1 /\ Parent(x) \in A /\ Parent(x) >= t
                               /\ Parent(x) < x /\ g[x] = e[Parent(x)]
      /\ \A x \in 0 .. n : x # t /\ ~(x \in A /\ x > t) => x \in 0 .. n - 1 /\ g[x] = e[x]
  BY RaisedIs
<1>2. /\ A \in SUBSET (0 .. n) /\ n \in A /\ t \in A
      /\ \A a \in A : a < n => \E b \in A : b > 0 /\ Parent(b) = a
      /\ \A a \in A, b \in A : a > 0 /\ b > 0 /\ Parent(a) = Parent(b) => a = b
  BY DEF CanRaise, PathTo, TopOn
<1>3. n + 1 \in Nat /\ (n + 1) - 1 = n /\ \A x \in A : x \in Nat
  BY <1>1, <1>2
<1>4. PICK P : P = PlacesOf(g, n + 1, k) \ {t}
  OBVIOUS
<1>5. \A x : x \in P <=> x \in 0 .. n /\ x # t /\ g[x] = k
  BY <1>3, <1>4 DEF PlacesOf
<1>6. IsFiniteSet(PlacesOf(g, n + 1, k)) /\ TimesIn(g, n + 1, k) \in Nat
  BY <1>3, TimesIsCount
<1>7. IsFiniteSet(P) /\ TimesIn(g, n + 1, k) = Cardinality(P) + IF k = key THEN 1 ELSE 0
  <2>1. t \in PlacesOf(g, n + 1, k) <=> k = key
    BY <1>1, <1>3 DEF PlacesOf
  <2>2. /\ IsFiniteSet(P)
        /\ Cardinality(P) = IF t \in PlacesOf(g, n + 1, k) THEN TimesIn(g, n + 1, k) - 1
                            ELSE TimesIn(g, n + 1, k)
    BY <1>4, <1>6, FS_RemoveElement DEF TimesIn
  <2> QED
    BY <1>6, <2>1, <2>2
<1>8. PICK d : d = [x \in P |-> IF x \in A /\ x > t THEN Parent(x) ELSE x]
  OBVIOUS
<1>9. \A x \in P : d[x] = IF x \in A /\ x > t THEN Parent(x) ELSE x
  BY <1>8
<1>10. ASSUME NEW x \in P PROVE d[x] \in PlacesOf(e, n, k)
  <2>1. x \in 0 .. n /\ x # t /\ g[x] = k
    BY <1>5
  <2>2. CASE x \in A /\ x > t
    BY <1>1, <1>9, <2>1, <2>2 DEF PlacesOf
  <2>3. CASE ~(x \in A /\ x > t)
    BY <1>1, <1>9, <2>1, <2>3 DEF PlacesOf
  <2> QED
    BY <2>2, <2>3
<1>11. d \in [P -> PlacesOf(e, n, k)]
  BY <1>8, <1>10
<1>12. ASSUME NEW x \in P, NEW y \in P, d[x] = d[y] PROVE x = y
  <2>1. x \in 0 .. n /\ x # t /\ y \in 0 .. n /\ y # t /\ t \in Nat /\ x \in Nat /\ y \in Nat
    BY <1>1, <1>5
  <2>2. CASE x \in A /\ x > t /\ y \in A /\ y > t
    <3>1. Parent(x) = Parent(y)
      BY <1>9, <1>12, <2>2
    <3>2. x > 0 /\ y > 0
      BY <2>1, <2>2
    <3> QED
      BY <1>2, <2>2, <3>1, <3>2
  <2>3. CASE x \in A /\ x > t /\ ~(y \in A /\ y > t)
    <3>1. Parent(x) = y
      BY <1>9, <1>12, <2>3
    <3>2. y \in A /\ y >= t
      BY <1>1, <2>3, <3>1
    <3> QED
      BY <2>1, <2>3, <3>2
  <2>4. CASE ~(x \in A /\ x > t) /\ y \in A /\ y > t
    <3>1. Parent(y) = x
      BY <1>9, <1>12, <2>4
    <3>2. x \in A /\ x >= t
      BY <1>1, <2>4, <3>1
    <3> QED
      BY <2>1, <2>4, <3>2
  <2>5. CASE ~(x \in A /\ x > t) /\ ~(y \in A /\ y > t)
    BY <1>9, <1>12, <2>5
  <2> QED
    BY <2>2, <2>3, <2>4, <2>5
<1>13. ASSUME NEW y \in PlacesOf(e, n, k) PROVE \E x \in P : d[x] = y
  <2>1. y \in 0 .. n - 1 /\ e[y] = k
    BY DEF PlacesOf
  <2>2. y \in Nat /\ y < n /\ y \in 0 .. n /\ t \in Nat
    BY <1>1, <2>1
  <2>3. CASE y \in A /\ y >= t
    <3>1. PICK b \in A : b > 0 /\ Parent(b) = y
      BY <1>2, <2>2, <2>3
    <3>2. b > y
      BY <1>3, <3>1, ParentIs
    <3>3. b > t /\ b \in 0 .. n /\ b # t
      BY <1>2, <1>3, <2>2, <2>3, <3>2
    <3>4. g[b] = k
      BY <1>1, <2>1, <3>1, <3>3
    <3>5. b \in P
      BY <1>5, <3>3, <3>4
    <3> QED
      BY <1>9, <3>1, <3>3, <3>5
  <2>4. CASE ~(y \in A /\ y >= t)
    <3>1. y # t /\ ~(y \in A /\ y > t)
      BY <1>2, <2>2, <2>4
    <3>2. g[y] = k
      BY <1>1, <2>1, <2>2, <3>1
    <3>3. y \in P
      BY <1>5, <2>2, <3>1, <3>2
    <3> QED
      BY <1>9, <3>1, <3>3
  <2> QED
    BY <2>3, <2>4
<1>14. d \in Bijection(P, PlacesOf(e, n, k))
  BY <1>11, <1>12, <1>13 DEF Bijection, Injection, IsInjective, Surjection
<1>15. Cardinality(P) = TimesIn(e, n, k)
  BY <1>7, <1>14, FS_Bijection DEF ExistsBijection, TimesIn
<1> QED
  BY <1>7, <1>15

HoldsKeys(e, n) == \A i \in 0 .. n - 1 : e[i] \in Key

RiseTo(e, i, key) == (CHOOSE at : Rises(at, e, key))[i]
WayUp(i) == (CHOOSE up : Ups(up))[i]

LEMMA RiseIs ==
    ASSUME NEW e, NEW i, NEW key
    PROVE  Rise(e, i, key) = RiseTo(e, i, key)
BY DEF Rise, RiseTo, Rises

LEMMA AncestorsAre ==
    ASSUME NEW i
    PROVE  Ancestors(i) = WayUp(i)
BY DEF Ancestors, WayUp, Ups

LEMMA InsertCanRaise ==
    ASSUME NEW e \in [Index -> Int], NEW n \in Index, HeapUpTo(e, n), NEW key \in Int
    PROVE  CanRaise(e, n, Ancestors(n), Rise(e, n, key), key)
<1>1. (\E up : Ups(up)) /\ \E at : Rises(at, e, key)
  BY UpsExist, RisesExist
<1>2. PICK up : up = (CHOOSE u : Ups(u)) /\ Ups(up)
  BY <1>1
<1>3. PICK at : at = (CHOOSE a : Rises(a, e, key)) /\ Rises(at, e, key)
  BY <1>1
<1>4. PathTo(up[n], n) /\ TopOn(up[n], e, key, at[n])
  BY <1>2, <1>3, WayUpIs
<1>5. Ancestors(n) = up[n]
  BY <1>2, AncestorsAre DEF WayUp
<1>6. Rise(e, n, key) = at[n]
  BY <1>3, RiseIs DEF RiseTo
<1> QED
  BY <1>4, <1>5, <1>6 DEF CanRaise

\* What an insertion leaves.
LEMMA KeyPut ==
    ASSUME NEW e \in [Index -> Int], NEW n \in Index, HeapUpTo(e, n), HoldsKeys(e, n), NEW key \in Key,
           NEW g, g = Raised(e, Ancestors(n), Rise(e, n, key), key)
    PROVE  /\ g \in [Index -> Int] /\ HeapUpTo(g, n + 1) /\ HoldsKeys(g, n + 1)
           /\ \A k : TimesIn(g, n + 1, k) = TimesIn(e, n, k) + IF k = key THEN 1 ELSE 0
<1>1. n \in Nat /\ n + 1 \in Nat /\ key \in Int
  BY MaxHeapAssumption DEF Index
<1>2. PICK A, t : A = Ancestors(n) /\ t = Rise(e, n, key)
  OBVIOUS
<1>3. CanRaise(e, n, A, t, key)
  BY <1>1, <1>2, InsertCanRaise
<1>4. g = Raised(e, A, t, key)
  BY <1>2
<1>5. g \in [Index -> Int]
  BY <1>3, <1>4, RaisedIs
<1>6. HeapUpTo(g, n + 1)
  BY <1>3, <1>4, RaisedIsHeap
<1>7. \A k : TimesIn(g, n + 1, k) = TimesIn(e, n, k) + IF k = key THEN 1 ELSE 0
  BY <1>3, <1>4, RaisedTimes
<1>8. ASSUME NEW i \in 0 .. (n + 1) - 1 PROVE g[i] \in Key
  <2>1. PICK k : k = g[i]
    OBVIOUS
  <2>2. TimesIn(g, n + 1, k) > 0
    BY <1>1, <2>1, TimesIsCount
  <2>3. CASE k = key
    BY <2>1, <2>3
  <2>4. CASE k # key
    <3>1. TimesIn(g, n + 1, k) = TimesIn(e, n, k) + 0
      BY <1>7, <2>4
    <3>2. TimesIn(e, n, k) \in Nat
      BY <1>1, TimesIsCount
    <3>3. TimesIn(e, n, k) > 0
      BY <2>2, <3>1, <3>2
    <3>4. PICK x \in 0 .. n - 1 : e[x] = k
      BY <1>1, <3>3, TimesIsCount
    <3> QED
      BY <2>1, <3>4 DEF HoldsKeys
  <2> QED
    BY <2>3, <2>4
<1> QED
  BY <1>5, <1>6, <1>7, <1>8 DEF HoldsKeys

\* What an extraction leaves.
LEMMA TopGone ==
    ASSUME NEW e \in [Index -> Int], NEW n \in 1 .. Places, HeapUpTo(e, n), HoldsKeys(e, n),
           NEW g, g = Heapify(Topped(e, n), n - 1, 0)
    PROVE  /\ g \in [Index -> Int] /\ HeapUpTo(g, n - 1) /\ HoldsKeys(g, n - 1)
           /\ \A k : TimesIn(e, n, k) = TimesIn(g, n - 1, k) + IF k = e[0] THEN 1 ELSE 0
<1>1. /\ Places \in Nat /\ n \in Nat /\ n - 1 \in Nat /\ n - 1 \in 0 .. Places
      /\ 0 \in Index /\ n - 1 \in Index
  BY MaxHeapAssumption DEF Index
<1>2. PICK f : f = Topped(e, n)
  OBVIOUS
<1>3. f \in [Index -> Int] /\ \A x \in Index : x # 0 => f[x] = e[x]
  BY <1>1, <1>2 DEF Topped
<1>4. PICK m : m = n - 1
  OBVIOUS
<1>5. HeapBut(f, m, 0)
  <2>1. ASSUME NEW c \in 1 .. m - 1, Parent(c) # 0 PROVE f[c] <= f[Parent(c)]
    <3>1. c \in Nat /\ c > 0 /\ c < Places /\ c \in 1 .. n - 1
      BY <1>1, <1>4
    <3>2. Parent(c) \in Nat /\ Parent(c) < c
      BY <3>1, ParentIs
    <3>3. c \in Index /\ Parent(c) \in Index
      BY <1>1, <3>1, <3>2 DEF Index
    <3>4. c # 0
      BY <3>1
    <3>5. f[c] = e[c] /\ f[Parent(c)] = e[Parent(c)]
      BY <1>3, <2>1, <3>3, <3>4
    <3> QED
      BY <3>1, <3>5 DEF HeapUpTo
  <2> QED
    BY <2>1 DEF HeapBut
<1>6. g = Heapify(f, m, 0) /\ m \in 0 .. Places /\ 0 \in Index
  BY <1>1, <1>2, <1>4
<1>7. /\ g \in [Index -> Int] /\ HeapUpTo(g, m)
      /\ \A k : TimesIn(g, m, k) = TimesIn(f, m, k)
  BY <1>3, <1>5, <1>6, HeapifyIs
<1>8. \A k : TimesIn(e, n, k) = TimesIn(f, n - 1, k) + IF k = e[0] THEN 1 ELSE 0
  BY <1>2, TopTaken
<1>9. \A k : TimesIn(e, n, k) = TimesIn(g, n - 1, k) + IF k = e[0] THEN 1 ELSE 0
  BY <1>4, <1>7, <1>8
<1>10. ASSUME NEW i \in 0 .. m - 1 PROVE g[i] \in Key
  <2>1. PICK k : k = g[i]
    OBVIOUS
  <2>2. TimesIn(g, m, k) > 0 /\ TimesIn(g, m, k) \in Nat
    BY <1>1, <1>4, <2>1, TimesIsCount
  <2>3. TimesIn(e, n, k) > 0
    <3>1. TimesIn(e, n, k) = TimesIn(g, m, k) + IF k = e[0] THEN 1 ELSE 0
      BY <1>4, <1>9
    <3> QED
      BY <2>2, <3>1
  <2>4. PICK x \in 0 .. n - 1 : e[x] = k
    BY <1>1, <2>3, TimesIsCount
  <2> QED
    BY <2>1, <2>4 DEF HoldsKeys
<1> QED
  BY <1>4, <1>7, <1>9, <1>10 DEF HoldsKeys
-----------------------------------------------------------------------------
LEMMA HeapStarts ==
    ASSUME MaxHeapInit
    PROVE  MaxHeapInv
<1>1. elements \in [Index -> Int] /\ size = 0
  BY DEF MaxHeapInit
<1>2. 0 \in 0 .. Places
  BY MaxHeapAssumption
<1> QED
  BY <1>1, <1>2 DEF MaxHeapInv, HeapUpTo

LEMMA HeapAfterInsert ==
    ASSUME MaxHeapInv, NEW key \in Key, Insert(key), size < Places
    PROVE  /\ MaxHeapInv'
           /\ \A k : TimesIn(elements', size', k) = TimesIn(elements, size, k) + IF k = key THEN 1 ELSE 0
<1>1. elements \in [Index -> Int] /\ size \in Index /\ HeapUpTo(elements, size) /\ HoldsKeys(elements, size)
  BY MaxHeapAssumption DEF MaxHeapInv, HoldsKeys, Index
<1>2. size # Places
  BY <1>1, MaxHeapAssumption DEF Index
<1>3. PICK g, n : g = elements' /\ n = size'
  OBVIOUS
<1>4. g = Raised(elements, Ancestors(size), Rise(elements, size, key), key) /\ n = size + 1
  BY <1>2, <1>3 DEF Insert, Raised
<1>5. /\ g \in [Index -> Int] /\ HeapUpTo(g, size + 1) /\ HoldsKeys(g, size + 1)
      /\ \A k : TimesIn(g, size + 1, k) = TimesIn(elements, size, k) + IF k = key THEN 1 ELSE 0
  BY <1>1, <1>4, KeyPut
<1>6. n \in 0 .. Places
  BY <1>1, <1>4, MaxHeapAssumption DEF Index
<1>7. MaxHeapInv'
  BY <1>3, <1>4, <1>5, <1>6 DEF MaxHeapInv, HoldsKeys, HeapUpTo
<1> QED
  BY <1>3, <1>4, <1>5, <1>7

LEMMA HeapAfterExtract ==
    ASSUME MaxHeapInv, ExtractMax, size >= 1
    PROVE  /\ MaxHeapInv' /\ result' = elements[0]
           /\ \A k : TimesIn(elements, size, k) = TimesIn(elements', size', k) + IF k = elements[0] THEN 1 ELSE 0
<1>1. elements \in [Index -> Int] /\ size \in 1 .. Places /\ HeapUpTo(elements, size) /\ HoldsKeys(elements, size)
  BY MaxHeapAssumption DEF MaxHeapInv, HoldsKeys
<1>2. ~(size < 1)
  BY <1>1, MaxHeapAssumption
<1>3. PICK g, n : g = elements' /\ n = size'
  OBVIOUS
<1>4. g = Heapify(Topped(elements, size), size - 1, 0) /\ n = size - 1 /\ result' = elements[0]
  BY <1>2, <1>3 DEF ExtractMax, Topped
<1>5. /\ g \in [Index -> Int] /\ HeapUpTo(g, size - 1) /\ HoldsKeys(g, size - 1)
      /\ \A k : TimesIn(elements, size, k) = TimesIn(g, size - 1, k) + IF k = elements[0] THEN 1 ELSE 0
  BY <1>1, <1>4, TopGone
<1>6. n \in 0 .. Places
  BY <1>1, <1>4, MaxHeapAssumption
<1>7. MaxHeapInv'
  BY <1>3, <1>4, <1>5, <1>6 DEF MaxHeapInv, HoldsKeys, HeapUpTo
<1> QED
  BY <1>3, <1>4, <1>5, <1>7

\* The elements are a heap whenever no call is running, and every element is
\* a key that was inserted: heap_insert puts the key on the way up to the
\* root, heap_extract_max lets the last element sink.
THEOREM MaxHeapInvariant == MaxHeapSpec => []MaxHeapInv
<1>1. MaxHeapInit => MaxHeapInv
  BY HeapStarts
<1>2. ASSUME MaxHeapInv, [MaxHeapNext]_maxHeapVars PROVE MaxHeapInv'
  <2>1. size \in Nat /\ Places \in Nat /\ size <= Places
    BY <1>2, MaxHeapAssumption DEF MaxHeapInv
  <2>2. ASSUME NEW key \in Key, Insert(key) PROVE MaxHeapInv'
    <3>1. CASE size = Places
      <4>1. elements' = elements /\ size' = size
        BY <2>1, <2>2, <3>1 DEF Insert
      <4> QED
        BY <1>2, <4>1 DEF MaxHeapInv, HeapUpTo
    <3>2. CASE size # Places
      <4>1. size < Places
        BY <2>1, <3>2
      <4> QED
        BY <1>2, <2>2, <4>1, HeapAfterInsert
    <3> QED
      BY <3>1, <3>2
  <2>3. CASE ExtractMax
    <3>1. CASE size < 1
      <4>1. elements' = elements /\ size' = size
        BY <2>1, <2>3, <3>1 DEF ExtractMax
      <4> QED
        BY <1>2, <4>1 DEF MaxHeapInv, HeapUpTo
    <3>2. CASE size >= 1
      BY <1>2, <2>3, <3>2, HeapAfterExtract
    <3> QED
      BY <2>1, <3>1, <3>2
  <2>4. CASE UNCHANGED maxHeapVars
    BY <1>2, <2>4 DEF maxHeapVars, MaxHeapInv, HeapUpTo
  <2> QED
    BY <1>2, <2>2, <2>3, <2>4 DEF MaxHeapNext
<1> QED
  BY <1>1, <1>2, PTL DEF MaxHeapSpec

\* The queue the heap stands for.
Counts == [k \in Key |-> Cardinality({i \in 0 .. size - 1 : elements[i] = k})]

LEMMA CountsAre == /\ Counts = [k \in Key |-> TimesIn(elements, size, k)]
                   /\ Counts' = [k \in Key |-> TimesIn(elements', size', k)]
BY DEF Counts, TimesIn, PlacesOf

\* Every behaviour of the heap is one of the queue: an element is never lost
\* or doubled while others are moved, and what comes out is the largest.
THEOREM MaxHeapIsQueue == MaxHeapSpec => ImplementsQueue
<1>1. MaxHeapInit => Queue!Init
  <2> SUFFICES ASSUME MaxHeapInit PROVE Counts = [k \in Key |-> 0] /\ size = 0 /\ result = 0
    BY DEF Queue!Init, Counts
  <2>1. size = 0 /\ result = 0
    BY DEF MaxHeapInit
  <2>2. ASSUME NEW k \in Key PROVE TimesIn(elements, size, k) = 0
    <3>1. size \in Nat /\ ~\E i \in 0 .. size - 1 : elements[i] = k
      BY <2>1
    <3>2. TimesIn(elements, size, k) \in Nat /\ ~(TimesIn(elements, size, k) > 0)
      BY <3>1, TimesIsCount
    <3> QED
      BY <3>2
  <2> QED
    BY <2>1, <2>2, CountsAre
<1>2. ASSUME MaxHeapInv, MaxHeapInv', [MaxHeapNext]_maxHeapVars
      PROVE  [Queue!Next]_<<Counts, size, result>>
  <2>1. size \in Nat /\ Places \in Nat /\ size <= Places
    BY <1>2, MaxHeapAssumption DEF MaxHeapInv
  <2>2. PICK q, r : /\ q = [k \in Key |-> TimesIn(elements, size, k)]
                    /\ r = [k \in Key |-> TimesIn(elements', size', k)]
    OBVIOUS
  <2>3. Counts = q /\ Counts' = r
    BY <2>2, CountsAre
  <2>4. \A k \in Key : q[k] \in Nat /\ (q[k] > 0 <=> \E i \in 0 .. size - 1 : elements[i] = k)
    BY <2>1, <2>2, TimesIsCount
  <2>5. ASSUME NEW key \in Key, Insert(key) PROVE Queue!Insert(key)
    <3>1. CASE size = Places
      <4>1. result' = -1 /\ elements' = elements /\ size' = size
        BY <2>1, <2>5, <3>1 DEF Insert
      <4>2. r = q
        BY <2>2, <4>1
      <4> QED
        BY <2>3, <3>1, <4>1, <4>2 DEF Queue!Insert, Counts
    <3>2. CASE size # Places
      <4>1. size < Places
        BY <2>1, <3>2
      <4>2. \A k : TimesIn(elements', size', k) = TimesIn(elements, size, k) + IF k = key THEN 1 ELSE 0
        BY <1>2, <2>5, <4>1, HeapAfterInsert
      <4>3. result' = 0 /\ size' = size + 1
        BY <2>5, <3>2 DEF Insert
      <4>4. \A k \in Key : r[k] = IF k = key THEN q[k] + 1 ELSE q[k]
        BY <2>2, <2>4, <4>2
      <4>5. r = [q EXCEPT ![key] = @ + 1]
        BY <2>2, <4>4
      <4> QED
        BY <2>3, <3>2, <4>3, <4>5 DEF Queue!Insert, Counts
    <3> QED
      BY <3>1, <3>2
  <2>6. CASE ExtractMax
    <3>1. CASE size < 1
      <4>1. result' = -1 /\ elements' = elements /\ size' = size /\ size = 0
        BY <2>1, <2>6, <3>1 DEF ExtractMax
      <4>2. r = q
        BY <2>2, <4>1
      <4>3. Queue!Extract
        BY <2>3, <4>1, <4>2 DEF Queue!Extract, Counts
      <4> QED
        BY <4>3 DEF Queue!Next
    <3>2. CASE size >= 1
      <4>1. /\ result' = elements[0]
            /\ \A k : TimesIn(elements, size, k)
                        = TimesIn(elements', size', k) + IF k = elements[0] THEN 1 ELSE 0
        BY <1>2, <2>6, <3>2, HeapAfterExtract
      <4>2. PICK top : top = elements[0]
        OBVIOUS
      <4>3. 0 \in 0 .. size - 1 /\ size \in 1 .. Places
        BY <2>1, <3>2
      <4>4. top \in Key /\ q[top] > 0
        <5>1. top \in Key
          BY <1>2, <4>2, <4>3 DEF MaxHeapInv
        <5> QED
          BY <2>4, <4>2, <4>3, <5>1
      <4>5. \A k \in Key : q[k] > 0 => k <= top
        <5>1. \A i \in 0 .. size - 1 : elements[i] <= elements[0]
          BY <1>2, <4>3, RootIsLargest DEF MaxHeapInv
        <5> QED
          BY <2>4, <4>2, <5>1
      <4>6. size' = size - 1
        BY <2>1, <2>6, <3>2 DEF ExtractMax
      <4>7. \A k \in Key : r[k] \in Nat
        <5>1. size' \in Nat
          BY <2>1, <3>2, <4>6
        <5>2. PICK n : n = size'
          OBVIOUS
        <5> QED
          BY <2>2, <5>1, <5>2, TimesIsCount
      <4>8. \A k \in Key : r[k] = IF k = top THEN q[k] - 1 ELSE q[k]
        <5>1. ASSUME NEW k \in Key PROVE r[k] = IF k = top THEN q[k] - 1 ELSE q[k]
          <6>1. q[k] = r[k] + IF k = top THEN 1 ELSE 0
            BY <2>2, <4>1, <4>2
          <6> QED
            BY <2>4, <4>7, <6>1
        <5> QED
          BY <5>1
      <4>9. r = [q EXCEPT ![top] = @ - 1]
        BY <2>2, <4>8
      <4>10. ~(size = 0) /\ result' = top
        BY <3>2, <2>1, <4>1, <4>2
      <4>11. /\ result' \in {k \in Key : q[k] > 0}
             /\ \A k \in Key : q[k] > 0 => k <= result'
             /\ r = [q EXCEPT ![result'] = @ - 1]
        BY <4>4, <4>5, <4>9, <4>10
      <4>12. Queue!Extract
        BY <2>3, <4>6, <4>10, <4>11 DEF Queue!Extract, Counts
      <4> QED
        BY <4>12 DEF Queue!Next
    <3> QED
      BY <2>1, <3>1, <3>2
  <2>7. CASE UNCHANGED maxHeapVars
    <3>1. elements' = elements /\ size' = size /\ result' = result
      BY <2>7 DEF maxHeapVars
    <3>2. r = q
      BY <2>2, <3>1
    <3> QED
      BY <2>3, <3>1, <3>2
  <2> QED
    BY <1>2, <2>5, <2>6, <2>7 DEF MaxHeapNext, Queue!Next
<1> QED
  BY <1>1, <1>2, MaxHeapInvariant, PTL
     DEF MaxHeapSpec, ImplementsQueue, Queue!Spec, Counts
=============================================================================
