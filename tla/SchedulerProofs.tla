-------------------------- MODULE SchedulerProofs --------------------------
(* The scheduler for any number of processes, whatever they bring and      *)
(* whenever they arrive.                                                   *)
EXTENDS Scheduler, Integers, Recursion, FiniteSetTheorems, WellFoundedInduction, TLAPS
-----------------------------------------------------------------------------
\* The quanta of MLF, and the time above a level, follow from level to level.
LEMMA SlotsAre ==
    /\ Slots[0] = 1
    /\ \A l \in 0 .. Levels - 1 : Slots[l + 1] = Slots[l] * Base
    /\ \A l \in 0 .. Levels : Slots[l] \in Nat \ {0}
<1>1. PICK V, step : V = Nat \ {0} /\ step = [x \in Nat \X V |-> x[2] * Base]
  OBVIOUS
<1>2. 1 \in V /\ step \in [Nat \X V -> V] /\ Levels \in Nat
  <2>1. \A n \in Nat \ {0} : n * Base \in Nat \ {0}
    BY SchedulerAssumption
  <2> QED
    BY <1>1, <2>1, SchedulerAssumption
<1>3. PICK f \in [0 .. Levels -> V] : Follows(f, Levels, 1, step)
  BY <1>2, FollowsExists
<1>4. ASSUME NEW l \in 0 .. Levels, l # 0 PROVE f[l] = f[l - 1] * Base
  <2>1. l - 1 \in 0 .. Levels - 1 /\ l - 1 \in Nat /\ (l - 1) + 1 = l
    BY <1>2, <1>4
  <2>2. f[l - 1] \in V /\ f[l] = step[<<l - 1, f[l - 1]>>]
    BY <1>2, <1>3, <2>1 DEF Follows
  <2> QED
    BY <1>1, <2>1, <2>2
<1>5. f = [l \in 0 .. Levels |-> IF l = 0 THEN 1 ELSE f[l - 1] * Base]
  <2>1. f[0] = 1
    BY <1>3 DEF Follows
  <2>2. \A l \in 0 .. Levels : f[l] = IF l = 0 THEN 1 ELSE f[l - 1] * Base
    BY <1>4, <2>1
  <2> QED
    BY <1>3, <2>2
<1>6. Slots = [l \in 0 .. Levels |-> IF l = 0 THEN 1 ELSE Slots[l - 1] * Base]
  BY <1>5 DEF Slots
<1>7. Slots[0] = 1 /\ \A l \in 0 .. Levels - 1 : Slots[l + 1] = Slots[l] * Base
  <2>1. \A l \in 0 .. Levels : Slots[l] = IF l = 0 THEN 1 ELSE Slots[l - 1] * Base
    BY <1>6
  <2>2. \A l \in 0 .. Levels - 1 : l + 1 \in 0 .. Levels /\ l + 1 # 0 /\ (l + 1) - 1 = l
    BY <1>2
  <2> QED
    BY <1>2, <2>1, <2>2
<1>8. \A l \in 0 .. Levels : l \in {k \in 0 .. Levels : Slots[k] \in Nat \ {0}}
  <2>1. PICK S : S = {k \in 0 .. Levels : Slots[k] \in Nat \ {0}}
    OBVIOUS
  <2>2. 0 \in S
    BY <1>2, <1>7, <2>1
  <2>3. ASSUME NEW n \in 0 .. Levels - 1, n \in S PROVE n + 1 \in S
    <3>1. Slots[n] \in Nat \ {0} /\ Base \in Nat \ {0} /\ n + 1 \in 0 .. Levels
      BY <1>2, <2>1, <2>3, SchedulerAssumption
    <3>2. Slots[n] * Base \in Nat \ {0}
      BY <3>1
    <3> QED
      BY <1>7, <2>1, <3>1, <3>2
  <2> QED
    BY <1>2, <2>1, <2>2, <2>3, AllUpTo
<1> QED
  BY <1>7, <1>8

LEMMA AboveIs ==
    /\ Above[0] = 0
    /\ \A l \in 0 .. Levels - 1 : Above[l + 1] = Above[l] + Slots[l]
    /\ \A l \in 0 .. Levels : Above[l] \in Nat
<1>1. PICK step : step = [x \in Nat \X Nat |-> x[2] + IF x[1] < Levels THEN Slots[x[1]] ELSE 0]
  OBVIOUS
<1>2. 0 \in Nat /\ step \in [Nat \X Nat -> Nat] /\ Levels \in Nat
  <2>1. \A n \in Nat : (IF n < Levels THEN Slots[n] ELSE 0) \in Nat
    BY SlotsAre, SchedulerAssumption
  <2> QED
    BY <1>1, <2>1, SchedulerAssumption
<1>3. PICK f \in [0 .. Levels -> Nat] : Follows(f, Levels, 0, step)
  BY <1>2, FollowsExists
<1>4. ASSUME NEW l \in 0 .. Levels, l # 0 PROVE f[l] = f[l - 1] + Slots[l - 1]
  <2>1. l - 1 \in 0 .. Levels - 1 /\ l - 1 \in Nat /\ (l - 1) + 1 = l /\ l - 1 < Levels
    BY <1>2, <1>4
  <2>2. f[l - 1] \in Nat /\ f[l] = step[<<l - 1, f[l - 1]>>]
    BY <1>2, <1>3, <2>1 DEF Follows
  <2> QED
    BY <1>1, <2>1, <2>2
<1>5. f = [l \in 0 .. Levels |-> IF l = 0 THEN 0 ELSE f[l - 1] + Slots[l - 1]]
  <2>1. f[0] = 0
    BY <1>3 DEF Follows
  <2>2. \A l \in 0 .. Levels : f[l] = IF l = 0 THEN 0 ELSE f[l - 1] + Slots[l - 1]
    BY <1>4, <2>1
  <2> QED
    BY <1>3, <2>2
<1>6. Above = [l \in 0 .. Levels |-> IF l = 0 THEN 0 ELSE Above[l - 1] + Slots[l - 1]]
  BY <1>5 DEF Above
<1>7. Above[0] = 0 /\ \A l \in 0 .. Levels - 1 : Above[l + 1] = Above[l] + Slots[l]
  <2>1. \A l \in 0 .. Levels : Above[l] = IF l = 0 THEN 0 ELSE Above[l - 1] + Slots[l - 1]
    BY <1>6
  <2>2. \A l \in 0 .. Levels - 1 : l + 1 \in 0 .. Levels /\ l + 1 # 0 /\ (l + 1) - 1 = l
    BY <1>2
  <2> QED
    BY <1>2, <2>1, <2>2
<1>8. \A l \in 0 .. Levels : l \in {k \in 0 .. Levels : Above[k] \in Nat}
  <2>1. PICK S : S = {k \in 0 .. Levels : Above[k] \in Nat}
    OBVIOUS
  <2>2. 0 \in S
    BY <1>2, <1>7, <2>1
  <2>3. ASSUME NEW n \in 0 .. Levels - 1, n \in S PROVE n + 1 \in S
    <3>1. Slots[n] \in Nat /\ Above[n] \in Nat /\ n + 1 \in 0 .. Levels
      BY <1>2, <2>1, <2>3, SlotsAre
    <3> QED
      BY <1>7, <2>1, <3>1
  <2> QED
    BY <1>2, <2>1, <2>2, <2>3, AllUpTo
<1> QED
  BY <1>7, <1>8
-----------------------------------------------------------------------------
\* The processes in a queue; nobody is in it twice.
Held(q) == {q[i] : i \in DOMAIN q}
NoTwice(q) == \A i, j \in DOMAIN q : q[i] = q[j] => i = j

\* In a queue each process stands in the relation R to those behind it.
InOrder(q, R) == \A i, j \in DOMAIN q : i < j => <<q[i], q[j]>> \in R

\* A queue whose length and elements are known.
LEMMA SeqIs ==
    ASSUME NEW S, NEW n \in Nat, NEW q, q = [i \in 1 .. n |-> q[i]],
           \A i \in 1 .. n : q[i] \in S
    PROVE  q \in Seq(S) /\ Len(q) = n /\ DOMAIN q = 1 .. n
OBVIOUS

\* What is taken from other places, and from each place once.
LEMMA TakenFrom ==
    ASSUME NEW q, NEW s, NEW at, DOMAIN at = DOMAIN s,
           \A i \in DOMAIN s : at[i] \in DOMAIN q /\ s[i] = q[at[i]],
           \A i, j \in DOMAIN s : at[i] = at[j] => i = j
    PROVE  Held(s) \subseteq Held(q) /\ (NoTwice(q) => NoTwice(s))
<1>1. ASSUME NEW i \in DOMAIN s PROVE s[i] \in Held(q)
  BY DEF Held
<1>2. Held(s) \subseteq Held(q)
  BY <1>1 DEF Held
<1>3. ASSUME NoTwice(q), NEW i \in DOMAIN s, NEW j \in DOMAIN s, s[i] = s[j] PROVE i = j
  <2>1. q[at[i]] = q[at[j]]
    BY <1>3
  <2>2. at[i] = at[j]
    BY <1>3, <2>1 DEF NoTwice
  <2> QED
    BY <2>2
<1> QED
  BY <1>2, <1>3 DEF NoTwice

LEMMA PartsOf ==
    ASSUME NEW q \in Seq(Proc), NEW m \in Nat, NEW k \in 0 .. Len(q), m <= k
    PROVE  /\ SubSeq(q, m + 1, k) \in Seq(Proc) /\ Len(SubSeq(q, m + 1, k)) = k - m
           /\ \A i \in 1 .. k - m : SubSeq(q, m + 1, k)[i] = q[m + i]
<1>1. \A i \in 1 .. Len(q) : q[i] \in Proc
  OBVIOUS
<1>2. \A i \in m + 1 .. k : q[i] \in Proc
  BY <1>1
<1> QED
  BY <1>2

LEMMA AppendHolds ==
    ASSUME NEW q \in Seq(Proc), NEW p \in Proc
    PROVE  /\ Append(q, p) \in Seq(Proc) /\ Append(q, p) # <<>>
           /\ Held(Append(q, p)) = Held(q) \cup {p}
           /\ NoTwice(q) /\ p \notin Held(q) => NoTwice(Append(q, p))
           /\ \A R : InOrder(q, R) /\ (\A r \in Held(q) : <<r, p>> \in R)
                        => InOrder(Append(q, p), R)
<1>1. PICK n \in Nat : n = Len(q) /\ DOMAIN q = 1 .. n
  OBVIOUS
<1>2. PICK s : s = Append(q, p)
  OBVIOUS
<1>3. /\ s \in Seq(Proc) /\ s # <<>> /\ Len(s) = n + 1 /\ DOMAIN s = 1 .. n + 1
      /\ s[n + 1] = p /\ \A i \in 1 .. n : s[i] = q[i]
  BY <1>1, <1>2
<1>4. \A i \in 1 .. n + 1 : i = n + 1 \/ i \in 1 .. n
  OBVIOUS
<1>5. \A i \in 1 .. n : i \in 1 .. n + 1 /\ i # n + 1 /\ i < n + 1
  OBVIOUS
<1>6. Held(s) = Held(q) \cup {p}
  BY <1>1, <1>3, <1>4, <1>5 DEF Held
<1>7. NoTwice(q) /\ p \notin Held(q) => NoTwice(s)
  BY <1>1, <1>3, <1>4, <1>5 DEF Held, NoTwice
<1>8. ASSUME NEW R, InOrder(q, R), \A r \in Held(q) : <<r, p>> \in R PROVE InOrder(s, R)
  <2>1. SUFFICES ASSUME NEW i \in 1 .. n + 1, NEW j \in 1 .. n + 1, i < j
                 PROVE  <<s[i], s[j]>> \in R
    BY <1>3 DEF InOrder
  <2>2. i \in 1 .. n
    BY <2>1
  <2>3. CASE j = n + 1
    BY <1>1, <1>3, <1>8, <2>2, <2>3 DEF Held
  <2>4. CASE j \in 1 .. n
    BY <1>1, <1>3, <1>8, <2>1, <2>2, <2>4 DEF InOrder
  <2> QED
    BY <1>4, <2>3, <2>4
<1> QED
  BY <1>2, <1>3, <1>6, <1>7, <1>8

\* One is taken out.
LEMMA RemoveHolds ==
    ASSUME NEW q \in Seq(Proc), NEW k \in DOMAIN q, NoTwice(q)
    PROVE  /\ Remove(q, k) \in Seq(Proc) /\ NoTwice(Remove(q, k))
           /\ Held(Remove(q, k)) = Held(q) \ {q[k]}
           /\ q[k] \in Proc /\ q[k] \in Held(q)
           /\ \A R : InOrder(q, R) => InOrder(Remove(q, k), R)
<1>1. PICK n \in Nat : n = Len(q) /\ DOMAIN q = 1 .. n
  OBVIOUS
<1>2. k \in 1 .. n /\ n - 1 \in Nat
  BY <1>1
<1>3. PICK s : s = Remove(q, k)
  OBVIOUS
<1>4. PICK at : at = [i \in 1 .. n - 1 |-> IF i < k THEN i ELSE i + 1]
  OBVIOUS
<1>5. /\ s \in Seq(Proc) /\ DOMAIN s = 1 .. n - 1
      /\ \A i \in 1 .. n - 1 : s[i] = q[at[i]]
  <2>1. PICK a, b : a = SubSeq(q, 1, k - 1) /\ b = SubSeq(q, k + 1, Len(q))
    OBVIOUS
  <2>2. a \in Seq(Proc) /\ Len(a) = k - 1 /\ \A i \in 1 .. k - 1 : a[i] = q[i]
    <3>1. k - 1 \in 0 .. Len(q) /\ 0 \in Nat /\ 0 <= k - 1 /\ 0 + 1 = 1 /\ (k - 1) - 0 = k - 1
      BY <1>1, <1>2
    <3>2. \A i \in 1 .. k - 1 : 0 + i = i
      OBVIOUS
    <3> QED
      BY <2>1, <3>1, <3>2, PartsOf
  <2>6. b \in Seq(Proc) /\ Len(b) = n - k /\ \A i \in 1 .. n - k : b[i] = q[k + i]
    <3>1. k \in Nat /\ n \in 0 .. Len(q) /\ k <= n
      BY <1>1, <1>2
    <3> QED
      BY <1>1, <2>1, <3>1, PartsOf
  <2>3. s = a \o b
    BY <1>3, <2>1 DEF Remove
  <2>4. s \in Seq(Proc) /\ Len(s) = n - 1
    BY <1>2, <2>2, <2>3, <2>6
  <2>5. ASSUME NEW i \in 1 .. n - 1 PROVE s[i] = q[at[i]]
    <3>1. CASE i < k
      BY <1>2, <1>4, <2>2, <2>3, <3>1
    <3>2. CASE ~(i < k)
      <4>1. s[i] = b[i - (k - 1)] /\ i - (k - 1) \in 1 .. n - k
        BY SMTT(20), <1>2, <2>2, <2>3, <2>6, <3>2
      <4>2. k + (i - (k - 1)) = i + 1
        BY <1>2
      <4> QED
        BY <1>4, <2>6, <3>2, <4>1, <4>2
    <3> QED
      BY <3>1, <3>2
  <2> QED
    BY <2>4, <2>5
<1>6. /\ \A i \in 1 .. n - 1 : at[i] \in 1 .. n /\ at[i] # k
      /\ \A i, j \in 1 .. n - 1 : i < j => at[i] < at[j]
      /\ \A i, j \in 1 .. n - 1 : at[i] = at[j] => i = j
      /\ \A i \in 1 .. n : i # k => \E j \in 1 .. n - 1 : at[j] = i
  <2>1. ASSUME NEW i \in 1 .. n, i # k PROVE \E j \in 1 .. n - 1 : at[j] = i
    <3>1. CASE i < k
      BY <1>2, <1>4, <3>1
    <3>2. CASE i > k
      <4>1. i - 1 \in 1 .. n - 1 /\ ~(i - 1 < k) /\ (i - 1) + 1 = i
        BY <1>2, <3>2
      <4> QED
        BY <1>4, <4>1
    <3> QED
      BY <1>2, <2>1, <3>1, <3>2
  <2> QED
    BY <1>2, <1>4, <2>1
<1>8. Held(s) \subseteq Held(q) /\ NoTwice(s)
  <2>1. /\ DOMAIN at = DOMAIN s
        /\ \A x \in DOMAIN s : at[x] \in DOMAIN q /\ s[x] = q[at[x]]
        /\ \A x, y \in DOMAIN s : at[x] = at[y] => x = y
    BY <1>1, <1>4, <1>5, <1>6
  <2> QED
    BY <2>1, TakenFrom
<1>7. Held(s) = Held(q) \ {q[k]}
  <2>1. Held(s) \subseteq Held(q) \ {q[k]}
    <3>1. ASSUME NEW i \in 1 .. n - 1 PROVE s[i] # q[k]
      BY SMTT(20), <1>1, <1>2, <1>5, <1>6 DEF NoTwice
    <3>2. \A x \in Held(s) : \E i \in 1 .. n - 1 : x = s[i]
      BY <1>5 DEF Held
    <3> QED
      BY <1>8, <3>1, <3>2
  <2>2. Held(q) \ {q[k]} \subseteq Held(s)
    <3>1. SUFFICES ASSUME NEW i \in 1 .. n, q[i] # q[k] PROVE q[i] \in Held(s)
      BY <1>1 DEF Held
    <3>2. PICK j \in 1 .. n - 1 : at[j] = i
      BY <1>6, <3>1
    <3> QED
      BY <1>5, <3>2 DEF Held
  <2> QED
    BY <2>1, <2>2
<1>9. \A R : InOrder(q, R) => InOrder(s, R)
  <2>1. SUFFICES ASSUME NEW R, InOrder(q, R), NEW i \in 1 .. n - 1, NEW j \in 1 .. n - 1, i < j
                 PROVE  <<s[i], s[j]>> \in R
    BY <1>5 DEF InOrder
  <2>2. at[i] \in 1 .. n /\ at[j] \in 1 .. n /\ at[i] < at[j] /\ s[i] = q[at[i]] /\ s[j] = q[at[j]]
    BY <1>5, <1>6, <2>1
  <2> QED
    BY <1>1, <2>1, <2>2 DEF InOrder
<1>10. q[k] \in Proc /\ q[k] \in Held(q)
  BY DEF Held
<1> QED
  BY <1>3, <1>5, <1>7, <1>8, <1>9, <1>10

\* The one in front is taken out.
LEMMA TailHolds ==
    ASSUME NEW q \in Seq(Proc), q # <<>>, NoTwice(q)
    PROVE  /\ Tail(q) \in Seq(Proc) /\ NoTwice(Tail(q))
           /\ Held(Tail(q)) = Held(q) \ {Head(q)}
           /\ Head(q) \in Proc /\ Head(q) \in Held(q)
           /\ \A R : InOrder(q, R) => /\ InOrder(Tail(q), R)
                                      /\ \A r \in Held(Tail(q)) : <<Head(q), r>> \in R
<1>1. PICK n \in Nat : n = Len(q) /\ DOMAIN q = 1 .. n /\ n > 0
  OBVIOUS
<1>2. 1 \in DOMAIN q /\ Head(q) = q[1]
  BY <1>1
<1>3. Tail(q) = Remove(q, 1)
  <2>1. SubSeq(q, 1, 1 - 1) = <<>> /\ Tail(q) = SubSeq(q, 2, Len(q))
    BY <1>1
  <2>2. SubSeq(q, 1 + 1, Len(q)) \in Seq(Proc)
    BY <1>1, PartsOf
  <2> QED
    BY <2>1, <2>2 DEF Remove
<1>4. ASSUME NEW R, InOrder(q, R), NEW r \in Held(Tail(q)) PROVE <<q[1], r>> \in R
  <2>1. r \in Held(q) /\ r # q[1]
    BY <1>2, <1>3, RemoveHolds
  <2>2. PICK i \in 1 .. n : r = q[i]
    BY <1>1, <2>1 DEF Held
  <2>3. 1 \in 1 .. n /\ 1 < i
    BY <1>1, <2>1, <2>2
  <2> QED
    BY <1>1, <1>4, <2>2, <2>3 DEF InOrder
<1>5. PICK s : s = Tail(q)
  OBVIOUS
<1>6. /\ s \in Seq(Proc) /\ NoTwice(s) /\ Held(s) = Held(q) \ {q[1]}
      /\ q[1] \in Proc /\ q[1] \in Held(q) /\ \A R : InOrder(q, R) => InOrder(s, R)
  BY <1>2, <1>3, <1>5, RemoveHolds
<1> QED
  BY <1>2, <1>4, <1>5, <1>6

\* One is put behind the first k.
Spliced(q, k, p) == SubSeq(q, 1, k) \o <<p>> \o SubSeq(q, k + 1, Len(q))

LEMMA SplicedHolds ==
    ASSUME NEW q \in Seq(Proc), NEW p \in Proc, NEW k \in 0 .. Len(q)
    PROVE  /\ Spliced(q, k, p) \in Seq(Proc) /\ Spliced(q, k, p) # <<>>
           /\ Held(Spliced(q, k, p)) = Held(q) \cup {p}
           /\ NoTwice(q) /\ p \notin Held(q) => NoTwice(Spliced(q, k, p))
           /\ \A R : /\ InOrder(q, R)
                     /\ \A i \in 1 .. k : <<q[i], p>> \in R
                     /\ \A i \in k + 1 .. Len(q) : <<p, q[i]>> \in R
                     => InOrder(Spliced(q, k, p), R)
<1>1. PICK n \in Nat : n = Len(q) /\ DOMAIN q = 1 .. n
  OBVIOUS
<1>2. PICK s : s = Spliced(q, k, p)
  OBVIOUS
<1>3. PICK at : at = [i \in 1 .. n |-> IF i <= k THEN i ELSE i + 1]
  OBVIOUS
<1>4. /\ s \in Seq(Proc) /\ DOMAIN s = 1 .. n + 1 /\ s # <<>> /\ s[k + 1] = p
      /\ \A i \in 1 .. n : s[at[i]] = q[i]
  <2>1. PICK a, b : a = SubSeq(q, 1, k) /\ b = SubSeq(q, k + 1, Len(q))
    OBVIOUS
  <2>2. /\ a \in Seq(Proc) /\ Len(a) = k /\ \A i \in 1 .. k : a[i] = q[i]
        /\ b \in Seq(Proc) /\ Len(b) = n - k /\ \A i \in 1 .. n - k : b[i] = q[k + i]
    <3>1. /\ 0 \in Nat /\ 0 <= k /\ 0 + 1 = 1 /\ k - 0 = k /\ k \in 0 .. Len(q)
          /\ k \in Nat /\ n \in 0 .. Len(q) /\ k <= n
      BY <1>1
    <3>2. \A i \in 1 .. k : 0 + i = i
      OBVIOUS
    <3>3. a \in Seq(Proc) /\ Len(a) = k /\ \A i \in 1 .. k : a[i] = q[i]
      BY <2>1, <3>1, <3>2, PartsOf
    <3>4. b \in Seq(Proc) /\ Len(b) = n - k /\ \A i \in 1 .. n - k : b[i] = q[k + i]
      BY <1>1, <2>1, <3>1, PartsOf
    <3> QED
      BY <3>3, <3>4
  <2>3. PICK c : c = a \o <<p>>
    OBVIOUS
  <2>4. /\ c \in Seq(Proc) /\ Len(c) = k + 1 /\ c[k + 1] = p
        /\ \A i \in 1 .. k : c[i] = q[i]
    <3>1. <<p>> \in Seq(Proc) /\ Len(<<p>>) = 1 /\ <<p>>[1] = p
      OBVIOUS
    <3>2. c \in Seq(Proc) /\ Len(c) = k + 1
      BY <2>2, <2>3, <3>1
    <3>3. \A i \in 1 .. k : c[i] = a[i]
      BY <2>2, <2>3, <3>1
    <3>4. c[k + 1] = p
      BY <2>2, <2>3, <3>1
    <3> QED
      BY <2>2, <3>2, <3>3, <3>4
  <2>5. s = c \o b
    BY <1>2, <2>1, <2>3 DEF Spliced
  <2>6. s \in Seq(Proc) /\ Len(s) = n + 1 /\ s[k + 1] = p
    BY <1>1, <2>2, <2>4, <2>5
  <2>7. ASSUME NEW i \in 1 .. n PROVE s[at[i]] = q[i]
    <3>1. CASE i <= k
      BY <1>1, <1>3, <2>2, <2>4, <2>5, <3>1
    <3>2. CASE ~(i <= k)
      <4>1. at[i] = i + 1 /\ i + 1 \in k + 2 .. n + 1
        BY <1>1, <1>3, <3>2
      <4>2. s[i + 1] = b[(i + 1) - (k + 1)]
        BY <1>1, <2>2, <2>4, <2>5, <4>1
      <4>3. (i + 1) - (k + 1) \in 1 .. n - k /\ k + ((i + 1) - (k + 1)) = i
        BY <1>1, <3>2
      <4> QED
        BY <2>2, <4>1, <4>2, <4>3
    <3> QED
      BY <3>1, <3>2
  <2> QED
    BY <2>6, <2>7
<1>5. /\ k + 1 \in 1 .. n + 1
      /\ \A i \in 1 .. n : at[i] \in 1 .. n + 1 /\ at[i] # k + 1
      /\ \A i \in 1 .. n : (i <= k => at[i] < k + 1) /\ (~(i <= k) => k + 1 < at[i])
      /\ \A i, j \in 1 .. n : at[i] < at[j] <=> i < j
      /\ \A i \in 1 .. n + 1 : i = k + 1 \/ \E j \in 1 .. n : at[j] = i
  <2>1. ASSUME NEW i \in 1 .. n + 1, i # k + 1 PROVE \E j \in 1 .. n : at[j] = i
    <3>1. CASE i <= k
      BY <1>1, <1>3, <3>1
    <3>2. CASE ~(i <= k)
      <4>1. i - 1 \in 1 .. n /\ ~(i - 1 <= k) /\ (i - 1) + 1 = i
        BY <1>1, <2>1, <3>2
      <4> QED
        BY <1>3, <4>1
    <3> QED
      BY <3>1, <3>2
  <2> QED
    BY <1>1, <1>3, <2>1
<1>6. Held(s) = Held(q) \cup {p}
  <2>1. Held(s) \subseteq Held(q) \cup {p}
    <3>1. SUFFICES ASSUME NEW i \in 1 .. n + 1 PROVE s[i] \in Held(q) \cup {p}
      BY <1>4 DEF Held
    <3>2. CASE i = k + 1
      BY <1>4, <3>2
    <3>3. ASSUME NEW j \in 1 .. n, at[j] = i PROVE s[i] \in Held(q)
      BY <1>1, <1>4, <3>3 DEF Held
    <3> QED
      BY <1>5, <3>2, <3>3
  <2>2. Held(q) \cup {p} \subseteq Held(s)
    <3>1. p \in Held(s)
      BY <1>4, <1>5 DEF Held
    <3>2. ASSUME NEW i \in 1 .. n PROVE q[i] \in Held(s)
      BY <1>4, <1>5 DEF Held
    <3> QED
      BY <1>1, <3>1, <3>2 DEF Held
  <2> QED
    BY <2>1, <2>2
<1>7. ASSUME NoTwice(q), p \notin Held(q) PROVE NoTwice(s)
  <2>1. SUFFICES ASSUME NEW i \in 1 .. n + 1, NEW j \in 1 .. n + 1, s[i] = s[j] PROVE i = j
    BY <1>4 DEF NoTwice
  <2>2. \A x \in 1 .. n : q[x] # p
    BY <1>1, <1>7 DEF Held
  <2>3. CASE i = k + 1 \/ j = k + 1
    <3>1. \A x \in 1 .. n + 1 : x # k + 1 => s[x] # p
      <4>1. SUFFICES ASSUME NEW x \in 1 .. n + 1, x # k + 1 PROVE s[x] # p
        OBVIOUS
      <4>2. PICK y \in 1 .. n : at[y] = x
        BY <1>5, <4>1
      <4> QED
        BY <1>4, <2>2, <4>2
    <3> QED
      BY <1>4, <2>1, <2>3, <3>1
  <2>4. CASE i # k + 1 /\ j # k + 1
    <3>1. PICK x \in 1 .. n, y \in 1 .. n : at[x] = i /\ at[y] = j
      BY <1>5, <2>4
    <3>2. q[x] = q[y]
      BY <1>4, <2>1, <3>1
    <3> QED
      BY <1>1, <1>7, <3>1, <3>2 DEF NoTwice
  <2> QED
    BY <2>3, <2>4
<1>8. ASSUME NEW R, InOrder(q, R), \A i \in 1 .. k : <<q[i], p>> \in R,
             \A i \in k + 1 .. Len(q) : <<p, q[i]>> \in R
      PROVE  InOrder(s, R)
  <2>1. SUFFICES ASSUME NEW i \in 1 .. n + 1, NEW j \in 1 .. n + 1, i < j
                 PROVE  <<s[i], s[j]>> \in R
    BY <1>4 DEF InOrder
  <2>2. CASE i = k + 1
    <3>1. PICK y \in 1 .. n : at[y] = j
      BY <1>5, <2>1, <2>2
    <3>2. y \in k + 1 .. n
      BY <1>5, <2>1, <2>2, <3>1
    <3> QED
      BY <1>1, <1>4, <1>8, <2>2, <3>1, <3>2
  <2>3. CASE j = k + 1
    <3>1. PICK x \in 1 .. n : at[x] = i
      BY <1>5, <2>1, <2>3
    <3>2. x \in 1 .. k
      BY <1>5, <2>1, <2>3, <3>1
    <3> QED
      BY <1>4, <1>8, <2>3, <3>1, <3>2
  <2>4. CASE i # k + 1 /\ j # k + 1
    <3>1. PICK x \in 1 .. n, y \in 1 .. n : at[x] = i /\ at[y] = j
      BY <1>5, <2>4
    <3>2. x < y
      BY <1>5, <2>1, <3>1
    <3>3. <<q[x], q[y]>> \in R
      BY <1>1, <1>8, <3>1, <3>2 DEF InOrder
    <3> QED
      BY <1>4, <3>1, <3>3
  <2> QED
    BY <2>2, <2>3, <2>4
<1> QED
  BY <1>1, <1>2, <1>4, <1>6, <1>7, <1>8

\* The sorted insertion: where everybody either comes before the new one
\* or behind it, order is kept.
LEMMA SortedHolds ==
    ASSUME NEW q \in Seq(Proc), NEW p \in Proc, NEW passed
    PROVE  /\ Sorted(q, p, passed) \in Seq(Proc) /\ Sorted(q, p, passed) # <<>>
           /\ Held(Sorted(q, p, passed)) = Held(q) \cup {p}
           /\ NoTwice(q) /\ p \notin Held(q) => NoTwice(Sorted(q, p, passed))
           /\ \A R : /\ InOrder(q, R)
                     /\ \A r \in Held(q) : IF r \in passed THEN <<p, r>> \in R
                                           ELSE <<r, p>> \in R
                     /\ \A r, s \in Held(q) : <<r, s>> \in R /\ s \notin passed => r \notin passed
                     => InOrder(Sorted(q, p, passed), R)
<1>1. PICK n \in Nat : n = Len(q) /\ DOMAIN q = 1 .. n
  OBVIOUS
<1>2. PICK k \in 0 .. n : /\ k > 0 => q[k] \notin passed
                          /\ \A j \in k + 1 .. n : q[j] \in passed
                          /\ Sorted(q, p, passed) = Spliced(q, k, p)
  <2>1. PICK T : T = {i \in 0 .. n : \A j \in i + 1 .. n : q[j] \in passed}
    OBVIOUS
  <2>2. n \in T /\ T \in SUBSET Nat
    BY <2>1
  <2>3. PICK m \in T : \A i \in T : m <= i
    BY <2>2, SmallestOf
  <2>4. m > 0 => q[m] \notin passed
    <3>1. SUFFICES ASSUME m > 0, q[m] \in passed PROVE FALSE
      OBVIOUS
    <3>2. m - 1 \in 0 .. n /\ \A j \in (m - 1) + 1 .. n : j = m \/ j \in m + 1 .. n
      BY <2>1, <3>1
    <3>3. m - 1 \in T
      BY <2>1, <3>1, <3>2
    <3> QED
      BY <2>1, <2>3, <3>3
  <2>5. m \in 0 .. n /\ \A j \in m + 1 .. n : q[j] \in passed
    BY <2>1
  <2>6. PICK k : k = CHOOSE i \in 0 .. Len(q) :
                        /\ i > 0 => q[i] \notin passed
                        /\ \A j \in i + 1 .. Len(q) : q[j] \in passed
    OBVIOUS
  <2>7. /\ k \in 0 .. n /\ (k > 0 => q[k] \notin passed)
        /\ \A j \in k + 1 .. n : q[j] \in passed
    BY <1>1, <2>4, <2>5, <2>6
  <2>8. Sorted(q, p, passed) = Spliced(q, k, p)
    BY <2>6 DEF Sorted, Spliced
  <2> QED
    BY <2>7, <2>8
<1>3. ASSUME NEW R, InOrder(q, R),
             \A r \in Held(q) : IF r \in passed THEN <<p, r>> \in R ELSE <<r, p>> \in R,
             \A r, s \in Held(q) : <<r, s>> \in R /\ s \notin passed => r \notin passed
      PROVE  InOrder(Spliced(q, k, p), R)
  <2>1. ASSUME NEW i \in 1 .. k PROVE <<q[i], p>> \in R
    <3>1. i \in 1 .. n /\ k \in 1 .. n /\ q[k] \notin passed /\ (i = k \/ i < k)
      BY <1>2
    <3>2. q[i] \in Held(q) /\ q[k] \in Held(q)
      BY <1>1, <3>1 DEF Held
    <3>3. q[i] \notin passed
      BY <1>1, <1>3, <3>1, <3>2 DEF InOrder
    <3> QED
      BY <1>3, <3>2, <3>3
  <2>2. ASSUME NEW i \in k + 1 .. Len(q) PROVE <<p, q[i]>> \in R
    <3>1. i \in 1 .. n /\ q[i] \in passed
      BY <1>1, <1>2
    <3>2. q[i] \in Held(q)
      BY <1>1, <3>1 DEF Held
    <3> QED
      BY <1>3, <3>1, <3>2
  <2> QED
    BY <1>1, <1>3, <2>1, <2>2, SplicedHolds
<1>4. k \in 0 .. Len(q)
  BY <1>1, <1>2
<1>5. /\ Spliced(q, k, p) \in Seq(Proc) /\ Spliced(q, k, p) # <<>>
      /\ Held(Spliced(q, k, p)) = Held(q) \cup {p}
      /\ NoTwice(q) /\ p \notin Held(q) => NoTwice(Spliced(q, k, p))
  BY <1>4, SplicedHolds
<1> QED
  BY <1>2, <1>3, <1>5
-----------------------------------------------------------------------------
LevelNo == 0 .. Levels - 1

\* p is in one of the queues.
In(qs, p) == \E l \in LevelNo : p \in Held(qs[l])

\* Nobody is in the queues twice.
OneEach(qs) ==
    /\ \A l \in LevelNo : NoTwice(qs[l])
    /\ \A l, k \in LevelNo : l # k => Held(qs[l]) \cap Held(qs[k]) = {}

Queues == [LevelNo -> Seq(Proc)]

\* The queues hold those who wait; only MLF has more than one.
Queued ==
    /\ OneEach(queue)
    /\ \A p \in Proc : In(queue, p) <=> p \in Waiting
    /\ strategy # "MLF" => \A l \in LevelNo \ {0} : queue[l] = <<>>

\* Nobody works before he arrives; one who is forgotten does not run.
Fresh ==
    /\ \A p \in Proc \ Admitted : left[p] = burst[p]
    /\ dropped \subseteq Admitted
    /\ running # None => running \in Admitted \ dropped

\* Who comes before whom in queue 0.
Rank ==
    {x \in Proc \X Proc :
        /\ strategy \in {"FCFS", "LCFS"} => start[x[1]] < start[x[2]]
        /\ strategy = "PRIOP" => prio[x[1]] >= prio[x[2]]
        /\ strategy = "SRTNP" => left[x[1]] <= left[x[2]]}

Ranked == InOrder(queue[0], Rank)

SInv == TypeOK /\ Queued /\ Fresh /\ Ranked /\ RunningRanksFirst

\* The process that runs and has not finished.
Current == IF running = None \/ left[running] = 0 THEN {} ELSE {running}

\* Those the tick chooses from.
Pool == Waiting \cup NewArrival \cup Current

LEMMA Typing ==
    ASSUME TypeOK
    PROVE  /\ start \in [Proc -> Nat] /\ burst \in [Proc -> Nat \ {0}]
           /\ prio \in [Proc -> Nat] /\ left \in [Proc -> Nat]
           /\ queue \in Queues /\ DOMAIN queue = LevelNo /\ 0 \in LevelNo
           /\ queue[0] \in Seq(Proc) /\ time \in Nat /\ Proc \subseteq Nat
           /\ NumProc \in Nat /\ Quantum \in Nat \ {0} /\ None \notin Proc
           /\ running \in Proc \cup {None} /\ strategy \in Strategy
<1>1. 0 \in LevelNo
  BY SchedulerAssumption DEF LevelNo
<1>2. start \in [Proc -> Nat] /\ burst \in [Proc -> Nat \ {0}] /\ prio \in [Proc -> Nat]
  BY SchedulerAssumption DEF TypeOK
<1>3. queue \in Queues
  BY DEF TypeOK, Queues, LevelNo
<1>4. queue[0] \in Seq(Proc) /\ DOMAIN queue = LevelNo
  BY <1>1, <1>3 DEF Queues
<1>5. Proc \subseteq Nat /\ NumProc \in Nat /\ Quantum \in Nat \ {0} /\ None \notin Proc
  BY SchedulerAssumption, NoneAssumption DEF Proc
<1> QED
  BY <1>1, <1>2, <1>3, <1>4, <1>5 DEF TypeOK

\* Of the processes one at most is taken in, and it is new.
LEMMA ArrivalIs ==
    ASSUME TypeOK, Fresh
    PROVE  /\ NewArrival \subseteq Proc
           /\ \A p, r \in NewArrival : p = r
           /\ \A p \in NewArrival : start[p] = time /\ p \notin Admitted /\ left[p] > 0
<1>1. start \in [Proc -> Nat] /\ burst \in [Proc -> Nat \ {0}] /\ Proc \subseteq Nat
  BY Typing
<1>2. ASSUME NEW p \in NewArrival, NEW r \in NewArrival PROVE p = r
  <2>1. p \in Nat /\ r \in Nat /\ start[p] = start[r] /\ ~Before(r, p) /\ ~Before(p, r)
    BY <1>1, <1>2 DEF NewArrival
  <2> QED
    BY <2>1 DEF Before
<1>3. ASSUME NEW p \in NewArrival
      PROVE  p \in Proc /\ start[p] = time /\ p \notin Admitted /\ left[p] > 0
  <2>1. p \in Proc /\ start[p] = time
    BY DEF NewArrival
  <2>2. p \notin Admitted
    BY <1>1, <2>1 DEF Admitted
  <2> QED
    BY <1>1, <2>1, <2>2 DEF Fresh
<1> QED
  BY <1>2, <1>3

LEMMA AdmittedIs ==
    ASSUME TypeOK, time' = time + 1, start' = start
    PROVE  Admitted' = Admitted \cup NewArrival
<1>1. start \in [Proc -> Nat] /\ time \in Nat
  BY Typing
<1>2. \A p, q : Before(p, q)' <=> Before(p, q)
  BY DEF Before
<1>3. \A p \in Proc : start'[p] < time' <=> start[p] < time \/ start[p] = time
  BY <1>1
<1>4. Admitted' = {p \in Proc : start[p] < time' /\ ~ \E q \in Proc : start[q] = start[p] /\ Before(q, p)}
  BY <1>2 DEF Admitted
<1> QED
  BY <1>1, <1>3, <1>4 DEF Admitted, NewArrival

\* The pool without those who are not in the queues.
LEMMA PoolIs ==
    ASSUME TypeOK, Queued, Fresh
    PROVE  /\ Pool \subseteq Proc /\ Current \subseteq Proc
           /\ Waiting \cap NewArrival = {} /\ Waiting \cap Current = {}
           /\ NewArrival \cap Current = {}
           /\ \A p \in Pool : left[p] > 0
           /\ Free => Current = {}
           /\ ~Free => Current = {running} /\ running \in Proc /\ running # None
<1>1. Waiting \subseteq Proc /\ \A p \in Waiting : left[p] > 0 /\ p \in Admitted /\ p # running
  BY DEF Waiting, Admitted
<1>2. /\ NewArrival \subseteq Proc
      /\ \A p \in NewArrival : p \notin Admitted /\ left[p] > 0
  BY ArrivalIs
<1>3. /\ Current \subseteq Proc
      /\ \A p \in Current : p = running /\ p \in Admitted /\ left[p] > 0
  BY Typing DEF Current, Fresh
<1>4. (Free => Current = {}) /\ (~Free => Current = {running} /\ running \in Proc /\ running # None)
  BY Typing DEF Current, Free
<1> QED
  BY <1>1, <1>2, <1>3, <1>4 DEF Pool

\* Queue 0 after X_new_arrival.
LEMMA InsertHolds ==
    ASSUME TypeOK, Fresh, Ranked, NEW p \in NewArrival,
           NoTwice(queue[0]), Held(queue[0]) \subseteq Waiting
    PROVE  LET q == Insert(queue[0], p)
           IN  /\ q \in Seq(Proc) /\ NoTwice(q)
               /\ Held(q) = Held(queue[0]) \cup {p}
               /\ InOrder(q, Rank)
<1>1. p \in Proc /\ start[p] = time /\ p \notin Admitted /\ queue[0] \in Seq(Proc)
  BY ArrivalIs, Typing
<1>2. Held(queue[0]) \subseteq Proc /\ Held(queue[0]) \subseteq Admitted /\ p \notin Held(queue[0])
  BY <1>1 DEF Waiting, Admitted
<1>3. \A r \in Held(queue[0]) : start[r] < start[p]
  BY <1>1, <1>2 DEF Admitted
<1>4. CASE strategy = "PRIOP"
  <2>1. PICK passed : passed = {r \in Proc : prio[r] < prio[p]}
    OBVIOUS
  <2>2. Insert(queue[0], p) = Sorted(queue[0], p, passed)
    BY <1>4, <2>1 DEF Insert, ByPriority
  <2>3. \A x, y \in Proc : <<x, y>> \in Rank <=> prio[x] >= prio[y]
    BY <1>4 DEF Rank
  <2>4. prio \in [Proc -> Nat]
    BY Typing
  <2>5. \A r \in Held(queue[0]) : IF r \in passed THEN <<p, r>> \in Rank ELSE <<r, p>> \in Rank
    BY <1>1, <1>2, <2>1, <2>3, <2>4
  <2>6. \A r, s \in Held(queue[0]) : <<r, s>> \in Rank /\ s \notin passed => r \notin passed
    BY <1>1, <1>2, <2>1, <2>3, <2>4
  <2> QED
    BY <1>1, <1>2, <2>2, <2>5, <2>6, SortedHolds DEF Ranked
<1>5. CASE strategy = "SRTNP"
  <2>1. PICK passed : passed = {r \in Proc : left[r] > left[p]}
    OBVIOUS
  <2>2. Insert(queue[0], p) = Sorted(queue[0], p, passed)
    BY <1>5, <2>1 DEF Insert, ByTimeLeft
  <2>3. \A x, y \in Proc : <<x, y>> \in Rank <=> left[x] <= left[y]
    BY <1>5 DEF Rank
  <2>4. left \in [Proc -> Nat]
    BY Typing
  <2>5. \A r \in Held(queue[0]) : IF r \in passed THEN <<p, r>> \in Rank ELSE <<r, p>> \in Rank
    BY <1>1, <1>2, <2>1, <2>3, <2>4
  <2>6. \A r, s \in Held(queue[0]) : <<r, s>> \in Rank /\ s \notin passed => r \notin passed
    BY <1>1, <1>2, <2>1, <2>3, <2>4
  <2> QED
    BY <1>1, <1>2, <2>2, <2>5, <2>6, SortedHolds DEF Ranked
<1>6. CASE strategy \notin {"PRIOP", "SRTNP"}
  <2>1. Insert(queue[0], p) = Append(queue[0], p)
    BY <1>6 DEF Insert
  <2>2. \A r \in Held(queue[0]) : <<r, p>> \in Rank
    BY <1>1, <1>2, <1>3, <1>6 DEF Rank
  <2> QED
    BY <1>1, <1>2, <2>1, <2>2, AppendHolds DEF Ranked
<1> QED
  BY <1>4, <1>5, <1>6

LEMMA ReadyIs ==
    ASSUME SInv
    PROVE  /\ Ready \in Seq(Proc) /\ NoTwice(Ready)
           /\ Held(Ready) = Held(queue[0]) \cup NewArrival
           /\ InOrder(Ready, Rank)
<1>1. TypeOK /\ Fresh /\ Ranked /\ NoTwice(queue[0]) /\ queue[0] \in Seq(Proc) /\ 0 \in LevelNo
  BY Typing DEF SInv, Queued, OneEach
<1>2. Held(queue[0]) \subseteq Waiting
  <2>1. \A p \in Held(queue[0]) : p \in Proc /\ In(queue, p)
    BY <1>1 DEF In, Held
  <2> QED
    BY <2>1 DEF SInv, Queued
<1>3. CASE NewArrival = {}
  BY <1>1, <1>3 DEF Ready, Ranked
<1>4. CASE NewArrival # {}
  <2>1. PICK p \in NewArrival : p = CHOOSE r \in NewArrival : TRUE
    BY <1>4
  <2>2. NewArrival = {p} /\ Ready = Insert(queue[0], p)
    BY <1>1, <1>4, <2>1, ArrivalIs DEF Ready
  <2> QED
    BY <1>1, <1>2, <2>2, InsertHolds
<1> QED
  BY <1>3, <1>4

\* Where there is one queue it holds all who wait.
LEMMA OneQueue ==
    ASSUME SInv, strategy # "MLF"
    PROVE  /\ Held(queue[0]) = Waiting
           /\ Held(Ready) = Waiting \cup NewArrival
<1>1. 0 \in LevelNo /\ queue \in Queues
  BY Typing DEF SInv
<1>2. \A p : In(queue, p) <=> p \in Held(queue[0])
  <2>1. \A l \in LevelNo \ {0} : Held(queue[l]) = {}
    BY DEF SInv, Queued, Held
  <2> QED
    BY <1>1, <2>1 DEF In
<1>3. Held(queue[0]) \subseteq Proc /\ Waiting \subseteq Proc
  BY <1>1 DEF Held, Queues, Waiting, Admitted
<1>4. Held(queue[0]) = Waiting
  BY <1>2, <1>3 DEF SInv, Queued
<1> QED
  BY <1>4, ReadyIs
-----------------------------------------------------------------------------
\* p may run, and q is then what queue 0 holds.
Lined(p, q) ==
    /\ p \in Pool
    /\ q \in Seq(Proc) /\ NoTwice(q) /\ Held(q) = Pool \ {p}
    /\ InOrder(q, Rank)

\* p comes before all those.
Leads(p, q) == \A w \in Held(q) : <<p, w>> \in Rank

\* One of the pool is given the processor, without those that are forgotten.
Picks(p, gone) ==
    /\ p \in Pool \ gone /\ gone \subseteq Current
    /\ Save(p)
    /\ Work(p) \/ (strategy = "PRIOP" /\ UNCHANGED left)
    /\ queue' \in Queues /\ OneEach(queue')
    /\ \A r \in Proc : In(queue', r) <=> r \in Pool \ (gone \cup {p})
    /\ strategy # "MLF" => \A l \in LevelNo \ {0} : queue'[l] = <<>>
    /\ InOrder(queue'[0], Rank)
    /\ strategy \in {"FCFS", "PRIOP", "SRTNP"} => Leads(p, queue'[0])
    /\ dropped' = dropped \cup gone /\ (strategy # "MLF" => gone = {})
    /\ slice' \in Nat /\ level' \in LevelNo /\ wait' \in [Proc -> Nat]

\* There is nobody to give it to.
Rests ==
    /\ Pool = {} /\ Idle
    /\ UNCHANGED <<level, wait, dropped>> /\ slice' \in Nat
    /\ strategy \notin {"LCFS", "HRRN", "MLF"}

LEMMA HeadLined ==
    ASSUME SInv, strategy # "MLF", Free, Ready # <<>>
    PROVE  Lined(Head(Ready), Tail(Ready)) /\ Leads(Head(Ready), Tail(Ready))
<1>1. Held(Ready) = Pool
  BY OneQueue, PoolIs DEF SInv, Pool
<1>2. Ready \in Seq(Proc) /\ NoTwice(Ready) /\ InOrder(Ready, Rank)
  BY ReadyIs
<1> QED
  BY <1>1, <1>2, TailHolds DEF Lined, Leads

LEMMA PlaceLined ==
    ASSUME SInv, strategy # "MLF", Free, NEW i \in DOMAIN Ready
    PROVE  Lined(Ready[i], Remove(Ready, i))
<1>1. Held(Ready) = Pool
  BY OneQueue, PoolIs DEF SInv, Pool
<1>2. Ready \in Seq(Proc) /\ NoTwice(Ready) /\ InOrder(Ready, Rank)
  BY ReadyIs
<1> QED
  BY <1>1, <1>2, RemoveHolds DEF Lined

LEMMA RunningLined ==
    ASSUME SInv, strategy # "MLF", ~Free
    PROVE  Lined(running, Ready)
<1>1. /\ Current = {running} /\ running \in Proc /\ Waiting \cap Current = {}
      /\ NewArrival \cap Current = {}
  BY PoolIs DEF SInv
<1>2. Held(Ready) = Pool \ {running} /\ running \in Pool
  BY <1>1, OneQueue DEF Pool
<1> QED
  BY <1>2, ReadyIs DEF Lined

LEMMA NobodyThere ==
    ASSUME SInv, strategy # "MLF", Free, Ready = <<>>
    PROVE  Pool = {}
<1>1. Held(Ready) = {}
  BY DEF Held
<1> QED
  BY <1>1, OneQueue, PoolIs DEF SInv, Pool

LEMMA LinedPicks ==
    ASSUME SInv, strategy # "MLF", NEW p, NEW q, Lined(p, q), Save(p),
           Work(p) \/ (strategy = "PRIOP" /\ UNCHANGED left),
           queue' = [queue EXCEPT ![0] = q],
           strategy \in {"FCFS", "PRIOP", "SRTNP"} => Leads(p, q),
           UNCHANGED <<level, dropped>>, slice' \in Nat, wait' \in [Proc -> Nat]
    PROVE  Picks(p, {})
<1>1. queue \in Queues /\ 0 \in LevelNo /\ TypeOK
  BY Typing DEF SInv
<1>2. /\ queue' \in Queues /\ queue'[0] = q
      /\ \A l \in LevelNo \ {0} : queue'[l] = queue[l] /\ queue[l] = <<>>
  BY <1>1 DEF Queues, Lined, SInv, Queued
<1>3. \A l \in LevelNo \ {0} : Held(queue'[l]) = {} /\ NoTwice(queue'[l])
  BY <1>2 DEF Held, NoTwice
<1>4. OneEach(queue')
  BY <1>1, <1>2, <1>3 DEF OneEach, Lined
<1>5. \A r : In(queue', r) <=> r \in Held(q)
  BY <1>1, <1>2, <1>3 DEF In
<1>6. level' \in LevelNo
  BY <1>1 DEF TypeOK, LevelNo
<1> QED
  BY <1>2, <1>4, <1>5, <1>6 DEF Picks, Lined

\* Every strategy of one queue is one of these; each says who it is.
LEMMA FCFS_Picks ==
    ASSUME SInv, strategy = "FCFS", FCFS_tick
    PROVE  Rests \/ \E p \in Proc : Picks(p, {})
<1>1. TypeOK /\ slice' \in Nat /\ wait' \in [Proc -> Nat] /\ UNCHANGED <<level, dropped>>
  BY DEF SInv, FCFS_tick, TypeOK
<1>2. CASE Free /\ Ready = <<>> /\ Idle
  BY <1>1, <1>2, NobodyThere DEF Rests, FCFS_tick
<1>3. CASE Free /\ Ready # <<>> /\ Run(Head(Ready), Tail(Ready))
  <2>1. Lined(Head(Ready), Tail(Ready)) /\ Leads(Head(Ready), Tail(Ready))
    BY <1>3, HeadLined
  <2>2. Picks(Head(Ready), {})
    BY <1>1, <1>3, <2>1, LinedPicks DEF Run
  <2> QED
    BY <2>1, <2>2, PoolIs DEF Lined, SInv
<1>4. CASE ~Free /\ Run(running, Ready)
  <2>1. Lined(running, Ready) /\ running \in Proc /\ running # None
    BY <1>4, RunningLined, PoolIs DEF SInv
  <2>2. Leads(running, Ready)
    <3>1. SUFFICES ASSUME NEW w \in Held(Ready) PROVE <<running, w>> \in Rank
      BY DEF Leads
    <3>2. w \in Proc /\ w \in Waiting \cup NewArrival
      BY <2>1, OneQueue, PoolIs DEF Lined, SInv
    <3>3. CASE w \in Waiting
      BY <2>1, <3>2, <3>3 DEF SInv, RunningRanksFirst, Rank
    <3>4. CASE w \in NewArrival
      BY <2>1, <3>2, <3>4, ArrivalIs DEF SInv, Fresh, Admitted, Rank
    <3> QED
      BY <3>2, <3>3, <3>4
  <2>3. Picks(running, {})
    BY <1>1, <1>4, <2>1, <2>2, LinedPicks DEF Run
  <2> QED
    BY <2>1, <2>3
<1> QED
  BY <1>2, <1>3, <1>4 DEF FCFS_tick

LEMMA LCFS_Picks ==
    ASSUME SInv, strategy = "LCFS", LCFS_tick
    PROVE  Crash \/ \E p \in Proc : Picks(p, {})
<1>1. SUFFICES ASSUME ~Crash PROVE \E p \in Proc : Picks(p, {})
  OBVIOUS
<1>2. slice' \in Nat /\ wait' \in [Proc -> Nat] /\ UNCHANGED <<level, dropped>>
  BY <1>1 DEF SInv, LCFS_tick, TypeOK
<1>3. CASE Free /\ Ready # <<>> /\ Run(Ready[Len(Ready)], Remove(Ready, Len(Ready)))
  <2>1. Len(Ready) \in DOMAIN Ready
    BY <1>3, ReadyIs
  <2>2. Lined(Ready[Len(Ready)], Remove(Ready, Len(Ready)))
    BY <1>3, <2>1, PlaceLined
  <2>3. Picks(Ready[Len(Ready)], {})
    BY <1>2, <1>3, <2>2, LinedPicks DEF Run
  <2> QED
    BY <2>2, <2>3, PoolIs DEF Lined, SInv
<1>4. CASE ~Free /\ Run(running, Ready)
  <2>1. Lined(running, Ready) /\ running \in Proc
    BY <1>4, RunningLined, PoolIs DEF SInv
  <2>2. Picks(running, {})
    BY <1>2, <1>4, <2>1, LinedPicks DEF Run
  <2> QED
    BY <2>1, <2>2
<1> QED
  BY <1>1, <1>3, <1>4 DEF LCFS_tick

LEMMA RR_Picks ==
    ASSUME SInv, strategy = "RR", RR_tick
    PROVE  Rests \/ \E p \in Proc : Picks(p, {})
<1>1. /\ wait' \in [Proc -> Nat] /\ UNCHANGED <<level, dropped, wait>>
      /\ slice \in Nat /\ Quantum \in Nat /\ Quantum - 1 \in Nat
  BY SchedulerAssumption DEF SInv, RR_tick, TypeOK
<1>2. CASE Free /\ Ready = <<>> /\ Idle /\ slice' = Quantum
  BY <1>1, <1>2, NobodyThere DEF Rests
<1>3. CASE Free /\ Ready # <<>> /\ Run(Head(Ready), Tail(Ready)) /\ slice' = Quantum - 1
  <2>1. Lined(Head(Ready), Tail(Ready))
    BY <1>3, HeadLined
  <2>2. Picks(Head(Ready), {})
    BY <1>1, <1>3, <2>1, LinedPicks DEF Run
  <2> QED
    BY <2>1, <2>2, PoolIs DEF Lined, SInv
<1>4. CASE /\ ~Free /\ slice = 0 /\ slice' = Quantum - 1
           /\ LET q == Append(Ready, running) IN Run(Head(q), Tail(q))
  <2>1. Lined(running, Ready) /\ running \in Proc
    BY <1>4, RunningLined, PoolIs DEF SInv
  <2>2. PICK q : q = Append(Ready, running)
    OBVIOUS
  <2>3. /\ q \in Seq(Proc) /\ q # <<>> /\ NoTwice(q) /\ Held(q) = Pool
        /\ InOrder(q, Rank)
    <3>1. \A x, y \in Proc : <<x, y>> \in Rank
      BY DEF Rank
    <3>2. /\ Ready \in Seq(Proc) /\ NoTwice(Ready) /\ InOrder(Ready, Rank)
          /\ Held(Ready) = Pool \ {running} /\ running \in Pool
      BY <2>1 DEF Lined
    <3>3. \A r \in Held(Ready) : <<r, running>> \in Rank
      BY <2>1, <3>1, <3>2, PoolIs DEF SInv
    <3>4. running \notin Held(Ready) /\ Held(Ready) \cup {running} = Pool
      BY <3>2
    <3> QED
      BY <2>1, <2>2, <3>2, <3>3, <3>4, AppendHolds
  <2>4. Lined(Head(q), Tail(q)) /\ Head(q) \in Proc
    BY <2>3, TailHolds DEF Lined
  <2>5. Run(Head(q), Tail(q))
    BY <1>4, <2>2
  <2>6. Picks(Head(q), {})
    BY <1>1, <1>4, <2>4, <2>5, LinedPicks DEF Run
  <2> QED
    BY <2>4, <2>6
<1>5. CASE ~Free /\ slice > 0 /\ Run(running, Ready) /\ slice' = slice - 1
  <2>1. Lined(running, Ready) /\ running \in Proc /\ slice' \in Nat
    BY <1>1, <1>5, RunningLined, PoolIs DEF SInv
  <2>2. Picks(running, {})
    BY <1>1, <1>5, <2>1, LinedPicks DEF Run
  <2> QED
    BY <2>1, <2>2
<1> QED
  BY <1>2, <1>3, <1>4, <1>5 DEF RR_tick

LEMMA PRIOP_Picks ==
    ASSUME SInv, strategy = "PRIOP", PRIOP_tick
    PROVE  Rests \/ \E p \in Proc : Picks(p, {})
<1>1. /\ slice' \in Nat /\ wait' \in [Proc -> Nat] /\ UNCHANGED <<level, dropped, wait>>
      /\ prio \in [Proc -> Nat] /\ \A x, y \in Proc : <<x, y>> \in Rank <=> prio[x] >= prio[y]
  BY Typing DEF SInv, PRIOP_tick, TypeOK, Rank
<1>2. CASE Free /\ Ready = <<>> /\ Idle
  BY <1>1, <1>2, NobodyThere DEF Rests
<1>3. ASSUME ~(Free /\ Ready = <<>> /\ Idle) PROVE \E p \in Proc : Picks(p, {})
  <2>1. PICK p, q : /\ p = IF Free THEN Head(Ready) ELSE running
                    /\ q = IF Free THEN Tail(Ready) ELSE Ready
    OBVIOUS
  <2>2. /\ ~Free \/ Ready # <<>>
        /\ \/ q = <<>> /\ Save(p) /\ queue' = [queue EXCEPT ![0] = q] /\ UNCHANGED left
           \/ q # <<>> /\ prio[Head(q)] > prio[p] /\ Run(Head(q), ByPriority(Tail(q), p))
           \/ q # <<>> /\ prio[Head(q)] <= prio[p] /\ Run(p, q)
    BY <1>3, <2>1 DEF PRIOP_tick
  <2>3. Lined(p, q) /\ p \in Proc
    <3>1. Lined(p, q)
      BY <2>1, <2>2, HeadLined, RunningLined
    <3> QED
      BY <3>1, PoolIs DEF Lined, SInv
  <2>4. Held(q) \subseteq Proc
    BY <2>3, PoolIs DEF Lined, SInv
  <2>5. CASE q = <<>> /\ Save(p) /\ queue' = [queue EXCEPT ![0] = q] /\ UNCHANGED left
    <3>1. Leads(p, q)
      BY <2>5 DEF Leads, Held
    <3>2. Picks(p, {})
      BY <1>1, <2>3, <2>5, <3>1, LinedPicks
    <3> QED
      BY <2>3, <3>2
  <2>6. CASE q # <<>> /\ prio[Head(q)] <= prio[p] /\ Run(p, q)
    <3>1. /\ Head(q) \in Proc /\ Held(Tail(q)) = Held(q) \ {Head(q)}
          /\ \A r \in Held(Tail(q)) : <<Head(q), r>> \in Rank
      BY <2>3, <2>6, TailHolds DEF Lined
    <3>2. ASSUME NEW r \in Held(q) PROVE prio[Head(q)] >= prio[r]
      <4>1. CASE r = Head(q)
        BY <1>1, <3>1, <4>1
      <4>2. CASE r # Head(q)
        BY <1>1, <2>4, <3>1, <4>2
      <4> QED
        BY <4>1, <4>2
    <3>3. Leads(p, q)
      BY <1>1, <2>3, <2>4, <2>6, <3>1, <3>2 DEF Leads
    <3>4. Picks(p, {})
      BY <1>1, <2>3, <2>6, <3>3, LinedPicks DEF Run
    <3> QED
      BY <2>3, <3>4
  <2>7. CASE q # <<>> /\ prio[Head(q)] > prio[p] /\ Run(Head(q), ByPriority(Tail(q), p))
    <3>1. PICK h, t, passed : h = Head(q) /\ t = Tail(q) /\ passed = {r \in Proc : prio[r] < prio[p]}
      OBVIOUS
    <3>2. /\ h \in Proc /\ h \in Held(q) /\ t \in Seq(Proc) /\ NoTwice(t)
          /\ Held(t) = Held(q) \ {h} /\ InOrder(t, Rank)
          /\ \A r \in Held(t) : <<h, r>> \in Rank
      BY <2>3, <2>7, <3>1, TailHolds DEF Lined
    <3>3. p \notin Held(q) /\ Held(t) \subseteq Proc /\ p \in Pool /\ h \in Pool /\ h # p
      BY <2>3, <2>4, <3>2 DEF Lined
    <3>4. PICK s : s = ByPriority(t, p)
      OBVIOUS
    <3>5. /\ s \in Seq(Proc) /\ NoTwice(s) /\ Held(s) = Held(t) \cup {p}
          /\ InOrder(s, Rank)
      <4>1. s = Sorted(t, p, passed)
        BY <3>1, <3>4 DEF ByPriority
      <4>2. \A r \in Held(t) : IF r \in passed THEN <<p, r>> \in Rank ELSE <<r, p>> \in Rank
        BY <1>1, <2>3, <3>1, <3>3
      <4>3. \A r, x \in Held(t) : <<r, x>> \in Rank /\ x \notin passed => r \notin passed
        BY <1>1, <2>3, <3>1, <3>3
      <4> QED
        BY <2>3, <3>2, <3>3, <4>1, <4>2, <4>3, SortedHolds
    <3>6. Lined(h, s)
      BY <2>3, <3>2, <3>3, <3>5 DEF Lined
    <3>7. Leads(h, s)
      <4>1. <<h, p>> \in Rank
        BY <1>1, <2>3, <2>7, <3>1, <3>2
      <4> QED
        BY <3>2, <3>5, <4>1 DEF Leads
    <3>8. Run(h, s)
      BY <2>7, <3>1, <3>4
    <3>9. Picks(h, {})
      BY <1>1, <3>6, <3>7, <3>8, LinedPicks DEF Run
    <3> QED
      BY <3>2, <3>9
  <2> QED
    BY <2>2, <2>5, <2>6, <2>7
<1> QED
  BY <1>2, <1>3

LEMMA SRTNP_Picks ==
    ASSUME SInv, strategy = "SRTNP", SRTNP_tick
    PROVE  Rests \/ \E p \in Proc : Picks(p, {})
<1>1. /\ slice' \in Nat /\ wait' \in [Proc -> Nat] /\ UNCHANGED <<level, dropped, wait>>
      /\ left \in [Proc -> Nat] /\ \A x, y \in Proc : <<x, y>> \in Rank <=> left[x] <= left[y]
  BY Typing DEF SInv, SRTNP_tick, TypeOK, Rank
<1>2. CASE Free /\ Ready = <<>> /\ Idle
  BY <1>1, <1>2, NobodyThere DEF Rests
<1>3. CASE Free /\ Ready # <<>> /\ Run(Head(Ready), Tail(Ready))
  <2>1. Lined(Head(Ready), Tail(Ready)) /\ Leads(Head(Ready), Tail(Ready))
    BY <1>3, HeadLined
  <2>2. Picks(Head(Ready), {})
    BY <1>1, <1>3, <2>1, LinedPicks DEF Run
  <2> QED
    BY <2>1, <2>2, PoolIs DEF Lined, SInv
<1>4. ASSUME ~Free PROVE Lined(running, Ready) /\ running \in Proc /\ Held(Ready) \subseteq Proc
  BY <1>4, RunningLined, PoolIs DEF SInv, Lined
<1>5. ASSUME Ready # <<>>
      PROVE  /\ Head(Ready) \in Proc /\ Head(Ready) \in Held(Ready)
             /\ Tail(Ready) \in Seq(Proc) /\ NoTwice(Tail(Ready))
             /\ Held(Tail(Ready)) = Held(Ready) \ {Head(Ready)}
             /\ InOrder(Tail(Ready), Rank)
             /\ \A r \in Held(Tail(Ready)) : <<Head(Ready), r>> \in Rank
  BY <1>5, ReadyIs, TailHolds
<1>6. CASE /\ ~Free /\ Ready # <<>> /\ left[Head(Ready)] < left[running]
           /\ Run(Head(Ready), ByTimeLeft(Tail(Ready), running))
  <2>1. PICK h, t, p, passed : /\ h = Head(Ready) /\ t = Tail(Ready) /\ p = running
                               /\ passed = {r \in Proc : left[r] > left[p]}
    OBVIOUS
  <2>2. /\ h \in Proc /\ h \in Held(Ready) /\ t \in Seq(Proc) /\ NoTwice(t)
        /\ Held(t) = Held(Ready) \ {h} /\ InOrder(t, Rank)
        /\ \A r \in Held(t) : <<h, r>> \in Rank
    BY <1>5, <1>6, <2>1
  <2>3. /\ p \in Proc /\ p \in Pool /\ Held(Ready) = Pool \ {p} /\ Held(t) \subseteq Proc
        /\ h \in Pool /\ h # p /\ p \notin Held(t)
    BY <1>4, <1>6, <2>1, <2>2 DEF Lined
  <2>4. PICK s : s = ByTimeLeft(t, p)
    OBVIOUS
  <2>5. s \in Seq(Proc) /\ NoTwice(s) /\ Held(s) = Held(t) \cup {p} /\ InOrder(s, Rank)
    <3>1. s = Sorted(t, p, passed)
      BY <2>1, <2>4 DEF ByTimeLeft
    <3>2. \A r \in Held(t) : IF r \in passed THEN <<p, r>> \in Rank ELSE <<r, p>> \in Rank
      BY <1>1, <2>1, <2>3
    <3>3. \A r, x \in Held(t) : <<r, x>> \in Rank /\ x \notin passed => r \notin passed
      BY <1>1, <2>1, <2>3
    <3> QED
      BY <2>2, <2>3, <3>1, <3>2, <3>3, SortedHolds
  <2>6. Lined(h, s)
    BY <2>2, <2>3, <2>5 DEF Lined
  <2>7. Leads(h, s)
    <3>1. <<h, p>> \in Rank
      BY <1>1, <1>6, <2>1, <2>2, <2>3
    <3> QED
      BY <2>2, <2>5, <3>1 DEF Leads
  <2>8. Run(h, s)
    BY <1>6, <2>1, <2>4
  <2>9. Picks(h, {})
    BY <1>1, <2>6, <2>7, <2>8, LinedPicks DEF Run
  <2> QED
    BY <2>2, <2>9
<1>7. CASE /\ ~Free /\ (Ready # <<>> => left[Head(Ready)] >= left[running])
           /\ Run(running, Ready)
  <2>1. Leads(running, Ready)
    <3>1. SUFFICES ASSUME NEW w \in Held(Ready) PROVE <<running, w>> \in Rank
      BY DEF Leads
    <3>2. Ready # <<>>
      BY <3>1 DEF Held
    <3>3. w \in Proc /\ left[Head(Ready)] <= left[w]
      <4>1. w \in Proc /\ Head(Ready) \in Proc
        BY <1>4, <1>5, <1>7, <3>1, <3>2
      <4>2. CASE w = Head(Ready)
        BY <1>1, <4>1, <4>2
      <4>3. CASE w # Head(Ready)
        BY <1>1, <1>5, <3>1, <3>2, <4>1, <4>3
      <4> QED
        BY <4>1, <4>2, <4>3
    <3> QED
      BY <1>1, <1>4, <1>5, <1>7, <3>2, <3>3
  <2>2. Picks(running, {})
    BY <1>1, <1>4, <1>7, <2>1, LinedPicks DEF Run
  <2> QED
    BY <1>4, <1>7, <2>2
<1> QED
  BY <1>2, <1>3, <1>6, <1>7 DEF SRTNP_tick
-----------------------------------------------------------------------------
\* Of numbers in a row there is the last of the largest ones.
LEMMA LastLargest ==
    ASSUME NEW m \in Nat, NEW f \in [1 .. m -> Int], m > 0
    PROVE  \E i \in 1 .. m : \A j \in 1 .. m : f[j] < f[i] \/ (f[j] = f[i] /\ j <= i)
<1>1. PICK S : S = {n \in 0 .. m : n > 0 =>
                       \E i \in 1 .. n : \A j \in 1 .. n : f[j] < f[i] \/ (f[j] = f[i] /\ j <= i)}
  OBVIOUS
<1>2. 0 \in S
  BY <1>1
<1>3. ASSUME NEW n \in 0 .. m - 1, n \in S PROVE n + 1 \in S
  <2>1. /\ n + 1 \in 0 .. m /\ 1 .. n + 1 = 1 .. n \cup {n + 1} /\ n + 1 > 0
        /\ \A j \in 1 .. n + 1 : f[j] \in Int
    OBVIOUS
  <2>2. CASE n = 0
    <3>1. n + 1 = 1 /\ 1 \in 1 .. 1 /\ \A j \in 1 .. 1 : j = 1 /\ f[j] = f[1] /\ j <= 1
      BY <2>2
    <3>2. \E i \in 1 .. n + 1 : \A j \in 1 .. n + 1 : f[j] < f[i] \/ (f[j] = f[i] /\ j <= i)
      BY <3>1
    <3> QED
      BY <1>1, <2>1, <3>2
  <2>3. CASE n > 0
    <3>1. PICK i \in 1 .. n : \A j \in 1 .. n : f[j] < f[i] \/ (f[j] = f[i] /\ j <= i)
      BY <1>1, <1>3, <2>3
    <3>2. CASE f[n + 1] < f[i]
      <4>1. i \in 1 .. n + 1
            /\ \A j \in 1 .. n + 1 : f[j] < f[i] \/ (f[j] = f[i] /\ j <= i)
        BY <2>1, <3>1, <3>2
      <4> QED
        BY <1>1, <2>1, <4>1
    <3>3. CASE ~(f[n + 1] < f[i])
      <4>1. ASSUME NEW j \in 1 .. n + 1
            PROVE  f[j] < f[n + 1] \/ (f[j] = f[n + 1] /\ j <= n + 1)
        BY SMTT(20), <2>1, <3>1, <3>3
      <4>2. n + 1 \in 1 .. n + 1
        OBVIOUS
      <4> QED
        BY <1>1, <2>1, <4>1, <4>2
    <3> QED
      BY <3>2, <3>3
  <2> QED
    BY <2>2, <2>3
<1>4. \A n \in 0 .. m : n \in S
  BY <1>2, <1>3, AllUpTo
<1>5. m \in S
  BY <1>4
<1> QED
  BY <1>1, <1>5

\* The choice of HRRN is one of the queue, and none in it has a higher ratio.
LEMMA ChoiceIs ==
    ASSUME NEW q \in Seq(Proc), q # <<>>, wait \in [Proc -> Nat], left \in [Proc -> Nat],
           \A r \in Held(q) : left[r] > 0
    PROVE  /\ Choice(q) \in DOMAIN q
           /\ \A r \in Held(q) : Ratio(r) <= Ratio(q[Choice(q)])
<1>1. PICK m \in Nat : m = Len(q) /\ DOMAIN q = 1 .. m /\ m > 0
  OBVIOUS
<1>2. PICK f : f = [i \in 1 .. m |-> Ratio(q[i])]
  OBVIOUS
<1>3. f \in [1 .. m -> Int]
  <2>1. SUFFICES ASSUME NEW i \in 1 .. m PROVE Ratio(q[i]) \in Int
    BY <1>2
  <2>2. q[i] \in Proc /\ left[q[i]] \in Nat \ {0} /\ wait[q[i]] \in Nat
    <3>1. q[i] \in Proc /\ q[i] \in Held(q)
      BY <1>1 DEF Held
    <3> QED
      BY <3>1
  <2>3. \A x \in Nat, y \in Nat \ {0} : (x + y) \div y \in Int
    OBVIOUS
  <2> QED
    BY <2>2, <2>3 DEF Ratio
<1>4. PICK i \in 1 .. m : \A j \in 1 .. m : f[j] < f[i] \/ (f[j] = f[i] /\ j <= i)
  BY <1>1, <1>3, LastLargest
<1>5. \A j \in DOMAIN q : Ratio(q[j]) < Ratio(q[i]) \/ (Ratio(q[j]) = Ratio(q[i]) /\ j <= i)
  BY <1>1, <1>2, <1>4
<1>6. PICK c : c = Choice(q)
  OBVIOUS
<1>7. /\ c \in DOMAIN q
      /\ \A j \in DOMAIN q : Ratio(q[j]) < Ratio(q[c]) \/ (Ratio(q[j]) = Ratio(q[c]) /\ j <= c)
  BY <1>1, <1>5, <1>6 DEF Choice
<1>8. \A j \in 1 .. m : Ratio(q[j]) \in Int
  BY <1>2, <1>3
<1>9. ASSUME NEW j \in 1 .. m PROVE Ratio(q[j]) <= Ratio(q[c])
  <2>1. PICK x, y : x = Ratio(q[j]) /\ y = Ratio(q[c])
    OBVIOUS
  <2>2. x \in Int /\ y \in Int /\ (x < y \/ x = y)
    BY <1>1, <1>7, <1>8, <2>1
  <2> QED
    BY <2>1, <2>2
<1> QED
  BY <1>1, <1>6, <1>7, <1>9 DEF Held

LEMMA HRRN_Picks ==
    ASSUME SInv, strategy = "HRRN", HRRN_tick
    PROVE  Crash \/ \E p \in Proc : Picks(p, {})
<1>1. SUFFICES ASSUME ~Crash PROVE \E p \in Proc : Picks(p, {})
  OBVIOUS
<1>2. slice' \in Nat /\ UNCHANGED <<level, dropped>> /\ wait \in [Proc -> Nat]
  BY <1>1 DEF SInv, HRRN_tick, TypeOK
<1>3. \A q : Waits(q) => wait' \in [Proc -> Nat]
  BY <1>2 DEF Waits
<1>4. CASE /\ Free /\ Ready # <<>>
           /\ LET i == Choice(Ready)
              IN Run(Ready[i], Remove(Ready, i)) /\ Waits(Remove(Ready, i))
  <2>1. PICK i : i = Choice(Ready)
    OBVIOUS
  <2>2. i \in DOMAIN Ready
    <3>1. \A r \in Held(Ready) : left[r] > 0
      BY <1>1, OneQueue, PoolIs DEF SInv, Pool
    <3> QED
      BY <1>2, <1>4, <2>1, <3>1, ReadyIs, ChoiceIs, Typing DEF SInv
  <2>3. Lined(Ready[i], Remove(Ready, i))
    BY <1>4, <2>2, PlaceLined
  <2>4. Run(Ready[i], Remove(Ready, i)) /\ wait' \in [Proc -> Nat]
    BY <1>3, <1>4, <2>1
  <2>5. Picks(Ready[i], {})
    BY <1>2, <2>3, <2>4, LinedPicks DEF Run
  <2> QED
    BY <2>3, <2>5, PoolIs DEF Lined, SInv
<1>5. CASE ~Free /\ Run(running, Ready) /\ Waits(Ready)
  <2>1. Lined(running, Ready) /\ running \in Proc /\ wait' \in [Proc -> Nat]
    BY <1>3, <1>5, RunningLined, PoolIs DEF SInv
  <2>2. Picks(running, {})
    BY <1>2, <1>5, <2>1, LinedPicks DEF Run
  <2> QED
    BY <2>1, <2>2
<1> QED
  BY <1>1, <1>4, <1>5 DEF HRRN_tick

\* The queues of MLF are searched.
LEMMA FromTopPicks ==
    ASSUME SInv, strategy = "MLF", NEW qs \in Queues, NEW gone, gone \subseteq Current,
           OneEach(qs), \A r \in Proc : In(qs, r) <=> r \in Pool \ gone,
           FromTop(qs, gone)
    PROVE  Crash \/ \E p \in Proc : Picks(p, gone)
<1>1. SUFFICES ASSUME ~Crash PROVE \E p \in Proc : Picks(p, gone)
  OBVIOUS
<1>2. DOMAIN qs = LevelNo /\ Levels \in Nat
  BY SchedulerAssumption DEF Queues
<1>3. PICK l \in LevelNo :
         /\ qs[l] # <<>>
         /\ Save(Head(qs[l])) /\ Work(Head(qs[l]))
         /\ queue' = [qs EXCEPT ![l] = Tail(@)]
         /\ level' = l /\ slice' = Slots[l] - 1
         /\ dropped' = dropped \cup gone /\ UNCHANGED wait
  BY <1>1, <1>2 DEF FromTop
<1>4. PICK p, t : p = Head(qs[l]) /\ t = Tail(qs[l])
  OBVIOUS
<1>5. /\ t \in Seq(Proc) /\ NoTwice(t) /\ p \in Proc /\ p \in Held(qs[l])
      /\ Held(t) = Held(qs[l]) \ {p}
  BY <1>3, <1>4, TailHolds DEF Queues, OneEach
<1>6. queue' \in Queues /\ queue'[l] = t /\ \A k \in LevelNo \ {l} : queue'[k] = qs[k]
  BY <1>3, <1>4, <1>5 DEF Queues
<1>7. OneEach(queue')
  <2>1. \A k \in LevelNo : NoTwice(queue'[k]) /\ Held(queue'[k]) \subseteq Held(qs[k])
    BY <1>5, <1>6 DEF OneEach
  <2> QED
    BY <2>1 DEF OneEach
<1>8. \A r \in Proc : In(queue', r) <=> In(qs, r) /\ r # p
  <2>1. \A k \in LevelNo : \A r : r \in Held(queue'[k]) <=> r \in Held(qs[k]) /\ r # p
    BY <1>5, <1>6 DEF OneEach
  <2> QED
    BY <2>1 DEF In
<1>9. p \in Pool \ gone
  BY <1>5 DEF In
<1>10. slice' \in Nat
  <2>1. l \in 0 .. Levels
    BY <1>2 DEF LevelNo
  <2>2. Slots[l] \in Nat \ {0}
    BY <2>1, SlotsAre
  <2> QED
    BY <1>3, <2>2
<1>11. InOrder(queue'[0], Rank)
  <2>1. \A x, y \in Proc : <<x, y>> \in Rank
    BY DEF Rank
  <2>2. queue'[0] \in Seq(Proc)
    BY <1>6, Typing DEF Queues, SInv
  <2> QED
    BY <2>1, <2>2 DEF InOrder
<1>12. wait' \in [Proc -> Nat] /\ level' \in LevelNo
  BY <1>3 DEF SInv, TypeOK
<1> QED
  BY <1>3, <1>4, <1>5, <1>6, <1>7, <1>8, <1>9, <1>10, <1>11, <1>12 DEF Picks

\* The queues of MLF with the process that arrives
LEMMA ArrivedQueues ==
    ASSUME SInv, strategy = "MLF", NEW qs, qs = [queue EXCEPT ![0] = Ready]
    PROVE  /\ qs \in Queues /\ qs[0] = Ready /\ \A l \in LevelNo \ {0} : qs[l] = queue[l]
           /\ OneEach(qs)
           /\ \A r \in Proc : In(qs, r) <=> r \in Waiting \cup NewArrival
<1>2. queue \in Queues /\ 0 \in LevelNo
  BY Typing DEF SInv
<1>3. qs \in Queues /\ qs[0] = Ready /\ \A l \in LevelNo \ {0} : qs[l] = queue[l]
  BY <1>2, ReadyIs DEF Queues
<1>4. NewArrival \subseteq Proc /\ \A l \in LevelNo : Held(queue[l]) \cap NewArrival = {}
  <2>1. NewArrival \subseteq Proc /\ NewArrival \cap Waiting = {}
    BY ArrivalIs, PoolIs DEF SInv
  <2> QED
    BY <2>1 DEF SInv, Queued, In
<1>5. OneEach(qs)
  <2>1. \A l \in LevelNo : NoTwice(qs[l])
    BY <1>3, ReadyIs DEF SInv, Queued, OneEach
  <2>2. \A l \in LevelNo \ {0} : Held(qs[l]) \cap Held(qs[0]) = {}
    BY <1>2, <1>3, <1>4, ReadyIs DEF SInv, Queued, OneEach
  <2>3. \A l, k \in LevelNo \ {0} : l # k => Held(qs[l]) \cap Held(qs[k]) = {}
    BY <1>3 DEF SInv, Queued, OneEach
  <2> QED
    BY <1>2, <2>1, <2>2, <2>3 DEF OneEach
<1>6. \A r \in Proc : In(qs, r) <=> r \in Waiting \cup NewArrival
  <2>1. \A r \in Proc : In(qs, r) <=> In(queue, r) \/ r \in NewArrival
    BY <1>2, <1>3, ReadyIs DEF In
  <2> QED
    BY <2>1 DEF SInv, Queued
<1> QED
  BY <1>3, <1>5, <1>6

\* and with the running one on level l.
Demoted(qs, l) == [qs EXCEPT ![l] = Append(@, running)]

LEMMA DemotedQueues ==
    ASSUME SInv, strategy = "MLF", ~Free, NEW l \in LevelNo,
           NEW qs \in Queues, OneEach(qs),
           \A r \in Proc : In(qs, r) <=> r \in Waiting \cup NewArrival,
           NEW ns, ns = Demoted(qs, l)
    PROVE  /\ ns \in Queues /\ OneEach(ns)
           /\ Held(ns[l]) = Held(qs[l]) \cup {running}
           /\ \A k \in LevelNo \ {l} : ns[k] = qs[k]
           /\ \A r \in Proc : In(ns, r) <=> r \in Pool
<1>4. running \in Proc /\ Current = {running} /\ \A k \in LevelNo : running \notin Held(qs[k])
  <2>1. /\ running \in Proc /\ Current = {running}
        /\ running \notin Waiting \cup NewArrival
    BY PoolIs DEF SInv
  <2> QED
    BY <2>1 DEF In
<1>5. /\ Append(qs[l], running) \in Seq(Proc) /\ NoTwice(Append(qs[l], running))
      /\ Held(Append(qs[l], running)) = Held(qs[l]) \cup {running}
  BY <1>4, AppendHolds DEF Queues, OneEach
<1>6. /\ ns \in Queues /\ ns[l] = Append(qs[l], running)
      /\ \A k \in LevelNo \ {l} : ns[k] = qs[k]
  BY <1>5 DEF Queues, Demoted
<1>7. OneEach(ns)
  <2>1. \A k \in LevelNo : NoTwice(ns[k]) /\ Held(ns[k]) \subseteq Held(qs[k]) \cup {running}
    BY <1>5, <1>6 DEF OneEach
  <2>2. \A k \in LevelNo \ {l} : Held(ns[k]) = Held(qs[k]) /\ running \notin Held(ns[k])
    BY <1>4, <1>6
  <2>3. \A k, j \in LevelNo : Held(qs[k]) \cap Held(qs[j]) # {} => k = j
    BY DEF OneEach
  <2>4. ASSUME NEW k \in LevelNo, NEW j \in LevelNo, k # j
        PROVE  Held(ns[k]) \cap Held(ns[j]) = {}
    <3>1. Held(qs[k]) \cap Held(qs[j]) = {}
      BY <2>3, <2>4
    <3>2. CASE k = l
      BY <2>1, <2>2, <2>4, <3>1, <3>2
    <3>3. CASE k # l
      BY <2>1, <2>2, <2>4, <3>1, <3>3
    <3> QED
      BY <3>2, <3>3
  <2> QED
    BY <2>1, <2>4 DEF OneEach
<1>8. \A r \in Proc : In(ns, r) <=> r \in Pool
  <2>1. \A r \in Proc : In(ns, r) <=> In(qs, r) \/ r = running
    BY <1>5, <1>6 DEF In
  <2> QED
    BY <1>4, <2>1 DEF Pool
<1> QED
  BY <1>5, <1>6, <1>7, <1>8

LEMMA MLF_Picks ==
    ASSUME SInv, strategy = "MLF", MLF_tick
    PROVE  Crash \/ \E p \in Proc : \E gone : Picks(p, gone)
<1>1. PICK qs : qs = [queue EXCEPT ![0] = Ready]
  OBVIOUS
<1>2. TypeOK /\ Levels \in Nat
  BY SchedulerAssumption DEF SInv
<1>3. qs \in Queues /\ qs[0] = Ready
  BY <1>1, ArrivedQueues
<1>5. OneEach(qs)
  BY <1>1, ArrivedQueues
<1>6. \A r \in Proc : In(qs, r) <=> r \in Waiting \cup NewArrival
  BY <1>1, ArrivedQueues
<1>7. CASE Free /\ FromTop(qs, {})
  <2>1. \A r \in Proc : In(qs, r) <=> r \in Pool \ {}
    BY <1>6, <1>7, PoolIs DEF SInv, Pool
  <2> QED
    BY <1>3, <1>5, <1>7, <2>1, FromTopPicks
<1>8. CASE /\ ~Free /\ slice = 0 /\ level + 1 < Levels
           /\ FromTop([qs EXCEPT ![level + 1] = Append(@, running)], {})
  <2>1. PICK l : l = level + 1
    OBVIOUS
  <2>2. l \in LevelNo
    BY <1>2, <1>8, <2>1 DEF TypeOK, LevelNo
  <2>3. PICK ns : ns = Demoted(qs, l)
    OBVIOUS
  <2>4. ns \in Queues /\ OneEach(ns) /\ \A r \in Proc : In(ns, r) <=> r \in Pool \ {}
    BY <1>3, <1>5, <1>6, <1>8, <2>2, <2>3, DemotedQueues
  <2>5. FromTop(ns, {})
    BY <1>8, <2>1, <2>3 DEF Demoted
  <2> QED
    BY <2>4, <2>5, FromTopPicks
<1>9. CASE ~Free /\ slice = 0 /\ level + 1 = Levels /\ (Crash \/ FromTop(qs, {running}))
  <2>1. Current = {running} /\ running \notin Waiting \cup NewArrival
    BY <1>9, PoolIs DEF SInv
  <2>2. \A r \in Proc : In(qs, r) <=> r \in Pool \ {running}
    BY <1>6, <2>1 DEF Pool
  <2> QED
    BY <1>3, <1>5, <1>9, <2>1, <2>2, FromTopPicks
<1>10. CASE /\ ~Free /\ slice > 0 /\ Save(running) /\ Work(running) /\ queue' = qs
            /\ slice' = slice - 1 /\ UNCHANGED <<level, wait, dropped>>
  <2>1. /\ running \in Proc /\ Current = {running} /\ running \notin Waiting \cup NewArrival
    BY <1>10, PoolIs DEF SInv
  <2>2. \A r \in Proc : In(queue', r) <=> r \in Pool \ ({} \cup {running})
    BY <1>6, <1>10, <2>1 DEF Pool
  <2>3. InOrder(queue'[0], Rank)
    <3>1. \A x, y \in Proc : <<x, y>> \in Rank
      BY DEF Rank
    <3>2. queue'[0] \in Seq(Proc)
      BY <1>3, <1>10, ReadyIs
    <3> QED
      BY <3>1, <3>2 DEF InOrder
  <2>4. slice' \in Nat /\ level' \in LevelNo /\ wait' \in [Proc -> Nat]
    BY <1>2, <1>10 DEF TypeOK, LevelNo
  <2>5. Picks(running, {})
    BY <1>3, <1>5, <1>10, <2>1, <2>2, <2>3, <2>4 DEF Picks, Pool
  <2> QED
    BY <2>1, <2>5
<1> QED
  BY <1>1, <1>7, <1>8, <1>9, <1>10 DEF MLF_tick

\* A tick gives the processor to one of the pool, finds nobody, or is the
\* last one.
LEMMA TickIs ==
    ASSUME SInv, Tick
    PROVE  Crash \/ Rests \/ \E p \in Proc : \E gone : Picks(p, gone)
BY FCFS_Picks, LCFS_Picks, RR_Picks, PRIOP_Picks, SRTNP_Picks, HRRN_Picks, MLF_Picks
   DEF Tick, Loop
-----------------------------------------------------------------------------
\* After a tick the pool is who runs and who waits.
LEMMA PicksKeeps ==
    ASSUME SInv, NEW p \in Proc, NEW gone, Picks(p, gone)
    PROVE  SInv'
<1>1. /\ TypeOK /\ start' = start /\ time' = time + 1 /\ strategy' = strategy
      /\ burst' = burst /\ prio' = prio /\ running' = p /\ status' = status
      /\ schedule' = Append(schedule, p) /\ dropped' = dropped \cup gone
      /\ p \in Pool \ gone /\ gone \subseteq Current
  BY DEF Picks, Save, input, SInv
<1>2. left \in [Proc -> Nat] /\ burst \in [Proc -> Nat \ {0}] /\ time \in Nat
  BY <1>1, Typing
<1>3. /\ Pool \subseteq Proc /\ Current \subseteq Proc /\ \A r \in Pool : left[r] > 0
      /\ NewArrival \cap Current = {} /\ Waiting \cap Current = {}
  BY PoolIs DEF SInv
<1>4. /\ left' \in [Proc -> Nat] /\ \A r \in Proc \ {p} : left'[r] = left[r]
      /\ left'[p] <= left[p]
  <2>1. CASE Work(p)
    <3>1. left[p] - 1 \in Nat
      BY <1>1, <1>2, <1>3
    <3> QED
      BY <1>2, <2>1, <3>1 DEF Work
  <2>2. CASE UNCHANGED left
    BY <1>2, <2>2
  <2> QED
    BY <2>1, <2>2 DEF Picks
<1>5. Admitted' = Admitted \cup NewArrival
  BY <1>1, AdmittedIs
<1>6. /\ Current \subseteq Admitted \ dropped /\ NewArrival \subseteq Proc
      /\ \A r \in Current : r = running /\ left[r] > 0
      /\ NewArrival \cap dropped = {} /\ dropped \subseteq Admitted /\ Admitted \subseteq Proc
      /\ \A r \in Proc : r = running /\ left[r] > 0 => r \in Current
  BY SMTT(20), <1>1, ArrivalIs, Typing DEF Current, SInv, Fresh, Admitted
<1>7. Waiting' = Pool \ (gone \cup {p})
  <2>1. ASSUME NEW r \in Proc, r # p
        PROVE  r \in Waiting' <=> r \in Pool \ (gone \cup {p})
    <3>1. r \in Waiting' <=> r \in Admitted' /\ r \notin dropped' /\ left'[r] > 0 /\ r # running'
      BY DEF Waiting
    <3>2. r \in Waiting <=> r \in Admitted /\ r \notin dropped /\ left[r] > 0 /\ r # running
      BY DEF Waiting
    <3>3. left'[r] = left[r]
      BY <1>4, <2>1
    <3> QED
      BY <1>1, <1>3, <1>5, <1>6, <2>1, <3>1, <3>2, <3>3 DEF Pool
  <2>2. Waiting' \subseteq Proc /\ p \notin Waiting'
    BY <1>1, <1>5, <1>6 DEF Waiting
  <2> QED
    BY <1>3, <2>1, <2>2
<1>8. TypeOK'
  <2>1. queue' \in [0 .. Levels - 1 -> Seq(Proc)] /\ level' \in 0 .. Levels - 1
        /\ slice' \in Nat /\ wait' \in [Proc -> Nat]
    BY DEF Picks, Queues, LevelNo
  <2>2. schedule' \in Seq(Proc \cup {None}) /\ Len(schedule') = time'
    BY <1>1 DEF TypeOK
  <2>3. dropped' \subseteq Proc /\ time' \in Nat /\ running' \in Proc \cup {None}
    BY <1>1, <1>2, <1>3 DEF TypeOK
  <2> QED
    BY <1>1, <1>4, <2>1, <2>2, <2>3 DEF TypeOK
<1>9. Queued'
  BY <1>1, <1>7 DEF Picks, Queued, OneEach, In
<1>10. Fresh'
  <2>1. \A r \in Proc \ Admitted' : left'[r] = burst'[r]
    <3>1. p \in Admitted'
      BY <1>1, <1>5, <1>6 DEF Pool, Waiting
    <3> QED
      BY <1>1, <1>4, <1>5, <3>1 DEF SInv, Fresh
  <2>2. dropped' \subseteq Admitted'
    BY <1>1, <1>5, <1>6
  <2>3. running' \in Admitted' \ dropped'
    BY <1>1, <1>5, <1>6 DEF Pool, Waiting
  <2> QED
    BY <2>1, <2>2, <2>3 DEF Fresh
<1>11. Held(queue'[0]) \subseteq Proc \ {p} /\ Waiting' \subseteq Proc \ {p}
  <2>1. 0 \in LevelNo /\ queue'[0] \in Seq(Proc)
    BY <1>1, Typing DEF Picks, Queues
  <2>2. \A r \in Held(queue'[0]) : r \in Proc /\ In(queue', r)
    BY <2>1 DEF In, Held
  <2> QED
    BY <1>3, <1>7, <2>2 DEF Picks
<1>12. \A x, y \in Proc \ {p} : <<x, y>> \in Rank => <<x, y>> \in Rank'
  BY <1>1, <1>4 DEF Rank
<1>13. Ranked'
  <2>1. SUFFICES ASSUME NEW i \in DOMAIN queue'[0], NEW j \in DOMAIN queue'[0], i < j
                 PROVE  <<queue'[0][i], queue'[0][j]>> \in Rank'
    BY DEF Ranked, InOrder
  <2>2. <<queue'[0][i], queue'[0][j]>> \in Rank
    BY <2>1 DEF Picks, InOrder
  <2>3. queue'[0][i] \in Proc \ {p} /\ queue'[0][j] \in Proc \ {p}
    BY <1>11 DEF Held
  <2> QED
    BY <1>12, <2>2, <2>3
<1>14. RunningRanksFirst'
  <2>1. SUFFICES ASSUME NEW w \in Waiting', strategy \in {"FCFS", "PRIOP", "SRTNP"}
                 PROVE  /\ strategy = "FCFS" => start[p] < start[w]
                        /\ strategy = "PRIOP" => prio[p] >= prio[w]
                        /\ strategy = "SRTNP" => left'[p] + 1 <= left'[w]
    BY <1>1 DEF RunningRanksFirst
  <2>2. w \in Proc /\ w # p /\ In(queue', w)
    BY <1>7, <1>11 DEF Picks
  <2>3. w \in Held(queue'[0])
    <3>1. \A l \in LevelNo \ {0} : Held(queue'[l]) = {}
      BY <2>1 DEF Picks, Held
    <3> QED
      BY <2>2, <3>1 DEF In
  <2>4. <<p, w>> \in Rank
    BY <2>1, <2>3 DEF Picks, Leads
  <2>5. ASSUME strategy = "SRTNP" PROVE left'[p] + 1 <= left'[w]
    <3>1. left[p] <= left[w] /\ left'[w] = left[w]
      BY <1>4, <2>2, <2>4, <2>5 DEF Rank
    <3>2. left'[p] = left[p] - 1
      BY <1>2, <2>5 DEF Picks, Work
    <3> QED
      BY <1>2, <2>2, <3>1, <3>2
  <2> QED
    BY <2>4, <2>5 DEF Rank
<1> QED
  BY <1>8, <1>9, <1>10, <1>13, <1>14 DEF SInv

LEMMA RestsKeeps ==
    ASSUME SInv, Rests
    PROVE  SInv'
<1>1. /\ TypeOK /\ start' = start /\ time' = time + 1 /\ strategy' = strategy
      /\ burst' = burst /\ prio' = prio /\ running' = None /\ status' = status
      /\ schedule' = Append(schedule, None) /\ dropped' = dropped
      /\ left' = left /\ queue' = queue /\ level' = level /\ wait' = wait /\ slice' \in Nat
      /\ Pool = {}
  BY DEF Rests, Idle, Save, input, SInv
<1>2. Admitted' = Admitted
  BY <1>1, AdmittedIs DEF Pool
<1>3. Waiting' = {} /\ Waiting = {}
  <2>1. \A r \in Proc : r \in Admitted \ dropped /\ left[r] > 0 => r \in Waiting \/ r \in Current
    BY <1>1, Typing DEF Waiting, Current
  <2> QED
    BY <1>1, <1>2, <2>1 DEF Pool, Waiting, Admitted
<1>4. TypeOK'
  <2>1. schedule' \in Seq(Proc \cup {None}) /\ Len(schedule') = time'
    BY <1>1 DEF TypeOK
  <2> QED
    BY <1>1, <2>1 DEF TypeOK
<1>5. Queued'
  BY <1>1, <1>3 DEF SInv, Queued, OneEach, In
<1>6. Fresh'
  BY <1>1, <1>2 DEF SInv, Fresh
<1>7. Ranked'
  BY <1>1 DEF SInv, Ranked, Rank, InOrder
<1>8. RunningRanksFirst'
  BY <1>1 DEF RunningRanksFirst
<1> QED
  BY <1>4, <1>5, <1>6, <1>7, <1>8 DEF SInv

\* Nothing but the status changes, or nothing at all.
LEMMA EndKeeps ==
    ASSUME SInv, status' \in {"running", "done", "crashed"},
           UNCHANGED <<input, time, left, running, queue, slice, level, wait, schedule, dropped>>
    PROVE  SInv'
<1>1. /\ UNCHANGED <<strategy, start, burst, prio, time, left, running, queue, slice, level>>
      /\ UNCHANGED <<wait, schedule, dropped>>
  BY DEF input
<1>2. TypeOK'
  BY <1>1 DEF SInv, TypeOK
<1>3. Admitted' = Admitted
  BY <1>1 DEF Admitted, Before
<1>4. Waiting' = Waiting
  BY <1>1, <1>3 DEF Waiting
<1>5. Queued' /\ Fresh' /\ Ranked' /\ RunningRanksFirst'
  BY <1>1, <1>3, <1>4 DEF SInv, Queued, OneEach, In, Fresh, Ranked, Rank, RunningRanksFirst
<1> QED
  BY <1>2, <1>5 DEF SInv

LEMMA StartHolds ==
    ASSUME Init PROVE SInv
<1>1. TypeOK
  <2>1. [l \in 0 .. Levels - 1 |-> <<>>] \in [0 .. Levels - 1 -> Seq(Proc)]
    OBVIOUS
  <2>2. /\ left \in [Proc -> Nat] /\ wait \in [Proc -> Nat] /\ slice \in Nat
        /\ level \in 0 .. Levels - 1
    BY SMTT(20), SchedulerAssumption DEF Init
  <2> QED
    BY <2>1, <2>2 DEF Init, TypeOK
<1>2. Admitted = {} /\ Waiting = {}
  <2>1. start \in [Proc -> Nat] /\ time = 0
    BY <1>1, Typing DEF Init
  <2> QED
    BY <2>1 DEF Admitted, Waiting
<1>3. \A l \in LevelNo : queue[l] = <<>> /\ Held(queue[l]) = {} /\ NoTwice(queue[l])
  BY DEF Init, LevelNo, Held, NoTwice
<1>4. Queued
  BY <1>2, <1>3 DEF Queued, OneEach, In
<1>5. Fresh /\ RunningRanksFirst
  BY <1>2 DEF Init, Fresh, RunningRanksFirst
<1>6. Ranked
  BY <1>1, <1>3, Typing DEF Ranked, InOrder
<1> QED
  BY <1>1, <1>4, <1>5, <1>6 DEF SInv

LEMMA StepKeeps ==
    ASSUME SInv, [Next]_vars
    PROVE  SInv'
<1>1. ASSUME Tick PROVE SInv'
  <2>1. ASSUME Crash PROVE SInv'
    BY <2>1, EndKeeps DEF Crash
  <2> QED
    BY <1>1, <2>1, TickIs, PicksKeeps, RestsKeeps
<1>2. ASSUME Finish PROVE SInv'
  BY <1>2, EndKeeps DEF Finish
<1>3. ASSUME UNCHANGED vars PROVE SInv'
  <2>1. status' \in {"running", "done", "crashed"}
    BY <1>3 DEF vars, SInv, TypeOK
  <2> QED
    BY <1>3, <2>1, EndKeeps DEF vars
<1> QED
  BY <1>1, <1>2, <1>3 DEF Next

\* The invariant of the scheduler (scheduler.c:124-253 with queue.c and the
\* strategies): types, who is in the queues, and their order.
THEOREM SchedulerInvariant == Spec => []SInv
<1>1. Init => SInv
  BY StartHolds
<1>2. SInv /\ [Next]_vars => SInv'
  BY StepKeeps
<1> QED
  BY <1>1, <1>2, PTL DEF Spec
-----------------------------------------------------------------------------
\* A queue is not longer than there are processes, whoever is missing in it.
LEMMA QueueFits ==
    ASSUME NEW q \in Seq(Proc), NoTwice(q)
    PROVE  /\ Len(q) <= NumProc
           /\ \A p \in Proc \ Held(q) : Len(q) <= NumProc - 1
<1>1. PICK n \in Nat : n = Len(q) /\ DOMAIN q = 1 .. n
  OBVIOUS
<1>2. NumProc \in Nat /\ IsFiniteSet(Proc) /\ Cardinality(Proc) = NumProc
  <2>1. NumProc \in Nat /\ NumProc > 0
    BY SchedulerAssumption
  <2> QED
    BY <2>1, FS_Interval DEF Proc
<1>3. IsFiniteSet(1 .. n) /\ Cardinality(1 .. n) = n
  BY FS_Interval
<1>4. ASSUME NEW S \in SUBSET Proc, Held(q) \subseteq S PROVE n <= Cardinality(S)
  <2>1. IsFiniteSet(S) /\ Cardinality(S) \in Nat
    BY <1>2, FS_Subset, FS_CardinalityType
  <2>2. q \in [1 .. n -> S]
    BY <1>1, <1>4 DEF Held
  <2>3. CASE Cardinality(S) < n
    <3>1. \E x, y \in 1 .. n : x # y /\ q[x] = q[y]
      BY <1>3, <2>1, <2>2, <2>3, FS_PigeonHole
    <3> QED
      BY <1>1, <3>1 DEF NoTwice
  <2> QED
    BY <2>1, <2>3
<1>5. Held(q) \subseteq Proc
  BY DEF Held
<1>6. ASSUME NEW p \in Proc \ Held(q) PROVE n <= NumProc - 1
  <2>1. Cardinality(Proc \ {p}) = NumProc - 1
    BY <1>2, FS_RemoveElement
  <2>2. Proc \ {p} \in SUBSET Proc /\ Held(q) \subseteq Proc \ {p}
    BY <1>5, <1>6
  <2> QED
    BY <1>4, <2>1, <2>2
<1>7. Proc \in SUBSET Proc
  OBVIOUS
<1>8. n <= NumProc
  BY <1>2, <1>4, <1>5, <1>7
<1> QED
  BY <1>1, <1>6, <1>8

\* Who is in the queues has one place there, the others none.
LEMMA OnePlace ==
    ASSUME SInv
    PROVE  EveryoneOnce
<1>1. SUFFICES ASSUME NEW p \in Proc
      PROVE  Cardinality({at \in (DOMAIN queue) \X Proc :
                            /\ at[2] \in DOMAIN queue[at[1]]
                            /\ queue[at[1]][at[2]] = p})
                = IF p \in Waiting THEN 1 ELSE 0
  BY DEF EveryoneOnce
<1>2. PICK places : places = {at \in (DOMAIN queue) \X Proc :
                            /\ at[2] \in DOMAIN queue[at[1]]
                            /\ queue[at[1]][at[2]] = p}
  OBVIOUS
<1>3. queue \in Queues /\ DOMAIN queue = LevelNo
  BY Typing DEF SInv
<1>4. \A l \in LevelNo : DOMAIN queue[l] \subseteq Proc
  <2>1. SUFFICES ASSUME NEW l \in LevelNo PROVE DOMAIN queue[l] \subseteq Proc
    OBVIOUS
  <2>2. queue[l] \in Seq(Proc) /\ NoTwice(queue[l])
    BY <1>3 DEF SInv, Queued, OneEach, Queues
  <2>3. Len(queue[l]) <= NumProc /\ Len(queue[l]) \in Nat /\ DOMAIN queue[l] = 1 .. Len(queue[l])
    BY <2>2, QueueFits
  <2> QED
    BY <2>3, SchedulerAssumption DEF Proc
<1>5. CASE p \in Waiting
  <2>1. PICK l \in LevelNo : p \in Held(queue[l])
    BY <1>5 DEF SInv, Queued, In
  <2>2. PICK i \in DOMAIN queue[l] : queue[l][i] = p
    BY <2>1 DEF Held
  <2>3. <<l, i>> \in places
    BY <1>2, <1>3, <1>4, <2>2
  <2>4. ASSUME NEW at \in places PROVE at = <<l, i>>
    <3>1. PICK k \in LevelNo, j \in Proc : /\ at = <<k, j>> /\ j \in DOMAIN queue[k]
                                           /\ queue[k][j] = p
      BY <1>2, <1>3
    <3>2. p \in Held(queue[k])
      BY <3>1 DEF Held
    <3>3. k = l
      BY <2>1, <3>2 DEF SInv, Queued, OneEach
    <3>4. NoTwice(queue[l])
      BY DEF SInv, Queued, OneEach
    <3>5. i = j
      BY <2>2, <3>1, <3>3, <3>4 DEF NoTwice
    <3> QED
      BY <3>1, <3>3, <3>5
  <2>5. places = {<<l, i>>}
    BY <2>3, <2>4
  <2>6. Cardinality(places) = 1
    BY <2>5, FS_Singleton
  <2> QED
    BY <1>2, <1>5, <2>6
<1>6. CASE p \notin Waiting
  <2>1. ASSUME NEW at \in places PROVE FALSE
    <3>1. PICK k \in LevelNo, j \in Proc : j \in DOMAIN queue[k] /\ queue[k][j] = p
      BY <1>2, <1>3
    <3>2. In(queue, p)
      BY <3>1 DEF In, Held
    <3> QED
      BY <1>6, <3>2 DEF SInv, Queued
  <2>2. Cardinality(places) = 0
    BY <2>1, FS_EmptySet
  <2> QED
    BY <1>2, <1>6, <2>2
<1> QED
  BY <1>5, <1>6

\* The queues of queue.c and the variables of the strategies are well
\* formed: no list element is lost or doubled by preemption or by the sorted
\* insertion (queue.c:5-44, the X_new_arrival functions).
THEOREM QueuesWellFormed == Spec => []WellFormed
<1>1. SInv => WellFormed
  BY OnePlace DEF SInv, WellFormed
<1> QED
  BY <1>1, SchedulerInvariant, PTL
-----------------------------------------------------------------------------
\* Who is on a level has had the quanta of those above, and no other time.
Levelled(qs, b, t) == \A l \in LevelNo : \A p \in Held(qs[l]) : b[p] - t[p] = Above[l]

LevelInv ==
    /\ strategy = "MLF" =>
          /\ Levelled(queue, burst, left)
          /\ running # None =>
                burst[running] - left[running] = Above[level] + (Slots[level] - slice)
    /\ Fits => dropped = {}

LEMMA LevelType ==
    ASSUME SInv
    PROVE  /\ Levels \in Nat \ {0} /\ LevelNo \subseteq Nat /\ level \in LevelNo /\ slice \in Nat
           /\ \A l \in LevelNo : /\ l \in 0 .. Levels /\ l + 1 \in 0 .. Levels
                                 /\ Slots[l] \in Nat \ {0} /\ Above[l] \in Nat
                                 /\ Above[l + 1] = Above[l] + Slots[l]
           /\ Above[Levels] \in Nat /\ Above[0] = 0 /\ 0 \in LevelNo
<1>1. Levels \in Nat \ {0}
  BY SchedulerAssumption
<1>2. level \in LevelNo /\ slice \in Nat
  BY DEF SInv, TypeOK, LevelNo
<1>3. LevelNo \subseteq Nat /\ 0 \in LevelNo /\ Levels \in 0 .. Levels
      /\ \A l \in LevelNo : l \in 0 .. Levels /\ l + 1 \in 0 .. Levels /\ l \in 0 .. Levels - 1
  BY <1>1 DEF LevelNo
<1>4. ASSUME NEW l \in LevelNo
      PROVE  Slots[l] \in Nat \ {0} /\ Above[l] \in Nat /\ Above[l + 1] = Above[l] + Slots[l]
  BY <1>3, SlotsAre, AboveIs
<1>5. Above[Levels] \in Nat /\ Above[0] = 0
  BY <1>3, AboveIs
<1> QED
  BY <1>1, <1>2, <1>3, <1>4, <1>5

\* Where the work is done the time above and on the level grows by one.
LEMMA WorkTells ==
    ASSUME SInv, NEW p \in Proc, Work(p), left[p] > 0, burst' = burst
    PROVE  /\ burst'[p] - left'[p] = (burst[p] - left[p]) + 1
           /\ \A r \in Proc \ {p} : burst'[r] - left'[r] = burst[r] - left[r]
<1>1. left \in [Proc -> Nat] /\ burst \in [Proc -> Nat]
  BY Typing DEF SInv
<1>2. left'[p] = left[p] - 1 /\ \A r \in Proc \ {p} : left'[r] = left[r]
  BY <1>1 DEF Work
<1> QED
  BY <1>1, <1>2

LEMMA FromTopLevels ==
    ASSUME SInv, strategy = "MLF", NEW qs \in Queues, NEW gone, OneEach(qs), Levelled(qs, burst, left),
           \A r \in Proc : In(qs, r) => left[r] > 0,
           FromTop(qs, gone), ~Crash
    PROVE  /\ Levelled(queue', burst', left')
           /\ running' # None
           /\ burst'[running'] - left'[running'] = Above[level'] + (Slots[level'] - slice')
           /\ dropped' = dropped \cup gone
<1>1. DOMAIN qs = LevelNo
  BY DEF Queues
<1>2. PICK l \in LevelNo :
         /\ qs[l] # <<>>
         /\ Save(Head(qs[l])) /\ Work(Head(qs[l]))
         /\ queue' = [qs EXCEPT ![l] = Tail(@)]
         /\ level' = l /\ slice' = Slots[l] - 1
         /\ dropped' = dropped \cup gone
  BY <1>1 DEF FromTop
<1>3. PICK p, t : p = Head(qs[l]) /\ t = Tail(qs[l])
  OBVIOUS
<1>4. p \in Proc /\ p \in Held(qs[l]) /\ Held(t) = Held(qs[l]) \ {p}
  BY <1>2, <1>3, TailHolds DEF Queues, OneEach
<1>5. queue'[l] = t /\ \A k \in LevelNo \ {l} : queue'[k] = qs[k]
  BY <1>1, <1>2, <1>3
<1>6. running' = p /\ p # None /\ burst' = burst /\ Work(p) /\ left[p] > 0
  BY <1>2, <1>3, <1>4, Typing DEF Save, input, In, SInv
<1>7. /\ burst'[p] - left'[p] = (burst[p] - left[p]) + 1
      /\ \A r \in Proc \ {p} : burst'[r] - left'[r] = burst[r] - left[r]
  BY <1>4, <1>6, WorkTells
<1>8. \A k \in LevelNo : Held(queue'[k]) \subseteq Held(qs[k]) \ {p}
  <2>1. \A k \in LevelNo \ {l} : p \notin Held(qs[k])
    BY <1>4 DEF OneEach
  <2> QED
    BY <1>4, <1>5, <2>1
<1>9. \A k \in LevelNo : Held(qs[k]) \subseteq Proc
  BY DEF Held, Queues
<1>10. ASSUME NEW k \in LevelNo, NEW r \in Held(queue'[k])
       PROVE  burst'[r] - left'[r] = Above[k]
  <2>1. r \in Held(qs[k]) /\ r \in Proc \ {p}
    BY <1>8, <1>9
  <2>2. burst[r] - left[r] = Above[k]
    BY <2>1 DEF Levelled
  <2> QED
    BY <1>7, <2>1, <2>2
<1>11. Levelled(queue', burst', left')
  BY <1>10 DEF Levelled
<1>12. burst'[p] - left'[p] = Above[l] + (Slots[l] - (Slots[l] - 1))
  <2>1. Above[l] \in Nat /\ Slots[l] \in Nat
    BY LevelType
  <2>2. burst[p] - left[p] = Above[l]
    BY <1>4 DEF Levelled
  <2> QED
    BY <1>7, <2>1, <2>2
<1> QED
  BY <1>2, <1>6, <1>11, <1>12

\* What MLF does where no process is too long for the levels is one of the
\* first three.
LEMMA MLFStep ==
    ASSUME SInv, LevelInv, strategy = "MLF", MLF_tick, NEW qs, qs = [queue EXCEPT ![0] = Ready]
    PROVE  \/ Free /\ FromTop(qs, {})
           \/ /\ ~Free /\ slice = 0 /\ level + 1 \in LevelNo
              /\ FromTop([qs EXCEPT ![level + 1] = Append(@, running)], {})
           \/ /\ ~Free /\ slice > 0 /\ Save(running) /\ Work(running) /\ queue' = qs
              /\ slice' = slice - 1 /\ UNCHANGED <<level, dropped>>
           \/ /\ ~Fits /\ ~Free /\ (Crash \/ FromTop(qs, {running}))
<1>1. level \in LevelNo /\ Levels \in Nat /\ (level + 1 < Levels => level + 1 \in LevelNo)
  BY LevelType DEF LevelNo
<1>2. ASSUME ~Free, slice = 0, level + 1 = Levels PROVE ~Fits
  <2>1. running \in Proc /\ running # None /\ left[running] > 0
    BY <1>2, PoolIs, Typing DEF SInv, Free
  <2>2. burst[running] - left[running] = Above[level] + (Slots[level] - 0)
    BY <1>2, <2>1 DEF LevelInv
  <2>3. Above[Levels] = Above[level] + Slots[level] /\ Above[level] \in Nat /\ Slots[level] \in Nat
    BY <1>1, <1>2, LevelType
  <2>4. burst[running] \in Nat /\ left[running] \in Nat
    BY <2>1, Typing DEF SInv
  <2>5. ~(burst[running] <= Above[Levels])
    BY <2>1, <2>2, <2>3, <2>4
  <2> QED
    BY <2>1, <2>5 DEF Fits
<1>3. CASE Free /\ FromTop(qs, {})
  BY <1>3
<1>4. CASE /\ ~Free /\ slice = 0 /\ level + 1 < Levels
           /\ FromTop([qs EXCEPT ![level + 1] = Append(@, running)], {})
  BY <1>1, <1>4
<1>5. CASE ~Free /\ slice = 0 /\ level + 1 = Levels /\ (Crash \/ FromTop(qs, {running}))
  BY <1>2, <1>5
<1>6. CASE /\ ~Free /\ slice > 0 /\ Save(running) /\ Work(running) /\ queue' = qs
           /\ slice' = slice - 1 /\ UNCHANGED <<level, wait, dropped>>
  BY <1>6
<1> QED
  BY <1>3, <1>4, <1>5, <1>6 DEF MLF_tick

LEMMA LevelPicks ==
    ASSUME SInv, LevelInv, strategy = "MLF", MLF_tick, ~Crash
    PROVE  LevelInv'
<1>1. PICK qs : qs = [queue EXCEPT ![0] = Ready]
  OBVIOUS
<1>2. /\ qs \in Queues /\ qs[0] = Ready /\ \A l \in LevelNo \ {0} : qs[l] = queue[l]
      /\ OneEach(qs) /\ \A r \in Proc : In(qs, r) <=> r \in Waiting \cup NewArrival
  BY <1>1, ArrivedQueues
<1>3. Pool \subseteq Proc /\ \A r \in Pool : left[r] > 0
  BY PoolIs DEF SInv
<1>4. left \in [Proc -> Nat] /\ burst \in [Proc -> Nat]
  BY Typing DEF SInv
<1>5. Levelled(qs, burst, left)
  <2>1. ASSUME NEW r \in NewArrival PROVE burst[r] - left[r] = Above[0]
    <3>1. r \in Proc /\ left[r] = burst[r] /\ burst[r] \in Nat
      BY <1>4, ArrivalIs DEF SInv, Fresh
    <3> QED
      BY <3>1, LevelType
  <2>2. \A l \in LevelNo : \A r \in Held(queue[l]) : burst[r] - left[r] = Above[l]
    BY DEF LevelInv, Levelled
  <2>3. Held(qs[0]) = Held(queue[0]) \cup NewArrival /\ 0 \in LevelNo
    BY <1>2, ReadyIs, LevelType
  <2>4. SUFFICES ASSUME NEW l \in LevelNo, NEW r \in Held(qs[l])
                 PROVE  burst[r] - left[r] = Above[l]
    BY DEF Levelled
  <2>5. CASE l = 0
    BY <2>1, <2>2, <2>3, <2>5
  <2>6. CASE l # 0
    <3>1. qs[l] = queue[l]
      BY <1>2, <2>6
    <3> QED
      BY <2>2, <3>1
  <2> QED
    BY <2>5, <2>6
<1>6. strategy' = "MLF" /\ (Fits' <=> Fits)
  <2>1. UNCHANGED input
    BY DEF MLF_tick, FromTop, Save, Crash
  <2> QED
    BY <2>1 DEF input, Fits
<1>7. ASSUME NEW ns \in Queues, NEW gone, OneEach(ns), Levelled(ns, burst, left),
             \A r \in Proc : In(ns, r) => r \in Pool, FromTop(ns, gone), Fits => gone = {}
      PROVE  LevelInv'
  <2>1. \A r \in Proc : In(ns, r) => left[r] > 0
    BY <1>3, <1>7
  <2>2. /\ Levelled(queue', burst', left') /\ running' # None
        /\ burst'[running'] - left'[running'] = Above[level'] + (Slots[level'] - slice')
        /\ dropped' = dropped \cup gone
    BY <1>7, <2>1, FromTopLevels
  <2> QED
    BY <1>6, <1>7, <2>2 DEF LevelInv, Levelled
<1>8. CASE Free /\ FromTop(qs, {})
  <2>1. \A r \in Proc : In(qs, r) => r \in Pool
    BY <1>2 DEF Pool
  <2> QED
    BY <1>2, <1>5, <1>7, <1>8, <2>1
<1>9. CASE /\ ~Free /\ slice = 0 /\ level + 1 \in LevelNo
           /\ FromTop([qs EXCEPT ![level + 1] = Append(@, running)], {})
  <2>1. PICK l \in LevelNo : l = level + 1 /\ ~Free /\ slice = 0
    BY <1>9
  <2>2. PICK ns : ns = Demoted(qs, l)
    OBVIOUS
  <2>3. /\ ns \in Queues /\ OneEach(ns) /\ Held(ns[l]) = Held(qs[l]) \cup {running}
        /\ \A k \in LevelNo \ {l} : ns[k] = qs[k]
        /\ \A r \in Proc : In(ns, r) <=> r \in Pool
    <3>1. qs \in Queues /\ OneEach(qs) /\ ~Free /\ l \in LevelNo
      BY <1>2, <2>1
    <3>2. \A r \in Proc : In(qs, r) <=> r \in Waiting \cup NewArrival
      BY <1>2
    <3> QED
      BY <2>2, <3>1, <3>2, DemotedQueues
  <2>4. burst[running] - left[running] = Above[l]
    <3>1. running # None
      BY <2>1 DEF Free
    <3>2. burst[running] - left[running] = Above[level] + (Slots[level] - 0)
      BY <2>1, <3>1 DEF LevelInv
    <3>3. Slots[level] \in Nat /\ Above[level] \in Nat /\ Above[level + 1] = Above[level] + Slots[level]
      BY LevelType
    <3> QED
      BY <2>1, <3>2, <3>3
  <2>5. Levelled(ns, burst, left)
    <3>1. \A k \in LevelNo : \A r \in Held(qs[k]) : burst[r] - left[r] = Above[k]
      BY <1>5 DEF Levelled
    <3>2. \A k \in LevelNo : \A r \in Held(ns[k]) : r \in Held(qs[k]) \/ (r = running /\ k = l)
      BY <2>3
    <3>3. \A k \in LevelNo : \A r \in Held(ns[k]) : burst[r] - left[r] = Above[k]
      BY <2>4, <3>1, <3>2
    <3> QED
      BY <3>3 DEF Levelled
  <2>6. FromTop(ns, {})
    BY <1>9, <2>1, <2>2 DEF Demoted
  <2> QED
    BY <1>7, <2>3, <2>5, <2>6
<1>10. CASE /\ ~Free /\ slice > 0 /\ Save(running) /\ Work(running) /\ queue' = qs
            /\ slice' = slice - 1 /\ UNCHANGED <<level, dropped>>
  <2>1. /\ running \in Proc /\ running # None /\ left[running] > 0 /\ running' = running
        /\ burst' = burst
    BY <1>10, PoolIs, Typing DEF SInv, Free, Save, input
  <2>2. /\ burst'[running] - left'[running] = (burst[running] - left[running]) + 1
        /\ \A r \in Proc \ {running} : burst'[r] - left'[r] = burst[r] - left[r]
    BY <1>10, <2>1, WorkTells
  <2>3. \A k \in LevelNo : \A r \in Held(qs[k]) : r \in Proc \ {running}
    <3>1. running \notin Waiting \cup NewArrival
      BY <1>10, PoolIs DEF SInv
    <3>2. \A k \in LevelNo : Held(qs[k]) \subseteq Proc
      BY <1>2 DEF Held, Queues
    <3> QED
      BY <1>2, <3>1, <3>2 DEF In
  <2>4. Levelled(queue', burst', left')
    <3>1. \A k \in LevelNo : \A r \in Held(qs[k]) : burst'[r] - left'[r] = Above[k]
      BY <1>5, <2>2, <2>3 DEF Levelled
    <3> QED
      BY <1>10, <3>1 DEF Levelled
  <2>5. burst'[running] - left'[running] = Above[level] + (Slots[level] - (slice - 1))
    <3>1. burst[running] - left[running] = Above[level] + (Slots[level] - slice)
      BY <2>1 DEF LevelInv
    <3>2. Above[level] \in Nat /\ Slots[level] \in Nat /\ slice \in Nat
      BY LevelType
    <3> QED
      BY <2>2, <3>1, <3>2
  <2> QED
    BY <1>6, <1>10, <2>1, <2>4, <2>5 DEF LevelInv, Levelled
<1>11. CASE ~Fits /\ ~Free /\ FromTop(qs, {running})
  <2>1. \A r \in Proc : In(qs, r) => r \in Pool
    BY <1>2 DEF Pool
  <2> QED
    BY <1>2, <1>5, <1>7, <1>11, <2>1
<1> QED
  BY <1>1, <1>8, <1>9, <1>10, <1>11, MLFStep

\* The null pointers are used only where there is nobody to choose from, or
\* by a process too long for the levels.
LEMMA CrashIs ==
    ASSUME SInv, LevelInv, Tick, status' = "crashed"
    PROVE  Crash /\ strategy \in {"LCFS", "HRRN", "MLF"} /\ (Fits => Pool = {})
<1>1. status = "running" /\ ~(UNCHANGED status)
  BY DEF Tick
<1>2. /\ ~FCFS_tick /\ ~RR_tick /\ ~PRIOP_tick /\ ~SRTNP_tick
      /\ LCFS_tick => Free /\ Ready = <<>> /\ Crash
      /\ HRRN_tick => Free /\ Ready = <<>> /\ Crash
  <2>1. \A p : ~Save(p)
    BY <1>1 DEF Save
  <2>2. \A p, q : ~Run(p, q)
    BY <2>1 DEF Run
  <2>3. ~Idle
    BY <2>1 DEF Idle
  <2>4. ~FCFS_tick /\ ~RR_tick /\ ~SRTNP_tick
    BY <2>2, <2>3 DEF FCFS_tick, RR_tick, SRTNP_tick
  <2>5. ~PRIOP_tick
    BY <2>1, <2>2, <2>3 DEF PRIOP_tick
  <2> QED
    BY <2>2, <2>4, <2>5 DEF LCFS_tick, HRRN_tick
<1>3. CASE strategy \in {"LCFS", "HRRN"} /\ Free /\ Ready = <<>> /\ Crash
  BY <1>3, NobodyThere
<1>4. CASE strategy = "MLF" /\ MLF_tick
  <2>1. PICK qs : qs = [queue EXCEPT ![0] = Ready]
    OBVIOUS
  <2>2. /\ qs \in Queues /\ OneEach(qs)
        /\ \A r \in Proc : In(qs, r) <=> r \in Waiting \cup NewArrival
    BY <1>4, <2>1, ArrivedQueues
  <2>3. \A p : ~Save(p)
    BY <1>1 DEF Save
  <2>4. ASSUME NEW ns \in Queues, NEW gone, FromTop(ns, gone)
        PROVE  Crash /\ \A l \in LevelNo : ns[l] = <<>>
    BY <2>3, <2>4 DEF FromTop, Queues
  <2>5. CASE Free /\ FromTop(qs, {})
    <3>1. Crash /\ \A l \in LevelNo : Held(qs[l]) = {}
      BY <2>2, <2>4, <2>5 DEF Held
    <3>2. Waiting \cup NewArrival = {} /\ Current = {}
      BY <2>2, <2>5, <3>1, PoolIs DEF In, SInv, Pool
    <3> QED
      BY <1>4, <3>1, <3>2 DEF Pool
  <2>6. CASE /\ ~Free /\ slice = 0 /\ level + 1 \in LevelNo
             /\ FromTop([qs EXCEPT ![level + 1] = Append(@, running)], {})
    <3>1. PICK ns : ns = Demoted(qs, level + 1)
      OBVIOUS
    <3>2. ns \in Queues /\ Held(ns[level + 1]) = Held(qs[level + 1]) \cup {running}
      BY <1>4, <2>2, <2>6, <3>1, DemotedQueues
    <3>3. ns[level + 1] = <<>>
      BY <2>4, <2>6, <3>1, <3>2 DEF Demoted
    <3> QED
      BY <3>2, <3>3 DEF Held
  <2>7. CASE ~Fits /\ ~Free /\ (Crash \/ FromTop(qs, {running}))
    BY <1>4, <2>2, <2>4, <2>7
  <2>8. CASE Save(running)
    BY <2>3, <2>8
  <2> QED
    BY <1>4, <2>1, <2>5, <2>6, <2>7, <2>8, MLFStep
<1> QED
  BY <1>2, <1>3, <1>4 DEF Tick, Loop

LEMMA LevelsKept ==
    ASSUME SInv, LevelInv, [Next]_vars
    PROVE  LevelInv'
<1>1. CASE Tick /\ ~Crash
  <2>1. CASE strategy = "MLF"
    BY <1>1, <2>1, LevelPicks DEF Tick, Loop
  <2>2. CASE strategy # "MLF"
    <3>1. UNCHANGED input
      BY <1>1, TickIs DEF Rests, Idle, Picks, Save
    <3>2. UNCHANGED dropped
      <4>1. CASE Rests
        BY <4>1 DEF Rests
      <4>2. ASSUME NEW p \in Proc, NEW gone, Picks(p, gone) PROVE UNCHANGED dropped
        BY <2>2, <4>2 DEF Picks
      <4> QED
        BY <1>1, <4>1, <4>2, TickIs
    <3> QED
      BY <2>2, <3>1, <3>2 DEF LevelInv, Fits, input
  <2> QED
    BY <2>1, <2>2
<1>2. CASE Crash \/ Finish \/ UNCHANGED vars
  <2>1. UNCHANGED <<strategy, burst, left, running, queue, slice, level, dropped>>
    BY <1>2 DEF Crash, Finish, vars, input
  <2> QED
    BY <2>1 DEF LevelInv, Fits, Levelled
<1> QED
  BY <1>1, <1>2 DEF Next

LEMMA LevelsStart ==
    ASSUME Init PROVE LevelInv
<1>1. \A l \in LevelNo : Held(queue[l]) = {}
  BY DEF Init, LevelNo, Held
<1> QED
  BY <1>1 DEF Init, LevelInv, Levelled
-----------------------------------------------------------------------------
\* w has waited n ticks at most since it arrived or last had the processor.
Waited(w, n, begin, past, now) ==
    \E t \in {begin[w]} \cup {k \in DOMAIN past : past[k] = w} : now - t <= n

\* Who is at place i of the queue of RR waits for the rest of this quantum
\* and i - 1 quanta more.
RoundInv ==
    strategy = "RR" =>
        /\ slice <= Quantum
        /\ running # None => time > 0 /\ schedule[time] = running
        /\ \A i \in DOMAIN queue[0] :
              Waited(queue[0][i], (NumProc - i) * Quantum - slice, start, schedule, time)

\* Who arrives goes to the end of the queue, the others keep their places.
LEMMA ReadyPlaces ==
    ASSUME SInv, strategy \notin {"PRIOP", "SRTNP"}, NEW j \in DOMAIN Ready
    PROVE  \/ j \in DOMAIN queue[0] /\ Ready[j] = queue[0][j]
           \/ Ready[j] \in NewArrival
<1>1. queue[0] \in Seq(Proc)
  BY Typing DEF SInv
<1>2. CASE NewArrival = {}
  BY <1>2 DEF Ready
<1>3. CASE NewArrival # {}
  <2>1. PICK p \in NewArrival : p = CHOOSE r \in NewArrival : TRUE
    BY <1>3
  <2>2. Ready = Append(queue[0], p) /\ p \in Proc
    BY <1>3, <2>1, ArrivalIs DEF Ready, Insert, SInv
  <2> QED
    BY <1>1, <2>1, <2>2
<1> QED
  BY <1>2, <1>3

\* Where anybody in the queue after a tick of RR was before.
LEMMA RoundPlaces ==
    ASSUME SInv, RoundInv, strategy = "RR", RR_tick, NEW j \in DOMAIN queue'[0]
    PROVE  /\ slice' \in 0 .. Quantum - 1 /\ j \in 1 .. NumProc - 1 /\ Save(running')
           /\ \/ queue'[0][j] \in NewArrival
              \/ running # None /\ queue'[0][j] = running
              \/ \E i \in DOMAIN queue[0] :
                    /\ queue'[0][j] = queue[0][i]
                    /\ \/ i = j /\ slice' = slice - 1
                       \/ i = j + 1 /\ slice' = Quantum - 1
<1>1. /\ queue \in Queues /\ 0 \in LevelNo /\ queue[0] \in Seq(Proc) /\ slice \in Nat
      /\ Quantum \in Nat \ {0} /\ NumProc \in Nat
  BY Typing DEF SInv, TypeOK
<1>2. Ready \in Seq(Proc) /\ NoTwice(Ready) /\ DOMAIN Ready = 1 .. Len(Ready) /\ Len(Ready) \in Nat
  BY ReadyIs
<1>3. \A p, q : Run(p, q) => queue'[0] = q /\ Save(running')
  BY <1>1 DEF Run, Queues, Save
<1>4. ~Rests /\ ~(Ready = <<>> /\ Idle)
  <2>1. ASSUME queue' = queue PROVE Pool # {} /\ Held(Ready) # {}
    <3>1. queue[0][j] \in Held(queue[0])
      BY <2>1 DEF Held
    <3> QED
      BY <3>1, OneQueue DEF Pool
  <2>2. Held(<<>>) = {}
    BY DEF Held
  <2> QED
    BY <2>1, <2>2 DEF Rests, Idle
<1>5. j \in 1 .. NumProc - 1
  <2>1. PICK p \in Proc : Picks(p, {})
    BY <1>4, RR_Picks
  <2>2. queue'[0] \in Seq(Proc) /\ NoTwice(queue'[0])
    BY <1>1, <2>1 DEF Picks, Queues, OneEach
  <2>3. p \in Proc \ Held(queue'[0])
    BY <1>1, <2>1 DEF Picks, In
  <2>4. Len(queue'[0]) <= NumProc - 1 /\ DOMAIN queue'[0] = 1 .. Len(queue'[0])
        /\ Len(queue'[0]) \in Nat
    BY <2>2, <2>3, QueueFits
  <2> QED
    BY <1>1, <2>4
<1>6. CASE Free /\ Ready # <<>> /\ Run(Head(Ready), Tail(Ready)) /\ slice' = Quantum - 1
  <2>1. queue'[0] = Tail(Ready)
    BY <1>3, <1>6
  <2>2. j + 1 \in DOMAIN Ready /\ queue'[0][j] = Ready[j + 1]
    BY <1>2, <1>6, <2>1
  <2> QED
    BY <1>1, <1>3, <1>5, <1>6, <2>2, ReadyPlaces
<1>7. CASE /\ ~Free /\ slice = 0 /\ slice' = Quantum - 1
           /\ LET q == Append(Ready, running) IN Run(Head(q), Tail(q))
  <2>1. PICK q : q = Append(Ready, running)
    OBVIOUS
  <2>2. running \in Proc /\ running # None
    BY <1>7, PoolIs DEF SInv
  <2>3. queue'[0] = Tail(q) /\ Save(running')
    BY <1>3, <1>7, <2>1
  <2>4. /\ queue'[0][j] = q[j + 1]
        /\ (j + 1 \in DOMAIN Ready /\ q[j + 1] = Ready[j + 1]) \/ q[j + 1] = running
    BY <1>2, <2>1, <2>2, <2>3
  <2>5. CASE j + 1 \in DOMAIN Ready /\ q[j + 1] = Ready[j + 1]
    <3>1. \/ j + 1 \in DOMAIN queue[0] /\ queue'[0][j] = queue[0][j + 1]
          \/ queue'[0][j] \in NewArrival
      BY <2>4, <2>5, ReadyPlaces
    <3>2. slice' = Quantum - 1 /\ slice' \in 0 .. Quantum - 1 /\ Save(running')
      BY <1>1, <1>7, <2>3
    <3> QED
      BY <1>5, <3>1, <3>2
  <2>6. CASE q[j + 1] = running
    BY <1>1, <1>5, <1>7, <2>2, <2>3, <2>4, <2>6
  <2> QED
    BY <2>4, <2>5, <2>6
<1>8. CASE ~Free /\ slice > 0 /\ Run(running, Ready) /\ slice' = slice - 1
  <2>1. queue'[0] = Ready
    BY <1>3, <1>8
  <2> QED
    <3>1. \/ j \in DOMAIN queue[0] /\ queue'[0][j] = queue[0][j]
          \/ queue'[0][j] \in NewArrival
      BY <2>1, ReadyPlaces
    <3>2. slice' \in 0 .. Quantum - 1
      <4>1. slice <= Quantum
        BY DEF RoundInv
      <4> QED
        BY <1>1, <1>8, <4>1
    <3> QED
      BY <1>3, <1>5, <1>8, <3>1, <3>2
<1> QED
  BY <1>4, <1>6, <1>7, <1>8 DEF RR_tick

\* What a wait costs when the process moves up.
LEMMA WaitGrows ==
    ASSUME SInv, start' = start, time' = time + 1, NEW x, schedule' = Append(schedule, x),
           NEW w \in Proc, NEW n \in Int, Waited(w, n, start, schedule, time)
    PROVE  Waited(w, n + 1, start', schedule', time')
<1>1. start \in [Proc -> Nat] /\ time \in Nat /\ schedule \in Seq(Proc \cup {None})
  BY Typing DEF SInv, TypeOK
<1>2. PICK t \in {start[w]} \cup {k \in DOMAIN schedule : schedule[k] = w} : time - t <= n
  BY DEF Waited
<1>3. t \in Nat
  BY <1>1, <1>2
<1>4. t \in {start'[w]} \cup {k \in DOMAIN schedule' : schedule'[k] = w}
  BY <1>1, <1>2
<1>5. time' - t <= n + 1
  BY <1>1, <1>2, <1>3
<1> QED
  BY <1>4, <1>5 DEF Waited

LEMMA RoundStep ==
    ASSUME SInv, RoundInv, strategy = "RR", RR_tick
    PROVE  RoundInv'
<1>1. /\ queue \in Queues /\ queue[0] \in Seq(Proc) /\ slice \in Nat /\ time \in Nat
      /\ Quantum \in Nat \ {0} /\ NumProc \in Nat /\ start \in [Proc -> Nat]
      /\ schedule \in Seq(Proc \cup {None}) /\ Len(schedule) = time
  BY Typing DEF SInv, TypeOK
<1>2. PICK x \in Proc \cup {None} : Save(x)
  <2>1. \A p : Picks(p, {}) => Save(p)
    BY DEF Picks
  <2> QED
    BY <2>1, RR_Picks DEF Rests, Idle
<1>3. /\ time' = time + 1 /\ schedule' = Append(schedule, x) /\ running' = x
      /\ start' = start /\ strategy' = strategy
  BY <1>2 DEF Save, input
<1>4. time' > 0 /\ schedule'[time'] = running'
  BY <1>1, <1>3
<1>5. slice' <= Quantum
  BY <1>1 DEF RR_tick, RoundInv
<1>8. PICK s : s = queue'[0]
  OBVIOUS
<1>6. ASSUME NEW j \in Nat, j \in DOMAIN s
      PROVE  Waited(s[j], (NumProc - j) * Quantum - slice', start', schedule', time')
  <2>1. slice' \in 0 .. Quantum - 1 /\ j \in 1 .. NumProc - 1
    BY <1>6, <1>8, RoundPlaces
  <2>2. (NumProc - j) * Quantum - slice' >= 1 /\ (NumProc - j) * Quantum \in Int
    <3>1. NumProc - j \in Nat /\ NumProc - j >= 1
      BY <1>1, <2>1
    <3>2. PICK n \in Nat : n = NumProc - j /\ n >= 1
      BY <3>1
    <3>3. n * Quantum >= Quantum /\ n * Quantum \in Nat
      <4>1. \A k, q \in Nat : k >= 1 => k * q >= q /\ k * q \in Nat
        OBVIOUS
      <4> QED
        BY <1>1, <3>2, <4>1
    <3>4. PICK m \in Nat : m = n * Quantum /\ m >= Quantum
      BY <3>3
    <3>5. PICK r : r = slice'
      OBVIOUS
    <3>6. r \in Nat /\ r <= Quantum - 1
      BY <1>1, <2>1, <3>5
    <3>7. m >= Quantum
      BY <3>4
    <3>8. m - r >= 1 /\ m \in Int
      BY <1>1, <3>6, <3>7
    <3> QED
      BY <3>2, <3>4, <3>5, <3>8
  <2>3. CASE s[j] \in NewArrival
    <3>1. PICK w \in Proc : w = s[j] /\ start'[w] = time
      BY <1>3, <2>3, ArrivalIs DEF SInv
    <3>2. time' - start'[w] = 1
      BY <1>1, <1>3, <3>1
    <3>3. time' - start'[w] <= (NumProc - j) * Quantum - slice'
      BY <2>2, <3>2
    <3> QED
      BY <3>1, <3>3 DEF Waited
  <2>4. CASE running # None /\ s[j] = running
    <3>1. schedule[time] = running /\ time > 0
      BY <2>4 DEF RoundInv
    <3>2. time \in DOMAIN schedule' /\ schedule'[time] = running /\ time' - time = 1
      BY <1>1, <1>3, <3>1
    <3>3. \E t \in {start'[running]} \cup {k \in DOMAIN schedule' : schedule'[k] = running} :
             time' - t <= (NumProc - j) * Quantum - slice'
      <4>1. time' - time <= (NumProc - j) * Quantum - slice'
        BY <2>2, <3>2
      <4> QED
        BY <3>2, <4>1
    <3> QED
      BY <2>4, <3>3 DEF Waited
  <2>5. ASSUME NEW i \in DOMAIN queue[0], s[j] = queue[0][i],
               \/ i = j /\ slice' = slice - 1
               \/ i = j + 1 /\ slice' = Quantum - 1
        PROVE  Waited(s[j], (NumProc - j) * Quantum - slice', start', schedule', time')
    <3>1. PICK w \in Proc, n \in Int : /\ w = queue[0][i]
                                       /\ n = (NumProc - i) * Quantum - slice
      <4>1. i \in Nat /\ queue[0][i] \in Proc
        BY <1>1
      <4>2. (NumProc - i) * Quantum - slice \in Int
        BY <1>1, <4>1
      <4> QED
        BY <4>1, <4>2
    <3>2. Waited(w, n + 1, start', schedule', time')
      <4>1. Waited(w, n, start, schedule, time)
        BY <3>1 DEF RoundInv
      <4> QED
        BY <1>3, <4>1, WaitGrows
    <3>3. n + 1 <= (NumProc - j) * Quantum - slice'
      <4>1. CASE i = j /\ slice' = slice - 1
        <5>1. (NumProc - j) * Quantum \in Int
          BY <2>2
        <5> QED
          BY <1>1, <3>1, <4>1, <5>1
      <4>2. CASE i = j + 1 /\ slice' = Quantum - 1
        <5>1. (NumProc - (j + 1)) * Quantum = (NumProc - j) * Quantum - Quantum
          BY <1>1, <2>1
        <5>2. n = ((NumProc - j) * Quantum - Quantum) - slice
          BY <3>1, <4>2, <5>1
        <5>3. PICK m \in Int : m = (NumProc - j) * Quantum
          BY <2>2
        <5>4. PICK r \in Int : r = slice' /\ r = Quantum - 1
          BY <1>1, <4>2
        <5>5. n = (m - Quantum) - slice
          BY <5>2, <5>3
        <5>6. n + 1 <= m - r
          BY <1>1, <5>4, <5>5
        <5> QED
          BY <5>3, <5>4, <5>6
      <4> QED
        BY <2>5, <4>1, <4>2
    <3>4. PICK m \in Int : m = (NumProc - j) * Quantum - slice'
      <4>1. PICK a \in Int, b \in Int : a = (NumProc - j) * Quantum /\ b = slice'
        BY <2>1, <2>2
      <4> QED
        BY <4>1
    <3>5. PICK t \in {start'[w]} \cup {k \in DOMAIN schedule' : schedule'[k] = w} :
             time' - t <= n + 1
      BY <3>2 DEF Waited
    <3>6. t \in Int /\ time' \in Int
      BY <1>1, <1>3
    <3>7. time' - t <= m
      BY <3>1, <3>3, <3>4, <3>5, <3>6
    <3> QED
      BY <2>5, <3>1, <3>4, <3>5, <3>7 DEF Waited
  <2> QED
    BY <1>6, <2>3, <2>4, <2>5, <1>8, RoundPlaces
<1>7. \A j \in DOMAIN queue'[0] : j \in Nat
  BY RoundPlaces
<1> QED
  BY <1>3, <1>4, <1>5, <1>6, <1>7, <1>8 DEF RoundInv

LEMMA RoundsKept ==
    ASSUME SInv, RoundInv, [Next]_vars
    PROVE  RoundInv'
<1>1. CASE Tick /\ strategy = "RR"
  BY <1>1, RoundStep DEF Tick, Loop
<1>2. CASE Tick /\ strategy # "RR" /\ ~Crash
  <2>1. UNCHANGED input
    BY <1>2, TickIs DEF Rests, Idle, Picks, Save
  <2> QED
    BY <1>2, <2>1 DEF RoundInv, input
<1>3. CASE Crash \/ Finish \/ UNCHANGED vars
  <2>1. UNCHANGED <<strategy, start, time, running, queue, slice, schedule>>
    BY <1>3 DEF Crash, Finish, vars, input
  <2> QED
    BY <2>1 DEF RoundInv, Waited
<1> QED
  BY <1>1, <1>2, <1>3 DEF Next

LEMMA RoundsStart ==
    ASSUME Init PROVE RoundInv
<1>1. queue[0] = <<>>
  BY SchedulerAssumption DEF Init
<1>2. slice <= Quantum
  BY SchedulerAssumption DEF Init
<1> QED
  BY <1>1, <1>2 DEF Init, RoundInv

\* The place in the queue bounds the wait.
LEMMA RoundsRobin ==
    ASSUME SInv, RoundInv
    PROVE  RoundRobin
<1>1. SUFFICES ASSUME strategy = "RR", NEW w \in Waiting
      PROVE  \E t \in {start[w]} \cup {k \in DOMAIN schedule : schedule[k] = w} :
                time - t <= (NumProc - 1) * Quantum
  BY DEF RoundRobin
<1>2. /\ queue[0] \in Seq(Proc) /\ slice \in Nat /\ time \in Nat /\ Waiting \subseteq Proc
      /\ Quantum \in Nat /\ NumProc \in Nat /\ start \in [Proc -> Nat]
      /\ schedule \in Seq(Proc \cup {None})
  BY Typing DEF SInv, TypeOK, Waiting, Admitted
<1>3. PICK i \in DOMAIN queue[0] : queue[0][i] = w
  BY <1>1, OneQueue DEF Held
<1>4. i \in Nat /\ i >= 1
  BY <1>2
<1>5. PICK t \in {start[w]} \cup {k \in DOMAIN schedule : schedule[k] = w} :
         time - t <= (NumProc - i) * Quantum - slice
  BY <1>1, <1>3 DEF RoundInv, Waited
<1>6. t \in Nat
  <2>1. start[w] \in Nat
    BY <1>1, <1>2
  <2>2. \A k \in DOMAIN schedule : k \in Nat
    BY <1>2
  <2> QED
    BY <1>5, <2>1, <2>2
<1>7. (NumProc - i) * Quantum = (NumProc - 1) * Quantum - (i - 1) * Quantum
  BY <1>2, <1>4
<1>8. PICK a \in Int, b \in Nat : a = (NumProc - 1) * Quantum /\ b = (i - 1) * Quantum
  <2>1. i - 1 \in Nat /\ NumProc - 1 \in Int
    BY <1>2, <1>4
  <2>2. \A n \in Nat, q \in Nat : n * q \in Nat
    OBVIOUS
  <2>3. \A n \in Int, q \in Nat : n * q \in Int
    OBVIOUS
  <2>4. (i - 1) * Quantum \in Nat
    BY <1>2, <2>1, <2>2
  <2>5. (NumProc - 1) * Quantum \in Int
    BY <1>2, <2>1, <2>3
  <2> QED
    BY <2>4, <2>5
<1>9. time - t <= (a - b) - slice
  BY <1>5, <1>7, <1>8
<1>10. time - t <= a
  BY <1>2, <1>6, <1>9
<1> QED
  BY <1>5, <1>8, <1>10

\* Types, queues, levels and rounds.
AllInv == SInv /\ LevelInv /\ RoundInv

LEMMA AllAlways == Spec => []AllInv
<1>1. Init => AllInv
  BY StartHolds, LevelsStart, RoundsStart DEF AllInv
<1>2. AllInv /\ [Next]_vars => AllInv'
  BY StepKeeps, LevelsKept, RoundsKept DEF AllInv
<1> QED
  BY <1>1, <1>2, PTL DEF Spec

LEMMA LevelsTell ==
    ASSUME SInv, LevelInv
    PROVE  LevelTellsWork
<1>1. DOMAIN queue = LevelNo
  BY Typing DEF SInv
<1>2. \A l \in LevelNo : \A i \in DOMAIN queue[l] : queue[l][i] \in Held(queue[l])
  BY DEF Held
<1> QED
  BY <1>1, <1>2 DEF LevelInv, Levelled, LevelTellsWork

\* Every strategy keeps to its rule at every tick: the order of FCFS, PRIOP
\* and SRTNP, the bounded wait of RR (RR.c), the levels of MLF (MLF.c).
THEOREM StrategiesKeep == Spec => []StrategyKept
<1>1. AllInv => StrategyKept
  BY RoundsRobin, LevelsTell DEF AllInv, SInv, StrategyKept
<1> QED
  BY <1>1, AllAlways, PTL
-----------------------------------------------------------------------------
\* The pool without the one that runs waits.
LEMMA WaitNext ==
    ASSUME SInv, NEW p \in Proc, NEW gone, Picks(p, gone)
    PROVE  Waiting' = Pool \ (gone \cup {p})
<1>1. SInv'
  BY PicksKeeps
<1>2. \A r \in Proc : In(queue', r) <=> r \in Waiting'
  BY <1>1 DEF SInv, Queued, In
<1>3. Waiting' \subseteq Proc /\ Pool \subseteq Proc
  BY PoolIs DEF Waiting, Admitted, SInv
<1> QED
  BY <1>2, <1>3 DEF Picks

\* Where there is one queue it holds them.
LEMMA WaitQueue ==
    ASSUME SInv, strategy # "MLF", NEW p \in Proc, Picks(p, {})
    PROVE  /\ running' = p /\ Waiting' = Pool \ {p}
           /\ Waiting' = Held(queue'[0])
<1>1. running' = p /\ Waiting' = Pool \ {p}
  <2>1. Waiting' = Pool \ ({} \cup {p})
    BY WaitNext
  <2> QED
    BY <2>1 DEF Picks, Save
<1>2. 0 \in LevelNo /\ queue' \in Queues
  BY Typing DEF SInv, Picks
<1>3. Waiting' = Held(queue'[0])
  <2>1. \A l \in LevelNo \ {0} : Held(queue'[l]) = {}
    BY DEF Picks, Held
  <2>2. \A r \in Proc : In(queue', r) <=> r \in Held(queue'[0])
    BY <1>2, <2>1 DEF In
  <2>3. Held(queue'[0]) \subseteq Proc /\ Pool \subseteq Proc
    BY <1>2, PoolIs DEF Held, Queues, SInv
  <2> QED
    BY <1>1, <2>2, <2>3 DEF Picks
<1> QED
  BY <1>1, <1>3

\* LCFS changes the process only when it is finished, and takes the newest.
LEMMA LastFirst ==
    ASSUME SInv, strategy = "LCFS", LCFS_tick, running' # running
    PROVE  Free /\ \A w \in Waiting' : start[w] < start[running']
<1>1. PICK p \in Proc : Picks(p, {})
  BY LCFS_Picks DEF Crash
<1>2. running' = p /\ Waiting' = Pool \ {p}
  BY <1>1, WaitQueue
<1>3. Free /\ Ready # <<>> /\ p = Ready[Len(Ready)]
  BY <1>2 DEF LCFS_tick, Crash, Run, Save
<1>4. Ready \in Seq(Proc) /\ InOrder(Ready, Rank) /\ Held(Ready) = Pool
  BY <1>3, ReadyIs, OneQueue, PoolIs DEF SInv, Pool
<1>5. ASSUME NEW w \in Pool \ {p} PROVE start[w] < start[p]
  <2>1. PICK i \in DOMAIN Ready : w = Ready[i]
    BY <1>4 DEF Held
  <2>2. Len(Ready) \in DOMAIN Ready /\ i < Len(Ready)
    BY <1>3, <1>4, <2>1
  <2> QED
    BY <1>3, <1>4, <2>1, <2>2 DEF InOrder, Rank
<1> QED
  BY <1>2, <1>3, <1>5

\* The counters of HRRN say how long each waits; who waits has not worked.
CountInv ==
    strategy = "HRRN" =>
        /\ \A p \in Waiting : wait[p] = time - start[p] /\ left[p] = burst[p]
        /\ \A p \in Proc \ Admitted : wait[p] = 0

\* The response ratio of the times, cut to a whole number.
WholeRatio(p) == Response(p) \div burst[p]

\* Where HRRN looks the ratio is that of the times.
LEMMA RatioTrue ==
    ASSUME SInv, CountInv, strategy = "HRRN", NEW w \in Waiting \cup NewArrival
    PROVE  Ratio(w) = WholeRatio(w)
<1>1. CASE w \in Waiting
  BY <1>1 DEF CountInv, Ratio, WholeRatio, Response
<1>2. CASE w \in NewArrival
  <2>1. w \in Proc \ Admitted /\ start[w] = time /\ time \in Nat
    BY <1>2, ArrivalIs, Typing DEF SInv
  <2>2. wait[w] = 0 /\ time - start[w] = 0 /\ left[w] = burst[w]
    BY <2>1 DEF CountInv, SInv, Fresh
  <2> QED
    BY <2>2 DEF Ratio, WholeRatio, Response
<1> QED
  BY <1>1, <1>2

\* A fraction whose whole part is not greater is less than one above.
LEMMA WholeParts ==
    ASSUME NEW a \in Nat, NEW b \in Nat \ {0}, NEW c \in Nat, NEW d \in Nat \ {0},
           a \div b <= c \div d
    PROVE  a * d < (c + d) * b
<1>1. PICK q \in Nat : q = c \div d /\ q * d <= c
  OBVIOUS
<1>2. a < (q + 1) * b
  BY <1>1
<1>3. a * d < ((q + 1) * b) * d
  BY <1>1, <1>2
<1>4. (q + 1) * d <= c + d
  BY <1>1
<1>5. ((q + 1) * d) * b <= (c + d) * b
  BY <1>1, <1>4
<1> QED
  BY <1>1, <1>3, <1>5

LEMMA HRRN_Does ==
    ASSUME SInv, strategy = "HRRN", HRRN_tick, ~Crash
    PROVE  \E p \in Proc : /\ Picks(p, {}) /\ running' = p /\ Waiting' = Pool \ {p}
                           /\ Waiting' = Held(queue'[0]) /\ Waits(queue'[0])
                           /\ \/ ~Free /\ p = running
                              \/ /\ Free /\ Ready # <<>> /\ p = Ready[Choice(Ready)]
<1>1. PICK p \in Proc : Picks(p, {})
  BY HRRN_Picks
<1>2. running' = p /\ Waiting' = Pool \ {p} /\ Waiting' = Held(queue'[0])
  BY <1>1, WaitQueue
<1>3. queue \in Queues /\ 0 \in LevelNo
  BY Typing DEF SInv
<1>4. \A x, q : Run(x, q) => queue'[0] = q
  BY <1>3 DEF Run, Queues
<1>5. Waits(queue'[0])
  BY <1>4 DEF HRRN_tick
<1>7. \/ ~Free /\ p = running
      \/ Free /\ Ready # <<>> /\ p = Ready[Choice(Ready)]
  BY <1>2 DEF HRRN_tick, Run, Save
<1> QED
  BY <1>1, <1>2, <1>5, <1>7

\* HRRN too, and nobody's ratio is higher by one or more than that of the
\* one it takes.
LEMMA HighestFirst ==
    ASSUME SInv, CountInv, strategy = "HRRN", HRRN_tick, running' # running
    PROVE  /\ Free
           /\ \A w \in Waiting' : ~HigherByOne(w, running')
<1>1. PICK p \in Proc : /\ running' = p /\ Waiting' = Pool \ {p}
                        /\ Free /\ Ready # <<>> /\ p = Ready[Choice(Ready)]
  BY HRRN_Does DEF Crash
<1>2. Held(Ready) = Pool /\ Pool = Waiting \cup NewArrival
  BY <1>1, OneQueue, PoolIs DEF SInv, Pool
<1>3. \A r \in Held(Ready) : left[r] > 0
  BY <1>2, PoolIs DEF SInv
<1>4. /\ Choice(Ready) \in DOMAIN Ready
      /\ \A r \in Held(Ready) : Ratio(r) <= Ratio(Ready[Choice(Ready)])
  BY <1>1, <1>3, ReadyIs, ChoiceIs, Typing DEF SInv, TypeOK
<1>5. p \in Held(Ready)
  BY <1>1, <1>4 DEF Held
<1>6. ASSUME NEW w \in Waiting' PROVE ~HigherByOne(w, p)
  <2>1. w \in Waiting \cup NewArrival /\ p \in Waiting \cup NewArrival /\ w \in Held(Ready)
    BY <1>1, <1>2, <1>5
  <2>2. WholeRatio(w) <= WholeRatio(p)
    BY <1>1, <1>4, <2>1, RatioTrue
  <2>3. /\ w \in Proc /\ p \in Proc
        /\ start \in [Proc -> Nat] /\ burst \in [Proc -> Nat \ {0}] /\ time \in Nat
    <3>1. w \in Proc
      BY <2>1 DEF Waiting, Admitted, NewArrival
    <3> QED
      BY <3>1, Typing DEF SInv
  <2>4. Response(w) \in Nat /\ Response(p) \in Nat
    BY <2>1, <2>3, ArrivalIs DEF Response, Waiting, Admitted, SInv
  <2>5. Response(w) * burst[p] < (Response(p) + burst[p]) * burst[w]
    BY <2>2, <2>3, <2>4, WholeParts DEF WholeRatio
  <2> QED
    BY <2>3, <2>4, <2>5 DEF HigherByOne
<1> QED
  BY <1>1, <1>6

LEMMA CountStep ==
    ASSUME SInv, CountInv, strategy = "HRRN", HRRN_tick, ~Crash
    PROVE  CountInv'
<1>1. PICK p \in Proc : /\ Picks(p, {}) /\ Waiting' = Pool \ {p}
                        /\ Waiting' = Held(queue'[0]) /\ Waits(queue'[0])
                        /\ (~Free /\ p = running) \/ Free
  BY HRRN_Does
<1>2. /\ time' = time + 1 /\ start' = start /\ burst' = burst /\ strategy' = strategy
      /\ Work(p) /\ TypeOK
  BY <1>1 DEF Picks, Save, input, SInv
<1>3. /\ left \in [Proc -> Nat] /\ start \in [Proc -> Nat] /\ burst \in [Proc -> Nat]
      /\ time \in Nat /\ wait \in [Proc -> Nat]
  BY <1>2, Typing DEF TypeOK
<1>4. Admitted' = Admitted \cup NewArrival
  BY <1>2, AdmittedIs
<1>5. Waiting' \subseteq Waiting \cup NewArrival /\ Waiting' \subseteq Proc \ {p}
  <2>1. Pool \subseteq Proc /\ Pool \subseteq Waiting \cup NewArrival \cup Current
        /\ Current \subseteq {running} /\ (Free => Current = {})
    BY PoolIs DEF Pool, SInv, Current
  <2> QED
    BY <1>1, <2>1
<1>6. \A r \in Proc : wait'[r] = IF r \in Waiting' THEN wait[r] + 1 ELSE wait[r]
  BY <1>1 DEF Waits, Held
<1>7. ASSUME NEW w \in Waiting' PROVE wait'[w] = time' - start'[w] /\ left'[w] = burst'[w]
  <2>1. w \in Proc /\ w # p /\ left'[w] = left[w] /\ wait'[w] = wait[w] + 1
    BY <1>2, <1>3, <1>5, <1>6 DEF Work
  <2>2. wait[w] = time - start[w] /\ left[w] = burst[w]
    <3>1. CASE w \in Waiting
      BY <3>1 DEF CountInv
    <3>2. CASE w \in NewArrival
      <4>1. w \in Proc \ Admitted /\ start[w] = time
        BY <3>2, ArrivalIs DEF SInv
      <4>2. wait[w] = 0 /\ left[w] = burst[w]
        BY <4>1 DEF CountInv, SInv, Fresh
      <4> QED
        BY <1>3, <4>1, <4>2
    <3> QED
      BY <1>5, <3>1, <3>2
  <2> QED
    BY <1>2, <1>3, <2>1, <2>2
<1>8. ASSUME NEW r \in Proc \ Admitted' PROVE wait'[r] = 0
  <2>1. r \notin Admitted /\ r \notin Waiting'
    BY <1>4, <1>5 DEF Waiting
  <2> QED
    BY <1>6, <2>1 DEF CountInv
<1> QED
  BY <1>2, <1>7, <1>8 DEF CountInv

LEMMA CountKept ==
    ASSUME SInv, CountInv, [Next]_vars
    PROVE  CountInv'
<1>1. CASE Tick /\ ~Crash
  <2>1. CASE strategy = "HRRN"
    BY <1>1, <2>1, CountStep DEF Tick, Loop
  <2>2. CASE strategy # "HRRN"
    <3>1. UNCHANGED input
      BY <1>1, TickIs DEF Rests, Idle, Picks, Save
    <3> QED
      BY <2>2, <3>1 DEF CountInv, input
  <2> QED
    BY <2>1, <2>2
<1>2. CASE Crash \/ Finish \/ UNCHANGED vars
  <2>1. UNCHANGED <<strategy, start, burst, time, left, running, wait, dropped>>
    BY <1>2 DEF Crash, Finish, vars, input
  <2>2. Admitted' = Admitted /\ Waiting' = Waiting
    BY <2>1 DEF Admitted, Waiting, Before
  <2> QED
    BY <2>1, <2>2 DEF CountInv
<1> QED
  BY <1>1, <1>2 DEF Next

\* Who has been ready for longer than whom.
Earlier == {x \in Proc \X Proc : ReadyBefore(x[1], x[2])}

\* The queue of RR has the order in which its processes have become ready,
\* and slice is what the running process has not used of its quantum.
LineInv ==
    strategy = "RR" =>
        /\ time > 0 => schedule[time] = running
        /\ \A k \in DOMAIN schedule : schedule[k] \in Admitted \cup {None}
        /\ InOrder(queue[0], Earlier)
        /\ running # None =>
              /\ slice <= Quantum /\ Quantum <= time + slice
              /\ \A k \in DOMAIN schedule :
                    k + Quantum > time + slice => schedule[k] = running

\* Who arrives goes behind all who wait, and ahead of the one put back.
LEMMA ReadyLine ==
    ASSUME SInv, LineInv, strategy = "RR"
    PROVE  /\ InOrder(Ready, Earlier)
           /\ ~Free => InOrder(Append(Ready, running), Earlier)
<1>1. /\ queue[0] \in Seq(Proc) /\ time \in Nat /\ start \in [Proc -> Nat]
      /\ DOMAIN schedule = 1 .. time /\ None \notin Proc
  BY Typing DEF SInv, TypeOK
<1>2. \A r \in Waiting : r \in Proc /\ r # running /\ start[r] < time
  BY DEF Waiting, Admitted
<1>3. ASSUME NEW r \in Waiting, NEW t \in ReadyAt(r) PROVE t < time
  <2>1. CASE t = start[r]
    BY <1>2, <2>1
  <2>2. CASE t \in DOMAIN schedule /\ schedule[t] = r
    <3>1. t \in 1 .. time /\ t # time
      BY <1>1, <1>2, <2>2 DEF LineInv
    <3> QED
      BY <1>1, <3>1
  <2> QED
    BY <2>1, <2>2 DEF ReadyAt
<1>4. ASSUME NEW p \in NewArrival PROVE p \in Proc /\ start[p] = time /\ ReadyAt(p) = {time}
  <2>1. p \in Proc /\ start[p] = time /\ p \notin Admitted
    BY ArrivalIs DEF SInv
  <2>2. \A k \in DOMAIN schedule : schedule[k] # p
    BY <1>1, <2>1 DEF LineInv
  <2> QED
    BY <2>1, <2>2 DEF ReadyAt
<1>5. ~Free => running \in Proc /\ time \in ReadyAt(running)
  <2>1. SUFFICES ASSUME ~Free PROVE running \in Proc /\ time \in ReadyAt(running)
    OBVIOUS
  <2>2. running \in Proc /\ start[running] < time
    BY <2>1, PoolIs DEF SInv, Fresh, Admitted
  <2>3. time \in DOMAIN schedule /\ schedule[time] = running
    BY <1>1, <2>2 DEF LineInv
  <2> QED
    BY <2>2, <2>3 DEF ReadyAt
<1>6. \A r \in Waiting, p \in NewArrival : <<r, p>> \in Earlier
  BY <1>2, <1>3, <1>4 DEF Earlier, ReadyBefore
<1>7. ~Free => \A r \in Waiting : <<r, running>> \in Earlier
  BY <1>2, <1>3, <1>5 DEF Earlier, ReadyBefore
<1>8. ~Free => \A p \in NewArrival : <<p, running>> \in Earlier
  BY <1>4, <1>5 DEF Earlier, ReadyBefore
<1>9. Held(queue[0]) = Waiting /\ Held(Ready) = Waiting \cup NewArrival /\ Ready \in Seq(Proc)
  BY OneQueue, ReadyIs
<1>10. InOrder(Ready, Earlier)
  <2>1. CASE NewArrival = {}
    BY <2>1 DEF Ready, LineInv
  <2>2. CASE NewArrival # {}
    <3>1. PICK p \in NewArrival : p = CHOOSE r \in NewArrival : TRUE
      BY <2>2
    <3>2. Ready = Append(queue[0], p)
      BY <2>2, <3>1 DEF Ready, Insert
    <3>3. InOrder(queue[0], Earlier) /\ \A r \in Held(queue[0]) : <<r, p>> \in Earlier
      BY <1>6, <1>9 DEF LineInv
    <3> QED
      BY <1>1, <1>4, <3>2, <3>3, AppendHolds
  <2> QED
    BY <2>1, <2>2
<1>11. ASSUME ~Free PROVE InOrder(Append(Ready, running), Earlier)
  <2>1. \A r \in Held(Ready) : <<r, running>> \in Earlier
    BY <1>7, <1>8, <1>9, <1>11
  <2> QED
    BY <1>5, <1>9, <1>10, <1>11, <2>1, AppendHolds
<1> QED
  BY <1>10, <1>11

\* RR goes on with the process that runs, or takes the first of the queue.
LEMMA RR_Does ==
    ASSUME SInv, LineInv, strategy = "RR", RR_tick
    PROVE  \/ Rests
           \/ \E p \in Proc : \E q \in Seq(Proc) :
                 /\ Picks(p, {}) /\ running' = p
                 /\ q = queue'[0] /\ Waiting' = Held(q) /\ p \notin Held(q)
                 /\ InOrder(q, Earlier)
                 /\ \/ p = running /\ slice > 0 /\ slice' = slice - 1
                    \/ /\ slice' = Quantum - 1 /\ (Free \/ slice = 0)
                       /\ \A w \in Held(q) : <<p, w>> \in Earlier
<1>1. SUFFICES ASSUME NEW p \in Proc, Picks(p, {}), ~Rests
      PROVE  \E q \in Seq(Proc) :
                 /\ q = queue'[0] /\ Waiting' = Held(q) /\ p \notin Held(q)
                 /\ running' = p /\ InOrder(q, Earlier)
                 /\ \/ p = running /\ slice > 0 /\ slice' = slice - 1
                    \/ /\ slice' = Quantum - 1 /\ (Free \/ slice = 0)
                       /\ \A w \in Held(q) : <<p, w>> \in Earlier
  BY RR_Picks
<1>2. running' = p /\ Waiting' = Held(queue'[0]) /\ p \notin Held(queue'[0]) /\ p # None
  BY <1>1, WaitQueue, NoneAssumption
<1>3. queue \in Queues /\ 0 \in LevelNo
  BY Typing DEF SInv
<1>4. \A x, q : Run(x, q) => queue'[0] = q /\ x = p
  BY <1>2, <1>3 DEF Run, Save, Queues
<1>5. /\ Ready \in Seq(Proc) /\ NoTwice(Ready) /\ InOrder(Ready, Earlier)
      /\ ~Free => InOrder(Append(Ready, running), Earlier)
  BY ReadyIs, ReadyLine
<1>6. CASE Free /\ Ready # <<>> /\ Run(Head(Ready), Tail(Ready)) /\ slice' = Quantum - 1
  <2>1. queue'[0] = Tail(Ready) /\ p = Head(Ready)
    BY <1>4, <1>6
  <2>2. /\ Tail(Ready) \in Seq(Proc) /\ InOrder(Tail(Ready), Earlier)
        /\ \A w \in Held(Tail(Ready)) : <<Head(Ready), w>> \in Earlier
    BY <1>5, <1>6, TailHolds
  <2> QED
    BY <1>2, <1>6, <2>1, <2>2
<1>7. CASE /\ ~Free /\ slice = 0 /\ slice' = Quantum - 1
           /\ LET q == Append(Ready, running) IN Run(Head(q), Tail(q))
  <2>1. PICK q : q = Append(Ready, running)
    OBVIOUS
  <2>2. queue'[0] = Tail(q) /\ p = Head(q)
    BY <1>4, <1>7, <2>1
  <2>3. running \in Proc /\ running \notin Held(Ready)
    BY <1>7, RunningLined, PoolIs DEF Lined, SInv
  <2>4. q \in Seq(Proc) /\ q # <<>> /\ NoTwice(q) /\ InOrder(q, Earlier)
    BY <1>5, <1>7, <2>1, <2>3, AppendHolds
  <2>5. /\ Tail(q) \in Seq(Proc) /\ InOrder(Tail(q), Earlier)
        /\ \A w \in Held(Tail(q)) : <<Head(q), w>> \in Earlier
    BY <2>4, TailHolds
  <2> QED
    BY <1>2, <1>7, <2>2, <2>5
<1>8. CASE ~Free /\ slice > 0 /\ Run(running, Ready) /\ slice' = slice - 1
  <2>1. queue'[0] = Ready /\ p = running
    BY <1>4, <1>8
  <2> QED
    BY <1>2, <1>5, <1>8, <2>1
<1>9. ~Idle
  BY <1>2 DEF Idle, Save
<1> QED
  BY <1>6, <1>7, <1>8, <1>9 DEF RR_tick

LEMMA LineStep ==
    ASSUME SInv, LineInv, strategy = "RR", RR_tick
    PROVE  LineInv'
<1>1. /\ time \in Nat /\ Len(schedule) = time /\ schedule \in Seq(Proc \cup {None})
      /\ start \in [Proc -> Nat] /\ Quantum \in Nat \ {0} /\ slice \in Nat /\ TypeOK
      /\ DOMAIN schedule = 1 .. time
  BY Typing DEF SInv, TypeOK
<1>2. PICK x \in Proc \cup {None} : Save(x) /\ running' = x
  BY RR_Does DEF Picks, Rests, Idle, Save
<1>3. /\ time' = time + 1 /\ schedule' = Append(schedule, x)
      /\ start' = start /\ strategy' = strategy
  BY <1>2 DEF Save, input
<1>4. /\ DOMAIN schedule' = 1 .. time + 1 /\ schedule'[time + 1] = x
      /\ \A k \in 1 .. time : schedule'[k] = schedule[k]
  BY <1>1, <1>2, <1>3
<1>5. Admitted' = Admitted \cup NewArrival
  BY <1>1, <1>3, AdmittedIs
<1>6. CASE Rests
  <2>1. x = None /\ queue' = queue
    BY <1>2, <1>6 DEF Rests, Idle, Save
  <2>2. DOMAIN queue[0] = {}
    <3>1. Held(queue[0]) = {}
      BY <1>6, OneQueue DEF Rests, Pool
    <3> QED
      BY <3>1 DEF Held
  <2>3. InOrder(queue'[0], Earlier')
    BY <2>1, <2>2 DEF InOrder
  <2>4. \A k \in DOMAIN schedule' : schedule'[k] \in Admitted' \cup {None}
    BY <1>1, <1>4, <1>5, <2>1 DEF LineInv
  <2> QED
    BY <1>2, <1>3, <1>4, <2>1, <2>3, <2>4 DEF LineInv
<1>7. ASSUME NEW p \in Proc, NEW q \in Seq(Proc),
             Picks(p, {}), running' = p, q = queue'[0], p \notin Held(q), InOrder(q, Earlier),
             (p = running /\ slice > 0 /\ slice' = slice - 1) \/ slice' = Quantum - 1
      PROVE  LineInv'
  <2>1. p = x /\ p \in Admitted' /\ p # None
    <3>1. Pool \subseteq Admitted \cup NewArrival
      BY NoneAssumption DEF Pool, Waiting, Current, SInv, Fresh
    <3> QED
      BY <1>2, <1>5, <1>7, <3>1, NoneAssumption DEF Picks
  <2>2. \A k \in DOMAIN schedule' : schedule'[k] \in Admitted' \cup {None}
    BY <1>1, <1>4, <1>5, <2>1 DEF LineInv
  <2>3. \A r \in Proc \ {p} : ReadyAt(r)' = ReadyAt(r)
    <3>1. ASSUME NEW r \in Proc \ {p} PROVE ReadyAt(r)' = ReadyAt(r)
      <4>1. {k \in DOMAIN schedule' : schedule'[k] = r} = {k \in DOMAIN schedule : schedule[k] = r}
        BY <1>1, <1>4, <2>1, <3>1
      <4> QED
        BY <1>3, <4>1 DEF ReadyAt
    <3> QED
      BY <3>1
  <2>4. \A a, b \in Proc \ {p} : <<a, b>> \in Earlier => <<a, b>> \in Earlier'
    BY <1>3, <2>3 DEF Earlier, ReadyBefore
  <2>5. InOrder(q, Earlier')
    <3>1. \A i \in DOMAIN q : q[i] \in Proc \ {p}
      BY <1>7 DEF Held
    <3> QED
      BY <1>7, <2>4, <3>1 DEF InOrder
  <2>6. /\ slice' <= Quantum /\ Quantum <= (time + 1) + slice'
        /\ \A k \in 1 .. time + 1 :
              k + Quantum > (time + 1) + slice' => schedule'[k] = p
    <3>1. CASE slice' = Quantum - 1
      BY <1>1, <1>4, <2>1, <3>1
    <3>2. CASE p = running /\ slice > 0 /\ slice' = slice - 1
      <4>1. /\ slice <= Quantum /\ Quantum <= time + slice
            /\ \A k \in 1 .. time : k + Quantum > time + slice => schedule[k] = p
        BY <1>1, <2>1, <3>2 DEF LineInv
      <4> QED
        BY <1>1, <1>4, <2>1, <3>2, <4>1
    <3> QED
      BY <1>7, <3>1, <3>2
  <2> QED
    BY <1>3, <1>4, <1>7, <2>1, <2>2, <2>5, <2>6 DEF LineInv
<1> QED
  BY <1>6, <1>7, RR_Does

LEMMA LineKept ==
    ASSUME SInv, LineInv, [Next]_vars
    PROVE  LineInv'
<1>1. CASE Tick /\ ~Crash
  <2>1. CASE strategy = "RR"
    BY <1>1, <2>1, LineStep DEF Tick, Loop
  <2>2. CASE strategy # "RR"
    <3>1. UNCHANGED input
      BY <1>1, TickIs DEF Rests, Idle, Picks, Save
    <3> QED
      BY <2>2, <3>1 DEF LineInv, input
  <2> QED
    BY <2>1, <2>2
<1>2. CASE Crash \/ Finish \/ UNCHANGED vars
  <2>1. UNCHANGED <<strategy, start, time, running, queue, slice, schedule>>
    BY <1>2 DEF Crash, Finish, vars, input
  <2>2. Admitted' = Admitted /\ Earlier' = Earlier
    BY <2>1 DEF Admitted, Before, Earlier, ReadyBefore, ReadyAt
  <2> QED
    BY <2>1, <2>2 DEF LineInv
<1> QED
  BY <1>1, <1>2 DEF Next

\* RR changes the process when it is finished or has had its quantum, and
\* takes the one that has been ready for longest.
LEMMA LongestFirst ==
    ASSUME SInv, LineInv, strategy = "RR", RR_tick, running' # running
    PROVE  /\ running # None => left[running] = 0 \/ QuantumUsed
           /\ \A w \in Waiting' : ReadyBefore(running', w)
<1>1. CASE Rests
  <2>1. Free
    BY <1>1, PoolIs DEF Rests, SInv, Pool
  <2>2. Waiting' = {}
    <3>1. Admitted' = Admitted /\ UNCHANGED <<left, dropped>>
      BY <1>1, AdmittedIs DEF Rests, Idle, Save, input, Pool, SInv
    <3>2. Waiting = {}
      BY <1>1 DEF Rests, Pool
    <3>3. ASSUME NEW w \in Waiting' PROVE FALSE
      <4>1. w \in Admitted \ dropped /\ left[w] > 0
        BY <3>1, <3>3 DEF Waiting
      <4>2. w = running
        BY <3>2, <4>1 DEF Waiting
      <4>3. w # None
        BY <4>1, NoneAssumption DEF Admitted
      <4> QED
        BY <2>1, <4>1, <4>2, <4>3 DEF Free
    <3> QED
      BY <3>3
  <2> QED
    BY <2>1, <2>2 DEF Free
<1>2. ASSUME NEW p \in Proc, NEW q \in Seq(Proc), running' = p, Waiting' = Held(q),
             Free \/ slice = 0, \A w \in Held(q) : <<p, w>> \in Earlier
      PROVE  /\ running # None => left[running] = 0 \/ QuantumUsed
             /\ \A w \in Waiting' : ReadyBefore(running', w)
  <2>1. slice = 0 /\ running # None => QuantumUsed
    BY Typing DEF SInv, TypeOK, LineInv, QuantumUsed
  <2>2. \A w \in Waiting' : ReadyBefore(running', w)
    BY <1>2 DEF Earlier
  <2> QED
    BY <1>2, <2>1, <2>2 DEF Free
<1> QED
  BY <1>1, <1>2, RR_Does

\* LCFS and HRRN change the process only when it is finished, RR also after a
\* whole quantum.  LCFS then takes the newest, RR the one that has been ready
\* for longest (so an arrival goes ahead of the process put back in the same
\* tick), HRRN one whose response ratio nobody exceeds by one or more: the
\* counters of HRRN.c:62-91 are right, the division of line 70 loses less than
\* one.
THEOREM PicksRankFirst == Spec => PickRanksFirst
<1>1. Init => SInv /\ CountInv /\ LineInv
  <2>1. ASSUME Init PROVE CountInv /\ LineInv
    <3>1. SInv /\ \A p \in Proc : wait[p] = 0
      BY <2>1, StartHolds DEF Init
    <3>2. Admitted = {}
      BY <2>1, <3>1, Typing DEF Init, Admitted, SInv
    <3>3. CountInv
      BY <3>1, <3>2 DEF CountInv, Waiting
    <3>4. DOMAIN schedule = {} /\ DOMAIN queue[0] = {} /\ running = None /\ time = 0
      BY <2>1, SchedulerAssumption DEF Init
    <3> QED
      BY <3>3, <3>4 DEF LineInv, InOrder
  <2> QED
    BY <2>1, StartHolds
<1>2. SInv /\ CountInv /\ LineInv /\ [Next]_vars => (SInv /\ CountInv /\ LineInv)'
  BY StepKeeps, CountKept, LineKept
<1>3. ASSUME SInv, CountInv, LineInv, [Next]_vars, running' # running
      PROVE  /\ strategy \in {"LCFS", "HRRN", "RR"} /\ running # None =>
                   left[running] = 0 \/ (strategy = "RR" /\ QuantumUsed)
             /\ \A w \in Waiting' :
                   /\ strategy = "LCFS" => start[w] < start[running']
                   /\ strategy = "RR" => ReadyBefore(running', w)
                   /\ strategy = "HRRN" => ~HigherByOne(w, running')
  <2>1. Tick
    BY <1>3 DEF Next, Finish, vars
  <2>2. CASE strategy = "LCFS"
    BY <1>3, <2>1, <2>2, LastFirst DEF Tick, Loop, Free
  <2>3. CASE strategy = "RR"
    BY <1>3, <2>1, <2>3, LongestFirst DEF Tick, Loop
  <2>4. CASE strategy = "HRRN"
    BY <1>3, <2>1, <2>4, HighestFirst DEF Tick, Loop, Free
  <2> QED
    BY <2>2, <2>3, <2>4
<1>4. SInv /\ CountInv /\ LineInv /\ [Next]_vars =>
         [running' # running =>
            /\ strategy \in {"LCFS", "HRRN", "RR"} /\ running # None =>
                  left[running] = 0 \/ (strategy = "RR" /\ QuantumUsed)
            /\ \A w \in Waiting' :
                  /\ strategy = "LCFS" => start[w] < start[running']
                  /\ strategy = "RR" => ReadyBefore(running', w)
                  /\ strategy = "HRRN" => ~HigherByOne(w, running')]_vars
  BY <1>3
<1> QED
  BY <1>1, <1>2, <1>4, PTL DEF Spec, PickRanksFirst
-----------------------------------------------------------------------------
\* Who is known to the processor.
Known == Admitted \ dropped

\* One of those that arrive now is taken in.
LEMMA TakesIn ==
    ASSUME SInv
    PROVE  Known \cup NewArrival \in Cpu!TakeIn
<1>1. start \in [Proc -> Nat] /\ Proc \subseteq Nat /\ time \in Nat
  BY Typing DEF SInv
<1>2. CASE \E p \in Proc : start[p] = time
  <2>1. PICK S \in SUBSET Nat : S = {q \in Proc : start[q] = time}
    BY <1>1
  <2>2. PICK a \in S : \A q \in S : a <= q
    BY <1>2, <2>1, SmallestOf
  <2>3. a \in NewArrival
    BY <1>1, <2>1, <2>2 DEF NewArrival, Before
  <2>4. NewArrival = {a}
    BY <2>3, ArrivalIs DEF SInv
  <2> QED
    BY <1>2, <2>1, <2>4 DEF Cpu!TakeIn, Known
<1>3. CASE ~ \E p \in Proc : start[p] = time
  <2>1. NewArrival = {}
    BY <1>3 DEF NewArrival
  <2> QED
    BY <1>3, <2>1 DEF Cpu!TakeIn, Known
<1> QED
  BY <1>2, <1>3

LEMMA PicksTicks ==
    ASSUME SInv, LevelInv, LevelInv', NEW p \in Proc, NEW gone, Picks(p, gone)
    PROVE  Cpu!Tick
<1>1. /\ UNCHANGED <<start, burst, strategy>> /\ time' = time + 1 /\ running' = p
      /\ p \in Pool \ gone /\ gone \subseteq Current /\ dropped' = dropped \cup gone
      /\ TypeOK
      /\ Work(p) \/ (strategy = "PRIOP" /\ UNCHANGED left)
  BY DEF Picks, Save, input, SInv
<1>2. Current \subseteq Known /\ Current \subseteq Proc /\ left[p] > 0 /\ p \in Known \cup NewArrival
  BY <1>1, PoolIs DEF SInv, Current, Fresh, Known, Pool, Waiting
<1>3. NewArrival \cap dropped = {} /\ NewArrival \cap gone = {}
  BY <1>1, PoolIs, ArrivalIs DEF SInv, Fresh
<1>4. Known' = (Known \cup NewArrival) \ gone
  <2>1. Admitted' = Admitted \cup NewArrival
    BY <1>1, AdmittedIs DEF SInv
  <2> QED
    BY <1>1, <1>3, <2>1 DEF Known
<1>5. Fits' = Fits /\ (Fits => gone = {})
  <2>1. Fits' <=> Fits
    BY <1>1 DEF Fits
  <2>2. Fits => gone = {}
    BY <1>1, <2>1 DEF LevelInv
  <2> QED
    BY <2>1, <2>2 DEF Fits
<1>6. p \in Cpu!Ready(Known')
  BY <1>1, <1>2, <1>4 DEF Cpu!Ready
<1>7. Cpu!WorkOn(p)
  BY <1>1 DEF Cpu!WorkOn, Work
<1>8. (strategy # "PRIOP")' = (strategy # "PRIOP")
  BY <1>1
<1>9. gone \in SUBSET Proc /\ Known \cup NewArrival \in Cpu!TakeIn
  BY <1>1, <1>2, TakesIn
<1> QED
  BY <1>1, <1>4, <1>5, <1>6, <1>7, <1>8, <1>9 DEF Cpu!Tick, Known

LEMMA RestsTicks ==
    ASSUME SInv, Rests
    PROVE  Cpu!Tick
<1>1. /\ UNCHANGED <<start, burst, strategy, left, dropped>> /\ time' = time + 1
      /\ running' = None /\ Pool = {} /\ TypeOK
  BY DEF Rests, Idle, Save, input, SInv
<1>2. Known' = Known /\ NewArrival = {}
  BY <1>1, AdmittedIs DEF Known, Pool
<1>3. Cpu!Ready(Known) = {}
  <2>1. \A r \in Proc : r \in Known /\ left[r] > 0 => r \in Waiting \/ r \in Current
    BY <1>1, Typing DEF Waiting, Current, Known
  <2> QED
    BY <1>1, <2>1 DEF Cpu!Ready, Known, Pool, Admitted
<1>4. Fits' = Fits /\ (strategy # "PRIOP")' = (strategy # "PRIOP")
  BY <1>1 DEF Fits
<1>5. Known \in Cpu!TakeIn /\ Known = Known \ {} /\ {} \in SUBSET Proc
  BY <1>2, TakesIn
<1>6. Cpu!Idle
  BY <1>1 DEF Cpu!Idle
<1> QED
  BY <1>1, <1>2, <1>3, <1>4, <1>5, <1>6 DEF Cpu!Tick, Known

\* Every strategy is one processor that works on a process that has arrived
\* and is not finished, and is idle only when there is none
\* (scheduler.c:124-253).
THEOREM ImplementsOneProcessor == Spec => ImplementsProcessor
<1>1. Init => Cpu!Init
  <2>1. SUFFICES ASSUME Init PROVE Cpu!Init
    OBVIOUS
  <2>2. start \in [Proc -> Nat] /\ time = 0 /\ left = burst /\ running = None
    BY <2>1, StartHolds, Typing DEF SInv, Init
  <2>3. Admitted \ dropped = {}
    BY <2>2 DEF Admitted
  <2> QED
    BY <2>2, <2>3 DEF Cpu!Init
<1>2. AllInv /\ AllInv' /\ [Next]_vars => [Cpu!Tick]_(Cpu!vars)
  <2>1. SUFFICES ASSUME AllInv, AllInv', [Next]_vars PROVE Cpu!Tick \/ UNCHANGED Cpu!vars
    OBVIOUS
  <2>2. CASE Tick /\ ~Crash
    BY <2>1, <2>2, TickIs, PicksTicks, RestsTicks DEF AllInv
  <2>3. CASE Crash \/ Finish \/ UNCHANGED vars
    <3>1. UNCHANGED <<strategy, start, burst, time, left, running, dropped>>
      BY <2>3 DEF Crash, Finish, vars, input
    <3>2. Admitted' = Admitted /\ Fits' = Fits
      BY <3>1 DEF Admitted, Before, Fits
    <3> QED
      BY <3>1, <3>2 DEF Cpu!vars
  <2> QED
    BY <2>1, <2>2, <2>3 DEF Next
<1> QED
  BY <1>1, <1>2, AllAlways, PTL DEF Spec, ImplementsProcessor, Cpu!Spec
-----------------------------------------------------------------------------
\* Those that arrive before p.
Ahead(p) == {q \in Proc : Before(q, p)}

\* The order of arrival gives each process a number of its own.
LEMMA ArrivingIs ==
    ASSUME start \in [Proc -> Nat]
    PROVE  /\ \A i \in Proc : Arriving(i) \in Proc /\ Cardinality(Ahead(Arriving(i))) = i - 1
           /\ \A p \in Proc : /\ IsFiniteSet(Ahead(p)) /\ Cardinality(Ahead(p)) \in Nat
                              /\ Cardinality(Ahead(p)) + 1 \in Proc
                              /\ Arriving(Cardinality(Ahead(p)) + 1) = p
<1>1. NumProc \in Nat /\ NumProc > 0 /\ Proc \subseteq Nat /\ Proc = 1 .. NumProc
  BY SchedulerAssumption DEF Proc
<1>2. IsFiniteSet(Proc) /\ Cardinality(Proc) = NumProc
  BY <1>1, FS_Interval
<1>3. ASSUME NEW p \in Proc
      PROVE  /\ IsFiniteSet(Ahead(p)) /\ Cardinality(Ahead(p)) \in Nat
             /\ Cardinality(Ahead(p)) + 1 \in Proc
  <2>1. Ahead(p) \in SUBSET (Proc \ {p})
    BY <1>1 DEF Ahead, Before
  <2>2. IsFiniteSet(Proc \ {p}) /\ Cardinality(Proc \ {p}) = NumProc - 1
    BY <1>2, FS_RemoveElement
  <2>3. /\ IsFiniteSet(Ahead(p)) /\ Cardinality(Ahead(p)) \in Nat
        /\ Cardinality(Ahead(p)) <= NumProc - 1
    BY <2>1, <2>2, FS_Subset, FS_CardinalityType
  <2> QED
    BY <1>1, <2>3
<1>4. ASSUME NEW p \in Proc, NEW q \in Proc, Before(p, q)
      PROVE  Cardinality(Ahead(p)) # Cardinality(Ahead(q))
  <2>1. start[p] \in Nat /\ start[q] \in Nat /\ p \in Nat /\ q \in Nat
    BY <1>1
  <2>2. ASSUME NEW r \in Ahead(p) PROVE r \in Ahead(q)
    <3>1. r \in Proc /\ r \in Nat /\ start[r] \in Nat
      BY <1>1 DEF Ahead
    <3> QED
      BY <1>4, <2>1, <2>2, <3>1 DEF Ahead, Before
  <2>3. p \in Ahead(q) /\ p \notin Ahead(p)
    BY <1>4, <2>1 DEF Ahead, Before
  <2>4. Ahead(p) \in SUBSET Ahead(q) /\ Ahead(p) # Ahead(q)
    BY <2>2, <2>3
  <2> QED
    BY <1>3, <2>4, FS_Subset
<1>5. ASSUME NEW p \in Proc, NEW q \in Proc, Cardinality(Ahead(p)) = Cardinality(Ahead(q))
      PROVE  p = q
  <2>1. p # q => Before(p, q) \/ Before(q, p)
    <3>1. start[p] \in Nat /\ start[q] \in Nat /\ p \in Nat /\ q \in Nat
      BY <1>1
    <3> QED
      BY <3>1 DEF Before
  <2> QED
    BY <1>4, <1>5, <2>1
<1>6. PICK f : f = [p \in Proc |-> Cardinality(Ahead(p)) + 1]
  OBVIOUS
<1>7. f \in Injection(Proc, Proc)
  <2>1. f \in [Proc -> Proc]
    BY <1>3, <1>6
  <2>2. ASSUME NEW p \in Proc, NEW q \in Proc, f[p] = f[q] PROVE p = q
    <3>1. Cardinality(Ahead(p)) = Cardinality(Ahead(q))
      BY <1>3, <1>6, <2>2
    <3> QED
      BY <1>5, <3>1
  <2>3. \A p, q \in Proc : f[p] = f[q] => p = q
    BY <2>2
  <2> QED
    BY <2>1, <2>3 DEF Injection, IsInjective
<1>8. f \in Surjection(Proc, Proc)
  BY <1>2, <1>7, FS_Injection
<1>9. ASSUME NEW i \in Proc PROVE \E p \in Proc : Cardinality(Ahead(p)) = i - 1
  <2>1. PICK p \in Proc : f[p] = i
    BY <1>8 DEF Surjection
  <2>2. PICK n \in Nat : n = Cardinality(Ahead(p)) /\ n + 1 = i
    BY <1>3, <1>6, <2>1
  <2>3. n = i - 1
    BY <2>2
  <2> QED
    BY <2>2, <2>3
<1>10. \A i : Arriving(i) = CHOOSE p \in Proc : Cardinality(Ahead(p)) = i - 1
  BY DEF Arriving, Ahead
<1>11. ASSUME NEW i \in Proc
       PROVE  Arriving(i) \in Proc /\ Cardinality(Ahead(Arriving(i))) = i - 1
  BY <1>9, <1>10
<1>12. ASSUME NEW p \in Proc PROVE Arriving(Cardinality(Ahead(p)) + 1) = p
  <2>1. PICK i \in Proc : i = Cardinality(Ahead(p)) + 1 /\ i - 1 = Cardinality(Ahead(p))
    BY <1>3
  <2>2. Arriving(i) \in Proc /\ Cardinality(Ahead(Arriving(i))) = Cardinality(Ahead(p))
    BY <1>11, <2>1
  <2> QED
    BY <1>5, <2>1, <2>2
<1> QED
  BY <1>3, <1>11, <1>12

\* The times of scheduler.c:73-94 as they follow from one another.
LEMMA EndTimeIs ==
    ASSUME start \in [Proc -> Nat], burst \in [Proc -> Nat \ {0}]
    PROVE  \A i \in Proc :
              /\ EndTime[i] \in Nat
              /\ EndTime[i] = IF i > 1 /\ EndTime[i - 1] > start[Arriving(i)]
                              THEN EndTime[i - 1] + burst[Arriving(i)]
                              ELSE start[Arriving(i)] + burst[Arriving(i)]
<1>1. NumProc \in Nat /\ NumProc > 0 /\ Proc \subseteq Nat /\ Proc = 1 .. NumProc
  BY SchedulerAssumption DEF Proc
<1>2. PICK s, b : /\ s \in [Proc -> Nat] /\ b \in [Proc -> Nat]
                  /\ \A i \in Proc : s[i] = start[Arriving(i)] /\ b[i] = burst[Arriving(i)]
  <2>1. PICK s : s = [i \in Proc |-> start[Arriving(i)]]
    OBVIOUS
  <2>2. PICK b : b = [i \in Proc |-> burst[Arriving(i)]]
    OBVIOUS
  <2>3. s \in [Proc -> Nat] /\ b \in [Proc -> Nat]
    BY <2>1, <2>2, ArrivingIs
  <2> QED
    BY <2>1, <2>2, <2>3
<1>3. PICK step : step = [x \in Nat \X Nat |->
                            IF x[1] + 1 \notin Proc THEN 0
                            ELSE IF x[1] + 1 > 1 /\ x[2] > s[x[1] + 1]
                            THEN (s[x[1] + 1] + b[x[1] + 1]) + (x[2] - s[x[1] + 1])
                            ELSE s[x[1] + 1] + b[x[1] + 1]]
  OBVIOUS
<1>4. step \in [Nat \X Nat -> Nat]
  <2>1. ASSUME NEW x \in Nat \X Nat PROVE step[x] \in Nat
    <3>1. PICK n \in Nat, v \in Nat : x = <<n, v>>
      OBVIOUS
    <3>2. PICK k \in Nat : k = n + 1
      OBVIOUS
    <3>3. step[x] = IF k \notin Proc THEN 0
                    ELSE IF k > 1 /\ v > s[k] THEN (s[k] + b[k]) + (v - s[k]) ELSE s[k] + b[k]
      BY <1>3, <3>1, <3>2
    <3>4. CASE k \notin Proc
      BY <3>3, <3>4
    <3>5. CASE k \in Proc
      <4>1. s[k] \in Nat /\ b[k] \in Nat
        BY <1>2, <3>5
      <4> QED
        BY <3>3, <3>5, <4>1
    <3> QED
      BY <3>4, <3>5
  <2> QED
    BY <1>3, <2>1
<1>5. PICK g \in [0 .. NumProc -> Nat] : Follows(g, NumProc, 0, step)
  BY <1>1, <1>4, FollowsExists
<1>6. ASSUME NEW i \in Proc
      PROVE  g[i] = IF i > 1 /\ g[i - 1] > s[i] THEN (s[i] + b[i]) + (g[i - 1] - s[i])
                    ELSE s[i] + b[i]
  <2>1. PICK n \in 0 .. NumProc - 1 : n = i - 1 /\ n + 1 = i
    BY <1>1
  <2>2. g[n] \in Nat /\ n \in Nat
    BY <1>1, <1>5
  <2>3. g[i] = step[<<n, g[n]>>]
    BY <1>5, <2>1 DEF Follows
  <2>4. step[<<n, g[n]>>] = IF n + 1 \notin Proc THEN 0
                            ELSE IF n + 1 > 1 /\ g[n] > s[n + 1]
                            THEN (s[n + 1] + b[n + 1]) + (g[n] - s[n + 1])
                            ELSE s[n + 1] + b[n + 1]
    BY <1>3, <2>2
  <2> QED
    BY <2>1, <2>3, <2>4
<1>7. PICK f : f = [i \in Proc |-> g[i]]
  OBVIOUS
<1>8. \A i \in Proc : f[i] \in Nat /\ (i > 1 => i - 1 \in Proc /\ f[i - 1] = g[i - 1])
  BY <1>1, <1>5, <1>7
<1>9. f = [i \in Proc |->
             LET p == Arriving(i)
                 own == start[p] + burst[p]
             IN IF i > 1 /\ f[i - 1] > start[p] THEN own + (f[i - 1] - start[p]) ELSE own]
  <2>1. ASSUME NEW i \in Proc
        PROVE  f[i] = IF i > 1 /\ f[i - 1] > start[Arriving(i)]
                      THEN (start[Arriving(i)] + burst[Arriving(i)]) + (f[i - 1] - start[Arriving(i)])
                      ELSE start[Arriving(i)] + burst[Arriving(i)]
    <3>1. s[i] = start[Arriving(i)] /\ b[i] = burst[Arriving(i)] /\ f[i] = g[i]
      BY <1>2, <1>7
    <3> QED
      BY <1>6, <1>8, <3>1
  <2> QED
    BY <1>7, <2>1
<1>10. EndTime = [i \in Proc |->
             LET p == Arriving(i)
                 own == start[p] + burst[p]
             IN IF i > 1 /\ EndTime[i - 1] > start[p]
                THEN own + (EndTime[i - 1] - start[p]) ELSE own]
  BY <1>9 DEF EndTime
<1>11. ASSUME NEW i \in Proc
       PROVE  EndTime[i] = IF i > 1 /\ EndTime[i - 1] > s[i]
                           THEN (s[i] + b[i]) + (EndTime[i - 1] - s[i])
                           ELSE s[i] + b[i]
  BY <1>2, <1>10
<1>12. \A n \in 0 .. NumProc : n \in {k \in 0 .. NumProc : k > 0 => EndTime[k] \in Nat}
  <2>1. PICK S : S = {k \in 0 .. NumProc : k > 0 => EndTime[k] \in Nat}
    OBVIOUS
  <2>2. 0 \in S
    BY <1>1, <2>1
  <2>3. ASSUME NEW n \in 0 .. NumProc - 1, n \in S PROVE n + 1 \in S
    <3>1. PICK i \in Proc : i = n + 1 /\ i - 1 = n /\ i \in 0 .. NumProc
      BY <1>1
    <3>2. s[i] \in Nat /\ b[i] \in Nat /\ (i > 1 => EndTime[i - 1] \in Nat)
      BY <1>2, <2>1, <2>3, <3>1
    <3>3. EndTime[i] \in Nat
      <4>1. CASE i > 1 /\ EndTime[i - 1] > s[i]
        <5>1. EndTime[i] = (s[i] + b[i]) + (EndTime[i - 1] - s[i])
          BY <1>11, <4>1
        <5> QED
          BY <3>2, <4>1, <5>1
      <4>2. CASE ~(i > 1 /\ EndTime[i - 1] > s[i])
        BY <1>11, <3>2, <4>2
      <4> QED
        BY <4>1, <4>2
    <3> QED
      BY <2>1, <3>1, <3>3
  <2> QED
    BY <1>1, <2>1, <2>2, <2>3, AllUpTo
<1>13. ASSUME NEW i \in Proc
       PROVE  /\ EndTime[i] \in Nat
              /\ EndTime[i] = IF i > 1 /\ EndTime[i - 1] > start[Arriving(i)]
                              THEN EndTime[i - 1] + burst[Arriving(i)]
                              ELSE start[Arriving(i)] + burst[Arriving(i)]
  <2>1. EndTime[i] \in Nat /\ (i > 1 => EndTime[i - 1] \in Nat)
    <3>1. i \in 0 .. NumProc /\ i > 0 /\ i - 1 \in 0 .. NumProc /\ (i > 1 => i - 1 > 0)
      BY <1>1
    <3> QED
      BY <1>12, <3>1
  <2>2. s[i] \in Nat /\ b[i] \in Nat /\ s[i] = start[Arriving(i)] /\ b[i] = burst[Arriving(i)]
    BY <1>2
  <2>3. i > 1 => (s[i] + b[i]) + (EndTime[i - 1] - s[i]) = EndTime[i - 1] + b[i]
    BY <2>1, <2>2
  <2> QED
    BY <1>11, <2>1, <2>2, <2>3
<1> QED
  BY <1>13

\* When the first k of them would be finished.
Due(k) == IF k = 0 THEN 0 ELSE EndTime[k]

\* The next one is finished its burst after that, or after it has arrived.
LEMMA DueNext ==
    ASSUME start \in [Proc -> Nat], burst \in [Proc -> Nat \ {0}],
           NEW k \in 0 .. NumProc - 1, NEW a, a = Arriving(k + 1)
    PROVE  /\ a \in Proc /\ k + 1 \in Proc /\ Due(k) \in Nat /\ Due(k + 1) \in Nat
           /\ Due(k + 1) = IF Due(k) > start[a] THEN Due(k) + burst[a]
                           ELSE start[a] + burst[a]
           /\ Due(k) <= Due(k + 1) /\ start[a] < Due(k + 1)
<1>1. NumProc \in Nat /\ Proc = 1 .. NumProc
  BY SchedulerAssumption DEF Proc
<1>2. PICK i \in Proc : i = k + 1 /\ i - 1 = k /\ i # 0 /\ k \in Nat
  BY <1>1
<1>3. a \in Proc /\ start[a] \in Nat /\ burst[a] \in Nat /\ burst[a] > 0
  <2>1. a \in Proc
    BY <1>2, ArrivingIs
  <2> QED
    BY <2>1
<1>4. /\ EndTime[i] \in Nat /\ (k > 0 => EndTime[k] \in Nat)
      /\ EndTime[i] = IF i > 1 /\ EndTime[k] > start[a] THEN EndTime[k] + burst[a]
                      ELSE start[a] + burst[a]
  <2>1. k > 0 => k \in Proc
    BY <1>1, <1>2
  <2> QED
    BY <1>2, <2>1, EndTimeIs
<1>5. PICK d, e : d = Due(k) /\ e = Due(k + 1)
  OBVIOUS
<1>6. d \in Nat /\ e = EndTime[i] /\ (k = 0 => d = 0) /\ (k > 0 => d = EndTime[k])
  BY <1>2, <1>4, <1>5 DEF Due
<1>7. e = IF d > start[a] THEN d + burst[a] ELSE start[a] + burst[a]
  BY <1>2, <1>3, <1>4, <1>6
<1>8. d <= e /\ start[a] < e /\ e \in Nat
  BY <1>3, <1>6, <1>7
<1> QED
  BY <1>2, <1>3, <1>5, <1>6, <1>7, <1>8

\* No time computed is after the last one.
LEMMA DueLast ==
    ASSUME start \in [Proc -> Nat], burst \in [Proc -> Nat \ {0}]
    PROVE  /\ MaxTime = Due(NumProc) /\ MaxTime \in Nat
           /\ \A k \in 0 .. NumProc : Due(k) \in Nat /\ Due(k) <= MaxTime
           /\ \A p \in Proc : start[p] < MaxTime
<1>1. NumProc \in Nat /\ NumProc > 0 /\ Proc = 1 .. NumProc
  BY SchedulerAssumption DEF Proc
<1>2. \A k \in 0 .. NumProc - 1 : /\ k + 1 \in Proc /\ Due(k) \in Nat /\ Due(k + 1) \in Nat
                                  /\ Due(k) <= Due(k + 1) /\ start[Arriving(k + 1)] < Due(k + 1)
  BY DueNext
<1>3. MaxTime = Due(NumProc)
  BY <1>1 DEF MaxTime, Due
<1>4. MaxTime \in Nat
  <2>1. NumProc - 1 \in 0 .. NumProc - 1 /\ (NumProc - 1) + 1 = NumProc
    BY <1>1
  <2> QED
    BY <1>2, <1>3, <2>1
<1>5. \A j \in 0 .. NumProc : j \in {i \in 0 .. NumProc : Due(NumProc - i) \in Nat /\ Due(NumProc - i) <= MaxTime}
  <2>1. PICK S : S = {i \in 0 .. NumProc : Due(NumProc - i) \in Nat /\ Due(NumProc - i) <= MaxTime}
    OBVIOUS
  <2>2. 0 \in S
    <3>1. NumProc - 0 = NumProc /\ 0 \in 0 .. NumProc
      BY <1>1
    <3> QED
      BY <1>3, <1>4, <2>1, <3>1
  <2>3. ASSUME NEW n \in 0 .. NumProc - 1, n \in S PROVE n + 1 \in S
    <3>1. PICK k \in 0 .. NumProc - 1 : k = NumProc - (n + 1) /\ k + 1 = NumProc - n
      BY <1>1
    <3>2. Due(k) \in Nat /\ Due(k + 1) \in Nat /\ Due(k) <= Due(k + 1) /\ Due(k + 1) <= MaxTime
      BY <1>2, <2>1, <2>3, <3>1
    <3>3. Due(k) <= MaxTime
      BY <1>4, <3>2
    <3>4. n + 1 \in 0 .. NumProc
      BY <1>1
    <3> QED
      BY <2>1, <3>1, <3>2, <3>3, <3>4
  <2> QED
    BY <1>1, <2>1, <2>2, <2>3, AllUpTo
<1>6. ASSUME NEW k \in 0 .. NumProc PROVE Due(k) \in Nat /\ Due(k) <= MaxTime
  <2>1. PICK j \in 0 .. NumProc : j = NumProc - k /\ NumProc - j = k
    BY <1>1
  <2>2. Due(NumProc - j) \in Nat /\ Due(NumProc - j) <= MaxTime
    BY <1>5, <2>1
  <2> QED
    BY <2>1, <2>2
<1>7. ASSUME NEW p \in Proc PROVE start[p] < MaxTime
  <2>1. PICK i \in Proc : i = Cardinality(Ahead(p)) + 1 /\ Arriving(i) = p
    BY ArrivingIs
  <2>2. PICK k \in 0 .. NumProc - 1 : k + 1 = i /\ k + 1 \in 0 .. NumProc
    <3>1. i - 1 \in 0 .. NumProc - 1 /\ (i - 1) + 1 = i /\ i \in 0 .. NumProc
      BY <1>1
    <3> QED
      BY <3>1
  <2>3. start[p] < Due(k + 1) /\ Due(k + 1) \in Nat /\ Due(k + 1) <= MaxTime /\ start[p] \in Nat
    BY <1>2, <1>6, <2>1, <2>2
  <2> QED
    BY <1>4, <2>3
<1> QED
  BY <1>3, <1>4, <1>6, <1>7
-----------------------------------------------------------------------------
\* The sum of a number of each process.
Sums(f) ==
    LET s[i \in 0 .. NumProc] == IF i = 0 THEN 0 ELSE s[i - 1] + f[i] IN s
Sum(f) == Sums(f)[NumProc]

LEMMA SumsAre ==
    ASSUME NEW f \in [Proc -> Nat]
    PROVE  /\ Sums(f)[0] = 0
           /\ \A i \in 0 .. NumProc - 1 : Sums(f)[i + 1] = Sums(f)[i] + f[i + 1]
           /\ \A i \in 0 .. NumProc : Sums(f)[i] \in Nat
<1>1. NumProc \in Nat /\ Proc = 1 .. NumProc
  BY SchedulerAssumption DEF Proc
<1>2. PICK step : step = [x \in Nat \X Nat |-> x[2] + IF x[1] + 1 \in Proc THEN f[x[1] + 1] ELSE 0]
  OBVIOUS
<1>3. step \in [Nat \X Nat -> Nat]
  <2>1. \A n \in Nat : (IF n + 1 \in Proc THEN f[n + 1] ELSE 0) \in Nat
    OBVIOUS
  <2> QED
    BY <1>2, <2>1
<1>4. PICK g \in [0 .. NumProc -> Nat] : Follows(g, NumProc, 0, step)
  BY <1>1, <1>3, FollowsExists
<1>5. ASSUME NEW i \in 0 .. NumProc, i # 0 PROVE g[i] = g[i - 1] + f[i]
  <2>1. i - 1 \in 0 .. NumProc - 1 /\ i - 1 \in 0 .. NumProc /\ i - 1 \in Nat /\ (i - 1) + 1 = i /\ i \in Proc
    BY <1>1, <1>5
  <2>2. g[i - 1] \in Nat /\ g[i] = step[<<i - 1, g[i - 1]>>]
    BY <1>1, <1>4, <2>1 DEF Follows
  <2> QED
    BY <1>2, <2>1, <2>2
<1>6. g = [i \in 0 .. NumProc |-> IF i = 0 THEN 0 ELSE g[i - 1] + f[i]]
  <2>1. g[0] = 0
    BY <1>4 DEF Follows
  <2>2. \A i \in 0 .. NumProc : g[i] = IF i = 0 THEN 0 ELSE g[i - 1] + f[i]
    BY <1>5, <2>1
  <2> QED
    BY <1>4, <2>2
<1>7. PICK s : s = Sums(f) /\ s = [i \in 0 .. NumProc |-> IF i = 0 THEN 0 ELSE s[i - 1] + f[i]]
  BY <1>6 DEF Sums
<1>8. s[0] = 0 /\ \A i \in 0 .. NumProc - 1 : s[i + 1] = s[i] + f[i + 1]
  <2>1. \A i \in 0 .. NumProc : s[i] = IF i = 0 THEN 0 ELSE s[i - 1] + f[i]
    BY <1>7
  <2>2. \A i \in 0 .. NumProc - 1 : i + 1 \in 0 .. NumProc /\ i + 1 # 0 /\ (i + 1) - 1 = i
    BY <1>1
  <2>3. 0 \in 0 .. NumProc
    BY <1>1
  <2> QED
    BY <2>1, <2>2, <2>3
<1>9. \A i \in 0 .. NumProc : i \in {k \in 0 .. NumProc : s[k] \in Nat}
  <2>1. PICK S : S = {k \in 0 .. NumProc : s[k] \in Nat}
    OBVIOUS
  <2>2. 0 \in S
    BY <1>1, <1>8, <2>1
  <2>3. ASSUME NEW n \in 0 .. NumProc - 1, n \in S PROVE n + 1 \in S
    <3>1. s[n] \in Nat /\ n + 1 \in 0 .. NumProc /\ f[n + 1] \in Nat
      BY <1>1, <2>1, <2>3
    <3> QED
      BY <1>8, <2>1, <3>1
  <2> QED
    BY <1>1, <2>1, <2>2, <2>3, AllUpTo
<1> QED
  BY <1>7, <1>8, <1>9

\* Where one of the numbers changes, the sum does by as much.
LEMMA SumChange ==
    ASSUME NEW f \in [Proc -> Nat], NEW g \in [Proc -> Nat], NEW p \in Proc, NEW d \in Int,
           g[p] = f[p] + d, \A q \in Proc \ {p} : g[q] = f[q]
    PROVE  Sum(f) \in Nat /\ Sum(g) = Sum(f) + d
<1>1. NumProc \in Nat /\ NumProc > 0 /\ Proc = 1 .. NumProc
  BY SchedulerAssumption DEF Proc
<1>2. PICK s, t : s = Sums(f) /\ t = Sums(g)
  OBVIOUS
<1>3. /\ s[0] = 0 /\ t[0] = 0
      /\ \A i \in 0 .. NumProc - 1 : s[i + 1] = s[i] + f[i + 1] /\ t[i + 1] = t[i] + g[i + 1]
      /\ \A i \in 0 .. NumProc : s[i] \in Nat /\ t[i] \in Nat
  BY <1>2, SumsAre
<1>4. \A i \in 0 .. NumProc :
         i \in {k \in 0 .. NumProc : t[k] = s[k] + IF k >= p THEN d ELSE 0}
  <2>1. PICK S : S = {k \in 0 .. NumProc : t[k] = s[k] + IF k >= p THEN d ELSE 0}
    OBVIOUS
  <2>2. 0 \in S
    BY <1>1, <1>3, <2>1
  <2>3. ASSUME NEW n \in 0 .. NumProc - 1, n \in S PROVE n + 1 \in S
    <3>1. PICK k \in Proc : k = n + 1
      BY <1>1
    <3>2. s[n] \in Nat /\ t[n] \in Nat /\ f[k] \in Nat /\ g[k] \in Nat /\ n \in Nat /\ p \in Nat
      BY SMTT(20), <1>1, <1>3
    <3>3. s[k] = s[n] + f[k] /\ t[k] = t[n] + g[k]
      BY <1>3, <3>1
    <3>4. t[n] = s[n] + IF n >= p THEN d ELSE 0
      BY <2>1, <2>3
    <3>5. g[k] = f[k] + IF k = p THEN d ELSE 0
      BY <3>2
    <3>6. t[k] = s[k] + IF k >= p THEN d ELSE 0
      BY <3>1, <3>2, <3>3, <3>4, <3>5
    <3>7. k \in 0 .. NumProc
      BY <1>1
    <3> QED
      BY <2>1, <3>1, <3>6, <3>7
  <2> QED
    BY <1>1, <2>1, <2>2, <2>3, AllUpTo
<1>5. NumProc \in 0 .. NumProc /\ NumProc >= p
  BY <1>1
<1> QED
  BY <1>2, <1>3, <1>4, <1>5 DEF Sum

\* The sum is nothing where every number is, and nowhere else.
LEMMA SumIs ==
    ASSUME NEW f \in [Proc -> Nat]
    PROVE  /\ Sum(f) \in Nat
           /\ \A p \in Proc : f[p] <= Sum(f)
           /\ (\A p \in Proc : f[p] = 0) => Sum(f) = 0
<1>1. NumProc \in Nat /\ NumProc > 0 /\ Proc = 1 .. NumProc
  BY SchedulerAssumption DEF Proc
<1>2. ASSUME NEW p \in Proc PROVE f[p] <= Sum(f)
  <2>1. PICK g : g = [q \in Proc |-> IF q = p THEN 0 ELSE f[q]]
    OBVIOUS
  <2>2. g \in [Proc -> Nat] /\ g[p] = f[p] + (0 - f[p]) /\ \A q \in Proc \ {p} : g[q] = f[q]
    BY <2>1
  <2>3. Sum(f) \in Nat /\ Sum(g) \in Nat
    BY <1>1, <2>2, SumsAre DEF Sum
  <2>4. 0 - f[p] \in Int
    OBVIOUS
  <2>5. Sum(g) = Sum(f) + (0 - f[p])
    BY <2>2, <2>4, SumChange
  <2> QED
    BY <2>3, <2>5
<1>3. ASSUME \A p \in Proc : f[p] = 0 PROVE Sum(f) = 0
  <2>1. \A i \in 0 .. NumProc : i \in {k \in 0 .. NumProc : Sums(f)[k] = 0}
    <3>1. PICK S : S = {k \in 0 .. NumProc : Sums(f)[k] = 0}
      OBVIOUS
    <3>2. 0 \in S
      BY <1>1, <3>1, SumsAre
    <3>3. ASSUME NEW n \in 0 .. NumProc - 1, n \in S PROVE n + 1 \in S
      <4>1. n + 1 \in Proc /\ n + 1 \in 0 .. NumProc
        BY <1>1
      <4>2. Sums(f)[n + 1] = Sums(f)[n] + f[n + 1]
        BY SumsAre
      <4> QED
        BY <1>3, <3>1, <3>3, <4>1, <4>2
    <3> QED
      BY <1>1, <3>1, <3>2, <3>3, AllUpTo
  <2> QED
    BY <1>1, <2>1 DEF Sum
<1>4. Sum(f) \in Nat
  BY <1>1, SumsAre DEF Sum
<1> QED
  BY <1>2, <1>3, <1>4
-----------------------------------------------------------------------------
\* The work that has arrived and is not done, with whom arrives now or without.
OwedBy(S) == [p \in Proc |-> IF p \in S THEN left[p] ELSE 0]
Owed == Sum(OwedBy(Admitted))

\* The plan: the strategies that work at every tick are through with what has
\* arrived when scheduler.c:73-94 says.
PlanInv ==
    Distinct /\ Fits /\ strategy # "PRIOP" =>
        IF Owed > 0 THEN time + Owed = Due(Cardinality(Admitted))
        ELSE Due(Cardinality(Admitted)) <= time

\* Where nobody arrives together, everybody is taken in.
LEMMA DistinctIs ==
    ASSUME TypeOK, Distinct
    PROVE  /\ Admitted = {p \in Proc : start[p] < time}
           /\ NewArrival = {p \in Proc : start[p] = time}
           /\ IsFiniteSet(Admitted) /\ Cardinality(Admitted) \in 0 .. NumProc
           /\ Cardinality(Admitted) = NumProc => Admitted = Proc
           /\ Admitted = Proc => Cardinality(Admitted) = NumProc
<1>1. start \in [Proc -> Nat] /\ Proc \subseteq Nat /\ time \in Nat /\ NumProc \in Nat
  BY Typing
<1>2. ASSUME NEW p \in Proc, NEW q \in Proc, start[q] = start[p] PROVE ~Before(q, p)
  <2>1. p = q
    BY <1>2 DEF Distinct
  <2>2. start[p] \in Nat /\ p \in Nat
    BY <1>1
  <2> QED
    BY <2>1, <2>2 DEF Before
<1>3. Admitted = {p \in Proc : start[p] < time}
  BY <1>2 DEF Admitted
<1>4. NewArrival = {p \in Proc : start[p] = time}
  <2>1. \A p \in Proc : start[p] = time => \A q \in Proc : start[q] = time => ~Before(q, p)
    BY <1>2
  <2> QED
    BY <2>1 DEF NewArrival
<1>5. Proc = 1 .. NumProc /\ 1 \in Int /\ NumProc \in Int
  BY <1>1 DEF Proc
<1>6. IsFiniteSet(Proc) /\ Cardinality(Proc) = NumProc
  <2>1. IsFiniteSet(1 .. NumProc) /\ Cardinality(1 .. NumProc) = NumProc
    BY <1>1, FS_Interval
  <2> QED
    BY <1>5, <2>1
<1>7. Admitted \in SUBSET Proc
  BY <1>3
<1>8. /\ IsFiniteSet(Admitted) /\ Cardinality(Admitted) <= NumProc
      /\ Cardinality(Admitted) \in Nat
      /\ Cardinality(Admitted) = NumProc => Admitted = Proc
  BY <1>6, <1>7, FS_Subset, FS_CardinalityType
<1> QED
  BY <1>1, <1>3, <1>4, <1>6, <1>8

\* Who arrives is the next in the order of arrival.
LEMMA NextIs ==
    ASSUME TypeOK, Distinct, NEW a \in NewArrival
    PROVE  /\ Cardinality(Admitted) \in 0 .. NumProc - 1
           /\ a = Arriving(Cardinality(Admitted) + 1)
           /\ Cardinality(Admitted \cup {a}) = Cardinality(Admitted) + 1
<1>1. start \in [Proc -> Nat] /\ Proc \subseteq Nat /\ time \in Nat /\ NumProc \in Nat
  BY Typing
<1>2. a \in Proc /\ start[a] = time /\ a \notin Admitted /\ IsFiniteSet(Admitted)
      /\ Admitted = {p \in Proc : start[p] < time}
  BY <1>1, DistinctIs
<1>3. ASSUME NEW q \in Proc PROVE Before(q, a) <=> q \in Admitted
  <2>1. start[q] \in Nat /\ (start[q] = time => q = a)
    BY <1>1, <1>2 DEF Distinct
  <2>2. q \in Nat /\ a \in Nat
    BY <1>1, <1>2
  <2> QED
    BY <1>2, <2>1, <2>2 DEF Before
<1>4. Ahead(a) = Admitted
  BY <1>2, <1>3 DEF Ahead
<1>5. Cardinality(Admitted) + 1 \in Proc /\ a = Arriving(Cardinality(Admitted) + 1)
      /\ Cardinality(Admitted) \in Nat
  BY <1>1, <1>2, <1>4, ArrivingIs
<1>6. Cardinality(Admitted) \in 0 .. NumProc - 1
  BY <1>1, <1>5 DEF Proc
<1> QED
  BY <1>2, <1>5, <1>6, FS_AddElement

\* What arrives is planned after what is there, or from now on.
LEMMA ArrivesPlanned ==
    ASSUME SInv, Distinct, Fits, strategy # "PRIOP", PlanInv,
           NEW a \in NewArrival
    PROVE  /\ Sum(OwedBy(Admitted \cup NewArrival)) \in Nat
           /\ time + Sum(OwedBy(Admitted \cup NewArrival)) = Due(Cardinality(Admitted \cup NewArrival))
<1>1. /\ TypeOK /\ start \in [Proc -> Nat] /\ burst \in [Proc -> Nat \ {0}]
      /\ left \in [Proc -> Nat] /\ time \in Nat
  BY Typing DEF SInv
<1>2. a \in Proc /\ NewArrival = {a} /\ start[a] = time /\ a \notin Admitted /\ left[a] = burst[a]
  <2>1. NewArrival \subseteq Proc /\ \A p \in NewArrival : start[p] = time /\ p \notin Admitted
    BY ArrivalIs DEF SInv
  <2>2. NewArrival = {a}
    BY ArrivalIs DEF SInv
  <2> QED
    BY <2>1, <2>2 DEF SInv, Fresh
<1>3. PICK f, g : f = OwedBy(Admitted) /\ g = OwedBy(Admitted \cup NewArrival)
  OBVIOUS
<1>4. /\ f \in [Proc -> Nat] /\ g \in [Proc -> Nat]
      /\ g[a] = f[a] + burst[a] /\ \A q \in Proc \ {a} : g[q] = f[q]
  <2>1. f \in [Proc -> Nat] /\ g \in [Proc -> Nat]
    BY <1>1, <1>3 DEF OwedBy
  <2>2. \A q \in Proc \ {a} : g[q] = f[q]
    BY <1>2, <1>3 DEF OwedBy
  <2>3. f[a] = 0 /\ g[a] = left[a]
    BY <1>2, <1>3 DEF OwedBy
  <2> QED
    BY <1>1, <1>2, <2>1, <2>2, <2>3
<1>5. Sum(f) \in Nat /\ Sum(g) = Sum(f) + burst[a]
  <2>1. burst[a] \in Int
    BY <1>1, <1>2
  <2> QED
    BY <1>2, <1>4, <2>1, SumChange
<1>6. PICK k \in 0 .. NumProc - 1 : /\ k = Cardinality(Admitted) /\ a = Arriving(k + 1)
                                    /\ k + 1 = Cardinality(Admitted \cup NewArrival)
  BY <1>1, <1>2, NextIs
<1>7. /\ Due(k) \in Nat
      /\ Due(k + 1) = IF Due(k) > start[a] THEN Due(k) + burst[a] ELSE start[a] + burst[a]
  BY <1>1, <1>6, DueNext
<1>8. IF Sum(f) > 0 THEN time + Sum(f) = Due(k) ELSE Due(k) <= time
  BY <1>3, <1>6 DEF PlanInv, Owed
<1>9. burst[a] \in Nat
  BY <1>1, <1>2
<1>10. time + Sum(g) = Due(k + 1) /\ Sum(g) \in Nat
  BY <1>1, <1>2, <1>5, <1>7, <1>8, <1>9
<1> QED
  BY <1>3, <1>6, <1>10

\* A tick with work to do is a tick of the plan.
LEMMA PicksPlanned ==
    ASSUME SInv, LevelInv, LevelInv', PlanInv, NEW p \in Proc, NEW gone, Picks(p, gone)
    PROVE  PlanInv'
<1>1. /\ UNCHANGED <<start, burst, strategy>> /\ time' = time + 1 /\ TypeOK
      /\ dropped' = dropped \cup gone /\ gone \subseteq Current
      /\ Work(p) \/ (strategy = "PRIOP" /\ UNCHANGED left)
      /\ p \in Pool
  BY DEF Picks, Save, input, SInv
<1>2. SUFFICES ASSUME Distinct, Fits, strategy # "PRIOP"
      PROVE  IF Owed' > 0 THEN time' + Owed' = Due(Cardinality(Admitted))'
             ELSE Due(Cardinality(Admitted))' <= time'
  BY <1>1 DEF PlanInv, Distinct, Fits
<1>3. /\ left \in [Proc -> Nat] /\ time \in Nat /\ Work(p) /\ left[p] > 0
      /\ p \in Admitted \cup NewArrival
  BY <1>1, <1>2, Typing, PoolIs DEF Pool, Waiting, Current, SInv, Fresh
<1>4. Admitted' = Admitted \cup NewArrival
  BY <1>1, AdmittedIs
<1>5. PICK S : S = Admitted \cup NewArrival
  OBVIOUS
<1>6. PICK f : f = OwedBy(S)
  OBVIOUS
<1>7. PICK g : g = OwedBy(Admitted)'
  OBVIOUS
<1>8. /\ f \in [Proc -> Nat] /\ g \in [Proc -> Nat]
      /\ g[p] = f[p] + (0 - 1) /\ \A q \in Proc \ {p} : g[q] = f[q]
      /\ f[p] > 0
  <2>1. PICK new \in [Proc -> Int] : new = left'
    BY <1>3 DEF Work
  <2>2. new[p] = left[p] - 1 /\ \A q \in Proc \ {p} : new[q] = left[q]
    BY <1>3, <2>1 DEF Work
  <2>3. g = [q \in Proc |-> IF q \in S THEN new[q] ELSE 0]
    BY <1>4, <1>5, <1>7, <2>1 DEF OwedBy
  <2>4. f = [q \in Proc |-> IF q \in S THEN left[q] ELSE 0]
    BY <1>6 DEF OwedBy
  <2>5. new[p] \in Nat /\ left[p] \in Nat /\ new[p] = left[p] + (0 - 1)
    BY <1>3, <2>2
  <2>6. new \in [Proc -> Nat]
    BY <1>3, <2>1, <2>2, <2>5
  <2> QED
    BY <1>3, <1>5, <2>2, <2>3, <2>4, <2>5, <2>6
<1>9. Sum(f) \in Nat /\ Sum(g) \in Nat /\ Sum(g) = Sum(f) - 1
  <2>1. Sum(f) \in Nat /\ Sum(g) = Sum(f) + (0 - 1)
    BY <1>8, SumChange
  <2>2. f[p] \in Nat /\ f[p] <= Sum(f)
    BY <1>8, SumIs
  <2> QED
    BY <1>8, <2>1, <2>2
<1>10. time + Sum(f) = Due(Cardinality(S))
  <2>1. CASE NewArrival # {}
    BY <1>2, <1>5, <1>6, <2>1, ArrivesPlanned
  <2>2. CASE NewArrival = {}
    <3>1. S = Admitted /\ f[p] <= Sum(f) /\ f[p] \in Nat
      BY <1>5, <1>8, <2>2, SumIs
    <3>2. Sum(f) > 0
      BY <1>8, <1>9, <3>1
    <3> QED
      BY <1>2, <1>6, <3>1, <3>2 DEF PlanInv, Owed
  <2> QED
    BY <2>1, <2>2
<1>11. Owed' = Sum(g)
  BY <1>7 DEF Owed, Sum, Sums
<1>12. Due(Cardinality(Admitted))' = Due(Cardinality(S))
  BY <1>1, <1>4, <1>5 DEF Due, EndTime, Arriving, Before
<1>13. PICK m, d, e : m = Sum(f) /\ d = Due(Cardinality(S)) /\ e = Sum(g)
  OBVIOUS
<1>14. IF e > 0 THEN (time + 1) + e = d ELSE d <= time + 1
  BY <1>3, <1>9, <1>10, <1>13
<1> QED
  BY <1>1, <1>11, <1>12, <1>13, <1>14

\* A tick without work finds the plan fulfilled.
LEMMA NothingOwed ==
    ASSUME SInv, LevelInv, Pool = {}, Fits
    PROVE  Owed = 0
<1>1. left \in [Proc -> Nat] /\ dropped = {}
  BY Typing DEF SInv, LevelInv
<1>2. ASSUME NEW p \in Admitted PROVE left[p] = 0
  <2>1. p \in Proc /\ left[p] \in Nat
    BY <1>1 DEF Admitted
  <2>2. p \in Admitted \ dropped /\ p # None
    BY <1>1, <2>1, Typing DEF SInv
  <2>3. left[p] > 0 /\ p # running => p \in Waiting
    BY <2>2 DEF Waiting
  <2>4. left[p] > 0 /\ p = running => p \in Current
    BY <2>1, <2>2 DEF Current
  <2> QED
    BY <2>1, <2>3, <2>4 DEF Pool
<1>3. OwedBy(Admitted) \in [Proc -> Nat] /\ \A p \in Proc : OwedBy(Admitted)[p] = 0
  BY <1>1, <1>2 DEF OwedBy
<1> QED
  BY <1>3, SumIs DEF Owed

LEMMA RestsPlanned ==
    ASSUME SInv, LevelInv, PlanInv, Rests
    PROVE  PlanInv'
<1>1. /\ UNCHANGED <<start, burst, strategy, left>> /\ time' = time + 1 /\ Pool = {} /\ TypeOK
  BY DEF Rests, Idle, Save, input, SInv
<1>2. SUFFICES ASSUME Distinct, Fits, strategy # "PRIOP"
      PROVE  IF Owed' > 0 THEN time' + Owed' = Due(Cardinality(Admitted))'
             ELSE Due(Cardinality(Admitted))' <= time'
  BY <1>1 DEF PlanInv, Distinct, Fits
<1>3. Admitted' = Admitted
  BY <1>1, AdmittedIs DEF Pool
<1>4. Owed' = Owed /\ Owed = 0
  <2>1. Owed' = Owed
    BY <1>1, <1>3 DEF Owed, Sum, Sums, OwedBy
  <2> QED
    BY <1>1, <1>2, <2>1, NothingOwed
<1>5. Due(Cardinality(Admitted))' = Due(Cardinality(Admitted))
  BY <1>1, <1>3 DEF Due, EndTime, Arriving, Before
<1>6. PICK d \in Nat : d = Due(Cardinality(Admitted)) /\ d <= time
  <2>1. Cardinality(Admitted) \in 0 .. NumProc
    BY <1>1, <1>2, DistinctIs
  <2>2. Due(Cardinality(Admitted)) \in Nat
    BY <1>1, <2>1, Typing, DueLast
  <2>3. Due(Cardinality(Admitted)) <= time
    BY <1>2, <1>4 DEF PlanInv
  <2> QED
    BY <2>2, <2>3
<1>7. d <= time + 1
  BY <1>1, <1>6, Typing
<1> QED
  BY <1>1, <1>4, <1>5, <1>6, <1>7

LEMMA PlanKept ==
    ASSUME SInv, LevelInv, LevelInv', PlanInv, [Next]_vars
    PROVE  PlanInv'
<1>1. CASE Tick /\ ~Crash
  BY <1>1, TickIs, PicksPlanned, RestsPlanned
<1>2. CASE Crash \/ Finish \/ UNCHANGED vars
  <2>1. UNCHANGED <<strategy, start, burst, time, left>>
    BY <1>2 DEF Crash, Finish, vars, input
  <2>2. Admitted' = Admitted /\ Fits' = Fits /\ Distinct' = Distinct
    BY <2>1 DEF Admitted, Before, Fits, Distinct
  <2>3. Owed' = Owed /\ Due(Cardinality(Admitted))' = Due(Cardinality(Admitted))
    BY <2>1, <2>2 DEF Owed, Sum, Sums, OwedBy, Due, EndTime, Arriving, Before
  <2> QED
    BY <2>1, <2>2, <2>3 DEF PlanInv
<1> QED
  BY <1>1, <1>2 DEF Next

\* When the loop has come to its end all have been taken in, and nothing is
\* left of the plan.
LEMMA PlanEnds ==
    ASSUME SInv, PlanInv, time = MaxTime, Distinct, Fits, strategy # "PRIOP"
    PROVE  \A p \in Proc : left[p] = 0
<1>1. /\ start \in [Proc -> Nat] /\ burst \in [Proc -> Nat \ {0}]
      /\ left \in [Proc -> Nat] /\ time \in Nat /\ TypeOK
  BY Typing DEF SInv
<1>2. Admitted = Proc /\ Cardinality(Admitted) = NumProc
  BY <1>1, DueLast, DistinctIs
<1>3. Due(Cardinality(Admitted)) = time
  BY <1>1, <1>2, DueLast
<1>4. OwedBy(Proc) \in [Proc -> Nat] /\ \A p \in Proc : OwedBy(Proc)[p] = left[p]
  BY <1>1 DEF OwedBy
<1>5. PICK s \in Nat : s = Owed /\ \A p \in Proc : left[p] <= s
  BY <1>2, <1>4, SumIs DEF Owed
<1>6. s = 0
  BY <1>1, <1>3, <1>5 DEF PlanInv
<1> QED
  BY <1>1, <1>5, <1>6

\* Before that there is always somebody, if each arrives before those in
\* front of him are finished.
LEMMA SomebodyThere ==
    ASSUME SInv, LevelInv, PlanInv, time < MaxTime, Distinct, Fits, NoGap, strategy # "PRIOP"
    PROVE  Pool # {}
<1>1. /\ start \in [Proc -> Nat] /\ burst \in [Proc -> Nat \ {0}] /\ time \in Nat /\ TypeOK
      /\ NumProc \in Nat /\ NumProc > 0 /\ Proc = 1 .. NumProc
  BY Typing, SchedulerAssumption DEF SInv, Proc
<1>2. SUFFICES ASSUME Pool = {} PROVE FALSE
  OBVIOUS
<1>3. PICK k \in 0 .. NumProc : k = Cardinality(Admitted)
  BY <1>1, DistinctIs
<1>4. Due(k) \in Nat /\ Due(k) <= time
  <2>1. Owed = 0
    BY <1>2, NothingOwed
  <2>2. Due(k) <= time
    BY <1>3, <2>1 DEF PlanInv
  <2> QED
    BY <1>1, <2>2, DueLast
<1>5. k # NumProc
  BY <1>1, <1>4, DueLast
<1>6. PICK i \in Proc : i = k + 1 /\ i - 1 = k /\ (i = 1 <=> k = 0)
  BY <1>1, <1>5
<1>7. PICK a \in Proc : a = Arriving(i) /\ Cardinality(Ahead(a)) = k
  BY <1>1, <1>6, ArrivingIs
<1>8. start[a] \in Nat /\ start[a] <= time
  <2>1. CASE k = 0
    BY <1>1, <1>6, <1>7, <2>1 DEF NoGap
  <2>2. CASE k # 0
    <3>1. Due(k) = EndTime[k]
      BY <2>2 DEF Due
    <3>2. start[a] <= EndTime[k]
      BY <1>6, <1>7, <2>2 DEF NoGap
    <3>3. PICK x, d \in Nat : x = start[a] /\ d = Due(k)
      BY <1>1, <1>4
    <3>4. x \in Nat /\ x <= d /\ d <= time
      BY <1>1, <1>4, <3>1, <3>2, <3>3
    <3> QED
      BY <1>1, <3>3, <3>4
  <2> QED
    BY <2>1, <2>2
<1>9. start[a] # time
  BY <1>1, <1>2, DistinctIs DEF Pool
<1>10. start[a] < time /\ a \in Admitted
  <2>1. start[a] < time
    BY <1>1, <1>8, <1>9
  <2> QED
    BY <1>1, <2>1, DistinctIs
<1>11. Ahead(a) \cup {a} \in SUBSET Admitted
  <2>1. ASSUME NEW q \in Ahead(a) PROVE q \in Admitted
    <3>1. q \in Proc /\ start[q] \in Nat /\ start[a] \in Nat /\ time \in Nat
      BY <1>1, <1>8 DEF Ahead
    <3>2. start[q] < start[a] \/ start[q] = start[a]
      BY DEF Ahead, Before
    <3>3. start[q] < time
      BY <1>10, <3>1, <3>2
    <3> QED
      BY <1>1, <3>1, <3>3, DistinctIs
  <2> QED
    BY <1>10, <2>1
<1>12. Cardinality(Ahead(a) \cup {a}) = k + 1
  <2>1. a \notin Ahead(a)
    BY <1>1 DEF Ahead, Before
  <2>2. IsFiniteSet(Ahead(a))
    BY <1>1, ArrivingIs
  <2> QED
    BY <1>7, <2>1, <2>2, FS_AddElement
<1>13. k + 1 <= k
  BY <1>1, <1>3, <1>11, <1>12, DistinctIs, FS_Subset
<1> QED
  BY <1>13

\* What the ways the loop can end say.
EndInv == (status = "done" => time = MaxTime) /\ CrashNeedsGap

LEMMA EndStep ==
    ASSUME SInv, LevelInv, PlanInv, EndInv, [Next]_vars
    PROVE  EndInv'
<1>1. UNCHANGED <<strategy, start, burst>>
  BY TickIs DEF Next, Finish, vars, input, Crash, Rests, Idle, Picks, Save
<1>2. MaxTime' = MaxTime /\ Distinct' = Distinct /\ Fits' = Fits /\ NoGap' = NoGap
  BY <1>1 DEF MaxTime, EndTime, Arriving, Before, Distinct, Fits, NoGap
<1>3. CASE Tick /\ status' # "crashed"
  <2>1. status' = "running"
    BY <1>3, TickIs DEF Tick, Crash, Rests, Idle, Picks, Save
  <2> QED
    BY <2>1 DEF EndInv, CrashNeedsGap
<1>4. CASE Tick /\ status' = "crashed"
  <2>1. strategy \in {"LCFS", "HRRN", "MLF"} /\ (Fits => Pool = {}) /\ time < MaxTime
    BY <1>4, CrashIs DEF Tick
  <2>2. ~(Distinct /\ Fits /\ NoGap)
    BY <2>1, SomebodyThere
  <2> QED
    BY <1>1, <1>2, <1>4, <2>1, <2>2 DEF EndInv, CrashNeedsGap
<1>5. CASE Finish
  BY <1>2, <1>5 DEF Finish, EndInv, CrashNeedsGap
<1>6. CASE UNCHANGED vars
  BY <1>1, <1>2, <1>6 DEF vars, EndInv, CrashNeedsGap
<1> QED
  BY <1>3, <1>4, <1>5, <1>6 DEF Next

\* Types, queues and levels, the plan and the end.
WholeInv == AllInv /\ PlanInv /\ EndInv

\* The loop of scheduler.c:124-253 ends after the ticks computed before it
\* (scheduler.c:73-94) with all the work done, or in a null pointer, for
\* which it takes a gap between the processes.
THEOREM LoopEndsAsPlanned == Spec => []EndsAsPlanned
<1>1. Init => WholeInv
  <2>1. SUFFICES ASSUME Init PROVE PlanInv /\ EndInv /\ AllInv
    BY DEF WholeInv
  <2>2. SInv /\ LevelInv /\ RoundInv
    BY <2>1, StartHolds, LevelsStart, RoundsStart
  <2>3. Admitted = {} /\ left \in [Proc -> Nat]
    BY <2>1, <2>2, Typing DEF Init, Admitted, SInv
  <2>4. OwedBy(Admitted) \in [Proc -> Nat] /\ \A p \in Proc : OwedBy(Admitted)[p] = 0
    BY <2>3 DEF OwedBy
  <2>5. Owed = 0
    BY <2>4, SumIs DEF Owed
  <2>6. Due(Cardinality(Admitted)) = 0
    BY <2>3, FS_EmptySet DEF Due
  <2>7. PlanInv
    BY <2>1, <2>5, <2>6 DEF PlanInv, Init
  <2>8. EndInv
    BY <2>1 DEF EndInv, CrashNeedsGap, Init
  <2> QED
    BY <2>2, <2>7, <2>8 DEF AllInv
<1>2. WholeInv /\ [Next]_vars => WholeInv'
  <2>1. SUFFICES ASSUME WholeInv, [Next]_vars PROVE WholeInv'
    OBVIOUS
  <2>2. SInv /\ LevelInv /\ RoundInv /\ PlanInv /\ EndInv
    BY <2>1 DEF WholeInv, AllInv
  <2>3. SInv' /\ LevelInv' /\ RoundInv'
    BY <2>1, <2>2, StepKeeps, LevelsKept, RoundsKept
  <2>4. PlanInv' /\ EndInv'
    BY <2>1, <2>2, <2>3, PlanKept, EndStep
  <2> QED
    BY <2>3, <2>4 DEF WholeInv, AllInv
<1>3. WholeInv => EndsAsPlanned
  BY PlanEnds DEF WholeInv, AllInv, EndInv, EndsAsPlanned, FinishedInTime
<1> QED
  BY <1>1, <1>2, <1>3, PTL DEF Spec
=============================================================================
