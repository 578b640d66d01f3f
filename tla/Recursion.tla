------------------------------ MODULE Recursion ------------------------------
(* What the proofs about recursive functions need: induction up to a bound *)
(* as a set that has every number, and that a function whose values follow *)
(* from one another exists.                                                *)
EXTENDS Integers, WellFoundedInduction, TLAPS

\* A set of numbers has a smallest one.
LEMMA SmallestOf ==
    ASSUME NEW S \in SUBSET Nat, S # {}
    PROVE  \E n \in S : \A k \in S : n <= k
<1>1. \E n \in S : \A k \in S : ~(<<k, n>> \in OpToRel(<, Nat))
  BY NatLessThanWellFounded, WFMin
<1>2. PICK n \in S : \A k \in S : ~(<<k, n>> \in OpToRel(<, Nat))
  BY <1>1
<1>3. \A k \in S : ~(k < n)
  BY <1>2 DEF OpToRel
<1> QED
  BY <1>3

\* A set that has 0, and with a number the next one, has them all.
LEMMA AllNumbers ==
    ASSUME NEW S \in SUBSET Nat, 0 \in S, \A n \in S : n + 1 \in S
    PROVE  S = Nat
<1>1. SUFFICES ASSUME Nat \ S # {} PROVE FALSE
  OBVIOUS
<1>2. PICK n \in Nat \ S : \A k \in Nat \ S : n <= k
  <2>1. Nat \ S \in SUBSET Nat
    OBVIOUS
  <2> QED
    BY <1>1, <2>1, SmallestOf
<1>3. n # 0 /\ n - 1 \in Nat /\ (n - 1) + 1 = n /\ ~(n <= n - 1)
  OBVIOUS
<1>4. n - 1 \in S
  BY <1>2, <1>3
<1> QED
  BY <1>3, <1>4

\* Up to a bound it is enough that this holds below it.
LEMMA AllUpTo ==
    ASSUME NEW m \in Nat, NEW S, 0 \in S, \A n \in 0 .. m - 1 : n \in S => n + 1 \in S
    PROVE  \A n \in 0 .. m : n \in S
<1>1. PICK T \in SUBSET Nat : T = {n \in Nat : n <= m => n \in S}
  OBVIOUS
<1>2. 0 \in T
  BY <1>1
<1>3. ASSUME NEW n \in T PROVE n + 1 \in T
  BY <1>1
<1>4. T = Nat
  BY <1>2, <1>3, AllNumbers
<1> QED
  BY <1>1, <1>4

\* What follows from value to value, for the first m + 1 values: f starts
\* with a, and step says how it goes on.
Follows(f, m, a, step) ==
    f[0] = a /\ \A i \in 0 .. m - 1 : f[i + 1] = step[<<i, f[i]>>]

\* Such a function exists,
LEMMA FollowsExists ==
    ASSUME NEW V, NEW a \in V, NEW step \in [Nat \X V -> V], NEW m \in Nat
    PROVE  \E f \in [0 .. m -> V] : Follows(f, m, a, step)
<1>1. PICK T \in SUBSET Nat :
         T = {n \in Nat : \E f \in [0 .. n -> V] : Follows(f, n, a, step)}
  OBVIOUS
<1>2. 0 \in T
  <2>1. PICK f : f = [i \in 0 .. 0 |-> a]
    OBVIOUS
  <2>2. f \in [0 .. 0 -> V] /\ Follows(f, 0, a, step)
    BY <2>1 DEF Follows
  <2> QED
    BY <1>1, <2>2
<1>3. ASSUME NEW n \in T PROVE n + 1 \in T
  <2>1. n \in Nat
    OBVIOUS
  <2>2. PICK f \in [0 .. n -> V] : Follows(f, n, a, step)
    BY <1>1
  <2>3. PICK v \in V : v = step[<<n, f[n]>>]
    BY <2>1
  <2>4. PICK g : g = [i \in 0 .. n + 1 |-> IF i = n + 1 THEN v ELSE f[i]]
    OBVIOUS
  <2>5. g \in [0 .. n + 1 -> V]
    BY <2>1, <2>4
  <2>6. \A i \in 0 .. n : i \in 0 .. n + 1 /\ i # n + 1 /\ g[i] = f[i]
    BY <2>1, <2>4
  <2>7. g[n + 1] = v
    BY <2>1, <2>4
  <2>8. ASSUME NEW i \in 0 .. n PROVE g[i + 1] = step[<<i, g[i]>>]
    <3>1. CASE i = n
      BY <2>3, <2>6, <2>7, <3>1
    <3>2. CASE i # n
      <4>1. i \in 0 .. n - 1 /\ i + 1 \in 0 .. n
        BY <2>1, <3>2
      <4>2. f[i + 1] = step[<<i, f[i]>>]
        BY <2>2, <4>1 DEF Follows
      <4> QED
        BY <2>6, <4>1, <4>2
    <3> QED
      BY <3>1, <3>2
  <2>9. Follows(g, n + 1, a, step)
    <3>1. g[0] = a
      BY <2>1, <2>2, <2>6 DEF Follows
    <3>2. 0 .. (n + 1) - 1 = 0 .. n
      BY <2>1
    <3> QED
      BY <2>8, <3>1, <3>2 DEF Follows
  <2>10. n + 1 \in Nat
    BY <2>1
  <2> QED
    BY <1>1, <2>5, <2>9, <2>10
<1>4. T = Nat
  BY <1>2, <1>3, AllNumbers
<1> QED
  BY <1>1, <1>4

\* The definition of a recursive function on D with values in V: rule makes of
\* s the function that one expansion gives, and this depends on the values of
\* s for smaller arguments only.
Recursive(D, V, start, rule, m, size) ==
    /\ start \in [D -> V] /\ rule \in [[D -> V] -> [D -> V]]
    /\ m \in Nat /\ size \in [D -> 0 .. m]
    /\ \A s \in [D -> V], t \in [D -> V], c \in D :
          (\A d \in D : size[d] < size[c] => s[d] = t[d]) => rule[s][c] = rule[t][c]

\* There is a function that it defines.
LEMMA RecursionExists ==
    ASSUME NEW D, NEW V, NEW start, NEW rule, NEW m, NEW size, Recursive(D, V, start, rule, m, size)
    PROVE  \E s \in [D -> V] : s = rule[s]
<1>0. /\ start \in [D -> V] /\ rule \in [[D -> V] -> [D -> V]]
      /\ m \in Nat /\ size \in [D -> 0 .. m]
      /\ \A s \in [D -> V], t \in [D -> V], c \in D :
             (\A d \in D : size[d] < size[c] => s[d] = t[d]) => rule[s][c] = rule[t][c]
  BY DEF Recursive
<1>1. PICK W : W = [D -> V]
  OBVIOUS
<1>2. PICK step : step = [x \in Nat \X W |-> rule[x[2]]]
  OBVIOUS
<1>3. \A i \in Nat, s \in W : step[<<i, s>>] = rule[s] /\ rule[s] \in W
  BY <1>0, <1>1, <1>2
<1>4. step \in [Nat \X W -> W]
  BY <1>0, <1>1, <1>2
<1>5. PICK n \in Nat : n = m + 2
  BY <1>0
<1>6. PICK f \in [0 .. n -> W] : Follows(f, n, start, step)
  BY <1>0, <1>1, <1>4, FollowsExists
<1>7. ASSUME NEW i \in 0 .. m + 1
      PROVE  i \in Nat /\ f[i] \in W /\ f[i + 1] \in W /\ f[i + 1] = rule[f[i]]
  <2>1. i \in 0 .. n - 1 /\ i \in 0 .. n /\ i + 1 \in 0 .. n /\ i \in Nat
    BY <1>0, <1>5
  <2>2. f[i + 1] = step[<<i, f[i]>>] /\ f[i] \in W /\ f[i + 1] \in W
    BY <1>6, <2>1 DEF Follows
  <2> QED
    BY <1>3, <2>1, <2>2
<1>8. PICK S : S = {i \in 0 .. m + 1 : \A c \in D : size[c] < i => f[i + 1][c] = f[i][c]}
  OBVIOUS
<1>9. 0 \in S
  BY <1>0, <1>8
<1>10. ASSUME NEW i \in 0 .. (m + 1) - 1, i \in S PROVE i + 1 \in S
  <2>1. i \in 0 .. m + 1 /\ i + 1 \in 0 .. m + 1 /\ i \in Nat
    BY <1>0
  <2>2. ASSUME NEW c \in D, size[c] < i + 1 PROVE f[(i + 1) + 1][c] = f[i + 1][c]
    <3>1. ASSUME NEW d \in D, size[d] < size[c] PROVE f[i + 1][d] = f[i][d]
      <4>1. size[d] < i
        <5>1. size[d] \in Nat /\ size[c] \in Nat
          BY <1>0
        <5> QED
          BY <2>1, <2>2, <3>1, <5>1
      <4> QED
        BY <1>8, <1>10, <4>1
    <3>2. f[i + 1] \in [D -> V] /\ f[i] \in [D -> V]
      BY <1>1, <1>7, <2>1
    <3>3. rule[f[i + 1]][c] = rule[f[i]][c]
      BY <1>0, <3>1, <3>2
    <3> QED
      BY <1>7, <2>1, <3>3
  <2> QED
    BY <1>8, <2>1, <2>2
<1>11. m + 1 \in S /\ m + 1 \in 0 .. m + 1
  <2>1. m + 1 \in Nat /\ m + 1 \in 0 .. m + 1
    BY <1>0
  <2> QED
    BY <1>9, <1>10, <2>1, AllUpTo
<1>12. PICK s \in [D -> V] : s = f[m + 1]
  BY <1>1, <1>7, <1>11
<1>13. PICK t \in [D -> V] : t = rule[s]
  BY <1>0
<1>14. ASSUME NEW c \in D PROVE t[c] = s[c]
  <2>1. size[c] < m + 1
    BY <1>0, <1>11
  <2>2. f[(m + 1) + 1][c] = f[m + 1][c]
    BY <1>8, <1>11, <2>1
  <2> QED
    BY <1>7, <1>11, <1>12, <1>13, <2>2
<1>15. t = s
  BY <1>14
<1> QED
  BY <1>13, <1>15
=============================================================================
