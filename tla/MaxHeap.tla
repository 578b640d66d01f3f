------------------------------ MODULE MaxHeap ------------------------------
(* The binary heap of the programming course: heap_insert lets the new key *)
(* rise, heap_extract_max puts the last element on top and lets it sink.   *)
EXTENDS Integers, FiniteSets

CONSTANTS Places, Key

ASSUME MaxHeapAssumption == Places \in Nat \ {0} /\ Key \subseteq Int

VARIABLES
    elements,  \* indices begin with 0, as in C
    size,
    result     \* what the last call has returned

maxHeapVars == <<elements, size, result>>

Index == 0 .. Places - 1
Parent(i) == (i - 1) \div 2

\* heap_create
MaxHeapInit ==
    /\ elements = [i \in Index |-> 0]     \* calloc
    /\ size = 0
    /\ result = 0

\* The index of the largest of i and its children among the first n.
LargestOf(e, n, i) ==
    LET l == IF 2 * i + 1 < n /\ e[2 * i + 1] > e[i] THEN 2 * i + 1 ELSE i
    IN IF 2 * i + 2 < n /\ e[2 * i + 2] > e[l] THEN 2 * i + 2 ELSE l

Swapped(e, i, j) == [e EXCEPT ![i] = e[j], ![j] = e[i]]

\* heapify
Heapify(e, n, i) ==
    LET sink[c \in [Index -> Int] \X Index] ==
          LET l == LargestOf(c[1], n, c[2])
          IN IF l = c[2] THEN c[1] ELSE sink[<<Swapped(c[1], c[2], l), l>>]
    IN sink[<<e, i>>]

\* heap_extract_max.  With one element left heapify is given a heap of size
\* 0, which it does not look at.
ExtractMax ==
    \/ /\ size < 1
       /\ result' = -1
       /\ UNCHANGED <<elements, size>>
    \/ /\ size >= 1
       /\ result' = elements[0]
       /\ size' = size - 1
       /\ elements' = Heapify([elements EXCEPT ![0] = elements[size - 1]], size - 1, 0)

\* Mutant: the comparison is the wrong way round.
RiseBelow(e, i, key) ==
    LET at[j \in Index] == IF j > 0 /\ e[Parent(j)] > key THEN at[Parent(j)] ELSE j
    IN at[i]

\* Where the loop of heap_insert ends.
Rise(e, i, key) ==
    LET at[j \in Index] == IF j > 0 /\ e[Parent(j)] < key THEN at[Parent(j)] ELSE j
    IN at[i]

\* The indices from i up to the root.
Ancestors(i) ==
    LET up[j \in Index] == IF j = 0 THEN {0} ELSE {j} \cup up[Parent(j)] IN up[i]

\* heap_insert: what lies between the new place and the end moves down.
Insert(key) ==
    \/ /\ size = Places
       /\ result' = -1
       /\ UNCHANGED <<elements, size>>
    \/ /\ size < Places
       /\ LET top == Rise(elements, size, key)
          IN elements' = [i \in Index |->
                            IF i = top THEN key
                            ELSE IF i \in Ancestors(size) /\ i > top THEN elements[Parent(i)]
                            ELSE elements[i]]
       /\ size' = size + 1
       /\ result' = 0

MaxHeapNext == ExtractMax \/ \E key \in Key : Insert(key)

MaxHeapSpec == MaxHeapInit /\ [][MaxHeapNext]_maxHeapVars
-----------------------------------------------------------------------------
\* The heap is a priority queue: nothing is lost or doubled when elements
\* move, and what comes out is the largest.
Queue == INSTANCE PriorityQueue WITH
    queue <- [k \in Key |-> Cardinality({i \in 0 .. size - 1 : elements[i] = k})],
    held <- size

ImplementsQueue == Queue!Spec
=============================================================================
