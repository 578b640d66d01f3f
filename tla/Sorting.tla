------------------------------- MODULE Sorting -------------------------------
(* The sorting programs of the programming course.  Arrays are indexed     *)
(* from 0, as in C.  A step is one run of an outer loop: an insertion, a   *)
(* round of counting, a merge; the recursive merge sort runs as a whole.   *)
EXTENDS Integers, FiniteSets

CONSTANTS
    MaxLength,    \* bound: the length of an array
    MaxValue,     \* MAX_VALUE; values are 0 .. MaxValue
    CounterLimit  \* the counters are unsigned int; 2^32 in the code

ASSUME SortingAssumption ==
    MaxLength \in Nat /\ MaxValue \in Nat /\ CounterLimit \in Nat \ {0}

Value == 0 .. MaxValue
Algorithm == {"insertion", "count", "merge", "merge_recursive"}

VARIABLES
    algorithm, input,   \* which program runs, on what
    len,
    array,              \* what has been written
    outer, inner,       \* j, or s and l, or the two loops of count sort
    counts,             \* count_array
    befehle,            \* the commands counted by the programs that measure
    done

sortVars == <<algorithm, input, len, array, outer, inner, counts, befehle, done>>

SortInit ==
    /\ algorithm \in Algorithm
    /\ len \in 0 .. MaxLength
    /\ input \in [0 .. len - 1 -> Value]
    /\ array = input
    /\ outer = IF algorithm = "count" THEN 0 ELSE 1
    /\ inner = 0
    /\ counts = [v \in Value |-> 0]
    \* count_sort has counted its malloc and the beginning of three loops
    /\ befehle = CASE algorithm = "insertion" -> 1
                   [] algorithm = "count" -> (2 + 1 + 3 * (MaxValue + 1) + 1 + 1) % CounterLimit
                   [] OTHER -> 0
    /\ done = FALSE

SortConstant == UNCHANGED <<algorithm, input, len>>

Count(n) == befehle' = (befehle + n) % CounterLimit
-----------------------------------------------------------------------------
(* Insertion sort *)

\* Mutant: equal keys are passed as well.
PlaceBeforeEqual(a, j) ==
    LET from[i \in -1 .. len] == IF i >= 0 /\ a[i] >= a[j] THEN from[i - 1] ELSE i
    IN from[j - 1] + 1

\* Where the key a[j] belongs among the elements before it.
PlaceOf(a, j) ==
    LET from[i \in -1 .. len] == IF i >= 0 /\ a[i] > a[j] THEN from[i - 1] ELSE i
    IN from[j - 1] + 1

\* One run of the outer loop, with 6 commands and 4 for each element moved.
InsertKey ==
    /\ algorithm = "insertion" /\ ~done /\ outer < len
    /\ LET p == PlaceOf(array, outer)
       IN /\ array' = [i \in DOMAIN array |->
                         CASE i = p -> array[outer]
                           [] i \in p + 1 .. outer -> array[i - 1]
                           [] OTHER -> array[i]]
          /\ Count(6 + 4 * (outer - p))
    /\ outer' = outer + 1
    /\ UNCHANGED <<inner, counts, done>>

\* The command counted after the loop.
InsertionDone ==
    /\ algorithm = "insertion" /\ ~done /\ outer >= len
    /\ Count(1)
    /\ done' = TRUE
    /\ UNCHANGED <<array, outer, inner, counts>>
-----------------------------------------------------------------------------
(* Count sort *)

\* count_sort_calculate_counts: one value of the input.
CountValue ==
    /\ algorithm = "count" /\ ~done /\ outer < len
    /\ counts' = [counts EXCEPT ![input[outer]] = @ + 1]
    /\ Count(3)
    /\ outer' = outer + 1
    /\ UNCHANGED <<array, inner, done>>

\* How many elements are smaller than v: the k of the output loop.
Smaller(v) ==
    LET sum[w \in 0 .. MaxValue + 1] == IF w = 0 THEN 0 ELSE sum[w - 1] + counts[w - 1]
    IN sum[v]

\* count_sort_write_output_array: all elements of one value.
WriteValue ==
    /\ algorithm = "count" /\ ~done /\ outer >= len /\ inner <= MaxValue
    /\ array' = [i \in DOMAIN array |->
                   IF i \in Smaller(inner) .. Smaller(inner) + counts[inner] - 1
                   THEN inner ELSE array[i]]
    /\ Count(4 + 4 * counts[inner])
    /\ inner' = inner + 1
    /\ UNCHANGED <<outer, counts, done>>

\* The end of the two last loops, the beginning of the writing ones, free.
CountDone ==
    /\ algorithm = "count" /\ ~done /\ outer >= len /\ inner > MaxValue
    /\ Count(1 + 2 + 1 + 1)
    /\ done' = TRUE
    /\ UNCHANGED <<array, outer, inner, counts>>
-----------------------------------------------------------------------------
(* Merge sort *)

\* merge: the smaller front of the two halves is taken, the left one when
\* they are equal.
Merge(a, first, middle, last) ==
    LET left(f) == f[1] <= middle /\ (f[2] > last \/ a[f[1]] <= a[f[2]])
        taken(f) == IF left(f) THEN a[f[1]] ELSE a[f[2]]    \* into halfarray
        fronts[k \in 0 .. last - first] ==    \* f and m, when j is k
          IF k = 0 THEN <<first, middle + 1>>
          ELSE LET f == fronts[k - 1]
               IN IF left(f) THEN <<f[1] + 1, f[2]>> ELSE <<f[1], f[2] + 1>>
    IN [i \in DOMAIN a |-> IF i \in first .. last THEN taken(fronts[i - first]) ELSE a[i]]

Smallest(m, n) == IF m < n THEN m ELSE n

\* merge_sort, iterative: one run of the inner loop.
MergePair ==
    /\ algorithm = "merge" /\ ~done
    /\ outer <= len - 1 /\ inner <= len - 1 - outer
    /\ array' = Merge(array, inner, Smallest(inner + outer - 1, len - 1),
                      Smallest(inner + 2 * outer - 1, len - 1))
    /\ inner' = inner + 2 * outer
    /\ UNCHANGED <<outer, counts, befehle, done>>

MergeWider ==
    /\ algorithm = "merge" /\ ~done
    /\ outer <= len - 1 /\ inner > len - 1 - outer
    /\ outer' = outer * 2 /\ inner' = 0
    /\ UNCHANGED <<array, counts, befehle, done>>

MergeDone ==
    /\ algorithm = "merge" /\ ~done /\ outer > len - 1
    /\ done' = TRUE
    /\ UNCHANGED <<array, outer, inner, counts, befehle>>

\* merge_sort, recursive.  A call is an array, first and last.
MergeSort(a) ==
    LET sort[c \in [0 .. len - 1 -> Value] \X (0 .. len) \X (-1 .. len - 1)] ==
          IF c[2] >= c[3] THEN c[1]
          ELSE LET q == (c[2] + c[3]) \div 2
                   lower == sort[<<c[1], c[2], q>>]
               IN Merge(sort[<<lower, q + 1, c[3]>>], c[2], q, c[3])
    IN sort[<<a, 0, len - 1>>]

SortRecursively ==
    /\ algorithm = "merge_recursive" /\ ~done
    /\ array' = MergeSort(array)
    /\ done' = TRUE
    /\ UNCHANGED <<outer, inner, counts, befehle>>

SortNext ==
    /\ \/ InsertKey \/ InsertionDone
       \/ CountValue \/ WriteValue \/ CountDone
       \/ MergePair \/ MergeWider \/ MergeDone
       \/ SortRecursively
    /\ SortConstant

SortSpec == SortInit /\ [][SortNext]_sortVars
-----------------------------------------------------------------------------
HowMany(a, v) == Cardinality({i \in DOMAIN a : a[i] = v})

\* Every program leaves the same array: the input's values, each as often
\* as it was there, in their order.
Sorted == done =>
    /\ \A i, j \in DOMAIN array : i < j => array[i] <= array[j]
    /\ \A v \in Value : HowMany(array, v) = HowMany(input, v)

Inversions == Cardinality({p \in (DOMAIN input) \X (DOMAIN input) :
                             p[1] < p[2] /\ input[p[1]] > input[p[2]]})

\* The commands the two measured programs count: only insertion sort's
\* number depends on the order of the input, by its inversions.
CommandsCounted == done =>
    /\ algorithm = "insertion" =>
         befehle = (2 + 6 * (IF len > 1 THEN len - 1 ELSE 0) + 4 * Inversions) % CounterLimit
    /\ algorithm = "count" =>
         befehle = (10 + 7 * (MaxValue + 1) + 7 * len) % CounterLimit
=============================================================================
