---------------------------- MODULE CountedLoops ----------------------------
(* The nested loops of the programming course whose commands are counted:  *)
(* one, two or three loops of n runs each around one addition.             *)
EXTENDS Naturals, Sequences

CONSTANT MaxRuns    \* bound: the largest n; 10 in the code

ASSUME LoopAssumption == MaxRuns \in Nat

VARIABLES
    depth, bound, \* which function runs, and its argument n
    runs,         \* the loops that are under way, with the runs they have begun
    sum, commands,
    returned

loopVars == <<depth, bound, runs, sum, commands, returned>>

\* long sum = 0, and the first loop's initialisation
LoopInit ==
    /\ depth \in 1 .. 3 /\ bound \in 0 .. MaxRuns
    /\ runs = <<0>>
    /\ sum = 0 /\ commands = 2
    /\ returned = FALSE

Level == Len(runs)
Runs(k) == SubSeq(runs, 1, k)

\* A comparison that holds, an increment, and the addition or the
\* initialisation of the next loop.
BeginRun ==
    /\ ~returned /\ runs[Level] < bound
    /\ commands' = commands + 3
    /\ LET begun == Append(Runs(Level - 1), runs[Level] + 1)
       IN \/ /\ Level = depth
             /\ sum' = sum + 1 /\ runs' = begun
          \/ /\ Level < depth
             /\ runs' = Append(begun, 0) /\ UNCHANGED sum
    /\ UNCHANGED <<depth, bound, returned>>

\* The comparison that fails; after the outer loop, the return.
EndLoop ==
    /\ ~returned /\ runs[Level] = bound
    /\ \/ /\ Level > 1
          /\ runs' = Runs(Level - 1)
          /\ commands' = commands + 1
          /\ UNCHANGED returned
       \/ /\ Level = 1
          /\ commands' = commands + 2 /\ returned' = TRUE
          /\ UNCHANGED runs
    /\ UNCHANGED <<depth, bound, sum>>

LoopNext == BeginRun \/ EndLoop

LoopSpec == LoopInit /\ [][LoopNext]_loopVars
-----------------------------------------------------------------------------
\* The commands are a polynomial in n of the number of loops for its degree:
\* linear, quadratic and cubic, as the functions are called.
CommandsArePolynomial == returned =>
    LET n == bound
    IN \/ depth = 1 /\ sum = n /\ commands = 3 * n + 4
       \/ depth = 2 /\ sum = n * n /\ commands = 3 * (n * n) + 4 * n + 4
       \/ depth = 3 /\ sum = n * (n * n) /\ commands = 3 * (n * (n * n)) + 4 * (n * n) + 4 * n + 4
=============================================================================
