------------------------------ MODULE Programs ------------------------------
(* The sorting programs and the loops whose commands are counted: the      *)
(* exercises about what a program computes and how long it takes.          *)
EXTENDS Sorting, CountedLoops

\* What the sorting programs and the loops that are counted are said to
\* show: a sorted array, the commands by the input's inversions, and by the
\* depth of the loops.
ProgramsDeliver == Sorted /\ CommandsCounted /\ CommandsArePolynomial
=============================================================================
