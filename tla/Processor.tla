----------------------------- MODULE Processor -----------------------------
(* What every scheduling strategy promises: one processor, which works on  *)
(* a process that has arrived and is not finished, and is idle only when   *)
(* there is none.                                                          *)
EXTENDS Naturals

CONSTANTS Proc, None

VARIABLES
    start, burst,  \* when each process arrives and how much work it brings
    diligent,      \* every tick a process is given counts as work
    careful,       \* no process is forgotten
    clock, known, work, cpu

vars == <<start, burst, diligent, careful, clock, known, work, cpu>>

Init ==
    /\ clock = 0 /\ known = {}
    /\ work = burst
    /\ cpu = None

\* Of the processes that arrive now one is taken in.
TakeIn ==
    IF \E p \in Proc : start[p] = clock
    THEN {known \cup {p} : p \in {q \in Proc : start[q] = clock}}
    ELSE {known}

Ready(s) == {p \in s : work[p] > 0}

WorkOn(p) ==
    /\ cpu' = p
    /\ \/ work' = [work EXCEPT ![p] = @ - 1]
       \/ ~diligent /\ UNCHANGED work

Idle == cpu' = None /\ UNCHANGED work

Tick ==
    /\ \E in \in TakeIn, gone \in SUBSET Proc :
          /\ careful => gone = {}
          /\ known' = in \ gone
          /\ \/ \E p \in Ready(known') : WorkOn(p)
             \/ Ready(known') = {} /\ Idle
    /\ clock' = clock + 1
    /\ UNCHANGED <<start, burst, diligent, careful>>

Spec == Init /\ [][Tick]_vars
=============================================================================
