--------------------------- MODULE PriorityQueue ---------------------------
(* A queue of at most Places numbers from which the largest is taken.  The *)
(* answer -1 stands for an empty or a full queue.                          *)
EXTENDS Integers

CONSTANTS Places, Key

VARIABLES
    queue,  \* how often the queue holds each number
    held,   \* how many numbers it holds
    result

Init == queue = [k \in Key |-> 0] /\ held = 0 /\ result = 0

Insert(key) ==
    IF held = Places
    THEN result' = -1 /\ UNCHANGED <<queue, held>>
    ELSE result' = 0 /\ held' = held + 1 /\ queue' = [queue EXCEPT ![key] = @ + 1]

Extract ==
    IF held = 0
    THEN result' = -1 /\ UNCHANGED <<queue, held>>
    ELSE /\ result' \in {k \in Key : queue[k] > 0}
         /\ \A k \in Key : queue[k] > 0 => k <= result'
         /\ held' = held - 1
         /\ queue' = [queue EXCEPT ![result'] = @ - 1]

Next == Extract \/ \E key \in Key : Insert(key)

Spec == Init /\ [][Next]_<<queue, held, result>>
=============================================================================
