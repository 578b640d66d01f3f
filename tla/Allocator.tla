----------------------------- MODULE Allocator -----------------------------
(* What a caller of my_calloc and my_free relies on: memory that is his    *)
(* alone, as much as he asked for, filled with the byte he named, *)
(* and untouched until he gives it back.                                   *)
EXTENDS Naturals

CONSTANTS Words, WordSize, Limit, Nmemb, Size, Fill, Null

VARIABLES
    live,   \* pointer -> contents of the words asked for
    ret     \* what the last call has returned

Init == live = [p \in {} |-> {}] /\ ret = Null

Extent(p, n) == p .. p + n - 1

Disjoint(p, n) ==
    \A q \in DOMAIN live : \A i \in DOMAIN live[q] : q + i \notin Extent(p, n)

Refuse == ret' = Null /\ UNCHANGED live

Grant(p, n, c) ==
    /\ ret' = p
    /\ p + n <= Words /\ p \notin DOMAIN live /\ Disjoint(p, n)
    /\ live' = [q \in DOMAIN live \cup {p} |->
                  IF q = p THEN [i \in 0 .. n - 1 |-> c] ELSE live[q]]

Free(p) ==
    /\ live' = [q \in DOMAIN live \ {p} |-> live[q]]
    /\ ret' = Null

\* A number of bytes that size_t cannot hold is granted as none.
WordsFor(bytes) ==
    IF bytes + WordSize - 1 < Limit THEN (bytes + WordSize - 1) \div WordSize ELSE 0

Next ==
    \/ Refuse
    \/ \E p \in DOMAIN live : Free(p)
    \/ \E p \in 0 .. Words, nmemb \in Nmemb, size \in Size, c \in Fill :
          Grant(p, WordsFor(nmemb * size), c)

Spec == Init /\ [][Next]_<<live, ret>>
=============================================================================
