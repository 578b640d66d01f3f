-------------------------------- MODULE Heap --------------------------------
(* my_calloc and my_free of the DOS OS exercise: one array, divided into   *)
(* blocks that carry a header each and are linked in both directions; next *)
(* fit from the last allocation; a block that is freed absorbs or is       *)
(* absorbed by the free blocks next to it.  Addresses and sizes of blocks  *)
(* are counted in words of eight bytes.                                    *)
EXTENDS Naturals, FiniteSets

CONSTANTS
    Words,      \* the size of the array
    Limit,      \* size_t counts bytes modulo Limit; 2^64 in the code
    Nmemb, Sizes, Fill,    \* bound: the arguments of my_calloc
    Null

Header == 3       \* sizeof(mem_block)
WordSize == 8
Addr == 0 .. Words - 1

ASSUME HeapAssumption ==
    /\ Words \in Nat /\ Words > Header
    /\ Limit \in Nat /\ Limit > Words * WordSize /\ Limit % WordSize = 0
    /\ Nmemb \subseteq Nat /\ Sizes \subseteq Nat
    /\ Null \notin Addr

VARIABLES
    block,   \* address of a header -> [next, prev, size, used]; used is the lowest bit of size
    last,    \* last_allocation
    data,    \* what memset has left in the words of used blocks
    asked,   \* the callers' side: each pointer they hold -> the words they may use
    ret      \* what the last call has returned

heapVars == <<block, last, data, asked, ret>>

\* A word of a header or of free memory; nobody reads it as data.
Junk == "junk"

\* my_calloc_init
HeapInit ==
    /\ block = [a \in {0} |-> [next |-> Null, prev |-> Null,
                               size |-> Words - Header, used |-> FALSE]]
    /\ last = 0
    /\ data = [w \in Addr |-> Junk]
    /\ asked = [p \in {} |-> 0]
    /\ ret = Null
-----------------------------------------------------------------------------
\* sizeToReserve in words; the product and the rounding wrap round.
Reserve(nmemb, size) ==
    ((((nmemb * size) % Limit) + (WordSize - 1)) \div WordSize) % (Limit \div WordSize)

\* Mutant: a block that is used is taken.
FitsUsed(b, need) == block[b].size >= need

Fits(b, need) == ~block[b].used /\ block[b].size >= need

Follow(b) == IF block[b].next # Null THEN block[b].next ELSE 0

\* The loop of my_calloc: from the last allocation round the list.
Search(need) ==
    LET seen[i \in 0 .. Words] == IF i = 0 THEN last ELSE Follow(seen[i - 1])
        Reached(i) == Fits(seen[i], need) /\ \A j \in 1 .. i : seen[j] # last
    IN IF \E i \in 0 .. Words : Reached(i)
       THEN seen[CHOOSE i \in 0 .. Words :
                    Reached(i) /\ \A j \in 0 .. i - 1 : ~Reached(j)]
       ELSE Null

Wiped(d, from, n) == [w \in Addr |-> IF w \in from .. from + n - 1 THEN Junk ELSE d[w]]

\* memset
Filled(d, b, n, c) ==
    [w \in Addr |-> IF w \in b + Header .. b + Header + n - 1 THEN c ELSE d[w]]

TakeWhole(b, c) ==
    /\ block' = [block EXCEPT ![b].used = TRUE]
    /\ data' = Filled(data, b, block[b].size, c)

\* Mutant: the block behind is not told of its new predecessor.
SplitForward(b, need, c) ==
    LET new == b + Header + need
    IN /\ block' = [a \in DOMAIN block \cup {new} |->
                      CASE a = new -> [next |-> block[b].next, prev |-> b,
                                       size |-> block[b].size - need - Header, used |-> FALSE]
                        [] a = b   -> [next |-> new, prev |-> block[b].prev,
                                       size |-> need, used |-> TRUE]
                        [] OTHER   -> block[a]]
       /\ data' = Filled(Wiped(data, new, Header), b, need, c)

Split(b, need, c) ==
    LET new == b + Header + need
    IN /\ block' = [a \in DOMAIN block \cup {new} |->
                      CASE a = new -> [next |-> block[b].next, prev |-> b,
                                       size |-> block[b].size - need - Header, used |-> FALSE]
                        [] a = b   -> [next |-> new, prev |-> block[b].prev,
                                       size |-> need, used |-> TRUE]
                        [] a = block[b].next -> [block[a] EXCEPT !.prev = new]
                        [] OTHER   -> block[a]]
       /\ data' = Filled(Wiped(data, new, Header), b, need, c)

TooSmallToSplit(b, need) == block[b].size < need + Header + 1

\* A caller whose product does not fit size_t gets some block; he can rely
\* on none of it.
Usable(nmemb, size) ==
    IF nmemb * size + WordSize - 1 < Limit
    THEN (nmemb * size + WordSize - 1) \div WordSize ELSE 0

\* my_calloc
Calloc(nmemb, size, c) ==
    LET need == Reserve(nmemb, size)
        b == Search(need)
    IN \/ /\ (nmemb * size) % Limit = 0 \/ b = Null
          /\ ret' = Null
          /\ UNCHANGED <<block, last, data, asked>>
       \/ /\ (nmemb * size) % Limit # 0 /\ b # Null
          /\ IF TooSmallToSplit(b, need) THEN TakeWhole(b, c) ELSE Split(b, need, c)
          /\ last' = b
          /\ ret' = b + Header
          /\ asked' = [p \in DOMAIN asked \cup {ret'} |->
                         IF p = ret' THEN Usable(nmemb, size) ELSE asked[p]]
-----------------------------------------------------------------------------
IsFree(b) == b # Null /\ ~block[b].used

\* Block a grows over the block behind it.
Absorb(bs, a) ==
    LET b == bs[a].next
    IN [x \in DOMAIN bs \ {b} |->
          CASE x = a -> [bs[a] EXCEPT !.size = @ + Header + bs[b].size, !.next = bs[b].next]
            [] x = bs[b].next -> [bs[x] EXCEPT !.prev = a]
            [] OTHER -> bs[x]]

\* The caller has given the pointer back.
Return(p) ==
    /\ asked' = [q \in DOMAIN asked \ {p} |-> asked[q]]
    /\ ret' = Null

\* my_free: first with the block behind, then with the one in front.
Free(p) ==
    LET b == p - Header
        n == block[b].next
        v == block[b].prev
        freed == [block EXCEPT ![b].used = FALSE]
        grown == IF IsFree(n) THEN Absorb(freed, b) ELSE freed
        position == IF IsFree(n) /\ last = n THEN b ELSE last
    IN /\ block' = IF IsFree(v) THEN Absorb(grown, v) ELSE grown
       /\ last' = IF IsFree(v) /\ position = b THEN v ELSE position
       /\ Return(p)
       /\ data' = Wiped(data, p, block[b].size)

HeapNext ==
    \/ \E nmemb \in Nmemb, size \in Sizes, c \in Fill : Calloc(nmemb, size, c)
    \* A caller gives back what he has got, and once.
    \/ \E p \in DOMAIN asked : Free(p)

HeapSpec == HeapInit /\ [][HeapNext]_heapVars
-----------------------------------------------------------------------------
HeapTypeOK ==
    /\ DOMAIN block \subseteq Addr
    /\ block \in [DOMAIN block -> [next : Addr \cup {Null}, prev : Addr \cup {Null},
                                   size : 0 .. Words, used : BOOLEAN]]
    /\ last \in Addr
    /\ data \in [Addr -> Fill \cup {Junk}]
    /\ DOMAIN asked \subseteq 0 .. Words /\ asked \in [DOMAIN asked -> 0 .. Words]
    /\ ret \in 0 .. Words \cup {Null}

End(b) == b + Header + block[b].size

\* The blocks cover the array without a gap and without overlapping, and
\* the links of both directions join neighbours.
Tiled ==
    /\ 0 \in DOMAIN block /\ block[0].prev = Null
    /\ \A b \in DOMAIN block :
          /\ End(b) <= Words
          /\ IF End(b) = Words THEN block[b].next = Null
             ELSE /\ block[b].next = End(b)
                  /\ End(b) \in DOMAIN block
                  /\ block[End(b)].prev = b
          /\ \A a \in DOMAIN block : a \in b + 1 .. End(b) => a = End(b)

\* A block that is freed is joined with the free blocks on both sides, so
\* that after the last call of my_free there is one block again.
Merged == \A b \in DOMAIN block :
    ~block[b].used => ~IsFree(block[b].next)

\* The search starts at a block and comes back to it.
LastIsBlock == last \in DOMAIN block

\* my_calloc fails only when no free block is large enough, and takes the
\* first one that is, counted from the last allocation round the array.
Distance(b) == IF b >= last THEN b - last ELSE b + Words - last

NextFit ==
    \A need \in 1 .. Words :
        LET fit == {b \in DOMAIN block : Fits(b, need)}
            b == Search(need)
        IN IF fit = {} THEN b = Null
           ELSE b \in fit /\ \A a \in fit : Distance(b) <= Distance(a)

\* What my_calloc and my_free rely on and promise at every call.
HeapSound == HeapTypeOK /\ Tiled /\ Merged /\ LastIsBlock /\ NextFit

\* Callers get memory of their own that nobody changes.
Callers == INSTANCE Allocator WITH Size <- Sizes,
    live <- [p \in DOMAIN asked |-> [i \in 0 .. asked[p] - 1 |-> data[p + i]]]

ImplementsAllocator == Callers!Spec
=============================================================================
