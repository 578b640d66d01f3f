---------------------------- MODULE MCStructures ----------------------------
(* The sequential components of the repository side by side.  A behaviour  *)
(* uses one of them and leaves the others as they are in the beginning, so *)
(* their state spaces add up and do not multiply.                          *)
EXTENDS RingBuffer, Heap, Mmu, MaxHeap, PhoneBook, BookList, RpnStack,
        Programs, PacketCodec

Component == {"ring", "heap", "mmu", "maxheap", "book", "list", "rpn", "sort", "loops", "codec"}

VARIABLE used

\* All but the used component are in one initial state.
Idle(c) == used # c

StructuresInit ==
    /\ used \in Component
    /\ Init /\ (Idle("ring") => buffer = [i \in Pos |-> CHOOSE b \in Byte : TRUE])
    /\ HeapInit
    /\ MmuInit /\ (Idle("mmu") => pte = CHOOSE t \in PageTables : TRUE)
    /\ MaxHeapInit /\ BookInit
    /\ ListInit /\ (Idle("list") => keepsSorted)
    /\ RpnInit
    /\ SortInit /\ (Idle("sort") => algorithm = "merge" /\ len = 0)
    /\ LoopInit /\ (Idle("loops") => depth = 1 /\ bound = 0)
    /\ CodecInit /\ (Idle("codec") => packet = DataPacket(<<>>, <<>>))

Only(c) == used = c /\ UNCHANGED used

StructuresNext ==
    \/ Only("ring") /\ Next
         /\ UNCHANGED <<heapVars, mmuVars, maxHeapVars, bookVars, listVars, rpnVars, sortVars, loopVars, codecVars>>
    \/ Only("heap") /\ HeapNext
         /\ UNCHANGED <<vars, mmuVars, maxHeapVars, bookVars, listVars, rpnVars, sortVars, loopVars, codecVars>>
    \/ Only("mmu") /\ MmuNext
         /\ UNCHANGED <<vars, heapVars, maxHeapVars, bookVars, listVars, rpnVars, sortVars, loopVars, codecVars>>
    \/ Only("maxheap") /\ MaxHeapNext
         /\ UNCHANGED <<vars, heapVars, mmuVars, bookVars, listVars, rpnVars, sortVars, loopVars, codecVars>>
    \/ Only("book") /\ BookNext
         /\ UNCHANGED <<vars, heapVars, mmuVars, maxHeapVars, listVars, rpnVars, sortVars, loopVars, codecVars>>
    \/ Only("list") /\ ListNext
         /\ UNCHANGED <<vars, heapVars, mmuVars, maxHeapVars, bookVars, rpnVars, sortVars, loopVars, codecVars>>
    \/ Only("rpn") /\ RpnNext
         /\ UNCHANGED <<vars, heapVars, mmuVars, maxHeapVars, bookVars, listVars, sortVars, loopVars, codecVars>>
    \/ Only("sort") /\ SortNext
         /\ UNCHANGED <<vars, heapVars, mmuVars, maxHeapVars, bookVars, listVars, rpnVars, loopVars, codecVars>>
    \/ Only("loops") /\ LoopNext
         /\ UNCHANGED <<vars, heapVars, mmuVars, maxHeapVars, bookVars, listVars, rpnVars, sortVars, codecVars>>
    \/ Only("codec") /\ CodecNext
         /\ UNCHANGED <<vars, heapVars, mmuVars, maxHeapVars, bookVars, listVars, rpnVars, sortVars, loopVars>>

StructuresSpec ==
    StructuresInit /\ [][StructuresNext]_<<used, vars, heapVars, mmuVars, maxHeapVars,
                         bookVars, listVars, rpnVars, sortVars, loopVars, codecVars>>
-----------------------------------------------------------------------------
\* Every right there is, and a page that is not in the memory; entry 4 is
\* behind the two tables of two pages.
Pte(perm, page, present) ==
    [perm |-> perm, page |-> page, present |-> present, accessed |-> FALSE, modified |-> FALSE]

MCPageTables ==
    {[i \in 0 .. 4 |-> CASE i = 0 -> Pte({"READ"}, 2, TRUE)
                         [] i = 1 -> Pte({"READ", "WRITE"}, 3, TRUE)
                         [] i = 2 -> Pte({"EXECUTE"}, 4, TRUE)
                         [] i = 3 -> Pte(Right, 5, FALSE)
                         [] i = 4 -> Pte({}, 6, TRUE)],
     [i \in 0 .. 4 |-> CASE i = 0 -> Pte(Right, 2, TRUE)
                         [] i = 1 -> Pte({}, 3, TRUE)
                         [] i = 2 -> Pte({"READ", "WRITE"}, 4, TRUE)
                         [] i = 3 -> Pte({"EXECUTE"}, 5, TRUE)
                         [] i = 4 -> Pte(Right, 6, TRUE)]}

\* Bound: keys of at most 3 bytes and values of at most 15, which is all that
\* key_len and value_len can say of bytes of one bit; the sum of the two may
\* be more than value_len holds.  The fields of a control packet take every
\* value of two bytes; the address has bytes that are different, all zero or
\* all full.
MCPackets ==
    {DataPacket([i \in 1 .. k |-> i % ByteBase], [i \in 1 .. v |-> (i + 1) % ByteBase]) :
        k \in 0 .. 3, v \in 0 .. 15}
      \cup {CtrlPacket(hash, id, ip, port) :
                hash \in 0 .. 3, id \in 0 .. 3, ip \in {0, 1, 8, 15}, port \in 0 .. 3}
=============================================================================
