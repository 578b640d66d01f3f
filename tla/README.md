# A verification project for the programs of this repository

The repository holds the exercises of four courses. Two of them make up a
distributed system: the peers of "Rechnernetze und Verteilte Systeme", project 2
(a distributed hash table on a fixed Chord ring) and project 3 (the same ring,
which peers join while it runs), with the poll loop, the ring buffer and the
packet codec both are built on. Beside them stand an HTTP server (project 1), a
process scheduler, a heap allocator and a memory management unit, and the
programs of the programming course. The modules here model them, TLC checks
them on small instances, and TLAPS proves what matters most for instances of any
size.

Paths are shortened: P1, P2 and P3 stand for
`src/Rechnernetze und Verteilte Systeme/Projekt N/Submission/RN-PraxisN-0.1.1-Source`,
SCH for `src/Systemprogrammierung/Scheduler/submission/submission/src`, DOS for
`src/Systemprogrammierung/DOS OS/submission/src`, EIDP for
`src/Einführung in die Programmierung`.

## 1. Inventory

### Chord peer with a fixed ring (P2 `src/peer.c`, `requests.c`, `hash_table.c`, `neighbour.c`)

*State.* The peer itself, its predecessor and its successor, all three from the
command line and never changed; the table `ht` from keys to values; the request
table `rt` from hashes to the open requests (socket and packet of each client).

*Operations.* `handle_packet` gets every complete packet. A request (GET, SET,
DELETE) is answered here when the peer owns the key's hash, passed to the
successor when that one does (`proxy_request`), and otherwise put into `rt`
while a LOOKUP packet starts its way round the ring (`lookup_peer`). A LOOKUP is
answered with a REPLY to the peer that asked, or forwarded. A REPLY passes every
open request of its hash on to the peer it names and clears the entry.

*Interaction.* Every packet travels on a TCP connection of its own.
`proxy_request` is a blocking exchange within the handler: connect, send, wait
until the other side has answered and closed, send the answer to the client.

*Hard.* Peers that proxy to each other at the same time; replies that serve
requests whose own lookup is still under way; a peer that is not started yet; the
arc of hashes that crosses zero.

*Correct when* a lookup is answered before it reaches the owner, a request is
passed on to the owner and nobody else, no open request is forgotten, every
request takes effect at most once on one common table, and every client is
answered.

### Chord peer that joins at run time (P3 `src/peer.c`, `neighbour.c`)

*State.* As above, but predecessor and successor are pointers that start as NULL.

*Operations.* Those of project 2, and: a peer that is given a host sends it a
JOIN and then begins to listen. A JOIN is forwarded to the peer that owns the
newcomer's identifier; that one takes it for its predecessor and answers with
NOTIFY. A thread of its own sends STABILIZE to the successor every two seconds;
the successor answers with a NOTIFY that names its predecessor, which the sender
takes for its successor if it is closer. FINGER starts lookups for the distances
2^i. A client that cannot be served is closed.

*Hard.* Joins that overlap; packets and requests that meet NULL pointers; NOTIFYs
and REPLYs that are out of date when they arrive; peers that are not listening
yet; SIGPIPE; keys whose peer changes; the thread and the poll loop sharing
`succ->socket` and the list of connections without a lock.

*Correct when* no peer crashes, no hash has two owners, there is one circle of
successors in the order of the identifiers, the ring comes to rest with
everybody in place, and clients that come meanwhile see one table.

### Poll loop (`server.c`, `requests.c` of P2 and P3)

*State.* A linked list of client objects, each with a socket, a decoder state
and buffers for header and body; the array given to `poll`; the open requests,
which hold sockets.

*Operations.* Fill the array, poll, walk list and array side by side and let each
readable client decode; a complete packet goes to the callback, whose result
says whether the client stays or is removed; a REPLY marks the clients of the
open requests (`server_close_socket`); after the walk the marked clients are
removed, then one connection is accepted.

*Hard.* Removal during the walk; descriptor numbers that are used again; `recv`
for a client that is marked; `n_clients` shrinking under the walk; the second
thread's insertion at the front of the list.

*Correct when* the walk stays on the list, each decoder sees its own
connection's bytes, answers go to those who asked, and connections are removed
in the end.

### Ring buffer and packet codec (`util.c`, `packet.c` of P2 and P3)

*Ring buffer.* An array one byte longer than the capacity, a read and a write
position. Correct when it is a first-in-first-out queue of exactly the capacity
asked for: the poll loop takes a packet for complete when `rb_can_write()` is 0.

*Codec.* `packet_serialize` and `packet_decode`, bytes in network order, a header
with the lengths of key and value. Correct when what arrives whole is decoded to
what was sent; hard are packets that have been cut off.

### Web server (P1 `webserver.c`)

*State.* One connection at a time, a buffer that collects what has been received,
a table of 100 resources, the first of which are static.

*Operations.* Accept; receive until the buffer ends with an empty line; take the
request apart; answer, for PUT and DELETE of a dynamic path after receiving the
body; empty the buffer.

*Hard.* The buffer outlives the connection; a row outlives its content; checks
come after effects; the table is full.

*Correct when* the static resources stay, the table has one row for a path, every
request has the effect and gets the answer that its method promises.

### Process scheduler (SCH)

*State.* The processes with their remaining time, the running one, a queue (four
with MLF), the counters of the strategies, the schedule so far.

*Operations.* `scheduler` computes the number of ticks in advance and calls one of
seven strategies at every tick: FCFS, LCFS, RR, PRIOP, SRTNP, HRRN, MLF.

*Hard.* Simultaneous arrivals, gaps in which nobody is there, the tick in which a
quantum ends and a process arrives, the last level of MLF, the number of ticks.

*Correct when* nobody is lost or doubled, all work is done when the loop ends, and
each strategy runs whom its rule names (HRRN up to the whole-number
division of its ratios).

### Heap allocator and memory management unit (DOS `calloc.c`, `mmu.c`)

*Allocator.* One array divided into blocks with headers, linked in both
directions; next fit from the last allocation, splitting, merging with both
neighbours. Correct when the blocks tile the array, free neighbours are merged,
and callers get memory of their own. *Hard*: what is left over after a split, the
last allocation being merged away, the product that overflows.

*MMU.* Page tables one behind the other, a base register, rights, the accessed
and modified bits. Correct when a process reaches its own entries and frames
only, and the bits tell what has been used.

### Programming course (EIDP)

Insertion sort, count sort, merge sort (iterative and recursive), two of them and
three nested loops with a counter of commands; a binary heap; a search tree as a
telephone book; two lists of books; a stack calculator. Sequential programs; hard
are their boundaries (empty, one element, equal elements, uneven halves).

### The others

| component | what it is |
|---|---|
| command line client (`client.c` of P2 and P3) | one connection, one request, one answer |
| uthash | third-party hash map in a header, the same file four times |
| templates (`Vorgabe`) | what the submissions were developed from |
| tests and build files | read for what they expect; build directories are generated |

## 2. Modules

| module | models | kind |
|---|---|---|
| `Responsibility` | `peer_is_responsible`, the two versions | operators |
| `DhtStore` | what the fixed table promises its clients | abstract specification |
| `StaticRing` | the peers of project 2 together with clients and network | detailed specification |
| `MCStaticRing` | a ring of three peers and one of two | instances for TLC |
| `StaticRingProofs` | `StaticRing`: types, who receives what, open requests have a lookup, only circles block, and it implements `DhtStore` | proofs |
| `JoinRing` | the peers of project 3, their joining and lookups | detailed specification |
| `MCJoinRing` | three or four peers on a circle of eight | instances for TLC |
| `OwnedStore` | what the table promises while the ring changes | abstract specification |
| `DynamicTable` | `JoinRing` with the requests of clients for keys | detailed specification |
| `DynamicTableProofs` | `JoinRing`: one circle, one owner, no crash, right replies; `DynamicTable`: the same with keys, requests are kept, and it implements `OwnedStore` | proofs |
| `MCDynamicTable` | the same circle with a key and two requests | instances for TLC |
| `ServerLoop` | `server_run` with the list, the decoders and the callbacks' effects | detailed specification |
| `MCServerLoop` | what comes on each of two or three connections | instances for TLC |
| `ServerLoopProofs` | `ServerLoop`: the walk stays on the list, answers go to who asked | proofs |
| `ByteFifo` | a bounded queue of bytes | abstract specification |
| `RingBuffer` | the ring buffer of `util.c` | detailed specification |
| `PacketCodec` | `packet_serialize`, `packet_decode` | detailed specification |
| `ResourceStore` | a table of resources, one request at a time | abstract specification |
| `WebServer` | the loops of project 1's `main` with its clients | detailed specification |
| `MCWebServer` | the requests of polite and impolite clients | instances for TLC |
| `WebServerProofs` | `WebServer`: the table's rows, and that it implements `ResourceStore` | proofs |
| `Processor` | one processor that is never idle without need | abstract specification |
| `Scheduler` | the tick loop, the queue, the seven strategies | detailed specification |
| `SchedulerProofs` | `Scheduler`: queues, strategies, the end of the loop, and that it implements `Processor` | proofs |
| `Allocator` | memory that is a caller's alone | abstract specification |
| `Heap` | `my_calloc`, `my_free` | detailed specification |
| `Mmu` | `mmu_check_request` and what it calls | detailed specification |
| `PriorityQueue`, `PhoneTable` | how often each number is held, and the largest taken; names by number | abstract specifications |
| `MaxHeap`, `PhoneBook`, `BookList`, `RpnStack` | the data structures of the programming course | detailed specifications |
| `Sorting`, `CountedLoops` | its sorting programs and counted loops | detailed specifications |
| `Programs` | both side by side, and what they are said to show | composition |
| `StructureProofs` | `RingBuffer`, `Heap`, `Mmu`, `PacketCodec`, and that two of them implement `ByteFifo` and `Allocator` | proofs |
| `CourseProofs` | `BookList`, `Programs`, `RpnStack`, `PhoneBook`, `MaxHeap`, and that the last two implement `PhoneTable` and `PriorityQueue` | proofs |
| `Recursion` | the lemmas that take the place of induction | proofs |
| `MCStructures` | the sequential components side by side | composition, instances for TLC |

`StaticRing` and `DynamicTable` take a packet as something that arrives complete;
`ServerLoop` shows how the loop makes complete packets out of portions of bytes
and what the callbacks do to its list; `PacketCodec` and `RingBuffer` show the
bytes below that. Operators whose comment begins with "Mutant" are faulty variants
of the operator below them and no part of a specification. Each property of a
run is known to fail when a certain operator is replaced by such a variant.

### StaticRing and the code

`up` are the peers that have reached `server_setup`, `late` those that had not from
the start, `dht[p]` is `ht`, `rt[p][h]` the list `rt` keeps for a hash, `inbox[p]` the
packets on the connections `p` has accepted or will accept, `cmd[r]` and `rsp[c]` what
was sent forth and back on a connection. `job[p]` is the handler's remaining work
while it is in `proxy_request` or between two of them: `waiting` is true while
`recvall` blocks. A handler that does not proxy is one step. A handler that proxies
is one step up to `recvall`, one when the answer has come, and for a REPLY with
several open requests one more before each further `proxy_request`, because other
peers act meanwhile.

- `Issue`, `Start`: a client connects; a peer begins to listen.
- `HandleOwnRequest`, `ProxyToSucc`, `LookUpPeer`: the branches of
  `handle_packet_data`. GET, SET and DELETE differ in `Stored` and `AnswerTo`.
- `HandleLookup`, `HandleReply`: the branches of `handle_packet_ctrl`.
- `ProxyNext`, `ProxyDone`, `Advance`: the loop over the open requests.
- `Run(p)`: the poll loop takes one packet, or the blocked handler goes on.

Waiting packets are a set since the order in which the loop meets them depends
on when their bytes arrive. `connect` succeeds when the other side listens, even
if its thread is blocked; a failure is ignored where the code ignores it, and a
REPLY's loop closes the client when it cannot connect.

### JoinRing, DynamicTable and the code

`phase`: "off"; "joining" from the JOIN to the end of `server_setup`; "up";
"dead" after a NULL pointer or SIGPIPE. `pred` and `succ` are the pointers,
`inbox` the packets. The actions bear the names of the branches in
`handle_packet_ctrl`; `Stabilize` is one round of the thread. The variable
`setting` says how the ring is used and is chosen in the beginning: which peers are
started, which are sent a FINGER packet, whether peers may be started while
the ring is still changing (`overlap`), whether a peer is pointed at one that listens and
listens itself before its JOIN is handled (`prompt`), and whether clients send requests for
keys (`asks`). `join` does not look at what `connect_socket` returns, so `SendJoin` may
name a peer that does not listen; the JOIN is lost then and the newcomer goes on.

`DynamicTable` extends `JoinRing` by `dht`, `rt`, `calls` (requests that have arrived),
`job`, `cmd` and `rsp`, as in `StaticRing`. `RingStep` is a step of `JoinRing`'s: a peer
whose poll loop is blocked in `proxy_request` takes no packet (`Served`), while its
thread goes on; a peer that ends takes its connections along (`HangUp`): those
whose request it has read and not answered (`Held`) are closed, the others are reset.
`rt` keeps the requests of a hash until the loop over them has ended, so those of the hash
that `job` is about (`Loops`) count as held only as far as the loop still has them to do.
A peer names its own connection by the request, and may open it a second time when
a request comes back to it; nothing has come back on it then (`Connect`). `CallCrash` is a request
that meets a NULL pointer. `recvall` keeps `recv`'s -1 in a `size_t`, which is what
`Received` says: after a reset, what is relayed to the client is no answer. The
lookups of different requests are told apart by a `tag` that no step reads, because
equal packets at a peer are one packet of the model.

### ServerLoop and the code

`clients` is the list, `sock`, `cstate`, `pack` the fields of the client objects,
`fdt` the process's descriptor table (lowest free number first, as in POSIX), `fds`
and `revents` the array, `pc` the place in `server_run`, `cur` the loop's index and
client. A portion is a header, a body or the end of a connection. The actions
follow the loop: `Fill`, `Poll`, `Walk` (one action for each thing that can happen to
a client: `Skip`, `RecvHeader`, `RecvEof`, `RecvMarked`, `RecvGarbage` and the four
deliveries), `WalkDone`, `Sweep`, `Accept`. `Prepend` is the insertion by project 3's
`stabilize`. `Removed(c)` is `server_remove_client`: what the list has no longer is
left alone, as in the code's early return; `Sweep` removes one marked client in a step,
from the front. `setting` says which connections are made at all and which clients may
hang up without waiting. `ReadPastArray` is the walk, or the call of `poll`, behind the end
of an array that was allocated before the thread's insertion; where no event is found there,
`Skip` is what follows. `RecvMarked`, `RecvGarbage` and `ReadPastArray` end in "dead":
in the first a buffer is NULL, in the others what follows depends on bytes
that belong to something else.

### The other modules and the code

- `WebServer`: `pc` is the call the thread is in (`accept`, the `recv` of a
  request, the `recv` of a body), `buffer` is `all_buffer`, `path` and `payload` the
  table. A request is a line, the header with the length, the empty line and the
  characters of the body; a `recv` returns any part of what has arrived. Clients are
  polite (they finish what they begin, give every body its length and wait) or
  not; what a behaviour's clients are like is chosen in the beginning. With a full table
  the row is the one before the first, and the thread is in "undefined".
- `Scheduler`: a step is one pass of `scheduler`'s loop, with the strategy's `_tick` and
  `_new_arrival` as one action for each strategy. Processes, bursts, priorities and the
  strategy are chosen in the beginning. "crashed" is the use of a NULL pointer.
- `Heap`: `block` maps the address of each header to its fields, `last` is
  `last_allocation`, `asked` what callers hold. Addresses are counted in words; the
  product of `my_calloc`'s arguments wraps as `size_t` does. `my_free` is called with
  pointers that callers hold.
- `Mmu`: `pte` is the memory read as page table entries, `ptbr` the base,
  `CheckRequest` one call of `mmu_check_request`.
- `PacketCodec`: one packet is serialized, arrives whole or in part, and is decoded;
  bytes are digits to the base `ByteBase`.
- `MaxHeap`, `PhoneBook`, `BookList`, `RpnStack`: each function of the program that
  changes the structure is an action. `Sorting`: a pass of the outer loop is a step (the
  recursive merge sort is one step). `CountedLoops`: a run of a loop's body is a step.
- `MCStructures` composes the sequential components: a behaviour uses one of them,
  chosen in the beginning, and leaves the others alone, so their states add up.

## 3. What is checked

| run | instance | states | shows |
|---|---|---|---|
| `static_ring_safety` | 3 peers, 3 keys with 2 hashes (2 collide, 1 across zero), 3 requests at once at any peer, all peers listening or one started late | 780,963 | types; `NoLookupAtOwner`, `ProxiedToOwner`, `OpenRequestsHaveLookup`, `OnlyCirclesBlock`; `RingImplementsTable`: `StaticRing` implements `DhtStore` |
| `static_ring_gateway` | 3 peers, 2 overlapping requests at one peer, fair | 2,691 | `Answered` |
| `static_ring_parallel` | 2 peers, a request at each, fair | - | `Answered` is violated |
| `join_ring_safety` | 4 peers one after the other with a FINGER packet; 3 peers in any overlap, late listening or pointed at a peer that does not listen, with a FINGER packet; 3 peers one after the other with 2 requests at any moment | 441,711 | `WellFormed`, `NoCrash`, `OneOrderedRing`, `RepliesNameOwner`, `AtMostOneOwner`, `RequestsKept`; `RingImplementsStore`: `DynamicTable` implements `OwnedStore` |
| `join_ring_converge` | 4 peers, one after the other at the founder, fair | 46,290 | `Converges` |
| `join_ring_lost` | 3 peers, two joins overlap, fair | - | `Converges` is violated |
| `server` | a request served at once, one that is looked up, its REPLY, fair; a client that may hang up beside the thread's connection | 26,228 | `WellFormed`, `NoCrash`, `OpenSocketsAreAskers`, `EveryRequestAnswered`, `EveryConnectionRemoved` |
| `server_thread` | a request and the thread's connection | - | `OwnBytesOnly` is violated |
| `scheduler` | 4 processes with all arrivals, bursts and priorities, each strategy | 1,047,568 | `WellFormed`, `EndsAsPlanned`, `StrategyKept`, `PickRanksFirst`; `ImplementsProcessor` |
| `web_server` | 2 clients, polite or not, 4 requests, a table of 3 rows, fair | 1,646,829 | `WellFormed`, `StaticKept`, `EveryRequestAnswered`; `ImplementsStore` |
| `web_bare` | 2 clients that delete without a body, 2 requests | - | `CompleteIsAnswered` is violated |
| `structures` | the sequential components on small inputs | 97,689 | see below |

`structures` has one property or two for each of its components:

- ring buffer: `Capacity`, and `ImplementsFifo` for `ByteFifo`;
- packet codec: `DecodesWhatWasSent`, for packets that arrive whole or cut off;
- allocator: `HeapSound` (types; the blocks tile the array; free neighbours are
  merged; `last_allocation` is a block; the search takes the next fit and fails only
  when nothing fits), and `ImplementsAllocator` for `Allocator`;
- memory management unit: `KeepsToOwnTable`;
- heap, telephone book, lists, calculator: `ImplementsQueue`, `ImplementsTable`,
  `ListSound`, `AnswersValue`;
- sorting programs and counted loops: `ProgramsDeliver` (the output is the input in
  order; the counters follow the input's inversions and the depth of the loops).

Some properties are conjunctions of named parts, which stand above them in the
module: `WellFormed` of `JoinRing` (types; no peer is its own neighbour), of `ServerLoop`
(types; the walk stands on the list), of `Scheduler` (types; nobody lost or doubled) and
of `WebServer` (types; one row for a path, empty rows are empty); `EndsAsPlanned`,
`StrategyKept`, `HeapSound`, `ListSound`, `ProgramsDeliver`.

`AtMostOneOwner` and `RingImplementsStore` say nothing of what follows the early end of
a newcomer (`EndedEarly`): a request can end a peer whose JOIN is still on its way, the
ring then counts as settled, the next peer is started, and if that one receives the dead
peer's JOIN before it knows a neighbour it acts as a founder would. That takes four peers
and a request, more than the run's third setting has; it was found while looking for the
inductive invariant, and the two properties had claimed too much until then.

### Bounds

*Peers.* Three peers on a circle are the smallest ring with a peer that is
neither oneself nor a neighbour of the owner on both sides, so every branch
(own, successor's, lookup answered at the first or a later peer) is taken; the
arc of the lowest identifier crosses zero. Two keys with one hash and three
requests let a REPLY serve requests whose own lookup is still under way and a
later REPLY find none; three requests are what a circle of three waiting peers takes.
With four peers a JOIN is forwarded over two hops, and newcomers arrive before,
between and behind the others. In the third setting of `join_ring_safety` the key's
hash changes its peer once; what one peer is asked for it serves or passes on, what the
other is asked it looks up, so that a REPLY can be out of date and a proxied request
can arrive at a peer that is no longer responsible.

*Poll loop.* Three connections are enough for a REPLY, the request it belongs to
and a bystander whose connection is accepted in the same round.

*Structures.* The ring buffer's calls are longer than its capacity, so each can
wrap, fill and overfill it. Packets have bytes of one bit, keys of up to 3 and values of up to
15 bytes, all that the two lengths can say; their sum can wrap, as a `uint32_t` does. The heap has 16 words with headers of 3, room for four
blocks; a caller asks for nothing, one word, two words, more than there is, and a size
that overflows. Two page tables lie one behind the other and an address reaches one entry
beyond them. The binary heap has two full levels and half of a third; arrays to be
sorted have up to five elements, so merges have uneven halves and missing ones. Five
tokens and the end of a line make up expressions of depth two and all lines that are
none.

*Scheduler.* Four processes can arrive together, overlap, and leave gaps; a burst
is shorter than a quantum or twice as long, and with two levels of MLF it fits below
the last one or does not.

*Web server.* Three rows are filled by the static resource and two others. What
polite clients store is as wide as a row (see section 4), and four requests suffice to
store, replace, delete and read.

The client requests of `static_ring_safety` and of `join_ring_safety` are
interchangeable and symmetry is used there; no run with a liveness property uses it.
Deadlock is not checked: programs and finite numbers of requests come to an end, and
the waiting that is a fault is stated as a property (`OnlyCirclesBlock`, `Answered`,
`EveryRequestAnswered`).

### Fairness

- `StaticRing`: each peer's thread goes on when it can (`Run(p)`); a thread
  blocked in `recvall` is not enabled until the other side has answered. `Blocked(p)` says
  by itself, without ENABLED, what that comes to: the thread is in `poll` with nothing to
  read, or in `recvall` with nothing come back.
- `JoinRing`: a process that has sent its JOIN comes to listen, each thread keeps its
  rounds, and the poll loop serves every connection that is readable - it polls all of
  them and walks the whole list, so no packet is passed over for ever. Joining,
  FINGER packets and founding are not fair.
- `ServerLoop`: the loop runs, a far end that has begun to send sends all of its packet,
  and each lookup has a REPLY that connects; clients connect and hang up when they
  like, never under an obligation.
- `WebServer`: the thread runs, and polite clients end the connection when they have
  nothing more to ask. The server serves one connection at a time, so a client that keeps
  its connection would lock out all others; with impolite clients nothing is fair.

## 4. Disagreements with the tests and comments

- **Waiting in a circle** (`static_ring_parallel`, P2 `peer.c:66`). `proxy_request` blocks
  the only thread. Two peers that proxy to each other wait for ever. By
  `OnlyCirclesBlock` this is the only way a request stays unanswered while all
  peers listen; `static_ring_gateway` has overlapping requests at one peer and does not meet it.
- **A predecessor that is never corrected** (`join_ring_lost`, P3 `peer.c:332`). A STABILIZE
  sets a predecessor only where there is none. When two peers join at the same time, one
  JOIN can be forwarded to the other newcomer, which has two NULL pointers and acts as
  the founder of a ring would. In the end the successors form the right circle, but a
  peer keeps a predecessor that is not the one before it, and two peers claim the same
  hashes.
- **Another connection's bytes** (`server_thread`, P3 `server.c:182`). The walk pairs list
  and array by counting. A connection that the thread puts at the front while the loop
  waits in `poll` shifts the list against the array.
- **A complete request without an answer** (`web_bare`, P1 `webserver.c:93`). A DELETE of a
  dynamic path without a Content-Length makes `recv` ask for no bytes; its result 0 is
  taken for an error, the connection is left open, and the request stays in the buffer,
  where the next connection's first request is read as its continuation.

More was met while modelling. The models have these steps; the settings choose
environments without them, or the properties exclude them by name, where something
else could not be said otherwise.

*Peers of project 3.* A JOIN handled before its sender listens leaves the sender without
a successor, since the NOTIFY is dropped (`peer.c:592`; `prompt`). A peer pointed at one that
does not listen is not told: the failed connection is taken for a good one, and the peer
listens with no neighbours, as the founder of a ring of its own (`peer.c:430`; `overlap`
without `prompt`). A JOIN, LOOKUP, FINGER
packet or key request at a peer that does not know its predecessor ends that peer
(`peer.c:305`; `overlap`); so does any key request to a founder that is still alone, and one
that reaches a newcomer before the STABILIZE that gives it a predecessor. A peer whose
successor has ended is ended by SIGPIPE in its thread's next round, and the next one by
that (`peer.c:477`). FINGER sends lookups without asking who is responsible, so the branch
commented "This should not happen!" is taken (`peer.c:255`). A REPLY that is out of date
can name the very peer that asked: that peer passes the open requests on to itself and
waits for itself for ever (`peer.c:269`), with nobody dead and joins one after the other;
`RequestsKept` counts such a request as held, not as answered. A peer that ends resets
the connections it has not read; whoever proxied to it sends its client other memory,
since `recvall` counts -1 as a length (`util.c:51`).

*Poll loop.* The number of a socket whose client has hung up is used again, and the
REPLY's answer goes to the new owner of the number (P2 `peer.c:254`; `impatient`).
After the thread's insertion the list is longer than the array, and `poll` or the
walk goes past the array's end (P3 `server.c:169-182`; `ReadPastArray`, possible in the settings
in which the thread inserts).

*Codec.* The body's length is compared with a length that includes the header, so a
packet that has lost up to a header's length of its body is decoded from what lies behind
it (`packet.c:173`; `overread`). `packet_body_size` adds the two lengths as 32-bit numbers, so
that a packet of 4 GB or more passes the test with any part of it (`packet.c:40`).

*Web server.* A shorter content does not replace the end of a longer one, so polite
clients of the model store contents of one length in a row (`webserver.c:190`). With a full table
a PUT writes before its first row (the model stops in "undefined"). The version of a
request is checked when it has had its effect (`webserver.c:226`). A body whose path is
not dynamic is not received when the method is DELETE, and is read as the next request.

*Scheduler.* Of two processes that arrive in the same tick one is never admitted
(`scheduler.c:100`). LCFS, HRRN and MLF use a NULL pointer in a tick without processes, PRIOP
lets a tick pass without work when nobody waits, and MLF loses or crashes on a process
that has used up the last level (`MLF.c:28`). `EndsAsPlanned` says that these are all.
HRRN does not always run the highest response ratio. The header declares the ratio a
`float` (`lib/HRRN.h:11`), but `HRRN.c:70` compares quotients of whole numbers, and among equal
quotients the newest process is taken. Of two processes with bursts of 4 that arrived at 1 and 2
and wait for one that ends at 4, the second runs, although its ratio is 6/4 and the first one's
7/4. `PickRanksFirst` compares the exact ratios and says how far this goes: nobody's
is higher by one or more than that of the process picked.

*Allocator and MMU.* A size that overflows gives a block smaller than what was asked
for (`calloc.c:44`); the model's caller relies on none of it (`Usable`), and `Allocator` grants
such a caller no words. An address past
the end of a process's table reads the table behind it (`mmu.c:36`).

*Programming course.* Printing an empty telephone book reads through NULL
(`introprog_telefonbuch.c:96`; `crashed`). Books with equal ISBNs come in either order, where the
comment of `insert_sorted` (lines 32-36) asks for the position before the first larger
one; `ListSound` asks for the order of the ISBNs only.

## 5. What is proved

All theorems hold for every value of the constants that the modules' assumptions
allow, and are checked by TLAPS down to the last step. They state every safety property that a
run checks: invariants, action properties and refinements. Liveness stays with TLC.

### The fixed ring

*Assumptions.* `RingAssumption`: there is a peer, predecessor and successor are inverse
to each other, identifiers and hashes are numbers. `OrderAssumption`: nobody's identifier
lies in the arc of another peer, which is what a correctly configured ring is; `peer.c`
takes its neighbours from the command line and relies on it. `SentinelAssumption`:
sentinels are no peers, commands or answers. The number of peers, keys and requests is
arbitrary. The theorems that say who owns a hash use all three, the others the first and the last.

- `TypeCorrect`: `Spec => []TypeOK`.
- `LookupsStopBeforeOwner`: `Spec => []NoLookupAtOwner`. The branch of `peer.c:240` is dead.
- `ProxiesReachOwner`: `Spec => []ProxiedToOwner`.
- `OpenRequestsAreSought`: `Spec => []OpenRequestsHaveLookup`. If all peers listen from the
  start, a hash with open requests is being looked up, answered, or served.
- `OnlyCirclesStop`: `Spec => []OnlyCirclesBlock`. If all peers listen and none can go on while a
  client waits, some peers wait for each other in a circle.
- `RingIsOneTable`: `Spec => RingImplementsTable`, the refinement of `DhtStore`.

The inductive invariant `IInv` adds to `TypeOK` that every packet concerns its receiver
(`InboxOK`: a request from a peer has reached its owner, a lookup has not, a REPLY
names the owner), that an open request is filed under its key's hash (`RtOK`) and
that a blocked handler talks to the owner (`JobOK`). The named properties alone are
not inductive: that a REPLY names the owner is needed for the requests it sets
going, and that the request table is filed by hash is needed to know that the owner
of the REPLY's hash owns those requests' keys. The core of the argument is that
what a peer takes for its successor's arc is the arc the successor takes for its own.

`OnlyCirclesStop` adds two invariants. `NoneDropped`: while all peers listen, a client that
waits is in an inbox, a list of open requests or a loop, since no connection fails. `Unread`:
a peer that waits in `recvall` and has nothing back has its packet unread at the peer it waits
for, because who takes a proxied request answers it in the same step. When nobody can go on,
nothing is left in the inbox of a peer in `poll`; so the request that waits has no packet on the
way, its list is in a loop by `OpenRequestsAreSought`, and whoever is in a loop waits for a peer
that has not read his packet and is in a loop itself. The peers in loops are then closed under "waits for",
which is a circle (`SomeLoop`, `LoopsAreCircle`).

For the refinement, `SomebodyOwns` and `OneOwns` make the table's function of keys well
defined, and `PlaceInv` (theorem `OnePlaceEach`) says where a request is: a client's
connection is in one inbox, one list of open requests or one loop and nowhere else,
no loop has it twice (`Distinct`, `OnePlace`); a proxied request is with the peer its
sender waits for (`Travelling`); and while a client waits nobody has an answer but
the peer about to relay it (`Calm`). So the owner's step is the only one that
changes the table, and it takes effect before the client's answer and once.

### The poll loop

*Assumption.* `ServerAssumption`: each connection brings one kind of packet, descriptors
are numbers, sentinels are none of these.

- `ListIsWellFormed`: `Spec => []WellFormed`, for every setting, the second thread included.
- `NobodyCrashes`, `AnswersGoToAskers`: `Spec => []NoCrash`, `Spec => []OpenSocketsAreAskers`,
  for any number of connections and descriptors. They speak of the settings that are
  `Orderly`: every client waits for its answer, and the thread inserts nothing (see
  `server_thread` for the case that it does). So `ReadPastArray` is impossible in them.

`ServerInv` is about the list alone: every client is in it once, its socket is open and
is its own, a connection that has not been accepted has no socket, a client whose state
needs a buffer has one, and the array's events are forgotten outside the walk. `OrderInv` is
about what has been read: every client of the list has sent nothing that was read
(`Unread`), only its header (`HalfRead`), waits for an open request (`Waits`), or has been
answered in this round (`Answered`). What holds the walk together is `Walking`: the clients
that have been removed stood in front of the present one, so that the rest of the list and
the rest of the array are the same sockets, moved against each other by the number of
removals (`Shift`). Without that, an event of one client could be taken for
another's, and a client without a buffer could be read from. `OpenInv`, that an open
request's client is still in the list with the socket that was noted, rests on a
client that asked and waits sending nothing more, so that nothing is reported for it
until it is marked; that is where the setting matters.

### The ring that peers join

*Assumptions.* `IdentifierAssumption`: identifiers are different numbers below `Space`,
sentinels are no identifiers. Nothing else is assumed about the number of peers, whom they
are pointed at, the distances a FINGER packet asks for, or the settings.

- `NobodyIsItsNeighbour`: `Spec => []WellFormed`, for every setting, overlapping joins,
  late listeners and peers pointed at nobody who listens included.
- `OneOwner`, `NobodyEnds`, `RepliesAreRight`, `OneRing`: `OrderlySettings` gives
  `Spec => []AtMostOneOwner`, `[]NoCrash`, `[]RepliesNameOwner`, `[]OneOrderedRing`.

The last four speak, as the properties do, of peers that are started one after the other.
`OrderlySettings` says two more things about such settings, each for a reason in the code: a
newcomer is pointed at a peer that listens, and listens before its JOIN is handled, since
otherwise it starts a ring of its own or the NOTIFY is dropped; and
the founder is sent no FINGER packet, since while it is alone it would read a NULL pointer.
`MCJoinRing` and `MCDynamicTable` have the assumption `SettingsAreOrderly`, evaluated with their
runs.

*No peer is its own neighbour.* A JOIN that comes back to its sender would do it. The
invariant `PartsInv` gives every peer the part of the ring it belongs to and a number such
that a JOIN waits only in another part, and an older one; when it is handled the two
parts become one (`PartsMerge`). A NOTIFY that names its receiver finds a successor (`NoSelf`).

*The circle.* `Shape(R, N)` describes the state by the set `R` of peers in the circle
and the newcomer in `N`, if there is one that not everybody knows. `Follows(R, p, q)`
says that q is the next of `R` behind p. Every known predecessor is the one before; every
known successor is the one behind, or skips the newcomer at most; everybody but the
newcomer knows both (`Pointers`). A STABILIZE at the newcomer comes from the one before it,
and a NOTIFY to a peer without a successor names the one behind it (`Letters`). A join goes
through `Asking` (its JOIN waits at one peer of the circle), `Still` with the newcomer in `R`, and
`Still` with nobody in `N`, which `Settled` implies (`SettledShape`). A newcomer that is ended after
it knew a neighbour leaves the state `Frozen`, in which `Settled` is impossible and nobody
joins any more. The steps are first taken apart into their effects on the packets
about peers (`StepEffect`), so that the argument about lookups, which send none, is separate.

The facts about circles are lemmas of their own: arcs with a common end are nested
(`ArcsNested`), neighbours' arcs are disjoint (`OneArc`: hence one owner), a peer joined between
neighbours disturbs no others (`Inserted`), and peers whose successors stay among
them and skip nobody but the newcomer are all the others (`LeadsEverywhere`: hence one ring,
and no `Settled` with a dead peer in the circle). The last takes the peer at the
smallest distance before one that is left out.

`CalmInv` adds that a FINGER packet, a LOOKUP or a REPLY is on its way only in a circle without
a newcomer, where no predecessor changes; so a peer's successor names it as its
predecessor, and what a REPLY said stays true.

### Keys on the ring that peers join

*Assumptions.* Those of the ring; `TableAssumption` (a hash for every key, a client is no peer) and
`SentinelAssumption` (what is no command, job or answer is none). The theorems about `TableSpec`
quantify over all keys, hash functions, numbers of requests, and what clients send to whom.

- `TableIsWellFormed`: `TableSpec => []WellFormed`, and with `OrderlySettings` `TableHasOneOwner`,
  `TableDoesNotCrash`, `TableRepliesAreRight`, `TableRing`: what `JoinRing` satisfies holds with
  the keys as well.
- `RequestsAreKept`: `OrderlySettings` and `AskedSettings` give `TableSpec => []RequestsKept`.
- `RingIsOneStore`: the same two give `TableSpec => RingImplementsStore`, the refinement of
  `OwnedStore`.

`AskedSettings` says that where clients ask for keys, peers are started one at a time. With
overlapping joins two peers can claim one hash, and there is no one store to speak of.

*The ring underneath.* `TableSpec` is no refinement of `JoinRing`'s `Spec`: a request can end a
peer (`CallCrash`) and a lookup for a key is a packet that no step of `Spec` sends. But each of its
steps has one of the effects on phases, pointers and packets about peers to which the first part of
`DynamicTableProofs` reduces the steps of `Spec` (`TableStep`), so the invariants `RingInv` and `CircleInv` carry over as
they are. `CalmInv` speaks of rings that nobody asks for keys, in which `TableSpec` takes only
`RingStep`s (`Unasked`).

*Where a connection is.* `Placed(p, c)`: c has arrived at p, p has filed it under its hash, or it
is in p's loop; `Tidy` says that this is one place. The steps are reduced to what they do to
places (`Adds`, `Drops`, `Passes`, `Leaves`, `Shifts`), and `PlaceInv` is kept by each of
these: a connection is at one peer and unanswered there; one that a peer has opened is one that
this peer waits for, unless it has ended; of all connections of a request only one is not being
waited for (`OneRun`), and while there is one nobody has had an answer (`NotYet`). So a request
takes effect once, although it may pass several peers, of which some end meanwhile.

*Requests are kept.* `KeptInv` is about states in which no peer has ended: every open connection
is somewhere, none is broken, whoever a packet or a pointer names listens, and each list of open
requests has its LOOKUP or REPLY on the way or its loop running (`Sought`). The packets of lookups are
followed through `Goes`, since each handler sends on what it took, answers it, or ends its peer.

*One store.* `Blank`: a peer without a predecessor has served nothing. A step of the ring changes a
predecessor from none to one, or to a nearer one (`PredEffect`); so a peer that comes to claim a hash
has had no predecessor before (`ClaimIsNew`), and its part of the table is empty: keys are lost, never
resurrected (`OwnerStep`). Every step that answers, relays, refuses, passes on or hangs up is then a step of
`OwnedStore`. The property has `EndedEarly` as its way out, as `AtMostOneOwner` has.

The proof attempts changed `DynamicTable` in three places: `HangUp` closed connections again that a
running loop had already answered; a connection that a peer opened a second time still had the answer
of the first; and nothing said that the sentinels are different from commands and answers.

### The web server

*Assumption.* `WebAssumption`: static resources have rows of their own and fit into
them, paths are static or dynamic and not both, sentinels are none of these.

- `StaticsStay`: `Spec => []StaticKept`, for every client, polite or not.
- `ServerIsWellFormed`: `GoodManners` gives `Spec => []WellFormed`.
- `ServerIsOneTable`: `GoodManners`, `KnowVersion` and `KeepLengths` give
  `Spec => ImplementsStore`, the refinement of `ResourceStore`.

The last two are about polite clients, and the hypotheses say what that has to mean, each
for a reason in the code. `GoodManners`: a body comes with the methods that have one, and with
a length; the clients of `web_bare` break it and are not answered. `KnowVersion`: the
version is checked after the effect. `KeepLengths`: `strncpy` leaves what was behind a
shorter content, and cuts off what is longer than a row. `MCWebServer` has the assumption
`PoliteClean`, evaluated with `web_server`, that its polite clients satisfy all three.

`WebInv` knows the table (one row for a path, empty rows are empty, static rows untouched) and
that behind a request's empty line there is only text, so that whatever is left on
a connection is never half of a second request. `PoliteInv` says that buffer and wire
together are the request being handled, from which the parser takes what the client meant;
`StoredInv` that behind what a client can store in a row nothing is left. The last
two and the hypotheses turn a row's characters into the content of the abstract table.

The proof attempt changed `ResourceStore`: a request for a method that needs a body and
has none met two arms of the abstract `Status`, whose value then was whichever is
chosen. The arms now exclude each other.

### The scheduler

*Assumptions.* `SchedulerAssumption`: there is a process; arrivals and priorities are numbers,
bursts, quanta and levels positive ones. `NoneAssumption`: the sentinel is no process. Nothing is
assumed about how many processes there are or when they arrive.

- `QueuesWellFormed`: `Spec => []WellFormed`. Preemption, the sorted insertion and MLF's moves
  between levels neither lose nor double a process.
- `StrategiesKeep`: `Spec => []StrategyKept`. FCFS, PRIOP and SRTNP run who ranks first, nobody waits
  longer than the others' quanta under RR, and the level of a process tells how long it has run.
- `PicksRankFirst`: `Spec => PickRanksFirst`. LCFS and HRRN change the process only when it is
  finished, RR also after a whole quantum; LCFS takes the newest, RR the one that has been ready
  for longest, and under HRRN nobody's exact ratio is higher by one or more.
- `LoopEndsAsPlanned`: `Spec => []EndsAsPlanned`.
- `ImplementsOneProcessor`: `Spec => ImplementsProcessor`, the refinement of `Processor`.
- `SchedulerInvariant`: `Spec => []SInv`, what the others rest on.

`SInv`: every waiting process is at one place of the queues and nobody else is in them (`Queued`),
nobody has worked before he arrived (`Fresh`), each queue is in the order of its strategy (`Ranked`)
and nobody ranks before the running one. Every tick is brought into one of three forms
(`TickIs`): somebody is picked out of the pool, the processor rests, or the loop crashes. The
strategies' rules need more, each its own invariant on top of `SInv`: `LevelInv`, what a process has
worked is what it may spend above its level; `RoundInv`, whoever stands at place i of RR's queue has
waited for no longer than the i turns before him; `CountInv`, HRRN's counter is the time since arrival;
`LineInv`, RR's queue is in the order in which the processes have become ready, where one that
arrives goes ahead of one put back in the same tick, and the running one has worked without a
pause for what its quantum lacks.

`LoopEndsAsPlanned` is about an algorithm that runs before the loop: `EndTime` adds up bursts and gaps
in the order of arrival. `PlanInv` connects it with the loop: with m processes admitted, the time
plus the work they still have (`Owed`, a sum over a set) is `Due(m)`, the m-th end computed
beforehand, as long as there is work; afterwards that end has passed. So the last end is reached
with nothing owed, and without gaps there is always work until then (`EndInv`).

### The heap

*Assumption.* `HeapAssumption`: the array has room for a header, `size_t` holds the array's size, NULL is no
address. The size of the array, the sizes asked for and the number of calls are arbitrary.

- `HeapInvariant`: `HeapSpec => []HeapInv`.
- `HeapIsSound`: `HeapSpec => []HeapSound`.
- `MemoryIsOwn`: `HeapSpec => ImplementsAllocator`, the refinement of `Allocator`.

`HeapInv` is `HeapTypeOK` with `Layout` (each block ends where the next begins or at the array's end, and
the links agree in both directions), `MergedIn` (no two free blocks side by side), `last_allocation`
a block, and `OwnedIn` (a pointer that a caller holds points behind the header of a used block which
has room for what was asked). The last is what makes `my_free` safe: it reads a header in front of the
pointer. `SearchIs` says what the walk from `last_allocation` finds; it needs induction over the
number of blocks seen. For the refinement: blocks do not overlap, so that `memset` in one and the header
written by a split reach no word that a caller may use.

The proof attempts changed two definitions. The search counted the blocks it had `seen` by a
recursive function over all numbers, of which nothing can be proved without a bound; it is over
`0 .. Words` now. And `Allocator` granted a caller whose size overflows
the words he had asked for; it grants none, since the block he is given is smaller.

### The ring buffer, the memory management unit and the packets

From `SizeAssumption` (`Size` and `MaxCall` are natural numbers):

- `TypeCorrect`: the positions stay in the array.
- `CapacityKept`: `Spec => []Capacity`.
- `BufferIsFifo`: `Spec => ImplementsFifo`, the refinement of `ByteFifo`.

Here `TypeOK` is inductive by itself. The refinement step rests on four lemmas about
`At`, the place of the i-th byte: its value without the remainder, its
shift when a position moves, that different bytes lie apart, and that a write begins
where what can be read ends.

From `MmuAssumption` (sizes are positive, an address has room for a table's
pages, and no page counts as used in the beginning):

- `MmuInvariant`: entries keep their form, and no page counts as modified that has not
  been accessed or may not be written.
- `ProcessesKeptApart`: `MmuSpec => KeepsToOwnTable`, an action property. A request inside
  the process's pages reads and marks its own table's entries only; the base of one
  table plus a page number below `PtAmount` stays below the base of the next.

From `CodecAssumption` (a byte has two values at least; every field of a packet fits its type):

- `CodecIsExact`: `CodecSpec => []DecodesWhatWasSent`, for every base, every key and value and every
  place at which a packet is cut.

The invariant says that what has arrived is the beginning of what was serialized, and that
what was decoded is its `Body`. The lemmas are about numbers in a base: two and four bytes give
back the number they were made of, and each byte of a header is where the decoder looks. A cut packet
still has its header when it passes the first test, so its lengths are the right ones; `BodySize` wraps
where they add up to more than 32 bits. That the sum wraps was found here, and `DecodesWhatWasSent` says so now.

### The lists of books

From `BookListAssumption` (ISBNs are numbers, NULL is no element):

- `ListInvariant`: `ListSpec => []ListInv`.
- `ListIsSound`: `ListSpec => []ListSound`, for both programs and any number of books.

`ListInv` says that there is a way `p`: a sequence that begins at `first`, follows `next`, ends before
NULL, and has every element once, in the order of the ISBNs where the program promises it. Inserting
an element at the front or behind the place where the recursion stops is inserting it in the way. That the
recursion of `Books` and of `StopAfter` goes along the way is proved by induction from its end.
Both are recursive functions over the elements there are and NULL.

### The sorting programs and the counted loops

From `SortingAssumption` and `LoopAssumption` (lengths, values and runs are numbers, a counter has a width):

- `ProgramsKeep`: `SortSpec /\ LoopSpec => []ProgramsInvariant`.
- `ProgramsAreRight`: `SortSpec /\ LoopSpec => []ProgramsDeliver`, for all four sorting programs and
  the three loops, every array, and counters that wrap anywhere.

That an array has the input's values as often as the input had is a permutation of the places (`Shuffled`) until
the program ends, and a number of places only then. Each program has its own invariant:

- Insertion sort: the places before `outer` are in order, those from `outer` on are still the
  input's, and the commands are those of the keys inserted and of their inversions. A step moves as many elements
  as the key has greater ones before it, which are the inversions its place adds.
- Count sort: `counts` has for every value the number of places read that hold it; then the
  values below `inner` stand in the places that `Smaller` gives them, which do not overlap.
- Iterative merge sort: the parts of width `outer` from `inner` on are in order, and those of
  twice the width before it. Recursive merge sort: by induction over the size of the part.
- `Merge` takes every place of both halves once (`FrontsAre`, `FrontTaken`), always one
  that nothing untaken is smaller than (`MergeOrders`).
- The loops: the commands are those of the runs that have begun, on each level.

The proof attempts changed the form of three definitions and the meaning of none: `Merge` and
`MergeSort` are recursive in one parameter, a pair of fronts and a call, since the
prover reads no function of two; and the polynomials are written with products.

### The calculator

From `RpnAssumption` (numbers are integers, and the marks for words, operators and errors are none):

- `RpnInvariant`: `RpnSpec => []RpnInv`.
- `CalculatorIsRight`: `RpnSpec => AnswersValue`, for lines of any length.

`RpnInv` says that the stack is the one the tokens of the line leave one after the other (`Stacks`), which
is a recursion along the line; `ValueOf` is one over its parts, and cuts an expression in two before its
operator. Two lemmas join them, each by induction. A part that has a value leaves the stack as it was with
that value on top (`ValueRuns`), by the length of the part: an operator finds the values of both halves
on the stack, whatever lies below. Conversely every number on the stack is the value
of a part that ends there, and below it lies what was there when that part began (`Stems`), by the
number of tokens. So one number alone is left exactly by an expression. Since the parts that have a value
are found from the end, it does not matter which cut `CHOOSE` takes.

### The phone book

From `PhoneBookAssumption` (phone numbers are numbers, NULL is none):

- `BookInvariant`: `BookSpec => []BookInv`.
- `BookIsTable`: `BookSpec => ImplementsTable`, the refinement of `PhoneTable`.

`BookInv` says that the nodes are a search tree: each has a depth, one more than that of
the node above it, and a range of numbers, which its own number splits between its children
(`Tree`). What lies outside the ranges is not in the tree, so `find_node` and the loop of
`bst_insert_node` find the node of a number, or the one place where it can be put. The depth is what the
recursion gets along on: no node is below itself. The walk lists the numbers of a node's range
that are in the tree, in their order and each once (`Lists`): what the left child lists, the number, and
what the right child lists.

### The binary heap

From `MaxHeapAssumption` (there is room for one element, keys are integers):

- `MaxHeapInvariant`: `MaxHeapSpec => []MaxHeapInv`.
- `MaxHeapIsQueue`: `MaxHeapSpec => ImplementsQueue`, the refinement of `PriorityQueue`.

`MaxHeapInv` says that no element is larger than the one above it (`HeapUpTo`), so the root is the largest
(`RootIsLargest`). While `heapify` sinks an element, the array is a heap but for that one,
and those below it are not larger than the one above it (`HeapBut`); each exchange moves the exception
down. `heap_insert` moves the elements on the way from the new place to the root
(`PathTo`) one down, as far as they are smaller than the key (`TopOn`). That no key is lost or doubled
is said by counting: the places of a number before and after a call correspond to each other one to one
(`SameTimes`, `RaisedTimes`, `TopTaken`).

### What these three proofs changed

No meaning of a program's definition changed. `ValueOf` and `Heapify` were recursive in two arguments, of which the prover reads
nothing, and are in one now, a pair; the recursions of `PhoneBook` are over the nodes there
are, not over all numbers. `PriorityQueue` kept its elements in a bag and counts them now,
which is the same with fewer operators. Keys of the heap were natural numbers for no reason and are integers.

### Recursion

The library's induction theorems take an operator as their parameter, which no
prover here can use. `Recursion` has a substitute without one: a set of numbers that is not empty has a
smallest element (`SmallestOf`), so a set that has 0 and with every number the next one has
them all (`AllNumbers`, `AllUpTo`). A claim about all numbers becomes one about the set of those for which
it holds. There is a function that follows a given one step by step (`Follows`, `FollowsExists`); and a rule
that makes functions of functions, and at each argument reads the given function only at
arguments of smaller size, has a fixed point (`Recursive`, `RecursionExists`), which is what a recursive
definition chooses. The sums of the scheduler, the search of the heap, the walk along a list,
the merge sort, the calculator, the search tree and the binary heap are proved that way.

### Only model-checked

Liveness: `Answered`, `Converges`, `EveryRequestAnswered`, `EveryConnectionRemoved`. The prover knows
no fairness. The properties of the runs that expect a violation are no theorems, of course.

## 6. What is not modelled, and why

- *The threads' races below one insertion* (P3 `peer.c:461`): `stabilize` and `forward`
  both write `succ->socket`, `n_clients++` is no atomic step, and `succ` can be replaced by a
  NOTIFY in the middle of a round, after which the thread takes the new structure's
  socket, which is 0. One round of the thread is one step of `JoinRing`, one insertion one step
  of `ServerLoop`. The insertion alone already breaks what the loop promises
  (`server_thread`); what the code still keeps when these statements are taken apart is
  not stated here.
- *Ends of connections in the poll loop*: connections that are reset or polled with
  POLLHUP, packets with an empty body, standard input ending the loop, errors of `poll`.
- *Surroundings*: name resolution, start-up and arguments, `printf`; the client programs
  `client.c`, which are the environment of `StaticRing`, `DynamicTable` and `ServerLoop`;
  the main functions of the programming course, which read files and print.
- *Third-party and generated files*: uthash (four copies, a finite map here), the
  compiler probes in the build directories, and the templates in `Vorgabe`, whose
  code is the submissions' with parts left out. They are about half of the
  repository's lines of C, and no model of this system would speak of them.

## 7. Plan

The models are complete as far as section 6 does not say otherwise, and of what the runs check
everything is proved that is no liveness property. What would extend the project, in this order:

1. The statements of `stabilize` and of `forward` one by one, over one `succ->socket` (section 6), and
   what of `ServerLoop`'s list they leave intact.
2. Connections that are reset, as an ending of their own in `ServerLoop` and `StaticRing`.
