-------------------------- MODULE ServerLoopProofs --------------------------
(* ServerLoop for any connections, descriptors and settings: the walk over *)
(* the list stays on the list, and in an orderly setting no client is read *)
(* from that has no buffer, and every answer goes to the client that asked.*)
EXTENDS ServerLoop, Integers, TLAPS

SeqFacts == INSTANCE SequenceTheorems
-----------------------------------------------------------------------------
(* Lists *)

OnceEach(s) == \A i, j \in DOMAIN s : s[i] = s[j] => i = j

\* An entry of a sequence.
LEMMA EntryOf ==
    ASSUME NEW S, NEW s \in Seq(S), NEW k \in DOMAIN s
    PROVE  s[k] \in S
OBVIOUS

\* The list without its i-th entry.
LEMMA RemoveAtIs ==
    ASSUME NEW S, NEW s \in Seq(S), NEW i \in 1 .. Len(s)
    PROVE  /\ RemoveAt(s, i) \in Seq(S) /\ Len(RemoveAt(s, i)) = Len(s) - 1
           /\ \A k \in 1 .. Len(s) - 1 :
                 RemoveAt(s, i)[k] = IF k < i THEN s[k] ELSE s[k + 1]
<1> DEFINE a == SubSeq(s, 1, i - 1)
           b == SubSeq(s, i + 1, Len(s))
<1>1. Len(s) \in Nat /\ \A k \in 1 .. Len(s) : s[k] \in S
  OBVIOUS
<1>2. /\ a \in Seq(S) /\ Len(a) = i - 1
      /\ \A k \in 1 .. i - 1 : a[k] = s[k]
  <2>1. 1 \in Int /\ i - 1 \in Int /\ \A k \in 1 .. i - 1 : s[k] \in S
    BY <1>1
  <2>2. /\ a \in Seq(S)
        /\ Len(a) = IF 1 <= i - 1 THEN (i - 1) - 1 + 1 ELSE 0
        /\ \A k \in 1 .. (i - 1) - 1 + 1 : a[k] = s[1 + k - 1]
    BY <2>1, SeqFacts!SubSeqProperties
  <2>3. \A k \in 1 .. i - 1 : a[k] = s[k]
    <3> TAKE k \in 1 .. i - 1
    <3>1. k \in 1 .. (i - 1) - 1 + 1 /\ 1 + k - 1 = k
      BY <1>1
    <3> QED
      BY <2>2, <3>1
  <2>4. Len(a) = i - 1
    BY <1>1, <2>2
  <2> QED
    BY <2>2, <2>3, <2>4
<1>3. /\ b \in Seq(S) /\ Len(b) = Len(s) - i
      /\ \A k \in 1 .. Len(s) - i : b[k] = s[i + k]
  <2>1. i + 1 \in Int /\ Len(s) \in Int /\ \A k \in i + 1 .. Len(s) : s[k] \in S
    BY <1>1
  <2>2. /\ b \in Seq(S)
        /\ Len(b) = IF i + 1 <= Len(s) THEN Len(s) - (i + 1) + 1 ELSE 0
        /\ \A k \in 1 .. Len(s) - (i + 1) + 1 : b[k] = s[(i + 1) + k - 1]
    BY <2>1, SeqFacts!SubSeqProperties
  <2>3. \A k \in 1 .. Len(s) - i : b[k] = s[i + k]
    <3> TAKE k \in 1 .. Len(s) - i
    <3>1. k \in 1 .. Len(s) - (i + 1) + 1 /\ (i + 1) + k - 1 = i + k
      BY <1>1
    <3> QED
      BY <2>2, <3>1
  <2>4. Len(b) = Len(s) - i
    BY <1>1, <2>2
  <2> QED
    BY <2>2, <2>3, <2>4
<1>4. RemoveAt(s, i) = a \o b
  BY DEF RemoveAt
<1> HIDE DEF a, b
<1>5. /\ a \o b \in Seq(S) /\ Len(a \o b) = Len(a) + Len(b)
      /\ \A k \in 1 .. Len(a) + Len(b) :
            (a \o b)[k] = IF k <= Len(a) THEN a[k] ELSE b[k - Len(a)]
  BY <1>2, <1>3, SeqFacts!ConcatProperties
<1>6. ASSUME NEW k \in 1 .. Len(s) - 1
      PROVE  (a \o b)[k] = IF k < i THEN s[k] ELSE s[k + 1]
  <2>1. k \in 1 .. Len(a) + Len(b) /\ (k <= Len(a) <=> k < i)
    BY <1>1, <1>2, <1>3
  <2>2. CASE k < i
    BY <1>1, <1>2, <1>5, <2>1, <2>2
  <2>3. CASE ~(k < i)
    <3>1. k - Len(a) \in 1 .. Len(s) - i /\ i + (k - Len(a)) = k + 1
      BY <1>1, <1>2, <2>3
    <3>2. b[k - Len(a)] = s[k + 1]
      BY <1>3, <3>1
    <3> QED
      BY <1>5, <2>1, <2>3, <3>2
  <2> QED
    BY <2>2, <2>3
<1>7. Len(a) + Len(b) = Len(s) - 1
  BY <1>1, <1>2, <1>3
<1> QED
  BY <1>4, <1>5, <1>6, <1>7

\* The list with one more entry at its front.
LEMMA PrependIs ==
    ASSUME NEW S, NEW s \in Seq(S), NEW c \in S
    PROVE  /\ <<c>> \o s \in Seq(S) /\ Len(<<c>> \o s) = Len(s) + 1
           /\ (<<c>> \o s)[1] = c
           /\ \A k \in 2 .. Len(s) + 1 : (<<c>> \o s)[k] = s[k - 1]
<1>1. <<c>> \in Seq(S) /\ Len(<<c>>) = 1 /\ <<c>>[1] = c /\ Len(s) \in Nat
  OBVIOUS
<1>2. /\ <<c>> \o s \in Seq(S) /\ Len(<<c>> \o s) = Len(<<c>>) + Len(s)
      /\ \A k \in 1 .. Len(<<c>>) + Len(s) :
            (<<c>> \o s)[k] = IF k <= Len(<<c>>) THEN <<c>>[k] ELSE s[k - Len(<<c>>)]
  BY <1>1, SeqFacts!ConcatProperties
<1>3. (<<c>> \o s)[1] = c
  BY <1>1, <1>2
<1>4. \A k \in 2 .. Len(s) + 1 : (<<c>> \o s)[k] = s[k - 1]
  BY <1>1, <1>2
<1>5. Len(<<c>> \o s) = Len(s) + 1
  BY <1>1, <1>2
<1> QED
  BY <1>2, <1>3, <1>4, <1>5

\* Where an entry is in a list that has it once.
LEMMA PlaceIs ==
    ASSUME NEW s, OnceEach(s), NEW k \in DOMAIN s
    PROVE  Place(s, s[k]) = k
BY DEF OnceEach, Place
-----------------------------------------------------------------------------
(* The list of clients, for every setting *)

ListInv ==
    /\ clients \in Seq(Conn) /\ OnceEach(clients)
    /\ fdt \in [Fd -> Conn \cup {None}] /\ sock \in [Conn -> Fd \cup {None}]
    /\ \A k \in DOMAIN clients :
          sock[clients[k]] \in Fd /\ fdt[sock[clients[k]]] = clients[k]

NewHasNoSocket == \A c \in Conn : far[c] = "new" => sock[c] = None

BufferHasHeader == \A c \in Conn : HasBuffer(c) => pack[c] \in Conn

NothingReported == pc \notin {"walk", "dead"} => revents = {}

ServerInv ==
    /\ TypeOK /\ WalkStaysOnList
    /\ ListInv /\ NewHasNoSocket /\ BufferHasHeader /\ NothingReported

\* server_remove_client for a client of the list.
LEMMA RemovedIs ==
    ASSUME ListInv, NEW k \in DOMAIN clients, Removed(clients[k])
    PROVE  /\ clients' \in Seq(Conn) /\ Len(clients') = Len(clients) - 1
           /\ \A j \in 1 .. Len(clients) - 1 :
                 clients'[j] = IF j < k THEN clients[j] ELSE clients[j + 1]
           /\ fdt' \in [Fd -> Conn \cup {None}]
           /\ \A f \in Fd : fdt'[f] = IF f = sock[clients[k]] THEN None ELSE fdt[f]
<1>1. /\ clients \in Seq(Conn) /\ k \in 1 .. Len(clients) /\ Contains(clients, clients[k])
      /\ Len(clients) \in Nat
  BY DEF ListInv, Contains
<1>2. Place(clients, clients[k]) = k
  BY PlaceIs DEF ListInv
<1>3. /\ clients' = RemoveAt(clients, k)
      /\ fdt' = [fdt EXCEPT ![sock[clients[k]]] = None]
  BY <1>1, <1>2 DEF Removed
<1>4. /\ clients' \in Seq(Conn) /\ Len(clients') = Len(clients) - 1
      /\ \A j \in 1 .. Len(clients) - 1 :
            clients'[j] = IF j < k THEN clients[j] ELSE clients[j + 1]
  BY <1>1, <1>3, RemoveAtIs
<1>5. /\ fdt' \in [Fd -> Conn \cup {None}]
      /\ \A f \in Fd : fdt'[f] = IF f = sock[clients[k]] THEN None ELSE fdt[f]
  BY <1>3 DEF ListInv
<1> QED
  BY <1>4, <1>5

\* What is left of the list keeps its sockets.
LEMMA RemovedKeeps ==
    ASSUME ListInv, NEW k \in DOMAIN clients, Removed(clients[k]), sock' = sock
    PROVE  ListInv'
<1>1. /\ clients' \in Seq(Conn) /\ Len(clients') = Len(clients) - 1
      /\ \A j \in 1 .. Len(clients) - 1 :
            clients'[j] = IF j < k THEN clients[j] ELSE clients[j + 1]
      /\ fdt' \in [Fd -> Conn \cup {None}]
      /\ \A f \in Fd : fdt'[f] = IF f = sock[clients[k]] THEN None ELSE fdt[f]
  BY RemovedIs
<1>2. /\ clients \in Seq(Conn) /\ Len(clients) \in Nat /\ DOMAIN clients = 1 .. Len(clients)
      /\ DOMAIN clients' = 1 .. Len(clients) - 1 /\ k \in 1 .. Len(clients)
  BY <1>1 DEF ListInv
<1>3. \A j \in DOMAIN clients' :
         \E m \in DOMAIN clients : /\ m # k /\ clients'[j] = clients[m]
                                   /\ m = IF j < k THEN j ELSE j + 1
  BY <1>1, <1>2
<1>4. OnceEach(clients')
  <2>1. ASSUME NEW i \in DOMAIN clients', NEW j \in DOMAIN clients', clients'[i] = clients'[j]
        PROVE  i = j
    <3>1. PICK m \in DOMAIN clients : /\ m # k /\ clients'[i] = clients[m]
                                      /\ m = IF i < k THEN i ELSE i + 1
      BY <1>3
    <3>2. PICK n \in DOMAIN clients : /\ n # k /\ clients'[j] = clients[n]
                                      /\ n = IF j < k THEN j ELSE j + 1
      BY <1>3
    <3>3. m = n
      BY <2>1, <3>1, <3>2 DEF ListInv, OnceEach
    <3> QED
      BY <1>2, <3>1, <3>2, <3>3
  <2> QED
    BY <2>1 DEF OnceEach
<1>5. ASSUME NEW j \in DOMAIN clients'
      PROVE  sock[clients'[j]] \in Fd /\ fdt'[sock[clients'[j]]] = clients'[j]
  <2>1. PICK m \in DOMAIN clients : m # k /\ clients'[j] = clients[m]
    BY <1>3
  <2>2. /\ sock[clients[m]] \in Fd /\ fdt[sock[clients[m]]] = clients[m]
        /\ fdt[sock[clients[k]]] = clients[k] /\ clients[m] # clients[k]
    BY <2>1 DEF ListInv, OnceEach
  <2> QED
    BY <1>1, <2>1, <2>2
<1> QED
  BY <1>1, <1>4, <1>5 DEF ListInv

\* A connection that never had a descriptor gets a free one, and its place
\* at the front.
LEMMA AddedKeeps ==
    ASSUME ListInv, NEW c \in Conn, sock[c] = None, NEW f \in Fd, fdt[f] = None,
           fdt' = [fdt EXCEPT ![f] = c], sock' = [sock EXCEPT ![c] = f],
           clients' = <<c>> \o clients
    PROVE  /\ ListInv'
           /\ Len(clients') = Len(clients) + 1 /\ clients'[1] = c
           /\ \A k \in 2 .. Len(clients) + 1 : clients'[k] = clients[k - 1]
<1>1. /\ clients' \in Seq(Conn) /\ Len(clients') = Len(clients) + 1
      /\ clients'[1] = c /\ \A k \in 2 .. Len(clients) + 1 : clients'[k] = clients[k - 1]
  BY PrependIs DEF ListInv
<1>2. /\ clients \in Seq(Conn) /\ Len(clients) \in Nat /\ DOMAIN clients = 1 .. Len(clients)
      /\ DOMAIN clients' = 1 .. Len(clients) + 1
  BY <1>1 DEF ListInv
<1>3. \A k \in DOMAIN clients : clients[k] # c /\ sock[clients[k]] # f
  BY ServerAssumption DEF ListInv
<1>4. \A k \in DOMAIN clients' : k = 1 \/ (k - 1 \in DOMAIN clients /\ clients'[k] = clients[k - 1])
  BY <1>1, <1>2
<1>5. OnceEach(clients')
  <2>1. ASSUME NEW i \in DOMAIN clients', NEW j \in DOMAIN clients', clients'[i] = clients'[j]
        PROVE  i = j
    <3>1. CASE i = 1
      BY <1>1, <1>3, <1>4, <2>1, <3>1
    <3>2. CASE j = 1
      BY <1>1, <1>3, <1>4, <2>1, <3>2
    <3>3. CASE i # 1 /\ j # 1
      <4>1. /\ i - 1 \in DOMAIN clients /\ j - 1 \in DOMAIN clients
            /\ clients[i - 1] = clients[j - 1]
        BY <1>4, <2>1, <3>3
      <4>2. i - 1 = j - 1
        BY <4>1 DEF ListInv, OnceEach
      <4> QED
        BY <1>2, <4>2
    <3> QED
      BY <3>1, <3>2, <3>3
  <2> QED
    BY <2>1 DEF OnceEach
<1>6. /\ fdt' \in [Fd -> Conn \cup {None}] /\ sock' \in [Conn -> Fd \cup {None}]
      /\ fdt'[f] = c /\ sock'[c] = f
      /\ \A g \in Fd : g # f => fdt'[g] = fdt[g]
      /\ \A d \in Conn : d # c => sock'[d] = sock[d]
  BY DEF ListInv
<1>7. ASSUME NEW k \in DOMAIN clients'
      PROVE  sock'[clients'[k]] \in Fd /\ fdt'[sock'[clients'[k]]] = clients'[k]
  <2>1. CASE k = 1
    BY <1>1, <1>6, <2>1
  <2>2. CASE k # 1
    <3>1. k - 1 \in DOMAIN clients /\ clients'[k] = clients[k - 1] /\ clients[k - 1] \in Conn
      BY <1>2, <1>4, <2>2
    <3>2. clients[k - 1] # c /\ sock[clients[k - 1]] # f
      BY <1>3, <3>1
    <3> QED
      BY <1>6, <3>1, <3>2 DEF ListInv
  <2> QED
    BY <2>1, <2>2
<1> QED
  BY <1>1, <1>5, <1>6, <1>7 DEF ListInv

\* One client of the walk is served: it stays in the list or is removed, and
\* the walk goes on behind it, on the list.
LEMMA ServedKeeps ==
    ASSUME ServerInv, NEW c \in Conn, NEW i, At(c, i), Step(c), sock' = sock,
           (clients' = clients /\ fdt' = fdt) \/ Removed(c)
    PROVE  /\ ListInv' /\ WalkStaysOnList'
           /\ cur' \in [i : Nat, c : Conn \cup {None}]
<1>1. PICK k \in DOMAIN clients : clients[k] = c
  BY DEF ServerInv, At, WalkStaysOnList, Contains, ListInv
<1>2. /\ clients \in Seq(Conn) /\ Len(clients) \in Nat /\ DOMAIN clients = 1 .. Len(clients)
      /\ k \in 1 .. Len(clients) /\ ListInv
  BY DEF ServerInv, ListInv
<1>3. After(clients, c) = IF k < Len(clients) THEN clients[k + 1] ELSE None
  <2>1. Place(clients, c) = k
    BY <1>1, <1>2, PlaceIs DEF ListInv
  <2> QED
    BY <2>1 DEF After
<1>4. cur' = [i |-> cur.i + 1, c |-> After(clients, c)]
  BY DEF Step
<1>5. cur' \in [i : Nat, c : Conn \cup {None}]
  <2>1. cur.i \in Nat
    BY DEF ServerInv, TypeOK
  <2>2. After(clients, c) \in Conn \cup {None}
    BY <1>2, <1>3
  <2> QED
    BY <1>4, <2>1, <2>2
<1>6. CASE clients' = clients /\ fdt' = fdt
  <2>1. ListInv'
    BY <1>2, <1>6 DEF ListInv
  <2>2. cur'.c # None => Contains(clients', cur'.c)
    BY <1>2, <1>3, <1>4, <1>6 DEF Contains
  <2> QED
    BY <1>5, <2>1, <2>2 DEF WalkStaysOnList
<1>7. CASE Removed(c)
  <2>1. ListInv'
    BY <1>1, <1>2, <1>7, RemovedKeeps
  <2>2. /\ clients' \in Seq(Conn) /\ Len(clients') = Len(clients) - 1
        /\ \A j \in 1 .. Len(clients) - 1 :
              clients'[j] = IF j < k THEN clients[j] ELSE clients[j + 1]
    BY <1>1, <1>2, <1>7, RemovedIs
  <2>3. cur'.c # None => Contains(clients', cur'.c)
    <3> SUFFICES ASSUME cur'.c # None PROVE Contains(clients', cur'.c)
      OBVIOUS
    <3>1. k < Len(clients) /\ cur'.c = clients[k + 1]
      BY <1>3, <1>4
    <3>2. k \in 1 .. Len(clients') /\ clients'[k] = clients[k + 1]
      BY <1>2, <2>2, <3>1
    <3> QED
      BY <3>1, <3>2 DEF Contains
  <2> QED
    BY <1>5, <2>1, <2>3 DEF WalkStaysOnList
<1> QED
  BY <1>6, <1>7

\* What else a step of the walk has to keep.
LEMMA ServedInv ==
    ASSUME ServerInv, NEW c \in Conn, NEW i, At(c, i), Step(c),
           (clients' = clients /\ fdt' = fdt) \/ Removed(c),
           UNCHANGED <<far, sock, pc, fds, revents, accepts, setting>>,
           pipe' \in [Conn -> Seq(Portion)], got' \in [Conn -> SUBSET Conn],
           cstate' \in [Conn -> {"IDLE", "HDR_RECVD", "REMOVE", "REMOVE_BUF"}],
           pack' \in [Conn -> Conn \cup {None}],
           open' \in Seq([fd : Fd, asker : Conn]),
           BufferHasHeader'
    PROVE  ServerInv'
<1>1. /\ ListInv' /\ WalkStaysOnList'
      /\ cur' \in [i : Nat, c : Conn \cup {None}]
  BY ServedKeeps
<1>2. /\ far' = far /\ sock' = sock /\ pc' = pc /\ fds' = fds /\ revents' = revents
      /\ accepts' = accepts /\ setting' = setting
  OBVIOUS
<1>3. TypeOK'
  BY <1>1, <1>2 DEF ServerInv, TypeOK, ListInv
<1>4. NewHasNoSocket' /\ NothingReported'
  BY <1>2 DEF ServerInv, NewHasNoSocket, NothingReported
<1> QED
  BY <1>1, <1>3, <1>4 DEF ServerInv

\* One portion is read.
LEMMA RecvReads ==
    ASSUME ServerInv, NEW c \in Conn, NEW i, NEW x \in Conn, NEW portion,
           Recv(c, i, x, portion)
    PROVE  At(c, i) /\ pipe' \in [Conn -> Seq(Portion)]
<1>1. Tail(pipe[x]) \in Seq(Portion)
  BY DEF Recv, ServerInv, TypeOK
<1> QED
  BY <1>1 DEF Recv, ServerInv, TypeOK

\* A decoder that has the header's buffer has decoded a header.
LEMMA DeliverIs ==
    ASSUME ServerInv, NEW c \in Conn, NEW i, NEW x \in Conn, NEW kind,
           Deliver(c, i, x, kind)
    PROVE  /\ At(c, i) /\ Step(c) /\ pack[c] \in Conn /\ sock[c] \in Fd
           /\ pipe' \in [Conn -> Seq(Portion)] /\ pack' \in [Conn -> Conn \cup {None}]
           /\ UNCHANGED <<far, sock, pc, fds, revents, accepts, pack>>
<1>1. Recv(c, i, x, "body") /\ HasBuffer(c) /\ Step(c)
  BY DEF Deliver
<1>2. At(c, i) /\ pipe' \in [Conn -> Seq(Portion)]
  BY <1>1, RecvReads
<1>3. PICK k \in DOMAIN clients : clients[k] = c
  BY <1>2 DEF ServerInv, At, WalkStaysOnList, Contains, ListInv
<1> QED
  BY <1>1, <1>2, <1>3 DEF Deliver, ServerInv, BufferHasHeader, ListInv, TypeOK

\* The walk: every case of server_run's loop body with its callback.
LEMMA WalkKeeps ==
    ASSUME ServerInv, Walk, setting' = setting
    PROVE  ServerInv'
<1>1. PICK c \in Conn, i \in 1 .. Len(clients) :
         \/ Skip(c, i)
         \/ RecvMarked(c, i)
         \/ \E x \in Conn : \/ RecvHeader(c, i, x)
                            \/ RecvEof(c, i, x)
                            \/ RecvGarbage(c, i, x)
                            \/ DeliverOwn(c, i, x)
                            \/ DeliverAsk(c, i, x)
                            \/ DeliverReply(c, i, x)
                            \/ DeliverNotify(c, i, x)
  BY DEF Walk
<1>2. CASE Skip(c, i)
  <2>1. /\ At(c, i) /\ Step(c) /\ UNCHANGED <<far, sock, pc, fds, revents, accepts>>
        /\ UNCHANGED <<clients, fdt, pipe, got, cstate, pack, open>>
    BY <1>2 DEF Skip, far_vars, list_vars
  <2>2. BufferHasHeader'
    BY <2>1 DEF ServerInv, BufferHasHeader, HasBuffer
  <2> QED
    BY <2>1, <2>2, ServedInv DEF ServerInv, TypeOK
<1>3. CASE RecvMarked(c, i)
  <2>1. pc' = "dead" /\ UNCHANGED <<far_vars, list_vars, open, fds, revents, accepts, cur>>
    BY <1>3 DEF RecvMarked
  <2> QED
    BY <2>1 DEF far_vars, list_vars, ServerInv, TypeOK, WalkStaysOnList, ListInv,
                NewHasNoSocket, BufferHasHeader, NothingReported, HasBuffer
<1>4. ASSUME NEW x \in Conn, RecvHeader(c, i, x) PROVE ServerInv'
  <2>1. /\ Recv(c, i, x, "hdr") /\ Step(c)
        /\ cstate' = [cstate EXCEPT ![c] = "HDR_RECVD"] /\ pack' = [pack EXCEPT ![c] = x]
        /\ UNCHANGED <<far, got, clients, fdt, sock, open, pc, fds, revents, accepts>>
    BY <1>4 DEF RecvHeader
  <2>2. At(c, i) /\ pipe' \in [Conn -> Seq(Portion)]
    BY <2>1, RecvReads
  <2>3. BufferHasHeader'
    BY <2>1 DEF ServerInv, TypeOK, BufferHasHeader, HasBuffer
  <2> QED
    BY <2>1, <2>2, <2>3, ServedInv DEF ServerInv, TypeOK
<1>5. ASSUME NEW x \in Conn, RecvEof(c, i, x) PROVE ServerInv'
  <2>1. /\ Recv(c, i, x, "eof") /\ Step(c) /\ Removed(c)
        /\ UNCHANGED <<far, got, sock, cstate, pack, open, pc, fds, revents, accepts>>
    BY <1>5 DEF RecvEof
  <2>2. At(c, i) /\ pipe' \in [Conn -> Seq(Portion)]
    BY <2>1, RecvReads
  <2>3. BufferHasHeader'
    BY <2>1 DEF ServerInv, BufferHasHeader, HasBuffer
  <2> QED
    BY <2>1, <2>2, <2>3, ServedInv DEF ServerInv, TypeOK
<1>6. ASSUME NEW x \in Conn, RecvGarbage(c, i, x) PROVE ServerInv'
  <2>1. /\ pc' = "dead" /\ UNCHANGED <<far, got, list_vars, open, fds, revents, accepts, cur>>
        /\ \E portion : Recv(c, i, x, portion)
    BY <1>6 DEF RecvGarbage
  <2>2. pipe' \in [Conn -> Seq(Portion)]
    BY <2>1, RecvReads
  <2> QED
    BY <2>1, <2>2 DEF list_vars, ServerInv, TypeOK, WalkStaysOnList, ListInv,
                      NewHasNoSocket, BufferHasHeader, NothingReported, HasBuffer
<1>7. ASSUME NEW x \in Conn, DeliverOwn(c, i, x) PROVE ServerInv'
  <2>1. /\ Deliver(c, i, x, "OWN") /\ Removed(c) /\ UNCHANGED <<cstate, open>>
        /\ got' = [y \in Conn |-> IF y \in FarEnd(sock[c])
                                  THEN got[y] \cup {pack[c]} ELSE got[y]]
    BY <1>7 DEF DeliverOwn
  <2>2. /\ At(c, i) /\ Step(c) /\ pack[c] \in Conn /\ sock[c] \in Fd
        /\ pipe' \in [Conn -> Seq(Portion)] /\ pack' \in [Conn -> Conn \cup {None}]
        /\ UNCHANGED <<far, sock, pc, fds, revents, accepts, pack>>
    BY <2>1, DeliverIs
  <2>3. got' \in [Conn -> SUBSET Conn] /\ BufferHasHeader'
    BY <2>1, <2>2 DEF ServerInv, TypeOK, BufferHasHeader, HasBuffer
  <2> QED
    BY <2>1, <2>2, <2>3, ServedInv DEF ServerInv, TypeOK
<1>8. ASSUME NEW x \in Conn, DeliverAsk(c, i, x) PROVE ServerInv'
  <2>1. /\ Deliver(c, i, x, "ASK") /\ UNCHANGED <<clients, fdt, got>>
        /\ open' = Append(open, [fd |-> sock[c], asker |-> pack[c]])
        /\ cstate' = [cstate EXCEPT ![c] = "IDLE"]
    BY <1>8 DEF DeliverAsk
  <2>2. /\ At(c, i) /\ Step(c) /\ pack[c] \in Conn /\ sock[c] \in Fd
        /\ pipe' \in [Conn -> Seq(Portion)] /\ pack' \in [Conn -> Conn \cup {None}]
        /\ UNCHANGED <<far, sock, pc, fds, revents, accepts, pack>>
    BY <2>1, DeliverIs
  <2>3. open' \in Seq([fd : Fd, asker : Conn]) /\ BufferHasHeader'
    BY <2>1, <2>2 DEF ServerInv, TypeOK, BufferHasHeader, HasBuffer
  <2> QED
    BY <2>1, <2>2, <2>3, ServedInv DEF ServerInv, TypeOK
<1>9. ASSUME NEW x \in Conn, DeliverReply(c, i, x) PROVE ServerInv'
  <2>1. /\ Deliver(c, i, x, "RPLY") /\ Removed(c) /\ open' = <<>>
        /\ got' = [y \in Conn |-> got[y] \cup
                     {r.asker : r \in {q \in ToSet(open) : y \in FarEnd(q.fd)}}]
        /\ cstate' = [d \in Conn |-> IF d \in Marked THEN Mark(cstate[d]) ELSE cstate[d]]
    BY <1>9 DEF DeliverReply
  <2>2. /\ At(c, i) /\ Step(c) /\ pack[c] \in Conn /\ sock[c] \in Fd
        /\ pipe' \in [Conn -> Seq(Portion)] /\ pack' \in [Conn -> Conn \cup {None}]
        /\ UNCHANGED <<far, sock, pc, fds, revents, accepts, pack>>
    BY <2>1, DeliverIs
  <2>3. ASSUME NEW r \in ToSet(open) PROVE r.asker \in Conn
    <3>1. PICK k \in DOMAIN open : r = open[k]
      BY DEF ToSet
    <3>2. open \in Seq([fd : Fd, asker : Conn])
      BY DEF ServerInv, TypeOK
    <3>3. open[k] \in [fd : Fd, asker : Conn]
      BY <3>1, <3>2, EntryOf
    <3> QED
      BY <3>1, <3>3
  <2>4. got' \in [Conn -> SUBSET Conn]
    BY <2>1, <2>3 DEF ServerInv, TypeOK
  <2>5. /\ cstate' \in [Conn -> {"IDLE", "HDR_RECVD", "REMOVE", "REMOVE_BUF"}]
        /\ BufferHasHeader'
    BY <2>1, <2>2 DEF ServerInv, TypeOK, BufferHasHeader, HasBuffer, Mark
  <2>6. open' \in Seq([fd : Fd, asker : Conn])
    BY <2>1
  <2> QED
    BY <2>1, <2>2, <2>4, <2>5, <2>6, ServedInv
<1>10. ASSUME NEW x \in Conn, DeliverNotify(c, i, x) PROVE ServerInv'
  <2>1. /\ Deliver(c, i, x, "NTFY") /\ Removed(c) /\ UNCHANGED <<got, cstate, open>>
    BY <1>10 DEF DeliverNotify
  <2>2. /\ At(c, i) /\ Step(c) /\ pack[c] \in Conn /\ sock[c] \in Fd
        /\ pipe' \in [Conn -> Seq(Portion)] /\ pack' \in [Conn -> Conn \cup {None}]
        /\ UNCHANGED <<far, sock, pc, fds, revents, accepts, pack>>
    BY <2>1, DeliverIs
  <2>3. BufferHasHeader'
    BY <2>1, <2>2 DEF ServerInv, BufferHasHeader, HasBuffer
  <2> QED
    BY <2>1, <2>2, <2>3, ServedInv DEF ServerInv, TypeOK
<1> QED
  BY <1>1, <1>2, <1>3, <1>4, <1>5, <1>6, <1>7, <1>8, <1>9, <1>10

\* What the far ends and the second thread do leaves the loop alone.
LEMMA FarKeeps ==
    ASSUME ServerInv, setting' = setting,
           NEW c \in Conn, Connect(c) \/ Prepend(c) \/ \E x \in Portion : Send(c, x)
    PROVE  ServerInv'
<1>1. CASE Connect(c)
  <2>1. /\ far' = [far EXCEPT ![c] = "queued"]
        /\ UNCHANGED <<pipe, got, list_vars, open, loop_vars>>
    BY <1>1 DEF Connect
  <2>2. far' \in [Conn -> {"new", "queued"} \cup Portion] /\ NewHasNoSocket'
    BY <2>1 DEF ServerInv, TypeOK, NewHasNoSocket, list_vars
  <2> QED
    BY <2>1, <2>2 DEF list_vars, loop_vars, ServerInv, TypeOK, WalkStaysOnList, ListInv,
                      BufferHasHeader, NothingReported, HasBuffer
<1>2. ASSUME NEW x \in Portion, Send(c, x) PROVE ServerInv'
  <2>1. /\ far' = [far EXCEPT ![c] = x] /\ pipe' = [pipe EXCEPT ![c] = Append(@, x)]
        /\ UNCHANGED <<got, list_vars, open, loop_vars>>
        /\ far[c] # "new"
    BY <1>2 DEF Send
  <2>2. far' \in [Conn -> {"new", "queued"} \cup Portion] /\ NewHasNoSocket'
    BY <2>1 DEF ServerInv, TypeOK, NewHasNoSocket, list_vars, Portion
  <2>3. pipe' \in [Conn -> Seq(Portion)]
    <3>1. Append(pipe[c], x) \in Seq(Portion)
      BY DEF ServerInv, TypeOK
    <3> QED
      BY <2>1, <3>1 DEF ServerInv, TypeOK
  <2> QED
    BY <2>1, <2>2, <2>3 DEF list_vars, loop_vars, ServerInv, TypeOK, WalkStaysOnList, ListInv,
                            BufferHasHeader, NothingReported, HasBuffer
<1>3. CASE Prepend(c)
  <2>1. PICK f \in Fd : /\ fdt[f] = None /\ fdt' = [fdt EXCEPT ![f] = c]
                        /\ sock' = [sock EXCEPT ![c] = f]
    BY <1>3 DEF Prepend
  <2>2. /\ clients' = <<c>> \o clients /\ far' = [far EXCEPT ![c] = "queued"]
        /\ UNCHANGED <<pipe, got, cstate, pack, open, loop_vars>>
        /\ far[c] = "new" /\ sock[c] = None
    BY <1>3 DEF Prepend, ServerInv, NewHasNoSocket
  <2>3. /\ ListInv'
        /\ Len(clients') = Len(clients) + 1 /\ clients'[1] = c
        /\ \A k \in 2 .. Len(clients) + 1 : clients'[k] = clients[k - 1]
    BY <2>1, <2>2, AddedKeeps DEF ServerInv
  <2>4. WalkStaysOnList'
    <3> SUFFICES ASSUME pc = "walk", cur.c # None PROVE Contains(clients', cur.c)
      BY <2>2 DEF loop_vars, WalkStaysOnList
    <3>1. PICK k \in 1 .. Len(clients) : clients[k] = cur.c
      BY DEF ServerInv, WalkStaysOnList, Contains
    <3>2. Len(clients) \in Nat
      BY DEF ServerInv, ListInv
    <3>3. k + 1 \in 2 .. Len(clients) + 1 /\ (k + 1) - 1 = k
      BY <3>2
    <3>4. clients'[k + 1] = cur.c /\ k + 1 \in 1 .. Len(clients')
      BY <2>3, <3>1, <3>2, <3>3
    <3> QED
      BY <3>4 DEF Contains
  <2>5. far' \in [Conn -> {"new", "queued"} \cup Portion] /\ NewHasNoSocket'
    BY <2>1, <2>2 DEF ServerInv, TypeOK, NewHasNoSocket
  <2> QED
    BY <2>2, <2>3, <2>4, <2>5 DEF loop_vars, ServerInv, TypeOK, ListInv,
                                  BufferHasHeader, NothingReported, HasBuffer
<1> QED
  BY <1>1, <1>2, <1>3

\* The loop outside the walk.
LEMMA LoopKeeps ==
    ASSUME ServerInv, setting' = setting,
           Fill \/ Poll \/ ReadPastArray \/ WalkDone \/ Sweep \/ Accept
    PROVE  ServerInv'
<1>1. CASE Fill
  <2>1. /\ fds' = [k \in DOMAIN clients |-> sock[clients[k]]] /\ pc = "fill" /\ pc' = "poll"
        /\ UNCHANGED <<far_vars, list_vars, open, revents, accepts, cur>>
    BY <1>1 DEF Fill
  <2>2. DOMAIN clients = 1 .. Len(clients) /\ Len(clients) \in Nat
    BY DEF ServerInv, ListInv
  <2>3. fds' \in Seq(Fd)
    BY <2>1, <2>2 DEF ServerInv, ListInv
  <2>4. revents = {}
    BY <2>1 DEF ServerInv, NothingReported
  <2> QED
    BY <2>1, <2>3, <2>4 DEF far_vars, list_vars, ServerInv, TypeOK, WalkStaysOnList, ListInv,
                            NewHasNoSocket, BufferHasHeader, NothingReported, HasBuffer
<1>2. CASE Poll
  <2>1. /\ revents' = {k \in DOMAIN fds : pipe[fdt[fds[k]]] # <<>>}
        /\ accepts' = \E c \in Conn : far[c] # "new" /\ sock[c] = None
        /\ pc' = "walk" /\ cur' = [i |-> 1, c |-> First(clients)]
        /\ UNCHANGED <<far_vars, list_vars, open, fds>>
    BY <1>2 DEF Poll
  <2>2. /\ First(clients) \in Conn \cup {None}
        /\ First(clients) # None => Contains(clients, First(clients))
    BY DEF ServerInv, ListInv, First, Contains
  <2>3. accepts' \in BOOLEAN /\ revents' \subseteq DOMAIN fds
    BY <2>1
  <2>4. cur' \in [i : Nat, c : Conn \cup {None}] /\ WalkStaysOnList'
    BY <2>1, <2>2 DEF list_vars, WalkStaysOnList
  <2> QED
    BY <2>1, <2>3, <2>4 DEF far_vars, list_vars, ServerInv, TypeOK, ListInv,
                            NewHasNoSocket, BufferHasHeader, NothingReported, HasBuffer
<1>3. CASE WalkDone
  <2>1. /\ pc' = "sweep" /\ fds' = <<>> /\ revents' = {} /\ cur' = [i |-> 0, c |-> None]
        /\ UNCHANGED <<far_vars, list_vars, open, accepts>>
    BY <1>3 DEF WalkDone
  <2>2. fds' \in Seq(Fd) /\ revents' \subseteq DOMAIN fds'
    BY <2>1
  <2> QED
    BY <2>1, <2>2 DEF far_vars, list_vars, ServerInv, TypeOK, WalkStaysOnList, ListInv,
                      NewHasNoSocket, BufferHasHeader, NothingReported, HasBuffer
<1>4. CASE Sweep
  <2>1. /\ pc = "sweep" /\ pc' \in {"sweep", "accept"}
        /\ UNCHANGED <<far_vars, sock, cstate, pack, open, fds, revents, accepts, cur>>
        /\ \/ \E k \in DOMAIN clients : Removed(clients[k])
           \/ UNCHANGED <<clients, fdt>>
    BY <1>4 DEF Sweep
  <2>2. ListInv'
    BY <2>1, RemovedKeeps DEF ServerInv, ListInv
  <2> QED
    BY <2>1, <2>2 DEF far_vars, ServerInv, TypeOK, WalkStaysOnList, ListInv,
                      NewHasNoSocket, BufferHasHeader, NothingReported, HasBuffer
<1>5. CASE Accept
  <2>1. /\ pc = "accept" /\ pc' = "fill" /\ accepts' = FALSE
        /\ UNCHANGED <<far_vars, cstate, pack, open, fds, revents, cur>>
    BY <1>5 DEF Accept
  <2>2. CASE UNCHANGED <<fdt, sock, clients>>
    BY <2>1, <2>2 DEF far_vars, ServerInv, TypeOK, WalkStaysOnList, ListInv,
                      NewHasNoSocket, BufferHasHeader, NothingReported, HasBuffer
  <2>3. ASSUME NEW c \in Conn, NEW f \in Fd, far[c] # "new", sock[c] = None, fdt[f] = None,
               fdt' = [fdt EXCEPT ![f] = c], sock' = [sock EXCEPT ![c] = f],
               clients' = <<c>> \o clients
        PROVE  ServerInv'
    <3>1. ListInv'
      BY <2>3, AddedKeeps DEF ServerInv
    <3>2. NewHasNoSocket'
      BY <2>1, <2>3 DEF far_vars, ServerInv, NewHasNoSocket, ListInv
    <3> QED
      BY <2>1, <3>1, <3>2 DEF far_vars, ServerInv, TypeOK, WalkStaysOnList, ListInv,
                              BufferHasHeader, NothingReported, HasBuffer
  <2> QED
    BY <1>5, <2>2, <2>3 DEF Accept
<1>6. CASE ReadPastArray
  <2>1. pc' = "dead" /\ UNCHANGED <<far_vars, list_vars, open, fds, revents, accepts, cur>>
    BY <1>6 DEF ReadPastArray
  <2> QED
    BY <2>1 DEF far_vars, list_vars, ServerInv, TypeOK, WalkStaysOnList, ListInv,
                NewHasNoSocket, BufferHasHeader, NothingReported, HasBuffer
<1> QED
  BY <1>1, <1>2, <1>3, <1>4, <1>5, <1>6

\* The invariant holds at first.
LEMMA InitKeeps == Init => ServerInv
<1> SUFFICES ASSUME Init PROVE ServerInv
  OBVIOUS
<1>1. /\ <<>> \in Seq(Conn) /\ <<>> \in Seq(Portion) /\ <<>> \in Seq(Fd)
      /\ <<>> \in Seq([fd : Fd, asker : Conn]) /\ Len(<<>>) = 0 /\ DOMAIN <<>> = {}
  OBVIOUS
<1>2. TypeOK
  BY <1>1 DEF Init, TypeOK
<1>3. ListInv
  BY <1>1, <1>2 DEF Init, ListInv, OnceEach, TypeOK
<1>4. WalkStaysOnList /\ NewHasNoSocket /\ BufferHasHeader /\ NothingReported
  BY DEF Init, WalkStaysOnList, NewHasNoSocket, BufferHasHeader, HasBuffer, NothingReported
<1> QED
  BY <1>2, <1>3, <1>4 DEF ServerInv

\* And every step keeps it.
LEMMA NextKeeps == ServerInv /\ [Next]_vars => ServerInv'
<1> SUFFICES ASSUME ServerInv, [Next]_vars PROVE ServerInv'
  OBVIOUS
<1>1. CASE UNCHANGED vars
  BY <1>1 DEF vars, far_vars, list_vars, loop_vars, ServerInv, TypeOK, WalkStaysOnList, ListInv,
              NewHasNoSocket, BufferHasHeader, NothingReported, HasBuffer
<1>2. CASE Next
  BY <1>2, FarKeeps, LoopKeeps, WalkKeeps DEF Next, AnyStep, Loop
<1> QED
  BY <1>1, <1>2

\* The list of clients, the array for poll and the place of the walk stay
\* well formed, whatever callbacks remove and the second thread inserts
\* (server.c:119-223).
THEOREM ServerInvariant == Spec => []ServerInv
BY InitKeeps, NextKeeps, PTL DEF Spec

\* The loop never stands on a client that has been freed.
THEOREM ListIsWellFormed == Spec => []WellFormed
<1>1. ServerInv => WellFormed
  BY DEF ServerInv, WellFormed
<1> QED
  BY <1>1, ServerInvariant, PTL
-----------------------------------------------------------------------------
(* Orderly settings: what has been read of each connection *)

\* Nothing has been read, and who does not wait for an answer may have
\* closed the connection.
Unread(c) ==
    /\ cstate[c] = "IDLE" /\ got[c] = {}
    /\ \/ far[c] \in {"new", "queued"} /\ pipe[c] = <<>>
       \/ far[c] = "hdr" /\ pipe[c] = <<"hdr">>
       \/ far[c] = "body" /\ pipe[c] = <<"hdr", "body">>
       \/ /\ far[c] = "eof" /\ pipe[c] = <<"hdr", "body", "eof">>
          /\ Kind[c] \in {"RPLY", "NTFY"}

\* The header has been read.
HalfRead(c) ==
    /\ cstate[c] = "HDR_RECVD" /\ pack[c] = c /\ got[c] = {}
    /\ \/ far[c] = "hdr" /\ pipe[c] = <<>>
       \/ far[c] = "body" /\ pipe[c] = <<"body">>
       \/ far[c] = "eof" /\ pipe[c] = <<"body", "eof">> /\ Kind[c] \in {"RPLY", "NTFY"}

\* An open request r: its asker is in the list with the request's socket, has
\* sent everything and waits.
AsksFor(r) ==
    /\ Contains(clients, r.asker) /\ sock[r.asker] = r.fd
    /\ Kind[r.asker] = "ASK" /\ cstate[r.asker] = "IDLE" /\ got[r.asker] = {}
    /\ far[r.asker] = "body" /\ pipe[r.asker] = <<>>

Waits(c) == \E k \in DOMAIN open : open[k].asker = c

\* The answer has been sent in this round: the sweep removes the client.
Answered(c) == cstate[c] = "REMOVE" /\ pc \in {"walk", "sweep"}

OpenInv == \A k \in DOMAIN open : AsksFor(open[k])

Phases == \A c \in Conn :
    /\ sock[c] = None => Unread(c)
    /\ Contains(clients, c) => Unread(c) \/ HalfRead(c) \/ Waits(c) \/ Answered(c)

\* How many clients this walk has removed.
Shift == Len(fds) - Len(clients)

\* The k-th client, which the walk has not reached, and its entry in the array.
Ahead(k) ==
    /\ fds[k + Shift] = sock[clients[k]]
    /\ k + Shift \in revents => pipe[clients[k]] # <<>> /\ cstate[clients[k]] # "REMOVE"

Walking == pc = "walk" =>
    /\ cur.c # None => cur.i - Shift \in DOMAIN clients /\ clients[cur.i - Shift] = cur.c
    /\ \A k \in DOMAIN clients : k + Shift >= cur.i => Ahead(k)

Polling == pc = "poll" =>
    /\ Len(fds) = Len(clients) /\ \A k \in DOMAIN clients : fds[k] = sock[clients[k]]

OrderState == OpenInv /\ Phases /\ Walking /\ Polling /\ pc # "dead"

OrderInv == Orderly => OrderState

\* Two portions written as a sequence.
LEMMA AppendOne ==
    ASSUME NEW S, NEW a \in S, NEW b \in S
    PROVE  Append(<<a>>, b) = <<a, b>>
<1>1. <<a>> \in Seq(S) /\ Len(<<a>>) = 1 /\ <<a>>[1] = a
  OBVIOUS
<1>2. <<a, b>> \in Seq(S) /\ Len(<<a, b>>) = 2 /\ <<a, b>>[1] = a /\ <<a, b>>[2] = b
  OBVIOUS
<1>3. /\ Append(<<a>>, b) \in Seq(S) /\ Len(Append(<<a>>, b)) = Len(<<a>>) + 1
      /\ \A i \in 1 .. Len(<<a>>) : Append(<<a>>, b)[i] = <<a>>[i]
      /\ Append(<<a>>, b)[Len(<<a>>) + 1] = b
  BY <1>1, SeqFacts!AppendProperties
<1>4. \A i \in 1 .. Len(Append(<<a>>, b)) : Append(<<a>>, b)[i] = <<a, b>>[i]
  BY <1>1, <1>2, <1>3
<1>5. Len(Append(<<a>>, b)) = Len(<<a, b>>)
  BY <1>1, <1>2, <1>3
<1> QED
  BY <1>2, <1>3, <1>4, <1>5, SeqFacts!SeqEqual

\* And three.
LEMMA AppendTwo ==
    ASSUME NEW S, NEW a \in S, NEW b \in S, NEW c \in S
    PROVE  Append(<<a, b>>, c) = <<a, b, c>>
<1>1. <<a, b>> \in Seq(S) /\ Len(<<a, b>>) = 2 /\ <<a, b>>[1] = a /\ <<a, b>>[2] = b
  OBVIOUS
<1>2. /\ <<a, b, c>> \in Seq(S) /\ Len(<<a, b, c>>) = 3
      /\ <<a, b, c>>[1] = a /\ <<a, b, c>>[2] = b /\ <<a, b, c>>[3] = c
  OBVIOUS
<1>3. /\ Append(<<a, b>>, c) \in Seq(S) /\ Len(Append(<<a, b>>, c)) = Len(<<a, b>>) + 1
      /\ \A i \in 1 .. Len(<<a, b>>) : Append(<<a, b>>, c)[i] = <<a, b>>[i]
      /\ Append(<<a, b>>, c)[Len(<<a, b>>) + 1] = c
  BY <1>1, SeqFacts!AppendProperties
<1>4. \A i \in 1 .. Len(Append(<<a, b>>, c)) : Append(<<a, b>>, c)[i] = <<a, b, c>>[i]
  BY <1>1, <1>2, <1>3
<1>5. Len(Append(<<a, b>>, c)) = Len(<<a, b, c>>)
  BY <1>1, <1>2, <1>3
<1> QED
  BY <1>2, <1>3, <1>4, <1>5, SeqFacts!SeqEqual

\* Portions one after the other.
LEMMA Portions ==
    /\ Append(<<>>, "hdr") = <<"hdr">> /\ Append(<<"hdr">>, "body") = <<"hdr", "body">>
    /\ Append(<<"hdr", "body">>, "eof") = <<"hdr", "body", "eof">>
    /\ Append(<<>>, "body") = <<"body">> /\ Append(<<"body">>, "eof") = <<"body", "eof">>
    /\ <<"hdr">> # <<>> /\ <<"hdr", "body">> # <<>> /\ <<"hdr", "body", "eof">> # <<>>
    /\ <<"body">> # <<>> /\ <<"body", "eof">> # <<>>
    /\ Head(<<"hdr">>) = "hdr" /\ Head(<<"hdr", "body">>) = "hdr"
    /\ Head(<<"hdr", "body", "eof">>) = "hdr"
    /\ Head(<<"body">>) = "body" /\ Head(<<"body", "eof">>) = "body"
    /\ Tail(<<"hdr">>) = <<>> /\ Tail(<<"hdr", "body">>) = <<"body">>
    /\ Tail(<<"hdr", "body", "eof">>) = <<"body", "eof">>
    /\ Tail(<<"body">>) = <<>> /\ Tail(<<"body", "eof">>) = <<"eof">>
<1>p. "hdr" \in Portion /\ "body" \in Portion /\ "eof" \in Portion
  BY DEF Portion
<1>1. /\ Append(<<>>, "hdr") = <<"hdr">> /\ Append(<<>>, "body") = <<"body">>
  OBVIOUS
<1>2. Append(<<"hdr">>, "body") = <<"hdr", "body">>
  BY <1>p, AppendOne
<1>3. Append(<<"body">>, "eof") = <<"body", "eof">>
  BY <1>p, AppendOne
<1>4. Append(<<"hdr", "body">>, "eof") = <<"hdr", "body", "eof">>
  BY <1>p, AppendTwo
<1>5. /\ <<"hdr">> # <<>> /\ <<"hdr", "body">> # <<>> /\ <<"hdr", "body", "eof">> # <<>>
      /\ <<"body">> # <<>> /\ <<"body", "eof">> # <<>>
  OBVIOUS
<1>6. /\ Head(<<"hdr">>) = "hdr" /\ Head(<<"hdr", "body">>) = "hdr"
      /\ Head(<<"hdr", "body", "eof">>) = "hdr"
      /\ Head(<<"body">>) = "body" /\ Head(<<"body", "eof">>) = "body"
  OBVIOUS
<1>7. /\ Tail(<<"hdr">>) = <<>> /\ Tail(<<"body">>) = <<>>
  OBVIOUS
<1>8. Tail(<<"hdr", "body">>) = <<"body">>
  OBVIOUS
<1>9. Tail(<<"body", "eof">>) = <<"eof">>
  OBVIOUS
<1>10. Tail(<<"hdr", "body", "eof">>) = <<"body", "eof">>
  OBVIOUS
<1> QED
  BY <1>1, <1>2, <1>3, <1>4, <1>5, <1>6, <1>7, <1>8, <1>9, <1>10
-----------------------------------------------------------------------------
(* Orderly settings: steps that concern one connection *)

\* Nothing happens to the connection d.
Same(d) ==
    /\ far'[d] = far[d] /\ pipe'[d] = pipe[d] /\ got'[d] = got[d]
    /\ cstate'[d] = cstate[d] /\ pack'[d] = pack[d] /\ sock'[d] = sock[d]

\* Who waits is a connection.
LEMMA WaitsIsConn ==
    ASSUME ServerInv, NEW k \in DOMAIN open
    PROVE  open[k].asker \in Conn /\ open[k].fd \in Fd
<1>1. open \in Seq([fd : Fd, asker : Conn])
  BY DEF ServerInv, TypeOK
<1>2. open[k] \in [fd : Fd, asker : Conn]
  BY <1>1, EntryOf
<1> QED
  BY <1>2

\* What is said of a connection and of an open request stays true when
\* nothing happens to them.
LEMMA SameKeeps ==
    ASSUME NEW d \in Conn, Same(d)
    PROVE  (Unread(d)' <=> Unread(d)) /\ (HalfRead(d)' <=> HalfRead(d))
BY DEF Same, Unread, HalfRead

LEMMA SameAsks ==
    ASSUME NEW r, AsksFor(r), Same(r.asker), Contains(clients', r.asker)
    PROVE  AsksFor(r)'
BY DEF Same, AsksFor

\* No open request is touched.
LEMMA OpenStays ==
    ASSUME ServerInv, OpenInv, open' = open,
           \A d \in Conn : Waits(d) => Same(d) /\ Contains(clients', d)
    PROVE  OpenInv'
<1> SUFFICES ASSUME NEW k \in DOMAIN open PROVE AsksFor(open[k])'
  BY DEF OpenInv
<1>1. PICK r : r = open[k]
  OBVIOUS
<1>2. AsksFor(r) /\ r.asker \in Conn /\ Waits(r.asker)
  BY <1>1, WaitsIsConn DEF OpenInv, Waits
<1>3. AsksFor(r)'
  BY <1>2, SameAsks
<1> QED
  BY <1>1, <1>3 DEF AsksFor

\* Only the connection c is touched.
LEMMA PhasesStay ==
    ASSUME Phases, open' = open, NEW c \in Conn, pc' = pc,
           \A d \in Conn : d # c => Same(d) /\ (Contains(clients', d) => Contains(clients, d)),
           sock'[c] = None => Unread(c)',
           Contains(clients', c) => Unread(c)' \/ HalfRead(c)' \/ Waits(c)' \/ Answered(c)'
    PROVE  Phases'
<1> SUFFICES ASSUME NEW d \in Conn
             PROVE  /\ sock'[d] = None => Unread(d)'
                    /\ Contains(clients', d) =>
                         Unread(d)' \/ HalfRead(d)' \/ Waits(d)' \/ Answered(d)'
  BY DEF Phases
<1>1. CASE d = c
  BY <1>1
<1>2. CASE d # c
  <2>1. /\ Same(d) /\ (Contains(clients', d) => Contains(clients, d))
        /\ sock'[d] = sock[d]
    BY <1>2 DEF Same
  <2>2. (Unread(d)' <=> Unread(d)) /\ (HalfRead(d)' <=> HalfRead(d))
    BY <2>1, SameKeeps
  <2>3. (Waits(d)' <=> Waits(d)) /\ (Answered(d)' <=> Answered(d))
    BY <2>1 DEF Waits, Answered, Same
  <2> QED
    BY <2>1, <2>2, <2>3 DEF Phases
<1> QED
  BY <1>1, <1>2

\* Who is left in the list when one client is removed.
LEMMA RestOfList ==
    ASSUME ListInv, NEW k \in DOMAIN clients, Removed(clients[k])
    PROVE  \A d : Contains(clients', d) <=> Contains(clients, d) /\ d # clients[k]
<1>1. /\ clients' \in Seq(Conn) /\ Len(clients') = Len(clients) - 1
      /\ \A j \in 1 .. Len(clients) - 1 :
            clients'[j] = IF j < k THEN clients[j] ELSE clients[j + 1]
  BY RemovedIs
<1>2. Len(clients) \in Nat /\ DOMAIN clients = 1 .. Len(clients) /\ k \in 1 .. Len(clients)
  BY DEF ListInv
<1> SUFFICES ASSUME NEW d PROVE Contains(clients', d) <=> Contains(clients, d) /\ d # clients[k]
  OBVIOUS
<1>3. ASSUME Contains(clients', d) PROVE Contains(clients, d) /\ d # clients[k]
  <2>1. PICK j \in 1 .. Len(clients) - 1 : clients'[j] = d
    BY <1>1, <1>3 DEF Contains
  <2>2. CASE j < k
    <3>1. j \in 1 .. Len(clients) /\ j # k /\ clients[j] = d
      BY <1>1, <1>2, <2>1, <2>2
    <3> QED
      BY <1>2, <3>1 DEF Contains, ListInv, OnceEach
  <2>3. CASE ~(j < k)
    <3>1. j + 1 \in 1 .. Len(clients) /\ j + 1 # k /\ clients[j + 1] = d
      BY <1>1, <1>2, <2>1, <2>3
    <3> QED
      BY <1>2, <3>1 DEF Contains, ListInv, OnceEach
  <2> QED
    BY <2>2, <2>3
<1>4. ASSUME Contains(clients, d), d # clients[k] PROVE Contains(clients', d)
  <2>1. PICK m \in 1 .. Len(clients) : clients[m] = d
    BY <1>4 DEF Contains
  <2>2. m # k
    BY <1>4, <2>1
  <2>3. CASE m < k
    <3>1. m \in 1 .. Len(clients) - 1 /\ clients'[m] = d
      BY <1>1, <1>2, <2>1, <2>3
    <3> QED
      BY <1>1, <3>1 DEF Contains
  <2>4. CASE m > k
    <3>1. m - 1 \in 1 .. Len(clients) - 1 /\ ~(m - 1 < k) /\ (m - 1) + 1 = m
      BY <1>2, <2>4
    <3>2. clients'[m - 1] = d
      BY <1>1, <2>1, <3>1
    <3> QED
      BY <1>1, <3>1, <3>2 DEF Contains
  <2> QED
    BY <1>2, <2>2, <2>3, <2>4
<1> QED
  BY <1>3, <1>4

\* Where the walk stands: what it reads belongs to the client it serves, who
\* has not read all of it.
LEMMA ServedOwn ==
    ASSUME ServerInv, OrderState, NEW c \in Conn, NEW i, At(c, i)
    PROVE  /\ \E k \in DOMAIN clients : clients[k] = c /\ k + Shift = cur.i
           /\ i = cur.i /\ Contains(clients, c) /\ sock[c] \in Fd /\ fdt[sock[c]] = c
           /\ i \in revents => /\ fdt[fds[i]] = c /\ pipe[c] # <<>> /\ cstate[c] # "REMOVE"
                               /\ Unread(c) \/ HalfRead(c)
<1>1. /\ pc = "walk" /\ cur.i = i /\ cur.c = c /\ c # None
  BY DEF At
<1>2. /\ Len(clients) \in Nat /\ Len(fds) \in Nat /\ DOMAIN clients = 1 .. Len(clients)
      /\ i \in Nat
  BY <1>1 DEF ServerInv, ListInv, TypeOK
<1>3. PICK k \in DOMAIN clients : clients[k] = c /\ k = cur.i - Shift
  BY <1>1 DEF OrderState, Walking
<1>4. k + Shift = cur.i
  BY <1>1, <1>2, <1>3 DEF Shift
<1>5. Ahead(k)
  BY <1>1, <1>2, <1>4 DEF OrderState, Walking, Shift
<1>6. Contains(clients, c) /\ sock[c] \in Fd /\ fdt[sock[c]] = c
  BY <1>2, <1>3 DEF ServerInv, ListInv, Contains
<1>7. ASSUME i \in revents
      PROVE  /\ fdt[fds[i]] = c /\ pipe[c] # <<>> /\ cstate[c] # "REMOVE"
             /\ Unread(c) \/ HalfRead(c)
  <2>1. fds[i] = sock[c] /\ pipe[c] # <<>> /\ cstate[c] # "REMOVE"
    BY <1>1, <1>3, <1>4, <1>5, <1>7 DEF Ahead
  <2>2. ~Waits(c)
    BY <2>1 DEF Waits, OrderState, OpenInv, AsksFor
  <2>3. ~Answered(c)
    BY <2>1 DEF Answered
  <2> QED
    BY <1>6, <2>1, <2>2, <2>3 DEF OrderState, Phases
<1> QED
  BY <1>1, <1>3, <1>4, <1>6, <1>7

\* A step of the walk that serves c and goes on leaves the clients ahead as
\* they are, but for marking some that have nothing to read.
LEMMA ServedWalking ==
    ASSUME ServerInv, OrderState, NEW c \in Conn, NEW i, At(c, i), Step(c),
           (clients' = clients /\ fdt' = fdt) \/ Removed(c),
           UNCHANGED <<sock, pc, fds, revents>>,
           \A d \in Conn : d # c => /\ pipe'[d] = pipe[d]
                                    /\ cstate'[d] = cstate[d] \/ pipe[d] = <<>>
    PROVE  Walking' /\ Polling' /\ pc' # "dead"
<1>1. PICK k \in DOMAIN clients : clients[k] = c /\ k + Shift = cur.i
  BY ServedOwn
<1>2. /\ Len(clients) \in Nat /\ Len(fds) \in Nat /\ DOMAIN clients = 1 .. Len(clients)
      /\ ListInv /\ cur.i \in Nat /\ pc = "walk"
  BY DEF ServerInv, ListInv, TypeOK, At
<1>3. Place(clients, c) = k
  BY <1>1, <1>2, PlaceIs DEF ListInv
<1>4. /\ cur'.i = cur.i + 1
      /\ cur'.c = IF k < Len(clients) THEN clients[k + 1] ELSE None
  BY <1>3 DEF Step, After
<1>5. \A j \in DOMAIN clients : j > k => Ahead(j) /\ clients[j] \in Conn /\ clients[j] # c
  <2> SUFFICES ASSUME NEW j \in DOMAIN clients, j > k
               PROVE  Ahead(j) /\ clients[j] \in Conn /\ clients[j] # c
    OBVIOUS
  <2>1. j + Shift >= cur.i
    BY <1>1, <1>2 DEF Shift
  <2> QED
    BY <1>1, <1>2, <2>1 DEF OrderState, Walking, ListInv, OnceEach
<1>6. \A j \in DOMAIN clients : j > k =>
         /\ fds'[j + Shift] = sock'[clients[j]]
         /\ j + Shift \in revents' => pipe'[clients[j]] # <<>> /\ cstate'[clients[j]] # "REMOVE"
  BY <1>5 DEF Ahead
<1>7. CASE clients' = clients /\ fdt' = fdt
  <2>1. Shift' = Shift
    BY <1>7 DEF Shift
  <2>2. cur'.c # None => cur'.i - Shift' \in DOMAIN clients' /\ clients'[cur'.i - Shift'] = cur'.c
    <3> SUFFICES ASSUME cur'.c # None
                 PROVE  cur'.i - Shift' \in DOMAIN clients' /\ clients'[cur'.i - Shift'] = cur'.c
      OBVIOUS
    <3>1. k < Len(clients) /\ cur'.c = clients[k + 1]
      BY <1>4
    <3>2. cur'.i - Shift' = k + 1 /\ k + 1 \in DOMAIN clients
      BY <1>1, <1>2, <1>4, <2>1, <3>1 DEF Shift
    <3> QED
      BY <1>7, <3>1, <3>2
  <2>3. \A j \in DOMAIN clients' : j + Shift' >= cur'.i => Ahead(j)'
    <3> SUFFICES ASSUME NEW j \in DOMAIN clients, j + Shift >= cur'.i
                 PROVE  Ahead(j)'
      BY <1>7, <2>1
    <3>1. j > k
      BY <1>1, <1>2, <1>4 DEF Shift
    <3> QED
      BY <1>6, <1>7, <2>1, <3>1 DEF Ahead
  <2> QED
    BY <1>2, <2>2, <2>3 DEF Walking, Polling
<1>8. CASE Removed(c)
  <2>1. /\ clients' \in Seq(Conn) /\ Len(clients') = Len(clients) - 1
        /\ \A j \in 1 .. Len(clients) - 1 :
              clients'[j] = IF j < k THEN clients[j] ELSE clients[j + 1]
    BY <1>1, <1>2, <1>8, RemovedIs
  <2>2. Shift' = Shift + 1 /\ DOMAIN clients' = 1 .. Len(clients) - 1
    BY <1>2, <2>1 DEF Shift
  <2>3. cur'.c # None => cur'.i - Shift' \in DOMAIN clients' /\ clients'[cur'.i - Shift'] = cur'.c
    <3> SUFFICES ASSUME cur'.c # None
                 PROVE  cur'.i - Shift' \in DOMAIN clients' /\ clients'[cur'.i - Shift'] = cur'.c
      OBVIOUS
    <3>1. k < Len(clients) /\ cur'.c = clients[k + 1]
      BY <1>4
    <3>2. cur'.i - Shift' = k
      BY <1>1, <1>2, <1>4, <2>2 DEF Shift
    <3>3. k \in 1 .. Len(clients) - 1 /\ clients'[k] = clients[k + 1]
      BY <1>1, <1>2, <2>1, <3>1
    <3> QED
      BY <2>2, <3>1, <3>2, <3>3
  <2>4. \A j \in DOMAIN clients' : j + Shift' >= cur'.i => Ahead(j)'
    <3> SUFFICES ASSUME NEW j \in 1 .. Len(clients) - 1, j + Shift' >= cur'.i
                 PROVE  Ahead(j)'
      BY <2>2
    <3>3. /\ Shift \in Int /\ j \in Int /\ k \in Int /\ cur.i \in Int /\ j + 1 \in DOMAIN clients
          /\ k + Shift = cur.i /\ cur'.i = cur.i + 1 /\ Shift' = Shift + 1
      BY <1>1, <1>2, <1>4, <2>2 DEF Shift
    <3>4. j + (Shift + 1) >= cur.i + 1
      BY <3>3
    <3>1. /\ j >= k /\ j + 1 > k /\ j + 1 \in DOMAIN clients /\ j + Shift' = (j + 1) + Shift
      BY <3>3, <3>4
    <3>2. clients'[j] = clients[j + 1]
      BY <1>1, <1>2, <2>1, <3>1
    <3> QED
      BY <1>6, <3>1, <3>2 DEF Ahead
  <2> QED
    BY <1>2, <2>3, <2>4 DEF Walking, Polling
<1> QED
  BY <1>7, <1>8

\* A client that is removed has asked nothing that is still open.
LEMMA RemovedOrder ==
    ASSUME ServerInv, OrderState, NEW c \in Conn, NEW i, At(c, i), Step(c), Removed(c),
           UNCHANGED <<sock, pc, fds, revents, open, cstate>>, ~Waits(c),
           \A d \in Conn : d # c => Same(d)
    PROVE  OrderState'
<1>1. Contains(clients, c) /\ sock[c] \in Fd
  BY ServedOwn
<1>2. \A d : Contains(clients', d) <=> Contains(clients, d) /\ d # c
  <2>1. PICK k \in DOMAIN clients : clients[k] = c
    BY ServedOwn
  <2> QED
    BY <2>1, RestOfList DEF ServerInv
<1>3. OpenInv'
  <2>1. \A d \in Conn : Waits(d) => d # c /\ Contains(clients, d)
    BY DEF Waits, OrderState, OpenInv, AsksFor
  <2> QED
    BY <1>2, <2>1, OpenStays DEF OrderState
<1>4. Phases'
  <2>1. sock'[c] # None
    BY <1>1, ServerAssumption
  <2> QED
    BY <1>2, <2>1, PhasesStay DEF OrderState
<1>5. Walking' /\ Polling' /\ pc' # "dead"
  <2>1. \A d \in Conn : d # c => /\ pipe'[d] = pipe[d]
                                 /\ cstate'[d] = cstate[d] \/ pipe[d] = <<>>
    BY DEF Same
  <2> QED
    BY <2>1, ServedWalking
<1> QED
  BY <1>3, <1>4, <1>5 DEF OrderState

\* A client whose body is read has asked nothing yet; the body is its own.
LEMMA DeliverOrder ==
    ASSUME ServerInv, OrderState, NEW c \in Conn, NEW i, NEW x \in Conn, NEW kind,
           Deliver(c, i, x, kind)
    PROVE  /\ HalfRead(c) /\ x = c /\ pack[c] = c /\ Kind[c] = kind
           /\ ~Waits(c) /\ pipe[c] # <<>>
           /\ pipe' = [pipe EXCEPT ![c] = Tail(@)]
           /\ far[c] = "body" => pipe'[c] = <<>>
           /\ far[c] = "eof" => Kind[c] \in {"RPLY", "NTFY"}
           /\ far[c] \in {"body", "eof"}
<1>1. /\ Recv(c, i, x, "body") /\ HasBuffer(c) /\ Kind[pack[c]] = kind
  BY DEF Deliver
<1>2. /\ At(c, i) /\ i \in revents /\ x = fdt[fds[i]] /\ pipe[x] # <<>>
      /\ pipe' = [pipe EXCEPT ![x] = Tail(@)]
  BY <1>1 DEF Recv
<1>3. x = c /\ (Unread(c) \/ HalfRead(c)) /\ pipe[c] # <<>>
  BY <1>2, ServedOwn
<1>4. HalfRead(c)
  BY <1>1, <1>3 DEF HasBuffer, Unread
<1>5. ~Waits(c)
  BY <1>3 DEF Waits, OrderState, OpenInv, AsksFor
<1>6. /\ far[c] = "body" => pipe'[c] = <<>>
      /\ far[c] = "eof" => Kind[c] \in {"RPLY", "NTFY"}
      /\ far[c] \in {"body", "eof"}
  <2>1. pipe'[c] = Tail(pipe[c])
    BY <1>2, <1>3 DEF ServerInv, TypeOK
  <2> QED
    BY <1>3, <1>4, <2>1, Portions DEF HalfRead
<1> QED
  BY <1>1, <1>2, <1>3, <1>4, <1>5, <1>6 DEF HalfRead

\* The walk in an orderly setting.
LEMMA WalkOrder ==
    ASSUME ServerInv, OrderState, Walk
    PROVE  OrderState'
<1>1. PICK c \in Conn, i \in 1 .. Len(clients) :
         \/ Skip(c, i)
         \/ RecvMarked(c, i)
         \/ \E x \in Conn : \/ RecvHeader(c, i, x)
                            \/ RecvEof(c, i, x)
                            \/ RecvGarbage(c, i, x)
                            \/ DeliverOwn(c, i, x)
                            \/ DeliverAsk(c, i, x)
                            \/ DeliverReply(c, i, x)
                            \/ DeliverNotify(c, i, x)
  BY DEF Walk
<1>t. /\ far \in [Conn -> {"new", "queued"} \cup Portion] /\ pipe \in [Conn -> Seq(Portion)]
      /\ cstate \in [Conn -> {"IDLE", "HDR_RECVD", "REMOVE", "REMOVE_BUF"}]
      /\ got \in [Conn -> SUBSET Conn] /\ pack \in [Conn -> Conn \cup {None}]
      /\ sock \in [Conn -> Fd \cup {None}]
  BY DEF ServerInv, TypeOK
<1>2. CASE Skip(c, i)
  <2>1. /\ At(c, i) /\ Step(c) /\ UNCHANGED <<far, sock, pc, fds, revents, accepts>>
        /\ UNCHANGED <<clients, fdt, pipe, got, cstate, pack, open>>
    BY <1>2 DEF Skip, far_vars, list_vars
  <2>2. Walking' /\ Polling' /\ pc' # "dead"
    BY <2>1, ServedWalking
  <2>3. OpenInv' /\ Phases'
    BY <2>1 DEF OrderState, OpenInv, AsksFor, Phases, Unread, HalfRead, Waits, Answered
  <2> QED
    BY <2>2, <2>3 DEF OrderState
<1>3. CASE RecvMarked(c, i)
  BY <1>3, ServedOwn DEF RecvMarked
<1>4. ASSUME NEW x \in Conn, RecvHeader(c, i, x) PROVE OrderState'
  <2>1. /\ Recv(c, i, x, "hdr") /\ cstate[c] = "IDLE" /\ Step(c)
        /\ cstate' = [cstate EXCEPT ![c] = "HDR_RECVD"] /\ pack' = [pack EXCEPT ![c] = x]
        /\ UNCHANGED <<far, got, clients, fdt, sock, open, pc, fds, revents, accepts>>
    BY <1>4 DEF RecvHeader
  <2>2. /\ At(c, i) /\ i \in revents /\ x = fdt[fds[i]] /\ Head(pipe[x]) = "hdr"
        /\ pipe' = [pipe EXCEPT ![x] = Tail(@)]
    BY <2>1 DEF Recv
  <2>3. /\ x = c /\ (Unread(c) \/ HalfRead(c)) /\ pipe[c] # <<>>
        /\ Contains(clients, c) /\ sock[c] \in Fd
    BY <2>2, ServedOwn
  <2>4. Unread(c)
    BY <2>1, <2>3 DEF HalfRead
  <2>5. /\ pipe'[c] = Tail(pipe[c]) /\ cstate'[c] = "HDR_RECVD" /\ pack'[c] = c
        /\ far'[c] = far[c] /\ got'[c] = got[c] /\ sock'[c] = sock[c]
        /\ \A d \in Conn : d # c => Same(d)
    BY <1>t, <2>1, <2>2, <2>3 DEF Same
  <2>6. HalfRead(c)'
    <3>1. far[c] \in {"hdr", "body", "eof"}
      BY <2>3, <2>4 DEF Unread
    <3> QED
      BY <2>4, <2>5, <3>1, Portions DEF Unread, HalfRead
  <2>7. OpenInv'
    <3>1. \A d \in Conn : Waits(d) => d # c /\ Contains(clients, d)
      BY <2>3 DEF Waits, OrderState, OpenInv, AsksFor
    <3> QED
      BY <2>1, <2>5, <3>1, OpenStays DEF OrderState
  <2>8. Phases'
    <3>1. sock'[c] # None
      BY <2>3, <2>5, ServerAssumption
    <3> QED
      BY <2>1, <2>5, <2>6, <3>1, PhasesStay DEF OrderState
  <2>9. Walking' /\ Polling' /\ pc' # "dead"
    <3>1. \A d \in Conn : d # c => /\ pipe'[d] = pipe[d]
                                   /\ cstate'[d] = cstate[d] \/ pipe[d] = <<>>
      BY <2>5 DEF Same
    <3> QED
      BY <2>1, <2>2, <3>1, ServedWalking
  <2> QED
    BY <2>7, <2>8, <2>9 DEF OrderState
<1>5. ASSUME NEW x \in Conn, RecvEof(c, i, x) PROVE FALSE
  <2>1. Recv(c, i, x, "eof")
    BY <1>5 DEF RecvEof
  <2>2. At(c, i) /\ i \in revents /\ x = fdt[fds[i]] /\ Head(pipe[x]) = "eof"
    BY <2>1 DEF Recv
  <2>3. x = c /\ (Unread(c) \/ HalfRead(c)) /\ pipe[c] # <<>>
    BY <2>2, ServedOwn
  <2> QED
    BY <2>2, <2>3, Portions DEF Unread, HalfRead
<1>6. ASSUME NEW x \in Conn, RecvGarbage(c, i, x) PROVE FALSE
  <2>1. PICK portion \in {"hdr", "body"} :
          /\ Recv(c, i, x, portion)
          /\ portion = "body" => cstate[c] = "IDLE"
          /\ portion = "hdr" => HasBuffer(c)
    BY <1>6 DEF RecvGarbage
  <2>2. At(c, i) /\ i \in revents /\ x = fdt[fds[i]] /\ Head(pipe[x]) = portion
    BY <2>1 DEF Recv
  <2>3. x = c /\ (Unread(c) \/ HalfRead(c)) /\ pipe[c] # <<>>
    BY <2>2, ServedOwn
  <2> QED
    BY <2>1, <2>2, <2>3, Portions DEF Unread, HalfRead, HasBuffer
<1>7. ASSUME NEW x \in Conn, DeliverOwn(c, i, x) PROVE OrderState'
  <2>1. /\ Deliver(c, i, x, "OWN") /\ Removed(c) /\ UNCHANGED <<cstate, open>>
        /\ got' = [y \in Conn |-> IF y \in FarEnd(sock[c])
                                  THEN got[y] \cup {pack[c]} ELSE got[y]]
    BY <1>7 DEF DeliverOwn
  <2>2. At(c, i) /\ Step(c) /\ UNCHANGED <<far, sock, pc, fds, revents, accepts, pack>>
    BY <2>1, DeliverIs
  <2>3. ~Waits(c) /\ pipe' = [pipe EXCEPT ![c] = Tail(@)]
    BY <2>1, DeliverOrder
  <2>4. FarEnd(sock[c]) = {c}
    BY <2>2, ServedOwn DEF FarEnd
  <2>5. \A d \in Conn : d # c => Same(d)
    BY <1>t, <2>1, <2>2, <2>3, <2>4 DEF Same
  <2> QED
    BY <2>1, <2>2, <2>3, <2>5, RemovedOrder
<1>8. ASSUME NEW x \in Conn, DeliverNotify(c, i, x) PROVE OrderState'
  <2>1. Deliver(c, i, x, "NTFY") /\ Removed(c) /\ UNCHANGED <<got, cstate, open>>
    BY <1>8 DEF DeliverNotify
  <2>2. At(c, i) /\ Step(c) /\ UNCHANGED <<far, sock, pc, fds, revents, accepts, pack>>
    BY <2>1, DeliverIs
  <2>3. ~Waits(c) /\ pipe' = [pipe EXCEPT ![c] = Tail(@)]
    BY <2>1, DeliverOrder
  <2>4. \A d \in Conn : d # c => Same(d)
    BY <1>t, <2>1, <2>2, <2>3 DEF Same
  <2> QED
    BY <2>1, <2>2, <2>3, <2>4, RemovedOrder
<1>9. ASSUME NEW x \in Conn, DeliverAsk(c, i, x) PROVE OrderState'
  <2>1. /\ Deliver(c, i, x, "ASK") /\ UNCHANGED <<clients, fdt, got>>
        /\ open' = Append(open, [fd |-> sock[c], asker |-> pack[c]])
        /\ cstate' = [cstate EXCEPT ![c] = "IDLE"]
    BY <1>9 DEF DeliverAsk
  <2>2. At(c, i) /\ Step(c) /\ UNCHANGED <<far, sock, pc, fds, revents, accepts, pack>>
    BY <2>1, DeliverIs
  <2>3. /\ HalfRead(c) /\ pack[c] = c /\ Kind[c] = "ASK" /\ ~Waits(c)
        /\ pipe' = [pipe EXCEPT ![c] = Tail(@)] /\ far[c] = "body" /\ pipe'[c] = <<>>
    <3>1. /\ HalfRead(c) /\ pack[c] = c /\ Kind[c] = "ASK" /\ ~Waits(c)
          /\ pipe' = [pipe EXCEPT ![c] = Tail(@)]
          /\ far[c] = "body" => pipe'[c] = <<>>
          /\ far[c] = "eof" => Kind[c] \in {"RPLY", "NTFY"}
          /\ far[c] \in {"body", "eof"}
      BY <2>1, DeliverOrder
    <3>2. far[c] = "body"
      BY <3>1
    <3> QED
      BY <3>1, <3>2
  <2>4. Contains(clients, c) /\ sock[c] \in Fd
    BY <2>2, ServedOwn
  <2>5. \A d \in Conn : d # c => Same(d)
    BY <1>t, <2>1, <2>2, <2>3 DEF Same
  <2>6. /\ Len(open') = Len(open) + 1 /\ DOMAIN open' = 1 .. Len(open) + 1
        /\ DOMAIN open = 1 .. Len(open) /\ Len(open) \in Nat
        /\ \A k \in 1 .. Len(open) : open'[k] = open[k]
        /\ open'[Len(open) + 1].fd = sock[c] /\ open'[Len(open) + 1].asker = c
    <3>1. open \in Seq([fd : Fd, asker : Conn]) /\ [fd |-> sock[c], asker |-> c] \in [fd : Fd, asker : Conn]
      BY <2>4 DEF ServerInv, TypeOK
    <3>2. open' = Append(open, [fd |-> sock[c], asker |-> c])
      BY <2>1, <2>3
    <3>3. /\ Append(open, [fd |-> sock[c], asker |-> c]) \in Seq([fd : Fd, asker : Conn])
          /\ Len(Append(open, [fd |-> sock[c], asker |-> c])) = Len(open) + 1
          /\ \A k \in 1 .. Len(open) : Append(open, [fd |-> sock[c], asker |-> c])[k] = open[k]
          /\ Append(open, [fd |-> sock[c], asker |-> c])[Len(open) + 1] = [fd |-> sock[c], asker |-> c]
      BY <3>1, SeqFacts!AppendProperties
    <3> QED
      BY <3>1, <3>2, <3>3
  <2>7. OpenInv'
    <3> SUFFICES ASSUME NEW k \in DOMAIN open' PROVE AsksFor(open[k])'
      BY DEF OpenInv
    <3>1. CASE k = Len(open) + 1
      <4>1. open'[k].fd = sock[c] /\ open'[k].asker = c
        BY <2>6, <3>1
      <4>2. /\ Contains(clients', c) /\ sock'[c] = sock[c] /\ cstate'[c] = "IDLE"
            /\ got'[c] = {} /\ far'[c] = "body" /\ pipe'[c] = <<>>
        BY <1>t, <2>1, <2>2, <2>3, <2>4 DEF HalfRead
      <4> QED
        BY <2>3, <4>1, <4>2 DEF AsksFor
    <3>2. CASE k # Len(open) + 1
      <4>1. k \in DOMAIN open /\ open'[k] = open[k]
        BY <2>6, <3>2
      <4>2. PICK r : r = open[k]
        OBVIOUS
      <4>3. AsksFor(r) /\ r.asker \in Conn /\ r.asker # c
        BY <2>3, <4>1, <4>2, WaitsIsConn DEF OrderState, OpenInv, Waits
      <4>4. AsksFor(r)'
        BY <2>1, <2>5, <4>3, SameAsks DEF AsksFor
      <4> QED
        BY <4>1, <4>2, <4>4 DEF AsksFor
    <3> QED
      BY <3>1, <3>2
  <2>8. Phases'
    <3> SUFFICES ASSUME NEW d \in Conn
                 PROVE  /\ sock'[d] = None => Unread(d)'
                        /\ Contains(clients', d) =>
                             Unread(d)' \/ HalfRead(d)' \/ Waits(d)' \/ Answered(d)'
      BY DEF Phases
    <3>1. CASE d = c
      <4>1. Waits(d)'
        BY <2>6, <3>1 DEF Waits
      <4>2. sock'[d] # None
        BY <2>2, <2>4, <3>1, ServerAssumption
      <4> QED
        BY <4>1, <4>2
    <3>2. CASE d # c
      <4>1. Same(d) /\ (Unread(d)' <=> Unread(d)) /\ (HalfRead(d)' <=> HalfRead(d))
        BY <2>5, <3>2, SameKeeps
      <4>2. Waits(d) => Waits(d)'
        BY <2>6 DEF Waits
      <4>3. /\ Answered(d)' <=> Answered(d)
            /\ sock'[d] = sock[d] /\ clients' = clients
        BY <2>1, <2>2, <4>1 DEF Answered, Same
      <4> QED
        BY <4>1, <4>2, <4>3 DEF OrderState, Phases
    <3> QED
      BY <3>1, <3>2
  <2>9. Walking' /\ Polling' /\ pc' # "dead"
    <3>1. \A d \in Conn : d # c => /\ pipe'[d] = pipe[d]
                                   /\ cstate'[d] = cstate[d] \/ pipe[d] = <<>>
      BY <2>5 DEF Same
    <3> QED
      BY <2>1, <2>2, <3>1, ServedWalking
  <2> QED
    BY <2>7, <2>8, <2>9 DEF OrderState
<1>10. ASSUME NEW x \in Conn, DeliverReply(c, i, x) PROVE OrderState'
  <2>1. /\ Deliver(c, i, x, "RPLY") /\ Removed(c) /\ open' = <<>>
        /\ got' = [y \in Conn |-> got[y] \cup
                     {r.asker : r \in {q \in ToSet(open) : y \in FarEnd(q.fd)}}]
        /\ cstate' = [d \in Conn |-> IF d \in Marked THEN Mark(cstate[d]) ELSE cstate[d]]
    BY <1>10 DEF DeliverReply
  <2>2. At(c, i) /\ Step(c) /\ UNCHANGED <<far, sock, pc, fds, revents, accepts, pack>>
    BY <2>1, DeliverIs
  <2>3. ~Waits(c) /\ pipe' = [pipe EXCEPT ![c] = Tail(@)]
    BY <2>1, DeliverOrder
  <2>4. pc = "walk" /\ pc' = "walk" /\ Contains(clients, c) /\ sock[c] \in Fd
    BY <2>2, ServedOwn DEF At
  <2>5. \A d : Contains(clients', d) <=> Contains(clients, d) /\ d # c
    <3>1. PICK k \in DOMAIN clients : clients[k] = c
      BY <2>2, ServedOwn
    <3> QED
      BY <2>1, <3>1, RestOfList DEF ServerInv
  <2>6. \A r \in ToSet(open) : AsksFor(r) /\ Waits(r.asker) /\ r.asker \in Conn
    BY WaitsIsConn DEF ToSet, OrderState, OpenInv, Waits
  <2>7. \A d \in Conn : d \in Marked <=> Waits(d)
    <3>1. ASSUME NEW d \in Marked PROVE Waits(d)
      <4>1. PICK r \in ToSet(open) : Closes(r.fd, d)
        BY <3>1 DEF Marked
      <4>2. PICK k \in DOMAIN clients : clients[k] = d /\ sock[d] = r.fd
        BY <4>1 DEF Closes
      <4>3. PICK m \in DOMAIN clients : clients[m] = r.asker /\ sock[r.asker] = r.fd
        BY <2>6 DEF AsksFor, Contains, ServerInv, ListInv
      <4>4. d = r.asker
        BY <4>2, <4>3 DEF ServerInv, ListInv
      <4> QED
        BY <2>6, <4>4
    <3>2. ASSUME NEW d \in Conn, Waits(d) PROVE d \in Marked
      <4>1. PICK k \in DOMAIN open : open[k].asker = d
        BY <3>2 DEF Waits
      <4>2. open[k] \in ToSet(open) /\ AsksFor(open[k])
        BY <4>1 DEF ToSet, OrderState, OpenInv
      <4>3. PICK m \in 1 .. Len(clients) : clients[m] = d
        BY <4>1, <4>2 DEF AsksFor, Contains
      <4>4. DOMAIN clients = 1 .. Len(clients) /\ Len(clients) \in Nat
        BY DEF ServerInv, ListInv
      <4>5. \A j \in 1 .. m - 1 : sock[clients[j]] # open[k].fd
        <5> SUFFICES ASSUME NEW j \in 1 .. m - 1, sock[clients[j]] = open[k].fd PROVE FALSE
          OBVIOUS
        <5>1. j \in DOMAIN clients /\ m \in DOMAIN clients /\ j # m
          BY <4>4
        <5>2. sock[clients[m]] = open[k].fd
          BY <4>1, <4>2, <4>3 DEF AsksFor
        <5>3. clients[j] = clients[m]
          BY <5>1, <5>2 DEF ServerInv, ListInv
        <5> QED
          BY <5>1, <5>3 DEF ServerInv, ListInv, OnceEach
      <4>6. Closes(open[k].fd, d)
        BY <4>1, <4>2, <4>3, <4>4, <4>5 DEF Closes, AsksFor
      <4> QED
        BY <4>2, <4>6 DEF Marked
    <3> QED
      BY <3>1, <3>2
  <2>8. ASSUME NEW d \in Conn, Waits(d)
        PROVE  Contains(clients, d) /\ sock[d] # None /\ cstate[d] = "IDLE" /\ pipe[d] = <<>>
    <3>1. PICK k \in DOMAIN open : open[k].asker = d
      BY <2>8 DEF Waits
    <3>2. AsksFor(open[k]) /\ open[k].fd \in Fd
      BY <3>1, WaitsIsConn DEF OrderState, OpenInv
    <3> QED
      BY <3>1, <3>2, ServerAssumption DEF AsksFor
  <2>9. ASSUME NEW d \in Conn, d # c, ~Waits(d) PROVE Same(d)
    <3>1. cstate'[d] = cstate[d] /\ pipe'[d] = pipe[d]
      BY <1>t, <2>1, <2>3, <2>7, <2>9
    <3>2. \A r \in ToSet(open) : d \notin FarEnd(r.fd)
      <4> SUFFICES ASSUME NEW r \in ToSet(open), fdt[r.fd] = d PROVE FALSE
        BY DEF FarEnd
      <4>1. AsksFor(r) /\ Waits(r.asker)
        BY <2>6
      <4>2. fdt[sock[r.asker]] = r.asker
        BY <4>1 DEF AsksFor, Contains, ServerInv, ListInv
      <4> QED
        BY <2>9, <4>1, <4>2 DEF AsksFor
    <3>3. got'[d] = got[d]
      BY <1>t, <2>1, <3>2
    <3> QED
      BY <2>2, <3>1, <3>3 DEF Same
  <2>10. OpenInv'
    BY <2>1 DEF OpenInv
  <2>11. Phases'
    <3> SUFFICES ASSUME NEW d \in Conn
                 PROVE  /\ sock'[d] = None => Unread(d)'
                        /\ Contains(clients', d) =>
                             Unread(d)' \/ HalfRead(d)' \/ Waits(d)' \/ Answered(d)'
      BY DEF Phases
    <3>1. CASE d = c
      BY <2>2, <2>4, <2>5, <3>1, ServerAssumption
    <3>2. CASE d # c /\ Waits(d)
      <4>1. cstate'[d] = "REMOVE"
        BY <2>1, <2>7, <2>8, <3>2 DEF Mark
      <4> QED
        BY <2>2, <2>4, <2>8, <3>2, <4>1 DEF Answered
    <3>3. CASE d # c /\ ~Waits(d)
      <4>1. Same(d) /\ (Unread(d)' <=> Unread(d)) /\ (HalfRead(d)' <=> HalfRead(d))
        BY <2>9, <3>3, SameKeeps
      <4>2. /\ Answered(d)' <=> Answered(d)
            /\ sock'[d] = sock[d] /\ (Contains(clients', d) => Contains(clients, d))
        BY <2>2, <2>5, <4>1 DEF Answered, Same
      <4> QED
        BY <3>3, <4>1, <4>2 DEF OrderState, Phases
    <3> QED
      BY <3>1, <3>2, <3>3
  <2>12. Walking' /\ Polling' /\ pc' # "dead"
    <3>1. \A d \in Conn : d # c => /\ pipe'[d] = pipe[d]
                                   /\ cstate'[d] = cstate[d] \/ pipe[d] = <<>>
      <4> SUFFICES ASSUME NEW d \in Conn, d # c
                   PROVE  pipe'[d] = pipe[d] /\ (cstate'[d] = cstate[d] \/ pipe[d] = <<>>)
        OBVIOUS
      <4>1. pipe'[d] = pipe[d]
        BY <1>t, <2>3
      <4> QED
        BY <2>8, <2>9, <4>1 DEF Same
    <3> QED
      BY <2>1, <2>2, <3>1, ServedWalking
  <2> QED
    BY <2>10, <2>11, <2>12 DEF OrderState
<1> QED
  BY <1>1, <1>2, <1>3, <1>4, <1>5, <1>6, <1>7, <1>8, <1>9, <1>10

\* Outside the walk nothing is said of the rest of the list.
LEMMA NotWalking ==
    ASSUME pc' \notin {"walk", "poll", "dead"}
    PROVE  Walking' /\ Polling' /\ pc' # "dead"
BY DEF Walking, Polling

\* A far end that sends only adds to what can be read.
LEMMA SendWalking ==
    ASSUME OrderState, UNCHANGED <<list_vars, loop_vars>>,
           \A d \in Conn : pipe[d] # <<>> => pipe'[d] # <<>>, clients \in Seq(Conn)
    PROVE  Walking' /\ Polling' /\ pc' # "dead"
<1>1. /\ clients' = clients /\ sock' = sock /\ cstate' = cstate /\ pc' = pc
      /\ fds' = fds /\ revents' = revents /\ cur' = cur
  BY DEF list_vars, loop_vars
<1>2. Shift' = Shift
  BY <1>1 DEF Shift
<1>3. \A k \in DOMAIN clients : Ahead(k) => Ahead(k)'
  BY <1>1, <1>2 DEF Ahead
<1> QED
  BY <1>1, <1>2, <1>3 DEF OrderState, Walking, Polling

\* The far ends in an orderly setting, in which there is no second thread.
LEMMA FarOrder ==
    ASSUME ServerInv, Orderly, OrderState,
           NEW c \in Conn, Connect(c) \/ Prepend(c) \/ \E x \in Portion : Send(c, x)
    PROVE  OrderState'
<1>t. /\ far \in [Conn -> {"new", "queued"} \cup Portion] /\ pipe \in [Conn -> Seq(Portion)]
      /\ clients \in Seq(Conn)
  BY DEF ServerInv, TypeOK
<1>1. CASE Connect(c)
  <2>1. /\ far[c] = "new" /\ far' = [far EXCEPT ![c] = "queued"]
        /\ UNCHANGED <<pipe, got, list_vars, open, loop_vars>>
    BY <1>1 DEF Connect
  <2>2. /\ clients' = clients /\ sock' = sock /\ cstate' = cstate /\ pack' = pack /\ pc' = pc
        /\ open' = open /\ pipe' = pipe /\ got' = got
    BY <2>1 DEF list_vars, loop_vars
  <2>3. \A d \in Conn : d # c => Same(d)
    BY <1>t, <2>1, <2>2 DEF Same
  <2>4. sock[c] = None
    BY <2>1 DEF ServerInv, NewHasNoSocket
  <2>5. ~Contains(clients, c)
    BY <2>4, ServerAssumption DEF ServerInv, ListInv, Contains
  <2>6. Unread(c)'
    BY <1>t, <2>1, <2>2, <2>4 DEF OrderState, Phases, Unread
  <2>7. OpenInv'
    <3>1. \A d \in Conn : Waits(d) => d # c /\ Contains(clients, d)
      BY <2>5 DEF Waits, OrderState, OpenInv, AsksFor
    <3> QED
      BY <2>2, <2>3, <3>1, OpenStays DEF OrderState
  <2>8. Phases'
    BY <2>2, <2>3, <2>6, PhasesStay DEF OrderState
  <2>9. Walking' /\ Polling' /\ pc' # "dead"
    BY <1>t, <2>1, <2>2, SendWalking
  <2> QED
    BY <2>7, <2>8, <2>9 DEF OrderState
<1>2. ASSUME NEW x \in Portion, Send(c, x) PROVE OrderState'
  <2>1. /\ \/ x = "hdr" /\ far[c] = "queued"
           \/ x = "body" /\ far[c] = "hdr"
           \/ /\ x = "eof" /\ far[c] = "body"
              /\ Kind[c] \in {"RPLY", "NTFY"} \/ got[c] # {} \/ c \in setting.impatient
        /\ far' = [far EXCEPT ![c] = x]
        /\ pipe' = [pipe EXCEPT ![c] = Append(@, x)]
        /\ UNCHANGED <<got, list_vars, open, loop_vars>>
    BY <1>2 DEF Send
  <2>2. /\ clients' = clients /\ sock' = sock /\ cstate' = cstate /\ pack' = pack /\ pc' = pc
        /\ open' = open /\ got' = got
    BY <2>1 DEF list_vars, loop_vars
  <2>3. \A d \in Conn : d # c => Same(d)
    BY <1>t, <2>1, <2>2 DEF Same
  <2>4. far'[c] = x /\ pipe'[c] = Append(pipe[c], x)
    BY <1>t, <2>1
  <2>5. c \notin setting.impatient
    BY DEF Orderly
  <2>6. ~Waits(c)
    BY <2>1, <2>5 DEF Waits, OrderState, OpenInv, AsksFor
  <2>7. Unread(c) => Unread(c)'
    BY <2>1, <2>2, <2>4, <2>5, Portions DEF Unread
  <2>8. HalfRead(c) => HalfRead(c)'
    BY <2>1, <2>2, <2>4, <2>5, Portions DEF HalfRead
  <2>9. Answered(c) => Answered(c)'
    BY <2>2 DEF Answered
  <2>10. OpenInv'
    <3>1. \A d \in Conn : Waits(d) => d # c /\ Contains(clients, d)
      BY <2>6 DEF Waits, OrderState, OpenInv, AsksFor
    <3> QED
      BY <2>2, <2>3, <3>1, OpenStays DEF OrderState
  <2>11. Phases'
    <3>1. /\ sock'[c] = None => Unread(c)'
          /\ Contains(clients', c) => Unread(c)' \/ HalfRead(c)' \/ Waits(c)' \/ Answered(c)'
      BY <2>2, <2>6, <2>7, <2>8, <2>9 DEF OrderState, Phases
    <3> QED
      BY <2>2, <2>3, <3>1, PhasesStay DEF OrderState
  <2>12. Walking' /\ Polling' /\ pc' # "dead"
    <3>1. pipe'[c] # <<>>
      <4>1. pipe[c] \in Seq(Portion)
        BY <1>t
      <4> QED
        BY <2>4, <4>1, SeqFacts!AppendProperties
    <3>2. \A d \in Conn : pipe[d] # <<>> => pipe'[d] # <<>>
      BY <2>3, <3>1 DEF Same
    <3> QED
      BY <1>t, <2>1, <3>2, SendWalking
  <2> QED
    BY <2>10, <2>11, <2>12 DEF OrderState
<1>3. CASE Prepend(c)
  BY <1>3 DEF Prepend, Orderly, Of
<1> QED
  BY <1>1, <1>2, <1>3

\* What is said of connections does not change when nothing is read or sent
\* and the list stays the same, unless the walk or the sweep ends.
LEMMA QuietKeeps ==
    ASSUME OrderState, UNCHANGED <<far_vars, sock, cstate, pack, open, clients>>,
           \A d \in Conn : Contains(clients, d) /\ Answered(d) => Answered(d)'
    PROVE  OpenInv' /\ Phases'
<1>1. \A d \in Conn : (Unread(d)' <=> Unread(d)) /\ (HalfRead(d)' <=> HalfRead(d))
                      /\ (Waits(d)' <=> Waits(d))
  BY DEF far_vars, Unread, HalfRead, Waits
<1>2. Phases'
  BY <1>1 DEF OrderState, Phases
<1>3. OpenInv'
  BY DEF OrderState, OpenInv, AsksFor, far_vars
<1> QED
  BY <1>2, <1>3

\* The loop outside the walk, in an orderly setting.
LEMMA LoopOrder ==
    ASSUME ServerInv, OrderState,
           Fill \/ Poll \/ ReadPastArray \/ WalkDone \/ Sweep \/ Accept
    PROVE  OrderState'
<1>l. /\ clients \in Seq(Conn) /\ Len(clients) \in Nat /\ DOMAIN clients = 1 .. Len(clients)
      /\ ListInv
  BY DEF ServerInv, ListInv
<1>1. CASE Fill
  <2>1. /\ fds' = [k \in DOMAIN clients |-> sock[clients[k]]] /\ pc = "fill" /\ pc' = "poll"
        /\ UNCHANGED <<far_vars, list_vars, open, revents, accepts, cur>>
    BY <1>1 DEF Fill
  <2>2. OpenInv' /\ Phases'
    <3>1. \A d \in Conn : ~Answered(d)
      BY <2>1 DEF Answered
    <3> QED
      BY <2>1, <3>1, QuietKeeps DEF list_vars
  <2>3. Polling'
    <3>1. Len(fds') = Len(clients)
      BY <1>l, <2>1
    <3> QED
      BY <2>1, <3>1 DEF Polling, list_vars
  <2> QED
    BY <2>1, <2>2, <2>3 DEF OrderState, Walking
<1>2. CASE Poll
  <2>1. /\ revents' = {k \in DOMAIN fds : pipe[fdt[fds[k]]] # <<>>}
        /\ pc = "poll" /\ pc' = "walk" /\ cur' = [i |-> 1, c |-> First(clients)]
        /\ UNCHANGED <<far_vars, list_vars, open, fds>>
    BY <1>2 DEF Poll
  <2>2. OpenInv' /\ Phases'
    <3>1. \A d \in Conn : ~Answered(d)
      BY <2>1 DEF Answered
    <3> QED
      BY <2>1, <3>1, QuietKeeps DEF list_vars
  <2>3. /\ Len(fds) = Len(clients) /\ \A k \in DOMAIN clients : fds[k] = sock[clients[k]]
    BY <2>1 DEF OrderState, Polling
  <2>4. Shift' = 0
    BY <1>l, <2>1, <2>3 DEF Shift, list_vars
  <2>5. ASSUME NEW k \in DOMAIN clients PROVE Ahead(k)'
    <3>1. k + Shift' = k /\ clients' = clients /\ sock' = sock /\ fds' = fds /\ pipe' = pipe
          /\ cstate' = cstate
      BY <1>l, <2>1, <2>4 DEF list_vars, far_vars
    <3>2. k \in revents' => pipe[clients[k]] # <<>>
      BY <1>l, <2>1, <2>3 DEF ListInv
    <3>3. cstate[clients[k]] # "REMOVE"
      <4>1. clients[k] \in Conn /\ Contains(clients, clients[k])
        BY <1>l DEF Contains
      <4>2. ~Answered(clients[k])
        BY <2>1 DEF Answered
      <4>3. Waits(clients[k]) => cstate[clients[k]] = "IDLE"
        BY DEF Waits, OrderState, OpenInv, AsksFor
      <4> QED
        BY <4>1, <4>2, <4>3 DEF OrderState, Phases, Unread, HalfRead
    <3> QED
      BY <2>3, <3>1, <3>2, <3>3 DEF Ahead
  <2>6. cur'.c # None => cur'.i - Shift' \in DOMAIN clients /\ clients[cur'.i - Shift'] = cur'.c
    BY <1>l, <2>1, <2>4 DEF First
  <2> QED
    BY <2>1, <2>2, <2>5, <2>6 DEF OrderState, Walking, Polling, list_vars
<1>3. CASE WalkDone
  <2>1. /\ pc = "walk" /\ pc' = "sweep" /\ UNCHANGED <<far_vars, list_vars, open, accepts>>
    BY <1>3 DEF WalkDone
  <2>2. OpenInv' /\ Phases'
    BY <2>1, QuietKeeps DEF list_vars, Answered
  <2> QED
    BY <2>1, <2>2, NotWalking DEF OrderState
<1>4. CASE Sweep
  <2>1. /\ pc = "sweep"
        /\ UNCHANGED <<far_vars, sock, cstate, pack, open, fds, revents, accepts, cur>>
    BY <1>4 DEF Sweep
  <2>2. ASSUME NEW k \in DOMAIN clients, Doomed(clients[k]), Removed(clients[k]), pc' = pc
        PROVE  OrderState'
    <3>1. clients[k] \in Conn /\ sock[clients[k]] \in Fd
      BY <1>l DEF ListInv
    <3>2. \A d : Contains(clients', d) <=> Contains(clients, d) /\ d # clients[k]
      BY <1>l, <2>2, RestOfList
    <3>3. \A d \in Conn : Same(d)
      BY <2>1 DEF Same, far_vars
    <3>4. OpenInv'
      <4>1. \A d \in Conn : Waits(d) => d # clients[k] /\ Contains(clients, d)
        BY <2>2 DEF Waits, OrderState, OpenInv, AsksFor, Doomed
      <4> QED
        BY <2>1, <3>2, <3>3, <4>1, OpenStays DEF OrderState
    <3>5. Phases'
      <4>1. PICK c \in Conn : c = clients[k]
        BY <3>1
      <4>2. sock'[c] # None /\ ~Contains(clients', c)
        BY <2>1, <3>1, <3>2, <4>1, ServerAssumption
      <4> QED
        BY <2>1, <2>2, <3>2, <3>3, <4>2, PhasesStay DEF OrderState
    <3> QED
      BY <2>1, <2>2, <3>4, <3>5, NotWalking DEF OrderState
  <2>3. CASE /\ \A k \in DOMAIN clients : ~Doomed(clients[k])
             /\ pc' = "accept" /\ UNCHANGED <<clients, fdt>>
    <3>1. \A d \in Conn : ~(Contains(clients, d) /\ Answered(d))
      BY <1>l, <2>3 DEF Contains, Answered, Doomed
    <3>2. OpenInv' /\ Phases'
      BY <2>1, <2>3, <3>1, QuietKeeps
    <3> QED
      BY <2>3, <3>2, NotWalking DEF OrderState
  <2> QED
    BY <1>4, <2>2, <2>3 DEF Sweep
<1>5. CASE Accept
  <2>1. /\ pc = "accept" /\ pc' = "fill"
        /\ UNCHANGED <<far_vars, cstate, pack, open, fds, revents, cur>>
    BY <1>5 DEF Accept
  <2>2. \A d \in Conn : ~Answered(d)
    BY <2>1 DEF Answered
  <2>3. CASE UNCHANGED <<fdt, sock, clients>>
    <3>1. OpenInv' /\ Phases'
      BY <2>1, <2>2, <2>3, QuietKeeps
    <3> QED
      BY <2>1, <3>1, NotWalking DEF OrderState
  <2>4. ASSUME NEW c \in Conn, NEW f \in Fd, far[c] # "new", sock[c] = None, fdt[f] = None,
               fdt' = [fdt EXCEPT ![f] = c], sock' = [sock EXCEPT ![c] = f],
               clients' = <<c>> \o clients
        PROVE  OrderState'
    <3>1. /\ Len(clients') = Len(clients) + 1 /\ clients'[1] = c
          /\ \A k \in 2 .. Len(clients) + 1 : clients'[k] = clients[k - 1]
      BY <1>l, <2>4, AddedKeeps
    <3>2. ASSUME NEW d, d # c PROVE Contains(clients', d) <=> Contains(clients, d)
      <4>1. ASSUME Contains(clients', d) PROVE Contains(clients, d)
        <5>1. PICK k \in 1 .. Len(clients) + 1 : clients'[k] = d
          BY <3>1, <4>1 DEF Contains
        <5>2. k \in 2 .. Len(clients) + 1 /\ k - 1 \in 1 .. Len(clients)
          BY <1>l, <3>1, <3>2, <5>1
        <5> QED
          BY <3>1, <5>1, <5>2 DEF Contains
      <4>2. ASSUME Contains(clients, d) PROVE Contains(clients', d)
        <5>1. PICK k \in 1 .. Len(clients) : clients[k] = d
          BY <4>2 DEF Contains
        <5>2. k + 1 \in 2 .. Len(clients) + 1 /\ k + 1 \in 1 .. Len(clients') /\ (k + 1) - 1 = k
          BY <1>l, <3>1
        <5> QED
          BY <3>1, <5>1, <5>2 DEF Contains
      <4> QED
        BY <4>1, <4>2
    <3>3. ~Contains(clients, c)
      BY <1>l, <2>4, ServerAssumption DEF Contains, ListInv
    <3>4. /\ \A d \in Conn : d # c => Same(d)
          /\ Unread(c)' <=> Unread(c)
      <4>1. \A d \in Conn : d # c => sock'[d] = sock[d]
        BY <1>l, <2>4 DEF ListInv
      <4>2. UNCHANGED <<far, pipe, got, cstate, pack>>
        BY <2>1 DEF far_vars
      <4> QED
        BY <4>1, <4>2 DEF Same, Unread
    <3>5. OpenInv'
      <4>1. \A d \in Conn : Waits(d) => d # c /\ Contains(clients, d)
        BY <3>3 DEF Waits, OrderState, OpenInv, AsksFor
      <4> QED
        BY <2>1, <3>2, <3>4, <4>1, OpenStays DEF OrderState
    <3>6. Phases'
      <4> SUFFICES ASSUME NEW d \in Conn
                   PROVE  /\ sock'[d] = None => Unread(d)'
                          /\ Contains(clients', d) =>
                               Unread(d)' \/ HalfRead(d)' \/ Waits(d)' \/ Answered(d)'
        BY DEF Phases
      <4>1. CASE d = c
        BY <2>4, <3>4, <4>1 DEF OrderState, Phases
      <4>2. CASE d # c
        <5>1. /\ Same(d) /\ (Unread(d)' <=> Unread(d)) /\ (HalfRead(d)' <=> HalfRead(d))
              /\ sock'[d] = sock[d]
          BY <3>4, <4>2, SameKeeps DEF Same
        <5>2. Waits(d)' <=> Waits(d)
          BY <2>1 DEF Waits
        <5> QED
          BY <2>2, <3>2, <4>2, <5>1, <5>2 DEF OrderState, Phases
      <4> QED
        BY <4>1, <4>2
    <3> QED
      BY <2>1, <3>5, <3>6, NotWalking DEF OrderState
  <2> QED
    BY <1>5, <2>3, <2>4 DEF Accept
<1>6. CASE ReadPastArray
  <2>1. Len(fds) \in Nat /\ DOMAIN fds = 1 .. Len(fds)
    BY DEF ServerInv, TypeOK
  <2>2. pc = "poll" => Len(fds) = Len(clients)
    BY DEF OrderState, Polling
  <2>3. ASSUME NEW c \in Conn, NEW i \in 1 .. Len(clients), At(c, i)
        PROVE  i \in DOMAIN fds
    <3>1. PICK k \in DOMAIN clients : k + Shift = cur.i
      BY <2>3, ServedOwn
    <3>2. cur.i = i
      BY <2>3, ServedOwn
    <3> QED
      BY <1>l, <2>1, <3>1, <3>2 DEF Shift
  <2>4. ~(pc = "poll" /\ Len(clients) > Len(fds))
    BY <1>l, <2>2
  <2> QED
    BY <1>6, <2>3, <2>4 DEF ReadPastArray
<1> QED
  BY <1>1, <1>2, <1>3, <1>4, <1>5, <1>6

\* The invariant of orderly settings holds at first and is kept.
LEMMA OrderKept ==
    /\ Init => OrderInv
    /\ ServerInv /\ OrderInv /\ [Next]_vars => OrderInv'
<1>1. Init => OrderInv
  <2> SUFFICES ASSUME Init PROVE OrderState
    BY DEF OrderInv
  <2>1. OpenInv
    BY DEF Init, OpenInv
  <2>2. Phases
    BY DEF Init, Phases, Unread, Contains
  <2> QED
    BY <2>1, <2>2 DEF Init, OrderState, Walking, Polling
<1>2. ASSUME ServerInv, OrderInv, [Next]_vars PROVE OrderInv'
  <2> SUFFICES ASSUME Orderly' PROVE OrderState'
    BY DEF OrderInv
  <2>1. CASE UNCHANGED vars
    <3>1. OrderState
      BY <1>2, <2>1 DEF OrderInv, Orderly, vars
    <3>2. OpenInv' /\ Phases'
      BY <2>1, <3>1, QuietKeeps DEF vars, list_vars, loop_vars, Answered
    <3>3. Walking' /\ Polling' /\ pc' # "dead"
      BY <2>1, <3>1 DEF vars, far_vars, list_vars, loop_vars, OrderState, Walking, Polling,
                        Ahead, Shift
    <3> QED
      BY <3>2, <3>3 DEF OrderState
  <2>2. CASE Next
    <3>1. OrderState /\ Orderly
      BY <1>2, <2>2 DEF OrderInv, Orderly, Next
    <3> QED
      BY <1>2, <2>2, <3>1, FarOrder, LoopOrder, WalkOrder DEF Next, AnyStep, Loop
  <2> QED
    BY <1>2, <2>1, <2>2
<1> QED
  BY <1>1, <1>2

\* With clients that wait and without a second thread, what has been read of
\* every connection fits what its decoder expects, and the array for poll
\* fits the list (server.c:140-200).
THEOREM OrderInvariant == Spec => []OrderInv
BY OrderKept, ServerInvariant, PTL DEF Spec

\* No marked client is read from, no header is taken for a body and no
\* body for a header.
THEOREM NobodyCrashes == Spec => []NoCrash
<1>1. OrderInv => NoCrash
  BY DEF OrderInv, OrderState, NoCrash
<1> QED
  BY <1>1, OrderInvariant, PTL

\* The descriptor an open request keeps is still the asking client's, when
\* the REPLY comes after any number of others (requests.c:3-51).
THEOREM AnswersGoToAskers == Spec => []OpenSocketsAreAskers
<1>1. ServerInv /\ OrderInv => OpenSocketsAreAskers
  <2> SUFFICES ASSUME ServerInv, OrderInv, Orderly, NEW r \in ToSet(open)
               PROVE  fdt[r.fd] = r.asker /\ Contains(clients, r.asker)
    BY DEF OpenSocketsAreAskers
  <2>1. AsksFor(r)
    BY DEF OrderInv, OrderState, OpenInv, ToSet
  <2> QED
    BY <2>1 DEF AsksFor, Contains, ServerInv, ListInv
<1> QED
  BY <1>1, ServerInvariant, OrderInvariant, PTL
=============================================================================
