----------------------------- MODULE StaticRing -----------------------------
(* The peers of project 2: a Chord ring whose members, predecessors and    *)
(* successors are fixed by the command line.  Every peer is one thread in  *)
(* a poll loop that takes one complete packet after the other.  A packet   *)
(* travels on a connection of its own: the sender connects, sends and      *)
(* closes, except when it proxies a request: then it blocks, deaf to       *)
(* everything else, until the other side has answered and closed.          *)
(*                                                                         *)
(* The order in which the poll loop meets its connections depends on when  *)
(* their bytes arrive, so the packets waiting at a peer are a set.         *)
EXTENDS Responsibility, Sequences, FiniteSets

CONSTANTS
    Peer,     \* identifiers of the peers
    Pred, Succ,  \* the neighbours each peer is started with
    HashId,   \* the hashes keys can have
    Key, Value,
    Hash,     \* pseudo_hash of each key
    Req,      \* client requests
    Late,     \* the sets of peers that may not listen from the start
    Entry,    \* peers the clients talk to
    MaxOpen,  \* bound: clients waiting for an answer at one time
    Client,   \* the far end of a connection that is no peer
    NoValue, None, Closed, NoJob

ASSUME RingAssumption ==
    /\ Peer \subseteq Nat /\ Peer # {} /\ HashId \subseteq Nat
    /\ Succ \in [Peer -> Peer] /\ Pred \in [Peer -> Peer]
    /\ \A p \in Peer : Pred[Succ[p]] = p /\ Succ[Pred[p]] = p
    /\ Hash \in [Key -> HashId]
    /\ Late \subseteq SUBSET Peer /\ Entry \subseteq Peer /\ MaxOpen \in Nat

\* The neighbours are those of one circle: no peer has its identifier in the
\* arc that another one is responsible for.
ASSUME OrderAssumption ==
    \A p, q \in Peer : PeerIsResponsible(Pred[p], p, q) => q = p

Op == {"GET", "SET", "DEL"}
Cmd == [op: Op, key: Key, val: Value]
Answer == [op: Op, val: Value \cup {NoValue}]

\* A connection is named by the request it carries and by who opened it.
Conn == [req: Req, from: Peer \cup {Client}]

DataPkt == [type: {"DATA"}, conn: Conn]
\* tag tells apart the packets of different requests; the code has no such
\* field and no step reads it.
CtrlPkt == [type: {"LKUP", "RPLY"}, hash: HashId, node: Peer, tag: Req]
Packet == DataPkt \cup CtrlPkt

\* A handler that is blocked in, or about to enter, proxy_request.  hash is
\* set in the loop over the open requests that a REPLY starts.
Job == [todo: Seq(Conn), to: Peer, hash: HashId \cup {None}, waiting: BOOLEAN]

ASSUME SentinelAssumption ==
    /\ Client \notin Peer /\ NoJob \notin Job
    /\ None \notin Cmd /\ None \notin HashId /\ None \notin Answer
    /\ Closed # None /\ Closed \notin Answer

VARIABLES
    late,   \* peers that have not listened from the start
    up,     \* peers that have set up their server socket
    dht,    \* ht: each peer's part of the table
    rt,     \* open requests of each peer, by hash, oldest first
    inbox,  \* packets that have arrived at each peer
    job,    \* what each peer's only thread is busy with
    cmd,    \* the command of each request that a client has sent
    rsp     \* what has been sent back on each connection

vars == <<late, up, dht, rt, inbox, job, cmd, rsp>>

Data(c) == [type |-> "DATA", conn |-> c]
Lkup(h, n, t) == [type |-> "LKUP", hash |-> h, node |-> n, tag |-> t]
Rply(h, n, t) == [type |-> "RPLY", hash |-> h, node |-> n, tag |-> t]

Owns(p, h) == PeerIsResponsible(Pred[p], p, h)
SuccOwns(p, h) == PeerIsResponsible(p, Succ[p], h)

HashOf(r) == Hash[cmd[r].key]
ClientConn(r) == [req |-> r, from |-> Client]
IsOpen(r) == cmd[r] # None /\ rsp[ClientConn(r)] = None

Init ==
    /\ late \in Late
    /\ up = Peer \ late
    /\ dht = [p \in Peer |-> [k \in Key |-> NoValue]]
    /\ rt = [p \in Peer |-> [h \in HashId |-> <<>>]]
    /\ inbox = [p \in Peer |-> {}]
    /\ job = [p \in Peer |-> NoJob]
    /\ cmd = [r \in Req |-> None]
    /\ rsp = [c \in Conn |-> None]
-----------------------------------------------------------------------------
(* The environment.                                                        *)

\* A peer started later than others begins to listen.
Start(p) ==
    /\ p \notin up
    /\ up' = up \cup {p}
    /\ UNCHANGED <<late, dht, rt, inbox, job, cmd, rsp>>

\* A client connects to a peer and sends its request.
Issue(r, p, c) ==
    /\ p \in up /\ cmd[r] = None
    /\ Cardinality({q \in Req : IsOpen(q)}) < MaxOpen
    /\ cmd' = [cmd EXCEPT ![r] = c]
    /\ inbox' = [inbox EXCEPT ![p] = @ \cup {Data(ClientConn(r))}]
    /\ UNCHANGED <<late, up, dht, rt, job, rsp>>
-----------------------------------------------------------------------------
(* Sending.  connect succeeds when the other side listens, even while its  *)
(* thread is blocked; forward and its callers ignore a failure.            *)

Taken(p, m) == [inbox EXCEPT ![p] = @ \ {m}]

\* forward: p has taken m and sends n to q.
Forward(p, m, q, n) ==
    IF q \in up THEN [Taken(p, m) EXCEPT ![q] = @ \cup {n}] ELSE Taken(p, m)

\* sendall on the connection's socket, which is then closed.
Respond(c, a) == rsp' = [rsp EXCEPT ![c] = a]

\* The next packet p takes; its thread must not be blocked.
Takes(p, m) == p \in up /\ job[p] = NoJob /\ m \in inbox[p]
-----------------------------------------------------------------------------
(* handle_packet_data                                                      *)

Stored(store, c) ==
    CASE c.op = "SET" -> [store EXCEPT ![c.key] = c.val]
      [] c.op = "DEL" -> [store EXCEPT ![c.key] = NoValue]
      [] OTHER -> store

\* Mutant: the answer to a GET is left without its value.
AnswerWithoutValue(store, c) ==
    [op |-> c.op, val |-> IF c.op = "GET" THEN store[c.key] ELSE None]

AnswerTo(store, c) ==
    [op |-> c.op, val |-> IF c.op = "GET" THEN store[c.key] ELSE NoValue]

\* Mutant: a peer serves whatever it is asked, responsible or not.
HandleAnyRequest(p, m) ==
    LET c == cmd[m.conn.req]
    IN /\ Takes(p, m) /\ m.type = "DATA"
       /\ dht' = [dht EXCEPT ![p] = Stored(@, c)]
       /\ Respond(m.conn, AnswerTo(dht[p], c))
       /\ inbox' = Taken(p, m)
       /\ UNCHANGED <<late, up, rt, job, cmd>>

\* A GET without a value, a DEL without effect: all are acknowledged.
HandleOwnRequest(p, m) ==
    LET c == cmd[m.conn.req]
    IN /\ Takes(p, m) /\ m.type = "DATA"
       /\ Owns(p, Hash[c.key])
       /\ dht' = [dht EXCEPT ![p] = Stored(@, c)]
       /\ Respond(m.conn, AnswerTo(dht[p], c))
       /\ inbox' = Taken(p, m)
       /\ UNCHANGED <<late, up, rt, job, cmd>>

\* The successor's business: connect and send; if nobody listens there the
\* packet is dropped and the client stays connected.
ProxyToSucc(p, m) ==
    LET h == HashOf(m.conn.req)
    IN /\ Takes(p, m) /\ m.type = "DATA"
       /\ ~Owns(p, h) /\ SuccOwns(p, h)
       /\ inbox' = Forward(p, m, Succ[p],
                           Data([req |-> m.conn.req, from |-> p]))
       /\ IF Succ[p] \in up
          THEN job' = [job EXCEPT ![p] = [todo |-> <<m.conn>>, to |-> Succ[p],
                                          hash |-> None, waiting |-> TRUE]]
          ELSE UNCHANGED job
       /\ UNCHANGED <<late, up, dht, rt, cmd, rsp>>

\* Nobody near: the request is kept and a lookup starts its way round.
LookUpPeer(p, m) ==
    LET h == HashOf(m.conn.req)
    IN /\ Takes(p, m) /\ m.type = "DATA"
       /\ ~Owns(p, h) /\ ~SuccOwns(p, h)
       /\ rt' = [rt EXCEPT ![p][h] = Append(@, m.conn)]
       /\ inbox' = Forward(p, m, Succ[p], Lkup(h, p, m.conn.req))
       /\ UNCHANGED <<late, up, dht, job, cmd, rsp>>
-----------------------------------------------------------------------------
(* handle_packet_ctrl                                                      *)

\* Mutant: a peer answers only for itself.
HandleLookupOwnOnly(p, m) ==
    /\ Takes(p, m) /\ m.type = "LKUP"
    /\ inbox' =
         IF Owns(p, m.hash)
         THEN Forward(p, m, m.node, Rply(m.hash, p, m.tag))
         ELSE Forward(p, m, Succ[p], m)
    /\ UNCHANGED <<late, up, dht, rt, job, cmd, rsp>>

\* Mutant: a peer that knows its successor to be responsible names itself.
HandleLookupNamesSelf(p, m) ==
    /\ Takes(p, m) /\ m.type = "LKUP"
    /\ inbox' =
         IF Owns(p, m.hash) \/ SuccOwns(p, m.hash)
         THEN Forward(p, m, m.node, Rply(m.hash, p, m.tag))
         ELSE Forward(p, m, Succ[p], m)
    /\ UNCHANGED <<late, up, dht, rt, job, cmd, rsp>>

\* The peer to name in the answer to a lookup, which is sent to the peer
\* that asked; otherwise the lookup goes on to the successor.
HandleLookup(p, m) ==
    /\ Takes(p, m) /\ m.type = "LKUP"
    /\ inbox' =
         IF Owns(p, m.hash)
         THEN Forward(p, m, m.node, Rply(m.hash, p, m.tag))
         ELSE IF SuccOwns(p, m.hash)
         THEN Forward(p, m, m.node, Rply(m.hash, Succ[p], m.tag))
         ELSE Forward(p, m, Succ[p], m)
    /\ UNCHANGED <<late, up, dht, rt, job, cmd, rsp>>

\* Mutant: a REPLY serves the oldest request only.
HandleReplyOldest(p, m) ==
    /\ Takes(p, m) /\ m.type = "RPLY"
    /\ job' = IF rt[p][m.hash] = <<>> THEN job
              ELSE [job EXCEPT ![p] = [todo |-> <<Head(rt[p][m.hash])>>,
                                       to |-> m.node, hash |-> m.hash,
                                       waiting |-> FALSE]]
    /\ inbox' = Taken(p, m)
    /\ UNCHANGED <<late, up, dht, rt, cmd, rsp>>

\* A REPLY serves every open request of its hash, one after the other.
HandleReply(p, m) ==
    /\ Takes(p, m) /\ m.type = "RPLY"
    /\ job' = IF rt[p][m.hash] = <<>> THEN job
              ELSE [job EXCEPT ![p] = [todo |-> rt[p][m.hash], to |-> m.node,
                                       hash |-> m.hash, waiting |-> FALSE]]
    /\ inbox' = Taken(p, m)
    /\ UNCHANGED <<late, up, dht, rt, cmd, rsp>>
-----------------------------------------------------------------------------
(* proxy_request                                                           *)

Busy(p) == p \in up /\ job[p] # NoJob
Current(p) == Head(job[p].todo)

\* The connection on which p has passed the current request on.
Onward(p) == [req |-> Current(p).req, from |-> p]

\* Mutant: the open requests are not cleared.
AdvanceWithoutClear(p) ==
    /\ IF Tail(job[p].todo) = <<>>
       THEN job' = [job EXCEPT ![p] = NoJob]
       ELSE job' = [job EXCEPT ![p].todo = Tail(@), ![p].waiting = FALSE]
    /\ UNCHANGED rt

\* The current request is finished: go on with the loop, or clear the open
\* requests of the hash and return to the poll loop.
Advance(p) ==
    IF Tail(job[p].todo) = <<>>
    THEN /\ job' = [job EXCEPT ![p] = NoJob]
         /\ rt' = IF job[p].hash = None THEN rt
                  ELSE [rt EXCEPT ![p][job[p].hash] = <<>>]
    ELSE /\ job' = [job EXCEPT ![p].todo = Tail(@), ![p].waiting = FALSE]
         /\ UNCHANGED rt

\* The loop reaches its next request.  If nobody listens at the peer the
\* REPLY named, the client's connection is closed without an answer.
ProxyNext(p) ==
    /\ Busy(p) /\ ~job[p].waiting
    /\ IF job[p].to \in up
       THEN /\ inbox' = [inbox EXCEPT ![job[p].to] = @ \cup {Data(Onward(p))}]
            /\ job' = [job EXCEPT ![p].waiting = TRUE]
            /\ UNCHANGED <<rt, rsp>>
       ELSE /\ Respond(Current(p), Closed)
            /\ Advance(p)
            /\ UNCHANGED inbox
    /\ UNCHANGED <<late, up, dht, cmd>>

\* recvall returns: relay what came and close the client's connection.
ProxyDone(p) ==
    /\ Busy(p) /\ job[p].waiting
    /\ rsp[Onward(p)] # None
    /\ Respond(Current(p), rsp[Onward(p)])
    /\ Advance(p)
    /\ UNCHANGED <<late, up, dht, inbox, cmd>>
-----------------------------------------------------------------------------
HandlePacket(p, m) ==
    \/ HandleOwnRequest(p, m)
    \/ ProxyToSucc(p, m)
    \/ LookUpPeer(p, m)
    \/ HandleLookup(p, m)
    \/ HandleReply(p, m)

\* One step of a peer's thread.
Run(p) ==
    \/ \E m \in inbox[p] : HandlePacket(p, m)
    \/ ProxyNext(p)
    \/ ProxyDone(p)

Next ==
    \/ \E p \in Peer : Start(p)
    \/ \E r \in Req, p \in Entry, c \in Cmd : Issue(r, p, c)
    \/ \E p \in Peer : Run(p)

Spec == Init /\ [][Next]_vars

\* Every peer's thread keeps running.  The packets of finitely many
\* requests are finitely many, so none of them starves in the poll loop.
FairSpec == Spec /\ \A p \in Peer : WF_vars(Run(p))
-----------------------------------------------------------------------------
TypeOK ==
    /\ late \in Late /\ up \subseteq Peer
    /\ dht \in [Peer -> [Key -> Value \cup {NoValue}]]
    /\ rt \in [Peer -> [HashId -> Seq(Conn)]]
    /\ inbox \in [Peer -> SUBSET Packet]
    /\ job \in [Peer -> Job \cup {NoJob}]
    /\ cmd \in [Req -> Cmd \cup {None}]
    /\ rsp \in [Conn -> Answer \cup {None, Closed}]

\* A lookup is never delivered to the peer that owns its hash: the peer
\* before it has answered.  ("Lol! This should not happen!", peer.c:240)
NoLookupAtOwner ==
    \A p \in Peer : \A m \in inbox[p] : m.type = "LKUP" => ~Owns(p, m.hash)

\* Whatever path a request has taken, a peer passes it on only to the peer
\* that owns its key, so a proxied request is never passed on again.
ProxiedToOwner ==
    /\ \A p \in Peer : \A m \in inbox[p] :
         m.type = "DATA" /\ m.conn.from # Client => Owns(p, HashOf(m.conn.req))
    /\ \A p \in Peer : job[p] # NoJob =>
         \A i \in DOMAIN job[p].todo :
           Owns(job[p].to, HashOf(job[p].todo[i].req))

\* An open request is never forgotten where all peers listen: its lookup or
\* the reply is on its way, or the loop that serves its hash is running.
LookupUnderWay(p, h) ==
    \/ \E q \in Peer : \E m \in inbox[q] :
         /\ m.type = "LKUP" /\ m.hash = h /\ m.node = p
    \/ \E m \in inbox[p] : m.type = "RPLY" /\ m.hash = h
    \/ job[p] # NoJob /\ job[p].hash = h

OpenRequestsHaveLookup == late = {} =>
    \A p \in Peer, h \in HashId : rt[p][h] # <<>> => LookupUnderWay(p, h)

\* A thread that cannot go on: in poll with nothing to read, or in recvall
\* with nothing sent back yet.
Blocked(p) ==
    IF job[p] = NoJob THEN inbox[p] = {} ELSE job[p].waiting /\ rsp[Onward(p)] = None

\* A request stays unanswered there for one reason only: peers that wait for
\* each other in a circle.
WaitCircle ==
    \E S \in (SUBSET Peer) \ {{}} :
       \A p \in S : job[p] # NoJob /\ job[p].waiting /\ job[p].to \in S

OnlyCirclesBlock ==
    late = {} /\ (\E r \in Req : IsOpen(r)) /\ (\A p \in Peer : Blocked(p)) => WaitCircle

\* Every request a client has sent is answered.
Answered ==
    \A r \in Req : cmd[r] # None ~> rsp[ClientConn(r)] \in Answer
-----------------------------------------------------------------------------
(* The ring as one table: the part that counts is the owner's, and the     *)
(* result of a request exists once its owner has answered.                 *)

Owner(h) == CHOOSE p \in Peer : Owns(p, h)

Result(r) ==
    LET said == {rsp[c] : c \in {d \in Conn : d.req = r}} \ {None, Closed}
    IN IF said = {} THEN None ELSE CHOOSE a \in said : TRUE

Table == INSTANCE DhtStore WITH
    kv <- [k \in Key |-> dht[Owner(Hash[k])][k]],
    call <- cmd,
    result <- [r \in Req |-> Result(r)],
    reply <- [r \in Req |-> rsp[ClientConn(r)]]

\* What the mapping reads; a step that leaves it alone is a stutter.
mapped == <<dht, cmd, rsp>>

\* Every request takes effect on one common table, at most once, between
\* its arrival and its answer, and the answer is the one it produced there.
RingImplementsTable == Table!Init /\ [][UNCHANGED mapped \/ Table!Next]_Table!vars
=============================================================================
