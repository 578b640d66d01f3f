---------------------------- MODULE DynamicTable ----------------------------
(* Requests for keys at the peers of project 3, on the ring of JoinRing:   *)
(* handle_packet_data, the REPLY's loop over the open requests, and the    *)
(* blocking proxy_request, while peers join.  The thread that sends        *)
(* STABILIZE goes on while the poll loop is blocked.                       *)
(*                                                                         *)
(* A peer that ends closes its connections.  Those whose request it had    *)
(* not read are reset: recv returns -1, which recvall takes for a length,  *)
(* and what is relayed then is no answer but other memory.                 *)
EXTENDS JoinRing, SequencesExt

CONSTANTS
    Key, Value,
    Hash,     \* pseudo_hash of each key
    Asked,    \* what clients may send to which peer
    Client,   \* the far end of a connection that is no peer
    NoValue, None, NoJob,
    Closed, Reset, Garbage    \* how a connection can end without an answer

KeyHash == {Hash[k] : k \in Key}
Cmd == [op: {"GET", "SET", "DEL"}, key: Key, val: Value]
Answer == [op: {"GET", "SET", "DEL"}, ack: BOOLEAN, val: Value \cup {NoValue}]
Broken == {Closed, Reset, Garbage}

ASSUME TableAssumption ==
    /\ Hash \in [Key -> HashId] /\ Asked \subseteq Peer \X Cmd
    /\ Client \notin Peer /\ NoValue \notin Value

\* What the theorems need of the settings: peers are started one at a time
\* where clients ask for keys.
AskedSettings == \A s \in Setting : s.asks => ~s.overlap

\* A connection is named by the request it carries and by who opened it.
Conn == [req: Req, from: Peer \cup {Client}]

\* hash is set in the loop over the open requests of a REPLY.
Job == [todo: Seq(Conn), to: Peer, hash: KeyHash \cup {None}, waiting: BOOLEAN]

ASSUME SentinelAssumption ==
    /\ NoJob \notin Job /\ None \notin Cmd /\ None \notin KeyHash
    /\ None \notin Answer \cup Broken /\ Answer \cap Broken = {}

VARIABLES
    dht,    \* ht: each peer's part of the table
    rt,     \* open requests of each peer, by a key's hash, oldest first
    calls,  \* requests that have arrived at each peer
    job,    \* the proxy_request each peer's poll loop is busy with
    cmd,    \* the command of each request that a client has sent
    rsp     \* what has been sent back on each connection

keyVars == <<dht, rt, calls, job, cmd, rsp>>

ClientConn(r) == [req |-> r, from |-> Client]
HashOf(c) == Hash[cmd[c.req].key]
SuccOwns(p, h) == succ[p] # NULL /\ PeerIsResponsibleP3(p, succ[p], h)

TableInit ==
    /\ Init
    /\ dht = [p \in Peer |-> [k \in Key |-> NoValue]]
    /\ rt = [p \in Peer |-> [h \in KeyHash |-> <<>>]]
    /\ calls = [p \in Peer |-> {}]
    /\ job = [p \in Peer |-> NoJob]
    /\ cmd = [r \in Req |-> None]
    /\ rsp = [c \in Conn |-> None]
-----------------------------------------------------------------------------
\* A client connects to a peer and sends its request.
Issue(r, p, c) ==
    /\ setting.asks /\ <<p, c>> \in Asked /\ phase[p] = "up"
    /\ cmd[r] = None
    /\ cmd' = [cmd EXCEPT ![r] = c]
    /\ calls' = [calls EXCEPT ![p] = @ \cup {[req |-> r, from |-> Client]}]
    /\ UNCHANGED <<vars, dht, rt, job, rsp>>

\* The connections of p whose requests it has read and not answered.  rt
\* keeps those of a hash until the loop over them has ended.
Loops(p, h) == job[p] # NoJob /\ job[p].hash = h
Held(p) ==
    (UNION {ToSet(rt[p][h]) : h \in {g \in KeyHash : ~Loops(p, g)}})
        \cup (IF job[p] = NoJob THEN {} ELSE ToSet(job[p].todo))

\* p ends: the kernel closes its connections and resets the unread ones.
HangUp(p, unread) ==
    /\ rsp' = [c \in Conn |-> IF c \in unread THEN Reset
                              ELSE IF c \in Held(p) \cup calls[p] THEN Closed ELSE rsp[c]]
    /\ calls' = [calls EXCEPT ![p] = {}]
    /\ rt' = [rt EXCEPT ![p] = [h \in KeyHash |-> <<>>]]
    /\ job' = [job EXCEPT ![p] = NoJob]
    /\ UNCHANGED <<dht, cmd>>

\* The steps of JoinRing: a peer whose poll loop is blocked takes no packet.
Served(p, m) ==
    /\ job[p] = NoJob
    /\ m.type = "RPLY" /\ m.hash \in KeyHash => rt[p][m.hash] = <<>>
    /\ HandlePacketCtrl(p, m)

RingStep ==
    /\ \/ Found
       \/ \E p, q \in Peer : SendJoin(p, q)
       \/ \E p \in Peer : Listen(p) \/ AskFingers(p) \/ Stabilize(p)
       \/ \E p \in Peer : \E m \in inbox[p] : Served(p, m)
    /\ UNCHANGED setting
    /\ LET ended == {p \in Peer : phase[p] = "up" /\ phase'[p] = "dead"}
       IN IF ended = {} THEN UNCHANGED keyVars
          ELSE \E p \in ended : HangUp(p, calls[p])
-----------------------------------------------------------------------------
(* handle_packet_data                                                      *)

TakesCall(p, c) == phase[p] = "up" /\ job[p] = NoJob /\ c \in calls[p]

CallTaken(p, c) == [calls EXCEPT ![p] = @ \ {c}]

Respond(c, a) == rsp' = [rsp EXCEPT ![c] = a]

Stored(store, c) ==
    CASE c.op = "SET" -> [store EXCEPT ![c.key] = c.val]
      [] c.op = "DEL" -> [store EXCEPT ![c.key] = NoValue]
      [] OTHER -> store

\* A key that is not there is not acknowledged.
AnswerTo(store, c) ==
    [op |-> c.op, ack |-> c.op = "SET" \/ store[c.key] # NoValue,
     val |-> IF c.op = "GET" THEN store[c.key] ELSE NoValue]

\* Mutant: a peer serves whatever it is asked, responsible or not.
HandleAnyRequest(p, c) ==
    /\ TakesCall(p, c) /\ pred[p] # NULL
    /\ dht' = [dht EXCEPT ![p] = Stored(@, cmd[c.req])]
    /\ Respond(c, AnswerTo(dht[p], cmd[c.req]))
    /\ calls' = CallTaken(p, c)
    /\ UNCHANGED <<vars, rt, job, cmd>>

HandleOwnRequest(p, c) ==
    /\ TakesCall(p, c) /\ Owns(p, HashOf(c))
    /\ dht' = [dht EXCEPT ![p] = Stored(@, cmd[c.req])]
    /\ Respond(c, AnswerTo(dht[p], cmd[c.req]))
    /\ calls' = CallTaken(p, c)
    /\ UNCHANGED <<vars, rt, job, cmd>>

\* proxy_request: connect and send, and wait; the client is closed when
\* nobody listens at q.  Nothing has come back on a new connection.
Connect(box, p, c, q) ==
    LET d == [req |-> c.req, from |-> p]
    IN /\ calls' = [box EXCEPT ![q] = @ \cup {d}]
       /\ Respond(d, None)

ProxyToSucc(p, c) ==
    LET q == succ[p]
    IN /\ TakesCall(p, c)
       /\ pred[p] # NULL /\ ~Owns(p, HashOf(c)) /\ SuccOwns(p, HashOf(c))
       /\ \/ /\ phase[q] = "up"
             /\ Connect(CallTaken(p, c), p, c, q)
             /\ job' = [job EXCEPT ![p] = [todo |-> <<c>>, to |-> q,
                                           hash |-> None, waiting |-> TRUE]]
          \/ /\ phase[q] # "up"
             /\ calls' = CallTaken(p, c)
             /\ Respond(c, Closed)
             /\ UNCHANGED job
       /\ UNCHANGED <<vars, dht, rt, cmd>>

LookUpPeer(p, c) ==
    LET h == HashOf(c)
    IN /\ TakesCall(p, c)
       /\ pred[p] # NULL /\ succ[p] # NULL /\ ~Owns(p, h) /\ ~SuccOwns(p, h)
       /\ rt' = [rt EXCEPT ![p][h] = Append(@, c)]
       /\ inbox' = SentTo(inbox, succ[p], {Lkup(h, p, c.req)})
       /\ calls' = CallTaken(p, c)
       /\ UNCHANGED <<phase, pred, succ, fingers, setting, dht, job, cmd, rsp>>

\* pred->node_id or succ->node_id with a NULL pointer.
CallCrash(p, c) ==
    /\ TakesCall(p, c)
    /\ pred[p] = NULL \/ (succ[p] = NULL /\ ~Owns(p, HashOf(c)))
    /\ Die(p) /\ UNCHANGED setting
    /\ HangUp(p, calls[p] \ {c})

\* Mutant: a REPLY serves the oldest request only.
ServeOldest(p, m) ==
    /\ Takes(p, m) /\ m.type = "RPLY" /\ job[p] = NoJob
    /\ m.hash \in KeyHash /\ rt[p][m.hash] # <<>>
    /\ job' = [job EXCEPT ![p] = [todo |-> <<Head(rt[p][m.hash])>>, to |-> m.node,
                                  hash |-> m.hash, waiting |-> FALSE]]
    /\ inbox' = Taken(p, m)
    /\ UNCHANGED <<phase, pred, succ, fingers, setting, dht, rt, calls, cmd, rsp>>

\* A REPLY serves every open request of its hash, one after the other.
ServeOpen(p, m) ==
    /\ Takes(p, m) /\ m.type = "RPLY" /\ job[p] = NoJob
    /\ m.hash \in KeyHash /\ rt[p][m.hash] # <<>>
    /\ job' = [job EXCEPT ![p] = [todo |-> rt[p][m.hash], to |-> m.node,
                                  hash |-> m.hash, waiting |-> FALSE]]
    /\ inbox' = Taken(p, m)
    /\ UNCHANGED <<phase, pred, succ, fingers, setting, dht, rt, calls, cmd, rsp>>
-----------------------------------------------------------------------------
(* proxy_request                                                           *)

Busy(p) == phase[p] = "up" /\ job[p] # NoJob
Current(p) == Head(job[p].todo)
Onward(p) == [req |-> Current(p).req, from |-> p]  \* p's own connection

\* The current request is finished: the loop goes on, or the open requests
\* of the hash are cleared and the handler ends.
Advance(p) ==
    IF Tail(job[p].todo) = <<>>
    THEN /\ job' = [job EXCEPT ![p] = NoJob]
         /\ rt' = IF job[p].hash = None THEN rt
                  ELSE [rt EXCEPT ![p][job[p].hash] = <<>>]
    ELSE /\ job' = [job EXCEPT ![p].todo = Tail(@), ![p].waiting = FALSE]
         /\ UNCHANGED rt

ProxyNext(p) ==
    /\ Busy(p) /\ ~job[p].waiting
    /\ \/ /\ phase[job[p].to] = "up"
          /\ Connect(calls, p, Current(p), job[p].to)
          /\ job' = [job EXCEPT ![p].waiting = TRUE]
          /\ UNCHANGED rt
       \/ /\ phase[job[p].to] # "up"
          /\ Respond(Current(p), Closed)
          /\ Advance(p)
          /\ UNCHANGED calls
    /\ UNCHANGED <<vars, dht, cmd>>

\* What recvall makes of the end of a connection.
Received(a) == IF a = Reset THEN Garbage ELSE a

\* recvall returns: relay what came and close the client's connection.
ProxyDone(p) ==
    /\ Busy(p) /\ job[p].waiting
    /\ rsp[Onward(p)] # None
    /\ Respond(Current(p), Received(rsp[Onward(p)]))
    /\ Advance(p)
    /\ UNCHANGED <<vars, dht, calls, cmd>>

KeyStep(p) ==
    \/ \E c \in calls[p] : \/ HandleOwnRequest(p, c) \/ ProxyToSucc(p, c)
                           \/ LookUpPeer(p, c) \/ CallCrash(p, c)
    \/ \E m \in inbox[p] : ServeOpen(p, m)
    \/ ProxyNext(p)
    \/ ProxyDone(p)

TableNext ==
    \/ RingStep
    \/ \E p \in Peer : KeyStep(p)
    \/ \E r \in Req, p \in Peer, c \in Cmd : Issue(r, p, c)

TableSpec == TableInit /\ [][TableNext]_<<vars, keyVars>>
-----------------------------------------------------------------------------
\* A connection is unanswered and p has it: unread, open or being served.
Holds(p, c) == rsp[c] = None /\ c \in calls[p] \cup Held(p)

\* A lookup for the hash is on its way, or what it has led to.
LookupUnderWay(p, h) ==
    \/ \E q \in Peer : \E m \in inbox[q] : m.type = "LKUP" /\ m.hash = h /\ m.node = p
    \/ \E m \in inbox[p] : m.type = "RPLY" /\ m.hash = h
    \/ Loops(p, h)

\* While no peer has ended, joins notwithstanding, each request waits at one
\* place only, none is closed without an answer, none is forgotten, and one
\* that a peer waits for is in front of one peer (which may be itself).
RequestsKept == AllAlive =>
    /\ \A r \in Req : cmd[r] # None =>
         IF rsp[ClientConn(r)] = None
         THEN Cardinality({p \in Peer : Holds(p, ClientConn(r))}) = 1
         ELSE rsp[ClientConn(r)] \in Answer
    /\ \A p \in Peer, h \in KeyHash : rt[p][h] # <<>> => LookupUnderWay(p, h)
    /\ \A p \in Peer : job[p] # NoJob /\ job[p].waiting /\ rsp[Onward(p)] = None =>
         Cardinality({q \in Peer : Holds(q, Onward(p))}) = 1
-----------------------------------------------------------------------------
(* The ring as one store.  The part of the table that counts is that of    *)
(* the peer who is responsible, if there is one.                           *)

OwnerOf(h) ==
    IF \E p \in Member : Owns(p, h) THEN CHOOSE p \in Member : Owns(p, h) ELSE NULL

Result(r) ==
    LET said == {rsp[[req |-> r, from |-> q]] : q \in Peer \cup {Client}} \ ({None} \cup Broken)
    IN IF cmd[r] = None \/ said = {} THEN None ELSE CHOOSE a \in said : TRUE

Store == INSTANCE OwnedStore WITH
    Nobody <- NULL,
    owner <- [k \in Key |-> OwnerOf(Hash[k])],
    kv <- [k \in Key |-> LET p == OwnerOf(Hash[k])
                         IN IF p = NULL THEN NoValue ELSE dht[p][k]],
    call <- cmd,
    result <- [r \in Req |-> Result(r)],
    reply <- [r \in Req |-> rsp[ClientConn(r)]]

\* What the mapping reads; a step that leaves it alone is a stutter.
mapped == <<phase, pred, dht, cmd, rsp>>

\* Whatever path a request takes while peers join and end, it takes effect
\* once at most, on the one table that the responsible peers make up; a key
\* that changes its peer starts without a value.  (Once a newcomer has ended
\* early there may be two such peers.)
RingImplementsStore ==
    Store!Init /\ [][EndedEarly' \/ UNCHANGED mapped \/ Store!Next]_Store!vars
=============================================================================
