-------------------------- MODULE StaticRingProofs --------------------------
(* StaticRing for every ring, every set of keys and any number of          *)
(* requests.                                                               *)
EXTENDS StaticRing, TLAPS, WellFoundedInduction

\* What each waiting packet carries with it: a request is one a client has
\* sent; one that comes from a peer has reached its owner; a lookup has
\* not, and a reply names the owner.
PacketOK(p, m) ==
    /\ m.type = "DATA" =>
         /\ cmd[m.conn.req] \in Cmd
         /\ m.conn.from # Client => Owns(p, HashOf(m.conn.req))
    /\ m.type = "LKUP" => ~Owns(p, m.hash)
    /\ m.type = "RPLY" => Owns(m.node, m.hash)

InboxOK == \A p \in Peer : \A m \in inbox[p] : PacketOK(p, m)

\* An open request is filed under the hash of its key.
RtOK ==
    \A p \in Peer, h \in HashId : \A i \in DOMAIN rt[p][h] :
        /\ cmd[rt[p][h][i].req] \in Cmd
        /\ HashOf(rt[p][h][i].req) = h

\* A blocked thread has a request to finish, at the owner of its key.
JobOK ==
    \A p \in Peer : job[p] # NoJob =>
        /\ job[p].todo # <<>>
        /\ \A i \in DOMAIN job[p].todo :
             /\ cmd[job[p].todo[i].req] \in Cmd
             /\ Owns(job[p].to, HashOf(job[p].todo[i].req))

IInv == TypeOK /\ InboxOK /\ RtOK /\ JobOK
-----------------------------------------------------------------------------
\* What the successor owns is what a peer takes for its successor's.
LEMMA SuccOwnsIsOwns ==
    ASSUME NEW p \in Peer, NEW h
    PROVE  SuccOwns(p, h) <=> Owns(Succ[p], h)
BY RingAssumption DEF SuccOwns, Owns

\* The successor of a peer is a peer of the ring.
LEMMA SuccIsPeer == ASSUME NEW p \in Peer PROVE Succ[p] \in Peer
BY RingAssumption

\* A packet is of one of three kinds, each with its fields.
LEMMA PacketKinds ==
    ASSUME NEW m \in Packet
    PROVE  /\ m.type \in {"DATA", "LKUP", "RPLY"}
           /\ m.type = "DATA" => m.conn \in Conn
           /\ m.type # "DATA" => m.hash \in HashId /\ m.node \in Peer
                                 /\ m.tag \in Req
BY DEF Packet, DataPkt, CtrlPkt

\* The three constructors of packets make packets.
LEMMA PacketsMade ==
    /\ \A c \in Conn : Data(c) \in Packet
    /\ \A h \in HashId, n \in Peer, t \in Req :
         Lkup(h, n, t) \in Packet /\ Rply(h, n, t) \in Packet
BY DEF Packet, DataPkt, CtrlPkt, Data, Lkup, Rply

\* The hash that every packet carries is one of the identifiers.
LEMMA HashIsHashId ==
    ASSUME NEW r \in Req, cmd[r] \in Cmd PROVE HashOf(r) \in HashId
BY RingAssumption DEF HashOf, Cmd

\* Where the packets are after p has taken m and sent n to q.
LEMMA ForwardTyped ==
    ASSUME TypeOK, NEW p \in Peer, NEW m, NEW q \in Peer, NEW n \in Packet
    PROVE  /\ Forward(p, m, q, n) \in [Peer -> SUBSET Packet]
           /\ \A s \in Peer : \A k \in Forward(p, m, q, n)[s] :
                k \in inbox[s] \/ (s = q /\ k = n)
BY DEF TypeOK, Forward, Taken

\* Where the packets are after p has taken m and sent nothing.
LEMMA TakenTyped ==
    ASSUME TypeOK, NEW p \in Peer, NEW m
    PROVE  /\ Taken(p, m) \in [Peer -> SUBSET Packet]
           /\ \A s \in Peer : Taken(p, m)[s] \subseteq inbox[s]
BY DEF TypeOK, Taken
-----------------------------------------------------------------------------
\* Before any peer has started there is no packet and no open request.
LEMMA InitInv == Init => IInv
<1> SUFFICES ASSUME Init PROVE IInv
  OBVIOUS
<1>1. TypeOK
  BY RingAssumption DEF Init, TypeOK
<1>2. InboxOK /\ RtOK /\ JobOK
  BY DEF Init, InboxOK, RtOK, JobOK
<1> QED
  BY <1>1, <1>2 DEF IInv

\* The facts of IInv that survive a step which adds at most one packet, n
\* at q, and leaves the commands alone.
LEMMA InboxStep ==
    ASSUME InboxOK, cmd' = cmd, NEW q, NEW n,
           \A s \in Peer : \A k \in inbox'[s] :
               k \in inbox[s] \/ (s = q /\ k = n),
           PacketOK(q, n)
    PROVE  InboxOK'
<1> SUFFICES ASSUME NEW s \in Peer, NEW k \in inbox'[s]
             PROVE  PacketOK(s, k)'
  BY DEF InboxOK
<1>1. PacketOK(s, k)
  BY DEF InboxOK
<1> QED
  BY <1>1 DEF PacketOK, HashOf, Owns

\* The facts about packets survive when some of them are taken away.
LEMMA InboxShrinks ==
    ASSUME InboxOK, cmd' = cmd, \A s \in Peer : inbox'[s] \subseteq inbox[s]
    PROVE  InboxOK'
BY DEF InboxOK, PacketOK, HashOf, Owns

\* No open request is a sequence of connections.
LEMMA EmptyConnSeq == <<>> \in Seq(Conn)
OBVIOUS

\* The rest of a loop over open requests is such a loop again.
LEMMA JobShortened ==
    ASSUME NEW j \in Job, NEW s \in Seq(Conn)
    PROVE  /\ [j EXCEPT !.todo = s, !.waiting = FALSE] \in Job
           /\ [j EXCEPT !.todo = s, !.waiting = FALSE].todo = s
           /\ [j EXCEPT !.todo = s, !.waiting = FALSE].to = j.to
           /\ [j EXCEPT !.todo = s, !.waiting = FALSE].hash = j.hash
BY DEF Job

\* The loop's next state: one request less, or none and back to idle.
LEMMA AdvanceStep ==
    ASSUME IInv, NEW p \in Peer, job[p] # NoJob, Advance(p), cmd' = cmd
    PROVE  /\ job' \in [Peer -> Job \cup {NoJob}]
           /\ rt' \in [Peer -> [HashId -> Seq(Conn)]]
           /\ RtOK' /\ JobOK'
<1>1. /\ job[p] \in Job /\ job[p].todo # <<>>
  BY DEF IInv, TypeOK, JobOK
<1>2. CASE Tail(job[p].todo) = <<>>
  <2>1. job' = [job EXCEPT ![p] = NoJob]
    BY <1>2 DEF Advance
  <2>2. JobOK' /\ job' \in [Peer -> Job \cup {NoJob}]
    BY <2>1 DEF IInv, TypeOK, JobOK, HashOf, Owns
  <2>3. CASE job[p].hash = None
    <3>1. rt' = rt
      BY <1>2, <2>3 DEF Advance
    <3> QED
      BY <2>2, <3>1 DEF IInv, TypeOK, RtOK, HashOf
  <2>4. CASE job[p].hash # None
    <3>1. /\ rt' = [rt EXCEPT ![p][job[p].hash] = <<>>]
          /\ job[p].hash \in HashId
      BY <1>1, <1>2, <2>4 DEF Advance, Job
    <3>2. /\ rt' \in [Peer -> [HashId -> Seq(Conn)]]
          /\ \A q \in Peer, h \in HashId :
               rt'[q][h] = rt[q][h] \/ rt'[q][h] = <<>>
      BY <3>1, EmptyConnSeq DEF IInv, TypeOK
    <3>3. RtOK'
      <4> SUFFICES ASSUME NEW q \in Peer, NEW h \in HashId,
                          NEW i \in DOMAIN rt'[q][h]
                   PROVE  /\ cmd[rt'[q][h][i].req] \in Cmd
                          /\ HashOf(rt'[q][h][i].req) = h
        BY DEF RtOK, HashOf
      <4>1. rt'[q][h] = rt[q][h]
        BY <3>2
      <4> QED
        BY <4>1 DEF IInv, RtOK
    <3> QED
      BY <2>2, <3>2, <3>3
  <2> QED
    BY <2>3, <2>4
<1>3. CASE Tail(job[p].todo) # <<>>
  <2>1. /\ job' = [job EXCEPT ![p].todo = Tail(@), ![p].waiting = FALSE]
        /\ rt' = rt
    BY <1>3 DEF Advance
  <2> DEFINE k == [job[p] EXCEPT !.todo = Tail(job[p].todo), !.waiting = FALSE]
  <2>a. job' = [job EXCEPT ![p] = k]
    BY <2>1
  <2>c. Tail(job[p].todo) \in Seq(Conn)
    BY <1>1 DEF Job
  <2>b. k \in Job /\ k.todo = Tail(job[p].todo) /\ k.to = job[p].to
    BY <1>1, <2>c, JobShortened
  <2> HIDE DEF k
  <2>2. /\ job' \in [Peer -> Job \cup {NoJob}]
        /\ job'[p].todo = Tail(job[p].todo) /\ job'[p].to = job[p].to
        /\ \A s \in Peer \ {p} : job'[s] = job[s]
    BY <2>a, <2>b DEF IInv, TypeOK
  <2>3. \A i \in DOMAIN Tail(job[p].todo) :
           /\ i + 1 \in DOMAIN job[p].todo
           /\ Tail(job[p].todo)[i] = job[p].todo[i + 1]
    BY <1>1 DEF Job
  <2>4. JobOK'
    <3> SUFFICES ASSUME NEW q \in Peer, job'[q] # NoJob
                 PROVE  /\ job'[q].todo # <<>>
                        /\ \A i \in DOMAIN job'[q].todo :
                             /\ cmd[job'[q].todo[i].req] \in Cmd
                             /\ Owns(job'[q].to, HashOf(job'[q].todo[i].req))
      BY DEF JobOK, HashOf, Owns
    <3>1. CASE q = p
      <4>1. ASSUME NEW i \in DOMAIN job'[p].todo
            PROVE  /\ cmd[job'[p].todo[i].req] \in Cmd
                   /\ Owns(job[p].to, HashOf(job'[p].todo[i].req))
        <5>1. /\ i + 1 \in DOMAIN job[p].todo
              /\ job'[p].todo[i] = job[p].todo[i + 1]
          BY <2>2, <2>3
        <5> QED
          BY <5>1 DEF IInv, JobOK
      <4> QED
        BY <1>3, <2>2, <3>1, <4>1
    <3>2. CASE q # p
      BY <2>2, <3>2 DEF IInv, JobOK
    <3> QED
      BY <3>1, <3>2
  <2>5. RtOK' /\ rt' \in [Peer -> [HashId -> Seq(Conn)]]
    <3>1. rt' = rt
      BY <2>1
    <3> QED
      BY <3>1 DEF IInv, TypeOK, RtOK, HashOf
  <2> QED
    BY <2>2, <2>4, <2>5
<1> QED
  BY <1>2, <1>3

\* Open requests and loops that a step leaves alone keep what is known of
\* them.
LEMMA RtKept == ASSUME RtOK, rt' = rt, cmd' = cmd PROVE RtOK'
BY DEF RtOK, HashOf

LEMMA JobKept == ASSUME JobOK, job' = job, cmd' = cmd PROVE JobOK'
BY DEF JobOK, HashOf, Owns
-----------------------------------------------------------------------------
\* Every action keeps IInv: one step for each branch of handle_packet.
LEMMA NextInv == IInv /\ [Next]_vars => IInv'
<1> SUFFICES ASSUME IInv, [Next]_vars PROVE IInv'
  OBVIOUS
<1> USE DEF IInv
<1>1. ASSUME NEW p \in Peer, Start(p) PROVE IInv'
  <2>1. TypeOK'
    BY <1>1 DEF Start, TypeOK
  <2>2. inbox' = inbox /\ rt' = rt /\ job' = job /\ cmd' = cmd
    BY <1>1 DEF Start
  <2> QED
    BY <2>1, <2>2, InboxShrinks, RtKept, JobKept
<1>2. ASSUME NEW r \in Req, NEW p \in Entry, NEW c \in Cmd, Issue(r, p, c)
      PROVE  IInv'
  <2>1. p \in Peer /\ ClientConn(r) \in Conn
    BY RingAssumption DEF ClientConn, Conn
  <2>2. /\ cmd[r] = None /\ cmd' = [cmd EXCEPT ![r] = c]
        /\ inbox' = [inbox EXCEPT ![p] = @ \cup {Data(ClientConn(r))}]
        /\ late' = late /\ up' = up /\ dht' = dht /\ rt' = rt /\ job' = job /\ rsp' = rsp
    BY <1>2 DEF Issue
  <2>3. TypeOK'
    BY <2>1, <2>2, PacketsMade DEF TypeOK
  <2>4. \A q \in Req : cmd[q] \in Cmd => cmd'[q] = cmd[q]
    BY <2>2, SentinelAssumption DEF TypeOK, Cmd, Op
  <2>5. InboxOK'
    <3> SUFFICES ASSUME NEW s \in Peer, NEW k \in inbox'[s]
                 PROVE  PacketOK(s, k)'
      BY DEF InboxOK
    <3>1. CASE k \in inbox[s]
      <4>1. k \in Packet /\ PacketOK(s, k)
        BY <3>1 DEF TypeOK, InboxOK
      <4>2. k.type = "DATA" => k.conn.req \in Req
        BY <4>1, PacketKinds DEF Conn
      <4> QED
        BY <2>4, <4>1, <4>2 DEF PacketOK, HashOf, Owns
    <3>2. CASE s = p /\ k = Data(ClientConn(r))
      BY <2>2, <3>2 DEF PacketOK, Data, ClientConn, TypeOK
    <3> QED
      BY <2>1, <2>2, <3>1, <3>2 DEF TypeOK
  <2>6. RtOK'
    <3>1. ASSUME NEW q \in Peer, NEW h \in HashId, NEW i \in DOMAIN rt[q][h]
          PROVE  rt[q][h][i].req \in Req
      <4>1. rt[q][h] \in Seq(Conn)
        BY DEF TypeOK
      <4>2. rt[q][h][i] \in Conn
        BY <4>1
      <4> QED
        BY <4>2 DEF Conn
    <3> QED
      BY <2>2, <2>4, <3>1 DEF RtOK, HashOf
  <2>7. JobOK'
    <3>1. ASSUME NEW q \in Peer, job[q] # NoJob, NEW i \in DOMAIN job[q].todo
          PROVE  job[q].todo[i].req \in Req
      <4>1. job[q].todo \in Seq(Conn)
        BY <3>1 DEF TypeOK, Job
      <4>2. job[q].todo[i] \in Conn
        BY <4>1
      <4> QED
        BY <4>2 DEF Conn
    <3> SUFFICES ASSUME NEW q \in Peer, job[q] # NoJob
                 PROVE  /\ job[q].todo # <<>>
                        /\ \A i \in DOMAIN job[q].todo :
                             /\ cmd'[job[q].todo[i].req] \in Cmd
                             /\ Owns(job[q].to, Hash[cmd'[job[q].todo[i].req].key])
      BY <2>2 DEF JobOK, HashOf, Owns
    <3>2. /\ job[q].todo # <<>>
          /\ \A i \in DOMAIN job[q].todo :
               /\ cmd[job[q].todo[i].req] \in Cmd
               /\ Owns(job[q].to, Hash[cmd[job[q].todo[i].req].key])
      BY DEF JobOK, HashOf
    <3> QED
      BY <2>4, <3>1, <3>2
  <2> QED
    BY <2>3, <2>5, <2>6, <2>7
<1>3. ASSUME NEW p \in Peer, NEW m \in inbox[p], HandleOwnRequest(p, m)
      PROVE  IInv'
  <2>1. m \in Packet /\ m.type = "DATA" /\ PacketOK(p, m)
    BY <1>3 DEF HandleOwnRequest, TypeOK, InboxOK
  <2>2. m.conn \in Conn /\ m.conn.req \in Req /\ cmd[m.conn.req] \in Cmd
    BY <2>1, PacketKinds DEF PacketOK, Conn
  <2> DEFINE c == cmd[m.conn.req]
  <2>3. /\ Stored(dht[p], c) \in [Key -> Value \cup {NoValue}]
        /\ AnswerTo(dht[p], c) \in Answer
    BY <2>2 DEF TypeOK, Stored, AnswerTo, Answer, Cmd, Op
  <2>4. /\ dht' = [dht EXCEPT ![p] = Stored(@, c)]
        /\ rsp' = [rsp EXCEPT ![m.conn] = AnswerTo(dht[p], c)]
        /\ inbox' = Taken(p, m)
        /\ late' = late /\ up' = up /\ rt' = rt /\ job' = job /\ cmd' = cmd
    BY <1>3 DEF HandleOwnRequest, Respond
  <2>5. TypeOK'
    BY <2>2, <2>3, <2>4, TakenTyped DEF TypeOK
  <2>6. InboxOK'
    BY <2>4, TakenTyped, InboxShrinks
  <2> QED
    BY <2>4, <2>5, <2>6, RtKept, JobKept
<1>4. ASSUME NEW p \in Peer, NEW m \in inbox[p], ProxyToSucc(p, m)
      PROVE  IInv'
  <2>1. m \in Packet /\ m.type = "DATA" /\ PacketOK(p, m)
    BY <1>4 DEF ProxyToSucc, TypeOK, InboxOK
  <2>2. m.conn \in Conn /\ m.conn.req \in Req /\ cmd[m.conn.req] \in Cmd
    BY <2>1, PacketKinds DEF PacketOK, Conn
  <2> DEFINE d == [req |-> m.conn.req, from |-> p]
  <2>3. d \in Conn /\ Data(d) \in Packet /\ Succ[p] \in Peer
    BY <2>2, PacketsMade, SuccIsPeer DEF Conn
  <2>4. /\ inbox' = Forward(p, m, Succ[p], Data(d))
        /\ late' = late /\ up' = up /\ dht' = dht /\ rt' = rt /\ cmd' = cmd /\ rsp' = rsp
    BY <1>4 DEF ProxyToSucc
  <2>5. Owns(Succ[p], HashOf(m.conn.req))
    BY <1>4, SuccOwnsIsOwns DEF ProxyToSucc
  <2>6. InboxOK'
    <3>1. PacketOK(Succ[p], Data(d))
      BY <2>2, <2>5 DEF PacketOK, Data
    <3> QED
      BY <2>3, <2>4, <3>1, ForwardTyped, InboxStep
  <2>9. inbox' \in [Peer -> SUBSET Packet]
    BY <2>3, <2>4, ForwardTyped
  <2>7. CASE job' = job
    <3>1. TypeOK'
      BY <2>4, <2>7, <2>9 DEF TypeOK
    <3> QED
      BY <2>4, <2>6, <2>7, <3>1, RtKept, JobKept
  <2>8. CASE job' = [job EXCEPT ![p] = [todo |-> <<m.conn>>, to |-> Succ[p],
                                        hash |-> None, waiting |-> TRUE]]
    <3>1. job' \in [Peer -> Job \cup {NoJob}]
      BY <2>2, <2>3, <2>8 DEF TypeOK, Job
    <3>2. TypeOK'
      BY <2>4, <2>9, <3>1 DEF TypeOK
    <3>3. JobOK'
      <4> SUFFICES ASSUME NEW q \in Peer, job'[q] # NoJob
                   PROVE  /\ job'[q].todo # <<>>
                          /\ \A i \in DOMAIN job'[q].todo :
                               /\ cmd[job'[q].todo[i].req] \in Cmd
                               /\ Owns(job'[q].to, HashOf(job'[q].todo[i].req))
        BY <2>4 DEF JobOK, HashOf, Owns
      <4>1. CASE q = p
        BY <2>2, <2>5, <2>8, <4>1 DEF TypeOK
      <4>2. CASE q # p
        BY <2>8, <4>2 DEF TypeOK, JobOK
      <4> QED
        BY <4>1, <4>2
    <3> QED
      BY <2>4, <2>6, <3>2, <3>3 DEF RtOK, HashOf
  <2> QED
    BY <1>4, <2>7, <2>8 DEF ProxyToSucc
<1>5. ASSUME NEW p \in Peer, NEW m \in inbox[p], LookUpPeer(p, m)
      PROVE  IInv'
  <2>1. m \in Packet /\ m.type = "DATA" /\ PacketOK(p, m)
    BY <1>5 DEF LookUpPeer, TypeOK, InboxOK
  <2>2. m.conn \in Conn /\ m.conn.req \in Req /\ cmd[m.conn.req] \in Cmd
    BY <2>1, PacketKinds DEF PacketOK, Conn
  <2> DEFINE h == HashOf(m.conn.req)
             n == Lkup(h, p, m.conn.req)
  <2>3. h \in HashId /\ n \in Packet /\ Succ[p] \in Peer
    BY <2>2, HashIsHashId, PacketsMade, SuccIsPeer
  <2>4. /\ rt' = [rt EXCEPT ![p][h] = Append(@, m.conn)]
        /\ inbox' = Forward(p, m, Succ[p], n)
        /\ late' = late /\ up' = up /\ dht' = dht /\ job' = job /\ cmd' = cmd /\ rsp' = rsp
    BY <1>5 DEF LookUpPeer
  <2>8. /\ inbox' \in [Peer -> SUBSET Packet]
        /\ \A s \in Peer : \A k \in inbox'[s] :
             k \in inbox[s] \/ (s = Succ[p] /\ k = n)
    <3> HIDE DEF n, h
    <3>1. inbox' = Forward(p, m, Succ[p], n)
      BY <2>4
    <3> QED
      BY <2>3, <3>1, ForwardTyped
  <2>5. InboxOK'
    <3>1. ~Owns(Succ[p], h)
      BY <1>5, SuccOwnsIsOwns DEF LookUpPeer
    <3>2. PacketOK(Succ[p], n)
      BY <3>1 DEF PacketOK, Lkup
    <3> HIDE DEF n
    <3> QED
      BY <2>3, <2>4, <2>8, <3>2, InboxStep
  <2>6. TypeOK'
    <3>1. rt' \in [Peer -> [HashId -> Seq(Conn)]]
      BY <2>2, <2>3, <2>4 DEF TypeOK
    <3> QED
      BY <2>4, <2>8, <3>1 DEF TypeOK
  <2>7. RtOK'
    <3> SUFFICES ASSUME NEW q \in Peer, NEW g \in HashId,
                        NEW i \in DOMAIN rt'[q][g]
                 PROVE  /\ cmd[rt'[q][g][i].req] \in Cmd
                        /\ Hash[cmd[rt'[q][g][i].req].key] = g
      <4>1. cmd' = cmd
        BY <2>4
      <4> QED
        BY <4>1 DEF RtOK, HashOf
    <3>1. CASE q = p /\ g = h
      <4>1. rt'[q][g] = Append(rt[q][g], m.conn) /\ rt[q][g] \in Seq(Conn)
        BY <2>3, <2>4, <3>1 DEF TypeOK
      <4>2. \/ i \in DOMAIN rt[q][g] /\ rt'[q][g][i] = rt[q][g][i]
            \/ rt'[q][g][i] = m.conn
        BY <4>1
      <4>3. CASE i \in DOMAIN rt[q][g] /\ rt'[q][g][i] = rt[q][g][i]
        BY <4>3 DEF RtOK, HashOf
      <4>4. CASE rt'[q][g][i] = m.conn
        BY <2>2, <3>1, <4>4 DEF HashOf
      <4> QED
        BY <4>2, <4>3, <4>4
    <3>2. CASE ~(q = p /\ g = h)
      <4>1. rt'[q][g] = rt[q][g]
        BY <2>3, <2>4, <3>2 DEF TypeOK
      <4> QED
        BY <4>1 DEF RtOK, HashOf
    <3> QED
      BY <3>1, <3>2
  <2> QED
    BY <2>4, <2>5, <2>6, <2>7, JobKept
<1>6. ASSUME NEW p \in Peer, NEW m \in inbox[p], HandleLookup(p, m)
      PROVE  IInv'
  <2>1. m \in Packet /\ m.type = "LKUP" /\ PacketOK(p, m)
    BY <1>6 DEF HandleLookup, TypeOK, InboxOK
  <2>2. /\ m.hash \in HashId /\ m.node \in Peer /\ m.tag \in Req
        /\ Succ[p] \in Peer
    BY <2>1, PacketKinds, SuccIsPeer
  <2>3. late' = late /\ up' = up /\ dht' = dht /\ rt' = rt /\ job' = job /\ cmd' = cmd /\ rsp' = rsp
    BY <1>6 DEF HandleLookup
  <2>4. \E q \in Peer, n \in Packet :
           inbox' = Forward(p, m, q, n) /\ PacketOK(q, n)
    <3>1. CASE Owns(p, m.hash)
      <4>1. inbox' = Forward(p, m, m.node, Rply(m.hash, p, m.tag))
        BY <1>6, <3>1 DEF HandleLookup
      <4>2. PacketOK(m.node, Rply(m.hash, p, m.tag))
        BY <3>1 DEF PacketOK, Rply
      <4> QED
        BY <2>2, <4>1, <4>2, PacketsMade
    <3>2. CASE ~Owns(p, m.hash) /\ SuccOwns(p, m.hash)
      <4>1. inbox' = Forward(p, m, m.node, Rply(m.hash, Succ[p], m.tag))
        BY <1>6, <3>2 DEF HandleLookup
      <4>2. PacketOK(m.node, Rply(m.hash, Succ[p], m.tag))
        BY <3>2, SuccOwnsIsOwns DEF PacketOK, Rply
      <4> QED
        BY <2>2, <4>1, <4>2, PacketsMade
    <3>3. CASE ~Owns(p, m.hash) /\ ~SuccOwns(p, m.hash)
      <4>1. inbox' = Forward(p, m, Succ[p], m)
        BY <1>6, <3>3 DEF HandleLookup
      <4>2. PacketOK(Succ[p], m)
        BY <2>1, <3>3, SuccOwnsIsOwns DEF PacketOK
      <4> QED
        BY <2>1, <2>2, <4>1, <4>2
    <3> QED
      BY <3>1, <3>2, <3>3
  <2>5. PICK q \in Peer, n \in Packet :
           inbox' = Forward(p, m, q, n) /\ PacketOK(q, n)
    BY <2>4
  <2>6. InboxOK'
    BY <2>3, <2>5, ForwardTyped, InboxStep
  <2>7. TypeOK'
    BY <2>3, <2>5, ForwardTyped DEF TypeOK
  <2> QED
    BY <2>3, <2>6, <2>7, RtKept, JobKept
<1>7. ASSUME NEW p \in Peer, NEW m \in inbox[p], HandleReply(p, m)
      PROVE  IInv'
  <2>1. m \in Packet /\ m.type = "RPLY" /\ PacketOK(p, m)
    BY <1>7 DEF HandleReply, TypeOK, InboxOK
  <2>2. m.hash \in HashId /\ m.node \in Peer /\ Owns(m.node, m.hash)
    BY <2>1, PacketKinds DEF PacketOK
  <2>3. /\ inbox' = Taken(p, m)
        /\ late' = late /\ up' = up /\ dht' = dht /\ rt' = rt /\ cmd' = cmd /\ rsp' = rsp
    BY <1>7 DEF HandleReply
  <2>4. InboxOK'
    BY <2>3, TakenTyped, InboxShrinks
  <2>5. RtOK'
    BY <2>3 DEF RtOK, HashOf
  <2> DEFINE j == [todo |-> rt[p][m.hash], to |-> m.node,
                   hash |-> m.hash, waiting |-> FALSE]
  <2>6. CASE rt[p][m.hash] = <<>>
    <3>1. job' = job
      BY <1>7, <2>6 DEF HandleReply
    <3>2. TypeOK'
      BY <2>3, <3>1, TakenTyped DEF TypeOK
    <3> QED
      BY <2>3, <2>4, <2>5, <3>1, <3>2, JobKept
  <2>7. CASE rt[p][m.hash] # <<>>
    <3>1. job' = [job EXCEPT ![p] = j] /\ j \in Job
      BY <1>7, <2>2, <2>7 DEF HandleReply, TypeOK, Job
    <3>2. TypeOK'
      BY <2>3, <3>1, TakenTyped DEF TypeOK
    <3>3. JobOK'
      <4> SUFFICES ASSUME NEW q \in Peer, job'[q] # NoJob
                   PROVE  /\ job'[q].todo # <<>>
                          /\ \A i \in DOMAIN job'[q].todo :
                               /\ cmd[job'[q].todo[i].req] \in Cmd
                               /\ Owns(job'[q].to, HashOf(job'[q].todo[i].req))
        BY <2>3 DEF JobOK, HashOf, Owns
      <4>1. CASE q = p
        BY <2>2, <2>7, <3>1, <4>1 DEF TypeOK, RtOK
      <4>2. CASE q # p
        BY <3>1, <4>2 DEF TypeOK, JobOK
      <4> QED
        BY <4>1, <4>2
    <3> QED
      BY <2>4, <2>5, <3>2, <3>3
  <2> QED
    BY <2>6, <2>7
<1>8. ASSUME NEW p \in Peer, ProxyNext(p) PROVE IInv'
  <2>1. /\ job[p] # NoJob /\ job[p] \in Job /\ job[p].todo # <<>>
        /\ Current(p) \in Conn /\ job[p].to \in Peer
        /\ cmd[Current(p).req] \in Cmd
        /\ Owns(job[p].to, HashOf(Current(p).req))
    BY <1>8 DEF ProxyNext, Busy, TypeOK, JobOK, Current, Job
  <2>2. late' = late /\ up' = up /\ dht' = dht /\ cmd' = cmd
    BY <1>8 DEF ProxyNext
  <2>3. CASE job[p].to \in up
    <3>1. /\ inbox' = [inbox EXCEPT ![job[p].to] = @ \cup {Data(Onward(p))}]
          /\ job' = [job EXCEPT ![p].waiting = TRUE]
          /\ rt' = rt /\ rsp' = rsp
      BY <1>8, <2>3 DEF ProxyNext
    <3>2. Onward(p) \in Conn /\ Data(Onward(p)) \in Packet
      BY <2>1, PacketsMade DEF Onward, Conn
    <3>3. InboxOK'
      <4>1. PacketOK(job[p].to, Data(Onward(p)))
        BY <2>1 DEF PacketOK, Data, Onward
      <4>2. \A s \in Peer : \A k \in inbox'[s] :
               k \in inbox[s] \/ (s = job[p].to /\ k = Data(Onward(p)))
        BY <3>1 DEF TypeOK
      <4> QED
        BY <2>2, <4>1, <4>2, InboxStep
    <3>4. /\ job' \in [Peer -> Job \cup {NoJob}]
          /\ job'[p].todo = job[p].todo /\ job'[p].to = job[p].to
          /\ \A s \in Peer \ {p} : job'[s] = job[s]
      BY <2>1, <3>1 DEF TypeOK, Job
    <3>5. TypeOK'
      BY <2>1, <2>2, <3>1, <3>2, <3>4 DEF TypeOK
    <3>6. JobOK'
      <4> SUFFICES ASSUME NEW q \in Peer, job'[q] # NoJob
                   PROVE  /\ job'[q].todo # <<>>
                          /\ \A i \in DOMAIN job'[q].todo :
                               /\ cmd[job'[q].todo[i].req] \in Cmd
                               /\ Owns(job'[q].to, HashOf(job'[q].todo[i].req))
        BY <2>2 DEF JobOK, HashOf, Owns
      <4>1. job[q] # NoJob /\ job'[q].todo = job[q].todo /\ job'[q].to = job[q].to
        BY <2>1, <3>4
      <4> QED
        BY <4>1 DEF JobOK
    <3> QED
      BY <2>2, <3>1, <3>3, <3>5, <3>6, RtKept
  <2>4. CASE job[p].to \notin up
    <3>1. /\ rsp' = [rsp EXCEPT ![Current(p)] = Closed]
          /\ Advance(p) /\ inbox' = inbox
      BY <1>8, <2>4 DEF ProxyNext, Respond
    <3>2. /\ job' \in [Peer -> Job \cup {NoJob}]
          /\ rt' \in [Peer -> [HashId -> Seq(Conn)]]
          /\ RtOK' /\ JobOK'
      BY <2>1, <2>2, <3>1, AdvanceStep
    <3>3. InboxOK'
      BY <2>2, <3>1, InboxShrinks
    <3>4. TypeOK'
      BY <2>1, <2>2, <3>1, <3>2 DEF TypeOK
    <3> QED
      BY <3>2, <3>3, <3>4
  <2> QED
    BY <2>3, <2>4
<1>9. ASSUME NEW p \in Peer, ProxyDone(p) PROVE IInv'
  <2>1. /\ job[p] # NoJob /\ job[p] \in Job /\ job[p].todo # <<>>
        /\ Current(p) \in Conn
    BY <1>9 DEF ProxyDone, Busy, TypeOK, JobOK, Current, Job
  <2>6. Onward(p) \in Conn
    BY <2>1 DEF Onward, Conn
  <2>2. /\ late' = late /\ up' = up /\ dht' = dht /\ cmd' = cmd /\ inbox' = inbox
        /\ rsp' = [rsp EXCEPT ![Current(p)] = rsp[Onward(p)]]
        /\ Advance(p)
    BY <1>9 DEF ProxyDone, Respond
  <2>3. /\ job' \in [Peer -> Job \cup {NoJob}]
        /\ rt' \in [Peer -> [HashId -> Seq(Conn)]]
        /\ RtOK' /\ JobOK'
    BY <2>1, <2>2, AdvanceStep
  <2>4. InboxOK'
    BY <2>2, InboxShrinks
  <2>5. TypeOK'
    BY <2>1, <2>2, <2>3, <2>6 DEF TypeOK
  <2> QED
    BY <2>3, <2>4, <2>5
<1>10. CASE UNCHANGED vars
  <2>1. inbox' = inbox /\ rt' = rt /\ job' = job /\ cmd' = cmd
    BY <1>10 DEF vars
  <2>2. TypeOK'
    BY <1>10 DEF vars, TypeOK
  <2> QED
    BY <2>1, <2>2, InboxShrinks, RtKept, JobKept
<1> QED
  BY <1>1, <1>2, <1>3, <1>4, <1>5, <1>6, <1>7, <1>8, <1>9, <1>10
     DEF Next, Run, HandlePacket
-----------------------------------------------------------------------------
\* Whoever has not been started late listens.
Listen == Peer \ late \subseteq up

\* What a packet that is sent to a listening peer leaves behind: itself, and
\* everything but the packet that was taken.
LEMMA ForwardSent ==
    ASSUME TypeOK, NEW p \in Peer, NEW m, NEW q \in up, NEW n
    PROVE  /\ n \in Forward(p, m, q, n)[q]
           /\ \A s \in Peer : \A k \in inbox[s] :
                ~(s = p /\ k = m) => k \in Forward(p, m, q, n)[s]
BY DEF TypeOK, Forward, Taken

\* A search that a step has nothing to do with goes on: the step takes no
\* packet that belongs to it, and a loop that has begun keeps its hash.
LEMMA StillUnderWay ==
    ASSUME NEW p \in Peer, NEW h \in HashId, LookupUnderWay(p, h),
           NEW t \in Peer, NEW m,
           \A s \in Peer : \A k \in inbox[s] : ~(s = t /\ k = m) => k \in inbox'[s],
           ~(m.type = "LKUP" /\ m.hash = h /\ m.node = p),
           ~(t = p /\ m.type = "RPLY" /\ m.hash = h),
           job[p] # NoJob /\ job[p].hash = h => job'[p] # NoJob /\ job'[p].hash = h
    PROVE  LookupUnderWay(p, h)'
BY DEF LookupUnderWay

\* The same for a step that takes no packet at all.
LEMMA SearchGoesOn ==
    ASSUME NEW p \in Peer, NEW h \in HashId, LookupUnderWay(p, h),
           \A s \in Peer : inbox[s] \subseteq inbox'[s],
           job[p] # NoJob /\ job[p].hash = h => job'[p] # NoJob /\ job'[p].hash = h
    PROVE  LookupUnderWay(p, h)'
BY DEF LookupUnderWay

\* The loop over open requests goes on with its hash until it has cleared it.
LEMMA AdvanceKeepsHash ==
    ASSUME IInv, NEW p \in Peer, job[p] # NoJob, Advance(p),
           NEW q \in Peer, NEW h \in HashId, rt'[q][h] # <<>>
    PROVE  /\ rt[q][h] # <<>>
           /\ job[q] # NoJob /\ job[q].hash = h => job'[q] # NoJob /\ job'[q].hash = h
<1>1. job[p] \in Job
  BY DEF IInv, TypeOK
<1>2. CASE Tail(job[p].todo) = <<>>
  <2>1. /\ job' = [job EXCEPT ![p] = NoJob]
        /\ rt' = IF job[p].hash = None THEN rt
                 ELSE [rt EXCEPT ![p][job[p].hash] = <<>>]
    BY <1>2 DEF Advance
  <2>2. CASE q = p /\ h = job[p].hash
    BY <2>1, <2>2, SentinelAssumption DEF IInv, TypeOK
  <2>3. CASE ~(q = p /\ h = job[p].hash)
    <3>1. rt'[q][h] = rt[q][h]
      BY <2>1, <2>3 DEF IInv, TypeOK
    <3> QED
      BY <2>1, <2>3, <3>1 DEF IInv, TypeOK
  <2> QED
    BY <2>2, <2>3
<1>3. CASE Tail(job[p].todo) # <<>>
  <2> DEFINE k == [job[p] EXCEPT !.todo = Tail(job[p].todo), !.waiting = FALSE]
  <2>1. /\ job' = [job EXCEPT ![p] = k]
        /\ rt' = rt
    BY <1>3 DEF Advance
  <2>2. k \in Job /\ k.hash = job[p].hash
    <3>1. Tail(job[p].todo) \in Seq(Conn)
      BY <1>1 DEF Job, IInv, JobOK
    <3> QED
      BY <1>1, <3>1, JobShortened
  <2> HIDE DEF k
  <2> QED
    BY <2>1, <2>2, SentinelAssumption DEF IInv, TypeOK
<1> QED
  BY <1>2, <1>3

\* No step loses the search for the owner of an open request's hash.
LEMMA LookupsNext ==
    ASSUME IInv, Listen, OpenRequestsHaveLookup, [Next]_vars
    PROVE  Listen' /\ OpenRequestsHaveLookup'
<1>1. late' = late /\ up \subseteq up'
  <2>1. ASSUME NEW p \in Peer, Start(p) PROVE late' = late /\ up \subseteq up'
    BY <2>1 DEF Start
  <2>2. ASSUME NEW r \in Req, NEW p \in Entry, NEW c \in Cmd, Issue(r, p, c)
        PROVE  late' = late /\ up' = up
    BY <2>2 DEF Issue
  <2>3. ASSUME NEW p \in Peer, NEW m \in inbox[p], HandlePacket(p, m)
        PROVE  late' = late /\ up' = up
    BY <2>3 DEF HandlePacket, HandleOwnRequest, ProxyToSucc, LookUpPeer, HandleLookup, HandleReply
  <2>4. ASSUME NEW p \in Peer, ProxyNext(p) \/ ProxyDone(p)
        PROVE  late' = late /\ up' = up
    BY <2>4 DEF ProxyNext, ProxyDone
  <2>5. CASE UNCHANGED vars
    BY <2>5 DEF vars
  <2> QED
    BY <2>1, <2>2, <2>3, <2>4, <2>5 DEF Next, Run
<1>2. Listen'
  BY <1>1 DEF Listen
<1>3. SUFFICES ASSUME late = {}, NEW p \in Peer, NEW h \in HashId, rt'[p][h] # <<>>
               PROVE  LookupUnderWay(p, h)'
  BY <1>1, <1>2 DEF OpenRequestsHaveLookup
<1>u. up = Peer
  BY <1>3 DEF Listen, IInv, TypeOK
<1>r. rt[p][h] # <<>> => LookupUnderWay(p, h)
  BY <1>3 DEF OpenRequestsHaveLookup
<1>4. CASE rt' = rt /\ job' = job /\ inbox' = inbox
  BY <1>3, <1>4, <1>r, SearchGoesOn
<1>5. ASSUME NEW r \in Req, NEW q \in Entry, NEW c \in Cmd, Issue(r, q, c)
      PROVE  LookupUnderWay(p, h)'
  <2>1. /\ rt' = rt /\ job' = job
        /\ \A s \in Peer : inbox[s] \subseteq inbox'[s]
    BY <1>5 DEF Issue, IInv, TypeOK
  <2> QED
    BY <2>1, <1>3, <1>r, SearchGoesOn
<1>6. ASSUME NEW q \in Peer, NEW m \in inbox[q], HandleOwnRequest(q, m) \/ ProxyToSucc(q, m)
      PROVE  LookupUnderWay(p, h)'
  <2>1. /\ m.type = "DATA" /\ rt' = rt
        /\ job[q] = NoJob
        /\ \A s \in Peer \ {q} : job'[s] = job[s]
    BY <1>6 DEF HandleOwnRequest, ProxyToSucc, Takes, IInv, TypeOK
  <2>2. \A s \in Peer : \A k \in inbox[s] : ~(s = q /\ k = m) => k \in inbox'[s]
    <3>1. CASE HandleOwnRequest(q, m)
      BY <3>1 DEF HandleOwnRequest, Taken, IInv, TypeOK
    <3>2. CASE ProxyToSucc(q, m)
      <4>1. inbox' = Forward(q, m, Succ[q], Data([req |-> m.conn.req, from |-> q]))
        BY <3>2 DEF ProxyToSucc
      <4> QED
        BY <4>1, <1>u, SuccIsPeer, ForwardSent DEF IInv
    <3> QED
      BY <1>6, <3>1, <3>2
  <2> QED
    BY <2>1, <2>2, <1>3, <1>r, StillUnderWay
<1>7. ASSUME NEW q \in Peer, NEW m \in inbox[q], LookUpPeer(q, m)
      PROVE  LookupUnderWay(p, h)'
  <2> DEFINE g == HashOf(m.conn.req)
             n == Lkup(g, q, m.conn.req)
  <2>1. /\ m.type = "DATA" /\ job' = job
        /\ rt' = [rt EXCEPT ![q][g] = Append(@, m.conn)]
        /\ inbox' = Forward(q, m, Succ[q], n)
    BY <1>7 DEF LookUpPeer
  <2>2. /\ n \in inbox'[Succ[q]] /\ Succ[q] \in Peer
        /\ \A s \in Peer : \A k \in inbox[s] : ~(s = q /\ k = m) => k \in inbox'[s]
    <3> HIDE DEF n
    <3> QED
      BY <2>1, <1>u, SuccIsPeer, ForwardSent DEF IInv
  <2>3. CASE q = p /\ h = g
    BY <2>2, <2>3 DEF LookupUnderWay, Lkup
  <2>4. CASE ~(q = p /\ h = g)
    <3>1. rt'[p][h] = rt[p][h]
      BY <2>1, <2>4 DEF IInv, TypeOK
    <3>2. LookupUnderWay(p, h)
      BY <3>1, <1>3, <1>r
    <3>3. job' = job /\ m.type = "DATA"
      BY <2>1
    <3> HIDE DEF n
    <3> QED
      BY <2>2, <3>2, <3>3, StillUnderWay
  <2> QED
    BY <2>3, <2>4
<1>8. ASSUME NEW q \in Peer, NEW m \in inbox[q], HandleLookup(q, m)
      PROVE  LookupUnderWay(p, h)'
  <2>1. m \in Packet /\ m.type = "LKUP" /\ rt' = rt /\ job' = job
    BY <1>8 DEF HandleLookup, IInv, TypeOK
  <2>2. m.hash \in HashId /\ m.node \in Peer /\ Succ[q] \in Peer
    BY <2>1, PacketKinds, SuccIsPeer
  <2>3. \E s, n :
           /\ s \in Peer /\ inbox' = Forward(q, m, s, n) /\ n.hash = m.hash
           /\ \/ n.type = "LKUP" /\ n.node = m.node
              \/ n.type = "RPLY" /\ s = m.node
    <3>1. CASE Owns(q, m.hash)
      <4>1. inbox' = Forward(q, m, m.node, Rply(m.hash, q, m.tag))
        BY <1>8, <3>1 DEF HandleLookup
      <4> QED
        BY <2>2, <4>1 DEF Rply
    <3>2. CASE ~Owns(q, m.hash) /\ SuccOwns(q, m.hash)
      <4>1. inbox' = Forward(q, m, m.node, Rply(m.hash, Succ[q], m.tag))
        BY <1>8, <3>2 DEF HandleLookup
      <4> QED
        BY <2>2, <4>1 DEF Rply
    <3>3. CASE ~Owns(q, m.hash) /\ ~SuccOwns(q, m.hash)
      <4>1. inbox' = Forward(q, m, Succ[q], m)
        BY <1>8, <3>3 DEF HandleLookup
      <4> QED
        BY <2>1, <2>2, <4>1
    <3> QED
      BY <3>1, <3>2, <3>3
  <2>4. PICK s, n :
           /\ s \in Peer /\ inbox' = Forward(q, m, s, n) /\ n.hash = m.hash
           /\ \/ n.type = "LKUP" /\ n.node = m.node
              \/ n.type = "RPLY" /\ s = m.node
    BY <2>3
  <2>5. /\ n \in inbox'[s]
        /\ \A t \in Peer : \A k \in inbox[t] : ~(t = q /\ k = m) => k \in inbox'[t]
    BY <2>4, <1>u, ForwardSent DEF IInv
  <2>6. CASE m.hash = h /\ m.node = p
    BY <2>4, <2>5, <2>6 DEF LookupUnderWay
  <2>7. CASE ~(m.hash = h /\ m.node = p)
    BY <2>1, <2>5, <2>7, <1>3, <1>r, StillUnderWay
  <2> QED
    BY <2>6, <2>7
<1>9. ASSUME NEW q \in Peer, NEW m \in inbox[q], HandleReply(q, m)
      PROVE  LookupUnderWay(p, h)'
  <2>1. /\ m \in Packet /\ m.type = "RPLY" /\ rt' = rt /\ inbox' = Taken(q, m)
        /\ job[q] = NoJob
    BY <1>9 DEF HandleReply, Takes, IInv, TypeOK
  <2>2. \A s \in Peer : \A k \in inbox[s] : ~(s = q /\ k = m) => k \in inbox'[s]
    BY <2>1 DEF Taken, IInv, TypeOK
  <2>3. CASE q = p /\ m.hash = h
    <3> DEFINE j == [todo |-> rt[p][h], to |-> m.node, hash |-> h, waiting |-> FALSE]
    <3>1. job' = [job EXCEPT ![p] = j]
      BY <1>3, <1>9, <2>1, <2>3 DEF HandleReply
    <3>2. j \in Job /\ j.hash = h
      BY <2>1, PacketKinds DEF Job, IInv, TypeOK
    <3> HIDE DEF j
    <3> QED
      BY <3>1, <3>2, SentinelAssumption DEF LookupUnderWay, IInv, TypeOK
  <2>4. CASE ~(q = p /\ m.hash = h)
    <3>1. job[p] # NoJob => job'[p] = job[p]
      BY <1>9, <2>1 DEF HandleReply, IInv, TypeOK
    <3> QED
      BY <2>1, <2>2, <2>4, <3>1, <1>3, <1>r, StillUnderWay
  <2> QED
    BY <2>3, <2>4
<1>10. ASSUME NEW q \in Peer, ProxyNext(q) PROVE LookupUnderWay(p, h)'
  <2>1. job[q] # NoJob /\ job[q] \in Job /\ job[q].to \in up
    BY <1>10, <1>u DEF ProxyNext, Busy, IInv, TypeOK, Job
  <2> DEFINE k == [job[q] EXCEPT !.waiting = TRUE]
  <2>2. /\ rt' = rt /\ job' = [job EXCEPT ![q] = k]
        /\ inbox' = [inbox EXCEPT ![job[q].to] = @ \cup {Data(Onward(q))}]
    BY <1>10, <2>1 DEF ProxyNext
  <2>3. k \in Job /\ k.hash = job[q].hash
    BY <2>1 DEF Job
  <2>4. \A s \in Peer : inbox[s] \subseteq inbox'[s]
    BY <2>2 DEF IInv, TypeOK
  <2>5. job[p] # NoJob /\ job[p].hash = h => job'[p] # NoJob /\ job'[p].hash = h
    <3> HIDE DEF k
    <3> QED
      BY <2>2, <2>3, SentinelAssumption DEF IInv, TypeOK
  <2> QED
    BY <2>2, <2>4, <2>5, <1>3, <1>r, SearchGoesOn
<1>11. ASSUME NEW q \in Peer, ProxyDone(q) PROVE LookupUnderWay(p, h)'
  <2>1. job[q] # NoJob /\ Advance(q) /\ inbox' = inbox
    BY <1>11 DEF ProxyDone, Busy
  <2>2. /\ rt[p][h] # <<>>
        /\ job[p] # NoJob /\ job[p].hash = h => job'[p] # NoJob /\ job'[p].hash = h
    BY <2>1, <1>3, AdvanceKeepsHash
  <2> QED
    BY <2>1, <2>2, <1>r, SearchGoesOn
<1> QED
  BY <1>4, <1>5, <1>6, <1>7, <1>8, <1>9, <1>10, <1>11
     DEF Next, Run, HandlePacket, Start, vars
-----------------------------------------------------------------------------
\* The inductive invariant holds at every moment, for every ring the
\* assumptions allow: packets carry hashes that concern their receiver, and
\* the routing table names owners only (peer.c:236-257).
THEOREM Invariant == Spec => []IInv
BY InitInv, NextInv, PTL DEF Spec

\* Every variable keeps its type, on every ring.
THEOREM TypeCorrect == Spec => []TypeOK
<1>1. IInv => TypeOK
  BY DEF IInv
<1> QED
  BY <1>1, Invariant, PTL

\* The branch "This should not happen!" of handle_packet_ctrl (peer.c:240)
\* is dead code: no lookup reaches the peer that owns its hash.
THEOREM LookupsStopBeforeOwner == Spec => []NoLookupAtOwner
<1>1. IInv => NoLookupAtOwner
  BY DEF IInv, InboxOK, PacketOK, NoLookupAtOwner
<1> QED
  BY <1>1, Invariant, PTL

\* A request is handed on to the owner of its key and to nobody else, by the
\* successor's branch of handle_packet_data and by the loop over the open
\* requests alike.
THEOREM ProxiesReachOwner == Spec => []ProxiedToOwner
<1>1. IInv => ProxiedToOwner
  BY DEF IInv, InboxOK, PacketOK, JobOK, ProxiedToOwner
<1> QED
  BY <1>1, Invariant, PTL

\* Where all peers listen, a request that waits for a lookup is never
\* forgotten: the lookup or the reply is on its way, or the loop that serves
\* the hash runs (peer.c:253-301, rt_clear).
THEOREM OpenRequestsAreSought == Spec => []OpenRequestsHaveLookup
<1>1. Init => Listen /\ OpenRequestsHaveLookup
  BY DEF Init, Listen, OpenRequestsHaveLookup
<1> QED
  BY <1>1, LookupsNext, Invariant, PTL DEF Spec
-----------------------------------------------------------------------------
(* The ring is one table, for every ring and every number of requests:     *)
(* each step of a peer is a step of DhtStore or none at all.               *)

\* A set of identifiers has a smallest one.
LEMMA SmallestOf ==
    ASSUME NEW S \in SUBSET Nat, S # {}
    PROVE  \E n \in S : \A k \in S : n <= k
<1>1. \E n \in S : \A k \in S : ~(<<k, n>> \in OpToRel(<, Nat))
  BY NatLessThanWellFounded, WFMin
<1>2. PICK n \in S : \A k \in S : ~(<<k, n>> \in OpToRel(<, Nat))
  BY <1>1
<1>3. \A k \in S : ~(k < n)
  BY <1>2 DEF OpToRel
<1> QED
  BY <1>3

\* Every hash has an owner: the first peer that is not before it, or the
\* first peer of all.
LEMMA SomebodyOwns == ASSUME NEW h \in HashId PROVE \E p \in Peer : Owns(p, h)
<1>1. h \in Nat /\ \A p \in Peer : p \in Nat /\ Pred[p] \in Peer
  BY RingAssumption
<1>2. CASE \E p \in Peer : h <= p
  <2>1. PICK p \in {q \in Peer : h <= q} : \A k \in {q \in Peer : h <= q} : p <= k
    BY <1>1, <1>2, SmallestOf
  <2>2. Pred[p] < h \/ p <= Pred[p]
    BY <1>1, <2>1
  <2> QED
    BY <1>1, <2>1, <2>2 DEF Owns, PeerIsResponsible
<1>3. CASE \A p \in Peer : ~(h <= p)
  <2>1. PICK p \in Peer : \A k \in Peer : p <= k
    BY RingAssumption, SmallestOf
  <2>2. Pred[p] < h /\ ~(Pred[p] < p)
    BY <1>1, <1>3, <2>1
  <2> QED
    BY <2>1, <2>2 DEF Owns, PeerIsResponsible
<1> QED
  BY <1>2, <1>3

\* And only one, because no peer stands in the arc of another one.
LEMMA OneOwns ==
    ASSUME NEW p \in Peer, NEW q \in Peer, NEW h \in HashId, Owns(p, h), Owns(q, h)
    PROVE  p = q
<1>1. /\ h \in Nat /\ p \in Nat /\ q \in Nat
      /\ Pred[p] \in Nat /\ Pred[q] \in Nat
  BY RingAssumption
<1>2. /\ PeerIsResponsible(Pred[p], p, q) => q = p
      /\ PeerIsResponsible(Pred[q], q, p) => p = q
  BY OrderAssumption
<1> QED
  BY <1>1, <1>2 DEF Owns, PeerIsResponsible

\* So the owner of a hash is the peer that owns it.
LEMMA OwnerOwns ==
    ASSUME NEW h \in HashId
    PROVE  Owner(h) \in Peer /\ \A p \in Peer : Owns(p, h) <=> p = Owner(h)
<1>1. Owner(h) \in Peer /\ Owns(Owner(h), h)
  BY SomebodyOwns DEF Owner
<1> QED
  BY <1>1, OneOwns
-----------------------------------------------------------------------------
(* Where a request is.  A client's connection is held by one peer, which   *)
(* has it in its inbox, among its open requests, or in the loop its thread *)
(* is in.                                                                  *)

Arrived(p, c) == Data(c) \in inbox[p]

RunsLoop(p, h) == job[p] # NoJob /\ job[p].hash = h

\* rt keeps the requests of a hash until the loop over them has ended: those
\* that are in the loop, or served, no longer count as open.
Filed(p, c) == \E h \in HashId :
    ~RunsLoop(p, h) /\ \E i \in DOMAIN rt[p][h] : rt[p][h][i] = c

InLoop(p, c) == job[p] # NoJob /\ \E i \in DOMAIN job[p].todo : job[p].todo[i] = c

Held(p, c) == Arrived(p, c) \/ Filed(p, c) \/ InLoop(p, c)

Waits(p, c) == job[p] # NoJob /\ job[p].waiting /\ Current(p) = c

\* No connection is served twice by one loop.
Distinct == \A p \in Peer :
    /\ \A h \in HashId : \A i, j \in DOMAIN rt[p][h] :
          rt[p][h][i] = rt[p][h][j] => i = j
    /\ job[p] # NoJob => \A i, j \in DOMAIN job[p].todo :
          job[p].todo[i] = job[p].todo[j] => i = j

\* A proxied request is answered at once, so peers keep clients only.
FromClients ==
    \A p \in Peer, c \in Conn : Filed(p, c) \/ InLoop(p, c) => c.from = Client

OnePlace == \A c \in Conn, p, q \in Peer : c.from = Client =>
    /\ Held(p, c) /\ Held(q, c) => p = q
    /\ ~(Arrived(p, c) /\ Filed(p, c))
    /\ ~(Arrived(p, c) /\ InLoop(p, c))
    /\ ~(Filed(p, c) /\ InLoop(p, c))

\* While a client waits, the only answer to its request is the one its peer
\* is about to relay.
Calm == \A c, d \in Conn, p \in Peer :
    c.from = Client /\ d.req = c.req /\ Held(p, c) /\ rsp[d] # None =>
        Waits(p, c) /\ d.from = p /\ rsp[d] \in Answer

\* A proxied request that has not been answered is where the peer that
\* waits for its answer has sent it.
Travelling == \A d \in Conn, s \in Peer : d.from # Client /\ Arrived(s, d) =>
    Waits(d.from, ClientConn(d.req)) /\ s = job[d.from].to /\ rsp[d] = None

Known == \A d \in Conn : rsp[d] # None => cmd[d.req] # None

PlaceInv == Distinct /\ FromClients /\ OnePlace /\ Calm /\ Travelling /\ Known

\* A connection is its request and its opener.
LEMMA ConnIs ==
    ASSUME NEW c \in Conn
    PROVE  /\ c.req \in Req /\ c.from \in Peer \cup {Client}
           /\ c = [req |-> c.req, from |-> c.from]
           /\ c.from = Client => c = ClientConn(c.req)
           /\ ClientConn(c.req) \in Conn
           /\ ClientConn(c.req).req = c.req /\ ClientConn(c.req).from = Client
BY DEF Conn, ClientConn

\* A data packet is the connection it came on.
LEMMA DataIs ==
    /\ \A m \in Packet : m.type = "DATA" => m.conn \in Conn /\ m = Data(m.conn)
    /\ \A c, d : Data(c) = Data(d) => c = d
    /\ \A c, h, n, t : Data(c) # Lkup(h, n, t) /\ Data(c) # Rply(h, n, t)
    /\ \A c : Data(c).type = "DATA" /\ Data(c).conn = c
BY DEF Packet, DataPkt, CtrlPkt, Data, Lkup, Rply

\* The command of a held request is known.
LEMMA HeldKnown ==
    ASSUME IInv, NEW p \in Peer, NEW c \in Conn, Held(p, c)
    PROVE  cmd[c.req] \in Cmd /\ cmd[c.req] # None
<1>1. CASE Arrived(p, c)
  BY <1>1, DataIs, SentinelAssumption DEF Arrived, IInv, InboxOK, PacketOK
<1>2. CASE Filed(p, c)
  BY <1>2, SentinelAssumption DEF Filed, IInv, RtOK
<1>3. CASE InLoop(p, c)
  BY <1>3, SentinelAssumption DEF InLoop, IInv, JobOK
<1> QED
  BY <1>1, <1>2, <1>3 DEF Held

\* At first nothing has been sent.
LEMMA InitPlace == Init => PlaceInv
BY DEF Init, PlaceInv, Distinct, FromClients, OnePlace, Calm, Travelling, Known,
       Held, Arrived, Filed, InLoop
-----------------------------------------------------------------------------
(* What the steps do to these places.                                      *)

\* A peer that is not in a loop has nobody in it and waits for nobody.
LEMMA Idle ==
    ASSUME NEW p \in Peer, job[p] = NoJob
    PROVE  \A c \in Conn : ~InLoop(p, c) /\ ~Waits(p, c)
BY DEF InLoop, Waits

\* What depends on a peer's open requests and loop only stays when they do.
LEMMA SamePlaces ==
    ASSUME NEW p \in Peer, job'[p] = job[p], rt'[p] = rt[p]
    PROVE  \A c \in Conn : /\ Filed(p, c)' <=> Filed(p, c)
                           /\ InLoop(p, c)' <=> InLoop(p, c)
                           /\ Waits(p, c)' <=> Waits(p, c)
BY DEF Filed, InLoop, Waits, RunsLoop, Current

\* The request that is finished leaves the loop, and no other one; open
\* requests that are cleared have all been in the loop.
LEMMA AdvanceMoves ==
    ASSUME IInv, Distinct, NEW p \in Peer, job[p] # NoJob, Advance(p)
    PROVE  /\ Distinct'
           /\ \A q \in Peer \ {p} : job'[q] = job[q]
           /\ \A q \in Peer, c \in Conn :
                /\ Filed(q, c)' <=> Filed(q, c)
                /\ InLoop(q, c)' <=> InLoop(q, c) /\ ~(q = p /\ c = Current(p))
                /\ Waits(q, c)' <=> Waits(q, c) /\ q # p
<1>1. /\ job[p] \in Job /\ job[p].todo \in Seq(Conn) /\ job[p].todo # <<>>
      /\ job \in [Peer -> Job \cup {NoJob}]
      /\ rt \in [Peer -> [HashId -> Seq(Conn)]]
  BY DEF IInv, TypeOK, JobOK, Job
<1>2. ASSUME NEW q \in Peer \ {p}
      PROVE  job'[q] = job[q] /\ rt'[q] = rt[q]
  BY <1>1 DEF Advance
<1>3. CASE Tail(job[p].todo) = <<>>
  <2>1. /\ job' = [job EXCEPT ![p] = NoJob]
        /\ rt' = IF job[p].hash = None THEN rt
                 ELSE [rt EXCEPT ![p][job[p].hash] = <<>>]
    BY <1>3 DEF Advance
  <2>2. job'[p] = NoJob
    BY <1>1, <2>1
  <2>3. \A h \in HashId : rt'[p][h] = IF job[p].hash = h THEN <<>> ELSE rt[p][h]
    BY <1>1, <2>1, SentinelAssumption
  <2>4. DOMAIN job[p].todo = {1}
    <3>1. Len(Tail(job[p].todo)) = Len(job[p].todo) - 1 /\ Len(job[p].todo) \in Nat
      BY <1>1
    <3>2. Len(job[p].todo) = 1
      <4>1. Len(Tail(job[p].todo)) = Len(<<>>) /\ Len(<<>>) = 0
        BY <1>3
      <4> QED
        BY <3>1, <4>1
    <3> QED
      BY <1>1, <3>2
  <2>5. Distinct'
    <3> SUFFICES ASSUME NEW q \in Peer
                 PROVE  /\ \A h \in HashId : \A i, j \in DOMAIN rt'[q][h] :
                             rt'[q][h][i] = rt'[q][h][j] => i = j
                        /\ job'[q] # NoJob => \A i, j \in DOMAIN job'[q].todo :
                             job'[q].todo[i] = job'[q].todo[j] => i = j
      BY DEF Distinct
    <3>1. CASE q = p
      BY <2>2, <2>3, <3>1 DEF Distinct
    <3>2. CASE q # p
      BY <1>2, <3>2 DEF Distinct
    <3> QED
      BY <3>1, <3>2
  <2>6. ASSUME NEW c \in Conn
        PROVE  /\ Filed(p, c)' <=> Filed(p, c)
               /\ InLoop(p, c)' <=> InLoop(p, c) /\ c # Current(p)
               /\ ~Waits(p, c)'
    <3>1. Filed(p, c)' <=> Filed(p, c)
      BY <2>2, <2>3 DEF Filed, RunsLoop
    <3>2. ~InLoop(p, c)' /\ ~Waits(p, c)'
      BY <2>2 DEF InLoop, Waits
    <3>3. InLoop(p, c) => c = Current(p)
      BY <1>1, <2>4 DEF InLoop, Current
    <3> QED
      BY <3>1, <3>2, <3>3
  <2> QED
    BY <1>2, <2>5, <2>6, SamePlaces
<1>4. CASE Tail(job[p].todo) # <<>>
  <2> DEFINE k == [job[p] EXCEPT !.todo = Tail(job[p].todo), !.waiting = FALSE]
  <2>1. /\ job' = [job EXCEPT ![p] = k]
        /\ rt' = rt
    BY <1>4 DEF Advance
  <2>2. Tail(job[p].todo) \in Seq(Conn)
    BY <1>1
  <2>3. /\ k \in Job /\ k.todo = Tail(job[p].todo) /\ k.hash = job[p].hash
        /\ ~k.waiting
    <3>1. job[p] \in Job /\ Tail(job[p].todo) \in Seq(Conn)
      BY <1>1, <2>2
    <3>2. k \in Job /\ k.todo = Tail(job[p].todo) /\ k.hash = job[p].hash
      BY <3>1, JobShortened, Zenon
    <3>3. ~k.waiting
      BY <3>1 DEF Job
    <3> QED
      BY <3>2, <3>3
  <2> HIDE DEF k
  <2>4. job'[p] = k /\ k # NoJob
    BY <1>1, <2>1, <2>3, SentinelAssumption
  <2>5. /\ \A i \in DOMAIN k.todo : i + 1 \in DOMAIN job[p].todo /\ k.todo[i] = job[p].todo[i + 1]
        /\ \A i \in DOMAIN job[p].todo : i # 1 => i - 1 \in DOMAIN k.todo
        /\ DOMAIN k.todo \subseteq Nat \ {0} /\ DOMAIN job[p].todo \subseteq Nat \ {0}
        /\ 1 \in DOMAIN job[p].todo /\ Current(p) = job[p].todo[1]
    BY <1>1, <2>3 DEF Current
  <2>6. \A i, j \in DOMAIN job[p].todo : job[p].todo[i] = job[p].todo[j] => i = j
    BY DEF Distinct
  <2>7. \A i, j \in DOMAIN k.todo : k.todo[i] = k.todo[j] => i = j
    BY <2>5, <2>6
  <2>8. Distinct'
    <3> SUFFICES ASSUME NEW q \in Peer
                 PROVE  /\ \A h \in HashId : \A i, j \in DOMAIN rt'[q][h] :
                             rt'[q][h][i] = rt'[q][h][j] => i = j
                        /\ job'[q] # NoJob => \A i, j \in DOMAIN job'[q].todo :
                             job'[q].todo[i] = job'[q].todo[j] => i = j
      BY DEF Distinct
    <3>1. CASE q = p
      BY <2>1, <2>4, <2>7, <3>1 DEF Distinct
    <3>2. CASE q # p
      BY <1>2, <3>2 DEF Distinct
    <3> QED
      BY <3>1, <3>2
  <2>9. ASSUME NEW c \in Conn
        PROVE  /\ Filed(p, c)' <=> Filed(p, c)
               /\ InLoop(p, c)' <=> InLoop(p, c) /\ c # Current(p)
               /\ ~Waits(p, c)'
    <3>1. Filed(p, c)' <=> Filed(p, c)
      BY <2>1, <2>3, <2>4 DEF Filed, RunsLoop
    <3>2. ~Waits(p, c)'
      BY <2>3, <2>4 DEF Waits
    <3>3. InLoop(p, c)' <=> \E i \in DOMAIN k.todo : k.todo[i] = c
      BY <2>4 DEF InLoop
    <3>4. InLoop(p, c) <=> \E i \in DOMAIN job[p].todo : job[p].todo[i] = c
      BY DEF InLoop
    <3>5. (\E i \in DOMAIN k.todo : k.todo[i] = c)
             => InLoop(p, c) /\ c # Current(p)
      BY <2>5, <2>6, <3>4
    <3>6. InLoop(p, c) /\ c # Current(p) => \E i \in DOMAIN k.todo : k.todo[i] = c
      <4>1. SUFFICES ASSUME NEW i \in DOMAIN job[p].todo, job[p].todo[i] = c, c # Current(p)
                     PROVE  \E n \in DOMAIN k.todo : k.todo[n] = c
        BY <3>4
      <4>2. i # 1 /\ i - 1 \in DOMAIN k.todo
        BY <2>5, <4>1
      <4>3. k.todo[i - 1] = job[p].todo[i - 1 + 1] /\ i - 1 + 1 = i
        BY <2>5, <4>2
      <4> QED
        BY <4>1, <4>2, <4>3
    <3> QED
      BY <3>1, <3>2, <3>3, <3>5, <3>6
  <2> QED
    BY <1>2, <2>8, <2>9, SamePlaces
<1> QED
  BY <1>3, <1>4

\* What has arrived after p has taken m and sent nothing.
LEMMA TakenMoves ==
    ASSUME TypeOK, NEW p \in Peer, NEW m \in inbox[p], inbox' = Taken(p, m)
    PROVE  \A q \in Peer, c \in Conn :
               Arrived(q, c)' <=> Arrived(q, c) /\ ~(q = p /\ Data(c) = m)
BY DEF TypeOK, Taken, Arrived, Data

\* What has arrived after p has taken m and sent n to a peer that listens.
LEMMA ForwardMoves ==
    ASSUME TypeOK, NEW p \in Peer, NEW m \in inbox[p], NEW t \in Peer, NEW n,
           inbox' = Forward(p, m, t, n), t \in up
    PROVE  \A q \in Peer, c \in Conn :
               Arrived(q, c)' <=> \/ Arrived(q, c) /\ ~(q = p /\ Data(c) = m)
                                  \/ q = t /\ Data(c) = n
BY DEF TypeOK, Forward, Taken, Arrived, Data

\* And when it does not listen.
LEMMA ForwardFails ==
    ASSUME TypeOK, NEW p \in Peer, NEW m \in inbox[p], NEW t \in Peer, NEW n,
           inbox' = Forward(p, m, t, n), t \notin up
    PROVE  inbox' = Taken(p, m)
BY DEF Forward

\* Data packets stay where they are when a packet of another kind is taken
\* and another one sent.
LEMMA CtrlMoves ==
    ASSUME TypeOK, NEW p \in Peer, NEW m \in inbox[p], m.type # "DATA",
           NEW t \in Peer, NEW n, n.type # "DATA",
           inbox' = Forward(p, m, t, n) \/ inbox' = Taken(p, m)
    PROVE  \A q \in Peer, c \in Conn : Arrived(q, c)' <=> Arrived(q, c)
<1>1. \A c : Data(c).type = "DATA"
  BY DataIs
<1> QED
  BY <1>1, TakenMoves, ForwardMoves, ForwardFails

\* A new request arrives at the peer its client talks to.
LEMMA IssueMoves ==
    ASSUME IInv, NEW r \in Req, NEW p \in Entry, NEW c \in Cmd, Issue(r, p, c)
    PROVE  /\ p \in Peer /\ ClientConn(r) \in Conn
           /\ ClientConn(r).req = r /\ ClientConn(r).from = Client
           /\ cmd[r] = None /\ cmd' = [cmd EXCEPT ![r] = c]
           /\ rt' = rt /\ job' = job /\ rsp' = rsp
           /\ \A q \in Peer, d \in Conn :
                /\ Arrived(q, d)' <=> Arrived(q, d) \/ (q = p /\ d = ClientConn(r))
                /\ Filed(q, d)' <=> Filed(q, d)
                /\ InLoop(q, d)' <=> InLoop(q, d)
                /\ Waits(q, d)' <=> Waits(q, d)
<1> DEFINE e == ClientConn(r)
<1>1. /\ p \in Peer /\ e \in Conn /\ e.req = r /\ e.from = Client
      /\ cmd[r] = None /\ cmd' = [cmd EXCEPT ![r] = c]
      /\ rt' = rt /\ job' = job /\ rsp' = rsp
      /\ inbox' = [inbox EXCEPT ![p] = @ \cup {Data(e)}]
  BY RingAssumption DEF Issue, ClientConn, Conn
<1>2. \A q \in Peer, d \in Conn : Arrived(q, d)' <=> Arrived(q, d) \/ (q = p /\ d = e)
  BY <1>1, DataIs DEF Arrived, IInv, TypeOK
<1> QED
  BY <1>1, <1>2, SamePlaces

\* A new request.
LEMMA IssuePlace ==
    ASSUME IInv, PlaceInv, NEW r \in Req, NEW p \in Entry, NEW c \in Cmd, Issue(r, p, c)
    PROVE  PlaceInv'
<1> DEFINE e == ClientConn(r)
<1>1. /\ p \in Peer /\ e \in Conn /\ e.req = r /\ e.from = Client
      /\ cmd[r] = None /\ cmd' = [cmd EXCEPT ![r] = c]
      /\ rt' = rt /\ job' = job /\ rsp' = rsp
  BY IssueMoves
<1>2. \A q \in Peer, d \in Conn :
         /\ Arrived(q, d)' <=> Arrived(q, d) \/ (q = p /\ d = e)
         /\ Filed(q, d)' <=> Filed(q, d)
         /\ InLoop(q, d)' <=> InLoop(q, d)
         /\ Waits(q, d)' <=> Waits(q, d)
  BY IssueMoves
<1>3. \A q \in Peer : ~Held(q, e)
  BY <1>1, HeldKnown
<1>4. \A d \in Conn : d.req = r => rsp[d] = None
  BY <1>1 DEF PlaceInv, Known
<1> HIDE DEF e
<1>5. Distinct' /\ FromClients'
  BY <1>1, <1>2 DEF PlaceInv, Distinct, FromClients
<1>6. OnePlace'
  BY <1>1, <1>2, <1>3 DEF PlaceInv, OnePlace, Held
<1>7. Calm'
  BY <1>1, <1>2, <1>4 DEF PlaceInv, Calm, Held
<1>8. Travelling'
  <2> SUFFICES ASSUME NEW d \in Conn, NEW s \in Peer, d.from # Client, Arrived(s, d)'
               PROVE  /\ Waits(d.from, ClientConn(d.req))'
                      /\ s = job'[d.from].to /\ rsp'[d] = None
    BY DEF Travelling
  <2>1. Arrived(s, d)
    BY <1>1, <1>2
  <2>2. d.from \in Peer /\ ClientConn(d.req) \in Conn
    BY ConnIs
  <2> QED
    BY <1>1, <1>2, <2>1, <2>2 DEF PlaceInv, Travelling
<1>9. Known'
  <2>1. cmd \in [Req -> Cmd \cup {None}] /\ \A d \in Conn : d.req \in Req
    BY ConnIs DEF IInv, TypeOK
  <2>2. c # None
    BY SentinelAssumption
  <2> QED
    BY <1>1, <2>1, <2>2 DEF PlaceInv, Known
<1> QED
  BY <1>5, <1>6, <1>7, <1>8, <1>9 DEF PlaceInv

\* A peer waits for the answer to a request that is in its loop.
LEMMA WaitsHeld ==
    ASSUME IInv, NEW p \in Peer, NEW c, Waits(p, c)
    PROVE  c \in Conn /\ InLoop(p, c)
<1>1. job[p] # NoJob /\ job[p].todo \in Seq(Conn) /\ job[p].todo # <<>>
  BY DEF Waits, IInv, TypeOK, JobOK, Job
<1>2. 1 \in DOMAIN job[p].todo /\ c = job[p].todo[1] /\ c \in Conn
  BY <1>1 DEF Waits, Current
<1> QED
  BY <1>1, <1>2 DEF InLoop

\* A request that arrives at an idle peer has not been answered by anybody.
LEMMA NotAnswered ==
    ASSUME IInv, PlaceInv, NEW p \in Peer, NEW m \in inbox[p], m.type = "DATA",
           job[p] = NoJob
    PROVE  /\ m.conn \in Conn /\ m = Data(m.conn) /\ Arrived(p, m.conn)
           /\ m.conn.req \in Req /\ cmd[m.conn.req] \in Cmd
           /\ \A d \in Conn : d.req = m.conn.req => rsp[d] = None
<1>1. /\ m.conn \in Conn /\ m = Data(m.conn) /\ Arrived(p, m.conn)
      /\ m.conn.req \in Req /\ cmd[m.conn.req] \in Cmd
  BY DataIs, ConnIs DEF Arrived, IInv, TypeOK, InboxOK, PacketOK
<1>2. SUFFICES ASSUME NEW d \in Conn, d.req = m.conn.req, rsp[d] # None
               PROVE  FALSE
  BY <1>1
<1>3. CASE m.conn.from = Client
  <2>1. Waits(p, m.conn)
    BY <1>1, <1>2, <1>3 DEF PlaceInv, Calm, Held
  <2> QED
    BY <1>1, <2>1, Idle
<1>4. CASE m.conn.from # Client
  <2> DEFINE q == m.conn.from
             c == ClientConn(m.conn.req)
  <2>1. /\ q \in Peer /\ c \in Conn /\ c.from = Client /\ c.req = d.req
        /\ Waits(q, c) /\ rsp[m.conn] = None
    BY <1>1, <1>2, <1>4, ConnIs DEF PlaceInv, Travelling
  <2>2. Held(q, c)
    BY <2>1, WaitsHeld DEF Held
  <2>3. d.from = q
    BY <1>2, <2>1, <2>2 DEF PlaceInv, Calm
  <2>4. d = m.conn
    BY <1>1, <1>2, <2>3, ConnIs
  <2> QED
    BY <1>2, <2>1, <2>4
<1> QED
  BY <1>3, <1>4

\* The owner of its key takes a request and answers it.
LEMMA OwnMoves ==
    ASSUME IInv, PlaceInv, NEW p \in Peer, NEW m \in inbox[p], HandleOwnRequest(p, m)
    PROVE  /\ rt' = rt /\ job' = job /\ cmd' = cmd
           /\ m.conn \in Conn /\ Arrived(p, m.conn) /\ cmd[m.conn.req] \in Cmd
           /\ \A q \in Peer, d \in Conn :
                /\ Arrived(q, d)' <=> Arrived(q, d) /\ ~(q = p /\ d = m.conn)
                /\ Filed(q, d)' <=> Filed(q, d)
                /\ InLoop(q, d)' <=> InLoop(q, d)
                /\ Waits(q, d)' <=> Waits(q, d)
           /\ \E a \in Answer : \A d \in Conn : rsp'[d] = IF d = m.conn THEN a ELSE rsp[d]
<1> DEFINE c == m.conn
           a == AnswerTo(dht[p], cmd[c.req])
<1>1. /\ m.type = "DATA" /\ job[p] = NoJob
      /\ inbox' = Taken(p, m) /\ rsp' = [rsp EXCEPT ![c] = a]
      /\ rt' = rt /\ job' = job /\ cmd' = cmd
  BY DEF HandleOwnRequest, Takes, Respond
<1>2. /\ c \in Conn /\ m = Data(c) /\ Arrived(p, c)
      /\ c.req \in Req /\ cmd[c.req] \in Cmd
  BY <1>1, NotAnswered
<1>3. a \in Answer
  BY <1>2 DEF IInv, TypeOK, AnswerTo, Answer, Cmd, Op
<1> HIDE DEF a
<1>4. \A q \in Peer, d \in Conn :
         /\ Arrived(q, d)' <=> Arrived(q, d) /\ ~(q = p /\ d = c)
         /\ Filed(q, d)' <=> Filed(q, d)
         /\ InLoop(q, d)' <=> InLoop(q, d)
         /\ Waits(q, d)' <=> Waits(q, d)
  <2>1. \A q \in Peer, d \in Conn : Arrived(q, d)' <=> Arrived(q, d) /\ ~(q = p /\ d = c)
    BY <1>1, <1>2, TakenMoves, DataIs DEF IInv
  <2> QED
    BY <1>1, <2>1, SamePlaces
<1>5. \A d \in Conn : rsp'[d] = IF d = c THEN a ELSE rsp[d]
  BY <1>1, <1>2 DEF IInv, TypeOK
<1> QED
  BY <1>1, <1>2, <1>3, <1>4, <1>5

\* A request is answered by the owner of its key.
LEMMA OwnPlace ==
    ASSUME IInv, PlaceInv, NEW p \in Peer, NEW m \in inbox[p], HandleOwnRequest(p, m)
    PROVE  PlaceInv'
<1> DEFINE c == m.conn
<1>1. rt' = rt /\ job' = job /\ cmd' = cmd
  BY OwnMoves
<1>2. c \in Conn /\ Arrived(p, c) /\ c.req \in Req /\ cmd[c.req] \in Cmd
  BY OwnMoves, ConnIs
<1>3. PICK a \in Answer : \A d \in Conn : rsp'[d] = IF d = c THEN a ELSE rsp[d]
  BY OwnMoves
<1>4. \A q \in Peer, d \in Conn :
         /\ Arrived(q, d)' <=> Arrived(q, d) /\ ~(q = p /\ d = c)
         /\ Filed(q, d)' <=> Filed(q, d)
         /\ InLoop(q, d)' <=> InLoop(q, d)
         /\ Waits(q, d)' <=> Waits(q, d)
  BY OwnMoves
<1>5. \A d \in Conn : rsp'[d] = IF d = c THEN a ELSE rsp[d]
  BY <1>3
<1> HIDE DEF c
<1>6. Distinct' /\ FromClients' /\ OnePlace'
  BY <1>1, <1>4 DEF PlaceInv, Distinct, FromClients, OnePlace, Held
<1>7. Calm'
  <2> SUFFICES ASSUME NEW e \in Conn, NEW d \in Conn, NEW q \in Peer,
                      e.from = Client, d.req = e.req, Held(q, e)', rsp'[d] # None
               PROVE  Waits(q, e)' /\ d.from = q /\ rsp'[d] \in Answer
    BY DEF Calm
  <2>1. Held(q, e)
    BY <1>4 DEF Held
  <2>2. CASE d # c
    BY <1>4, <1>5, <2>1, <2>2 DEF PlaceInv, Calm
  <2>3. CASE d = c /\ c.from = Client
    <3>1. e = c
      BY <2>3, ConnIs
    <3>2. q = p
      BY <1>2, <2>1, <3>1 DEF PlaceInv, OnePlace, Held
    <3>3. ~Held(p, c)'
      BY <1>2, <1>4, <2>3 DEF PlaceInv, OnePlace, Held
    <3> QED
      BY <3>1, <3>2, <3>3
  <2>4. CASE d = c /\ c.from # Client
    <3>1. c.from \in Peer /\ Waits(c.from, e)
      BY <1>2, <2>4, ConnIs DEF PlaceInv, Travelling
    <3>2. Held(c.from, e)
      BY <3>1, WaitsHeld DEF Held
    <3>3. q = c.from
      BY <2>1, <3>1, <3>2 DEF PlaceInv, OnePlace
    <3> QED
      BY <1>3, <1>4, <1>5, <2>4, <3>1, <3>3
  <2> QED
    BY <2>2, <2>3, <2>4
<1>8. Travelling'
  <2> SUFFICES ASSUME NEW d \in Conn, NEW s \in Peer, d.from # Client, Arrived(s, d)'
               PROVE  /\ Waits(d.from, ClientConn(d.req))'
                      /\ s = job'[d.from].to /\ rsp'[d] = None
    BY DEF Travelling
  <2>1. Arrived(s, d) /\ ~(s = p /\ d = c)
    BY <1>4
  <2>2. d.from \in Peer /\ ClientConn(d.req) \in Conn
    BY ConnIs
  <2>3. /\ Waits(d.from, ClientConn(d.req)) /\ s = job[d.from].to /\ rsp[d] = None
    BY <2>1 DEF PlaceInv, Travelling
  <2>4. d # c
    BY <1>2, <2>1, <2>3 DEF PlaceInv, Travelling
  <2> QED
    BY <1>1, <1>4, <1>5, <2>2, <2>3, <2>4
<1>9. Known'
  BY <1>1, <1>2, <1>5, SentinelAssumption DEF PlaceInv, Known
<1> QED
  BY <1>6, <1>7, <1>8, <1>9 DEF PlaceInv

\* What a peer does not own itself has come from a client.
LEMMA NotOwnedIsClients ==
    ASSUME IInv, NEW p \in Peer, NEW m \in inbox[p], m.type = "DATA",
           ~Owns(p, HashOf(m.conn.req))
    PROVE  m.conn.from = Client
BY DEF IInv, InboxOK, PacketOK

\* A request for the successor is taken, and dropped if nobody listens there;
LEMMA DropMoves ==
    ASSUME IInv, PlaceInv, NEW p \in Peer, NEW m \in inbox[p], ProxyToSucc(p, m),
           Succ[p] \notin up
    PROVE  /\ job' = job
           /\ \A q \in Peer, d \in Conn :
                Arrived(q, d)' <=> Arrived(q, d) /\ ~(q = p /\ d = m.conn)
<1>1. /\ m.type = "DATA" /\ job[p] = NoJob
      /\ inbox' = Forward(p, m, Succ[p], Data([req |-> m.conn.req, from |-> p]))
  BY DEF ProxyToSucc, Takes
<1>2. \A e : Data(e) = m <=> e = m.conn
  BY <1>1, NotAnswered, DataIs
<1>3. inbox' = Taken(p, m)
  BY <1>1, SuccIsPeer, ForwardFails DEF IInv
<1>4. job' = job
  BY DEF ProxyToSucc
<1> QED
  BY <1>2, <1>3, <1>4, TakenMoves DEF IInv

\* otherwise it is the one request of a loop, and on its way.
LEMMA ProxyMoves ==
    ASSUME IInv, PlaceInv, NEW p \in Peer, NEW m \in inbox[p], ProxyToSucc(p, m),
           Succ[p] \in up
    PROVE  /\ job'[p] = [todo |-> <<m.conn>>, to |-> Succ[p], hash |-> None, waiting |-> TRUE]
           /\ job'[p] \in Job /\ job'[p] # NoJob
           /\ \A q \in Peer \ {p} : job'[q] = job[q]
           /\ \A q \in Peer, d \in Conn :
                Arrived(q, d)' <=> \/ Arrived(q, d) /\ ~(q = p /\ d = m.conn)
                                   \/ q = Succ[p] /\ d = [req |-> m.conn.req, from |-> p]
           /\ \A d \in Conn :
                /\ Filed(p, d)' <=> Filed(p, d)
                /\ InLoop(p, d)' <=> d = m.conn
                /\ Waits(p, d)' <=> d = m.conn
           /\ \A q \in Peer \ {p}, d \in Conn :
                /\ Filed(q, d)' <=> Filed(q, d)
                /\ InLoop(q, d)' <=> InLoop(q, d)
                /\ Waits(q, d)' <=> Waits(q, d)
<1> DEFINE c == m.conn
           d0 == [req |-> c.req, from |-> p]
           j == [todo |-> <<c>>, to |-> Succ[p], hash |-> None, waiting |-> TRUE]
<1>1. /\ m.type = "DATA" /\ job[p] = NoJob /\ ~Owns(p, HashOf(c.req))
      /\ inbox' = Forward(p, m, Succ[p], Data(d0))
      /\ rt' = rt /\ cmd' = cmd /\ rsp' = rsp
      /\ IF Succ[p] \in up THEN job' = [job EXCEPT ![p] = j] ELSE job' = job
  BY DEF ProxyToSucc, Takes
<1>2. /\ c \in Conn /\ m = Data(c) /\ Arrived(p, c) /\ c.from = Client
      /\ \A d \in Conn : d.req = c.req => rsp[d] = None
      /\ \A e : Data(e) = m <=> e = c
  BY <1>1, NotAnswered, NotOwnedIsClients, DataIs
<1>3. /\ d0 \in Conn /\ d0.req = c.req /\ d0.from = p /\ p # Client /\ Succ[p] \in Peer
      /\ \A e : Data(e) = Data(d0) <=> e = d0
  BY <1>2, ConnIs, SuccIsPeer, SentinelAssumption, DataIs DEF Conn
<1>4. job' = [job EXCEPT ![p] = j] /\ j \in Job /\ j # NoJob
  <2>1. <<c>> \in Seq(Conn)
    BY <1>2
  <2>2. j \in Job
    BY <1>3, <2>1 DEF Job
  <2> HIDE DEF j
  <2> QED
    BY <1>1, <2>2, SentinelAssumption
<1>5. /\ job'[p] = j /\ \A q \in Peer \ {p} : job'[q] = job[q]
  BY <1>4 DEF IInv, TypeOK
<1>6. \A q \in Peer, d \in Conn :
         Arrived(q, d)' <=> \/ Arrived(q, d) /\ ~(q = p /\ d = c)
                            \/ q = Succ[p] /\ d = d0
  <2> HIDE DEF c, d0, j
  <2> QED
    BY <1>1, <1>2, <1>3, ForwardMoves DEF IInv
<1>7. \A d \in Conn :
         /\ Filed(p, d)' <=> Filed(p, d)
         /\ InLoop(p, d)' <=> d = c
         /\ Waits(p, d)' <=> d = c
         /\ ~InLoop(p, d) /\ ~Waits(p, d)
  <2>1. \A d \in Conn : Filed(p, d)' <=> Filed(p, d)
    BY <1>1, <1>4, <1>5, SentinelAssumption DEF Filed, RunsLoop
  <2>2. \A d \in Conn : (InLoop(p, d)' <=> d = c) /\ (Waits(p, d)' <=> d = c)
    BY <1>4, <1>5 DEF InLoop, Waits, Current
  <2> QED
    BY <1>1, <2>1, <2>2, Idle
<1>8. \A q \in Peer \ {p}, d \in Conn :
         /\ Filed(q, d)' <=> Filed(q, d)
         /\ InLoop(q, d)' <=> InLoop(q, d)
         /\ Waits(q, d)' <=> Waits(q, d)
  BY <1>1, <1>5, SamePlaces
<1> QED
  BY <1>4, <1>5, <1>6, <1>7, <1>8

\* The first loop of all: one request, for the successor.
LEMMA ProxyToSuccPlace ==
    ASSUME IInv, PlaceInv, NEW p \in Peer, NEW m \in inbox[p], ProxyToSucc(p, m)
    PROVE  PlaceInv'
<1> DEFINE c == m.conn
           d0 == [req |-> c.req, from |-> p]
<1>1. /\ m.type = "DATA" /\ job[p] = NoJob /\ ~Owns(p, HashOf(c.req))
      /\ rt' = rt /\ cmd' = cmd /\ rsp' = rsp
  BY DEF ProxyToSucc, Takes
<1>2. /\ c \in Conn /\ m = Data(c) /\ Arrived(p, c) /\ c.from = Client
      /\ \A d \in Conn : d.req = c.req => rsp[d] = None
      /\ \A e : Data(e) = m <=> e = c
  BY <1>1, NotAnswered, NotOwnedIsClients, DataIs
<1>3. /\ d0 \in Conn /\ d0.req = c.req /\ d0.from = p /\ p # Client /\ Succ[p] \in Peer
      /\ \A e : Data(e) = Data(d0) <=> e = d0
  BY <1>2, ConnIs, SuccIsPeer, SentinelAssumption, DataIs DEF Conn
<1>4. CASE Succ[p] \notin up
  <2>1. job' = job
    BY <1>4, DropMoves
  <2>2. \A q \in Peer, d \in Conn :
           /\ Arrived(q, d)' <=> Arrived(q, d) /\ ~(q = p /\ d = c)
           /\ Filed(q, d)' <=> Filed(q, d)
           /\ InLoop(q, d)' <=> InLoop(q, d)
           /\ Waits(q, d)' <=> Waits(q, d)
    BY <1>1, <1>4, <2>1, DropMoves, SamePlaces
  <2> HIDE DEF c, d0
  <2> QED
    BY <1>1, <1>2, <2>1, <2>2, ConnIs DEF PlaceInv, Distinct, FromClients, OnePlace, Held, Calm,
                                  Travelling, Known
<1>5. CASE Succ[p] \in up
  <2>1. job'[p] = [todo |-> <<c>>, to |-> Succ[p], hash |-> None, waiting |-> TRUE]
    BY <1>5, ProxyMoves
  <2>2. /\ job'[p].todo = <<c>> /\ job'[p].to = Succ[p]
        /\ \A q \in Peer \ {p} : job'[q] = job[q]
    BY <1>5, <2>1, ProxyMoves
  <2>3. \A q \in Peer, d \in Conn :
           Arrived(q, d)' <=> \/ Arrived(q, d) /\ ~(q = p /\ d = c)
                              \/ q = Succ[p] /\ d = d0
    BY <1>5, ProxyMoves
  <2>4. \A d \in Conn :
           /\ Filed(p, d)' <=> Filed(p, d)
           /\ InLoop(p, d)' <=> d = c
           /\ Waits(p, d)' <=> d = c
           /\ ~InLoop(p, d) /\ ~Waits(p, d)
    BY <1>1, <1>5, ProxyMoves, Idle
  <2>5. \A q \in Peer \ {p}, d \in Conn :
           /\ Filed(q, d)' <=> Filed(q, d)
           /\ InLoop(q, d)' <=> InLoop(q, d)
           /\ Waits(q, d)' <=> Waits(q, d)
    BY <1>5, ProxyMoves
  <2>6. Distinct'
    <3> SUFFICES ASSUME NEW q \in Peer
                 PROVE  /\ \A h \in HashId : \A i, n \in DOMAIN rt'[q][h] :
                             rt'[q][h][i] = rt'[q][h][n] => i = n
                        /\ job'[q] # NoJob => \A i, n \in DOMAIN job'[q].todo :
                             job'[q].todo[i] = job'[q].todo[n] => i = n
      BY DEF Distinct
    <3>1. CASE q = p
      BY <1>1, <2>2, <3>1 DEF PlaceInv, Distinct
    <3>2. CASE q # p
      BY <1>1, <2>2, <3>2 DEF PlaceInv, Distinct
    <3> QED
      BY <3>1, <3>2
  <2>7. job'[p].to = Succ[p]
    BY <2>2
  <2> HIDE DEF c, d0
  <2>8. FromClients' /\ OnePlace'
    BY <1>2, <1>3, <2>3, <2>4, <2>5 DEF PlaceInv, FromClients, OnePlace, Held
  <2>9. Calm'
    <3> SUFFICES ASSUME NEW e \in Conn, NEW d \in Conn, NEW q \in Peer,
                        e.from = Client, d.req = e.req, Held(q, e)', rsp[d] # None
                 PROVE  Waits(q, e)' /\ d.from = q /\ rsp[d] \in Answer
      BY <1>1 DEF Calm
    <3>1. e # c
      BY <1>2
    <3>2. Held(q, e)
      BY <1>3, <2>3, <2>4, <2>5, <3>1 DEF Held
    <3> QED
      BY <2>4, <2>5, <3>1, <3>2 DEF PlaceInv, Calm
  <2>10. Travelling'
    <3> SUFFICES ASSUME NEW d \in Conn, NEW s \in Peer, d.from # Client, Arrived(s, d)'
                 PROVE  /\ Waits(d.from, ClientConn(d.req))'
                        /\ s = job'[d.from].to /\ rsp'[d] = None
      BY DEF Travelling
    <3>1. d.from \in Peer /\ ClientConn(d.req) \in Conn
      BY ConnIs
    <3>2. CASE Arrived(s, d)
      <4>1. Waits(d.from, ClientConn(d.req)) /\ s = job[d.from].to /\ rsp[d] = None
        BY <3>2 DEF PlaceInv, Travelling
      <4>2. d.from # p
        BY <2>4, <3>1, <4>1
      <4> QED
        BY <1>1, <2>2, <2>5, <3>1, <4>1, <4>2
    <3>3. CASE s = Succ[p] /\ d = d0
      <4>1. ClientConn(d.req) = c
        BY <1>2, <1>3, <3>3, ConnIs
      <4> QED
        BY <1>1, <1>2, <1>3, <2>4, <2>7, <3>3, <4>1
    <3> QED
      BY <2>3, <3>2, <3>3
  <2> QED
    BY <1>1, <2>6, <2>8, <2>9, <2>10 DEF PlaceInv, Known
<1> QED
  BY <1>4, <1>5

\* A request without an owner nearby is taken and joins those of its hash.
LEMMA LookUpMoves ==
    ASSUME IInv, PlaceInv, NEW p \in Peer, NEW m \in inbox[p], LookUpPeer(p, m)
    PROVE  LET g == HashOf(m.conn.req)
           IN /\ m.conn \in Conn /\ m.conn.from = Client /\ Arrived(p, m.conn)
              /\ \A d \in Conn : d.req = m.conn.req => rsp[d] = None
              /\ job[p] = NoJob /\ job' = job /\ cmd' = cmd /\ rsp' = rsp
              /\ g \in HashId
              /\ \A h \in HashId \ {g} : rt'[p][h] = rt[p][h]
              /\ \A q \in Peer \ {p} : rt'[q] = rt[q]
              /\ DOMAIN rt'[p][g] = DOMAIN rt[p][g] \cup {Len(rt[p][g]) + 1}
              /\ \A i \in DOMAIN rt[p][g] : rt'[p][g][i] = rt[p][g][i]
              /\ rt'[p][g][Len(rt[p][g]) + 1] = m.conn
              /\ \A q \in Peer, d \in Conn :
                   Arrived(q, d)' <=> Arrived(q, d) /\ ~(q = p /\ d = m.conn)
              /\ \A d \in Conn :
                   /\ Filed(p, d)' <=> Filed(p, d) \/ d = m.conn
                   /\ ~InLoop(p, d)' /\ ~InLoop(p, d)
                   /\ ~Waits(p, d)' /\ ~Waits(p, d)
              /\ \A q \in Peer \ {p}, d \in Conn :
                   /\ Filed(q, d)' <=> Filed(q, d)
                   /\ InLoop(q, d)' <=> InLoop(q, d)
                   /\ Waits(q, d)' <=> Waits(q, d)
<1> DEFINE c == m.conn
           g == HashOf(c.req)
           n == Lkup(g, p, c.req)
<1>1. /\ m.type = "DATA" /\ job[p] = NoJob /\ ~Owns(p, g)
      /\ rt' = [rt EXCEPT ![p][g] = Append(@, c)]
      /\ inbox' = Forward(p, m, Succ[p], n)
      /\ job' = job /\ cmd' = cmd /\ rsp' = rsp
  BY DEF LookUpPeer, Takes
<1>2. /\ c \in Conn /\ m = Data(c) /\ Arrived(p, c) /\ c.from = Client
      /\ c.req \in Req /\ cmd[c.req] \in Cmd
      /\ \A d \in Conn : d.req = c.req => rsp[d] = None
      /\ \A e : Data(e) = m <=> e = c
  BY <1>1, NotAnswered, NotOwnedIsClients, DataIs
<1>3. /\ g \in HashId /\ Succ[p] \in Peer
      /\ \A e : Data(e) # n
  BY <1>2, HashIsHashId, SuccIsPeer, DataIs
<1>4. \A q \in Peer, d \in Conn : Arrived(q, d)' <=> Arrived(q, d) /\ ~(q = p /\ d = c)
  <2> HIDE DEF c, n
  <2> QED
    BY <1>1, <1>2, <1>3, ForwardMoves, ForwardFails, TakenMoves DEF IInv
<1> HIDE DEF g, n
<1>5. /\ rt[p][g] \in Seq(Conn) /\ rt'[p][g] = Append(rt[p][g], c)
      /\ \A h \in HashId \ {g} : rt'[p][h] = rt[p][h]
      /\ \A q \in Peer \ {p} : rt'[q] = rt[q]
  BY <1>1, <1>3 DEF IInv, TypeOK
<1> HIDE DEF c
<1>6. /\ DOMAIN rt'[p][g] = DOMAIN rt[p][g] \cup {Len(rt[p][g]) + 1}
      /\ \A i \in DOMAIN rt[p][g] : rt'[p][g][i] = rt[p][g][i]
      /\ rt'[p][g][Len(rt[p][g]) + 1] = c
  BY <1>2, <1>5
<1>7. \A d \in Conn : /\ Filed(p, d)' <=> Filed(p, d) \/ d = c
                      /\ ~InLoop(p, d)' /\ ~InLoop(p, d)
                      /\ ~Waits(p, d)' /\ ~Waits(p, d)
  <2>1. \A d \in Conn : Filed(p, d) <=> \E h \in HashId : \E i \in DOMAIN rt[p][h] : rt[p][h][i] = d
    BY <1>1 DEF Filed, RunsLoop
  <2>2. \A d \in Conn : Filed(p, d)' <=> \E h \in HashId : \E i \in DOMAIN rt'[p][h] : rt'[p][h][i] = d
    BY <1>1 DEF Filed, RunsLoop
  <2>3. \A d \in Conn, h \in HashId :
           (\E i \in DOMAIN rt'[p][h] : rt'[p][h][i] = d)
             <=> (\E i \in DOMAIN rt[p][h] : rt[p][h][i] = d) \/ (h = g /\ d = c)
    BY <1>5, <1>6
  <2>4. \A d \in Conn : ~InLoop(p, d)' /\ ~InLoop(p, d) /\ ~Waits(p, d)' /\ ~Waits(p, d)
    BY <1>1 DEF InLoop, Waits
  <2> QED
    BY <1>3, <2>1, <2>2, <2>3, <2>4
<1>8. \A q \in Peer \ {p}, d \in Conn :
         /\ Filed(q, d)' <=> Filed(q, d)
         /\ InLoop(q, d)' <=> InLoop(q, d)
         /\ Waits(q, d)' <=> Waits(q, d)
  BY <1>1, <1>5, SamePlaces
<1> QED
  BY <1>1, <1>2, <1>3, <1>4, <1>5, <1>6, <1>7, <1>8 DEF c, g

\* A request without an owner nearby is kept by hash.
LEMMA LookUpPlace ==
    ASSUME IInv, PlaceInv, NEW p \in Peer, NEW m \in inbox[p], LookUpPeer(p, m)
    PROVE  PlaceInv'
<1> DEFINE c == m.conn
           g == HashOf(c.req)
<1>1. job[p] = NoJob /\ job' = job /\ cmd' = cmd /\ rsp' = rsp
  BY LookUpMoves
<1>2. /\ c \in Conn /\ Arrived(p, c) /\ c.from = Client
      /\ \A d \in Conn : d.req = c.req => rsp[d] = None
  BY LookUpMoves
<1>3. g \in HashId
  BY LookUpMoves
<1>4. \A q \in Peer, d \in Conn : Arrived(q, d)' <=> Arrived(q, d) /\ ~(q = p /\ d = c)
  BY LookUpMoves
<1>5. /\ \A h \in HashId \ {g} : rt'[p][h] = rt[p][h]
      /\ \A q \in Peer \ {p} : rt'[q] = rt[q]
  BY LookUpMoves
<1>6. /\ DOMAIN rt'[p][g] = DOMAIN rt[p][g] \cup {Len(rt[p][g]) + 1}
      /\ \A i \in DOMAIN rt[p][g] : rt'[p][g][i] = rt[p][g][i]
      /\ rt'[p][g][Len(rt[p][g]) + 1] = c
  BY LookUpMoves, Zenon
<1>7. \A d \in Conn : /\ Filed(p, d)' <=> Filed(p, d) \/ d = c
                      /\ ~InLoop(p, d)' /\ ~InLoop(p, d)
                      /\ ~Waits(p, d)' /\ ~Waits(p, d)
  BY LookUpMoves
<1>8. \A q \in Peer \ {p}, d \in Conn :
         /\ Filed(q, d)' <=> Filed(q, d)
         /\ InLoop(q, d)' <=> InLoop(q, d)
         /\ Waits(q, d)' <=> Waits(q, d)
  BY LookUpMoves
<1> HIDE DEF g, c
<1>9. Distinct'
  <2> SUFFICES ASSUME NEW q \in Peer, NEW h \in HashId, NEW i \in DOMAIN rt'[q][h],
                      NEW k \in DOMAIN rt'[q][h], rt'[q][h][i] = rt'[q][h][k]
               PROVE  i = k
    BY <1>1 DEF PlaceInv, Distinct
  <2>1. CASE q = p /\ h = g
    <3>1. \A e \in DOMAIN rt[p][g] : rt[p][g][e] # c
      <4>1. ~Filed(p, c)
        BY <1>2 DEF PlaceInv, OnePlace
      <4> QED
        BY <1>1, <1>3, <4>1 DEF Filed, RunsLoop
    <3>2. \A e, f \in DOMAIN rt[p][g] : rt[p][g][e] = rt[p][g][f] => e = f
      BY <1>3 DEF PlaceInv, Distinct
    <3> QED
      BY <1>6, <2>1, <3>1, <3>2
  <2>2. CASE ~(q = p /\ h = g)
    BY <1>5, <2>2 DEF PlaceInv, Distinct
  <2> QED
    BY <2>1, <2>2
<1>10. FromClients' /\ OnePlace'
  BY <1>2, <1>4, <1>7, <1>8 DEF PlaceInv, FromClients, OnePlace, Held
<1>11. Calm'
  <2> SUFFICES ASSUME NEW e \in Conn, NEW d \in Conn, NEW q \in Peer,
                      e.from = Client, d.req = e.req, Held(q, e)', rsp[d] # None
               PROVE  Waits(q, e)' /\ d.from = q /\ rsp[d] \in Answer
    BY <1>1 DEF Calm
  <2>1. e # c
    BY <1>2
  <2>2. Held(q, e)
    BY <1>4, <1>7, <1>8, <2>1 DEF Held
  <2> QED
    BY <1>7, <1>8, <2>2 DEF PlaceInv, Calm
<1>12. Travelling'
  <2> SUFFICES ASSUME NEW d \in Conn, NEW s \in Peer, d.from # Client, Arrived(s, d)'
               PROVE  /\ Waits(d.from, ClientConn(d.req))'
                      /\ s = job[d.from].to /\ rsp[d] = None
    BY <1>1 DEF Travelling
  <2>1. d.from \in Peer /\ ClientConn(d.req) \in Conn /\ Arrived(s, d)
    BY <1>4, ConnIs
  <2>2. Waits(d.from, ClientConn(d.req)) /\ s = job[d.from].to /\ rsp[d] = None
    BY <2>1 DEF PlaceInv, Travelling
  <2> QED
    BY <1>7, <1>8, <2>1, <2>2
<1> QED
  BY <1>1, <1>9, <1>10, <1>11, <1>12 DEF PlaceInv, Known

\* A step that moves no request.
LEMMA StillPlace ==
    ASSUME PlaceInv, rt' = rt, job' = job, cmd' = cmd, rsp' = rsp,
           \A q \in Peer, c \in Conn : Arrived(q, c)' <=> Arrived(q, c)
    PROVE  PlaceInv'
<1>1. \A q \in Peer, d \in Conn :
         /\ Arrived(q, d)' <=> Arrived(q, d)
         /\ Filed(q, d)' <=> Filed(q, d)
         /\ InLoop(q, d)' <=> InLoop(q, d)
         /\ Waits(q, d)' <=> Waits(q, d)
  BY SamePlaces
<1> QED
  BY <1>1, ConnIs DEF PlaceInv, Distinct, FromClients, OnePlace, Held, Calm, Travelling, Known

\* Lookups move no request.
LEMMA LookupMoves ==
    ASSUME IInv, NEW p \in Peer, NEW m \in inbox[p], HandleLookup(p, m)
    PROVE  /\ rt' = rt /\ job' = job /\ cmd' = cmd /\ rsp' = rsp
           /\ \A q \in Peer, c \in Conn : Arrived(q, c)' <=> Arrived(q, c)
<1>1. /\ m \in Packet /\ m.type = "LKUP"
      /\ rt' = rt /\ job' = job /\ cmd' = cmd /\ rsp' = rsp
  BY DEF HandleLookup, IInv, TypeOK
<1>2. m.node \in Peer /\ Succ[p] \in Peer
  BY <1>1, PacketKinds, SuccIsPeer
<1>3. \E t, n : t \in Peer /\ n.type # "DATA" /\ inbox' = Forward(p, m, t, n)
  <2>1. CASE Owns(p, m.hash)
    <3>1. inbox' = Forward(p, m, m.node, Rply(m.hash, p, m.tag))
      BY <2>1 DEF HandleLookup
    <3>2. Rply(m.hash, p, m.tag).type # "DATA"
      BY DEF Rply
    <3> QED
      BY <1>2, <3>1, <3>2
  <2>2. CASE ~Owns(p, m.hash) /\ SuccOwns(p, m.hash)
    <3>1. inbox' = Forward(p, m, m.node, Rply(m.hash, Succ[p], m.tag))
      BY <2>2 DEF HandleLookup
    <3>2. Rply(m.hash, Succ[p], m.tag).type # "DATA"
      BY DEF Rply
    <3> QED
      BY <1>2, <3>1, <3>2
  <2>3. CASE ~Owns(p, m.hash) /\ ~SuccOwns(p, m.hash)
    <3>1. inbox' = Forward(p, m, Succ[p], m)
      BY <2>3 DEF HandleLookup
    <3> QED
      BY <1>1, <1>2, <3>1
  <2> QED
    BY <2>1, <2>2, <2>3
<1>4. PICK t, n : t \in Peer /\ n.type # "DATA" /\ inbox' = Forward(p, m, t, n)
  BY <1>3
<1>5. \A q \in Peer, c \in Conn : Arrived(q, c)' <=> Arrived(q, c)
  BY <1>1, <1>4, CtrlMoves DEF IInv
<1> QED
  BY <1>1, <1>5

\* A reply moves the open requests of its hash into the loop.
LEMMA ReplyMoves ==
    ASSUME IInv, NEW p \in Peer, NEW m \in inbox[p], HandleReply(p, m)
    PROVE  /\ rt' = rt /\ cmd' = cmd /\ rsp' = rsp
           /\ \A q \in Peer, c \in Conn : Arrived(q, c)' <=> Arrived(q, c)
           /\ \/ job' = job
              \/ /\ m.hash \in HashId
                 /\ job'[p] # NoJob /\ job'[p].todo = rt[p][m.hash] /\ ~job'[p].waiting
                 /\ \A q \in Peer \ {p} : job'[q] = job[q]
                 /\ \A c \in Conn :
                      /\ ~InLoop(p, c) /\ ~Waits(p, c) /\ ~Waits(p, c)'
                      /\ Filed(p, c) <=> Filed(p, c)' \/ InLoop(p, c)'
                      /\ ~(Filed(p, c)' /\ InLoop(p, c)')
                 /\ \A q \in Peer \ {p}, c \in Conn :
                      /\ Filed(q, c)' <=> Filed(q, c)
                      /\ InLoop(q, c)' <=> InLoop(q, c)
                      /\ Waits(q, c)' <=> Waits(q, c)
<1>1. /\ m \in Packet /\ m.type = "RPLY" /\ job[p] = NoJob
      /\ inbox' = Taken(p, m) /\ rt' = rt /\ cmd' = cmd /\ rsp' = rsp
  BY DEF HandleReply, Takes, IInv, TypeOK
<1>2. m.hash \in HashId /\ m.node \in Peer
  BY <1>1, PacketKinds
<1>3. \A q \in Peer, c \in Conn : Arrived(q, c)' <=> Arrived(q, c)
  BY <1>1, TakenMoves, DataIs DEF IInv
<1>4. CASE rt[p][m.hash] = <<>>
  <2>1. job' = job
    BY <1>4 DEF HandleReply
  <2> QED
    BY <1>1, <1>3, <2>1
<1>5. CASE rt[p][m.hash] # <<>>
  <2> DEFINE j == [todo |-> rt[p][m.hash], to |-> m.node, hash |-> m.hash, waiting |-> FALSE]
  <2>1. job' = [job EXCEPT ![p] = j] /\ j \in Job
    BY <1>2, <1>5 DEF HandleReply, Job, IInv, TypeOK
  <2>2. /\ j.todo = rt[p][m.hash] /\ j.hash = m.hash /\ ~j.waiting
    OBVIOUS
  <2> HIDE DEF j
  <2>3. /\ job'[p] = j /\ j # NoJob /\ \A q \in Peer \ {p} : job'[q] = job[q]
    BY <2>1, SentinelAssumption DEF IInv, TypeOK
  <2>4. \A c \in Conn : ~InLoop(p, c) /\ ~Waits(p, c)
    BY <1>1, Idle
  <2>5. \A c \in Conn : /\ ~Waits(p, c)'
                        /\ InLoop(p, c)' <=> \E i \in DOMAIN rt[p][m.hash] : rt[p][m.hash][i] = c
    BY <2>2, <2>3 DEF Waits, InLoop
  <2>6. \A c \in Conn :
           Filed(p, c) <=> \E h \in HashId : \E i \in DOMAIN rt[p][h] : rt[p][h][i] = c
    BY <1>1 DEF Filed, RunsLoop
  <2>7. \A c \in Conn : Filed(p, c)' <=>
           \E h \in HashId \ {m.hash} : \E i \in DOMAIN rt[p][h] : rt[p][h][i] = c
    BY <1>1, <2>2, <2>3 DEF Filed, RunsLoop
  <2>8. \A c \in Conn, h \in HashId :
           (\E i \in DOMAIN rt[p][h] : rt[p][h][i] = c) => h = HashOf(c.req)
    BY DEF IInv, RtOK
  <2>9. \A c \in Conn : /\ Filed(p, c) <=> Filed(p, c)' \/ InLoop(p, c)'
                        /\ ~(Filed(p, c)' /\ InLoop(p, c)')
    BY <1>2, <2>5, <2>6, <2>7, <2>8
  <2>10. \A q \in Peer \ {p}, c \in Conn :
            /\ Filed(q, c)' <=> Filed(q, c)
            /\ InLoop(q, c)' <=> InLoop(q, c)
            /\ Waits(q, c)' <=> Waits(q, c)
    BY <1>1, <2>3, SamePlaces
  <2> QED
    BY <1>1, <1>2, <1>3, <2>2, <2>3, <2>4, <2>5, <2>9, <2>10
<1> QED
  BY <1>4, <1>5

\* What a reply does keeps every request in one place.
LEMMA ReplyPlace ==
    ASSUME IInv, PlaceInv, NEW p \in Peer, NEW m \in inbox[p], HandleReply(p, m)
    PROVE  PlaceInv'
<1>1. rt' = rt /\ cmd' = cmd /\ rsp' = rsp
  BY ReplyMoves
<1>3. \A q \in Peer, c \in Conn : Arrived(q, c)' <=> Arrived(q, c)
  BY ReplyMoves
<1>4. CASE job' = job
  BY <1>1, <1>3, <1>4, StillPlace
<1>5. CASE job' # job
  <2>3. /\ m.hash \in HashId /\ job'[p].todo = rt[p][m.hash]
        /\ \A q \in Peer \ {p} : job'[q] = job[q]
    BY <1>5, ReplyMoves
  <2>4. \A c \in Conn : ~InLoop(p, c) /\ ~Waits(p, c) /\ ~Waits(p, c)'
    BY <1>5, ReplyMoves
  <2>9. \A c \in Conn : /\ Filed(p, c) <=> Filed(p, c)' \/ InLoop(p, c)'
                        /\ ~(Filed(p, c)' /\ InLoop(p, c)')
    BY <1>5, ReplyMoves
  <2>10. \A q \in Peer \ {p}, c \in Conn :
            /\ Filed(q, c)' <=> Filed(q, c)
            /\ InLoop(q, c)' <=> InLoop(q, c)
            /\ Waits(q, c)' <=> Waits(q, c)
    BY <1>5, ReplyMoves
  <2>11. Distinct'
    <3> SUFFICES ASSUME NEW q \in Peer
                 PROVE  /\ \A h \in HashId : \A i, k \in DOMAIN rt'[q][h] :
                             rt'[q][h][i] = rt'[q][h][k] => i = k
                        /\ job'[q] # NoJob => \A i, k \in DOMAIN job'[q].todo :
                             job'[q].todo[i] = job'[q].todo[k] => i = k
      BY DEF Distinct
    <3>1. CASE q = p
      BY <1>1, <2>3, <3>1 DEF PlaceInv, Distinct
    <3>2. CASE q # p
      BY <1>1, <2>3, <3>2 DEF PlaceInv, Distinct
    <3> QED
      BY <3>1, <3>2
  <2>12. FromClients' /\ OnePlace'
    BY <1>3, <2>4, <2>9, <2>10 DEF PlaceInv, FromClients, OnePlace, Held
  <2>13. Calm'
    BY <1>1, <1>3, <2>4, <2>9, <2>10 DEF PlaceInv, Calm, Held
  <2>14. Travelling'
    <3> SUFFICES ASSUME NEW d \in Conn, NEW s \in Peer, d.from # Client, Arrived(s, d)'
                 PROVE  /\ Waits(d.from, ClientConn(d.req))'
                        /\ s = job'[d.from].to /\ rsp[d] = None
      BY <1>1 DEF Travelling
    <3>1. d.from \in Peer /\ ClientConn(d.req) \in Conn /\ Arrived(s, d)
      BY <1>3, ConnIs
    <3>2. Waits(d.from, ClientConn(d.req)) /\ s = job[d.from].to /\ rsp[d] = None
      BY <3>1 DEF PlaceInv, Travelling
    <3>3. d.from # p
      BY <2>4, <3>1, <3>2
    <3> QED
      BY <2>3, <2>10, <3>1, <3>2, <3>3
  <2> QED
    BY <1>1, <2>11, <2>12, <2>13, <2>14 DEF PlaceInv, Known
<1> QED
  BY <1>4, <1>5

\* What is known of a peer that is in its loop.
LEMMA LoopFacts ==
    ASSUME IInv, PlaceInv, NEW p \in Peer, job[p] # NoJob
    PROVE  /\ Current(p) \in Conn /\ InLoop(p, Current(p)) /\ Current(p).from = Client
           /\ Current(p) = ClientConn(Current(p).req) /\ cmd[Current(p).req] \in Cmd
           /\ Onward(p) \in Conn /\ Onward(p).req = Current(p).req /\ Onward(p).from = p
           /\ job[p] \in Job /\ job[p].to \in Peer /\ p # Client
           /\ \A d \in Conn : d.req = Current(p).req /\ d # Onward(p) => rsp[d] = None
           /\ rsp[Onward(p)] # None => job[p].waiting /\ rsp[Onward(p)] \in Answer
<1>1. /\ job[p] \in Job /\ job[p].todo \in Seq(Conn) /\ job[p].todo # <<>>
      /\ job[p].to \in Peer
  BY DEF IInv, TypeOK, JobOK, Job
<1>2. /\ 1 \in DOMAIN job[p].todo /\ Current(p) = job[p].todo[1] /\ Current(p) \in Conn
      /\ InLoop(p, Current(p))
  BY <1>1 DEF Current, InLoop
<1>3. /\ Current(p).from = Client /\ Held(p, Current(p))
      /\ cmd[Current(p).req] \in Cmd
  BY <1>2, HeldKnown DEF PlaceInv, FromClients, Held
<1>4. /\ Onward(p) \in Conn /\ Onward(p).req = Current(p).req /\ Onward(p).from = p
      /\ p # Client /\ Current(p) = ClientConn(Current(p).req)
      /\ \A d \in Conn : d.req = Current(p).req /\ d.from = p => d = Onward(p)
  BY <1>2, <1>3, ConnIs, SentinelAssumption DEF Onward, Conn
<1>5. \A d \in Conn : d.req = Current(p).req /\ rsp[d] # None =>
                         Waits(p, Current(p)) /\ d.from = p /\ rsp[d] \in Answer
  BY <1>2, <1>3 DEF PlaceInv, Calm
<1> QED
  BY <1>1, <1>2, <1>3, <1>4, <1>5 DEF Waits

\* The current request is done with; what p has sent for it has been taken.
LEMMA FinishPlace ==
    ASSUME IInv, PlaceInv, NEW p \in Peer, job[p] # NoJob, Advance(p), NEW a,
           rsp' = [rsp EXCEPT ![Current(p)] = a], inbox' = inbox, cmd' = cmd,
           \A s \in Peer : ~Arrived(s, Onward(p))
    PROVE  PlaceInv'
<1> DEFINE c == Current(p)
<1>1. /\ c \in Conn /\ InLoop(p, c) /\ c.from = Client /\ cmd[c.req] # None
      /\ \A d \in Conn : d.from = p /\ ClientConn(d.req) = c => d = Onward(p)
  BY LoopFacts, ConnIs, SentinelAssumption
<1>2. /\ Distinct'
      /\ \A q \in Peer \ {p} : job'[q] = job[q]
      /\ \A q \in Peer, d \in Conn :
           /\ Arrived(q, d)' <=> Arrived(q, d)
           /\ Filed(q, d)' <=> Filed(q, d)
           /\ InLoop(q, d)' <=> InLoop(q, d) /\ ~(q = p /\ d = c)
           /\ Waits(q, d)' <=> Waits(q, d) /\ q # p
           /\ Waits(p, d) => d = c
  BY AdvanceMoves DEF PlaceInv, Arrived, Waits
<1>3. \A d \in Conn : rsp'[d] = IF d = c THEN a ELSE rsp[d]
  BY <1>1 DEF IInv, TypeOK
<1> HIDE DEF c
<1>4. FromClients' /\ OnePlace'
  BY <1>2 DEF PlaceInv, FromClients, OnePlace, Held
<1>5. Calm'
  <2> SUFFICES ASSUME NEW e \in Conn, NEW d \in Conn, NEW q \in Peer,
                      e.from = Client, d.req = e.req, Held(q, e)', rsp'[d] # None
               PROVE  Waits(q, e)' /\ d.from = q /\ rsp'[d] \in Answer
    BY DEF Calm
  <2>1. Held(q, e) /\ e # c
    BY <1>1, <1>2 DEF PlaceInv, OnePlace, Held
  <2>2. d # c
    BY <1>1, <2>1, ConnIs
  <2>3. Waits(q, e) /\ d.from = q /\ rsp[d] \in Answer
    BY <1>3, <2>1, <2>2 DEF PlaceInv, Calm
  <2> QED
    BY <1>2, <1>3, <2>1, <2>2, <2>3
<1>6. Travelling'
  <2> SUFFICES ASSUME NEW d \in Conn, NEW s \in Peer, d.from # Client, Arrived(s, d)'
               PROVE  /\ Waits(d.from, ClientConn(d.req))'
                      /\ s = job'[d.from].to /\ rsp'[d] = None
    BY DEF Travelling
  <2>1. d.from \in Peer /\ ClientConn(d.req) \in Conn /\ Arrived(s, d) /\ d # c
    BY <1>1, <1>2, ConnIs
  <2>2. Waits(d.from, ClientConn(d.req)) /\ s = job[d.from].to /\ rsp[d] = None
    BY <2>1 DEF PlaceInv, Travelling
  <2>3. d.from # p
    BY <1>1, <1>2, <2>1, <2>2
  <2> QED
    BY <1>2, <1>3, <2>1, <2>2, <2>3
<1>7. Known'
  BY <1>1, <1>3 DEF PlaceInv, Known
<1> QED
  BY <1>2, <1>4, <1>5, <1>6, <1>7 DEF PlaceInv

\* A request in the loop is sent to the owner, which listens.
LEMMA ProxyNextMoves ==
    ASSUME IInv, PlaceInv, NEW p \in Peer, ProxyNext(p), job[p].to \in up
    PROVE  /\ rt' = rt /\ rsp' = rsp /\ cmd' = cmd
           /\ job'[p] # NoJob /\ job'[p].waiting
           /\ job'[p].todo = job[p].todo /\ job'[p].to = job[p].to
           /\ \A q \in Peer \ {p} : job'[q] = job[q]
           /\ \A q \in Peer, d \in Conn :
                Arrived(q, d)' <=> Arrived(q, d) \/ (q = job[p].to /\ d = Onward(p))
           /\ \A d \in Conn :
                /\ Filed(p, d)' <=> Filed(p, d)
                /\ InLoop(p, d)' <=> InLoop(p, d)
                /\ Waits(p, d)' <=> d = Current(p)
           /\ \A q \in Peer \ {p}, d \in Conn :
                /\ Filed(q, d)' <=> Filed(q, d)
                /\ InLoop(q, d)' <=> InLoop(q, d)
                /\ Waits(q, d)' <=> Waits(q, d)
<1> DEFINE c == Current(p)
           d0 == Onward(p)
           k == [job[p] EXCEPT !.waiting = TRUE]
<1>1. /\ job[p] # NoJob /\ ~job[p].waiting /\ cmd' = cmd
  BY DEF ProxyNext, Busy
<1>2. /\ c \in Conn /\ InLoop(p, c) /\ c.from = Client /\ c = ClientConn(c.req)
      /\ d0 \in Conn /\ d0.req = c.req /\ d0.from = p /\ p # Client
      /\ job[p] \in Job /\ job[p].to \in Peer
      /\ \A d \in Conn : d.req = c.req => rsp[d] = None
  BY <1>1, LoopFacts
<1>4. /\ inbox' = [inbox EXCEPT ![job[p].to] = @ \cup {Data(d0)}]
      /\ job' = [job EXCEPT ![p] = k]
      /\ rt' = rt /\ rsp' = rsp
  BY DEF ProxyNext
<1>5. /\ k \in Job /\ k.todo = job[p].todo /\ k.to = job[p].to /\ k.hash = job[p].hash
      /\ k.waiting
  BY <1>2 DEF Job
<1> HIDE DEF k
<1>6. /\ job'[p] = k /\ k # NoJob /\ \A q \in Peer \ {p} : job'[q] = job[q]
  BY <1>4, <1>5, SentinelAssumption DEF IInv, TypeOK
<1>7. \A q \in Peer, d \in Conn :
         Arrived(q, d)' <=> Arrived(q, d) \/ (q = job[p].to /\ d = d0)
  BY <1>2, <1>4, DataIs DEF Arrived, IInv, TypeOK
<1>8. \A d \in Conn : /\ Filed(p, d)' <=> Filed(p, d)
                      /\ InLoop(p, d)' <=> InLoop(p, d)
                      /\ Waits(p, d)' <=> d = c
  BY <1>1, <1>4, <1>5, <1>6 DEF Filed, RunsLoop, InLoop, Waits, Current
<1>9. \A q \in Peer \ {p}, d \in Conn :
         /\ Filed(q, d)' <=> Filed(q, d)
         /\ InLoop(q, d)' <=> InLoop(q, d)
         /\ Waits(q, d)' <=> Waits(q, d)
  BY <1>4, <1>6, SamePlaces
<1> QED
  BY <1>1, <1>4, <1>5, <1>6, <1>7, <1>8, <1>9

\* A request in the loop is sent to the owner, or its client is sent away.
LEMMA ProxyNextPlace ==
    ASSUME IInv, PlaceInv, NEW p \in Peer, ProxyNext(p)
    PROVE  PlaceInv'
<1> DEFINE c == Current(p)
           d0 == Onward(p)
<1>1. /\ job[p] # NoJob /\ ~job[p].waiting /\ cmd' = cmd
  BY DEF ProxyNext, Busy
<1>2. /\ c \in Conn /\ InLoop(p, c) /\ c.from = Client /\ c = ClientConn(c.req)
      /\ d0 \in Conn /\ d0.req = c.req /\ d0.from = p /\ p # Client
      /\ job[p] \in Job /\ job[p].to \in Peer
      /\ \A d \in Conn : d.req = c.req => rsp[d] = None
  BY <1>1, LoopFacts
<1>3. \A d \in Conn : ~Waits(p, d)
  BY <1>1 DEF Waits
<1>4. \A s \in Peer : ~Arrived(s, d0)
  BY <1>2, <1>3, ConnIs DEF PlaceInv, Travelling
<1>5. CASE job[p].to \notin up
  <2>1. rsp' = [rsp EXCEPT ![c] = Closed] /\ Advance(p) /\ inbox' = inbox
    BY <1>5 DEF ProxyNext, Respond
  <2> QED
    BY <1>1, <1>4, <2>1, FinishPlace
<1>6. CASE job[p].to \in up
  <2>1. rt' = rt /\ rsp' = rsp
    BY <1>6, ProxyNextMoves
  <2>3. /\ job'[p].todo = job[p].todo /\ job'[p].to = job[p].to
        /\ \A q \in Peer \ {p} : job'[q] = job[q]
    BY <1>6, ProxyNextMoves
  <2>4. \A q \in Peer, d \in Conn :
           Arrived(q, d)' <=> Arrived(q, d) \/ (q = job[p].to /\ d = d0)
    BY <1>6, ProxyNextMoves
  <2>5. \A d \in Conn : /\ Filed(p, d)' <=> Filed(p, d)
                        /\ InLoop(p, d)' <=> InLoop(p, d)
                        /\ Waits(p, d)' <=> d = c
    BY <1>6, ProxyNextMoves
  <2>6. \A q \in Peer \ {p}, d \in Conn :
           /\ Filed(q, d)' <=> Filed(q, d)
           /\ InLoop(q, d)' <=> InLoop(q, d)
           /\ Waits(q, d)' <=> Waits(q, d)
    BY <1>6, ProxyNextMoves
  <2>7. Distinct'
    <3> SUFFICES ASSUME NEW q \in Peer
                 PROVE  /\ \A h \in HashId : \A i, n \in DOMAIN rt'[q][h] :
                             rt'[q][h][i] = rt'[q][h][n] => i = n
                        /\ job'[q] # NoJob => \A i, n \in DOMAIN job'[q].todo :
                             job'[q].todo[i] = job'[q].todo[n] => i = n
      BY DEF Distinct
    <3>1. CASE q = p
      BY <1>1, <2>1, <2>3, <3>1 DEF PlaceInv, Distinct
    <3>2. CASE q # p
      BY <2>1, <2>3, <3>2 DEF PlaceInv, Distinct
    <3> QED
      BY <3>1, <3>2
  <2> HIDE DEF c, d0
  <2>8. FromClients' /\ OnePlace'
    BY <1>2, <2>4, <2>5, <2>6 DEF PlaceInv, FromClients, OnePlace, Held
  <2>9. Calm'
    <3> SUFFICES ASSUME NEW e \in Conn, NEW d \in Conn, NEW q \in Peer,
                        e.from = Client, d.req = e.req, Held(q, e)', rsp[d] # None
                 PROVE  Waits(q, e)' /\ d.from = q /\ rsp[d] \in Answer
      BY <2>1 DEF Calm
    <3>1. Held(q, e)
      BY <1>2, <2>4, <2>5, <2>6 DEF Held
    <3>2. Waits(q, e) /\ d.from = q /\ rsp[d] \in Answer
      BY <3>1 DEF PlaceInv, Calm
    <3> QED
      BY <1>3, <2>6, <3>2
  <2>10. Travelling'
    <3> SUFFICES ASSUME NEW d \in Conn, NEW s \in Peer, d.from # Client, Arrived(s, d)'
                 PROVE  /\ Waits(d.from, ClientConn(d.req))'
                        /\ s = job'[d.from].to /\ rsp[d] = None
      BY <2>1 DEF Travelling
    <3>1. d.from \in Peer /\ ClientConn(d.req) \in Conn
      BY ConnIs
    <3>2. CASE Arrived(s, d)
      <4>1. Waits(d.from, ClientConn(d.req)) /\ s = job[d.from].to /\ rsp[d] = None
        BY <3>2 DEF PlaceInv, Travelling
      <4>2. d.from # p
        BY <1>3, <3>1, <4>1
      <4> QED
        BY <2>3, <2>6, <3>1, <4>1, <4>2
    <3>3. CASE s = job[p].to /\ d = d0
      BY <1>2, <2>3, <2>5, <3>3
    <3> QED
      BY <2>4, <3>2, <3>3
  <2> QED
    BY <1>1, <2>1, <2>7, <2>8, <2>9, <2>10 DEF PlaceInv, Known
<1> QED
  BY <1>5, <1>6

\* The answer of the owner is relayed.
LEMMA ProxyDonePlace ==
    ASSUME IInv, PlaceInv, NEW p \in Peer, ProxyDone(p)
    PROVE  PlaceInv'
<1>1. /\ job[p] # NoJob /\ rsp[Onward(p)] # None
      /\ rsp' = [rsp EXCEPT ![Current(p)] = rsp[Onward(p)]]
      /\ Advance(p) /\ inbox' = inbox /\ cmd' = cmd
  BY DEF ProxyDone, Busy, Respond
<1>2. Onward(p) \in Conn /\ Onward(p).from = p /\ p # Client
  BY <1>1, LoopFacts
<1>3. \A s \in Peer : ~Arrived(s, Onward(p))
  BY <1>1, <1>2 DEF PlaceInv, Travelling
<1> QED
  BY <1>1, <1>3, FinishPlace

\* No step puts a request into two places.
LEMMA PlaceNext == IInv /\ PlaceInv /\ [Next]_vars => PlaceInv'
<1> SUFFICES ASSUME IInv, PlaceInv, [Next]_vars PROVE PlaceInv'
  OBVIOUS
<1>1. ASSUME NEW p \in Peer, Start(p) PROVE PlaceInv'
  BY <1>1, StillPlace DEF Start, Arrived
<1>2. CASE UNCHANGED vars
  BY <1>2, StillPlace DEF vars, Arrived
<1>3. ASSUME NEW p \in Peer, NEW m \in inbox[p], HandlePacket(p, m) PROVE PlaceInv'
  BY <1>3, OwnPlace, ProxyToSuccPlace, LookUpPlace, LookupMoves, StillPlace, ReplyPlace DEF HandlePacket
<1> QED
  BY <1>1, <1>2, <1>3, IssuePlace, ProxyNextPlace, ProxyDonePlace DEF Next, Run
-----------------------------------------------------------------------------
(* Where all peers listen, only peers that wait for each other in a circle *)
(* leave a request unanswered.                                             *)

\* A client that waits for its answer is held by some peer: no step drops a
\* request without closing its connection.
NoneDropped == late = {} =>
    \A r \in Req : IsOpen(r) => \E p \in Peer : Held(p, ClientConn(r))

\* A peer that waits for an answer has its packet unread at the other side.
UnreadOf(p) ==
    job[p] # NoJob /\ job[p].waiting /\ rsp[Onward(p)] = None => Arrived(job[p].to, Onward(p))

Unread == \A p \in Peer : UnreadOf(p)

\* A step that brings no request keeps this up if it leaves every client
\* that it does not answer where it is held.
LEMMA HeldOn ==
    ASSUME NoneDropped, late' = late, cmd' = cmd,
           late = {} => \A c \in Conn : rsp'[c] = None =>
               /\ rsp[c] = None
               /\ c.from = Client => \A p \in Peer : Held(p, c) => Held(p, c)'
    PROVE  NoneDropped'
<1> SUFFICES ASSUME late = {}, NEW r \in Req, IsOpen(r)'
             PROVE  \E q \in Peer : Held(q, ClientConn(r))'
  BY DEF NoneDropped, ClientConn
<1>1. rsp'[ClientConn(r)] = None /\ cmd[r] # None
  BY DEF IsOpen, ClientConn
<1>2. ClientConn(r) \in Conn /\ ClientConn(r).from = Client
  BY DEF ClientConn, Conn
<1>3. IsOpen(r)
  BY <1>1, <1>2 DEF IsOpen
<1>4. PICK p \in Peer : Held(p, ClientConn(r))
  BY <1>3 DEF NoneDropped
<1> QED
  BY <1>1, <1>2, <1>4

\* A step that leaves a peer's loop alone, takes its packet away only with an
\* answer, and takes no answer back.
LEMMA UnreadKept ==
    ASSUME IInv, PlaceInv, NEW p \in Peer, job'[p] = job[p], UnreadOf(p),
           \A q \in Peer, d \in Conn : d.from # Client /\ rsp'[d] = None =>
               /\ Arrived(q, d) => Arrived(q, d)'
               /\ rsp[d] = None
    PROVE  UnreadOf(p)'
<1>1. Onward(p)' = Onward(p)
  BY DEF Onward, Current
<1> SUFFICES ASSUME job[p] # NoJob, job[p].waiting, rsp'[Onward(p)] = None
             PROVE  Data(Onward(p)) \in inbox'[job[p].to]
  BY <1>1 DEF UnreadOf, Arrived, Data
<1>2. Onward(p) \in Conn /\ Onward(p).from # Client /\ job[p].to \in Peer
  BY LoopFacts
<1>3. Arrived(job[p].to, Onward(p))
  BY <1>2 DEF UnreadOf
<1> QED
  BY <1>2, <1>3 DEF Arrived, Data

\* A step that moves no request.
LEMMA StillUnread ==
    ASSUME IInv, PlaceInv, NoneDropped, Unread, late' = late, rt' = rt, job' = job,
           cmd' = cmd, rsp' = rsp,
           \A q \in Peer, c \in Conn : Arrived(q, c)' <=> Arrived(q, c)
    PROVE  NoneDropped' /\ Unread'
<1>1. \A q \in Peer, d \in Conn : Held(q, d)' <=> Held(q, d)
  BY SamePlaces DEF Held
<1>2. NoneDropped'
  BY <1>1, HeldOn
<1>3. ASSUME NEW p \in Peer PROVE UnreadOf(p)'
  BY UnreadKept DEF Unread
<1> QED
  BY <1>2, <1>3 DEF Unread

\* A new request is held by the peer it has come to.
LEMMA IssueUnread ==
    ASSUME IInv, PlaceInv, NoneDropped, Unread,
           NEW r \in Req, NEW p \in Entry, NEW c \in Cmd, Issue(r, p, c)
    PROVE  NoneDropped' /\ Unread'
<1>1. /\ p \in Peer /\ ClientConn(r) \in Conn
      /\ cmd' = [cmd EXCEPT ![r] = c]
      /\ rt' = rt /\ job' = job /\ rsp' = rsp
      /\ \A q \in Peer, d \in Conn :
           /\ Arrived(q, d)' <=> Arrived(q, d) \/ (q = p /\ d = ClientConn(r))
           /\ Filed(q, d)' <=> Filed(q, d)
           /\ InLoop(q, d)' <=> InLoop(q, d)
  BY IssueMoves
<1>2. late' = late
  BY DEF Issue
<1>3. NoneDropped'
  <2> SUFFICES ASSUME late = {}, NEW t \in Req, IsOpen(t)'
               PROVE  \E q \in Peer : Held(q, ClientConn(t))'
    BY <1>2 DEF NoneDropped, ClientConn
  <2>1. CASE t = r
    BY <1>1, <2>1 DEF Held
  <2>2. CASE t # r
    <3>1. cmd'[t] = cmd[t] /\ ClientConn(t) \in Conn
      BY <1>1, <2>2 DEF IInv, TypeOK, ClientConn, Conn
    <3>2. IsOpen(t)
      BY <1>1, <3>1 DEF IsOpen, ClientConn
    <3>3. PICK q \in Peer : Held(q, ClientConn(t))
      BY <3>2 DEF NoneDropped
    <3> QED
      BY <1>1, <3>1, <3>3 DEF Held
  <2> QED
    BY <2>1, <2>2
<1>4. ASSUME NEW q \in Peer PROVE UnreadOf(q)'
  BY <1>1, UnreadKept DEF Unread
<1> QED
  BY <1>3, <1>4 DEF Unread

\* The owner answers the request it takes.
LEMMA OwnUnread ==
    ASSUME IInv, PlaceInv, NoneDropped, Unread,
           NEW p \in Peer, NEW m \in inbox[p], HandleOwnRequest(p, m)
    PROVE  NoneDropped' /\ Unread'
<1>1. PICK a \in Answer : \A d \in Conn : rsp'[d] = IF d = m.conn THEN a ELSE rsp[d]
  BY OwnMoves
<1>2. a # None /\ late' = late
  BY SentinelAssumption DEF HandleOwnRequest
<1>3. /\ job' = job /\ cmd' = cmd
      /\ \A q \in Peer, d \in Conn :
           /\ Arrived(q, d)' <=> Arrived(q, d) /\ ~(q = p /\ d = m.conn)
           /\ Filed(q, d)' <=> Filed(q, d)
           /\ InLoop(q, d)' <=> InLoop(q, d)
  BY OwnMoves
<1>4. \A d \in Conn : rsp'[d] = None => d # m.conn /\ rsp[d] = None
  BY <1>1, <1>2
<1>5. NoneDropped'
  <2>1. \A d \in Conn, q \in Peer : d # m.conn /\ Held(q, d) => Held(q, d)'
    BY <1>3 DEF Held
  <2> QED
    BY <1>2, <1>3, <1>4, <2>1, HeldOn
<1>6. ASSUME NEW q \in Peer PROVE UnreadOf(q)'
  BY <1>3, <1>4, UnreadKept DEF Unread
<1> QED
  BY <1>5, <1>6 DEF Unread

\* A request for a successor that listens is in the loop and on its way.
LEMMA ProxyUnread ==
    ASSUME IInv, PlaceInv, Listen, NoneDropped, Unread,
           NEW p \in Peer, NEW m \in inbox[p], ProxyToSucc(p, m)
    PROVE  NoneDropped' /\ Unread'
<1>1. /\ m.type = "DATA" /\ job[p] = NoJob /\ ~Owns(p, HashOf(m.conn.req))
      /\ rt' = rt /\ cmd' = cmd /\ rsp' = rsp /\ late' = late
  BY DEF ProxyToSucc, Takes
<1>2. m.conn \in Conn /\ m.conn.from = Client /\ Succ[p] \in Peer
  BY <1>1, NotAnswered, NotOwnedIsClients, SuccIsPeer
<1>3. CASE Succ[p] \notin up
  <2>1. late # {}
    BY <1>2, <1>3 DEF Listen
  <2>2. /\ job' = job
        /\ \A q \in Peer, d \in Conn :
             Arrived(q, d)' <=> Arrived(q, d) /\ ~(q = p /\ d = m.conn)
    BY <1>3, DropMoves
  <2>3. NoneDropped'
    BY <1>1, <2>1, HeldOn
  <2>4. ASSUME NEW q \in Peer PROVE UnreadOf(q)'
    BY <1>1, <1>2, <2>2, UnreadKept DEF Unread
  <2> QED
    BY <2>3, <2>4 DEF Unread
<1>4. CASE Succ[p] \in up
  <2>1. /\ job'[p] = [todo |-> <<m.conn>>, to |-> Succ[p], hash |-> None, waiting |-> TRUE]
        /\ \A q \in Peer \ {p} : job'[q] = job[q]
    BY <1>4, ProxyMoves
  <2>2. \A q \in Peer, d \in Conn :
           Arrived(q, d)' <=> \/ Arrived(q, d) /\ ~(q = p /\ d = m.conn)
                              \/ q = Succ[p] /\ d = [req |-> m.conn.req, from |-> p]
    BY <1>4, ProxyMoves
  <2>3. \A d \in Conn :
           /\ Filed(p, d)' <=> Filed(p, d)
           /\ InLoop(p, d)' <=> d = m.conn
           /\ ~InLoop(p, d)
    BY <1>1, <1>4, ProxyMoves, Idle
  <2>4. \A q \in Peer \ {p}, d \in Conn :
           /\ Filed(q, d)' <=> Filed(q, d)
           /\ InLoop(q, d)' <=> InLoop(q, d)
    BY <1>4, ProxyMoves
  <2>5. \A q \in Peer, d \in Conn : Held(q, d) => Held(q, d)'
    BY <2>2, <2>3, <2>4 DEF Held
  <2>6. NoneDropped'
    BY <1>1, <2>5, HeldOn
  <2>7. UnreadOf(p)'
    <3>1. job'[p].todo = <<m.conn>> /\ job'[p].to = Succ[p]
      BY <2>1
    <3>2. Onward(p)' = [req |-> m.conn.req, from |-> p]
      BY <3>1 DEF Onward, Current
    <3>3. [req |-> m.conn.req, from |-> p] \in Conn
      BY <1>2, ConnIs DEF Conn
    <3>4. Data([req |-> m.conn.req, from |-> p]) \in inbox'[Succ[p]]
      BY <1>2, <2>2, <3>3 DEF Arrived, Data
    <3> QED
      BY <3>1, <3>2, <3>4 DEF UnreadOf, Arrived, Data
  <2>8. ASSUME NEW q \in Peer \ {p} PROVE UnreadOf(q)'
    BY <1>1, <1>2, <2>1, <2>2, UnreadKept DEF Unread
  <2> QED
    BY <2>6, <2>7, <2>8 DEF Unread
<1> QED
  BY <1>3, <1>4

\* A request that needs a lookup is filed.
LEMMA LookUpUnread ==
    ASSUME IInv, PlaceInv, NoneDropped, Unread,
           NEW p \in Peer, NEW m \in inbox[p], LookUpPeer(p, m)
    PROVE  NoneDropped' /\ Unread'
<1>1. /\ m.conn \in Conn /\ m.conn.from = Client
      /\ job' = job /\ cmd' = cmd /\ rsp' = rsp /\ late' = late
  BY LookUpMoves DEF LookUpPeer
<1>2. \A q \in Peer, d \in Conn :
         Arrived(q, d)' <=> Arrived(q, d) /\ ~(q = p /\ d = m.conn)
  BY LookUpMoves
<1>3. \A d \in Conn : (Filed(p, d)' <=> Filed(p, d) \/ d = m.conn) /\ ~InLoop(p, d)
  BY LookUpMoves
<1>4. \A q \in Peer \ {p}, d \in Conn :
         (Filed(q, d)' <=> Filed(q, d)) /\ (InLoop(q, d)' <=> InLoop(q, d))
  BY LookUpMoves
<1>5. \A q \in Peer, d \in Conn : Held(q, d) => Held(q, d)'
  BY <1>2, <1>3, <1>4 DEF Held
<1>6. NoneDropped'
  BY <1>1, <1>5, HeldOn
<1>7. ASSUME NEW q \in Peer PROVE UnreadOf(q)'
  BY <1>1, <1>2, UnreadKept DEF Unread
<1> QED
  BY <1>6, <1>7 DEF Unread

\* A reply brings all of its hash into the loop.
LEMMA ReplyUnread ==
    ASSUME IInv, PlaceInv, NoneDropped, Unread,
           NEW p \in Peer, NEW m \in inbox[p], HandleReply(p, m)
    PROVE  NoneDropped' /\ Unread'
<1>1. rt' = rt /\ cmd' = cmd /\ rsp' = rsp /\ late' = late
  BY ReplyMoves DEF HandleReply
<1>2. \A q \in Peer, c \in Conn : Arrived(q, c)' <=> Arrived(q, c)
  BY ReplyMoves
<1>3. CASE job' = job
  BY <1>1, <1>2, <1>3, StillUnread
<1>4. CASE job' # job
  <2>1. ~job'[p].waiting /\ \A q \in Peer \ {p} : job'[q] = job[q]
    BY <1>4, ReplyMoves
  <2>2. \A c \in Conn : ~InLoop(p, c) /\ (Filed(p, c) => Filed(p, c)' \/ InLoop(p, c)')
    BY <1>4, ReplyMoves
  <2>3. \A q \in Peer \ {p}, c \in Conn :
           (Filed(q, c)' <=> Filed(q, c)) /\ (InLoop(q, c)' <=> InLoop(q, c))
    BY <1>4, ReplyMoves
  <2>4. \A q \in Peer, d \in Conn : Held(q, d) => Held(q, d)'
    BY <1>2, <2>2, <2>3 DEF Held
  <2>5. NoneDropped'
    BY <1>1, <2>4, HeldOn
  <2>6. UnreadOf(p)'
    BY <2>1 DEF UnreadOf
  <2>7. ASSUME NEW q \in Peer \ {p} PROVE UnreadOf(q)'
    BY <1>1, <1>2, <2>1, UnreadKept DEF Unread
  <2> QED
    BY <2>5, <2>6, <2>7 DEF Unread
<1> QED
  BY <1>3, <1>4

\* A request that has been answered or turned away leaves the loop, which
\* does not wait for the next one yet.
LEMMA FinishUnread ==
    ASSUME IInv, PlaceInv, NoneDropped, Unread, NEW p \in Peer, job[p] # NoJob, Advance(p),
           NEW a, a # None, rsp' = [rsp EXCEPT ![Current(p)] = a],
           inbox' = inbox, cmd' = cmd, late' = late
    PROVE  NoneDropped' /\ Unread'
<1>1. Current(p) \in Conn /\ Current(p).from = Client
  BY LoopFacts
<1>2. \A d \in Conn : rsp'[d] = IF d = Current(p) THEN a ELSE rsp[d]
  BY <1>1 DEF IInv, TypeOK
<1>3. \A q \in Peer, d \in Conn : d # Current(p) /\ Held(q, d) => Held(q, d)'
  BY AdvanceMoves DEF PlaceInv, Held, Arrived
<1>4. NoneDropped'
  BY <1>2, <1>3, HeldOn
<1>5. UnreadOf(p)'
  <2>1. job[p] \in Job /\ job \in [Peer -> Job \cup {NoJob}]
    BY DEF IInv, TypeOK
  <2>2. job'[p] = NoJob \/ ~job'[p].waiting
    <3>1. CASE Tail(job[p].todo) = <<>>
      BY <2>1, <3>1 DEF Advance
    <3>2. CASE Tail(job[p].todo) # <<>>
      BY <2>1, <3>2 DEF Advance, Job
    <3> QED
      BY <3>1, <3>2
  <2> QED
    BY <2>2 DEF UnreadOf
<1>6. ASSUME NEW q \in Peer \ {p} PROVE UnreadOf(q)'
  <2>1. job'[q] = job[q]
    BY AdvanceMoves DEF PlaceInv
  <2> QED
    BY <1>1, <1>2, <2>1, UnreadKept DEF Unread, Arrived
<1> QED
  BY <1>4, <1>5, <1>6 DEF Unread

\* The loop sends its next request on.
LEMMA ProxyNextUnread ==
    ASSUME IInv, PlaceInv, NoneDropped, Unread, NEW p \in Peer, ProxyNext(p)
    PROVE  NoneDropped' /\ Unread'
<1>1. job[p] # NoJob /\ cmd' = cmd /\ late' = late
  BY DEF ProxyNext, Busy
<1>2. CASE job[p].to \notin up
  <2>1. rsp' = [rsp EXCEPT ![Current(p)] = Closed] /\ Advance(p) /\ inbox' = inbox
    BY <1>2 DEF ProxyNext, Respond
  <2> QED
    BY <1>1, <2>1, FinishUnread, SentinelAssumption
<1>3. CASE job[p].to \in up
  <2>1. /\ rsp' = rsp
        /\ job'[p].todo = job[p].todo /\ job'[p].to = job[p].to
        /\ \A q \in Peer \ {p} : job'[q] = job[q]
    BY <1>3, ProxyNextMoves
  <2>2. \A q \in Peer, d \in Conn :
           Arrived(q, d)' <=> Arrived(q, d) \/ (q = job[p].to /\ d = Onward(p))
    BY <1>3, ProxyNextMoves
  <2>3. \A d \in Conn :
           (Filed(p, d)' <=> Filed(p, d)) /\ (InLoop(p, d)' <=> InLoop(p, d))
    BY <1>3, ProxyNextMoves
  <2>4. \A q \in Peer \ {p}, d \in Conn :
           (Filed(q, d)' <=> Filed(q, d)) /\ (InLoop(q, d)' <=> InLoop(q, d))
    BY <1>3, ProxyNextMoves
  <2>5. \A q \in Peer, d \in Conn : Held(q, d) => Held(q, d)'
    BY <2>2, <2>3, <2>4 DEF Held
  <2>6. NoneDropped'
    BY <1>1, <2>1, <2>5, HeldOn
  <2>7. UnreadOf(p)'
    <3>1. Onward(p) \in Conn /\ job[p].to \in Peer
      BY <1>1, LoopFacts
    <3>2. Onward(p)' = Onward(p)
      BY <2>1 DEF Onward, Current
    <3>3. Data(Onward(p)) \in inbox'[job[p].to]
      BY <2>2, <3>1 DEF Arrived, Data
    <3> QED
      BY <2>1, <3>2, <3>3 DEF UnreadOf, Arrived, Data
  <2>8. ASSUME NEW q \in Peer \ {p} PROVE UnreadOf(q)'
    BY <2>1, <2>2, UnreadKept DEF Unread
  <2> QED
    BY <2>6, <2>7, <2>8 DEF Unread
<1> QED
  BY <1>2, <1>3

\* No step loses a client or leaves a peer waiting for nothing.
LEMMA UnreadNext ==
    ASSUME IInv, PlaceInv, Listen, NoneDropped, Unread, [Next]_vars
    PROVE  NoneDropped' /\ Unread'
<1>1. ASSUME NEW p \in Peer, Start(p) PROVE NoneDropped' /\ Unread'
  BY <1>1, StillUnread DEF Start, Arrived
<1>2. CASE UNCHANGED vars
  BY <1>2, StillUnread DEF vars, Arrived
<1>3. ASSUME NEW p \in Peer, NEW m \in inbox[p], HandlePacket(p, m)
      PROVE  NoneDropped' /\ Unread'
  <2>1. CASE HandleLookup(p, m)
    <3>1. late' = late
      BY <2>1 DEF HandleLookup
    <3> QED
      BY <2>1, <3>1, LookupMoves, StillUnread
  <2> QED
    BY <1>3, <2>1, OwnUnread, ProxyUnread, LookUpUnread, ReplyUnread DEF HandlePacket
<1>4. ASSUME NEW p \in Peer, ProxyDone(p) PROVE NoneDropped' /\ Unread'
  <2>1. /\ job[p] # NoJob /\ rsp[Onward(p)] # None
        /\ rsp' = [rsp EXCEPT ![Current(p)] = rsp[Onward(p)]]
        /\ Advance(p) /\ inbox' = inbox /\ cmd' = cmd /\ late' = late
    BY <1>4 DEF ProxyDone, Busy, Respond
  <2> QED
    BY <2>1, FinishUnread
<1> QED
  BY <1>1, <1>2, <1>3, <1>4, IssueUnread, ProxyNextUnread DEF Next, Run

\* Some thread is in a loop when a client waits and nothing moves;
LEMMA SomeLoop ==
    ASSUME IInv, OpenRequestsHaveLookup, NoneDropped, late = {},
           \A p \in Peer : Blocked(p), NEW r \in Req, IsOpen(r)
    PROVE  \E p \in Peer : job[p] # NoJob
<1>1. PICK p \in Peer : Held(p, ClientConn(r))
  BY DEF NoneDropped
<1>2. \A q \in Peer : inbox[q] # {} => job[q] # NoJob
  BY DEF Blocked
<1>3. CASE Arrived(p, ClientConn(r))
  BY <1>2, <1>3 DEF Arrived
<1>4. CASE Filed(p, ClientConn(r))
  <2>1. PICK h \in HashId : rt[p][h] # <<>>
    BY <1>4 DEF Filed
  <2>2. LookupUnderWay(p, h)
    BY <2>1 DEF OpenRequestsHaveLookup
  <2> QED
    BY <1>2, <2>2 DEF LookupUnderWay
<1>5. CASE InLoop(p, ClientConn(r))
  BY <1>5 DEF InLoop
<1> QED
  BY <1>1, <1>3, <1>4, <1>5 DEF Held

\* and every such thread waits for another one: together they are a circle.
LEMMA LoopsAreCircle ==
    ASSUME IInv, Unread, \A p \in Peer : Blocked(p), NEW s \in Peer, job[s] # NoJob
    PROVE  WaitCircle
<1> DEFINE S == {p \in Peer : job[p] # NoJob}
<1>1. ASSUME NEW p \in S PROVE job[p].waiting /\ job[p].to \in S
  <2>1. job[p].waiting /\ rsp[Onward(p)] = None
    BY DEF Blocked
  <2>2. Arrived(job[p].to, Onward(p))
    BY <2>1 DEF Unread, UnreadOf
  <2>3. job[p].to \in Peer
    BY DEF IInv, TypeOK, Job
  <2>4. job[job[p].to] # NoJob
    BY <2>2, <2>3 DEF Blocked, Arrived
  <2> QED
    BY <2>1, <2>3, <2>4
<1>2. S \in (SUBSET Peer) \ {{}}
  OBVIOUS
<1>3. \A p \in S : job[p] # NoJob /\ job[p].waiting /\ job[p].to \in S
  BY <1>1
<1> HIDE DEF S
<1> QED
  BY <1>2, <1>3 DEF WaitCircle

\* Where all peers listen, threads that wait for each other in a circle are
\* the only way the ring stops with a client unanswered: proxy_request
\* (peer.c:53-74) blocks in recvall, and nothing else ever loses a request
\* or waits for what is not coming.
THEOREM OnlyCirclesStop == Spec => []OnlyCirclesBlock
<1>1. Init => PlaceInv /\ Listen /\ OpenRequestsHaveLookup
  BY InitPlace DEF Init, Listen, OpenRequestsHaveLookup
<1>2. Init => NoneDropped /\ Unread
  BY DEF Init, NoneDropped, IsOpen, Unread, UnreadOf
<1>3. IInv /\ OpenRequestsHaveLookup /\ NoneDropped /\ Unread => OnlyCirclesBlock
  BY SomeLoop, LoopsAreCircle DEF OnlyCirclesBlock
<1> QED
  BY <1>1, <1>2, <1>3, LookupsNext, PlaceNext, UnreadNext, Invariant, PTL DEF Spec
-----------------------------------------------------------------------------
(* The steps of the ring are steps of the table.                           *)

\* Result as a function of what has been sent back.
ResultIn(f, r) ==
    LET said == {f[c] : c \in {d \in Conn : d.req = r}} \ {None, Closed}
    IN IF said = {} THEN None ELSE CHOOSE a \in said : TRUE

\* Result, with the answers as an argument, before a step and after it.
LEMMA ResultIs == \A r : Result(r) = ResultIn(rsp, r) /\ Result(r)' = ResultIn(rsp', r)
BY DEF Result, ResultIn

\* Nobody has answered the request.
LEMMA NoResult ==
    ASSUME NEW f, NEW r, \A d \in Conn : d.req = r => f[d] \in {None, Closed}
    PROVE  ResultIn(f, r) = None
<1>1. {f[c] : c \in {d \in Conn : d.req = r}} \ {None, Closed} = {}
  OBVIOUS
<1> QED
  BY <1>1 DEF ResultIn

\* All who have answered it have answered the same.
LEMMA TheResult ==
    ASSUME NEW f, NEW r, NEW a, a # None, a # Closed,
           NEW c \in Conn, c.req = r, f[c] = a,
           \A d \in Conn : d.req = r => f[d] \in {None, Closed, a}
    PROVE  ResultIn(f, r) = a
<1>1. {f[e] : e \in {d \in Conn : d.req = r}} \ {None, Closed} = {a}
  OBVIOUS
<1> QED
  BY <1>1 DEF ResultIn

\* The result depends on what is sent back for the request only.
LEMMA SameResult ==
    ASSUME NEW f, NEW g, NEW r, \A d \in Conn : d.req = r => f[d] = g[d]
    PROVE  ResultIn(f, r) = ResultIn(g, r)
<1>1. {f[c] : c \in {d \in Conn : d.req = r}} = {g[c] : c \in {d \in Conn : d.req = r}}
  OBVIOUS
<1> QED
  BY <1>1 DEF ResultIn

\* A table of which nobody has written a part is empty.
LEMMA InitTable == Init => Table!Init
<1> SUFFICES ASSUME Init PROVE Table!Init
  OBVIOUS
<1>1. \A k \in Key : Owner(Hash[k]) \in Peer
  BY OwnerOwns, RingAssumption
<1>2. [k \in Key |-> dht[Owner(Hash[k])][k]] = [k \in Key |-> NoValue]
  BY <1>1 DEF Init
<1>3. \A r \in Req : Result(r) = None
  BY NoResult, ResultIs DEF Init
<1>4. \A r \in Req : rsp[ClientConn(r)] = None
  BY DEF Init, ClientConn, Conn
<1> QED
  BY <1>2, <1>3, <1>4 DEF Table!Init, Init

\* A client's request is an invocation.
LEMMA IssueIsInvoke ==
    ASSUME NEW r \in Req, NEW p \in Entry, NEW c \in Cmd, Issue(r, p, c)
    PROVE  Table!Invoke(r)
<1>1. cmd[r] = None /\ cmd' = [cmd EXCEPT ![r] = c] /\ dht' = dht /\ rsp' = rsp
  BY DEF Issue
<1>2. c \in Table!Cmd
  BY DEF Cmd, Table!Cmd, Op
<1>3. \A q \in Req : Result(q)' = Result(q)
  BY <1>1, ResultIs
<1> QED
  BY <1>1, <1>2, <1>3 DEF Table!Invoke

\* The owner of a key executes a command where the table keeps it.
LEMMA OwnIsExecute ==
    ASSUME IInv, PlaceInv, NEW p \in Peer, NEW m \in inbox[p], HandleOwnRequest(p, m)
    PROVE  Table!Execute(m.conn.req)
<1> DEFINE c == m.conn
           r == c.req
           x == cmd[r]
           a == AnswerTo(dht[p], x)
           kv == [k \in Key |-> dht[Owner(Hash[k])][k]]
<1>1. /\ m.type = "DATA" /\ job[p] = NoJob /\ Owns(p, Hash[x.key])
      /\ rsp' = [rsp EXCEPT ![c] = a]
      /\ dht' = [dht EXCEPT ![p] = Stored(@, x)] /\ cmd' = cmd
  BY DEF HandleOwnRequest, Takes, Respond
<1>2. /\ c \in Conn /\ r \in Req /\ x \in Cmd /\ ClientConn(r) \in Conn
      /\ ClientConn(r).req = r
      /\ \A d \in Conn : d.req = r => rsp[d] = None
  BY <1>1, NotAnswered, ConnIs
<1>3. /\ x.key \in Key /\ x.op \in Op /\ x # None
      /\ dht \in [Peer -> [Key -> Value \cup {NoValue}]]
      /\ \A k \in Key : Hash[k] \in HashId
  BY <1>2, SentinelAssumption, RingAssumption DEF IInv, TypeOK, Cmd
<1>4. a \in Answer /\ a # None /\ a # Closed
  <2>1. a \in Answer
    BY <1>2, <1>3 DEF AnswerTo, Answer, Cmd, Op
  <2> QED
    BY <2>1, SentinelAssumption
<1>5. p = Owner(Hash[x.key]) /\ \A k \in Key : Owner(Hash[k]) \in Peer
  BY <1>1, <1>3, OwnerOwns
<1>6. a = Table!AnswerTo(kv, x)
  BY <1>3, <1>5 DEF AnswerTo, Table!AnswerTo
<1>7. [k \in Key |-> dht'[Owner(Hash[k])][k]] = Table!Effect(kv, x)
  <2>1. \A k \in Key : dht'[Owner(Hash[k])][k] =
           IF k = x.key THEN Stored(dht[p], x)[k] ELSE dht[Owner(Hash[k])][k]
    <3> SUFFICES ASSUME NEW k \in Key
                 PROVE  dht'[Owner(Hash[k])][k] =
                          IF k = x.key THEN Stored(dht[p], x)[k] ELSE dht[Owner(Hash[k])][k]
      OBVIOUS
    <3>1. CASE Owner(Hash[k]) # p
      BY <1>1, <1>3, <1>5, <3>1
    <3>2. CASE Owner(Hash[k]) = p
      <4>1. dht'[p] = Stored(dht[p], x) /\ dht[p] \in [Key -> Value \cup {NoValue}]
        BY <1>1, <1>3
      <4>2. k # x.key => Stored(dht[p], x)[k] = dht[p][k]
        BY <4>1 DEF Stored
      <4> QED
        BY <3>2, <4>1, <4>2
    <3> QED
      BY <3>1, <3>2
  <2>2. /\ x.op = "SET" => Stored(dht[p], x)[x.key] = x.val
        /\ x.op = "DEL" => Stored(dht[p], x)[x.key] = NoValue
        /\ x.op = "GET" => Stored(dht[p], x) = dht[p]
    BY <1>3 DEF Stored
  <2>3. CASE x.op = "SET"
    <3>1. Table!Effect(kv, x) = [kv EXCEPT ![x.key] = x.val]
      BY <2>3 DEF Table!Effect
    <3>2. \A k \in Key : dht'[Owner(Hash[k])][k] =
             IF k = x.key THEN x.val ELSE dht[Owner(Hash[k])][k]
      BY <1>3, <2>1, <2>2, <2>3
    <3> QED
      BY <1>3, <3>1, <3>2
  <2>4. CASE x.op = "DEL"
    <3>1. Table!Effect(kv, x) = [kv EXCEPT ![x.key] = NoValue]
      BY <2>4 DEF Table!Effect
    <3>2. \A k \in Key : dht'[Owner(Hash[k])][k] =
             IF k = x.key THEN NoValue ELSE dht[Owner(Hash[k])][k]
      BY <1>3, <2>1, <2>2, <2>4
    <3> QED
      BY <1>3, <3>1, <3>2
  <2>5. CASE x.op = "GET"
    <3>1. Table!Effect(kv, x) = kv
      BY <2>5 DEF Table!Effect
    <3>2. \A k \in Key : dht'[Owner(Hash[k])][k] = dht[Owner(Hash[k])][k]
      <4>1. Stored(dht[p], x)[x.key] = dht[Owner(Hash[x.key])][x.key]
        BY <1>5, <2>2, <2>5
      <4> QED
        BY <2>1, <4>1
    <3> QED
      BY <3>1, <3>2
  <2> QED
    BY <1>3, <2>3, <2>4, <2>5 DEF Op
<1> HIDE DEF a, kv
<1>8. \A d \in Conn : rsp'[d] = IF d = c THEN a ELSE rsp[d]
  BY <1>1, <1>2 DEF IInv, TypeOK
<1>9. Result(r) = None /\ Result(r)' = a
  <2>1. \A d \in Conn : d.req = r => rsp'[d] \in {None, Closed, a}
    BY <1>2, <1>8
  <2>2. rsp'[c] = a
    BY <1>2, <1>8
  <2> HIDE DEF c, r
  <2>3. c.req = r
    BY DEF c, r
  <2> QED
    BY <1>2, <1>4, <2>1, <2>2, <2>3, NoResult, TheResult, ResultIs
<1>10. \A q \in Req \ {r} : Result(q)' = Result(q)
  BY <1>8, SameResult, ResultIs
<1>11. [q \in Req |-> Result(q)]' = [[q \in Req |-> Result(q)] EXCEPT ![r] = a]
  BY <1>2, <1>9, <1>10
<1>12. \/ [q \in Req |-> rsp[ClientConn(q)]]' = [[q \in Req |-> rsp[ClientConn(q)]] EXCEPT ![r] = a]
       \/ [q \in Req |-> rsp[ClientConn(q)]]' = [q \in Req |-> rsp[ClientConn(q)]]
  <2>1. \A q \in Req : ClientConn(q) \in Conn /\ ClientConn(q).req = q
    BY DEF ClientConn, Conn
  <2>2. \A q \in Req \ {r} : rsp'[ClientConn(q)] = rsp[ClientConn(q)]
    BY <1>8, <2>1
  <2>3. rsp'[ClientConn(r)] = a \/ rsp'[ClientConn(r)] = rsp[ClientConn(r)]
    BY <1>2, <1>8
  <2> HIDE DEF r
  <2> QED
    BY <1>2, <2>2, <2>3
<1>13. /\ cmd[r] # None /\ [q \in Req |-> Result(q)][r] = None
       /\ [q \in Req |-> rsp[ClientConn(q)]][r] = None
  BY <1>2, <1>3, <1>9
<1> QED
  BY <1>1, <1>2, <1>6, <1>7, <1>9, <1>11, <1>12, <1>13 DEF Table!Execute, kv

\* What a loop's step does to the answers of a client: one more, for the
\* request in hand.
LEMMA RelayedTo ==
    ASSUME IInv, PlaceInv, NEW p \in Peer, job[p] # NoJob, NEW a,
           NEW c, c = Current(p),
           \A d \in Conn : rsp'[d] = IF d = c THEN a ELSE rsp[d]
    PROVE  /\ c \in Conn /\ c.req \in Req /\ cmd[c.req] # None
           /\ \A q \in Req : rsp'[ClientConn(q)] = IF q = c.req THEN a ELSE rsp[ClientConn(q)]
           /\ rsp[ClientConn(c.req)] = None
           /\ \A q \in Req \ {c.req} : Result(q)' = Result(q)
<1> DEFINE r == c.req
<1>1. /\ c \in Conn /\ c = ClientConn(r) /\ c.from = Client /\ cmd[r] # None
      /\ c # Onward(p)
  BY LoopFacts, SentinelAssumption
<1>2. r \in Req /\ rsp[c] = None
  BY <1>1, LoopFacts, ConnIs
<1>4. \A q \in Req : ClientConn(q) \in Conn /\ ClientConn(q).req = q
  BY DEF ClientConn, Conn
<1>5. /\ \A q \in Req \ {r} : rsp'[ClientConn(q)] = rsp[ClientConn(q)]
      /\ rsp'[ClientConn(r)] = a
  BY <1>1, <1>2, <1>4
<1>6. ASSUME NEW q \in Req \ {r} PROVE Result(q)' = Result(q)
  <2>1. \A d \in Conn : d.req = q => rsp'[d] = rsp[d]
    OBVIOUS
  <2>2. ResultIn(rsp', q) = ResultIn(rsp, q)
    BY <2>1, SameResult
  <2> QED
    BY <2>2, ResultIs
<1> QED
  BY <1>1, <1>2, <1>5, <1>6

\* A client is sent away only before its request has had an effect.
LEMMA ClosedIsRefuse ==
    ASSUME IInv, PlaceInv, NEW p \in Peer, ProxyNext(p), job[p].to \notin up,
           NEW c, c = Current(p)
    PROVE  c.req \in Req /\ Table!Refuse(c.req)
<1> DEFINE r == c.req
<1>1. /\ job[p] # NoJob /\ ~job[p].waiting
      /\ dht' = dht /\ cmd' = cmd
  BY DEF ProxyNext, Busy
<1>11. \A d \in Conn : rsp'[d] = IF d = c THEN Closed ELSE rsp[d]
  BY <1>1, LoopFacts DEF ProxyNext, Respond, IInv, TypeOK
<1>2. /\ r \in Req /\ rsp[ClientConn(r)] = None /\ cmd[r] # None
      /\ \A q \in Req : rsp'[ClientConn(q)] = IF q = r THEN Closed ELSE rsp[ClientConn(q)]
      /\ \A q \in Req \ {r} : Result(q)' = Result(q)
  BY <1>1, <1>11, RelayedTo
<1>3. \A d \in Conn : d.req = r => rsp[d] = None
  BY <1>1, LoopFacts
<1>4. \A d \in Conn : d.req = r => rsp[d] \in {None, Closed} /\ rsp'[d] \in {None, Closed}
  BY <1>2, <1>3, <1>11
<1>5. Result(r) = None /\ Result(r)' = None
  <2>1. ResultIn(rsp, r) = None /\ ResultIn(rsp', r) = None
    BY <1>4, NoResult
  <2> QED
    BY <2>1, ResultIs
<1> HIDE DEF r
<1>6. [q \in Req |-> Result(q)]' = [q \in Req |-> Result(q)]
  BY <1>2, <1>5
<1>7. [q \in Req |-> rsp[ClientConn(q)]]' = [[q \in Req |-> rsp[ClientConn(q)]] EXCEPT ![r] = Closed]
  BY <1>2
<1>8. /\ [q \in Req |-> Result(q)][r] = None /\ [q \in Req |-> rsp[ClientConn(q)]][r] = None
  BY <1>2, <1>5
<1> QED
  BY <1>1, <1>2, <1>6, <1>8, <1>7 DEF Table!Refuse, r

\* What is relayed is what the owner has answered.
LEMMA DoneIsReturn ==
    ASSUME IInv, PlaceInv, NEW p \in Peer, ProxyDone(p), NEW c, c = Current(p)
    PROVE  c.req \in Req /\ Table!Return(c.req)
<1> PICK a, e : a = rsp[Onward(p)] /\ e = Onward(p)
  OBVIOUS
<1> DEFINE r == c.req
<1>1. /\ job[p] # NoJob /\ a # None
      /\ dht' = dht /\ cmd' = cmd
  BY DEF ProxyDone, Busy
<1>11. \A d \in Conn : rsp'[d] = IF d = c THEN a ELSE rsp[d]
  BY <1>1, LoopFacts DEF ProxyDone, Respond, IInv, TypeOK
<1>2. /\ r \in Req /\ rsp[ClientConn(r)] = None /\ cmd[r] # None
      /\ \A q \in Req : rsp'[ClientConn(q)] = IF q = r THEN a ELSE rsp[ClientConn(q)]
      /\ \A q \in Req \ {r} : Result(q)' = Result(q)
  BY <1>1, <1>11, RelayedTo
<1>3. /\ \A d \in Conn : d.req = r /\ d # e => rsp[d] = None
      /\ e \in Conn /\ e.req = r /\ rsp[e] = a /\ a \in Answer
  BY <1>1, LoopFacts
<1>4. a # Closed
  BY <1>3, SentinelAssumption
<1>5. \A d \in Conn : d.req = r => rsp[d] \in {None, Closed, a} /\ rsp'[d] \in {None, Closed, a}
  BY <1>2, <1>3, <1>11
<1>6. rsp[e] = a /\ rsp'[e] = a
  BY <1>2, <1>3, <1>11
<1>7. Result(r) = a /\ Result(r)' = a
  <2>1. ResultIn(rsp, r) = a /\ ResultIn(rsp', r) = a
    BY <1>1, <1>3, <1>4, <1>5, <1>6, TheResult
  <2> QED
    BY <2>1, ResultIs
<1> HIDE DEF r
<1>8. [q \in Req |-> Result(q)]' = [q \in Req |-> Result(q)]
  BY <1>2, <1>7
<1>9. [q \in Req |-> rsp[ClientConn(q)]]' = [[q \in Req |-> rsp[ClientConn(q)]] EXCEPT ![r] = a]
  BY <1>2
<1>10. /\ [q \in Req |-> Result(q)][r] = a /\ [q \in Req |-> rsp[ClientConn(q)]][r] = None
  BY <1>2, <1>7
<1> QED
  BY <1>1, <1>2, <1>8, <1>10, <1>9 DEF Table!Return, r

\* Every step of the ring is a step of the table, or the table stays as it is.
LEMMA StepIsTableStep ==
    IInv /\ PlaceInv /\ [Next]_vars => [UNCHANGED mapped \/ Table!Next]_Table!vars
<1> SUFFICES ASSUME IInv, PlaceInv, [Next]_vars PROVE UNCHANGED mapped \/ Table!Next
  OBVIOUS
<1>1. ASSUME NEW r \in Req, NEW p \in Entry, NEW c \in Cmd, Issue(r, p, c)
      PROVE  Table!Next
  BY <1>1, IssueIsInvoke DEF Table!Next
<1>2. ASSUME NEW p \in Peer, NEW m \in inbox[p], HandleOwnRequest(p, m)
      PROVE  Table!Next
  <2>1. m.conn.req \in Req
    BY <1>2, NotAnswered DEF HandleOwnRequest, Takes
  <2> QED
    BY <1>2, <2>1, OwnIsExecute DEF Table!Next
<1>3. ASSUME NEW p \in Peer, NEW m \in inbox[p],
             ProxyToSucc(p, m) \/ LookUpPeer(p, m) \/ HandleLookup(p, m) \/ HandleReply(p, m)
      PROVE  UNCHANGED mapped
  BY <1>3 DEF ProxyToSucc, LookUpPeer, HandleLookup, HandleReply, mapped
<1>4. ASSUME NEW p \in Peer, ProxyNext(p) PROVE UNCHANGED mapped \/ Table!Next
  <2>3. CASE job[p].to \in up
    BY <1>4, <2>3 DEF ProxyNext, mapped
  <2>4. CASE job[p].to \notin up
    BY <1>4, <2>4, ClosedIsRefuse DEF Table!Next
  <2> QED
    BY <2>3, <2>4
<1>5. ASSUME NEW p \in Peer, ProxyDone(p) PROVE Table!Next
  BY <1>5, DoneIsReturn DEF Table!Next
<1>6. ASSUME NEW p \in Peer, Start(p) PROVE UNCHANGED mapped
  BY <1>6 DEF Start, mapped
<1>7. CASE UNCHANGED vars
  BY <1>7 DEF vars, mapped
<1> QED
  BY <1>1, <1>2, <1>3, <1>4, <1>5, <1>6, <1>7 DEF Next, Run, HandlePacket
-----------------------------------------------------------------------------
\* A request of a client is in one place at a time, and its answer comes
\* from there only: in an inbox, among the open requests of a peer, or in
\* the loop of handle_packet_ctrl that serves them (peer.c:127-262).
THEOREM OnePlaceEach == Spec => []PlaceInv
BY InitPlace, PlaceNext, Invariant, PTL DEF Spec

\* The ring is one table: every step of a peer executes one command on the
\* part of the table that counts, answers with its result, refuses a request
\* that has had no effect, or leaves the table alone.
THEOREM RingIsOneTable == Spec => RingImplementsTable
<1>1. IInv /\ PlaceInv /\ [Next]_vars => [UNCHANGED mapped \/ Table!Next]_Table!vars
  BY StepIsTableStep
<1> QED
  BY <1>1, InitTable, OnePlaceEach, Invariant, PTL DEF Spec, RingImplementsTable
=============================================================================
