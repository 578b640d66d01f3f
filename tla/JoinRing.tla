------------------------------ MODULE JoinRing ------------------------------
(* The peers of project 3: a Chord ring that peers join while it runs.     *)
(* pred and succ are pointers that start as NULL; JOIN, STABILIZE and      *)
(* NOTIFY packets set them, and a thread beside the poll loop sends a      *)
(* STABILIZE to the successor every two seconds.                           *)
(*                                                                         *)
(* The state is the membership; DynamicTable adds the keys.  Every packet  *)
(* arrives on a connection of its own, in no order; equal packets that     *)
(* wait at one peer are one packet, since handling it twice in a row       *)
(* changes nothing more.  One round of the thread is one step: what it     *)
(* shares with the poll loop is not part of this module.                   *)
EXTENDS Responsibility, FiniteSets

CONSTANTS
    Peer,       \* identifiers, all different
    Founder,    \* the peer started without a host to join
    Space,      \* size of the identifier circle (2^16 in the code)
    Contact,    \* peers the others are pointed at when they join
    Steps,      \* the distances a FINGER packet asks for (2^i in the code)
    Req,        \* requests of clients, which have lookups sent
    Setting,    \* the ways in which the ring is used
    NULL

ASSUME IdentifierAssumption ==
    /\ Space \in Nat /\ Peer \subseteq 0 .. Space - 1
    /\ Founder \in Peer /\ Contact \subseteq Peer
    /\ Steps \subseteq Nat
    /\ NULL \notin Peer \cup Req
    /\ Setting \subseteq [started : SUBSET Peer, fingers : SUBSET Peer,
                         overlap : BOOLEAN, prompt : BOOLEAN, asks : BOOLEAN]

HashId == 0 .. Space - 1

NodePkt == [type: {"JOIN", "STAB", "NTFY"}, node: Peer]
\* tag tells apart the lookups of different requests; the code has no such
\* field and no step reads it.
LookupPkt == [type: {"LKUP"}, hash: HashId, node: Peer, tag: Req \cup {NULL}]
ReplyPkt == [type: {"RPLY"}, hash: HashId, node: Peer, tag: Req \cup {NULL}]
Packet == NodePkt \cup LookupPkt \cup ReplyPkt \cup [type: {"FNGR"}]

VARIABLES
    phase,   \* "off", "joining" (JOIN sent, not listening), "up", "dead"
    pred,
    succ,
    inbox,   \* packets that have arrived at each peer
    fingers, \* peers that still get their FINGER packet
    setting  \* who is started and who is sent a FINGER packet;
             \* overlap = FALSE: whoever starts peers and sends FINGER
             \* packets waits until the ring has settled;
             \* prompt = TRUE: a peer is pointed at one that listens, and
             \* listens itself before its JOIN is handled;
             \* asks = TRUE: clients send requests for keys at any time

vars == <<phase, pred, succ, inbox, fingers, setting>>

Node(t, n) == [type |-> t, node |-> n]
Lkup(h, n, t) == [type |-> "LKUP", hash |-> h, node |-> n, tag |-> t]
Rply(h, n, t) == [type |-> "RPLY", hash |-> h, node |-> n, tag |-> t]
Fngr == [type |-> "FNGR"]

Init ==
    /\ phase = [p \in Peer |-> "off"]
    /\ pred = [p \in Peer |-> NULL]
    /\ succ = [p \in Peer |-> NULL]
    /\ inbox = [p \in Peer |-> {}]
    /\ setting \in Setting
    /\ fingers = setting.fingers

Owns(p, h) == pred[p] # NULL /\ PeerIsResponsibleP3(pred[p], p, h)

Member == {p \in Peer : phase[p] = "up"}

\* The first of the peers in M behind p on the circle.
NextOf(p, M) ==
    CHOOSE q \in M \ {p} :
       \A r \in M \ {p, q} : ~PeerIsResponsibleP3(p, q, r)

\* Everybody who listens knows both neighbours; a peer alone knows none.
Settled ==
    /\ \A p \in Peer : phase[p] # "joining"
    /\ IF Cardinality(Member) = 1
       THEN \A p \in Member : pred[p] = NULL /\ succ[p] = NULL
       ELSE \A p \in Member : /\ succ[p] = NextOf(p, Member)
                              /\ pred[succ[p]] = p

\* No packet that the stabilize threads have not sent is on its way.
Quiet == \A p \in Peer : \A m \in inbox[p] : m.type \in {"STAB", "NTFY"}

Calm == setting.overlap \/ (Settled /\ (setting.asks \/ Quiet))
-----------------------------------------------------------------------------
(* Sending.  connect succeeds when the other side listens; forward and its *)
(* callers ignore a failure.                                               *)

Taken(p, m) == [inbox EXCEPT ![p] = @ \ {m}]
SentTo(box, q, ms) ==
    IF phase[q] = "up" THEN [box EXCEPT ![q] = @ \cup ms] ELSE box

\* p's thread takes m off its connection.
Takes(p, m) == phase[p] = "up" /\ m \in inbox[p]

\* A NULL pointer is read, or SIGPIPE arrives: the process ends.
Die(p) ==
    /\ phase' = [phase EXCEPT ![p] = "dead"]
    /\ inbox' = [inbox EXCEPT ![p] = {}]
    /\ UNCHANGED <<pred, succ, fingers>>
-----------------------------------------------------------------------------
(* main                                                                    *)

\* The founder has nobody to join: it listens at once.
Found ==
    /\ phase[Founder] = "off"
    /\ phase' = [phase EXCEPT ![Founder] = "up"]
    /\ UNCHANGED <<pred, succ, inbox, fingers>>

\* join: the others send a JOIN to a peer of the ring before they listen.
\* Where that one does not listen, nothing is sent and nobody notices: the
\* peer goes on to listen with a ring of its own.
SendJoin(p, q) ==
    /\ p \in setting.started \ {Founder} /\ phase[p] = "off"
    /\ q \in Contact /\ Calm
    /\ phase[q] = "up" \/ (setting.overlap /\ ~setting.prompt)
    /\ phase' = [phase EXCEPT ![p] = "joining"]
    /\ inbox' = SentTo(inbox, q, {Node("JOIN", p)})
    /\ UNCHANGED <<pred, succ, fingers>>

\* server_setup
Listen(p) ==
    /\ phase[p] = "joining"
    /\ phase' = [phase EXCEPT ![p] = "up"]
    /\ UNCHANGED <<pred, succ, inbox, fingers>>

\* A client sends a FINGER packet.
AskFingers(p) ==
    /\ p \in fingers /\ phase[p] = "up" /\ Calm
    /\ inbox' = [inbox EXCEPT ![p] = @ \cup {Fngr}]
    /\ fingers' = fingers \ {p}
    /\ UNCHANGED <<phase, pred, succ>>
-----------------------------------------------------------------------------
(* handle_packet_ctrl: membership                                          *)

TakesJoin(p, m) ==
    /\ Takes(p, m) /\ m.type = "JOIN"
    /\ setting.prompt => phase[m.node] # "joining"

\* The second peer of the ring becomes both neighbours of the first.
JoinFirst(p, m) ==
    /\ TakesJoin(p, m)
    /\ pred[p] = NULL /\ succ[p] = NULL
    /\ pred' = [pred EXCEPT ![p] = m.node]
    /\ succ' = [succ EXCEPT ![p] = m.node]
    /\ inbox' = SentTo(Taken(p, m), m.node, {Node("NTFY", p)})
    /\ UNCHANGED <<phase, fingers>>

\* Mutant: whoever asks to join is taken as the predecessor.
JoinHereAnyone(p, m) ==
    /\ TakesJoin(p, m)
    /\ pred[p] # NULL
    /\ pred' = [pred EXCEPT ![p] = m.node]
    /\ inbox' = SentTo(Taken(p, m), m.node, {Node("NTFY", p)})
    /\ UNCHANGED <<phase, succ, fingers>>

\* A peer that lies in front of us becomes our predecessor and is told that
\* we are its successor.
JoinHere(p, m) ==
    /\ TakesJoin(p, m)
    /\ pred[p] # NULL /\ PeerIsResponsibleP3(pred[p], p, m.node)
    /\ pred' = [pred EXCEPT ![p] = m.node]
    /\ inbox' = SentTo(Taken(p, m), m.node, {Node("NTFY", p)})
    /\ UNCHANGED <<phase, succ, fingers>>

JoinForward(p, m) ==
    /\ TakesJoin(p, m)
    /\ pred[p] # NULL /\ ~PeerIsResponsibleP3(pred[p], p, m.node)
    /\ succ[p] # NULL
    /\ inbox' = SentTo(Taken(p, m), succ[p], {m})
    /\ UNCHANGED <<phase, pred, succ, fingers>>

\* pred->node_id or forward(succ, p) with a NULL pointer.
JoinCrash(p, m) ==
    /\ TakesJoin(p, m)
    /\ \/ pred[p] = NULL /\ succ[p] # NULL
       \/ /\ pred[p] # NULL /\ succ[p] = NULL
          /\ ~PeerIsResponsibleP3(pred[p], p, m.node)
    /\ Die(p)

\* The sender becomes the predecessor of a peer that has none, and is told
\* who the predecessor is, on its own connection.
HandleStab(p, m) ==
    /\ Takes(p, m) /\ m.type = "STAB"
    /\ LET n == IF pred[p] = NULL THEN m.node ELSE pred[p]
       IN /\ pred' = [pred EXCEPT ![p] = n]
          /\ inbox' = SentTo(Taken(p, m), m.node, {Node("NTFY", n)})
    /\ UNCHANGED <<phase, succ, fingers>>

\* Mutant: every NOTIFY is believed.
HandleNotifyAlways(p, m) ==
    /\ Takes(p, m) /\ m.type = "NTFY"
    /\ succ' = [succ EXCEPT ![p] = m.node]
    /\ inbox' = Taken(p, m)
    /\ UNCHANGED <<phase, pred, fingers>>

\* Mutant: the identifiers are compared in the wrong order.
HandleNotifySwapped(p, m) ==
    /\ Takes(p, m) /\ m.type = "NTFY"
    /\ succ' = [succ EXCEPT ![p] =
                  IF @ = NULL \/ PeerIsResponsibleP3(@, p, m.node)
                  THEN m.node ELSE @]
    /\ inbox' = Taken(p, m)
    /\ UNCHANGED <<phase, pred, fingers>>

\* Mutant: a peer that has a successor keeps it.
HandleNotifyOnce(p, m) ==
    /\ Takes(p, m) /\ m.type = "NTFY"
    /\ succ' = [succ EXCEPT ![p] = IF @ = NULL THEN m.node ELSE @]
    /\ inbox' = Taken(p, m)
    /\ UNCHANGED <<phase, pred, fingers>>

\* The successor is replaced by a peer that is closer.
HandleNotify(p, m) ==
    /\ Takes(p, m) /\ m.type = "NTFY"
    /\ succ' = [succ EXCEPT ![p] =
                  IF @ = NULL \/ PeerIsResponsibleP3(p, @, m.node)
                  THEN m.node ELSE @]
    /\ inbox' = Taken(p, m)
    /\ UNCHANGED <<phase, pred, fingers>>

\* Mutant: the thread does not ask whether there is a successor.
StabilizeUnchecked(p) ==
    /\ phase[p] = "up"
    /\ IF succ[p] # NULL /\ phase[succ[p]] = "up"
       THEN /\ inbox' = SentTo(inbox, succ[p], {Node("STAB", p)})
            /\ UNCHANGED <<phase, pred, succ, fingers>>
       ELSE Die(p)

\* stabilize: sending on a socket that could not be connected raises
\* SIGPIPE, which nobody handles.
Stabilize(p) ==
    /\ phase[p] = "up" /\ succ[p] # NULL
    /\ IF phase[succ[p]] = "up"
       THEN /\ inbox' = SentTo(inbox, succ[p], {Node("STAB", p)})
            /\ UNCHANGED <<phase, pred, succ, fingers>>
       ELSE Die(p)
-----------------------------------------------------------------------------
(* handle_packet_ctrl: lookups                                             *)

\* A FINGER packet (its hash is 0) starts a lookup for each distance; the
\* answers are not waited for.
HandleFinger(p, m) ==
    /\ Takes(p, m) /\ m.type = "FNGR"
    /\ IF succ[p] = NULL
       THEN Die(p)
       ELSE /\ inbox' = SentTo(Taken(p, m), succ[p],
                               {Lkup(d % Space, p, NULL) : d \in Steps})
            /\ UNCHANGED <<phase, pred, succ, fingers>>

\* Mutant: a peer that knows its successor to be responsible names itself.
LookupAnswerSelf(p, m) ==
    /\ Takes(p, m) /\ m.type = "LKUP" /\ pred[p] # NULL
    /\ \/ PeerIsResponsibleP3(pred[p], p, m.hash)
       \/ succ[p] # NULL /\ PeerIsResponsibleP3(p, succ[p], m.hash)
    /\ inbox' = SentTo(Taken(p, m), m.node, {Rply(m.hash, p, m.tag)})
    /\ UNCHANGED <<phase, pred, succ, fingers>>

\* The peer to name is this one or its successor.
LookupAnswer(p, m) ==
    /\ Takes(p, m) /\ m.type = "LKUP" /\ pred[p] # NULL
    /\ \E n \in {p, succ[p]} \ {NULL} :
         /\ IF n = p THEN Owns(p, m.hash)
            ELSE ~Owns(p, m.hash) /\ PeerIsResponsibleP3(p, n, m.hash)
         /\ inbox' = SentTo(Taken(p, m), m.node, {Rply(m.hash, n, m.tag)})
    /\ UNCHANGED <<phase, pred, succ, fingers>>

LookupForward(p, m) ==
    /\ Takes(p, m) /\ m.type = "LKUP"
    /\ pred[p] # NULL /\ succ[p] # NULL
    /\ ~Owns(p, m.hash) /\ ~PeerIsResponsibleP3(p, succ[p], m.hash)
    /\ inbox' = SentTo(Taken(p, m), succ[p], {m})
    /\ UNCHANGED <<phase, pred, succ, fingers>>

LookupCrash(p, m) ==
    /\ Takes(p, m) /\ m.type = "LKUP"
    /\ pred[p] = NULL \/ (succ[p] = NULL /\ ~Owns(p, m.hash))
    /\ Die(p)

\* The loop over the open requests of the hash, where there are none.
HandleReply(p, m) ==
    /\ Takes(p, m) /\ m.type = "RPLY"
    /\ inbox' = Taken(p, m)
    /\ UNCHANGED <<phase, pred, succ, fingers>>
-----------------------------------------------------------------------------
HandlePacketCtrl(p, m) ==
    \/ JoinFirst(p, m)
    \/ JoinHere(p, m)
    \/ JoinForward(p, m)
    \/ JoinCrash(p, m)
    \/ HandleStab(p, m)
    \/ HandleNotify(p, m)
    \/ HandleFinger(p, m)
    \/ LookupAnswer(p, m)
    \/ LookupForward(p, m)
    \/ LookupCrash(p, m)
    \/ HandleReply(p, m)

Step ==
    \/ Found
    \/ \E p, q \in Peer : SendJoin(p, q)
    \/ \E p \in Peer : Listen(p) \/ AskFingers(p) \/ Stabilize(p)
    \/ \E p \in Peer : \E m \in inbox[p] : HandlePacketCtrl(p, m)

Next == Step /\ UNCHANGED setting

Spec == Init /\ [][Next]_vars

\* Started peers come to listen, the poll loop serves every connection that
\* is readable, and the threads go on sending.  No property needs the
\* lookups to be served.
FairSpec ==
    /\ Spec
    /\ \A p \in Peer : /\ WF_vars(Listen(p) /\ UNCHANGED setting)
                       /\ WF_vars(Stabilize(p) /\ UNCHANGED setting)
    /\ \A p \in Peer, m \in NodePkt :
         WF_vars(m \in inbox[p] /\ HandlePacketCtrl(p, m) /\ UNCHANGED setting)
-----------------------------------------------------------------------------
TypeOK ==
    /\ phase \in [Peer -> {"off", "joining", "up", "dead"}]
    /\ pred \in [Peer -> Peer \cup {NULL}]
    /\ succ \in [Peer -> Peer \cup {NULL}]
    /\ inbox \in [Peer -> SUBSET Packet]
    /\ fingers \subseteq Peer
    /\ setting \in Setting

AllAlive == \A p \in Peer : phase[p] # "dead"

\* What the theorems about peers that are started one at a time need of the
\* settings: a newcomer listens before its JOIN is handled, and nobody sends
\* the founder, while it is alone, a FINGER packet.
OrderlySettings ==
    \A s \in Setting : ~s.overlap => s.prompt /\ Founder \notin s.fingers

\* One peer is started at a time, and no client asks for keys meanwhile.
Undisturbed == ~setting.overlap /\ ~setting.asks

\* No peer ever ends then by a NULL pointer or a broken connection.
NoCrash == Undisturbed => AllAlive

\* A peer that was to join has ended before it knew a neighbour.  Its JOIN
\* may still be on its way when the next peer is started, and two JOINs at a
\* time can make a newcomer the first peer of a ring of its own.
EndedEarly ==
    \E p \in Peer \ {Founder} : phase[p] = "dead" /\ pred[p] = NULL /\ succ[p] = NULL

\* Where one peer is started at a time, no hash is claimed by two peers, even
\* if a request of a client ends some of them, unless it ends a newcomer.
AtMostOneOwner == ~setting.overlap /\ ~EndedEarly =>
    \A h \in HashId, p, q \in Peer : Owns(p, h) /\ Owns(q, h) => p = q

\* However joins overlap, no peer takes itself for a neighbour: then it
\* would send a lookup or proxy a request to itself, and wait for itself.
NoSelfLoop == \A p \in Peer : p # pred[p] /\ p # succ[p]

\* The pointers of peer.c are well formed at every moment.
WellFormed == TypeOK /\ NoSelfLoop

\* Sets of peers that the successors do not lead out of.
ClosedSets ==
    {S \in (SUBSET Peer) \ {{}} : \A p \in S : succ[p] \in S}

\* While nothing disturbs the ring there is never more than one circle of
\* successors, and it visits its peers in the order of their identifiers;
\* whoever is not on it leads to it.  So a lookup that runs along the
\* successors passes every peer of the circle once.  (The peers of a single
\* circle are those that are in every closed set.)
OneOrderedRing ==
    LET closed == ClosedSets
        onRing == {p \in Peer : \A S \in closed : p \in S}
    IN Undisturbed /\ closed # {} =>
         /\ \A S, T \in closed : S \cap T # {}
         /\ \A p \in onRing : \A q \in onRing \ {p, succ[p]} :
              ~PeerIsResponsibleP3(p, succ[p], q)

\* A REPLY on its way then names the peer that is responsible for its hash.
\* ("Lookup the peer responsible for a hash_id.", peer.c:80)
RepliesNameOwner == Undisturbed =>
    \A q \in Peer : \A m \in inbox[q] :
       m.type = "RPLY" => Owns(m.node, m.hash)

\* After a peer has been started, the ring comes to rest with everybody who
\* listens in the place of its identifier (unless it has crashed).
Converges ==
    \A p \in Peer :
       phase[p] = "joining" ~> (phase[p] = "up" /\ Settled) \/ ~AllAlive
=============================================================================
