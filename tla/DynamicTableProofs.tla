------------------------- MODULE DynamicTableProofs -------------------------
(* JoinRing and DynamicTable for every circle of identifiers, every number *)
(* of peers and requests and every way in which peers are started: first   *)
(* what concerns the ring, then the requests for keys.                     *)
EXTENDS DynamicTable, Integers, FiniteSetTheorems, WellFoundedInduction, TLAPS
-----------------------------------------------------------------------------
(* The ring.                                                               *)

NodeKind == {"JOIN", "STAB", "NTFY"}

\* A JOIN, STABILIZE or NOTIFY about x waits at p.
Has(p, t, x) == Node(t, x) \in inbox[p]
-----------------------------------------------------------------------------
(* Packets and how they are sent                                           *)

Inboxes == [Peer -> SUBSET Packet]

\* The fields of a packet of each type.
LEMMA PacketFields ==
    ASSUME NEW m \in Packet
    PROVE  /\ m.type \in NodeKind => m.node \in Peer /\ m = Node(m.type, m.node)
           /\ m.type = "LKUP" => /\ m.hash \in HashId /\ m.node \in Peer
                                 /\ m.tag \in Req \cup {NULL}
           /\ m.type = "RPLY" => /\ m.hash \in HashId /\ m.node \in Peer
                                 /\ m.tag \in Req \cup {NULL}
           /\ m.type \in NodeKind \cup {"LKUP", "RPLY", "FNGR"}
BY DEF Packet, NodePkt, LookupPkt, ReplyPkt, Node, NodeKind

\* What the senders build are packets.
LEMMA PacketsBuilt ==
    ASSUME NEW p \in Peer
    PROVE  /\ \A t \in NodeKind : Node(t, p) \in Packet
           /\ \A h \in HashId, t \in Req \cup {NULL} :
                 Lkup(h, p, t) \in Packet /\ Rply(h, p, t) \in Packet
           /\ Fngr \in Packet
BY DEF Packet, NodePkt, LookupPkt, ReplyPkt, Node, Lkup, Rply, Fngr, NodeKind

LEMMA NodeIs ==
    ASSUME NEW t, NEW x, NEW u, NEW y
    PROVE  /\ Node(t, x) = Node(u, y) <=> t = u /\ x = y
           /\ Node(t, x).type = t /\ Node(t, x).node = x
BY DEF Node

\* Sending to one peer.
LEMMA SentIs ==
    ASSUME NEW box \in Inboxes, NEW q \in Peer, NEW ms \in SUBSET Packet
    PROVE  /\ SentTo(box, q, ms) \in Inboxes
           /\ \A p \in Peer : \A m :
                 m \in SentTo(box, q, ms)[p] <=>
                    m \in box[p] \/ (p = q /\ phase[q] = "up" /\ m \in ms)
BY DEF SentTo, Inboxes

LEMMA TakenIs ==
    ASSUME inbox \in Inboxes, NEW p \in Peer, NEW m
    PROVE  /\ Taken(p, m) \in Inboxes
           /\ \A q \in Peer : \A n :
                 n \in Taken(p, m)[q] <=> n \in inbox[q] /\ ~(q = p /\ n = m)
BY DEF Taken, Inboxes
-----------------------------------------------------------------------------
(* What the steps do to the packets that are about peers                   *)

SameMail == \A r \in Peer, v \in NodeKind, z \in Peer : Has(r, v, z)' <=> Has(r, v, z)

Sent(q, u, y) == \A r \in Peer, v \in NodeKind, z \in Peer :
    Has(r, v, z)' <=> Has(r, v, z) \/ (r = q /\ v = u /\ z = y)

Took(p, t, x) == \A r \in Peer, v \in NodeKind, z \in Peer :
    Has(r, v, z)' <=> Has(r, v, z) /\ ~(r = p /\ v = t /\ z = x)

\* A packet is taken, and one is sent that arrives if q listens.
Moved(p, t, x, q, u, y) == \A r \in Peer, v \in NodeKind, z \in Peer :
    Has(r, v, z)' <=> \/ Has(r, v, z) /\ ~(r = p /\ v = t /\ z = x)
                      \/ phase[q] = "up" /\ r = q /\ v = u /\ z = y

Cleared(p) == \A r \in Peer, v \in NodeKind, z \in Peer :
    Has(r, v, z)' <=> Has(r, v, z) /\ r # p

Founds ==
    /\ phase[Founder] = "off" /\ phase' = [phase EXCEPT ![Founder] = "up"]
    /\ UNCHANGED <<pred, succ>> /\ SameMail

Starts(n, q) ==
    /\ n # Founder /\ phase[n] = "off" /\ phase[q] = "up" /\ Calm
    /\ phase' = [phase EXCEPT ![n] = "joining"]
    /\ UNCHANGED <<pred, succ>> /\ Sent(q, "JOIN", n)

\* A peer is started whose JOIN reaches nobody.
StartsAlone(n) ==
    /\ n # Founder /\ phase[n] = "off" /\ setting.overlap
    /\ phase' = [phase EXCEPT ![n] = "joining"]
    /\ UNCHANGED <<pred, succ>> /\ SameMail

Listens(p) ==
    /\ phase[p] = "joining" /\ phase' = [phase EXCEPT ![p] = "up"]
    /\ UNCHANGED <<pred, succ>> /\ SameMail

Idles == UNCHANGED <<phase, pred, succ>> /\ SameMail

Stabilizes(p) ==
    /\ phase[p] = "up" /\ succ[p] \in Peer /\ phase[succ[p]] = "up"
    /\ UNCHANGED <<phase, pred, succ>> /\ Sent(succ[p], "STAB", p)

Ends(p) ==
    /\ phase[p] = "up"
    /\ pred[p] = NULL \/ succ[p] = NULL \/ phase[succ[p]] # "up"
    /\ phase' = [phase EXCEPT ![p] = "dead"]
    /\ UNCHANGED <<pred, succ>> /\ Cleared(p)

Joins(p, n) ==
    /\ phase[p] = "up" /\ Has(p, "JOIN", n)
    /\ setting.prompt => phase[n] # "joining"
    /\ UNCHANGED phase

JoinsFirst(p, n) ==
    /\ Joins(p, n) /\ pred[p] = NULL /\ succ[p] = NULL
    /\ pred' = [pred EXCEPT ![p] = n] /\ succ' = [succ EXCEPT ![p] = n]
    /\ Moved(p, "JOIN", n, n, "NTFY", p)

JoinsHere(p, n) ==
    /\ Joins(p, n) /\ pred[p] # NULL /\ PeerIsResponsibleP3(pred[p], p, n)
    /\ pred' = [pred EXCEPT ![p] = n] /\ UNCHANGED succ
    /\ Moved(p, "JOIN", n, n, "NTFY", p)

JoinsOnward(p, n) ==
    /\ Joins(p, n) /\ pred[p] # NULL /\ ~PeerIsResponsibleP3(pred[p], p, n)
    /\ succ[p] \in Peer /\ UNCHANGED <<pred, succ>>
    /\ Moved(p, "JOIN", n, succ[p], "JOIN", n)

TellsPred(p, x) ==
    /\ phase[p] = "up" /\ Has(p, "STAB", x) /\ UNCHANGED <<phase, succ>>
    /\ \E n \in Peer : /\ n = IF pred[p] = NULL THEN x ELSE pred[p]
                       /\ pred' = [pred EXCEPT ![p] = n]
                       /\ Moved(p, "STAB", x, x, "NTFY", n)

Learns(p, x) ==
    /\ phase[p] = "up" /\ Has(p, "NTFY", x) /\ UNCHANGED <<phase, pred>>
    /\ succ' = [succ EXCEPT ![p] =
                  IF @ = NULL \/ PeerIsResponsibleP3(p, @, x) THEN x ELSE @]
    /\ Took(p, "NTFY", x)

Effect ==
    \/ Founds \/ Idles
    \/ \E p, n \in Peer :
          \/ Starts(n, p) \/ StartsAlone(n) \/ Listens(p) \/ Stabilizes(p) \/ Ends(p)
          \/ JoinsFirst(p, n) \/ JoinsHere(p, n) \/ JoinsOnward(p, n)
          \/ TellsPred(p, n) \/ Learns(p, n)

\* Packets of other kinds are none about peers.
LEMMA OtherMail ==
    ASSUME NEW p \in Peer, NEW t, t \notin NodeKind, NEW m, m.type = t,
           NEW v \in NodeKind, NEW z
    PROVE  Node(v, z) # m
BY NodeIs

\* Taking a packet and sending others.
LEMMA TakeAndSend ==
    ASSUME inbox \in Inboxes, NEW p \in Peer, NEW q \in Peer,
           NEW m \in Packet, NEW ms \in SUBSET Packet,
           inbox' = SentTo(Taken(p, m), q, ms)
    PROVE  /\ inbox' \in Inboxes
           /\ \A r \in Peer : \A n : n \in inbox'[r] <=>
                 \/ n \in inbox[r] /\ ~(r = p /\ n = m)
                 \/ phase[q] = "up" /\ r = q /\ n \in ms
BY DEF SentTo, Taken, Inboxes

LEMMA TakeIsTook ==
    ASSUME inbox \in Inboxes, NEW p \in Peer, NEW t, NEW x, inbox' = Taken(p, Node(t, x))
    PROVE  inbox' \in Inboxes /\ Took(p, t, x)
<1>1. \A r \in Peer : \A n : n \in inbox'[r] <=> n \in inbox[r] /\ ~(r = p /\ n = Node(t, x))
  BY TakenIs
<1> QED
  BY <1>1, TakenIs, NodeIs DEF Took, Has

\* A handler that takes one packet about a peer and sends another.
LEMMA MovedIs ==
    ASSUME inbox \in Inboxes, NEW p \in Peer, NEW q \in Peer,
           NEW t \in NodeKind, NEW x \in Peer, NEW u \in NodeKind, NEW y \in Peer,
           inbox' = SentTo(Taken(p, Node(t, x)), q, {Node(u, y)})
    PROVE  inbox' \in Inboxes /\ Moved(p, t, x, q, u, y)
<1>1. /\ inbox' \in Inboxes
      /\ \A r \in Peer : \A n : n \in inbox'[r] <=>
            \/ n \in inbox[r] /\ ~(r = p /\ n = Node(t, x))
            \/ phase[q] = "up" /\ r = q /\ n \in {Node(u, y)}
  <2>1. Node(t, x) \in Packet /\ {Node(u, y)} \in SUBSET Packet
    BY PacketsBuilt
  <2> QED
    BY <2>1 DEF SentTo, Taken, Inboxes
<1> QED
  BY <1>1, NodeIs DEF Moved, Has

\* A handler of a packet that is not about peers, and sends none.
LEMMA OtherTaken ==
    ASSUME inbox \in Inboxes, NEW p \in Peer, NEW q \in Peer,
           NEW m \in Packet, m.type \notin NodeKind,
           NEW ms \in SUBSET Packet, \A n \in ms : n.type \notin NodeKind,
           inbox' = SentTo(Taken(p, m), q, ms)
    PROVE  inbox' \in Inboxes /\ SameMail
<1>1. /\ inbox' \in Inboxes
      /\ \A r \in Peer : \A n : n \in inbox'[r] <=>
            \/ n \in inbox[r] /\ ~(r = p /\ n = m)
            \/ phase[q] = "up" /\ r = q /\ n \in ms
  BY TakeAndSend
<1>2. \A v \in NodeKind : \A z : Node(v, z) # m /\ Node(v, z) \notin ms
  BY NodeIs
<1> QED
  BY <1>1, <1>2 DEF SameMail, Has

LEMMA SentNode ==
    ASSUME inbox \in Inboxes, NEW q \in Peer, phase[q] = "up",
           NEW u \in NodeKind, NEW y \in Peer,
           inbox' = SentTo(inbox, q, {Node(u, y)})
    PROVE  inbox' \in Inboxes /\ Sent(q, u, y)
<1>1. {Node(u, y)} \in SUBSET Packet
  BY PacketsBuilt
<1>2. /\ SentTo(inbox, q, {Node(u, y)}) \in Inboxes
      /\ \A p \in Peer : \A m :
            m \in SentTo(inbox, q, {Node(u, y)})[p] <=>
               m \in inbox[p] \/ (p = q /\ phase[q] = "up" /\ m \in {Node(u, y)})
  BY <1>1, SentIs
<1> QED
  BY <1>2, NodeIs DEF Sent, Has

\* The types without the settings.
Typed ==
    /\ phase \in [Peer -> {"off", "joining", "up", "dead"}]
    /\ pred \in [Peer -> Peer \cup {NULL}]
    /\ succ \in [Peer -> Peer \cup {NULL}]
    /\ inbox \in Inboxes

\* A process that ends.
LEMMA DieIs ==
    ASSUME Typed, NEW p \in Peer, phase[p] = "up", Die(p),
           pred[p] = NULL \/ succ[p] = NULL \/ phase[succ[p]] # "up"
    PROVE  Typed' /\ Ends(p)
<1>1. inbox' \in Inboxes /\ Cleared(p)
  BY DEF Typed, Die, Inboxes, Cleared, Has
<1> QED
  BY <1>1 DEF Typed, Die, Ends
-----------------------------------------------------------------------------
(* Each step of a peer has one of these effects                            *)

LEMMA SpaceIs == Space \in Nat \ {0} /\ Peer \subseteq HashId /\ HashId \subseteq Nat
BY IdentifierAssumption DEF HashId

LEMMA StartEffect ==
    ASSUME Typed, NEW n \in Peer, NEW q \in Peer, SendJoin(n, q)
    PROVE  Typed' /\ (Starts(n, q) \/ StartsAlone(n))
<1>1. /\ n # Founder /\ phase[n] = "off" /\ Calm
      /\ phase' = [phase EXCEPT ![n] = "joining"] /\ UNCHANGED <<pred, succ>>
      /\ inbox' = SentTo(inbox, q, {Node("JOIN", n)})
      /\ phase[q] = "up" \/ setting.overlap
  BY DEF SendJoin
<1>2. CASE phase[q] = "up"
  <2>1. inbox' \in Inboxes /\ Sent(q, "JOIN", n)
    BY <1>1, <1>2, SentNode DEF Typed, NodeKind
  <2> QED
    BY <1>1, <1>2, <2>1 DEF Typed, Starts
<1>3. CASE phase[q] # "up"
  <2>1. inbox' = inbox
    BY <1>1, <1>3 DEF SentTo
  <2> QED
    BY <1>1, <1>3, <2>1 DEF Typed, StartsAlone, SameMail, Has
<1> QED
  BY <1>2, <1>3

LEMMA FirstEffect ==
    ASSUME Typed, NEW p \in Peer, NEW m \in inbox[p],
           JoinFirst(p, m) \/ JoinHere(p, m) \/ JoinForward(p, m)
    PROVE  /\ Typed'
           /\ \E n \in Peer : JoinsFirst(p, n) \/ JoinsHere(p, n) \/ JoinsOnward(p, n)
<1>1. /\ m \in Packet /\ m.type = "JOIN" /\ phase[p] = "up"
      /\ setting.prompt => phase[m.node] # "joining"
  BY DEF Typed, Inboxes, JoinFirst, JoinHere, JoinForward, TakesJoin, Takes
<1>2. PICK n \in Peer : n = m.node /\ m = Node("JOIN", n)
  BY <1>1, PacketFields DEF NodeKind
<1>3. Joins(p, n) <=> UNCHANGED phase
  BY <1>1, <1>2 DEF Joins, Has
<1>4. CASE JoinFirst(p, m)
  <2>1. inbox' = SentTo(Taken(p, Node("JOIN", n)), n, {Node("NTFY", p)})
    BY <1>2, <1>4 DEF JoinFirst
  <2>2. inbox' \in Inboxes /\ Moved(p, "JOIN", n, n, "NTFY", p)
    BY <2>1, MovedIs DEF Typed, NodeKind
  <2>3. Typed' /\ JoinsFirst(p, n)
    BY <1>2, <1>3, <1>4, <2>2 DEF Typed, JoinFirst, JoinsFirst
  <2> QED
    BY <2>3
<1>5. CASE JoinHere(p, m)
  <2>1. inbox' = SentTo(Taken(p, Node("JOIN", n)), n, {Node("NTFY", p)})
    BY <1>2, <1>5 DEF JoinHere
  <2>2. inbox' \in Inboxes /\ Moved(p, "JOIN", n, n, "NTFY", p)
    BY <2>1, MovedIs DEF Typed, NodeKind
  <2>3. Typed' /\ JoinsHere(p, n)
    BY <1>2, <1>3, <1>5, <2>2 DEF Typed, JoinHere, JoinsHere
  <2> QED
    BY <2>3
<1>6. CASE JoinForward(p, m)
  <2>1. /\ inbox' = SentTo(Taken(p, Node("JOIN", n)), succ[p], {Node("JOIN", n)})
        /\ succ[p] \in Peer
    BY <1>2, <1>6 DEF JoinForward, Typed
  <2>2. inbox' \in Inboxes /\ Moved(p, "JOIN", n, succ[p], "JOIN", n)
    BY <2>1, MovedIs DEF Typed, NodeKind
  <2>3. Typed' /\ JoinsOnward(p, n)
    BY <1>2, <1>3, <1>6, <2>1, <2>2 DEF Typed, JoinForward, JoinsOnward
  <2> QED
    BY <2>3
<1> QED
  BY <1>4, <1>5, <1>6

LEMMA StabEffect ==
    ASSUME Typed, NEW p \in Peer, NEW m \in inbox[p], HandleStab(p, m)
    PROVE  Typed' /\ \E x \in Peer : TellsPred(p, x)
<1>1. m \in Packet /\ m.type = "STAB" /\ phase[p] = "up"
  BY DEF Typed, Inboxes, HandleStab, Takes
<1>2. PICK x \in Peer : x = m.node /\ m = Node("STAB", x)
  BY <1>1, PacketFields DEF NodeKind
<1>3. PICK n \in Peer : n = IF pred[p] = NULL THEN x ELSE pred[p]
  BY DEF Typed
<1>4. /\ pred' = [pred EXCEPT ![p] = n] /\ UNCHANGED <<phase, succ>>
      /\ inbox' = SentTo(Taken(p, Node("STAB", x)), x, {Node("NTFY", n)})
  BY <1>2, <1>3 DEF HandleStab
<1>5. inbox' \in Inboxes /\ Moved(p, "STAB", x, x, "NTFY", n)
  BY <1>4, MovedIs DEF Typed, NodeKind
<1>6. TellsPred(p, x)
  BY <1>1, <1>2, <1>3, <1>4, <1>5 DEF TellsPred, Has
<1> QED
  BY <1>4, <1>5, <1>6 DEF Typed

LEMMA NotifyEffect ==
    ASSUME Typed, NEW p \in Peer, NEW m \in inbox[p], HandleNotify(p, m)
    PROVE  Typed' /\ \E x \in Peer : Learns(p, x)
<1>1. m \in Packet /\ m.type = "NTFY" /\ phase[p] = "up"
  BY DEF Typed, Inboxes, HandleNotify, Takes
<1>2. PICK x \in Peer : x = m.node /\ m = Node("NTFY", x)
  BY <1>1, PacketFields DEF NodeKind
<1>3. /\ inbox' = Taken(p, Node("NTFY", x)) /\ UNCHANGED <<phase, pred>>
      /\ succ' = [succ EXCEPT ![p] =
                    IF @ = NULL \/ PeerIsResponsibleP3(p, @, x) THEN x ELSE @]
  BY <1>2 DEF HandleNotify
<1>4. inbox' \in Inboxes /\ Took(p, "NTFY", x)
  BY <1>3, TakeIsTook DEF Typed
<1>5. Learns(p, x)
  BY <1>1, <1>2, <1>3, <1>4 DEF Learns, Has
<1> QED
  BY <1>3, <1>4, <1>5 DEF Typed

LEMMA StabilizeEffect ==
    ASSUME Typed, NEW p \in Peer, Stabilize(p)
    PROVE  Typed' /\ (Stabilizes(p) \/ Ends(p))
<1>1. phase[p] = "up" /\ succ[p] \in Peer
  BY DEF Stabilize, Typed
<1>2. CASE phase[succ[p]] = "up"
  <2>1. /\ inbox' = SentTo(inbox, succ[p], {Node("STAB", p)})
        /\ UNCHANGED <<phase, pred, succ>>
    BY <1>2 DEF Stabilize
  <2>2. inbox' \in Inboxes /\ Sent(succ[p], "STAB", p)
    BY <1>1, <1>2, <2>1, SentNode DEF Typed, NodeKind
  <2> QED
    BY <1>1, <1>2, <2>1, <2>2 DEF Typed, Stabilizes
<1>3. CASE phase[succ[p]] # "up"
  BY <1>1, <1>3, DieIs DEF Stabilize
<1> QED
  BY <1>2, <1>3

LEMMA FingerEffect ==
    ASSUME Typed, NEW p \in Peer, NEW m \in inbox[p], HandleFinger(p, m)
    PROVE  Typed' /\ (Idles \/ Ends(p))
<1>1. m \in Packet /\ m.type = "FNGR" /\ phase[p] = "up"
  BY DEF Typed, Inboxes, HandleFinger, Takes
<1>2. CASE succ[p] = NULL
  BY <1>1, <1>2, DieIs DEF HandleFinger
<1>3. CASE succ[p] # NULL
  <2>1. PICK ms : ms = {Lkup(d % Space, p, NULL) : d \in Steps}
    OBVIOUS
  <2>2. \A d \in Steps : d % Space \in HashId
    BY SpaceIs, IdentifierAssumption DEF HashId
  <2>3. ms \in SUBSET Packet /\ \A n \in ms : n.type \notin NodeKind
    BY <2>1, <2>2, PacketsBuilt DEF Lkup, NodeKind
  <2>4. /\ inbox' = SentTo(Taken(p, m), succ[p], ms) /\ succ[p] \in Peer
        /\ UNCHANGED <<phase, pred, succ>>
    BY <1>3, <2>1 DEF HandleFinger, Typed
  <2>5. m.type \notin NodeKind
    BY <1>1 DEF NodeKind
  <2>6. inbox' \in Inboxes /\ SameMail
    BY <1>1, <2>3, <2>4, <2>5, OtherTaken DEF Typed
  <2> QED
    BY <2>4, <2>6 DEF Typed, Idles
<1> QED
  BY <1>2, <1>3

LEMMA LookupEffect ==
    ASSUME Typed, NEW p \in Peer, NEW m \in inbox[p],
           LookupAnswer(p, m) \/ LookupForward(p, m)
    PROVE  Typed' /\ Idles
<1>1. m \in Packet /\ m.type = "LKUP" /\ phase[p] = "up" /\ m.type \notin NodeKind
  BY DEF Typed, Inboxes, LookupAnswer, LookupForward, Takes, NodeKind
<1>2. PICK q \in Peer, n \in Packet :
         /\ n.type \in {"LKUP", "RPLY"}
         /\ inbox' = SentTo(Taken(p, m), q, {n}) /\ UNCHANGED <<phase, pred, succ>>
  <2>1. CASE LookupAnswer(p, m)
    <3>1. PICK n \in Peer : inbox' = SentTo(Taken(p, m), m.node, {Rply(m.hash, n, m.tag)})
      BY <2>1 DEF LookupAnswer, Typed
    <3>2. m.node \in Peer /\ Rply(m.hash, n, m.tag) \in Packet
      BY <1>1, PacketFields, PacketsBuilt
    <3>3. Rply(m.hash, n, m.tag).type = "RPLY"
      BY DEF Rply
    <3> QED
      BY <2>1, <3>1, <3>2, <3>3 DEF LookupAnswer
  <2>2. CASE LookupForward(p, m)
    BY <1>1, <2>2 DEF LookupForward, Typed
  <2> QED
    BY <2>1, <2>2
<1>3. {n} \in SUBSET Packet /\ \A k \in {n} : k.type \notin NodeKind
  BY <1>2 DEF NodeKind
<1>4. inbox' \in Inboxes /\ SameMail
  BY <1>1, <1>2, <1>3, OtherTaken DEF Typed
<1> QED
  BY <1>2, <1>4 DEF Typed, Idles

LEMMA OtherEffect ==
    ASSUME Typed, NEW p \in Peer, NEW m \in inbox[p],
           JoinCrash(p, m) \/ LookupCrash(p, m) \/ HandleReply(p, m)
    PROVE  Typed' /\ (Idles \/ Ends(p))
<1>1. CASE JoinCrash(p, m) \/ LookupCrash(p, m)
  BY <1>1, DieIs DEF JoinCrash, LookupCrash, TakesJoin, Takes
<1>2. CASE HandleReply(p, m)
  <2>1. m \in Packet /\ m.type \notin NodeKind
    BY <1>2 DEF Typed, Inboxes, HandleReply, Takes, NodeKind
  <2>2. inbox' = Taken(p, m) /\ UNCHANGED <<phase, pred, succ>>
    BY <1>2 DEF HandleReply
  <2>3. inbox' \in Inboxes
    BY <2>2, TakenIs DEF Typed
  <2>4. \A q \in Peer : \A n : n \in inbox'[q] <=> n \in inbox[q] /\ ~(q = p /\ n = m)
    BY <2>2, TakenIs DEF Typed
  <2>5. SameMail
    BY <2>1, <2>4, NodeIs DEF SameMail, Has
  <2> QED
    BY <2>2, <2>3, <2>5 DEF Typed, Idles
<1> QED
  BY <1>1, <1>2

LEMMA UserEffect ==
    ASSUME Typed, NEW p \in Peer
    PROVE  /\ Found => Typed' /\ Founds
           /\ Listen(p) => Typed' /\ Listens(p)
           /\ AskFingers(p) => Typed' /\ Idles
<1>1. ASSUME inbox' = inbox PROVE SameMail /\ (Typed => inbox' \in Inboxes)
  BY <1>1 DEF SameMail, Has, Typed
<1>2. ASSUME Found PROVE Typed' /\ Founds
  BY <1>1, <1>2 DEF Found, Founds, Typed
<1>3. ASSUME Listen(p) PROVE Typed' /\ Listens(p)
  BY <1>1, <1>3 DEF Listen, Listens, Typed
<1>4. ASSUME AskFingers(p) PROVE Typed' /\ Idles
  <2>1. inbox' = [inbox EXCEPT ![p] = @ \cup {Fngr}] /\ UNCHANGED <<phase, pred, succ>>
    BY <1>4 DEF AskFingers
  <2>2. Fngr \in Packet /\ \A v \in NodeKind : \A z : Node(v, z) # Fngr
    BY PacketsBuilt DEF Fngr, Node, NodeKind
  <2>3. inbox' \in Inboxes /\ SameMail
    BY <2>1, <2>2 DEF Typed, Inboxes, SameMail, Has
  <2> QED
    BY <2>1, <2>3 DEF Typed, Idles
<1> QED
  BY <1>2, <1>3, <1>4

\* The effects are all that the steps of the peers can do to each other.
LEMMA StepEffect ==
    ASSUME Typed, Step
    PROVE  Typed' /\ Effect
<1>1. CASE Found
  BY <1>1, UserEffect, IdentifierAssumption DEF Effect
<1>2. ASSUME NEW p \in Peer, NEW q \in Peer, SendJoin(p, q) PROVE Typed' /\ Effect
  BY <1>2, StartEffect DEF Effect
<1>3. ASSUME NEW p \in Peer, Listen(p) \/ AskFingers(p) \/ Stabilize(p)
      PROVE  Typed' /\ Effect
  BY <1>3, UserEffect, StabilizeEffect DEF Effect
<1>4. ASSUME NEW p \in Peer, NEW m \in inbox[p], HandlePacketCtrl(p, m)
      PROVE  Typed' /\ Effect
  <2>1. CASE JoinFirst(p, m) \/ JoinHere(p, m) \/ JoinForward(p, m)
    BY <1>4, <2>1, FirstEffect DEF Effect
  <2>2. CASE HandleStab(p, m)
    BY <1>4, <2>2, StabEffect DEF Effect
  <2>3. CASE HandleNotify(p, m)
    BY <1>4, <2>3, NotifyEffect DEF Effect
  <2>4. CASE HandleFinger(p, m)
    BY <1>4, <2>4, FingerEffect DEF Effect
  <2>5. CASE LookupAnswer(p, m) \/ LookupForward(p, m)
    BY <1>4, <2>5, LookupEffect DEF Effect
  <2>6. CASE JoinCrash(p, m) \/ LookupCrash(p, m) \/ HandleReply(p, m)
    BY <1>4, <2>6, OtherEffect DEF Effect
  <2> QED
    BY <1>4, <2>1, <2>2, <2>3, <2>4, <2>5, <2>6 DEF HandlePacketCtrl
<1> QED
  BY <1>1, <1>2, <1>3, <1>4 DEF Step
-----------------------------------------------------------------------------
(* However the joins overlap                                               *)

\* A peer that has not been started is unknown, and a JOIN is at one peer.
NotStarted ==
    /\ \A p \in Peer : phase[p] = "off" =>
          /\ pred[p] = NULL /\ succ[p] = NULL
          /\ \A t \in NodeKind, x \in Peer : ~Has(p, t, x)
    /\ \A p, q, x \in Peer : Has(p, "JOIN", x) =>
          phase[x] # "off" /\ (Has(q, "JOIN", x) => q = p)

\* The parts the ring consists of while JOINs are on their way: each has a
\* peer that it began with, and whoever knows each other is in the same part.
\* A JOIN is at a part that is older than the one its sender began, so no
\* JOIN comes back to its sender.
Parts(root, age) ==
    /\ \A p \in Peer : /\ pred[p] # NULL => root[pred[p]] = root[p]
                       /\ succ[p] # NULL => root[succ[p]] = root[p]
    /\ \A p, x \in Peer :
          /\ Has(p, "STAB", x) \/ Has(p, "NTFY", x) => root[x] = root[p]
          /\ Has(p, "JOIN", x) => root[x] = x /\ age[root[p]] < age[x]
    /\ \A p \in Peer : phase[p] = "off" => \A q \in Peer : root[q] = p <=> q = p

PartsInv == \E root \in [Peer -> Peer], age \in [Peer -> Nat] : Parts(root, age)

\* Nobody hears of itself but in answer to its own STABILIZE, when it has a
\* successor.
NoSelf ==
    /\ NoSelfLoop
    /\ \A p \in Peer : Has(p, "NTFY", p) => succ[p] # NULL
    /\ \A p, x \in Peer : Has(p, "STAB", x) => x # p /\ succ[x] # NULL

LoopInv == NotStarted /\ PartsInv /\ NoSelf

LEMMA NoNull == \A p \in Peer : p # NULL
BY IdentifierAssumption

\* A JOIN is never at its sender.
LEMMA JoinElsewhere ==
    ASSUME PartsInv, NEW p \in Peer, NEW n \in Peer, Has(p, "JOIN", n)
    PROVE  n # p
<1>1. PICK root \in [Peer -> Peer], age \in [Peer -> Nat] : Parts(root, age)
  BY DEF PartsInv
<1>2. root[n] = n /\ age[root[p]] < age[n]
  BY <1>1 DEF Parts
<1>3. age[n] \in Nat
  BY <1>1
<1> QED
  BY <1>2, <1>3

LEMMA NotStartedStep ==
    ASSUME Typed, NotStarted, Effect
    PROVE  NotStarted'
<1>1. CASE Founds \/ Idles
  BY <1>1, IdentifierAssumption DEF Founds, Idles, SameMail, NotStarted, Typed, NodeKind
<1>2. ASSUME NEW p \in Peer, NEW n \in Peer, Starts(n, p) PROVE NotStarted'
  BY <1>2 DEF Starts, Sent, NotStarted, Typed, NodeKind
<1>3. ASSUME NEW p \in Peer, Listens(p) \/ StartsAlone(p) PROVE NotStarted'
  BY <1>3 DEF Listens, StartsAlone, SameMail, NotStarted, Typed, NodeKind
<1>4. ASSUME NEW p \in Peer, Stabilizes(p) PROVE NotStarted'
  BY <1>4 DEF Stabilizes, Sent, NotStarted, Typed, NodeKind
<1>5. ASSUME NEW p \in Peer, Ends(p) PROVE NotStarted'
  BY <1>5 DEF Ends, Cleared, NotStarted, Typed, NodeKind
<1>6. ASSUME NEW p \in Peer, NEW n \in Peer, JoinsFirst(p, n) \/ JoinsHere(p, n) PROVE NotStarted'
  BY <1>6 DEF JoinsFirst, JoinsHere, Joins, Moved, NotStarted, Typed, NodeKind
<1>7. ASSUME NEW p \in Peer, NEW n \in Peer, JoinsOnward(p, n) PROVE NotStarted'
  BY <1>7 DEF JoinsOnward, Joins, Moved, NotStarted, Typed, NodeKind
<1>8. ASSUME NEW p \in Peer, NEW x \in Peer, TellsPred(p, x) PROVE NotStarted'
  BY <1>8 DEF TellsPred, Moved, NotStarted, Typed, NodeKind
<1>9. ASSUME NEW p \in Peer, NEW x \in Peer, Learns(p, x) PROVE NotStarted'
  BY <1>9 DEF Learns, Took, NotStarted, Typed, NodeKind
<1> QED
  BY <1>1, <1>2, <1>3, <1>4, <1>5, <1>6, <1>7, <1>8, <1>9 DEF Effect

LEMMA NoSelfStep ==
    ASSUME Typed, LoopInv, Effect
    PROVE  NoSelf'
<1>1. CASE Founds \/ Idles
  BY <1>1 DEF Founds, Idles, SameMail, LoopInv, NoSelf, NoSelfLoop, NodeKind
<1>2. ASSUME NEW p \in Peer, NEW n \in Peer, Starts(n, p) PROVE NoSelf'
  BY <1>2 DEF Starts, Sent, LoopInv, NoSelf, NoSelfLoop, NodeKind
<1>3. ASSUME NEW p \in Peer, Listens(p) \/ StartsAlone(p) PROVE NoSelf'
  BY <1>3 DEF Listens, StartsAlone, SameMail, LoopInv, NoSelf, NoSelfLoop, NodeKind
<1>4. ASSUME NEW p \in Peer, Stabilizes(p) PROVE NoSelf'
  BY <1>4, NoNull DEF Stabilizes, Sent, LoopInv, NoSelf, NoSelfLoop, NodeKind
<1>5. ASSUME NEW p \in Peer, Ends(p) PROVE NoSelf'
  BY <1>5 DEF Ends, Cleared, LoopInv, NoSelf, NoSelfLoop, NodeKind
<1>6. ASSUME NEW p \in Peer, NEW n \in Peer, JoinsFirst(p, n) \/ JoinsHere(p, n) PROVE NoSelf'
  <2>1. n # p
    BY <1>6, JoinElsewhere DEF LoopInv, JoinsFirst, JoinsHere, Joins
  <2> QED
    BY <1>6, <2>1, NoNull
    DEF JoinsFirst, JoinsHere, Joins, Moved, LoopInv, NoSelf, NoSelfLoop, Typed, NodeKind
<1>7. ASSUME NEW p \in Peer, NEW n \in Peer, JoinsOnward(p, n) PROVE NoSelf'
  BY <1>7 DEF JoinsOnward, Joins, Moved, LoopInv, NoSelf, NoSelfLoop, NodeKind
<1>8. ASSUME NEW p \in Peer, NEW x \in Peer, TellsPred(p, x) PROVE NoSelf'
  <2>1. x # p /\ succ[x] # NULL
    BY <1>8 DEF TellsPred, LoopInv, NoSelf
  <2> QED
    BY <1>8, <2>1 DEF TellsPred, Moved, LoopInv, NoSelf, NoSelfLoop, Typed, NodeKind
<1>9. ASSUME NEW p \in Peer, NEW x \in Peer, Learns(p, x) PROVE NoSelf'
  <2>1. x = p => ~(succ[p] = NULL \/ PeerIsResponsibleP3(p, succ[p], x))
    <3>1. x = p => succ[p] \in Peer
      BY <1>9 DEF Learns, LoopInv, NoSelf, Typed
    <3>2. \A a, b \in Peer : ~PeerIsResponsibleP3(a, b, a)
      BY SpaceIs DEF PeerIsResponsibleP3
    <3> QED
      BY <3>1, <3>2, NoNull
  <2>2. succ'[p] # p /\ succ'[p] # NULL /\ \A q \in Peer \ {p} : succ'[q] = succ[q]
    BY <1>9, <2>1, NoNull DEF Learns, LoopInv, NoSelf, NoSelfLoop, Typed
  <2> QED
    BY <1>9, <2>2 DEF Learns, Took, LoopInv, NoSelf, NoSelfLoop, NodeKind
<1> QED
  BY <1>1, <1>2, <1>3, <1>4, <1>5, <1>6, <1>7, <1>8, <1>9 DEF Effect

\* The part of a sender becomes part of the one that takes its JOIN.
LEMMA PartsMerge ==
    ASSUME Typed, NotStarted, NEW root \in [Peer -> Peer], NEW age \in [Peer -> Nat],
           Parts(root, age), NEW p \in Peer, NEW n \in Peer,
           JoinsFirst(p, n) \/ JoinsHere(p, n)
    PROVE  PartsInv'
<1> DEFINE new == [x \in Peer |-> IF root[x] = n THEN root[p] ELSE root[x]]
<1>1. /\ phase[p] = "up" /\ phase[n] # "off" /\ UNCHANGED phase
      /\ root[n] = n /\ age[root[p]] < age[n]
      /\ \A q \in Peer : Has(q, "JOIN", n) => q = p
  BY DEF JoinsFirst, JoinsHere, Joins, NotStarted, Parts
<1>2. new \in [Peer -> Peer] /\ new[p] = root[p] /\ new[n] = root[p]
  BY <1>1
<1>3. \A x, y \in Peer : root[x] = root[y] => new[x] = new[y]
  OBVIOUS
<1>4. \A q \in Peer : /\ pred'[q] # NULL => new[pred'[q]] = new[q]
                      /\ succ'[q] # NULL => new[succ'[q]] = new[q]
  <2>1. TAKE q \in Peer
  <2>2. \/ pred'[q] = pred[q]
        \/ q = p /\ pred'[q] = n
    BY DEF JoinsFirst, JoinsHere, Typed
  <2>3. \/ succ'[q] = succ[q]
        \/ q = p /\ succ'[q] = n
    BY DEF JoinsFirst, JoinsHere, Typed
  <2> QED
    BY <1>2, <1>3, <2>2, <2>3 DEF Parts, Typed
<1>5. Moved(p, "JOIN", n, n, "NTFY", p)
  BY DEF JoinsFirst, JoinsHere
<1>6. \A q, x \in Peer :
         /\ Has(q, "STAB", x)' \/ Has(q, "NTFY", x)' => new[x] = new[q]
         /\ Has(q, "JOIN", x)' => new[x] = x /\ age[new[q]] < age[x]
  <2>1. TAKE q \in Peer, x \in Peer
  <2>2. /\ Has(q, "STAB", x)' => Has(q, "STAB", x)
        /\ Has(q, "NTFY", x)' => Has(q, "NTFY", x) \/ (q = n /\ x = p)
        /\ Has(q, "JOIN", x)' => Has(q, "JOIN", x) /\ ~(q = p /\ x = n)
    BY <1>5 DEF Moved, NodeKind
  <2>3. Has(q, "STAB", x)' \/ Has(q, "NTFY", x)' => new[x] = new[q]
    BY <1>2, <1>3, <2>2 DEF Parts
  <2>4. ASSUME Has(q, "JOIN", x)' PROVE new[x] = x /\ age[new[q]] < age[x]
    <3>1. root[x] = x /\ x # n /\ age[root[q]] < age[x]
      BY <1>1, <2>2, <2>4 DEF Parts
    <3>2. age[new[q]] = age[root[q]] \/ (root[q] = n /\ age[new[q]] = age[root[p]])
      OBVIOUS
    <3>3. age[root[p]] \in Nat /\ age[n] \in Nat /\ age[x] \in Nat /\ age[root[q]] \in Nat
      OBVIOUS
    <3> QED
      BY <1>1, <3>1, <3>2, <3>3
  <2> QED
    BY <2>3, <2>4
<1>7. \A q \in Peer : phase'[q] = "off" => \A x \in Peer : new[x] = q <=> x = q
  BY <1>1 DEF Parts
<1>8. Parts(new, age)'
  BY <1>4, <1>6, <1>7 DEF Parts
<1> QED
  BY <1>2, <1>8 DEF PartsInv

\* A peer that is started is younger than the peer it sends its JOIN to.
LEMMA PartsStart ==
    ASSUME Typed, NotStarted, NEW root \in [Peer -> Peer], NEW age \in [Peer -> Nat],
           Parts(root, age), NEW p \in Peer, NEW n \in Peer, Starts(n, p)
    PROVE  PartsInv'
<1> DEFINE new == [age EXCEPT ![n] = age[root[p]] + 1]
<1>1. /\ phase[n] = "off" /\ phase[p] = "up" /\ n # p /\ root[n] = n
      /\ \A q \in Peer : root[q] = n => q = n
  BY DEF Starts, Parts
<1>2. new \in [Peer -> Nat] /\ root[p] # n
  BY <1>1
<1>3. \A q, x \in Peer :
         /\ Has(q, "STAB", x)' \/ Has(q, "NTFY", x)' => root[x] = root[q]
         /\ Has(q, "JOIN", x)' => root[x] = x /\ new[root[q]] < new[x]
  <2>1. TAKE q \in Peer, x \in Peer
  <2>2. /\ Has(q, "STAB", x)' => Has(q, "STAB", x)
        /\ Has(q, "NTFY", x)' => Has(q, "NTFY", x)
        /\ Has(q, "JOIN", x)' => Has(q, "JOIN", x) \/ (q = p /\ x = n)
    BY DEF Starts, Sent, NodeKind
  <2>3. ASSUME Has(q, "JOIN", x) PROVE root[x] = x /\ new[root[q]] < new[x]
    <3>1. x # n /\ q # n
      BY <1>1, <2>3 DEF NotStarted, NodeKind
    <3>2. new[root[q]] = age[root[q]] /\ new[x] = age[x]
      BY <1>1, <3>1
    <3> QED
      BY <2>3, <3>2 DEF Parts
  <2>4. new[root[p]] < new[n]
    BY <1>2
  <2> QED
    BY <1>1, <2>2, <2>3, <2>4 DEF Parts
<1>4. \A q \in Peer : phase'[q] = "off" => phase[q] = "off"
  BY DEF Starts, Typed
<1>5. UNCHANGED <<pred, succ>>
  BY DEF Starts
<1>6. Parts(root, new)'
  BY <1>3, <1>4, <1>5 DEF Parts
<1> QED
  BY <1>2, <1>6 DEF PartsInv

\* The other steps keep the parts.
LEMMA PartsKept ==
    ASSUME Typed, NEW root \in [Peer -> Peer], NEW age \in [Peer -> Nat], Parts(root, age),
           \A p \in Peer : phase'[p] = "off" => phase[p] = "off",
           \A p \in Peer : /\ pred'[p] = NULL \/ root[pred'[p]] = root[p]
                           /\ succ'[p] = NULL \/ root[succ'[p]] = root[p],
           \A p, x \in Peer :
              /\ Has(p, "STAB", x)' \/ Has(p, "NTFY", x)' => root[x] = root[p]
              /\ Has(p, "JOIN", x)' => root[x] = x /\ age[root[p]] < age[x]
    PROVE  PartsInv'
<1>1. Parts(root, age)'
  BY DEF Parts
<1> QED
  BY <1>1 DEF PartsInv

LEMMA PartsStep ==
    ASSUME Typed, LoopInv, Effect
    PROVE  PartsInv'
<1> PICK root \in [Peer -> Peer], age \in [Peer -> Nat] : Parts(root, age)
  BY DEF LoopInv, PartsInv
<1>l. /\ NotStarted
      /\ \A p \in Peer : /\ pred[p] = NULL \/ root[pred[p]] = root[p]
                         /\ succ[p] = NULL \/ root[succ[p]] = root[p]
      /\ \A p, x \in Peer :
            /\ Has(p, "STAB", x) \/ Has(p, "NTFY", x) => root[x] = root[p]
            /\ Has(p, "JOIN", x) => root[x] = x /\ age[root[p]] < age[x]
  BY DEF LoopInv, Parts
<1>1. ASSUME Founds \/ Idles \/ \E p \in Peer : Listens(p) \/ StartsAlone(p)
      PROVE  PartsInv'
  <2>1. /\ SameMail /\ UNCHANGED <<pred, succ>>
        /\ \A p \in Peer : phase'[p] = "off" => phase[p] = "off"
    BY <1>1 DEF Founds, Idles, Listens, StartsAlone, Typed
  <2> QED
    BY <1>l, <2>1, PartsKept DEF SameMail, NodeKind
<1>2. ASSUME NEW p \in Peer, Stabilizes(p) PROVE PartsInv'
  <2>1. /\ UNCHANGED <<phase, pred, succ>> /\ root[succ[p]] = root[p]
        /\ \A q, x \in Peer :
             /\ Has(q, "STAB", x)' => Has(q, "STAB", x) \/ (q = succ[p] /\ x = p)
             /\ Has(q, "NTFY", x)' => Has(q, "NTFY", x)
             /\ Has(q, "JOIN", x)' => Has(q, "JOIN", x)
    BY <1>l, <1>2, NoNull DEF Stabilizes, Sent, NodeKind
  <2> QED
    BY <1>l, <2>1, PartsKept
<1>3. ASSUME NEW p \in Peer, Ends(p) PROVE PartsInv'
  <2>1. /\ UNCHANGED <<pred, succ>>
        /\ \A q \in Peer : phase'[q] = "off" => phase[q] = "off"
        /\ \A q, x \in Peer, t \in NodeKind : Has(q, t, x)' => Has(q, t, x)
    BY <1>3 DEF Ends, Cleared, Typed
  <2> QED
    BY <1>l, <2>1, PartsKept DEF NodeKind
<1>4. ASSUME NEW p \in Peer, NEW n \in Peer, JoinsOnward(p, n) PROVE PartsInv'
  <2>1. /\ UNCHANGED <<phase, pred, succ>> /\ root[succ[p]] = root[p]
        /\ Has(p, "JOIN", n)
        /\ \A q, x \in Peer :
             /\ Has(q, "STAB", x)' => Has(q, "STAB", x)
             /\ Has(q, "NTFY", x)' => Has(q, "NTFY", x)
             /\ Has(q, "JOIN", x)' => Has(q, "JOIN", x) \/ (q = succ[p] /\ x = n)
    BY <1>l, <1>4, NoNull DEF JoinsOnward, Joins, Moved, NodeKind
  <2> QED
    BY <1>l, <2>1, PartsKept
<1>5. ASSUME NEW p \in Peer, NEW x \in Peer, TellsPred(p, x) PROVE PartsInv'
  <2>1. PICK n \in Peer : /\ n = IF pred[p] = NULL THEN x ELSE pred[p]
                          /\ pred' = [pred EXCEPT ![p] = n]
                          /\ Moved(p, "STAB", x, x, "NTFY", n)
    BY <1>5 DEF TellsPred
  <2>2. root[x] = root[p] /\ root[n] = root[p] /\ UNCHANGED <<phase, succ>>
    BY <1>l, <1>5, <2>1 DEF TellsPred
  <2>3. \A q, y \in Peer :
             /\ Has(q, "STAB", y)' => Has(q, "STAB", y)
             /\ Has(q, "NTFY", y)' => Has(q, "NTFY", y) \/ (q = x /\ y = n)
             /\ Has(q, "JOIN", y)' => Has(q, "JOIN", y)
    BY <2>1 DEF Moved, NodeKind
  <2>4. \A q \in Peer : pred'[q] = pred[q] \/ (q = p /\ pred'[q] = n)
    BY <2>1 DEF Typed
  <2> QED
    BY <1>l, <2>2, <2>3, <2>4, PartsKept
<1>6. ASSUME NEW p \in Peer, NEW x \in Peer, Learns(p, x) PROVE PartsInv'
  <2>1. /\ UNCHANGED <<phase, pred>> /\ root[x] = root[p]
        /\ \A q, y \in Peer, t \in NodeKind : Has(q, t, y)' => Has(q, t, y)
    BY <1>l, <1>6 DEF Learns, Took
  <2>2. \A q \in Peer : succ'[q] = succ[q] \/ (q = p /\ succ'[q] = x)
    BY <1>6 DEF Learns, Typed
  <2> QED
    BY <1>l, <2>1, <2>2, PartsKept DEF NodeKind
<1> QED
  BY <1>l, <1>1, <1>2, <1>3, <1>4, <1>5, <1>6, PartsStart, PartsMerge DEF Effect

\* The state of the ring, whatever the settings.
RingInv == Typed /\ LoopInv

LEMMA RingStart == Init => RingInv
<1> SUFFICES ASSUME Init PROVE RingInv
  OBVIOUS
<1>1. Typed
  BY DEF Init, Typed, Inboxes
<1>2. NotStarted /\ NoSelf
  BY <1>1, NoNull DEF Init, NotStarted, NoSelf, NoSelfLoop, Has, Typed, NodeKind
<1>3. PartsInv
  <2>1. Parts([p \in Peer |-> p], [p \in Peer |-> 0])
    BY DEF Init, Parts, Has
  <2> QED
    BY <2>1 DEF PartsInv
<1> QED
  BY <1>1, <1>2, <1>3 DEF RingInv, LoopInv

LEMMA LoopStep == ASSUME RingInv, Typed', Effect PROVE RingInv'
BY NotStartedStep, NoSelfStep, PartsStep DEF RingInv, LoopInv

\* What Next adds to the steps, and a stutter.
LEMMA RingNext == RingInv /\ [Next]_vars => RingInv'
<1> SUFFICES ASSUME RingInv, [Next]_vars PROVE RingInv'
  OBVIOUS
<1>1. CASE Next
  BY <1>1, StepEffect, LoopStep DEF Next, RingInv
<1>2. CASE UNCHANGED vars
  <2>1. Typed' /\ Effect
    BY <1>2 DEF vars, RingInv, Typed, Effect, Idles, SameMail, Has
  <2> QED
    BY <2>1, LoopStep
<1> QED
  BY <1>1, <1>2

\* However the joins overlap and whenever peers listen, the JOINs on their
\* way lead from younger parts of the ring to older ones, and nobody hears of
\* itself that has no successor (peer.c:287-357).
THEOREM RingInvariant == Spec => []RingInv
<1> QED
  BY RingStart, RingNext, PTL DEF Spec

\* A client sends a FINGER packet to a peer once.
LEMMA FingersStep == Step => fingers' \subseteq fingers
<1>1. \A p \in Peer : \A m \in inbox[p] :
        HandlePacketCtrl(p, m) => fingers' = fingers
  BY DEF HandlePacketCtrl, JoinFirst, JoinHere, JoinForward, JoinCrash, HandleStab,
     HandleNotify, HandleFinger, LookupAnswer, LookupForward, LookupCrash, HandleReply, Die
<1>2. \A p, q \in Peer : SendJoin(p, q) \/ Listen(p) \/ Stabilize(p) => fingers' = fingers
  BY DEF SendJoin, Listen, Stabilize, Die
<1>3. \A p \in Peer : AskFingers(p) => fingers' \subseteq fingers
  BY DEF AskFingers
<1> QED
  BY <1>1, <1>2, <1>3 DEF Step, Found

\* The settings and what is still to be asked keep their types.
LEMMA SettingTyped == Spec => [](fingers \subseteq Peer /\ setting \in Setting)
<1>1. Init => fingers \subseteq Peer /\ setting \in Setting
  BY IdentifierAssumption DEF Init
<1>2. ASSUME fingers \subseteq Peer /\ setting \in Setting, [Next]_vars
      PROVE  (fingers \subseteq Peer /\ setting \in Setting)'
  BY <1>2, FingersStep DEF Next, vars
<1> QED
  BY <1>1, <1>2, PTL DEF Spec

\* The pointers of peer.c are peers or NULL, and never the peer itself, so
\* that no peer sends a packet to itself and waits for its own answer
\* (peer.c:287-363).
THEOREM NobodyIsItsNeighbour == Spec => []WellFormed
<1>1. RingInv /\ fingers \subseteq Peer /\ setting \in Setting => WellFormed
  BY DEF RingInv, LoopInv, NoSelf, WellFormed, TypeOK, Typed, Inboxes
<1> QED
  BY <1>1, RingInvariant, SettingTyped, PTL
-----------------------------------------------------------------------------
(* The circle                                                              *)

\* q is the first of the peers in R behind p.
Follows(R, p, q) ==
    p \in R /\ q \in R \ {p} /\ \A r \in R \ {p, q} : ~PeerIsResponsibleP3(p, q, r)

LEMMA PeersAreNat == \A p \in Peer : p \in Nat
BY SpaceIs

\* Of two arcs that begin at one place, or end at one, one is in the other.
LEMMA ArcsNested ==
    ASSUME NEW p \in Nat, NEW q \in Nat, NEW r \in Nat, p # q, p # r, q # r
    PROVE  /\ PeerIsResponsibleP3(p, q, r) \/ PeerIsResponsibleP3(p, r, q)
           /\ PeerIsResponsibleP3(q, p, r) \/ PeerIsResponsibleP3(r, p, q)
           /\ ~(PeerIsResponsibleP3(p, q, r) /\ PeerIsResponsibleP3(p, r, q))
           /\ ~PeerIsResponsibleP3(p, q, p)
BY DEF PeerIsResponsibleP3

\* The arc up to a place inside an arc is the front part of it.
LEMMA ArcFront ==
    ASSUME NEW p \in Nat, NEW q \in Nat, NEW x \in Nat, NEW r \in Nat,
           PeerIsResponsibleP3(p, q, x), PeerIsResponsibleP3(p, x, r)
    PROVE  PeerIsResponsibleP3(p, q, r)
BY DEF PeerIsResponsibleP3

\* Arcs of different ends that overlap contain an end of each other.
LEMMA ArcsApart ==
    ASSUME NEW p \in Nat, NEW q \in Nat, NEW a \in Nat, NEW s \in Nat, NEW h \in Nat,
           p # q, a # s, q # s,
           q = a \/ ~PeerIsResponsibleP3(a, s, q), s = p \/ ~PeerIsResponsibleP3(p, q, s),
           PeerIsResponsibleP3(p, q, h), PeerIsResponsibleP3(a, s, h)
    PROVE  FALSE
BY DEF PeerIsResponsibleP3

\* A peer is followed by one peer and follows one.
LEMMA FollowsOnce ==
    ASSUME NEW R \in SUBSET Peer, NEW p, NEW q, Follows(R, p, q)
    PROVE  /\ \A r : Follows(R, p, r) => r = q
           /\ \A r : Follows(R, r, q) => r = p
<1>1. p \in R /\ q \in R /\ p # q /\ p \in Nat /\ q \in Nat
  BY PeersAreNat DEF Follows
<1>2. ASSUME NEW r, Follows(R, p, r), r # q PROVE FALSE
  <2>1. r \in R /\ r # p /\ r \in Nat
    BY <1>2, PeersAreNat DEF Follows
  <2>2. PeerIsResponsibleP3(p, q, r) \/ PeerIsResponsibleP3(p, r, q)
    BY <1>1, <1>2, <2>1, ArcsNested
  <2> QED
    BY <1>1, <1>2, <2>1, <2>2 DEF Follows
<1>3. ASSUME NEW r, Follows(R, r, q), r # p PROVE FALSE
  <2>1. r \in R /\ r # q /\ r \in Nat
    BY <1>3, PeersAreNat DEF Follows
  <2>2. PeerIsResponsibleP3(p, q, r) \/ PeerIsResponsibleP3(r, q, p)
    BY <1>1, <1>3, <2>1, ArcsNested
  <2> QED
    BY <1>1, <1>3, <2>1, <2>2 DEF Follows
<1> QED
  BY <1>2, <1>3

\* The arcs between neighbours are disjoint.
LEMMA OneArc ==
    ASSUME NEW R \in SUBSET Peer, NEW p, NEW q, NEW a, NEW s, NEW h \in Nat,
           Follows(R, p, q), Follows(R, a, s),
           PeerIsResponsibleP3(p, q, h), PeerIsResponsibleP3(a, s, h)
    PROVE  q = s
<1>1. /\ p \in Nat /\ q \in Nat /\ a \in Nat /\ s \in Nat /\ p # q /\ a # s
      /\ p \in R /\ q \in R /\ a \in R /\ s \in R
  BY PeersAreNat DEF Follows
<1>2. SUFFICES ASSUME q # s PROVE FALSE
  OBVIOUS
<1>3. q = a \/ ~PeerIsResponsibleP3(a, s, q)
  BY <1>1, <1>2 DEF Follows
<1>4. s = p \/ ~PeerIsResponsibleP3(p, q, s)
  BY <1>1, <1>2 DEF Follows
<1> QED
  BY <1>1, <1>2, <1>3, <1>4, ArcsApart

\* A peer that joins between a and s follows a, is followed by s, and leaves
\* the other neighbours alone.
LEMMA Inserted ==
    ASSUME NEW R \in SUBSET Peer, NEW a, NEW s, Follows(R, a, s),
           NEW n \in Peer \ R, PeerIsResponsibleP3(a, s, n)
    PROVE  /\ Follows(R \cup {n}, a, n) /\ Follows(R \cup {n}, n, s)
           /\ \A p, q : Follows(R, p, q) /\ q # s => Follows(R \cup {n}, p, q)
<1>1. /\ a \in Nat /\ s \in Nat /\ n \in Nat /\ a \in R /\ s \in R /\ a # s /\ a # n /\ s # n
      /\ \A r \in R : r \in Nat
  BY PeersAreNat DEF Follows
<1>2. ASSUME NEW r \in R, r # a, r # s
      PROVE  ~PeerIsResponsibleP3(a, n, r) /\ ~PeerIsResponsibleP3(n, s, r)
  <2>1. ~PeerIsResponsibleP3(a, s, r) /\ r \in Nat
    BY <1>1, <1>2 DEF Follows
  <2> QED
    BY <1>1, <1>2, <2>1 DEF PeerIsResponsibleP3
<1>3. ~PeerIsResponsibleP3(a, n, s) /\ ~PeerIsResponsibleP3(n, s, a)
  BY <1>1 DEF PeerIsResponsibleP3
<1>4. Follows(R \cup {n}, a, n) /\ Follows(R \cup {n}, n, s)
  BY <1>1, <1>2, <1>3 DEF Follows
<1>5. ASSUME NEW p, NEW q, Follows(R, p, q), q # s PROVE Follows(R \cup {n}, p, q)
  <2>1. ~PeerIsResponsibleP3(p, q, n)
    BY <1>1, <1>5, OneArc
  <2> QED
    BY <1>5, <2>1 DEF Follows
<1> QED
  BY <1>4, <1>5

\* A set of distances has a smallest one.
LEMMA SmallestOf ==
    ASSUME NEW S \in SUBSET Nat, S # {}
    PROVE  \E n \in S : \A k \in S : n <= k
<1>1. PICK n \in S : \A k \in S : ~(<<k, n>> \in OpToRel(<, Nat))
  BY NatLessThanWellFounded, WFMin
<1>2. \A k \in S : ~(k < n)
  BY <1>1 DEF OpToRel
<1> QED
  BY <1>2

\* How far it is from p to q, going upwards.
Distance(p, q) == IF p <= q THEN q - p ELSE (q + Space) - p

LEMMA DistanceIs ==
    ASSUME NEW p \in HashId, NEW q \in HashId
    PROVE  Distance(p, q) \in Nat
BY SpaceIs DEF Distance, HashId

\* What is nearer lies in the arc.
LEMMA NearerIsInside ==
    ASSUME NEW p \in HashId, NEW q \in HashId, NEW r \in HashId, p # q, p # r, q # r
    PROVE  /\ PeerIsResponsibleP3(p, q, r) <=> Distance(p, r) < Distance(p, q)
           /\ PeerIsResponsibleP3(p, q, r) <=> Distance(r, q) < Distance(p, q)
<1>1. Space \in Nat /\ p \in 0 .. Space - 1 /\ q \in 0 .. Space - 1 /\ r \in 0 .. Space - 1
  BY SpaceIs DEF HashId
<1> QED
  BY <1>1 DEF Distance, PeerIsResponsibleP3

\* In a set of two peers or more everybody follows somebody and is followed.
LEMMA NeighboursExist ==
    ASSUME NEW R \in SUBSET Peer, NEW p \in R, R # {p}
    PROVE  (\E q : Follows(R, p, q)) /\ (\E q : Follows(R, q, p))
<1>1. R \subseteq HashId /\ R \ {p} # {}
  BY SpaceIs
<1>2. \E q : Follows(R, p, q)
  <2>1. PICK D : D = {Distance(p, q) : q \in R \ {p}}
    OBVIOUS
  <2>2. PICK d \in D : \A k \in D : d <= k
    <3>1. p \in HashId /\ \A q \in R : q \in HashId
      BY <1>1
    <3>2. \A q \in R : Distance(p, q) \in Nat /\ Distance(q, p) \in Nat
      BY <3>1, DistanceIs
    <3>3. D \in SUBSET Nat /\ D # {}
      BY <1>1, <2>1, <3>2
    <3> QED
      BY <3>3, SmallestOf
  <2>3. PICK q \in R \ {p} : d = Distance(p, q)
    BY <2>1, <2>2
  <2>4. \A r \in R \ {p, q} : ~PeerIsResponsibleP3(p, q, r)
    <3> SUFFICES ASSUME NEW r \in R \ {p, q} PROVE ~PeerIsResponsibleP3(p, q, r)
      OBVIOUS
    <3>1. Distance(p, q) <= Distance(p, r) /\ Distance(p, q) \in Nat /\ Distance(p, r) \in Nat
      BY <1>1, <2>1, <2>2, <2>3, DistanceIs
    <3>2. ~(Distance(p, r) < Distance(p, q))
      BY <3>1
    <3> QED
      BY <1>1, <2>3, <3>2, NearerIsInside
  <2> QED
    BY <2>3, <2>4 DEF Follows
<1>3. \E q : Follows(R, q, p)
  <2>1. PICK D : D = {Distance(q, p) : q \in R \ {p}}
    OBVIOUS
  <2>2. PICK d \in D : \A k \in D : d <= k
    <3>1. p \in HashId /\ \A q \in R : q \in HashId
      BY <1>1
    <3>2. \A q \in R : Distance(p, q) \in Nat /\ Distance(q, p) \in Nat
      BY <3>1, DistanceIs
    <3>3. D \in SUBSET Nat /\ D # {}
      BY <1>1, <2>1, <3>2
    <3> QED
      BY <3>3, SmallestOf
  <2>3. PICK q \in R \ {p} : d = Distance(q, p)
    BY <2>1, <2>2
  <2>4. \A r \in R \ {p, q} : ~PeerIsResponsibleP3(q, p, r)
    <3> SUFFICES ASSUME NEW r \in R \ {p, q} PROVE ~PeerIsResponsibleP3(q, p, r)
      OBVIOUS
    <3>1. Distance(q, p) <= Distance(r, p) /\ Distance(q, p) \in Nat /\ Distance(r, p) \in Nat
      BY <1>1, <2>1, <2>2, <2>3, DistanceIs
    <3>2. ~(Distance(r, p) < Distance(q, p))
      BY <3>1
    <3> QED
      BY <1>1, <2>3, <3>2, NearerIsInside
  <2> QED
    BY <2>3, <2>4 DEF Follows
<1> QED
  BY <1>2, <1>3

LEMMA NextIs ==
    ASSUME NEW R \in SUBSET Peer, NEW p \in R, R # {p}
    PROVE  Follows(R, p, NextOf(p, R))
<1>1. PICK q : Follows(R, p, q)
  BY NeighboursExist
<1>2. q \in R \ {p} /\ \A r \in R \ {p, q} : ~PeerIsResponsibleP3(p, q, r)
  BY <1>1 DEF Follows
<1> QED
  BY <1>2 DEF NextOf, Follows

\* Peers that lead to each other, skipping at most those in N, are all the
\* others.
LEMMA LeadsEverywhere ==
    ASSUME NEW R \in SUBSET Peer, NEW N, NEW M \in SUBSET R, M # {},
           \A p \in M : \E s \in M \ {p} :
              \A r \in R \ (N \cup {p, s}) : ~PeerIsResponsibleP3(p, s, r)
    PROVE  R \ N \subseteq M
<1> SUFFICES ASSUME NEW n \in R \ N, n \notin M PROVE FALSE
  OBVIOUS
<1>1. R \subseteq HashId /\ HashId \subseteq Nat
  BY SpaceIs
<1>2. PICK D : D = {Distance(p, n) : p \in M}
  OBVIOUS
<1>3. PICK d \in D : \A k \in D : d <= k
  <2>1. n \in HashId /\ \A p \in M : p \in HashId
    BY <1>1
  <2>2. \A p \in M : Distance(p, n) \in Nat
    BY <2>1, DistanceIs
  <2>3. D \in SUBSET Nat /\ D # {}
    BY <1>2, <2>2
  <2> QED
    BY <2>3, SmallestOf
<1>4. PICK p \in M : d = Distance(p, n)
  BY <1>2, <1>3
<1>5. PICK s \in M \ {p} : \A r \in R \ (N \cup {p, s}) : ~PeerIsResponsibleP3(p, s, r)
  BY <1>4
<1>6. PeerIsResponsibleP3(p, n, s)
  <2>1. p \in Nat /\ s \in Nat /\ n \in Nat /\ p # s /\ p # n /\ s # n
    BY <1>1, <1>4, <1>5
  <2>2. ~PeerIsResponsibleP3(p, s, n)
    BY <1>5, <2>1
  <2> QED
    BY <2>1, <2>2, ArcsNested
<1>7. Distance(s, n) < Distance(p, n) /\ Distance(s, n) \in Nat /\ Distance(p, n) \in Nat
  <2>1. p \in HashId /\ s \in HashId /\ n \in HashId /\ p # s /\ p # n /\ s # n
    BY <1>1, <1>4, <1>5
  <2> QED
    BY <1>6, <2>1, NearerIsInside, DistanceIs
<1>8. Distance(p, n) <= Distance(s, n)
  BY <1>2, <1>3, <1>4, <1>5
<1> QED
  BY <1>7, <1>8
-----------------------------------------------------------------------------
(* Peers that are started one at a time.  R are the peers of the circle, N *)
(* is empty or holds the one that has joined it last and may not yet know  *)
(* its neighbours, or may be known to few.                                 *)

Pointers(R, N) == \A p \in Peer :
    /\ pred[p] = NULL \/ Follows(R, pred[p], p)
    /\ succ[p] = NULL \/ /\ p \in R /\ succ[p] \in R \ {p}
                         /\ \A r \in R \ (N \cup {p, succ[p]}) :
                              ~PeerIsResponsibleP3(p, succ[p], r)
    /\ p \in R \ N => pred[p] # NULL /\ succ[p] # NULL

Letters(R, N) == \A p, x \in Peer :
    /\ Has(p, "STAB", x) => /\ p \in R /\ x \in R /\ succ[x] # NULL
                            /\ p \in N => Follows(R, x, p)
    /\ Has(p, "NTFY", x) => /\ p \in R /\ x \in R
                            /\ succ[p] = NULL => Follows(R, p, x)

NoJoin == \A p, x \in Peer : ~Has(p, "JOIN", x)

Away(p) == phase[p] \in {"off", "dead"}

AtMostOne(N) == N = {} \/ \E n \in Peer : N = {n}

\* Nobody is joining.
Still(R, N) ==
    /\ \A p \in R : phase[p] = "up"
    /\ \A p \in Peer \ R : Away(p)
    /\ NoJoin
    /\ Founder \in N => R = {Founder}

\* A peer has been started that is not in the circle yet; its JOIN waits at
\* one peer of the circle, unless there is none.
Asking(R, N) == \E n \in Peer \ R :
    /\ n # Founder
    /\ N = {} \/ R = N
    /\ \A p \in R : phase[p] = "up"
    /\ phase[n] \in {"joining", "up"}
    /\ \A p \in Peer \ (R \cup {n}) : Away(p)
    /\ \A p, x \in Peer : Has(p, "JOIN", x) => p \in R /\ x = n
    /\ IF R = {} THEN phase[n] = "joining"
       ELSE \E p \in R : \A q \in Peer : Has(q, "JOIN", n) <=> q = p

\* The newcomer has ended; nobody can join any more.
Frozen(R, N) == \E n \in R :
    /\ N = {n} /\ phase[n] = "dead"
    /\ \A p \in R : phase[p] \in {"up", "dead"}
    /\ \A p \in Peer \ R : Away(p)
    /\ NoJoin

Shape(R, N) ==
    /\ AtMostOne(N) /\ Pointers(R, N) /\ Letters(R, N)
    /\ Still(R, N) \/ Asking(R, N) \/ Frozen(R, N)

Shaped == \E R \in SUBSET Peer : \E N \in SUBSET R : Shape(R, N)

\* Steps that bring no peer in or out.
QuietStep ==
    \/ Idles
    \/ \E p, x \in Peer : Stabilizes(p) \/ TellsPred(p, x) \/ Learns(p, x)

\* They leave JOINs and the state of the processes alone.
LEMMA QuietKeeps ==
    ASSUME QuietStep
    PROVE  /\ phase' = phase
           /\ \A p, x \in Peer : Has(p, "JOIN", x)' <=> Has(p, "JOIN", x)
<1>1. "JOIN" \in NodeKind /\ "JOIN" # "STAB" /\ "JOIN" # "NTFY"
  BY DEF NodeKind
<1>2. CASE Idles
  BY <1>1, <1>2 DEF Idles, SameMail
<1>3. ASSUME NEW p \in Peer, NEW x \in Peer, Stabilizes(p)
      PROVE  phase' = phase /\ \A q, y \in Peer : Has(q, "JOIN", y)' <=> Has(q, "JOIN", y)
  BY <1>1, <1>3 DEF Stabilizes, Sent
<1>4. ASSUME NEW p \in Peer, NEW x \in Peer, TellsPred(p, x)
      PROVE  phase' = phase /\ \A q, y \in Peer : Has(q, "JOIN", y)' <=> Has(q, "JOIN", y)
  BY <1>1, <1>4 DEF TellsPred, Moved
<1>5. ASSUME NEW p \in Peer, NEW x \in Peer, Learns(p, x)
      PROVE  phase' = phase /\ \A q, y \in Peer : Has(q, "JOIN", y)' <=> Has(q, "JOIN", y)
  BY <1>1, <1>5 DEF Learns, Took
<1> QED
  BY <1>2, <1>3, <1>4, <1>5 DEF QuietStep

\* A STABILIZE arrives.
LEMMA StabilizesShape ==
    ASSUME NEW R \in SUBSET Peer, NEW N \in SUBSET R, AtMostOne(N), Pointers(R, N), Letters(R, N),
           NEW p \in Peer, Stabilizes(p)
    PROVE  Pointers(R, N)' /\ Letters(R, N)'
<1>1. PICK s \in Peer : s = succ[p]
  BY DEF Stabilizes
<1>2. /\ UNCHANGED <<pred, succ>>
      /\ \A r \in Peer, v \in NodeKind, z \in Peer :
            Has(r, v, z)' <=> Has(r, v, z) \/ (r = s /\ v = "STAB" /\ z = p)
  BY <1>1 DEF Stabilizes, Sent
<1>3. p \in R /\ s \in R \ {p} /\ \A r \in R \ (N \cup {p, s}) : ~PeerIsResponsibleP3(p, s, r)
  BY <1>1, NoNull DEF Pointers
<1>4. s \in N => Follows(R, p, s)
  BY <1>3 DEF AtMostOne, Follows
<1>5. Pointers(R, N)'
  BY <1>2 DEF Pointers
<1>6. Letters(R, N)'
  <2>1. \A q, x \in Peer : /\ Has(q, "NTFY", x)' <=> Has(q, "NTFY", x)
                           /\ Has(q, "STAB", x)' <=> Has(q, "STAB", x) \/ (q = s /\ x = p)
    BY <1>2 DEF NodeKind
  <2> QED
    BY <1>1, <1>2, <1>3, <1>4, <2>1, NoNull DEF Letters
<1> QED
  BY <1>5, <1>6

\* A STABILIZE is answered; who has no predecessor takes the sender.
LEMMA TellsPredShape ==
    ASSUME Typed, NEW R \in SUBSET Peer, NEW N \in SUBSET R, Pointers(R, N), Letters(R, N),
           NEW p \in Peer, NEW x \in Peer, TellsPred(p, x)
    PROVE  Pointers(R, N)' /\ Letters(R, N)'
<1>1. PICK n \in Peer : /\ n = IF pred[p] = NULL THEN x ELSE pred[p]
                        /\ pred' = [pred EXCEPT ![p] = n]
                        /\ Moved(p, "STAB", x, x, "NTFY", n)
  BY DEF TellsPred
<1>2. \A q, y \in Peer :
         /\ Has(q, "STAB", y)' => Has(q, "STAB", y)
         /\ Has(q, "NTFY", y)' => Has(q, "NTFY", y) \/ (q = x /\ y = n)
  BY <1>1 DEF Moved, NodeKind
<1>3. p \in R /\ x \in R /\ succ[x] # NULL /\ (p \in N => Follows(R, x, p)) /\ succ' = succ
  BY DEF TellsPred, Letters
<1>4. Follows(R, n, p)
  BY <1>1, <1>3 DEF Pointers
<1>5. \A q \in Peer : pred'[q] = IF q = p THEN n ELSE pred[q]
  BY <1>1 DEF Typed
<1>6. Pointers(R, N)'
  BY <1>3, <1>4, <1>5, NoNull DEF Pointers
<1>7. n \in R
  BY <1>4 DEF Follows
<1>8. Letters(R, N)'
  BY <1>2, <1>3, <1>7 DEF Letters
<1> QED
  BY <1>6, <1>8

\* A NOTIFY is believed if it names a nearer successor.
LEMMA LearnsShape ==
    ASSUME Typed, NEW R \in SUBSET Peer, NEW N \in SUBSET R, Pointers(R, N), Letters(R, N),
           NEW p \in Peer, NEW x \in Peer, Learns(p, x)
    PROVE  Pointers(R, N)' /\ Letters(R, N)'
<1>1. p \in R /\ x \in R /\ (succ[p] = NULL => Follows(R, p, x)) /\ pred' = pred
  BY DEF Learns, Letters
<1>2. PICK s : s = succ[p]
  OBVIOUS
<1>3. PICK t : t = IF s = NULL \/ PeerIsResponsibleP3(p, s, x) THEN x ELSE s
  OBVIOUS
<1>4. \A q \in Peer : succ'[q] = IF q = p THEN t ELSE succ[q]
  BY <1>2, <1>3 DEF Learns, Typed
<1>5. /\ t \in R \ {p} /\ t # NULL
      /\ \A r \in R \ (N \cup {p, t}) : ~PeerIsResponsibleP3(p, t, r)
  <2>1. CASE s = NULL
    BY <1>1, <1>2, <1>3, <2>1, NoNull DEF Follows
  <2>2. CASE s # NULL /\ t = s
    BY <1>2, <2>2 DEF Pointers
  <2>3. CASE s # NULL /\ t # s
    <3>1. /\ s \in R \ {p} /\ \A r \in R \ (N \cup {p, s}) : ~PeerIsResponsibleP3(p, s, r)
          /\ t = x /\ PeerIsResponsibleP3(p, s, x)
      BY <1>2, <1>3, <2>3 DEF Pointers
    <3>2. p \in Nat /\ s \in Nat /\ x \in Nat /\ \A r \in R : r \in Nat
      BY <1>1, <3>1, PeersAreNat
    <3>3. x # p
      BY <3>1, <3>2 DEF PeerIsResponsibleP3
    <3>4. ~PeerIsResponsibleP3(p, x, s)
      BY <2>3, <3>1, <3>2, <3>3, ArcsNested
    <3>5. \A r \in R \ (N \cup {p, x}) : ~PeerIsResponsibleP3(p, x, r)
      BY <3>1, <3>2, <3>4, ArcFront
    <3> QED
      BY <1>1, <3>1, <3>3, <3>5, NoNull
  <2> QED
    BY <2>1, <2>2, <2>3
<1>6. Pointers(R, N)'
  BY <1>1, <1>4, <1>5 DEF Pointers
<1>7. \A q, y \in Peer : /\ Has(q, "STAB", y)' => Has(q, "STAB", y)
                         /\ Has(q, "NTFY", y)' => Has(q, "NTFY", y)
  BY DEF Learns, Took, NodeKind
<1>8. Letters(R, N)'
  BY <1>1, <1>4, <1>5, <1>7 DEF Letters
<1> QED
  BY <1>6, <1>8

LEMMA QuietShape ==
    ASSUME Typed, NEW R \in SUBSET Peer, NEW N \in SUBSET R, AtMostOne(N), Pointers(R, N), Letters(R, N),
           QuietStep
    PROVE  /\ Pointers(R, N)' /\ Letters(R, N)'
           /\ Still(R, N) => Still(R, N)'
           /\ Asking(R, N) => Asking(R, N)'
           /\ Frozen(R, N) => Frozen(R, N)'
<1>1. ASSUME Idles PROVE Pointers(R, N)' /\ Letters(R, N)'
  BY <1>1 DEF Idles, SameMail, NodeKind, Pointers, Letters
<1>2. Pointers(R, N)' /\ Letters(R, N)'
  BY <1>1, StabilizesShape, TellsPredShape, LearnsShape DEF QuietStep
<1>3. Still(R, N) => Still(R, N)'
  BY QuietKeeps DEF Still, NoJoin, Away
<1>4. Asking(R, N) => Asking(R, N)'
  BY QuietKeeps DEF Asking, Away
<1>5. Frozen(R, N) => Frozen(R, N)'
  BY QuietKeeps DEF Frozen, NoJoin, Away
<1> QED
  BY <1>2, <1>3, <1>4, <1>5

\* The founder comes first.
LEMMA FoundsShape ==
    ASSUME Typed, NEW R \in SUBSET Peer, NEW N \in SUBSET R, Shape(R, N),
           \A p \in Peer : phase[p] = "off", Founds
    PROVE  Shape({Founder}, {Founder})'
<1>1. R = {} /\ N = {} /\ NoJoin
  BY DEF Shape, Still, Asking, Frozen
<1>2. /\ UNCHANGED <<pred, succ>> /\ Founder \in Peer
      /\ \A p \in Peer : phase'[p] = IF p = Founder THEN "up" ELSE phase[p]
      /\ \A p, x \in Peer : \A v \in NodeKind : Has(p, v, x)' <=> Has(p, v, x)
  BY IdentifierAssumption DEF Founds, Typed, SameMail
<1>3. \A p \in Peer : pred[p] = NULL /\ succ[p] = NULL
  BY <1>1 DEF Shape, Pointers, Follows
<1>4. \A p, x \in Peer : \A v \in NodeKind : ~Has(p, v, x)
  BY <1>1 DEF Shape, Letters, NoJoin, NodeKind
<1>5. Pointers({Founder}, {Founder})' /\ Letters({Founder}, {Founder})'
  BY <1>2, <1>3, <1>4 DEF Pointers, Letters, NodeKind
<1>6. Still({Founder}, {Founder})'
  BY <1>2, <1>4 DEF Still, NoJoin, Away, NodeKind
<1> QED
  BY <1>2, <1>5, <1>6 DEF Shape, AtMostOne

\* A peer listens.
LEMMA ListensShape ==
    ASSUME Typed, NEW R \in SUBSET Peer, NEW N \in SUBSET R, Shape(R, N),
           NEW p \in Peer, Listens(p)
    PROVE  Shaped'
<1>1. /\ UNCHANGED <<pred, succ>> /\ phase[p] = "joining"
      /\ \A q \in Peer : phase'[q] = IF q = p THEN "up" ELSE phase[q]
      /\ \A q, x \in Peer : \A v \in NodeKind : Has(q, v, x)' <=> Has(q, v, x)
  BY DEF Listens, Typed, SameMail
<1>2. ~Still(R, N) /\ ~Frozen(R, N)
  BY <1>1 DEF Still, Frozen, Away
<1>3. Asking(R, N)
  BY <1>2 DEF Shape
<1>4. Pointers(R, N)' /\ Letters(R, N)'
  BY <1>1 DEF Shape, Pointers, Letters, NodeKind
<1>5. CASE R = {}
  <2>1. /\ p # Founder /\ N = {}
        /\ \A q \in Peer \ {p} : Away(q)
        /\ \A q, x \in Peer : ~Has(q, "JOIN", x)
    BY <1>1, <1>3, <1>5 DEF Asking, Away
  <2>2. \A q \in Peer : pred[q] = NULL /\ succ[q] = NULL
    BY <1>5, <2>1 DEF Shape, Pointers, Follows
  <2>3. \A q, x \in Peer : \A v \in NodeKind : ~Has(q, v, x)
    BY <1>5, <2>1 DEF Shape, Letters, NodeKind
  <2>4. Pointers({p}, {p})' /\ Letters({p}, {p})'
    BY <1>1, <2>2, <2>3 DEF Pointers, Letters, NodeKind
  <2>5. Still({p}, {p})'
    BY <1>1, <2>1 DEF Still, NoJoin, Away, NodeKind
  <2>6. Shape({p}, {p})'
    BY <2>4, <2>5 DEF Shape, AtMostOne
  <2> QED
    BY <2>6 DEF Shaped
<1>6. CASE R # {}
  <2>1. PICK n \in Peer \ R :
           /\ n # Founder
           /\ N = {} \/ R = N
           /\ \A q \in R : phase[q] = "up"
           /\ phase[n] \in {"joining", "up"}
           /\ \A q \in Peer \ (R \cup {n}) : Away(q)
           /\ \A q, x \in Peer : Has(q, "JOIN", x) => q \in R /\ x = n
           /\ \E q \in R : \A r \in Peer : Has(r, "JOIN", n) <=> r = q
    BY <1>3, <1>6 DEF Asking
  <2>2. /\ \A q \in R : phase'[q] = "up"
        /\ phase'[n] \in {"joining", "up"}
        /\ \A q \in Peer \ (R \cup {n}) : phase'[q] \in {"off", "dead"}
        /\ \A q, x \in Peer : Has(q, "JOIN", x)' => q \in R /\ x = n
        /\ \E q \in R : \A r \in Peer : Has(r, "JOIN", n)' <=> r = q
    BY <1>1, <2>1 DEF Away, NodeKind
  <2>3. Asking(R, N)'
    BY <1>6, <2>1, <2>2 DEF Asking, Away
  <2>4. Shape(R, N)'
    BY <1>4, <2>3 DEF Shape
  <2> QED
    BY <2>4 DEF Shaped
<1> QED
  BY <1>5, <1>6

\* When the ring has settled, everybody has the right neighbours.
LEMMA SettledShape ==
    ASSUME Typed, NEW R \in SUBSET Peer, NEW N \in SUBSET R, Shape(R, N),
           Settled, NEW q \in Peer, phase[q] = "up"
    PROVE  /\ Still(R, N) /\ q \in R
           /\ \/ R # {q} /\ Pointers(R, {}) /\ Letters(R, {})
              \/ R = {q} /\ N = {q} /\ succ[q] = NULL
<1>1. PICK M \in SUBSET Peer : M = Member
  BY DEF Member
<1>2. /\ q \in M /\ \A p \in Peer : p \in M <=> phase[p] = "up"
      /\ \A p \in Peer : phase[p] # "joining"
  BY <1>1 DEF Member, Settled
<1>3. Cardinality(M) = 1 <=> M = {q}
  <2>1. IsFiniteSet(M)
    <3>1. IsFiniteSet(0 .. Space - 1)
      BY SpaceIs, FS_Interval
    <3> QED
      BY <3>1, IdentifierAssumption, FS_Subset
  <2> QED
    BY <1>2, <2>1, FS_Singleton
<1>4. ASSUME M = {q} PROVE pred[q] = NULL /\ succ[q] = NULL
  BY <1>1, <1>3, <1>4 DEF Settled
<1>5. ASSUME M # {q}, NEW p \in M
      PROVE  \E s \in M \ {p} : s = succ[p] /\ pred[s] = p /\ Follows(M, p, s)
  <2>1. succ[p] = NextOf(p, M) /\ pred[succ[p]] = p
    BY <1>1, <1>3, <1>5 DEF Settled
  <2>2. M # {p}
    BY <1>2, <1>5
  <2>3. Follows(M, p, NextOf(p, M))
    BY <1>5, <2>2, NextIs
  <2> QED
    BY <2>1, <2>3 DEF Follows
<1>6. ~Frozen(R, N)
  <2> SUFFICES ASSUME Frozen(R, N) PROVE FALSE
    OBVIOUS
  <2>1. PICK n \in R : N = {n} /\ phase[n] = "dead" /\ \A p \in Peer \ R : Away(p)
    BY DEF Frozen
  <2>2. M \in SUBSET R /\ n \notin M /\ q \in R \ N
    BY <1>2, <2>1 DEF Away
  <2>3. M # {q}
    BY <1>4, <2>2 DEF Shape, Pointers
  <2>4. ASSUME NEW p \in M
        PROVE  \E s \in M \ {p} : \A r \in R \ ({} \cup {p, s}) : ~PeerIsResponsibleP3(p, s, r)
    <3>1. PICK s \in M \ {p} : pred[s] = p
      BY <1>5, <2>3, <2>4
    <3>2. Follows(R, p, s)
      BY <3>1, NoNull DEF Shape, Pointers
    <3> QED
      BY <3>1, <3>2 DEF Follows
  <2>5. R \ {} \subseteq M
    <3>1. M \in SUBSET R /\ M # {}
      BY <1>2, <2>2
    <3> QED
      BY <2>4, <3>1, LeadsEverywhere, SMTT(60)
  <2> QED
    BY <2>1, <2>2, <2>5
<1>7. ~Asking(R, N)
  <2> SUFFICES ASSUME Asking(R, N) PROVE FALSE
    OBVIOUS
  <2>1. PICK n \in Peer \ R : /\ n \in M /\ \A p \in R : phase[p] = "up"
                              /\ R # {}
    BY <1>2 DEF Asking
  <2>2. M # {q}
    BY <1>2, <2>1
  <2>3. succ[n] \in Peer
    BY <1>5, <2>1, <2>2
  <2> QED
    BY <2>1, <2>3, NoNull DEF Shape, Pointers
<1>8. Still(R, N) /\ M = R
  <2>1. Still(R, N)
    BY <1>6, <1>7 DEF Shape
  <2> QED
    BY <1>2, <2>1 DEF Still, Away
<1>9. CASE M = {q}
  BY <1>4, <1>8, <1>9 DEF Shape, Pointers
<1>10. CASE M # {q}
  <2>1. ASSUME NEW p \in Peer PROVE
           /\ pred[p] = NULL \/ Follows(R, pred[p], p)
           /\ succ[p] = NULL \/ /\ p \in R /\ succ[p] \in R \ {p}
                                /\ \A r \in R \ ({} \cup {p, succ[p]}) :
                                     ~PeerIsResponsibleP3(p, succ[p], r)
           /\ p \in R \ {} => pred[p] # NULL /\ succ[p] # NULL
    <3>1. pred[p] = NULL \/ Follows(R, pred[p], p)
      BY DEF Shape, Pointers
    <3>2. CASE p \notin R
      BY <3>1, <3>2 DEF Shape, Pointers
    <3>3. CASE p \in R
      <4>1. PICK s \in M \ {p} : s = succ[p] /\ Follows(R, p, s)
        BY <1>5, <1>8, <1>10, <3>3
      <4>2. PICK a : Follows(R, a, p)
        BY <1>2, <1>8, <1>10, <3>3, NeighboursExist
      <4>3. a \in M
        BY <1>8, <4>2 DEF Follows
      <4>4. PICK t \in M : pred[t] = a /\ Follows(R, a, t)
        BY <1>5, <1>8, <1>10, <4>3
      <4>5. t = p
        BY <4>2, <4>4, FollowsOnce
      <4>6. pred[p] # NULL
        BY <4>3, <4>4, <4>5, NoNull
      <4> QED
        BY <1>8, <3>1, <3>3, <4>1, <4>6, NoNull DEF Follows
    <3> QED
      BY <3>2, <3>3
  <2>2. Pointers(R, {})
    BY <2>1 DEF Pointers
  <2>3. Letters(R, {})
    BY DEF Shape, Letters
  <2> QED
    BY <1>2, <1>8, <1>10, <2>2, <2>3
<1> QED
  BY <1>9, <1>10

\* The next peer is started, which happens when the ring has settled.
LEMMA StartsShape ==
    ASSUME Typed, NEW R \in SUBSET Peer, NEW N \in SUBSET R, Shape(R, N),
           ~setting.overlap, NEW n \in Peer, NEW q \in Peer, Starts(n, q)
    PROVE  Shaped'
<1>1. /\ n # Founder /\ phase[n] = "off" /\ phase[q] = "up" /\ UNCHANGED <<pred, succ>>
      /\ \A p \in Peer : phase'[p] = IF p = n THEN "joining" ELSE phase[p]
      /\ \A p, x \in Peer : \A v \in NodeKind :
            Has(p, v, x)' <=> Has(p, v, x) \/ (p = q /\ v = "JOIN" /\ x = n)
  BY DEF Starts, Typed, Sent
<1>2. /\ Still(R, N) /\ q \in R
      /\ \/ R # {q} /\ Pointers(R, {}) /\ Letters(R, {})
         \/ R = {q} /\ N = {q} /\ succ[q] = NULL
  BY SettledShape DEF Starts, Calm
<1>3. PICK O \in SUBSET R : /\ AtMostOne(O) /\ Pointers(R, O) /\ Letters(R, O)
                            /\ O = {} \/ R = O
  BY <1>2 DEF Shape, AtMostOne
<1>4. Pointers(R, O)' /\ Letters(R, O)'
  BY <1>1, <1>3 DEF Pointers, Letters, NodeKind
<1>5. n \notin R
  BY <1>1, <1>2 DEF Still
<1>6. /\ \A p \in R : phase'[p] = "up"
      /\ phase'[n] = "joining"
      /\ \A p \in Peer \ (R \cup {n}) : phase'[p] \in {"off", "dead"}
  BY <1>1, <1>2, <1>5 DEF Still, Away
<1>7. \A p, x \in Peer : Has(p, "JOIN", x)' <=> p = q /\ x = n
  BY <1>1, <1>2 DEF Still, NoJoin, NodeKind
<1>8. Asking(R, O)'
  BY <1>1, <1>2, <1>3, <1>5, <1>6, <1>7 DEF Asking, Away
<1>9. Shape(R, O)'
  BY <1>3, <1>4, <1>8 DEF Shape
<1> QED
  BY <1>3, <1>9 DEF Shaped

\* A peer ends.
LEMMA EndsShape ==
    ASSUME Typed, NEW R \in SUBSET Peer, NEW N \in SUBSET R, Shape(R, N),
           NEW p \in Peer, Ends(p)
    PROVE  Shaped' \/ EndedEarly'
<1>1. /\ phase[p] = "up" /\ UNCHANGED <<pred, succ>>
      /\ pred[p] = NULL \/ succ[p] = NULL \/ phase[succ[p]] # "up"
      /\ \A q \in Peer : phase'[q] = IF q = p THEN "dead" ELSE phase[q]
      /\ \A q, x \in Peer : \A v \in NodeKind : Has(q, v, x)' <=> Has(q, v, x) /\ q # p
  BY DEF Ends, Typed, Cleared
<1>2. Pointers(R, N)' /\ Letters(R, N)'
  BY <1>1 DEF Shape, Pointers, Letters, NodeKind
<1>3. SUFFICES ASSUME ~(p # Founder /\ pred[p] = NULL /\ succ[p] = NULL) PROVE Shaped'
  BY <1>1 DEF EndedEarly
\* The last of the circle ends.
<1>4. ASSUME R = {p}, p = Founder, Still(R, N) PROVE Shaped'
  <2>1. \A q \in Peer : pred[q] = NULL /\ succ[q] = NULL
    BY <1>4 DEF Shape, Pointers, Follows
  <2>2. \A q, x \in Peer : \A v \in NodeKind : ~Has(q, v, x)'
    BY <1>1, <1>4 DEF Shape, Letters, Still, NoJoin, NodeKind
  <2>3. Pointers({}, {})' /\ Letters({}, {})'
    BY <1>1, <2>1, <2>2 DEF Pointers, Letters, NodeKind
  <2>4. Still({}, {})'
    BY <1>1, <1>4, <2>2 DEF Still, NoJoin, Away, NodeKind
  <2>5. Shape({}, {})'
    BY <2>3, <2>4 DEF Shape, AtMostOne
  <2> QED
    BY <2>5 DEF Shaped
<1>5. CASE Still(R, N)
  <2>1. p \in N
    BY <1>1, <1>5 DEF Shape, Pointers, Still, Away
  <2>2. CASE p = Founder
    BY <1>4, <1>5, <2>1, <2>2 DEF Still
  <2>3. CASE p # Founder
    <3>1. N = {p}
      BY <2>1 DEF Shape, AtMostOne
    <3>2. /\ phase'[p] = "dead"
          /\ \A q \in R : phase'[q] \in {"up", "dead"}
          /\ \A q \in Peer \ R : phase'[q] \in {"off", "dead"}
          /\ \A q, x \in Peer : ~Has(q, "JOIN", x)'
      BY <1>1, <1>5 DEF Still, NoJoin, Away, NodeKind
    <3>3. Frozen(R, N)'
      BY <2>1, <3>1, <3>2 DEF Frozen, NoJoin, Away
    <3>4. Shape(R, N)'
      BY <1>2, <3>3 DEF Shape
    <3> QED
      BY <3>4 DEF Shaped
  <2> QED
    BY <2>2, <2>3
<1>6. CASE Asking(R, N)
  <2>1. PICK n \in Peer \ R :
           /\ n # Founder
           /\ N = {} \/ R = N
           /\ \A q \in R : phase[q] = "up"
           /\ phase[n] \in {"joining", "up"}
           /\ \A q \in Peer \ (R \cup {n}) : Away(q)
           /\ \A q, x \in Peer : Has(q, "JOIN", x) => q \in R /\ x = n
           /\ R # {} => \E q \in R : \A r \in Peer : Has(r, "JOIN", n) <=> r = q
    BY <1>6 DEF Asking
  <2>2. p # n
    BY <1>3, <2>1, NoNull DEF Shape, Pointers, Follows
  <2>3. p \in R
    BY <1>1, <2>1, <2>2 DEF Away
  <2>4. p \in N
    BY <1>1, <2>1, <2>3 DEF Shape, Pointers
  <2>5. R = {p} /\ N = {p}
    BY <2>1, <2>4 DEF Shape, AtMostOne
  <2>6. \A q \in Peer : pred[q] = NULL /\ succ[q] = NULL
    BY <2>5 DEF Shape, Pointers, Follows
  <2>7. \A q, x \in Peer : \A v \in NodeKind : ~Has(q, v, x)'
    BY <1>1, <2>1, <2>5 DEF Shape, Letters, NodeKind
  <2>8. CASE phase[n] = "joining"
    <3>1. /\ phase'[n] = "joining"
          /\ \A q \in Peer \ {n} : phase'[q] \in {"off", "dead"}
      BY <1>1, <2>1, <2>2, <2>5, <2>8 DEF Away
    <3>2. Asking({}, {})'
      BY <2>1, <2>7, <3>1 DEF Asking, Away, NodeKind
    <3>3. Pointers({}, {})' /\ Letters({}, {})'
      BY <1>1, <2>6, <2>7 DEF Pointers, Letters, NodeKind
    <3>4. Shape({}, {})'
      BY <3>2, <3>3 DEF Shape, AtMostOne
    <3> QED
      BY <3>4 DEF Shaped
  <2>9. CASE phase[n] = "up"
    <3>1. /\ phase'[n] = "up"
          /\ \A q \in Peer \ {n} : phase'[q] \in {"off", "dead"}
      BY <1>1, <2>1, <2>2, <2>5, <2>9 DEF Away
    <3>2. Still({n}, {n})'
      BY <2>1, <2>7, <3>1 DEF Still, NoJoin, Away, NodeKind
    <3>3. Pointers({n}, {n})' /\ Letters({n}, {n})'
      BY <1>1, <2>6, <2>7 DEF Pointers, Letters, NodeKind
    <3>4. Shape({n}, {n})'
      BY <3>2, <3>3 DEF Shape, AtMostOne
    <3> QED
      BY <3>4 DEF Shaped
  <2> QED
    BY <2>1, <2>8, <2>9
<1>7. CASE Frozen(R, N)
  <2>1. PICK n \in R : /\ N = {n} /\ phase[n] = "dead" /\ NoJoin
                       /\ \A q \in R : phase[q] \in {"up", "dead"}
                       /\ \A q \in Peer \ R : Away(q)
    BY <1>7 DEF Frozen
  <2>2. /\ phase'[n] = "dead"
        /\ \A q \in R : phase'[q] \in {"up", "dead"}
        /\ \A q \in Peer \ R : phase'[q] \in {"off", "dead"}
        /\ \A q, x \in Peer : ~Has(q, "JOIN", x)'
    BY <1>1, <2>1 DEF NoJoin, Away, NodeKind
  <2>3. Frozen(R, N)'
    BY <2>1, <2>2 DEF Frozen, NoJoin, Away
  <2>4. Shape(R, N)'
    BY <1>2, <2>3 DEF Shape
  <2> QED
    BY <2>4 DEF Shaped
<1> QED
  BY <1>5, <1>6, <1>7 DEF Shape

\* Only the peer that has been started has a JOIN on its way.
LEMMA WhoJoins ==
    ASSUME Typed, NEW R \in SUBSET Peer, NEW N \in SUBSET R, Shape(R, N), setting.prompt,
           NEW p \in Peer, NEW n \in Peer, Joins(p, n)
    PROVE  /\ p \in R /\ n \notin R /\ n # Founder /\ phase' = phase
           /\ N = {} \/ R = N
           /\ \A q \in R \cup {n} : phase[q] = "up"
           /\ \A q \in Peer \ (R \cup {n}) : Away(q)
           /\ \A q, x \in Peer : Has(q, "JOIN", x) <=> q = p /\ x = n
           /\ pred[n] = NULL /\ succ[n] = NULL
<1>1. Has(p, "JOIN", n) /\ phase[n] # "joining" /\ phase' = phase
  BY DEF Joins
<1>2. Asking(R, N)
  BY <1>1 DEF Shape, Still, Frozen, NoJoin
<1>3. PICK m \in Peer \ R :
         /\ m # Founder
         /\ N = {} \/ R = N
         /\ \A q \in R : phase[q] = "up"
         /\ phase[m] \in {"joining", "up"}
         /\ \A q \in Peer \ (R \cup {m}) : Away(q)
         /\ \A q, x \in Peer : Has(q, "JOIN", x) => q \in R /\ x = m
         /\ R # {} => \E q \in R : \A r \in Peer : Has(r, "JOIN", m) <=> r = q
  BY <1>2 DEF Asking
<1>4. p \in R /\ m = n
  BY <1>1, <1>3
<1>5. pred[n] = NULL /\ succ[n] = NULL
  BY <1>3, <1>4 DEF Shape, Pointers, Follows
<1>6. \A q, x \in Peer : Has(q, "JOIN", x) <=> q = p /\ x = n
  BY <1>1, <1>3, <1>4
<1> QED
  BY <1>1, <1>3, <1>4, <1>5, <1>6

LEMMA FirstShape ==
    ASSUME Typed, NEW R \in SUBSET Peer, NEW N \in SUBSET R, Shape(R, N), setting.prompt,
           NEW p \in Peer, NEW n \in Peer, JoinsFirst(p, n)
    PROVE  Shape({p, n}, {n})'
<1>1. /\ p \in R /\ n \notin R /\ n # Founder /\ phase' = phase
      /\ N = {} \/ R = N
      /\ \A q \in R \cup {n} : phase[q] = "up"
      /\ \A q \in Peer \ (R \cup {n}) : Away(q)
      /\ \A q, x \in Peer : Has(q, "JOIN", x) <=> q = p /\ x = n
      /\ pred[n] = NULL /\ succ[n] = NULL
  <2>1. Joins(p, n)
    BY DEF JoinsFirst
  <2> QED
    BY <2>1, WhoJoins
<1>2. R = {p} /\ N = {p}
  <2>1. p \in N
    BY <1>1 DEF JoinsFirst, Shape, Pointers
  <2> QED
    BY <1>1, <2>1 DEF Shape, AtMostOne
<1>3. \A q \in Peer : /\ pred'[q] = IF q = p THEN n ELSE NULL
                      /\ succ'[q] = IF q = p THEN n ELSE NULL
  <2>1. \A q \in Peer : q # p => pred[q] = NULL /\ succ[q] = NULL
    BY <1>2 DEF Shape, Pointers, Follows
  <2> QED
    BY <2>1 DEF JoinsFirst, Typed
<1>4. \A q, x \in Peer : /\ ~Has(q, "JOIN", x)'
                         /\ ~Has(q, "STAB", x)'
                         /\ Has(q, "NTFY", x)' <=> q = n /\ x = p
  <2>1. \A q, x \in Peer : ~Has(q, "STAB", x) /\ ~Has(q, "NTFY", x)
    BY <1>2 DEF Shape, Letters, Follows, JoinsFirst
  <2> QED
    BY <1>1, <2>1 DEF JoinsFirst, Moved, NodeKind
<1>5. p # n /\ Follows({p, n}, n, p) /\ Follows({p, n}, p, n)
  BY <1>1 DEF Follows
<1>6. Pointers({p, n}, {n})'
  BY <1>3, <1>5, NoNull DEF Pointers
<1>7. Letters({p, n}, {n})'
  BY <1>4, <1>5 DEF Letters
<1>8. Still({p, n}, {n})'
  BY <1>1, <1>2, <1>4 DEF Still, NoJoin, Away
<1> QED
  BY <1>6, <1>7, <1>8 DEF Shape, AtMostOne

LEMMA HereShape ==
    ASSUME Typed, NEW R \in SUBSET Peer, NEW N \in SUBSET R, Shape(R, N), setting.prompt,
           NEW p \in Peer, NEW n \in Peer, JoinsHere(p, n)
    PROVE  Shape(R \cup {n}, {n})'
<1>1. /\ p \in R /\ n \notin R /\ n # Founder /\ phase' = phase
      /\ N = {} \/ R = N
      /\ \A q \in R \cup {n} : phase[q] = "up"
      /\ \A q \in Peer \ (R \cup {n}) : Away(q)
      /\ \A q, x \in Peer : Has(q, "JOIN", x) <=> q = p /\ x = n
      /\ pred[n] = NULL /\ succ[n] = NULL
  <2>1. Joins(p, n)
    BY DEF JoinsHere
  <2> QED
    BY <2>1, WhoJoins
<1>2. PICK a : a = pred[p] /\ Follows(R, a, p) /\ PeerIsResponsibleP3(a, p, n)
  BY DEF JoinsHere, Shape, Pointers
<1>3. N = {}
  BY <1>1, <1>2 DEF Shape, AtMostOne, Follows
<1>4. PICK S \in SUBSET Peer : S = R \cup {n}
  BY <1>1
<1>5. /\ Follows(S, a, n) /\ Follows(S, n, p)
      /\ \A q, r : Follows(R, q, r) /\ r # p => Follows(S, q, r)
  BY <1>1, <1>2, <1>4, Inserted
<1>6. /\ \A q \in Peer : pred'[q] = IF q = p THEN n ELSE pred[q]
      /\ succ' = succ
  BY DEF JoinsHere, Typed
<1>7. \A q, x \in Peer : /\ ~Has(q, "JOIN", x)'
                         /\ Has(q, "STAB", x)' <=> Has(q, "STAB", x)
                         /\ Has(q, "NTFY", x)' <=> Has(q, "NTFY", x) \/ (q = n /\ x = p)
  BY <1>1 DEF JoinsHere, Moved, NodeKind
<1>8. Pointers(S, {n})'
  BY <1>1, <1>3, <1>4, <1>5, <1>6, NoNull DEF Shape, Pointers
<1>9. Letters(S, {n})'
  BY <1>1, <1>3, <1>4, <1>5, <1>6, <1>7 DEF Shape, Letters, Pointers
<1>10. Still(S, {n})'
  BY <1>1, <1>4, <1>7 DEF Still, NoJoin, Away
<1> QED
  BY <1>4, <1>8, <1>9, <1>10 DEF Shape, AtMostOne

LEMMA OnwardShape ==
    ASSUME Typed, NEW R \in SUBSET Peer, NEW N \in SUBSET R, Shape(R, N), setting.prompt,
           NEW p \in Peer, NEW n \in Peer, JoinsOnward(p, n)
    PROVE  Shape(R, N)'
<1>1. /\ p \in R /\ n \notin R /\ n # Founder /\ phase' = phase
      /\ N = {} \/ R = N
      /\ \A q \in R \cup {n} : phase[q] = "up"
      /\ \A q \in Peer \ (R \cup {n}) : Away(q)
      /\ \A q, x \in Peer : Has(q, "JOIN", x) <=> q = p /\ x = n
      /\ pred[n] = NULL /\ succ[n] = NULL
  <2>1. Joins(p, n)
    BY DEF JoinsOnward
  <2> QED
    BY <2>1, WhoJoins
<1>2. PICK s \in Peer : s = succ[p]
  BY DEF JoinsOnward
<1>3. s \in R
  BY <1>2, NoNull DEF Shape, Pointers
<1>4. /\ UNCHANGED <<pred, succ>>
      /\ \A q, x \in Peer : /\ Has(q, "JOIN", x)' <=> q = s /\ x = n
                            /\ Has(q, "STAB", x)' <=> Has(q, "STAB", x)
                            /\ Has(q, "NTFY", x)' <=> Has(q, "NTFY", x)
  BY <1>1, <1>2, <1>3 DEF JoinsOnward, Moved, NodeKind
<1>5. Pointers(R, N)' /\ Letters(R, N)'
  BY <1>4 DEF Shape, Pointers, Letters
<1>6. Asking(R, N)'
  BY <1>1, <1>3, <1>4 DEF Asking, Away
<1> QED
  BY <1>5, <1>6 DEF Shape

\* A dead peer stays as it is.
LEMMA EndedEarlyStays ==
    ASSUME Typed, Effect, EndedEarly
    PROVE  EndedEarly'
<1>1. PICK e \in Peer \ {Founder} : phase[e] = "dead" /\ pred[e] = NULL /\ succ[e] = NULL
  BY DEF EndedEarly
<1>2. phase'[e] = "dead" /\ pred'[e] = NULL /\ succ'[e] = NULL
  <2>1. ASSUME Founds PROVE phase'[e] = "dead" /\ pred'[e] = NULL /\ succ'[e] = NULL
    BY <1>1, <2>1 DEF Founds, Typed
  <2>2. ASSUME Idles PROVE phase'[e] = "dead" /\ pred'[e] = NULL /\ succ'[e] = NULL
    BY <1>1, <2>2 DEF Idles
  <2>3. ASSUME NEW p \in Peer, NEW n \in Peer,
               \/ Starts(n, p) \/ StartsAlone(n) \/ Listens(p) \/ Stabilizes(p) \/ Ends(p)
        PROVE  phase'[e] = "dead" /\ pred'[e] = NULL /\ succ'[e] = NULL
    BY <1>1, <2>3 DEF Starts, StartsAlone, Listens, Stabilizes, Ends, Typed
  <2>4. ASSUME NEW p \in Peer, NEW n \in Peer,
               \/ JoinsFirst(p, n) \/ JoinsHere(p, n) \/ JoinsOnward(p, n)
        PROVE  phase'[e] = "dead" /\ pred'[e] = NULL /\ succ'[e] = NULL
    BY <1>1, <2>4 DEF JoinsFirst, JoinsHere, JoinsOnward, Joins, Typed
  <2>5. ASSUME NEW p \in Peer, NEW n \in Peer, TellsPred(p, n)
        PROVE  phase'[e] = "dead" /\ pred'[e] = NULL /\ succ'[e] = NULL
    BY <1>1, <2>5 DEF TellsPred, Typed
  <2>6. ASSUME NEW p \in Peer, NEW n \in Peer, Learns(p, n)
        PROVE  phase'[e] = "dead" /\ pred'[e] = NULL /\ succ'[e] = NULL
    BY <1>1, <2>6 DEF Learns, Typed
  <2> QED
    BY <2>1, <2>2, <2>3, <2>4, <2>5, <2>6 DEF Effect
<1> QED
  BY <1>2 DEF EndedEarly

\* The founder joins nobody; where the joins do not overlap, nobody runs
\* before it.
FounderFirst ==
    /\ phase[Founder] # "joining"
    /\ phase[Founder] = "off" /\ ~setting.overlap => \A p \in Peer : phase[p] = "off"

LEMMA FounderFirstStep ==
    ASSUME Typed, FounderFirst, Effect, setting' = setting
    PROVE  FounderFirst'
<1>1. Founder \in Peer
  BY IdentifierAssumption
<1>2. ASSUME Founds PROVE FounderFirst'
  BY <1>1, <1>2 DEF Founds, FounderFirst, Typed
<1>3. ASSUME phase' = phase PROVE FounderFirst'
  BY <1>3 DEF FounderFirst
<1>4. ASSUME NEW n \in Peer, NEW p \in Peer,
             Starts(n, p) \/ StartsAlone(n) \/ Listens(p) \/ Ends(p)
      PROVE  FounderFirst'
  BY <1>1, <1>4 DEF Starts, StartsAlone, Listens, Ends, FounderFirst, Typed
<1>5. Idles => phase' = phase
  BY DEF Idles
<1>6. ASSUME NEW n \in Peer, NEW p \in Peer,
             \/ Stabilizes(p) \/ JoinsFirst(p, n) \/ JoinsHere(p, n) \/ JoinsOnward(p, n)
             \/ TellsPred(p, n) \/ Learns(p, n)
      PROVE  phase' = phase
  BY <1>6 DEF Stabilizes, JoinsFirst, JoinsHere, JoinsOnward, Joins, TellsPred, Learns
<1> QED
  BY <1>2, <1>3, <1>4, <1>5, <1>6 DEF Effect

OneByOne == ~setting.overlap /\ ~EndedEarly => Shaped

LEMMA ShapeStep ==
    ASSUME Typed, FounderFirst, Effect, setting.prompt, ~setting.overlap,
           NEW R \in SUBSET Peer, NEW N \in SUBSET R, Shape(R, N)
    PROVE  Shaped' \/ EndedEarly'
<1>1. ASSUME Founds PROVE Shaped'
  <2>1. Shape({Founder}, {Founder})'
    BY <1>1, FoundsShape DEF FounderFirst, Founds
  <2> QED
    BY <2>1, IdentifierAssumption DEF Shaped
<1>2. ASSUME QuietStep PROVE Shaped'
  <2>1. Shape(R, N)'
    BY <1>2, QuietShape DEF Shape
  <2> QED
    BY <2>1 DEF Shaped
<1>3. ASSUME NEW p \in Peer, NEW n \in Peer, Starts(n, p) PROVE Shaped'
  BY <1>3, StartsShape
<1>4. ASSUME NEW p \in Peer, Listens(p) PROVE Shaped'
  BY <1>4, ListensShape
<1>5. ASSUME NEW p \in Peer, Ends(p) PROVE Shaped' \/ EndedEarly'
  BY <1>5, EndsShape
<1>6. ASSUME NEW p \in Peer, NEW n \in Peer, JoinsFirst(p, n) PROVE Shaped'
  <2>1. Shape({p, n}, {n})'
    BY <1>6, FirstShape
  <2> QED
    BY <2>1 DEF Shaped
<1>7. ASSUME NEW p \in Peer, NEW n \in Peer, JoinsHere(p, n) PROVE Shaped'
  <2>1. Shape(R \cup {n}, {n})'
    BY <1>7, HereShape
  <2> QED
    BY <2>1 DEF Shaped
<1>8. ASSUME NEW p \in Peer, NEW n \in Peer, JoinsOnward(p, n) PROVE Shaped'
  <2>1. Shape(R, N)'
    BY <1>8, OnwardShape
  <2> QED
    BY <2>1 DEF Shaped
<1>9. \A n \in Peer : ~StartsAlone(n)
  BY DEF StartsAlone
<1> QED
  BY <1>1, <1>2, <1>3, <1>4, <1>5, <1>6, <1>7, <1>8, <1>9 DEF Effect, QuietStep

\* While peers are started one at a time, the ring has a shape.
CircleInv ==
    /\ Typed /\ setting \in Setting
    /\ FounderFirst /\ OneByOne

LEMMA CircleStart == Init => CircleInv
<1> SUFFICES ASSUME Init PROVE CircleInv
  OBVIOUS
<1>1. Typed /\ setting \in Setting /\ FounderFirst
  BY IdentifierAssumption DEF Init, Typed, Inboxes, FounderFirst
<1>2. Shape({}, {})
  BY DEF Init, Shape, AtMostOne, Pointers, Letters, Still, NoJoin, Away, Has
<1> QED
  BY <1>1, <1>2 DEF CircleInv, OneByOne, Shaped

\* Packets about peers are sent, at most.
Plain ==
    /\ \A p \in Peer : phase'[p] = "dead" => phase[p] = "dead"
    /\ fingers' = fingers
    /\ \A q \in Peer : \A m \in inbox'[q] : m \in inbox[q] \/ m.type \in NodeKind

\* A step that leaves the ring alone.
LEMMA Stutter ==
    ASSUME Typed, UNCHANGED vars
    PROVE  Typed' /\ Idles /\ Effect /\ Plain /\ setting' = setting
BY DEF vars, Typed, Idles, SameMail, Has, Effect, Plain

LEMMA CircleStep ==
    ASSUME OrderlySettings, CircleInv, Typed', Effect, setting' = setting
    PROVE  CircleInv'
<1>1. FounderFirst'
  BY FounderFirstStep DEF CircleInv
<1>2. ASSUME ~setting.overlap, ~EndedEarly' PROVE Shaped'
  <2>1. setting.prompt
    BY <1>2 DEF CircleInv, OrderlySettings
  <2>2. PICK R \in SUBSET Peer : \E N \in SUBSET R : Shape(R, N)
    BY <1>2, EndedEarlyStays DEF CircleInv, OneByOne, Shaped
  <2>3. PICK N \in SUBSET R : Shape(R, N)
    BY <2>2
  <2> QED
    BY <1>2, <2>1, <2>3, ShapeStep DEF CircleInv
<1> QED
  BY <1>1, <1>2 DEF CircleInv, OneByOne

LEMMA CircleNext ==
    ASSUME OrderlySettings, CircleInv, [Next]_vars
    PROVE  CircleInv'
<1>1. CASE UNCHANGED vars
  BY <1>1, Stutter, CircleStep DEF CircleInv
<1>2. CASE Next
  BY <1>2, StepEffect, CircleStep DEF CircleInv, Next
<1> QED
  BY <1>1, <1>2

\* While peers are started one at a time, and none ends before it knows a
\* neighbour, the peers that have joined form a circle: every predecessor is
\* the next peer before, every successor the next behind, but for the one
\* that has joined last.
THEOREM CircleInvariant ==
    ASSUME OrderlySettings
    PROVE  Spec => []CircleInv
<1>1. CircleInv /\ [Next]_vars => CircleInv'
  BY CircleNext
<1> QED
  BY <1>1, CircleStart, PTL DEF Spec

\* On the circle the arcs of two peers have nothing in common.
LEMMA OwnerIsOne == CircleInv => AtMostOneOwner
<1> SUFFICES ASSUME CircleInv, ~setting.overlap, ~EndedEarly,
                    NEW h \in HashId, NEW p \in Peer, NEW q \in Peer, Owns(p, h), Owns(q, h)
             PROVE  p = q
  BY DEF AtMostOneOwner
<1>1. PICK R \in SUBSET Peer : \E N \in SUBSET R : Pointers(R, N)
  BY DEF CircleInv, OneByOne, Shaped, Shape
<1>2. PICK a, b : a = pred[p] /\ b = pred[q] /\ Follows(R, a, p) /\ Follows(R, b, q)
  BY <1>1 DEF Pointers, Owns
<1>3. h \in Nat /\ PeerIsResponsibleP3(a, p, h) /\ PeerIsResponsibleP3(b, q, h)
  BY <1>2, SpaceIs DEF Owns
<1> QED
  BY <1>2, <1>3, OneArc

\* No hash is claimed by two peers (peer_is_responsible of peer.c), however
\* many peers there are and wherever their packets are.
THEOREM OneOwner ==
    ASSUME OrderlySettings
    PROVE  Spec => []AtMostOneOwner
<1> QED
  BY OwnerIsOne, CircleInvariant, PTL
-----------------------------------------------------------------------------
(* Lookups in a ring that nothing disturbs                                 *)

Looking == \E p \in Peer : \E m \in inbox[p] : m.type \in {"FNGR", "LKUP", "RPLY"}

\* What can end a peer.
Cause(p) ==
    /\ phase[p] = "up"
    /\ \/ succ[p] # NULL /\ phase[succ[p]] # "up"
       \/ Looking /\ (pred[p] = NULL \/ succ[p] = NULL)
       \/ \E n \in Peer : /\ Has(p, "JOIN", n)
                          /\ \/ pred[p] = NULL /\ succ[p] # NULL
                             \/ pred[p] # NULL /\ succ[p] = NULL

\* A FINGER packet is sent.
Asks ==
    /\ Idles /\ fingers' \subseteq fingers
    /\ \E p \in fingers : phase[p] = "up" /\ Calm
    /\ \A q \in Peer : \A m \in inbox'[q] : m \in inbox[q] \/ m.type = "FNGR"

\* p names the peer n as the one responsible for h.
Names(p, n, h) ==
    \/ n = p /\ Owns(p, h)
    \/ n = succ[p] /\ succ[p] # NULL /\ PeerIsResponsibleP3(p, succ[p], h)

\* A lookup goes on or is answered.
Seeks ==
    /\ Looking /\ UNCHANGED <<phase, pred, succ, fingers>>
    /\ \A q \in Peer : \A m \in inbox'[q] :
          \/ m \in inbox[q] \/ m.type = "LKUP"
          \/ m.type = "RPLY" /\ \E p \in Peer : phase[p] = "up" /\ Names(p, m.node, m.hash)

LookEffect ==
    \/ Plain \/ Asks \/ Seeks
    \/ \E p \in Peer : Cause(p) /\ Die(p)

\* What arrives was there before or has been sent.
LEMMA WhatArrives ==
    ASSUME inbox \in Inboxes, NEW p \in Peer, NEW q \in Peer, NEW m, NEW ms,
           \/ inbox' = SentTo(Taken(p, m), q, ms)
           \/ inbox' = SentTo(inbox, q, ms)
    PROVE  \A r \in Peer : \A n \in inbox'[r] : n \in inbox[r] \/ n \in ms
BY DEF SentTo, Taken, Inboxes

LEMMA MemberLook ==
    ASSUME Typed, NEW p \in Peer, NEW m \in inbox[p],
           \/ JoinFirst(p, m) \/ JoinHere(p, m) \/ JoinForward(p, m)
           \/ HandleStab(p, m) \/ HandleNotify(p, m) \/ HandleReply(p, m)
    PROVE  Plain
<1>1. m \in Packet /\ (m.type \in NodeKind => m.node \in Peer)
  BY PacketFields DEF Typed, Inboxes
<1>2. inbox \in Inboxes
  BY DEF Typed
<1>3. UNCHANGED <<phase, fingers>>
  BY DEF JoinFirst, JoinHere, JoinForward, HandleStab, HandleNotify, HandleReply
<1>4. CASE HandleNotify(p, m) \/ HandleReply(p, m)
  <2>1. inbox' = Taken(p, m)
    BY <1>4 DEF HandleNotify, HandleReply
  <2> QED
    BY <1>2, <1>3, <2>1, TakenIs DEF Plain
<1>5. CASE JoinFirst(p, m) \/ JoinHere(p, m)
  <2>1. inbox' = SentTo(Taken(p, m), m.node, {Node("NTFY", p)}) /\ m.type = "JOIN"
    BY <1>5 DEF JoinFirst, JoinHere, TakesJoin
  <2>2. \A r \in Peer : \A n \in inbox'[r] : n \in inbox[r] \/ n \in {Node("NTFY", p)}
    BY <1>1, <1>2, <2>1, WhatArrives DEF NodeKind
  <2> QED
    BY <1>3, <2>2, NodeIs DEF Plain, NodeKind
<1>6. CASE JoinForward(p, m)
  <2>1. inbox' = SentTo(Taken(p, m), succ[p], {m}) /\ m.type = "JOIN" /\ succ[p] \in Peer
    BY <1>6 DEF JoinForward, TakesJoin, Typed
  <2>2. \A r \in Peer : \A n \in inbox'[r] : n \in inbox[r] \/ n \in {m}
    BY <1>2, <2>1, WhatArrives
  <2> QED
    BY <1>3, <2>1, <2>2 DEF Plain, NodeKind
<1>7. CASE HandleStab(p, m)
  <2>1. PICK n : n = IF pred[p] = NULL THEN m.node ELSE pred[p]
    OBVIOUS
  <2>2. inbox' = SentTo(Taken(p, m), m.node, {Node("NTFY", n)}) /\ m.type = "STAB"
    BY <1>7, <2>1 DEF HandleStab
  <2>3. \A r \in Peer : \A k \in inbox'[r] : k \in inbox[r] \/ k \in {Node("NTFY", n)}
    BY <1>1, <1>2, <2>2, WhatArrives DEF NodeKind
  <2> QED
    BY <1>3, <2>3, NodeIs DEF Plain, NodeKind
<1> QED
  BY <1>4, <1>5, <1>6, <1>7

LEMMA LookupLook ==
    ASSUME Typed, NEW p \in Peer, NEW m \in inbox[p],
           LookupAnswer(p, m) \/ LookupForward(p, m) \/ HandleFinger(p, m)
    PROVE  Seeks \/ (Cause(p) /\ Die(p))
<1>1. m \in Packet /\ inbox \in Inboxes
  BY DEF Typed, Inboxes
<1>2. Looking /\ phase[p] = "up"
  BY DEF LookupAnswer, LookupForward, HandleFinger, Takes, Looking
<1>3. ASSUME HandleFinger(p, m), succ[p] = NULL PROVE Cause(p) /\ Die(p)
  BY <1>2, <1>3 DEF HandleFinger, Cause
<1>4. ASSUME HandleFinger(p, m), succ[p] # NULL PROVE Seeks
  <2>1. PICK ms : ms = {Lkup(d % Space, p, NULL) : d \in Steps}
    OBVIOUS
  <2>2. /\ inbox' = SentTo(Taken(p, m), succ[p], ms) /\ succ[p] \in Peer
        /\ UNCHANGED <<phase, pred, succ, fingers>>
    BY <1>4, <2>1 DEF HandleFinger, Typed
  <2>3. \A r \in Peer : \A n \in inbox'[r] : n \in inbox[r] \/ n \in ms
    BY <1>1, <2>2, WhatArrives
  <2>4. \A n \in ms : n.type = "LKUP"
    BY <2>1 DEF Lkup
  <2> QED
    BY <1>2, <2>2, <2>3, <2>4 DEF Seeks
<1>5. ASSUME LookupForward(p, m) PROVE Seeks
  <2>1. /\ inbox' = SentTo(Taken(p, m), succ[p], {m}) /\ succ[p] \in Peer
        /\ UNCHANGED <<phase, pred, succ, fingers>> /\ m.type = "LKUP"
    BY <1>5 DEF LookupForward, Typed
  <2>2. \A r \in Peer : \A n \in inbox'[r] : n \in inbox[r] \/ n \in {m}
    BY <1>1, <2>1, WhatArrives
  <2> QED
    BY <1>2, <2>1, <2>2 DEF Seeks
<1>6. ASSUME LookupAnswer(p, m) PROVE Seeks
  <2>1. m.node \in Peer
    BY <1>1, <1>6, PacketFields DEF LookupAnswer
  <2>2. PICK n \in {p, succ[p]} \ {NULL} :
           /\ IF n = p THEN Owns(p, m.hash)
              ELSE ~Owns(p, m.hash) /\ PeerIsResponsibleP3(p, n, m.hash)
           /\ inbox' = SentTo(Taken(p, m), m.node, {Rply(m.hash, n, m.tag)})
    BY <1>6 DEF LookupAnswer
  <2>3. Names(p, n, m.hash)
    BY <2>2 DEF Names
  <2>4. \A r \in Peer : \A k \in inbox'[r] :
           k \in inbox[r] \/ k \in {Rply(m.hash, n, m.tag)}
    BY <1>1, <2>1, <2>2, WhatArrives
  <2>5. \A k \in {Rply(m.hash, n, m.tag)} : k.type = "RPLY" /\ k.node = n /\ k.hash = m.hash
    BY DEF Rply
  <2>6. UNCHANGED <<phase, pred, succ, fingers>>
    BY <1>6 DEF LookupAnswer
  <2> QED
    BY <1>2, <2>3, <2>4, <2>5, <2>6 DEF Seeks
<1> QED
  BY <1>3, <1>4, <1>5, <1>6

LEMMA CrashLook ==
    ASSUME Typed, NEW p \in Peer, NEW m \in inbox[p], JoinCrash(p, m) \/ LookupCrash(p, m)
    PROVE  Cause(p) /\ Die(p)
<1>1. m \in Packet
  BY DEF Typed, Inboxes
<1>2. CASE JoinCrash(p, m)
  <2>1. PICK n \in Peer : n = m.node /\ m = Node("JOIN", n)
    BY <1>1, <1>2, PacketFields DEF JoinCrash, TakesJoin, NodeKind
  <2> QED
    BY <1>2, <2>1 DEF JoinCrash, TakesJoin, Takes, Cause, Has
<1>3. CASE LookupCrash(p, m)
  BY <1>3 DEF LookupCrash, Takes, Cause, Looking
<1> QED
  BY <1>2, <1>3

LEMMA UserLook ==
    ASSUME Typed, NEW p \in Peer, NEW q \in Peer,
           Found \/ SendJoin(p, q) \/ Listen(p) \/ AskFingers(p) \/ Stabilize(p)
    PROVE  LookEffect
<1>1. inbox \in Inboxes
  BY DEF Typed
<1>2. CASE Found \/ Listen(p)
  BY <1>2 DEF Found, Listen, LookEffect, Plain, Typed
<1>3. CASE SendJoin(p, q)
  <2>1. /\ inbox' = SentTo(inbox, q, {Node("JOIN", p)})
        /\ phase' = [phase EXCEPT ![p] = "joining"] /\ fingers' = fingers
    BY <1>3 DEF SendJoin
  <2>2. \A r \in Peer : \A n \in inbox'[r] : n \in inbox[r] \/ n \in {Node("JOIN", p)}
    BY <1>1, <2>1, WhatArrives
  <2> QED
    BY <2>1, <2>2, NodeIs DEF LookEffect, Plain, NodeKind, Typed
<1>4. CASE AskFingers(p)
  <2>1. \A r \in Peer : \A n : n \in inbox'[r] <=> n \in inbox[r] \/ (r = p /\ n = Fngr)
    BY <1>1, <1>4 DEF AskFingers, Inboxes
  <2>2. Fngr.type = "FNGR" /\ \A v \in NodeKind : \A x : Node(v, x) # Fngr
    BY DEF Fngr, Node, NodeKind
  <2>3. Idles
    BY <1>4, <2>1, <2>2 DEF AskFingers, Idles, SameMail, Has
  <2>4. Asks
    BY <1>4, <2>1, <2>2, <2>3 DEF AskFingers, Asks
  <2> QED
    BY <2>4 DEF LookEffect
<1>5. CASE Stabilize(p)
  <2>1. CASE phase[succ[p]] = "up"
    <3>1. /\ inbox' = SentTo(inbox, succ[p], {Node("STAB", p)}) /\ succ[p] \in Peer
          /\ UNCHANGED <<phase, fingers>>
      BY <1>5, <2>1 DEF Stabilize, Typed
    <3>2. \A r \in Peer : \A n \in inbox'[r] : n \in inbox[r] \/ n \in {Node("STAB", p)}
      BY <1>1, <3>1, WhatArrives
    <3> QED
      BY <3>1, <3>2, NodeIs DEF LookEffect, Plain, NodeKind
  <2>2. CASE phase[succ[p]] # "up"
    BY <1>5, <2>2 DEF Stabilize, LookEffect, Cause
  <2> QED
    BY <2>1, <2>2
<1> QED
  BY <1>2, <1>3, <1>4, <1>5

LEMMA LookStep == ASSUME Typed, Step PROVE LookEffect
<1>1. ASSUME NEW p \in Peer, NEW m \in inbox[p], HandlePacketCtrl(p, m) PROVE LookEffect
  <2>1. \/ Plain \/ Seeks \/ (Cause(p) /\ Die(p))
    BY <1>1, MemberLook, LookupLook, CrashLook DEF HandlePacketCtrl
  <2> QED
    BY <2>1 DEF LookEffect
<1>2. Founder \in Peer
  BY IdentifierAssumption
<1> QED
  BY <1>1, <1>2, UserLook DEF Step

\* A ring that is complete and has nobody joining.
Circle(R) == /\ R # {} /\ AtMostOne({})
             /\ Pointers(R, {}) /\ Letters(R, {}) /\ Still(R, {})

Replies == \A q \in Peer : \A m \in inbox[q] : m.type = "RPLY" => Owns(m.node, m.hash)

\* Lookups run in complete rings only.
CalmInv == Undisturbed =>
    /\ AllAlive /\ Founder \notin fingers
    /\ Looking => \E R \in SUBSET Peer : Circle(R)
    /\ Replies

\* Nothing can end a peer.
LEMMA NoCause ==
    ASSUME Typed, Shaped, AllAlive, Looking => \E R \in SUBSET Peer : Circle(R),
           NEW p \in Peer, Cause(p)
    PROVE  FALSE
<1>1. PICK R \in SUBSET Peer : \E N \in SUBSET R : Shape(R, N)
  BY DEF Shaped
<1>2. PICK N \in SUBSET R : Shape(R, N)
  BY <1>1
<1>3. PICK s : s = succ[p]
  OBVIOUS
<1>4. /\ phase[p] = "up"
      /\ \/ s # NULL /\ phase[s] # "up"
         \/ Looking /\ (pred[p] = NULL \/ s = NULL)
         \/ \E n \in Peer : /\ Has(p, "JOIN", n)
                            /\ \/ pred[p] = NULL /\ s # NULL
                               \/ pred[p] # NULL /\ s = NULL
  BY <1>3 DEF Cause
<1>5. s # NULL => p \in R /\ s \in R /\ s # p
  BY <1>2, <1>3 DEF Shape, Pointers
<1>6. \A r \in R : phase[r] = "up"
  BY <1>2 DEF Shape, Still, Asking, Frozen, AllAlive
<1>7. ASSUME Looking, pred[p] = NULL \/ s = NULL PROVE FALSE
  <2>1. PICK C \in SUBSET Peer : Circle(C)
    BY <1>7
  <2>2. p \in C
    BY <1>4, <2>1 DEF Circle, Still, Away
  <2> QED
    BY <1>3, <1>7, <2>1, <2>2 DEF Circle, Pointers
<1>8. ASSUME NEW n \in Peer, Has(p, "JOIN", n),
             \/ pred[p] = NULL /\ s # NULL
             \/ pred[p] # NULL /\ s = NULL
      PROVE  FALSE
  <2>1. p \in R /\ (N = {} \/ R = N)
    BY <1>2, <1>8 DEF Shape, Still, Frozen, Asking, NoJoin
  <2>2. \E q \in R : q # p
    BY <1>2, <1>5, <1>8 DEF Shape, Pointers, Follows
  <2>3. N = {}
    BY <1>2, <2>1, <2>2 DEF Shape, AtMostOne
  <2> QED
    BY <1>2, <1>3, <1>8, <2>1, <2>3 DEF Shape, Pointers
<1> QED
  BY <1>4, <1>5, <1>6, <1>7, <1>8

\* While lookups are on their way, nobody joins, and who has a predecessor
\* keeps it.
LEMMA LookingKeeps ==
    ASSUME Typed, FounderFirst, Effect, AllAlive', Undisturbed, Looking,
           NEW R \in SUBSET Peer, Circle(R)
    PROVE  Circle(R)' /\ \A p \in Peer : pred[p] # NULL => pred'[p] = pred[p]
<1>1. ~Founds
  BY DEF Founds, FounderFirst, Circle, Still, Undisturbed
<1>2. \A n, p \in Peer : ~Starts(n, p) /\ ~StartsAlone(n)
  BY DEF Starts, StartsAlone, Calm, Undisturbed, Quiet, Looking
<1>3. \A p \in Peer : ~Listens(p)
  BY DEF Listens, Circle, Still, Away
<1>4. \A p \in Peer : ~Ends(p)
  BY DEF Ends, AllAlive, Typed
<1>5. \A n, p \in Peer : ~Joins(p, n)
  BY DEF Joins, Circle, Still, NoJoin
<1>6. QuietStep
  BY <1>1, <1>2, <1>3, <1>4, <1>5
     DEF Effect, QuietStep, JoinsFirst, JoinsHere, JoinsOnward
<1>7. Circle(R)'
  <2>1. {} \in SUBSET R
    OBVIOUS
  <2> QED
    BY <1>6, <2>1, QuietShape DEF Circle
<1>8. \A p \in Peer : pred[p] # NULL => pred'[p] = pred[p]
  <2>1. ASSUME NEW p \in Peer, NEW x \in Peer, TellsPred(p, x)
        PROVE  \A q \in Peer : pred[q] # NULL => pred'[q] = pred[q]
    BY <2>1 DEF TellsPred, Typed
  <2>2. ASSUME NEW p \in Peer, NEW x \in Peer, Stabilizes(p) \/ Learns(p, x)
        PROVE  pred' = pred
    BY <2>2 DEF Stabilizes, Learns
  <2>3. Idles => pred' = pred
    BY DEF Idles
  <2> QED
    BY <1>6, <2>1, <2>2, <2>3 DEF QuietStep
<1> QED
  BY <1>7, <1>8

\* A peer that a client sends a FINGER packet is in a complete ring.
LEMMA AsksCircle ==
    ASSUME Typed, FounderFirst, AllAlive, Founder \notin fingers, fingers \subseteq Peer,
           Shaped, Undisturbed, Asks
    PROVE  \E R \in SUBSET Peer : Circle(R)'
<1>1. PICK p \in Peer : p \in fingers /\ phase[p] = "up" /\ Calm
  BY DEF Asks
<1>2. Settled /\ Quiet
  BY <1>1 DEF Calm, Undisturbed
<1>3. PICK R \in SUBSET Peer : \E N \in SUBSET R : Shape(R, N)
  BY DEF Shaped
<1>4. PICK N \in SUBSET R : Shape(R, N)
  BY <1>3
<1>5. /\ Still(R, N) /\ p \in R
      /\ \/ R # {p} /\ Pointers(R, {}) /\ Letters(R, {})
         \/ R = {p} /\ N = {p} /\ succ[p] = NULL
  BY <1>1, <1>2, <1>4, SettledShape
<1>6. Founder \in R /\ Founder # p
  <2>1. Founder \in Peer /\ phase[Founder] = "up" /\ Founder # p
    BY <1>1, IdentifierAssumption DEF FounderFirst, AllAlive, Typed, Undisturbed
  <2> QED
    BY <1>5, <2>1 DEF Still, Away
<1>7. Circle(R)
  BY <1>5, <1>6 DEF Circle, Still, AtMostOne
<1>8. QuietStep /\ {} \in SUBSET R
  BY DEF Asks, QuietStep
<1>9. Circle(R)'
  BY <1>7, <1>8, QuietShape DEF Circle
<1> QED
  BY <1>9

\* A reply names the peer that is responsible.
LEMMA NamesOwner ==
    ASSUME Typed, NEW R \in SUBSET Peer, Circle(R), NEW p \in Peer, phase[p] = "up",
           NEW n, NEW h, Names(p, n, h)
    PROVE  Owns(n, h) /\ n \in Peer
<1>1. CASE n = p /\ Owns(p, h)
  BY <1>1
<1>2. CASE n = succ[p] /\ succ[p] # NULL /\ PeerIsResponsibleP3(p, succ[p], h)
  <2>1. n \in R /\ Follows(R, p, n)
    BY <1>2 DEF Circle, Pointers, Follows
  <2>2. pred[n] # NULL /\ Follows(R, pred[n], n)
    BY <2>1 DEF Circle, Pointers
  <2>3. pred[n] = p
    BY <2>1, <2>2, FollowsOnce
  <2> QED
    BY <1>2, <2>1, <2>2, <2>3 DEF Owns
<1> QED
  BY <1>1, <1>2 DEF Names

LEMMA UndisturbedStep ==
    ASSUME Typed, Typed', FounderFirst, Effect, LookEffect, Undisturbed, Shaped,
           fingers \subseteq Peer, CalmInv
    PROVE  /\ AllAlive' /\ Founder \notin fingers'
           /\ Looking' => \E R \in SUBSET Peer : Circle(R)'
           /\ Replies'
<1>1. /\ AllAlive /\ Founder \notin fingers
      /\ Looking => \E R \in SUBSET Peer : Circle(R)
      /\ Replies
  BY DEF CalmInv
<1>2. Plain \/ Asks \/ Seeks
  BY <1>1, NoCause DEF LookEffect
<1>3. AllAlive' /\ fingers' \subseteq fingers
  BY <1>1, <1>2 DEF Plain, Asks, Seeks, AllAlive, Idles
<1>4. Looking' => Looking \/ Asks
  BY <1>2 DEF Looking, Plain, Seeks, NodeKind
<1>5. ASSUME Looking PROVE \E R \in SUBSET Peer : Circle(R)'
  BY <1>1, <1>3, <1>5, LookingKeeps
<1>6. ASSUME Asks PROVE \E R \in SUBSET Peer : Circle(R)'
  BY <1>1, <1>6, AsksCircle
<1>7. Replies'
  <2> SUFFICES ASSUME NEW q \in Peer, NEW m \in inbox'[q], m.type = "RPLY"
               PROVE  Owns(m.node, m.hash)'
    BY DEF Replies
  <2>1. PICK n : n = m.node
    OBVIOUS
  <2>2. PICK h : h = m.hash
    OBVIOUS
  <2>3. n \in Peer
    BY <2>1, PacketFields DEF Typed, Inboxes
  <2>4. Looking /\ Owns(n, h)
    <3>1. CASE m \in inbox[q]
      BY <1>1, <2>1, <2>2, <3>1 DEF Replies, Looking
    <3>2. CASE m \notin inbox[q]
      <4>1. Looking /\ \E p \in Peer : phase[p] = "up" /\ Names(p, n, h)
        BY <1>2, <2>1, <2>2, <3>2 DEF Plain, Asks, Seeks, NodeKind
      <4> QED
        BY <1>1, <4>1, NamesOwner
    <3> QED
      BY <3>1, <3>2
  <2>5. pred'[n] = pred[n] /\ pred[n] # NULL
    BY <1>1, <1>3, <2>3, <2>4, LookingKeeps DEF Owns
  <2>6. Owns(n, h)'
    BY <2>4, <2>5 DEF Owns
  <2> QED
    BY <2>1, <2>2, <2>6
<1> QED
  BY <1>1, <1>3, <1>4, <1>5, <1>6, <1>7

LEMMA CalmStart == ASSUME OrderlySettings, Init PROVE CalmInv
<1> SUFFICES ASSUME Undisturbed
             PROVE  AllAlive /\ Founder \notin fingers /\ ~Looking /\ Replies
  BY DEF CalmInv
<1> QED
  BY DEF Init, Undisturbed, AllAlive, OrderlySettings, Looking, Replies

LEMMA CalmStep ==
    ASSUME CalmInv, CircleInv, fingers \subseteq Peer,
           Typed', Effect, setting' = setting, Undisturbed => LookEffect
    PROVE  CalmInv'
<1>1. ASSUME Undisturbed
      PROVE  /\ AllAlive' /\ Founder \notin fingers'
             /\ Looking' => \E R \in SUBSET Peer : Circle(R)'
             /\ Replies'
  <2>1. Shaped
    BY <1>1 DEF CalmInv, CircleInv, OneByOne, Undisturbed, AllAlive, EndedEarly
  <2> QED
    BY <1>1, <2>1, UndisturbedStep DEF CircleInv
<1>2. Undisturbed' => Undisturbed
  BY DEF Undisturbed
<1> QED
  BY <1>1, <1>2 DEF CalmInv

LEMMA CalmNext ==
    ASSUME CalmInv, CircleInv, fingers \subseteq Peer, [Next]_vars
    PROVE  CalmInv'
<1>1. CASE Next
  BY <1>1, StepEffect, LookStep, CalmStep DEF CircleInv, Next
<1>2. CASE UNCHANGED vars
  BY <1>2, Stutter, CalmStep DEF CircleInv, LookEffect
<1> QED
  BY <1>1, <1>2

\* In a ring that nothing disturbs, nobody ends, and lookups run only when
\* every peer knows both neighbours.
THEOREM CalmInvariant ==
    ASSUME OrderlySettings
    PROVE  Spec => []CalmInv
<1>1. Init => CalmInv
  BY CalmStart
<1>2. CalmInv /\ CircleInv /\ fingers \subseteq Peer /\ [Next]_vars => CalmInv'
  BY CalmNext
<1> QED
  BY <1>1, <1>2, CircleInvariant, SettingTyped, PTL DEF Spec

\* No NULL pointer is read and no STABILIZE is sent to a peer that does not
\* listen (peer.c:287-357, stabilize).
THEOREM NobodyEnds ==
    ASSUME OrderlySettings
    PROVE  Spec => []NoCrash
<1>1. CalmInv => NoCrash
  BY DEF CalmInv, NoCrash
<1> QED
  BY <1>1, CalmInvariant, PTL

\* A REPLY on its way names the peer that is responsible for its hash, for as
\* long as it is on its way (peer.c:80, 308-329).
THEOREM RepliesAreRight ==
    ASSUME OrderlySettings
    PROVE  Spec => []RepliesNameOwner
<1>1. CalmInv => RepliesNameOwner
  BY DEF CalmInv, Replies, RepliesNameOwner
<1> QED
  BY <1>1, CalmInvariant, PTL

\* A set of peers that the successors do not lead out of holds all of the
\* circle, but for the peer that has joined last.
LEMMA ClosedHoldsAll ==
    ASSUME Typed, NEW R \in SUBSET Peer, NEW N \in SUBSET R, AtMostOne(N), Pointers(R, N),
           NEW S \in ClosedSets
    PROVE  S # {} /\ S \subseteq R /\ R \ N \subseteq S /\ R \ N # {}
<1>1. S \in SUBSET Peer /\ S # {} /\ \A p \in S : succ[p] \in S
  BY DEF ClosedSets
<1>2. \A p \in S : /\ p \in R /\ succ[p] \in R \ {p}
                   /\ \A r \in R \ (N \cup {p, succ[p]}) : ~PeerIsResponsibleP3(p, succ[p], r)
  BY <1>1, NoNull DEF Pointers
<1>3. S \in SUBSET R
  BY <1>2
<1>4. \A p \in S : \E s \in S \ {p} :
         \A r \in R \ (N \cup {p, s}) : ~PeerIsResponsibleP3(p, s, r)
  BY <1>1, <1>2
<1>5. R \ N \subseteq S
  <2>1. S # {}
    BY <1>1
  <2> QED
    BY <2>1, <1>3, <1>4, LeadsEverywhere, SMTT(60)
<1>6. R \ N # {}
  BY <1>1, <1>2 DEF AtMostOne
<1> QED
  BY <1>1, <1>3, <1>5, <1>6

\* A newcomer that is on the circle of successors is led to by the peer
\* before it.
LEMMA NewcomerIsReached ==
    ASSUME Typed, NEW R \in SUBSET Peer, NEW n \in R, Pointers(R, {n}),
           \A S \in ClosedSets : n \in S,
           NEW p \in R \ {n}, succ[p] # n
    PROVE  ~PeerIsResponsibleP3(p, succ[p], n)
<1> SUFFICES ASSUME PeerIsResponsibleP3(p, succ[p], n) PROVE FALSE
  OBVIOUS
<1>1. PICK s : s = succ[p]
  OBVIOUS
<1>2. \A r \in R \ {n} : succ[r] \in R \ {r}
  BY DEF Pointers
<1>3. PICK r \in R \ {n} : succ[r] = n
  <2> SUFFICES ASSUME \A r \in R \ {n} : succ[r] # n PROVE FALSE
    OBVIOUS
  <2>1. R \ {n} \in ClosedSets
    BY <1>2 DEF ClosedSets
  <2> QED
    BY <2>1
<1>4. Follows(R, r, n)
  BY <1>3, NoNull DEF Pointers, Follows
<1>5. /\ s \in R \ {p, n} /\ PeerIsResponsibleP3(p, s, n)
      /\ \A q \in R \ {n, p, s} : ~PeerIsResponsibleP3(p, s, q)
  BY <1>1, <1>2 DEF Pointers
<1>6. Follows(R, p, n)
  <2>1. p \in Nat /\ s \in Nat /\ n \in Nat /\ \A q \in R : q \in Nat
    BY <1>5, PeersAreNat
  <2>2. ~PeerIsResponsibleP3(p, n, s)
    BY <1>5, <2>1, ArcsNested
  <2>3. \A q \in R \ {p, n} : ~PeerIsResponsibleP3(p, n, q)
    BY <1>5, <2>1, <2>2, ArcFront
  <2> QED
    BY <2>3 DEF Follows
<1>7. r = p
  BY <1>4, <1>6, FollowsOnce
<1> QED
  BY <1>3, <1>7

LEMMA RingIsOrdered == CircleInv /\ CalmInv => OneOrderedRing
<1> SUFFICES ASSUME CircleInv, CalmInv, Undisturbed, ClosedSets # {}
             PROVE  /\ \A S, T \in ClosedSets : S \cap T # {}
                    /\ \A p \in Peer : \A q \in Peer \ {p, succ[p]} :
                         (\A S \in ClosedSets : p \in S /\ q \in S)
                            => ~PeerIsResponsibleP3(p, succ[p], q)
  BY DEF OneOrderedRing
<1>1. Shaped /\ Typed
  BY DEF CalmInv, CircleInv, OneByOne, Undisturbed, AllAlive, EndedEarly
<1>2. PICK R \in SUBSET Peer : \E N \in SUBSET R : AtMostOne(N) /\ Pointers(R, N)
  BY <1>1 DEF Shaped, Shape
<1>3. PICK N \in SUBSET R : AtMostOne(N) /\ Pointers(R, N)
  BY <1>2
<1>4. \A S \in ClosedSets : S \subseteq R /\ R \ N \subseteq S /\ R \ N # {}
  BY <1>1, <1>3, ClosedHoldsAll
<1>5. \A S, T \in ClosedSets : S \cap T # {}
  BY <1>4
<1>6. ASSUME NEW p \in Peer, NEW q \in Peer \ {p, succ[p]},
             \A S \in ClosedSets : p \in S /\ q \in S
      PROVE  ~PeerIsResponsibleP3(p, succ[p], q)
  <2>1. p \in R /\ q \in R
    BY <1>4, <1>6
  <2>2. succ[p] # NULL
    <3>1. PICK S \in ClosedSets : p \in S
      BY <1>6
    <3> QED
      BY <3>1, NoNull DEF ClosedSets
  <2>3. CASE q \notin N
    BY <1>3, <2>1, <2>2, <2>3 DEF Pointers
  <2>4. CASE q \in N
    <3>1. N = {q}
      BY <1>3, <2>4 DEF AtMostOne
    <3> QED
      BY <1>1, <1>3, <1>6, <2>1, <3>1, NewcomerIsReached
  <2> QED
    BY <2>3, <2>4
<1> QED
  BY <1>5, <1>6

\* There is one circle of successors, in the order of the identifiers, and
\* everybody leads to it, whichever peers have joined and however far the
\* STABILIZE and NOTIFY packets about the last one have got.
THEOREM OneRing ==
    ASSUME OrderlySettings
    PROVE  Spec => []OneOrderedRing
<1> QED
  BY RingIsOrdered, CircleInvariant, CalmInvariant, PTL
-----------------------------------------------------------------------------
(* The requests for keys.  What the above shows of the ring holds with     *)
(* them as well; requests are kept, and the ring is one store.             *)
-----------------------------------------------------------------------------
(* Types                                                                   *)

\* Where a connection is at p: it has arrived, p has filed it under its
\* hash, or it is in the loop that p is in.  rt keeps the connections of a
\* hash until the loop over them has ended; those no longer count as filed.
Arrived(p, c) == c \in calls[p]
Row(p, h, c) == \E i \in DOMAIN rt[p][h] : rt[p][h][i] = c
Filed(p, c) == \E h \in KeyHash : ~Loops(p, h) /\ Row(p, h, c)
InLoop(p, c) == job[p] # NoJob /\ \E i \in DOMAIN job[p].todo : job[p].todo[i] = c
Placed(p, c) == Arrived(p, c) \/ Filed(p, c) \/ InLoop(p, c)

\* Commands are known, and what is filed is filed under its hash.
KeyTyped ==
    /\ dht \in [Peer -> [Key -> Value \cup {NoValue}]]
    /\ rt \in [Peer -> [KeyHash -> Seq(Conn)]]
    /\ calls \in [Peer -> SUBSET Conn]
    /\ job \in [Peer -> Job \cup {NoJob}]
    /\ cmd \in [Req -> Cmd \cup {None}]
    /\ rsp \in [Conn -> Answer \cup Broken \cup {None}]
    /\ \A p \in Peer : job[p] # NoJob => job[p].todo # <<>>
    /\ \A p \in Peer, c \in Conn :
          /\ Arrived(p, c) \/ InLoop(p, c) => cmd[c.req] \in Cmd
          /\ \A h \in KeyHash : Row(p, h, c) => cmd[c.req] \in Cmd /\ HashOf(c) = h

\* Who asks for nothing is told nothing.
Unasked == ~setting.asks =>
    /\ cmd = [r \in Req |-> None] /\ rsp = [c \in Conn |-> None]
    /\ dht = [p \in Peer |-> [k \in Key |-> NoValue]]
    /\ \A p \in Peer : /\ calls[p] = {} /\ job[p] = NoJob
                       /\ \A h \in KeyHash : rt[p][h] = <<>>

LEMMA ConnIs ==
    ASSUME NEW c \in Conn
    PROVE  /\ c.req \in Req /\ c.from \in Peer \cup {Client}
           /\ c = [req |-> c.req, from |-> c.from]
           /\ c.from = Client => c = ClientConn(c.req)
BY DEF Conn, ClientConn

LEMMA ConnsBuilt ==
    ASSUME NEW r \in Req, NEW p \in Peer
    PROVE  /\ [req |-> r, from |-> p] \in Conn
           /\ ClientConn(r) \in Conn /\ ClientConn(r).req = r /\ ClientConn(r).from = Client
           /\ [req |-> r, from |-> p].req = r /\ [req |-> r, from |-> p].from = p
BY DEF Conn, ClientConn

\* The hash of a known command.
LEMMA HashIs ==
    ASSUME NEW c, cmd[c.req] \in Cmd
    PROVE  HashOf(c) \in KeyHash /\ HashOf(c) \in HashId
BY TableAssumption DEF HashOf, Cmd, KeyHash

LEMMA KeyHashIs == KeyHash \subseteq HashId
BY TableAssumption DEF KeyHash

LEMMA SeqFacts ==
    ASSUME NEW s \in Seq(Conn), s # <<>>
    PROVE  /\ Head(s) \in Conn /\ Tail(s) \in Seq(Conn)
           /\ 1 \in DOMAIN s /\ s[1] = Head(s)
           /\ \A c : (\E i \in DOMAIN Tail(s) : Tail(s)[i] = c) => \E i \in DOMAIN s : s[i] = c
<1>1. /\ Tail(s) \in Seq(Conn) /\ Len(Tail(s)) = Len(s) - 1 /\ Len(s) \in Nat \ {0}
      /\ DOMAIN s = 1 .. Len(s) /\ DOMAIN Tail(s) = 1 .. Len(Tail(s))
      /\ \A i \in 1 .. Len(Tail(s)) : Tail(s)[i] = s[i + 1]
  OBVIOUS
<1>2. \A i \in DOMAIN Tail(s) : i + 1 \in DOMAIN s /\ Tail(s)[i] = s[i + 1]
  BY <1>1
<1> QED
  BY <1>1, <1>2

\* The loop that p is in.
LEMMA JobIs ==
    ASSUME KeyTyped, NEW p \in Peer, job[p] # NoJob
    PROVE  /\ job[p] \in Job /\ job[p].todo \in Seq(Conn) /\ job[p].todo # <<>>
           /\ job[p].to \in Peer /\ job[p].hash \in KeyHash \cup {None}
           /\ Current(p) \in Conn /\ InLoop(p, Current(p)) /\ cmd[Current(p).req] \in Cmd
           /\ Onward(p) \in Conn /\ Onward(p).req = Current(p).req /\ Onward(p).from = p
<1>1. job[p] \in Job /\ job[p].todo # <<>>
  BY DEF KeyTyped
<1>2. /\ job[p].todo \in Seq(Conn) /\ job[p].to \in Peer
      /\ job[p].hash \in KeyHash \cup {None}
  BY <1>1 DEF Job
<1>3. Current(p) \in Conn /\ InLoop(p, Current(p))
  BY <1>1, <1>2, SeqFacts DEF Current, InLoop
<1>4. cmd[Current(p).req] \in Cmd
  BY <1>3 DEF KeyTyped
<1> QED
  BY <1>1, <1>2, <1>3, <1>4, ConnIs, ConnsBuilt DEF Onward

\* What is read of a peer's open requests and loop stays when they do.
LEMMA SameRows ==
    ASSUME NEW p \in Peer, rt'[p] = rt[p], job'[p] = job[p]
    PROVE  \A c \in Conn : /\ \A h \in KeyHash : Row(p, h, c)' <=> Row(p, h, c)
                           /\ Filed(p, c)' <=> Filed(p, c)
                           /\ InLoop(p, c)' <=> InLoop(p, c)
BY DEF Row, Filed, InLoop, Loops

\* KeyTyped when nothing is filed or looped over but what was before.
LEMMA TypedStays ==
    ASSUME KeyTyped,
           dht' \in [Peer -> [Key -> Value \cup {NoValue}]],
           rt' \in [Peer -> [KeyHash -> Seq(Conn)]],
           calls' \in [Peer -> SUBSET Conn],
           job' \in [Peer -> Job \cup {NoJob}],
           rsp' \in [Conn -> Answer \cup Broken \cup {None}],
           UNCHANGED cmd,
           \A p \in Peer : job'[p] # NoJob => job'[p].todo # <<>>,
           \A p \in Peer, c \in Conn : Arrived(p, c)' \/ InLoop(p, c)' => cmd[c.req] \in Cmd,
           \A p \in Peer, c \in Conn : \A h \in KeyHash : Row(p, h, c)' =>
               cmd[c.req] \in Cmd /\ HashOf(c) = h
    PROVE  KeyTyped'
<1>1. \A c : HashOf(c)' = HashOf(c)
  BY DEF HashOf
<1> QED
  BY <1>1 DEF KeyTyped

LEMMA AnswerIs ==
    ASSUME KeyTyped, NEW p \in Peer, NEW c \in Conn, cmd[c.req] \in Cmd
    PROVE  /\ AnswerTo(dht[p], cmd[c.req]) \in Answer
           /\ Stored(dht[p], cmd[c.req]) \in [Key -> Value \cup {NoValue}]
BY DEF KeyTyped, AnswerTo, Answer, Stored, Cmd

LEMMA IssueTyped ==
    ASSUME KeyTyped, NEW r \in Req, NEW p \in Peer, NEW x \in Cmd, Issue(r, p, x)
    PROVE  KeyTyped'
<1>1. /\ cmd' = [cmd EXCEPT ![r] = x] /\ cmd[r] = None
      /\ calls' = [calls EXCEPT ![p] = @ \cup {ClientConn(r)}]
      /\ UNCHANGED <<dht, rt, job, rsp>>
  BY DEF Issue, ClientConn
<1>2. cmd'[r] = x /\ \A s \in Req : cmd[s] \in Cmd => s # r /\ cmd'[s] = cmd[s]
  BY <1>1, SentinelAssumption DEF KeyTyped
<1>3. \A c \in Conn : cmd[c.req] \in Cmd => cmd'[c.req] \in Cmd /\ HashOf(c)' = HashOf(c)
  BY <1>2, ConnIs DEF HashOf
<1>4. \A q \in Peer, c \in Conn : Arrived(q, c)' => Arrived(q, c) \/ c = ClientConn(r)
  BY <1>1 DEF Arrived, KeyTyped
<1>5. ClientConn(r) \in Conn /\ ClientConn(r).req = r
  BY ConnsBuilt
<1>6. calls' \in [Peer -> SUBSET Conn] /\ cmd' \in [Req -> Cmd \cup {None}]
  BY <1>1, <1>5 DEF KeyTyped
<1>7. \A q \in Peer, c \in Conn : /\ \A h \in KeyHash : Row(q, h, c)' <=> Row(q, h, c)
                                  /\ InLoop(q, c)' <=> InLoop(q, c)
  BY <1>1, SameRows
<1> QED
  BY <1>1, <1>2, <1>3, <1>4, <1>5, <1>6, <1>7 DEF KeyTyped

\* What p has read and not answered is filed or in its loop.
LEMMA HeldIs ==
    ASSUME NEW p
    PROVE  \A c : c \in Held(p) <=> Filed(p, c) \/ InLoop(p, c)
<1>1. \A s : \A c : c \in ToSet(s) <=> \E i \in DOMAIN s : s[i] = c
  BY DEF ToSet
<1>2. PICK A, B : /\ A = UNION {ToSet(rt[p][h]) : h \in {g \in KeyHash : ~Loops(p, g)}}
                  /\ B = IF job[p] = NoJob THEN {} ELSE ToSet(job[p].todo)
  OBVIOUS
<1>3. Held(p) = A \cup B
  BY <1>2 DEF Held
<1>4. \A c : c \in B <=> InLoop(p, c)
  BY <1>1, <1>2 DEF InLoop
<1>5. \A c : c \in A <=> \E h \in KeyHash : ~Loops(p, h) /\ c \in ToSet(rt[p][h])
  BY <1>2
<1>6. \A c : c \in A <=> Filed(p, c)
  BY <1>1, <1>5 DEF Filed, Row
<1> QED
  BY <1>3, <1>4, <1>6

\* What a peer that ends leaves behind.
LEMMA HangUpIs ==
    ASSUME KeyTyped, NEW p \in Peer, NEW unread, HangUp(p, unread)
    PROVE  /\ UNCHANGED <<dht, cmd>>
           /\ \A q \in Peer \ {p} : rt'[q] = rt[q] /\ job'[q] = job[q] /\ calls'[q] = calls[q]
           /\ job'[p] = NoJob /\ calls'[p] = {} /\ \A h \in KeyHash : rt'[p][h] = <<>>
           /\ \A c \in Conn : rsp'[c] = IF c \in unread THEN Reset
                                        ELSE IF Placed(p, c) THEN Closed ELSE rsp[c]
           /\ KeyTyped'
<1>1. /\ rsp' = [c \in Conn |-> IF c \in unread THEN Reset
                                ELSE IF c \in Held(p) \cup calls[p] THEN Closed ELSE rsp[c]]
      /\ calls' = [calls EXCEPT ![p] = {}]
      /\ rt' = [rt EXCEPT ![p] = [h \in KeyHash |-> <<>>]]
      /\ job' = [job EXCEPT ![p] = NoJob]
      /\ UNCHANGED <<dht, cmd>>
  BY DEF HangUp
<1>2. \A c : c \in Held(p) <=> Filed(p, c) \/ InLoop(p, c)
  BY HeldIs
<1>3. \A c \in Conn : rsp'[c] = IF c \in unread THEN Reset
                                ELSE IF Placed(p, c) THEN Closed ELSE rsp[c]
  BY <1>1, <1>2 DEF Placed, Arrived
<1>4. \A q \in Peer \ {p} : rt'[q] = rt[q] /\ job'[q] = job[q] /\ calls'[q] = calls[q]
  BY <1>1 DEF KeyTyped
<1>5. job'[p] = NoJob /\ calls'[p] = {} /\ \A h \in KeyHash : rt'[p][h] = <<>>
  BY <1>1 DEF KeyTyped
<1>6. /\ rt' \in [Peer -> [KeyHash -> Seq(Conn)]] /\ calls' \in [Peer -> SUBSET Conn]
      /\ job' \in [Peer -> Job \cup {NoJob}]
      /\ dht' \in [Peer -> [Key -> Value \cup {NoValue}]]
  BY <1>1 DEF KeyTyped
<1>7. rsp' \in [Conn -> Answer \cup Broken \cup {None}]
  BY <1>1 DEF KeyTyped, Broken
<1>8. \A c \in Conn : /\ ~Arrived(p, c)' /\ ~InLoop(p, c)'
                      /\ \A h \in KeyHash : ~Row(p, h, c)'
  BY <1>5 DEF Arrived, InLoop, Row
<1>9. \A q \in Peer, c \in Conn : Arrived(q, c)' \/ InLoop(q, c)' => cmd[c.req] \in Cmd
  <2> SUFFICES ASSUME NEW q \in Peer, NEW c \in Conn, Arrived(q, c)' \/ InLoop(q, c)'
               PROVE  cmd[c.req] \in Cmd
    OBVIOUS
  <2>1. q # p
    BY <1>8
  <2> QED
    BY <2>1, <1>4, SameRows DEF KeyTyped, Arrived
<1>10. \A q \in Peer, c \in Conn : \A h \in KeyHash : Row(q, h, c)' =>
          cmd[c.req] \in Cmd /\ HashOf(c) = h
  <2> SUFFICES ASSUME NEW q \in Peer, NEW c \in Conn, NEW h \in KeyHash, Row(q, h, c)'
               PROVE  cmd[c.req] \in Cmd /\ HashOf(c) = h
    OBVIOUS
  <2>1. q # p
    BY <1>8
  <2> QED
    BY <2>1, <1>4, SameRows DEF KeyTyped
<1>11. \A q \in Peer : job'[q] # NoJob => job'[q].todo # <<>>
  BY <1>4, <1>5 DEF KeyTyped
<1>12. KeyTyped'
  BY <1>1, <1>6, <1>7, <1>9, <1>10, <1>11, TypedStays
<1> QED
  BY <1>1, <1>3, <1>4, <1>5, <1>12

\* p takes the request off its connection.
LEMMA CallIsTaken ==
    ASSUME KeyTyped, NEW p \in Peer, NEW c \in Conn
    PROVE  /\ CallTaken(p, c) \in [Peer -> SUBSET Conn]
           /\ \A q \in Peer, d \in Conn :
                 d \in CallTaken(p, c)[q] <=> Arrived(q, d) /\ ~(q = p /\ d = c)
BY DEF KeyTyped, CallTaken, Arrived

LEMMA RespondIs ==
    ASSUME KeyTyped, NEW c \in Conn, NEW a \in Answer \cup Broken \cup {None}, Respond(c, a)
    PROVE  /\ rsp' \in [Conn -> Answer \cup Broken \cup {None}]
           /\ \A d \in Conn : rsp'[d] = IF d = c THEN a ELSE rsp[d]
BY DEF KeyTyped, Respond

\* p opens a connection of its own to q.
LEMMA ConnectIs ==
    ASSUME KeyTyped, NEW p \in Peer, NEW q \in Peer, NEW c \in Conn,
           NEW box \in [Peer -> SUBSET Conn], Connect(box, p, c, q)
    PROVE  /\ calls' \in [Peer -> SUBSET Conn]
           /\ rsp' \in [Conn -> Answer \cup Broken \cup {None}]
           /\ \A x \in Peer, d \in Conn :
                 Arrived(x, d)' <=> d \in box[x] \/ (x = q /\ d = [req |-> c.req, from |-> p])
           /\ \A d \in Conn :
                 rsp'[d] = IF d = [req |-> c.req, from |-> p] THEN None ELSE rsp[d]
<1>1. PICK e : e = [req |-> c.req, from |-> p]
  OBVIOUS
<1>2. e \in Conn
  BY <1>1, ConnIs, ConnsBuilt
<1>3. calls' = [box EXCEPT ![q] = @ \cup {e}] /\ Respond(e, None)
  BY <1>1 DEF Connect
<1>4. calls' \in [Peer -> SUBSET Conn]
  BY <1>2, <1>3
<1>5. \A x \in Peer, d \in Conn : Arrived(x, d)' <=> d \in box[x] \/ (x = q /\ d = e)
  BY <1>3 DEF Arrived
<1> QED
  BY <1>1, <1>2, <1>3, <1>4, <1>5, RespondIs

\* A loop of p that begins.
LEMMA JobSet ==
    ASSUME KeyTyped, NEW p \in Peer, NEW j \in Job, j.todo # <<>>,
           job' = [job EXCEPT ![p] = j]
    PROVE  /\ job' \in [Peer -> Job \cup {NoJob}]
           /\ job'[p] = j /\ j # NoJob
           /\ \A q \in Peer \ {p} : job'[q] = job[q]
           /\ \A q \in Peer : job'[q] # NoJob => job'[q].todo # <<>>
           /\ \A c : InLoop(p, c)' <=> \E i \in DOMAIN j.todo : j.todo[i] = c
<1>1. /\ job' \in [Peer -> Job \cup {NoJob}] /\ job'[p] = j /\ j # NoJob
      /\ \A q \in Peer \ {p} : job'[q] = job[q]
  BY SentinelAssumption DEF KeyTyped
<1> QED
  BY <1>1 DEF KeyTyped, InLoop

\* The current request of p's loop is finished.
LEMMA AdvanceIs ==
    ASSUME KeyTyped, NEW p \in Peer, job[p] # NoJob, Advance(p)
    PROVE  /\ job' \in [Peer -> Job \cup {NoJob}] /\ rt' \in [Peer -> [KeyHash -> Seq(Conn)]]
           /\ \A q \in Peer \ {p} : job'[q] = job[q] /\ rt'[q] = rt[q]
           /\ \/ /\ Tail(job[p].todo) = <<>> /\ job'[p] = NoJob
                 /\ \A h \in KeyHash : rt'[p][h] = IF Loops(p, h) THEN <<>> ELSE rt[p][h]
              \/ /\ Tail(job[p].todo) # <<>> /\ rt'[p] = rt[p]
                 /\ job'[p] # NoJob /\ ~job'[p].waiting
                 /\ job'[p].todo = Tail(job[p].todo)
                 /\ job'[p].hash = job[p].hash /\ job'[p].to = job[p].to
<1>1. /\ job[p] \in Job /\ job[p].todo \in Seq(Conn) /\ job[p].todo # <<>>
      /\ job[p].hash \in KeyHash \cup {None}
      /\ job \in [Peer -> Job \cup {NoJob}] /\ rt \in [Peer -> [KeyHash -> Seq(Conn)]]
  BY JobIs DEF KeyTyped
<1>2. CASE Tail(job[p].todo) = <<>>
  <2>1. /\ job' = [job EXCEPT ![p] = NoJob]
        /\ rt' = IF job[p].hash = None THEN rt ELSE [rt EXCEPT ![p][job[p].hash] = <<>>]
    BY <1>2 DEF Advance
  <2>2. <<>> \in Seq(Conn)
    OBVIOUS
  <2>3. rt' \in [Peer -> [KeyHash -> Seq(Conn)]] /\ \A q \in Peer \ {p} : rt'[q] = rt[q]
    BY <1>1, <2>1, <2>2
  <2>4. \A h \in KeyHash : rt'[p][h] = IF Loops(p, h) THEN <<>> ELSE rt[p][h]
    BY <1>1, <2>1, SentinelAssumption DEF Loops
  <2> QED
    BY <1>1, <1>2, <2>1, <2>3, <2>4
<1>3. CASE Tail(job[p].todo) # <<>>
  <2>1. PICK k : k = [job[p] EXCEPT !.todo = Tail(job[p].todo), !.waiting = FALSE]
    OBVIOUS
  <2>2. job' = [job EXCEPT ![p] = k] /\ rt' = rt
    BY <1>3, <2>1 DEF Advance
  <2>3. Tail(job[p].todo) \in Seq(Conn)
    BY <1>1
  <2>4. /\ k \in Job /\ k.todo = Tail(job[p].todo) /\ k.hash = job[p].hash /\ k.to = job[p].to
        /\ ~k.waiting
    BY <1>1, <2>1, <2>3 DEF Job
  <2>5. k # NoJob
    BY <2>4, SentinelAssumption
  <2> QED
    BY <1>1, <1>3, <2>2, <2>4, <2>5
<1> QED
  BY <1>2, <1>3

\* What a loop has in it and what is filed does not grow by that.
LEMMA AdvanceShrinks ==
    ASSUME KeyTyped, NEW p \in Peer, job[p] # NoJob, Advance(p), NEW q \in Peer
    PROVE  /\ job'[q] # NoJob => job'[q].todo # <<>>
           /\ \A c \in Conn : InLoop(q, c)' => InLoop(q, c)
           /\ \A c \in Conn, h \in KeyHash : Row(q, h, c)' => Row(q, h, c)
<1>1. CASE q # p
  BY <1>1, AdvanceIs, SameRows DEF KeyTyped
<1>2. CASE q = p
  <2>1. job[p].todo \in Seq(Conn) /\ job[p].todo # <<>>
    BY JobIs
  <2>a. \/ /\ job'[p] = NoJob
           /\ \A h \in KeyHash : rt'[p][h] = <<>> \/ rt'[p][h] = rt[p][h]
        \/ /\ Tail(job[p].todo) # <<>> /\ rt'[p] = rt[p]
           /\ job'[p].todo = Tail(job[p].todo)
    BY AdvanceIs
  <2>2. \A c \in Conn : InLoop(p, c)' => InLoop(p, c)
    <3>1. \A c : (\E i \in DOMAIN Tail(job[p].todo) : Tail(job[p].todo)[i] = c)
                    => \E i \in DOMAIN job[p].todo : job[p].todo[i] = c
      BY <2>1, SeqFacts
    <3> QED
      BY <2>a, <3>1 DEF InLoop
  <2>3. \A c \in Conn, h \in KeyHash : Row(p, h, c)' => Row(p, h, c)
    <3>1. \A h \in KeyHash : rt'[p][h] = <<>> \/ rt'[p][h] = rt[p][h]
      BY <2>a
    <3> QED
      BY <3>1 DEF Row
  <2> QED
    BY <1>2, <2>2, <2>3, <2>a
<1> QED
  BY <1>1, <1>2
-----------------------------------------------------------------------------
(* What the steps do to the places of the connections                      *)

Waits(p, c) == job[p] # NoJob /\ job[p].waiting /\ Current(p) = c

\* A connection is at a peer once.
TidyAt(p) ==
    /\ \A h \in KeyHash : \A i, j \in DOMAIN rt[p][h] : rt[p][h][i] = rt[p][h][j] => i = j
    /\ job[p] # NoJob =>
         \A i, j \in DOMAIN job[p].todo : job[p].todo[i] = job[p].todo[j] => i = j
    /\ \A c \in Conn : /\ ~(Arrived(p, c) /\ Filed(p, c))
                       /\ ~(Arrived(p, c) /\ InLoop(p, c))
                       /\ ~(Filed(p, c) /\ InLoop(p, c))

Tidy == \A p \in Peer : TidyAt(p)

Shifts == \A q \in Peer, d \in Conn :
    (Placed(q, d)' <=> Placed(q, d)) /\ (Waits(q, d)' <=> Waits(q, d))

Adds(p, c) == \A q \in Peer, d \in Conn :
    /\ Placed(q, d)' <=> Placed(q, d) \/ (q = p /\ d = c)
    /\ Waits(q, d)' <=> Waits(q, d)

Drops(p, c) == \A q \in Peer, d \in Conn :
    /\ Placed(q, d)' <=> Placed(q, d) /\ ~(q = p /\ d = c)
    /\ Waits(q, d)' <=> Waits(q, d) /\ ~(q = p /\ d = c)

\* c is passed on to q on p's own connection e.
Passes(p, c, q, e) == \A x \in Peer, d \in Conn :
    /\ Placed(x, d)' <=> Placed(x, d) \/ (x = q /\ d = e)
    /\ Waits(x, d)' <=> Waits(x, d) \/ (x = p /\ d = c)

Leaves(p) == \A q \in Peer, d \in Conn :
    /\ Placed(q, d)' <=> Placed(q, d) /\ q # p
    /\ Waits(q, d)' <=> Waits(q, d) /\ q # p

LEMMA SamePlaces ==
    ASSUME NEW q \in Peer, rt'[q] = rt[q], job'[q] = job[q]
    PROVE  /\ \A c \in Conn : /\ Filed(q, c)' <=> Filed(q, c)
                              /\ InLoop(q, c)' <=> InLoop(q, c)
                              /\ Waits(q, c)' <=> Waits(q, c)
           /\ (\A c \in Conn : Arrived(q, c)' => Arrived(q, c)) /\ TidyAt(q) => TidyAt(q)'
BY DEF Filed, InLoop, Row, Loops, Waits, Current, TidyAt

\* A peer that is not in a loop.
LEMMA IdleIs ==
    ASSUME NEW p \in Peer, job[p] = NoJob
    PROVE  \A c : /\ ~InLoop(p, c) /\ ~Waits(p, c)
                  /\ Filed(p, c) <=> \E h \in KeyHash : Row(p, h, c)
BY DEF InLoop, Waits, Filed, Loops

\* The request is served, or refused, at once.
LEMMA TakenDrops ==
    ASSUME KeyTyped, Tidy, NEW p \in Peer, NEW c \in Conn, Arrived(p, c), job[p] = NoJob,
           NEW a \in Answer \cup Broken \cup {None}, Respond(c, a),
           calls' = CallTaken(p, c), UNCHANGED <<rt, job, cmd>>,
           dht' \in [Peer -> [Key -> Value \cup {NoValue}]]
    PROVE  KeyTyped' /\ Tidy' /\ Drops(p, c)
<1>1. /\ calls' \in [Peer -> SUBSET Conn]
      /\ \A q \in Peer, d \in Conn : Arrived(q, d)' <=> Arrived(q, d) /\ ~(q = p /\ d = c)
  BY CallIsTaken DEF Arrived
<1>2. rsp' \in [Conn -> Answer \cup Broken \cup {None}]
  BY RespondIs
<1>3. \A q \in Peer, d \in Conn : /\ \A h \in KeyHash : Row(q, h, d)' <=> Row(q, h, d)
                                  /\ InLoop(q, d)' <=> InLoop(q, d)
  BY SameRows
<1>4. KeyTyped'
  BY <1>1, <1>2, <1>3, TypedStays DEF KeyTyped
<1>5. \A q \in Peer : \A d \in Conn : /\ Filed(q, d)' <=> Filed(q, d)
                                      /\ InLoop(q, d)' <=> InLoop(q, d)
                                      /\ Waits(q, d)' <=> Waits(q, d)
  BY SamePlaces
<1>6. Tidy'
  BY <1>1, SamePlaces DEF Tidy
<1>7. ~Filed(p, c) /\ ~InLoop(p, c) /\ ~Waits(p, c)
  BY IdleIs DEF Tidy, TidyAt
<1>8. Drops(p, c)
  BY <1>1, <1>5, <1>7 DEF Drops, Placed
<1> QED
  BY <1>4, <1>6, <1>8

LEMMA IssueAdds ==
    ASSUME KeyTyped, Tidy, NEW r \in Req, NEW p \in Peer, NEW x \in Cmd, Issue(r, p, x)
    PROVE  Tidy' /\ Adds(p, ClientConn(r)) /\ \A q \in Peer : ~Placed(q, ClientConn(r))
<1>1. /\ calls' = [calls EXCEPT ![p] = @ \cup {ClientConn(r)}] /\ cmd[r] = None
      /\ UNCHANGED <<rt, job>>
  BY DEF Issue, ClientConn
<1>2. \A q \in Peer, d \in Conn : Arrived(q, d)' <=> Arrived(q, d) \/ (q = p /\ d = ClientConn(r))
  BY <1>1 DEF Arrived, KeyTyped
<1>3. \A q \in Peer : ~Placed(q, ClientConn(r))
  <2>1. PICK e \in Conn : e = ClientConn(r) /\ cmd[e.req] \notin Cmd
    BY <1>1, ConnsBuilt, SentinelAssumption
  <2>2. \A q \in Peer : ~Placed(q, e)
    BY <2>1 DEF KeyTyped, Placed, Filed
  <2> QED
    BY <2>1, <2>2
<1>4. \A q \in Peer : \A d \in Conn : /\ Filed(q, d)' <=> Filed(q, d)
                                      /\ InLoop(q, d)' <=> InLoop(q, d)
                                      /\ Waits(q, d)' <=> Waits(q, d)
  BY <1>1, SamePlaces
<1>5. Tidy'
  BY <1>1, <1>2, <1>3, <1>4 DEF Tidy, TidyAt, Placed
<1>6. Adds(p, ClientConn(r))
  BY <1>2, <1>4 DEF Adds, Placed
<1> QED
  BY <1>3, <1>5, <1>6

LEMMA HangUpLeaves ==
    ASSUME KeyTyped, Tidy, NEW p \in Peer, NEW unread, HangUp(p, unread)
    PROVE  Tidy' /\ Leaves(p)
<1>1. \A c : ~Arrived(p, c)' /\ ~InLoop(p, c)' /\ ~Filed(p, c)' /\ ~Waits(p, c)'
  <2>1. job'[p] = NoJob /\ calls'[p] = {} /\ \A h \in KeyHash : rt'[p][h] = <<>>
    BY HangUpIs
  <2> QED
    BY <2>1 DEF Arrived, InLoop, Filed, Row, Waits
<1>2. ASSUME NEW q \in Peer, q # p
      PROVE  TidyAt(q)' /\ \A d \in Conn : (Placed(q, d)' <=> Placed(q, d))
                                           /\ (Waits(q, d)' <=> Waits(q, d))
  <2>1. rt'[q] = rt[q] /\ job'[q] = job[q] /\ calls'[q] = calls[q]
    BY <1>2, HangUpIs
  <2> QED
    BY <2>1, SamePlaces DEF Tidy, Placed, Arrived
<1>3. TidyAt(p)'
  <2>1. job'[p] = NoJob /\ \A h \in KeyHash : DOMAIN rt'[p][h] = {}
    BY HangUpIs
  <2> QED
    BY <1>1, <2>1 DEF TidyAt
<1> QED
  BY <1>1, <1>2, <1>3 DEF Tidy, Leaves, Placed

\* The request is filed, until its owner has been found.
LEMMA LookUpShifts ==
    ASSUME KeyTyped, Tidy, NEW p \in Peer, NEW c \in Conn, Arrived(p, c), job[p] = NoJob,
           calls' = CallTaken(p, c), UNCHANGED <<dht, job, cmd, rsp>>,
           rt' = [rt EXCEPT ![p][HashOf(c)] = Append(@, c)]
    PROVE  KeyTyped' /\ Tidy' /\ Shifts
<1>1. PICK g : g = HashOf(c)
  OBVIOUS
<1>2. g \in KeyHash /\ cmd[c.req] \in Cmd
  BY <1>1, HashIs DEF KeyTyped
<1>3. PICK s : s = Append(rt[p][g], c)
  OBVIOUS
<1>4. /\ rt[p][g] \in Seq(Conn) /\ s \in Seq(Conn)
      /\ Len(rt[p][g]) \in Nat /\ DOMAIN rt[p][g] = 1 .. Len(rt[p][g])
      /\ DOMAIN s = 1 .. Len(rt[p][g]) + 1
      /\ s[Len(rt[p][g]) + 1] = c /\ \A i \in DOMAIN rt[p][g] : s[i] = rt[p][g][i]
  BY <1>2, <1>3 DEF KeyTyped
<1>5. /\ rt' \in [Peer -> [KeyHash -> Seq(Conn)]]
      /\ \A q \in Peer \ {p} : rt'[q] = rt[q]
      /\ \A h \in KeyHash : rt'[p][h] = IF h = g THEN s ELSE rt[p][h]
  <2>1. rt' = [rt EXCEPT ![p][g] = s]
    BY <1>1, <1>3
  <2>2. rt \in [Peer -> [KeyHash -> Seq(Conn)]]
    BY DEF KeyTyped
  <2>3. rt' \in [Peer -> [KeyHash -> Seq(Conn)]] /\ \A q \in Peer \ {p} : rt'[q] = rt[q]
    BY <1>2, <1>4, <2>1, <2>2
  <2>4. \A h \in KeyHash : rt'[p][h] = IF h = g THEN s ELSE rt[p][h]
    <3>1. rt'[p] = [rt[p] EXCEPT ![g] = s] /\ rt[p] \in [KeyHash -> Seq(Conn)]
      BY <2>1, <2>2
    <3> QED
      BY <3>1
  <2> QED
    BY <2>3, <2>4
<1>6. \A d : (\E i \in DOMAIN s : s[i] = d) <=> (\E i \in DOMAIN rt[p][g] : rt[p][g][i] = d) \/ d = c
  BY <1>4
<1>7. \A d \in Conn, h \in KeyHash : Row(p, h, d)' <=> Row(p, h, d) \/ (h = g /\ d = c)
  <2> SUFFICES ASSUME NEW d \in Conn, NEW h \in KeyHash
               PROVE  Row(p, h, d)' <=> Row(p, h, d) \/ (h = g /\ d = c)
    OBVIOUS
  <2>1. CASE h = g
    <3>1. rt'[p][h] = s /\ rt[p][h] = rt[p][g]
      BY <1>5, <2>1
    <3> QED
      BY <1>6, <2>1, <3>1 DEF Row
  <2>2. CASE h # g
    <3>1. rt'[p][h] = rt[p][h]
      BY <1>5, <2>2
    <3> QED
      BY <2>2, <3>1 DEF Row
  <2> QED
    BY <2>1, <2>2
<1>8. /\ calls' \in [Peer -> SUBSET Conn]
      /\ \A q \in Peer, d \in Conn : Arrived(q, d)' <=> Arrived(q, d) /\ ~(q = p /\ d = c)
  BY CallIsTaken DEF Arrived
<1>9. \A d \in Conn : /\ ~InLoop(p, d)' /\ ~InLoop(p, d) /\ ~Waits(p, d)' /\ ~Waits(p, d)
                      /\ Filed(p, d) <=> \E h \in KeyHash : Row(p, h, d)
                      /\ Filed(p, d)' <=> \E h \in KeyHash : Row(p, h, d)'
  BY IdleIs DEF InLoop, Waits, Filed, Loops
<1>10. \A d \in Conn : Filed(p, d)' <=> Filed(p, d) \/ d = c
  BY <1>2, <1>7, <1>9
<1>11. ~Filed(p, c)
  BY DEF Tidy, TidyAt
<1>12. KeyTyped'
  <2>1. \A q \in Peer, d \in Conn : Arrived(q, d)' \/ InLoop(q, d)' => cmd[d.req] \in Cmd
    <3>1. \A q \in Peer, d \in Conn : InLoop(q, d)' <=> InLoop(q, d)
      BY DEF InLoop
    <3> QED
      BY <1>8, <3>1 DEF KeyTyped
  <2>2. \A q \in Peer, d \in Conn : \A h \in KeyHash :
           Row(q, h, d)' => cmd[d.req] \in Cmd /\ HashOf(d) = h
    <3> SUFFICES ASSUME NEW q \in Peer, NEW d \in Conn, NEW h \in KeyHash, Row(q, h, d)'
                 PROVE  cmd[d.req] \in Cmd /\ HashOf(d) = h
      OBVIOUS
    <3>1. CASE q # p
      BY <1>5, <3>1, SameRows DEF KeyTyped
    <3>2. CASE q = p
      BY <1>1, <1>2, <1>7, <3>2 DEF KeyTyped
    <3> QED
      BY <3>1, <3>2
  <2> QED
    BY <1>5, <1>8, <2>1, <2>2, TypedStays DEF KeyTyped
<1>13. TidyAt(p)'
  <2>1. \A h \in KeyHash : \A i, j \in DOMAIN rt'[p][h] : rt'[p][h][i] = rt'[p][h][j] => i = j
    <3>1. \A i \in DOMAIN rt[p][g] : rt[p][g][i] # c
      BY <1>2, <1>9, <1>11 DEF Row
    <3>2. \A i, j \in DOMAIN s : s[i] = s[j] => i = j
      <4>1. \A i, j \in DOMAIN rt[p][g] : rt[p][g][i] = rt[p][g][j] => i = j
        BY <1>2 DEF Tidy, TidyAt
      <4>2. \A i \in DOMAIN s : i \in DOMAIN rt[p][g] \/ i = Len(rt[p][g]) + 1
        BY <1>4
      <4> QED
        BY <1>4, <3>1, <4>1, <4>2
    <3>3. \A h \in KeyHash : \A i, j \in DOMAIN rt[p][h] : rt[p][h][i] = rt[p][h][j] => i = j
      BY DEF Tidy, TidyAt
    <3> SUFFICES ASSUME NEW h \in KeyHash
                 PROVE  \A i, j \in DOMAIN rt'[p][h] : rt'[p][h][i] = rt'[p][h][j] => i = j
      OBVIOUS
    <3>4. PICK v : v = rt'[p][h]
      OBVIOUS
    <3>5. PICK w : w = rt[p][h]
      OBVIOUS
    <3>6. v = s \/ v = w
      BY <1>5, <3>4, <3>5
    <3>7. \A i, j \in DOMAIN w : w[i] = w[j] => i = j
      BY <3>3, <3>5
    <3>8. \A i, j \in DOMAIN v : v[i] = v[j] => i = j
      BY <3>2, <3>6, <3>7
    <3> QED
      BY <3>4, <3>8
  <2>2. job'[p] = NoJob
    OBVIOUS
  <2> QED
    BY <1>8, <1>9, <1>10, <2>1, <2>2 DEF Tidy, TidyAt
<1>14. ASSUME NEW q \in Peer, q # p
       PROVE  TidyAt(q)' /\ \A d \in Conn : (Placed(q, d)' <=> Placed(q, d))
                                            /\ (Waits(q, d)' <=> Waits(q, d))
  BY <1>5, <1>8, <1>14, SamePlaces DEF Tidy, Placed
<1>15. \A d \in Conn : (Placed(p, d)' <=> Placed(p, d)) /\ (Waits(p, d)' <=> Waits(p, d))
  BY <1>8, <1>9, <1>10 DEF Placed
<1> QED
  BY <1>12, <1>13, <1>14, <1>15 DEF Tidy, Shifts

\* The open requests of a hash come into a loop.
LEMMA ServeShifts ==
    ASSUME KeyTyped, Tidy, NEW p \in Peer, job[p] = NoJob, NEW h \in KeyHash, rt[p][h] # <<>>,
           NEW t \in Peer, UNCHANGED <<dht, rt, calls, cmd, rsp>>,
           job' = [job EXCEPT ![p] = [todo |-> rt[p][h], to |-> t,
                                      hash |-> h, waiting |-> FALSE]]
    PROVE  KeyTyped' /\ Tidy' /\ Shifts
<1>1. PICK j : j = [todo |-> rt[p][h], to |-> t, hash |-> h, waiting |-> FALSE]
  OBVIOUS
<1>2. /\ j \in Job /\ j.todo = rt[p][h] /\ j.todo # <<>> /\ j.hash = h /\ ~j.waiting
      /\ job' = [job EXCEPT ![p] = j]
  BY <1>1 DEF KeyTyped, Job
<1>3. /\ job' \in [Peer -> Job \cup {NoJob}] /\ job'[p] = j /\ j # NoJob
      /\ \A q \in Peer \ {p} : job'[q] = job[q]
      /\ \A q \in Peer : job'[q] # NoJob => job'[q].todo # <<>>
      /\ \A c : InLoop(p, c)' <=> \E i \in DOMAIN j.todo : j.todo[i] = c
  BY <1>2, JobSet
<1>4. \A c \in Conn : InLoop(p, c)' <=> Row(p, h, c)
  BY <1>2, <1>3 DEF Row
<1>5. \A c \in Conn, g \in KeyHash : Row(p, g, c)' <=> Row(p, g, c)
  BY DEF Row
<1>6. \A c \in Conn : Filed(p, c)' <=> \E g \in KeyHash : g # h /\ Row(p, g, c)
  BY <1>2, <1>3, <1>5 DEF Filed, Loops
<1>7. \A c \in Conn : \A g \in KeyHash : Row(p, g, c) => (g = h <=> Row(p, h, c))
  BY DEF KeyTyped
<1>8. \A c \in Conn : /\ ~InLoop(p, c) /\ ~Waits(p, c) /\ ~Waits(p, c)'
                      /\ Filed(p, c) <=> \E g \in KeyHash : Row(p, g, c)
  BY <1>2, <1>3, IdleIs DEF Waits
<1>9. \A c \in Conn : /\ Filed(p, c) <=> Filed(p, c)' \/ InLoop(p, c)'
                      /\ ~(Filed(p, c)' /\ InLoop(p, c)')
  BY <1>4, <1>6, <1>7, <1>8
<1>10. \A q \in Peer, c \in Conn : Arrived(q, c)' <=> Arrived(q, c)
  BY DEF Arrived
<1>11. KeyTyped'
  <2>1. \A q \in Peer, d \in Conn : Arrived(q, d)' \/ InLoop(q, d)' => cmd[d.req] \in Cmd
    <3> SUFFICES ASSUME NEW q \in Peer, NEW d \in Conn, Arrived(q, d)' \/ InLoop(q, d)'
                 PROVE  cmd[d.req] \in Cmd
      OBVIOUS
    <3>1. CASE q = p
      BY <1>4, <1>10, <3>1 DEF KeyTyped
    <3>2. CASE q # p
      BY <1>3, <1>10, <3>2, SamePlaces DEF KeyTyped
    <3> QED
      BY <3>1, <3>2
  <2>2. \A q \in Peer, d \in Conn : \A g \in KeyHash :
           Row(q, g, d)' => cmd[d.req] \in Cmd /\ HashOf(d) = g
    BY DEF KeyTyped, Row
  <2> QED
    BY <1>3, <2>1, <2>2, TypedStays DEF KeyTyped
<1>12. TidyAt(p)'
  <2>1. \A g \in KeyHash : \A i, k \in DOMAIN rt[p][g] : rt[p][g][i] = rt[p][g][k] => i = k
    BY DEF Tidy, TidyAt
  <2>2. \A i, k \in DOMAIN job'[p].todo : job'[p].todo[i] = job'[p].todo[k] => i = k
    BY <1>2, <1>3, <2>1
  <2>3. \A c \in Conn : ~(Arrived(p, c) /\ Filed(p, c))
    BY DEF Tidy, TidyAt
  <2> QED
    BY <1>9, <1>10, <2>1, <2>2, <2>3 DEF TidyAt
<1>13. ASSUME NEW q \in Peer, q # p
       PROVE  TidyAt(q)' /\ \A d \in Conn : (Placed(q, d)' <=> Placed(q, d))
                                            /\ (Waits(q, d)' <=> Waits(q, d))
  BY <1>3, <1>10, <1>13, SamePlaces DEF Tidy, Placed
<1>14. \A d \in Conn : (Placed(p, d)' <=> Placed(p, d)) /\ (Waits(p, d)' <=> Waits(p, d))
  BY <1>8, <1>9, <1>10 DEF Placed
<1> QED
  BY <1>11, <1>12, <1>13, <1>14 DEF Tidy, Shifts

LEMMA TailIs ==
    ASSUME NEW s \in Seq(Conn), s # <<>>, \A i, j \in DOMAIN s : s[i] = s[j] => i = j
    PROVE  /\ \A i, j \in DOMAIN Tail(s) : Tail(s)[i] = Tail(s)[j] => i = j
           /\ \A c : (\E i \in DOMAIN Tail(s) : Tail(s)[i] = c)
                       <=> (\E i \in DOMAIN s : s[i] = c) /\ c # Head(s)
<1>1. /\ Tail(s) \in Seq(Conn) /\ Len(Tail(s)) = Len(s) - 1 /\ Len(s) \in Nat \ {0}
      /\ DOMAIN s = 1 .. Len(s) /\ DOMAIN Tail(s) = 1 .. Len(Tail(s))
      /\ \A i \in 1 .. Len(Tail(s)) : Tail(s)[i] = s[i + 1]
      /\ Head(s) = s[1]
  OBVIOUS
<1>2. /\ \A i \in DOMAIN Tail(s) : i \in Nat /\ i + 1 \in DOMAIN s /\ Tail(s)[i] = s[i + 1]
      /\ \A i \in DOMAIN s : i \in Nat /\ (i # 1 => i - 1 \in DOMAIN Tail(s) /\ Tail(s)[i - 1] = s[i])
      /\ 1 \in DOMAIN s /\ \A i \in DOMAIN Tail(s) : i + 1 # 1
  BY <1>1
<1>3. \A i, j \in DOMAIN Tail(s) : Tail(s)[i] = Tail(s)[j] => i = j
  <2> SUFFICES ASSUME NEW i \in DOMAIN Tail(s), NEW j \in DOMAIN Tail(s), Tail(s)[i] = Tail(s)[j]
               PROVE  i = j
    OBVIOUS
  <2>1. i + 1 = j + 1 /\ i \in Nat /\ j \in Nat
    BY <1>2
  <2> QED
    BY <2>1
<1>4. ASSUME NEW i \in DOMAIN Tail(s)
      PROVE  (\E k \in DOMAIN s : s[k] = Tail(s)[i]) /\ Tail(s)[i] # Head(s)
  BY <1>1, <1>2
<1>5. ASSUME NEW i \in DOMAIN s, s[i] # Head(s)
      PROVE  \E k \in DOMAIN Tail(s) : Tail(s)[k] = s[i]
  <2>1. i # 1
    BY <1>1, <1>5
  <2> QED
    BY <1>2, <2>1
<1> QED
  BY <1>3, <1>4, <1>5

\* The current request of a loop is finished.
LEMMA AdvanceDrops ==
    ASSUME KeyTyped, Tidy, NEW p \in Peer, job[p] # NoJob, Advance(p),
           NEW a \in Answer \cup Broken \cup {None}, Respond(Current(p), a),
           UNCHANGED <<dht, calls, cmd>>
    PROVE  KeyTyped' /\ Tidy' /\ Drops(p, Current(p))
<1>1. PICK c : c = Current(p)
  OBVIOUS
<1>2. PICK s : s = job[p].todo
  OBVIOUS
<1>3. c \in Conn /\ s \in Seq(Conn) /\ s # <<>> /\ c = Head(s) /\ InLoop(p, c)
  BY <1>1, <1>2, JobIs DEF Current
<1>4. /\ job' \in [Peer -> Job \cup {NoJob}] /\ rt' \in [Peer -> [KeyHash -> Seq(Conn)]]
      /\ \A q \in Peer \ {p} : job'[q] = job[q] /\ rt'[q] = rt[q]
  BY AdvanceIs
<1>5. rsp' \in [Conn -> Answer \cup Broken \cup {None}]
  BY <1>1, <1>3, RespondIs
<1>6. \A q \in Peer, d \in Conn : Arrived(q, d)' <=> Arrived(q, d)
  BY DEF Arrived
<1>7. KeyTyped'
  <2>1. \A q \in Peer, d \in Conn : /\ InLoop(q, d)' => InLoop(q, d)
                                    /\ \A h \in KeyHash : Row(q, h, d)' => Row(q, h, d)
    BY AdvanceShrinks
  <2>2. \A q \in Peer : job'[q] # NoJob => job'[q].todo # <<>>
    BY AdvanceShrinks
  <2>3. \A q \in Peer, d \in Conn : Arrived(q, d)' \/ InLoop(q, d)' => cmd[d.req] \in Cmd
    BY <1>6, <2>1 DEF KeyTyped
  <2>4. \A q \in Peer, d \in Conn : \A h \in KeyHash :
           Row(q, h, d)' => cmd[d.req] \in Cmd /\ HashOf(d) = h
    BY <2>1 DEF KeyTyped
  <2> QED
    BY <1>4, <1>5, <2>2, <2>3, <2>4, TypedStays DEF KeyTyped
<1>8. \A i, j \in DOMAIN s : s[i] = s[j] => i = j
  BY <1>2 DEF Tidy, TidyAt
<1>9. /\ \A i, j \in DOMAIN Tail(s) : Tail(s)[i] = Tail(s)[j] => i = j
      /\ \A d : (\E i \in DOMAIN Tail(s) : Tail(s)[i] = d)
                  <=> (\E i \in DOMAIN s : s[i] = d) /\ d # c
  BY <1>3, <1>8, TailIs
<1>10. \/ /\ Tail(s) = <<>> /\ job'[p] = NoJob
          /\ \A h \in KeyHash : rt'[p][h] = IF Loops(p, h) THEN <<>> ELSE rt[p][h]
       \/ /\ Tail(s) # <<>> /\ rt'[p] = rt[p]
          /\ job'[p] # NoJob /\ ~job'[p].waiting
          /\ job'[p].todo = Tail(s) /\ job'[p].hash = job[p].hash
  BY <1>2, AdvanceIs
<1>11. \A d : InLoop(p, d) <=> \E i \in DOMAIN s : s[i] = d
  BY <1>2 DEF InLoop
<1>12. \A d : InLoop(p, d)' <=> InLoop(p, d) /\ d # c
  <2>1. CASE job'[p] = NoJob
    <3>1. \A d : ~\E i \in DOMAIN Tail(s) : Tail(s)[i] = d
      BY <1>10, <2>1
    <3> QED
      BY <1>9, <1>11, <2>1, <3>1 DEF InLoop
  <2>2. CASE job'[p] # NoJob
    <3>1. job'[p].todo = Tail(s)
      BY <1>10, <2>2
    <3>2. \A d : InLoop(p, d)' <=> \E i \in DOMAIN Tail(s) : Tail(s)[i] = d
      BY <2>2, <3>1 DEF InLoop
    <3> QED
      BY <1>9, <1>11, <3>2
  <2> QED
    BY <2>1, <2>2
<1>13. \A d : ~Waits(p, d)'
  BY <1>10 DEF Waits
<1>14. \A d : Waits(p, d) => d = c
  BY <1>1 DEF Waits
<1>15. \A d \in Conn : Filed(p, d)' <=> Filed(p, d)
  <2>1. CASE job'[p] = NoJob
    <3>1. \A h \in KeyHash : \A d : Row(p, h, d)' <=> Row(p, h, d) /\ ~Loops(p, h)
      <4> SUFFICES ASSUME NEW h \in KeyHash, NEW d
                   PROVE  Row(p, h, d)' <=> Row(p, h, d) /\ ~Loops(p, h)
        OBVIOUS
      <4>1. rt'[p][h] = IF Loops(p, h) THEN <<>> ELSE rt[p][h]
        BY <1>10, <2>1
      <4> QED
        BY <4>1 DEF Row
    <3>2. \A h : ~Loops(p, h)'
      BY <2>1 DEF Loops
    <3> QED
      BY <3>1, <3>2 DEF Filed
  <2>2. CASE job'[p] # NoJob
    BY <1>10, <2>2 DEF Filed, Row, Loops
  <2> QED
    BY <2>1, <2>2
<1>16. TidyAt(p)'
  <2>1. \A h \in KeyHash : \A i, j \in DOMAIN rt'[p][h] : rt'[p][h][i] = rt'[p][h][j] => i = j
    <3> SUFFICES ASSUME NEW h \in KeyHash
                 PROVE  \A i, j \in DOMAIN rt'[p][h] : rt'[p][h][i] = rt'[p][h][j] => i = j
      OBVIOUS
    <3>1. PICK v, w : v = rt'[p][h] /\ w = rt[p][h]
      OBVIOUS
    <3>2. v = <<>> \/ v = w
      BY <1>10, <3>1
    <3>3. \A i, j \in DOMAIN w : w[i] = w[j] => i = j
      BY <3>1 DEF Tidy, TidyAt
    <3>4. \A i, j \in DOMAIN v : v[i] = v[j] => i = j
      BY <3>2, <3>3
    <3> QED
      BY <3>1, <3>4
  <2>2. job'[p] # NoJob =>
          \A i, j \in DOMAIN job'[p].todo : job'[p].todo[i] = job'[p].todo[j] => i = j
    BY <1>9, <1>10
  <2>3. \A d \in Conn : /\ ~(Arrived(p, d)' /\ Filed(p, d)')
                        /\ ~(Arrived(p, d)' /\ InLoop(p, d)')
                        /\ ~(Filed(p, d)' /\ InLoop(p, d)')
    BY <1>6, <1>12, <1>15 DEF Tidy, TidyAt
  <2> QED
    BY <2>1, <2>2, <2>3 DEF TidyAt
<1>17. ASSUME NEW q \in Peer, q # p
       PROVE  TidyAt(q)' /\ \A d \in Conn : (Placed(q, d)' <=> Placed(q, d))
                                            /\ (Waits(q, d)' <=> Waits(q, d))
  BY <1>4, <1>6, <1>17, SamePlaces DEF Tidy, Placed
<1>18. \A d \in Conn : /\ Placed(p, d)' <=> Placed(p, d) /\ d # c
                       /\ Waits(p, d)' <=> Waits(p, d) /\ d # c
  <2>1. ~Arrived(p, c) /\ ~Filed(p, c)
    BY <1>3 DEF Tidy, TidyAt
  <2> QED
    BY <1>6, <1>12, <1>13, <1>14, <1>15, <2>1 DEF Placed
<1>19. Drops(p, c)
  BY <1>17, <1>18 DEF Drops
<1>20. Tidy'
  BY <1>16, <1>17 DEF Tidy
<1> QED
  BY <1>1, <1>7, <1>19, <1>20

\* p proxies a request that has arrived, on a connection nobody has yet.
LEMMA ProxyPasses ==
    ASSUME KeyTyped, Tidy, NEW p \in Peer, NEW q \in Peer, NEW c \in Conn,
           Arrived(p, c), job[p] = NoJob, Connect(CallTaken(p, c), p, c, q),
           job' = [job EXCEPT ![p] = [todo |-> <<c>>, to |-> q,
                                      hash |-> None, waiting |-> TRUE]],
           UNCHANGED <<dht, rt, cmd>>,
           NEW e \in Conn, e = [req |-> c.req, from |-> p], \A x \in Peer : ~Placed(x, e)
    PROVE  KeyTyped' /\ Tidy' /\ Passes(p, c, q, e)
<1>1. PICK j : j = [todo |-> <<c>>, to |-> q, hash |-> None, waiting |-> TRUE]
  OBVIOUS
<1>2. /\ j \in Job /\ j.todo = <<c>> /\ j.todo # <<>> /\ j.hash = None /\ j.waiting
      /\ job' = [job EXCEPT ![p] = j]
  BY <1>1 DEF Job
<1>3. /\ job' \in [Peer -> Job \cup {NoJob}] /\ job'[p] = j /\ j # NoJob
      /\ \A x \in Peer \ {p} : job'[x] = job[x]
      /\ \A x \in Peer : job'[x] # NoJob => job'[x].todo # <<>>
      /\ \A d : InLoop(p, d)' <=> \E i \in DOMAIN j.todo : j.todo[i] = d
  BY <1>2, JobSet
<1>4. DOMAIN j.todo = {1} /\ j.todo[1] = c /\ Head(j.todo) = c
  BY <1>2
<1>5. \A d : (InLoop(p, d)' <=> d = c) /\ (Waits(p, d)' <=> d = c)
  <2>1. \A d : (\E i \in DOMAIN j.todo : j.todo[i] = d) <=> d = c
    BY <1>4
  <2>2. \A d : Waits(p, d)' <=> j # NoJob /\ j.waiting /\ Head(j.todo) = d
    BY <1>3 DEF Waits, Current
  <2> QED
    BY <1>2, <1>3, <1>4, <2>1, <2>2
<1>6. /\ calls' \in [Peer -> SUBSET Conn]
      /\ rsp' \in [Conn -> Answer \cup Broken \cup {None}]
      /\ \A x \in Peer, d \in Conn :
            Arrived(x, d)' <=> (Arrived(x, d) /\ ~(x = p /\ d = c)) \/ (x = q /\ d = e)
  BY CallIsTaken, ConnectIs
<1>7. \A x \in Peer, d \in Conn : \A h \in KeyHash : Row(x, h, d)' <=> Row(x, h, d)
  BY DEF Row
<1>8. \A d : ~InLoop(p, d) /\ ~Waits(p, d)
  BY IdleIs
<1>9. \A d \in Conn : Filed(p, d)' <=> Filed(p, d)
  <2>1. \A h \in KeyHash : ~Loops(p, h) /\ ~Loops(p, h)'
    BY <1>2, <1>3, SentinelAssumption DEF Loops
  <2> QED
    BY <1>7, <2>1 DEF Filed
<1>10. cmd[c.req] \in Cmd /\ e.req = c.req /\ c # e
  <2>1. cmd[c.req] \in Cmd
    BY DEF KeyTyped
  <2> QED
    BY <2>1 DEF Placed
<1>11. KeyTyped'
  <2>1. \A x \in Peer, d \in Conn : Arrived(x, d)' \/ InLoop(x, d)' => cmd[d.req] \in Cmd
    <3> SUFFICES ASSUME NEW x \in Peer, NEW d \in Conn, Arrived(x, d)' \/ InLoop(x, d)'
                 PROVE  cmd[d.req] \in Cmd
      OBVIOUS
    <3>1. CASE Arrived(x, d)'
      BY <1>6, <1>10, <3>1 DEF KeyTyped
    <3>2. CASE InLoop(x, d)' /\ x = p
      BY <1>5, <1>10, <3>2
    <3>3. CASE InLoop(x, d)' /\ x # p
      BY <1>3, <3>3, SamePlaces DEF KeyTyped
    <3> QED
      BY <3>1, <3>2, <3>3
  <2>2. \A x \in Peer, d \in Conn : \A h \in KeyHash :
           Row(x, h, d)' => cmd[d.req] \in Cmd /\ HashOf(d) = h
    BY <1>7 DEF KeyTyped
  <2> QED
    BY <1>3, <1>6, <2>1, <2>2, TypedStays DEF KeyTyped
<1>12. ~Filed(p, c)
  BY DEF Tidy, TidyAt
<1>13. TidyAt(p)'
  <2>1. \A h \in KeyHash : \A i, k \in DOMAIN rt'[p][h] : rt'[p][h][i] = rt'[p][h][k] => i = k
    BY DEF Tidy, TidyAt
  <2>2. \A i, k \in DOMAIN job'[p].todo : job'[p].todo[i] = job'[p].todo[k] => i = k
    BY <1>3, <1>4
  <2>3. \A d \in Conn : /\ ~(Arrived(p, d)' /\ Filed(p, d)')
                        /\ ~(Arrived(p, d)' /\ InLoop(p, d)')
                        /\ ~(Filed(p, d)' /\ InLoop(p, d)')
    BY <1>5, <1>6, <1>9, <1>10, <1>12 DEF Tidy, TidyAt, Placed
  <2> QED
    BY <2>1, <2>2, <2>3 DEF TidyAt
<1>14. ASSUME NEW x \in Peer, x # p
       PROVE  TidyAt(x)' /\ \A d \in Conn : (Filed(x, d)' <=> Filed(x, d))
                                            /\ (InLoop(x, d)' <=> InLoop(x, d))
                                            /\ (Waits(x, d)' <=> Waits(x, d))
  <2>1. \A d \in Conn : /\ Filed(x, d)' <=> Filed(x, d)
                        /\ InLoop(x, d)' <=> InLoop(x, d)
                        /\ Waits(x, d)' <=> Waits(x, d)
    BY <1>3, <1>14, SamePlaces
  <2>2. \A d \in Conn : Arrived(x, d)' => Arrived(x, d) \/ (d = e /\ ~Filed(x, d) /\ ~InLoop(x, d))
    BY <1>6, <1>14 DEF Placed
  <2>3. rt'[x] = rt[x] /\ job'[x] = job[x]
    BY <1>3, <1>14
  <2> QED
    BY <2>1, <2>2, <2>3 DEF Tidy, TidyAt
<1>15. Tidy'
  BY <1>13, <1>14 DEF Tidy
<1>16. Passes(p, c, q, e)
  <2>1. \A x \in Peer, d \in Conn : Placed(x, d)' <=> Placed(x, d) \/ (x = q /\ d = e)
    <3> SUFFICES ASSUME NEW x \in Peer, NEW d \in Conn
                 PROVE  Placed(x, d)' <=> Placed(x, d) \/ (x = q /\ d = e)
      OBVIOUS
    <3>1. CASE x = p
      BY <1>5, <1>6, <1>8, <1>9, <3>1 DEF Placed
    <3>2. CASE x # p
      BY <1>6, <1>14, <3>2 DEF Placed
    <3> QED
      BY <3>1, <3>2
  <2>2. \A x \in Peer, d \in Conn : Waits(x, d)' <=> Waits(x, d) \/ (x = p /\ d = c)
    BY <1>5, <1>8, <1>14
  <2> QED
    BY <2>1, <2>2 DEF Passes
<1> QED
  BY <1>11, <1>15, <1>16

\* A loop of p proxies its current request.
LEMMA NextPasses ==
    ASSUME KeyTyped, Tidy, NEW p \in Peer, job[p] # NoJob, ~job[p].waiting,
           Connect(calls, p, Current(p), job[p].to),
           job' = [job EXCEPT ![p].waiting = TRUE], UNCHANGED <<dht, rt, cmd>>,
           NEW e \in Conn, e = Onward(p), \A x \in Peer : ~Placed(x, e)
    PROVE  KeyTyped' /\ Tidy' /\ Passes(p, Current(p), job[p].to, e)
<1>1. PICK c, q : c = Current(p) /\ q = job[p].to
  OBVIOUS
<1>2. /\ c \in Conn /\ q \in Peer /\ cmd[c.req] \in Cmd /\ InLoop(p, c)
      /\ e = [req |-> c.req, from |-> p] /\ e.req = c.req
  BY <1>1, JobIs DEF Onward
<1>3. PICK j : j = [job[p] EXCEPT !.waiting = TRUE]
  OBVIOUS
<1>4. /\ j \in Job /\ j.todo = job[p].todo /\ j.hash = job[p].hash /\ j.waiting
      /\ j.todo # <<>> /\ job' = [job EXCEPT ![p] = j]
  <2>1. job[p] \in Job /\ job[p].todo # <<>>
    BY JobIs
  <2> QED
    BY <1>3, <2>1 DEF Job
<1>5. /\ job' \in [Peer -> Job \cup {NoJob}] /\ job'[p] = j /\ j # NoJob
      /\ \A x \in Peer \ {p} : job'[x] = job[x]
      /\ \A x \in Peer : job'[x] # NoJob => job'[x].todo # <<>>
  <2>1. j \in Job /\ j.todo # <<>> /\ job' = [job EXCEPT ![p] = j]
    BY <1>4
  <2> QED
    BY <2>1, JobSet
<1>6. /\ \A d : InLoop(p, d)' <=> InLoop(p, d)
      /\ \A d : ~Waits(p, d) /\ (Waits(p, d)' <=> d = c)
      /\ \A d : Filed(p, d)' <=> Filed(p, d)
  <2>1. \A d : InLoop(p, d)' <=> InLoop(p, d)
    BY <1>4, <1>5 DEF InLoop
  <2>2. \A d : ~Waits(p, d) /\ (Waits(p, d)' <=> d = c)
    BY <1>1, <1>4, <1>5 DEF Waits, Current
  <2>3. \A h : Loops(p, h)' <=> Loops(p, h)
    BY <1>4, <1>5 DEF Loops
  <2>4. \A h, d : Row(p, h, d)' <=> Row(p, h, d)
    BY DEF Row
  <2> QED
    BY <2>1, <2>2, <2>3, <2>4 DEF Filed
<1>7. /\ calls' \in [Peer -> SUBSET Conn]
      /\ rsp' \in [Conn -> Answer \cup Broken \cup {None}]
      /\ \A x \in Peer, d \in Conn : Arrived(x, d)' <=> Arrived(x, d) \/ (x = q /\ d = e)
  <2>1. calls \in [Peer -> SUBSET Conn] /\ Connect(calls, p, c, q)
    BY <1>1 DEF KeyTyped
  <2> QED
    BY <1>2, <2>1, ConnectIs DEF Arrived
<1>8. \A x \in Peer, d \in Conn : \A h \in KeyHash : Row(x, h, d)' <=> Row(x, h, d)
  BY DEF Row
<1>9. ASSUME NEW x \in Peer
      PROVE  \A d \in Conn : /\ Filed(x, d)' <=> Filed(x, d)
                             /\ InLoop(x, d)' <=> InLoop(x, d)
                             /\ Waits(x, d)' <=> Waits(x, d) \/ (x = p /\ d = c)
  <2>1. CASE x = p
    BY <1>6, <2>1
  <2>2. CASE x # p
    BY <1>5, <2>2, SamePlaces
  <2> QED
    BY <2>1, <2>2
<1>10. KeyTyped'
  <2>1. \A x \in Peer, d \in Conn : Arrived(x, d)' \/ InLoop(x, d)' => cmd[d.req] \in Cmd
    BY <1>2, <1>7, <1>9 DEF KeyTyped
  <2>2. \A x \in Peer, d \in Conn : \A h \in KeyHash :
           Row(x, h, d)' => cmd[d.req] \in Cmd /\ HashOf(d) = h
    BY <1>8 DEF KeyTyped
  <2> QED
    BY <1>5, <1>7, <2>1, <2>2, TypedStays DEF KeyTyped
<1>11. ASSUME NEW x \in Peer PROVE TidyAt(x)'
  <2>1. \A h \in KeyHash : \A i, k \in DOMAIN rt'[x][h] : rt'[x][h][i] = rt'[x][h][k] => i = k
    BY DEF Tidy, TidyAt
  <2>2. job'[x] # NoJob =>
          \A i, k \in DOMAIN job'[x].todo : job'[x].todo[i] = job'[x].todo[k] => i = k
    BY <1>4, <1>5 DEF Tidy, TidyAt
  <2>3. \A d \in Conn : /\ ~(Arrived(x, d)' /\ Filed(x, d)')
                        /\ ~(Arrived(x, d)' /\ InLoop(x, d)')
                        /\ ~(Filed(x, d)' /\ InLoop(x, d)')
    BY <1>7, <1>9 DEF Tidy, TidyAt, Placed
  <2> QED
    BY <2>1, <2>2, <2>3 DEF TidyAt
<1>12. Passes(p, c, q, e)
  BY <1>7, <1>9 DEF Passes, Placed
<1> QED
  BY <1>1, <1>10, <1>11, <1>12 DEF Tidy
-----------------------------------------------------------------------------
(* Where requests are                                                      *)

\* The peer is not waiting for the answer to c.
Free(p, c) == Placed(p, c) /\ ~Waits(p, c)

OnePlace == \A c \in Conn, p, q \in Peer : Placed(p, c) /\ Placed(q, c) => p = q

Unanswered == \A c \in Conn, p \in Peer : Placed(p, c) => rsp[c] = None /\ phase[p] = "up"

\* A connection that a peer has opened is one that it waits for, unless it
\* has ended.
Wanted == \A c \in Conn, p \in Peer : Placed(p, c) /\ c.from # Client =>
    phase[c.from] = "dead" \/ \E d \in Conn : Waits(c.from, d) /\ d.req = c.req

\* A request is served at one peer, if at any, ...
OneRun == \A c, d \in Conn, p, q \in Peer : Free(p, c) /\ Free(q, d) /\ c.req = d.req => c = d

\* ... where it is not as long as it has not been answered, ...
NotYet == \A c, d \in Conn, p \in Peer : Free(p, c) /\ d.req = c.req => rsp[d] \notin Answer

\* ... and everybody who gets an answer gets the same one.
Agreed == \A c, d \in Conn :
    rsp[c] \in Answer /\ rsp[d] \in Answer /\ c.req = d.req => rsp[c] = rsp[d]

Issued == \A c \in Conn : rsp[c] # None => cmd[c.req] # None

PlaceInv == /\ OnePlace /\ Unanswered /\ Wanted
            /\ OneRun /\ NotYet /\ Agreed /\ Issued

\* What p waits for is in its loop.
LEMMA WaitsIs ==
    ASSUME KeyTyped, NEW p \in Peer, NEW c, Waits(p, c)
    PROVE  /\ c \in Conn /\ Placed(p, c) /\ c = Current(p)
           /\ job[p] # NoJob /\ job[p].waiting /\ \A d : Waits(p, d) => d = c
BY JobIs DEF Waits, Placed

LEMMA PlacedKnown ==
    ASSUME KeyTyped, NEW p \in Peer, NEW c \in Conn, Placed(p, c)
    PROVE  cmd[c.req] \in Cmd /\ cmd[c.req] # None
BY SentinelAssumption DEF KeyTyped, Placed, Filed

\* A connection that p has not yet opened is nowhere.
LEMMA NewIsFresh ==
    ASSUME PlaceInv, NEW p \in Peer, phase[p] = "up", \A d : ~Waits(p, d),
           NEW e \in Conn, e.from = p
    PROVE  \A x \in Peer : ~Placed(x, e)
BY TableAssumption DEF PlaceInv, Wanted

\* A step that leaves the connections where they are.
LEMMA ShiftsKeeps ==
    ASSUME PlaceInv, Shifts, UNCHANGED <<cmd, rsp>>,
           \A p \in Peer : (phase[p] = "up" => phase'[p] = "up")
                           /\ (phase[p] = "dead" => phase'[p] = "dead")
    PROVE  PlaceInv'
<1>1. OnePlace' /\ OneRun' /\ NotYet' /\ Agreed' /\ Issued'
  BY DEF PlaceInv, Shifts, OnePlace, OneRun, NotYet, Agreed, Issued, Free
<1>2. Unanswered'
  BY DEF PlaceInv, Shifts, Unanswered
<1>3. Wanted'
  <2> SUFFICES ASSUME NEW c \in Conn, NEW p \in Peer, Placed(p, c)', c.from # Client
               PROVE  phase'[c.from] = "dead" \/ \E d \in Conn : Waits(c.from, d)' /\ d.req = c.req
    BY DEF Wanted
  <2> QED
    BY ConnIs DEF PlaceInv, Shifts, Wanted
<1> QED
  BY <1>1, <1>2, <1>3 DEF PlaceInv

LEMMA AddsKeeps ==
    ASSUME KeyTyped, PlaceInv, NEW r \in Req, NEW p \in Peer, phase[p] = "up",
           NEW c \in Conn, c = ClientConn(r), cmd[r] = None, Adds(p, c),
           \A q \in Peer : ~Placed(q, c),
           UNCHANGED <<phase, rsp>>, \A s \in Req \ {r} : cmd'[s] = cmd[s]
    PROVE  PlaceInv'
<1>1. c.req = r /\ c.from = Client
  BY ConnsBuilt
<1>2. \A d \in Conn : d.req = r => rsp[d] = None /\ \A q \in Peer : ~Placed(q, d)
  BY PlacedKnown DEF PlaceInv, Issued
<1>3. \A q \in Peer, d \in Conn : ~Waits(q, c) /\ (Free(q, d)' <=> Free(q, d) \/ (q = p /\ d = c))
  BY WaitsIs DEF Adds, Free
<1>4. OnePlace' /\ Unanswered'
  BY <1>1, <1>2 DEF PlaceInv, Adds, OnePlace, Unanswered
<1>5. Wanted'
  <2> SUFFICES ASSUME NEW d \in Conn, NEW q \in Peer, Placed(q, d)', d.from # Client
               PROVE  phase'[d.from] = "dead" \/ \E b \in Conn : Waits(d.from, b)' /\ b.req = d.req
    BY DEF Wanted
  <2>1. Placed(q, d) /\ d.from \in Peer
    BY <1>1, ConnIs DEF Adds
  <2> QED
    BY <2>1 DEF PlaceInv, Adds, Wanted
<1>6. OneRun' /\ NotYet'
  <2>1. \A q \in Peer, d \in Conn : Free(q, d) => d.req # r
    BY <1>2 DEF Free
  <2>2. \A d \in Conn : d.req = r => rsp[d] \notin Answer
    BY <1>2, SentinelAssumption
  <2> QED
    BY <1>1, <1>3, <2>1, <2>2 DEF PlaceInv, OneRun, NotYet
<1>7. Agreed'
  BY DEF PlaceInv, Agreed
<1>8. Issued'
  BY <1>2, ConnIs DEF PlaceInv, Issued
<1> QED
  BY <1>4, <1>5, <1>6, <1>7, <1>8 DEF PlaceInv

\* p has answered c or closed it, with what was sent back to itself if it
\* has waited.
LEMMA DropsKeeps ==
    ASSUME KeyTyped, PlaceInv, NEW p \in Peer, NEW c \in Conn, Placed(p, c), Drops(p, c),
           UNCHANGED <<phase, cmd>>, NEW a, a # None,
           \A d \in Conn : rsp'[d] = IF d = c THEN a ELSE rsp[d],
           Waits(p, c) => \A e \in Conn : e.req = c.req /\ e.from = p => rsp[e] # None,
           a \in Answer => Free(p, c) \/ \E e \in Conn : e.req = c.req /\ rsp[e] = a
    PROVE  PlaceInv'
<1>1. OnePlace' /\ Unanswered'
  BY DEF PlaceInv, Drops, OnePlace, Unanswered
<1>2. Wanted'
  <2> SUFFICES ASSUME NEW d \in Conn, NEW q \in Peer, Placed(q, d)', d.from # Client
               PROVE  phase'[d.from] = "dead" \/ \E b \in Conn : Waits(d.from, b)' /\ b.req = d.req
    BY DEF Wanted
  <2>1. Placed(q, d) /\ d.from \in Peer /\ rsp[d] = None
    BY ConnIs DEF Drops, PlaceInv, Unanswered
  <2>2. CASE phase[d.from] = "dead"
    BY <2>2
  <2>3. CASE phase[d.from] # "dead"
    <3>1. PICK b \in Conn : Waits(d.from, b) /\ b.req = d.req
      BY <2>1, <2>3 DEF PlaceInv, Wanted
    <3>2. ~(d.from = p /\ b = c)
      BY <2>1, <3>1
    <3> QED
      BY <2>1, <3>1, <3>2 DEF Drops
  <2> QED
    BY <2>2, <2>3
<1>3. \A q \in Peer, d \in Conn : Free(q, d)' <=> Free(q, d) /\ ~(q = p /\ d = c)
  BY DEF Drops, Free
<1>4. OneRun'
  BY <1>3 DEF PlaceInv, OneRun
<1>5. \A d \in Conn : rsp'[d] \in Answer => rsp[d] \in Answer \/ (d = c /\ rsp'[d] = a)
  OBVIOUS
<1>6. NotYet'
  <2> SUFFICES ASSUME NEW d \in Conn, NEW b \in Conn, NEW q \in Peer,
                      Free(q, d)', b.req = d.req, rsp'[b] \in Answer
               PROVE  FALSE
    BY DEF NotYet
  <2>1. Free(q, d) /\ ~(q = p /\ d = c)
    BY <1>3
  <2>2. b = c /\ a \in Answer
    BY <1>5, <2>1 DEF PlaceInv, NotYet
  <2>3. ~Free(p, c)
    BY <2>1, <2>2 DEF PlaceInv, OneRun, OnePlace, Free
  <2> QED
    BY <2>1, <2>2, <2>3 DEF PlaceInv, NotYet
<1>7. Agreed'
  <2>1. a \in Answer => \A d \in Conn : d.req = c.req /\ rsp[d] \in Answer => rsp[d] = a
    BY DEF PlaceInv, NotYet, Agreed
  <2> QED
    BY <2>1 DEF PlaceInv, Agreed
<1>8. Issued'
  BY PlacedKnown DEF PlaceInv, Issued
<1> QED
  BY <1>1, <1>2, <1>4, <1>6, <1>7, <1>8 DEF PlaceInv

\* p has passed c on to q.
LEMMA PassesKeeps ==
    ASSUME KeyTyped, PlaceInv, NEW p \in Peer, NEW q \in Peer, NEW c \in Conn, Free(p, c),
           NEW e \in Conn, e.req = c.req, e.from = p, Passes(p, c, q, e),
           \A x \in Peer : ~Placed(x, e), phase[q] = "up", UNCHANGED <<phase, cmd>>,
           \A d \in Conn : rsp'[d] = IF d = e THEN None ELSE rsp[d]
    PROVE  PlaceInv'
<1>1. OnePlace' /\ Unanswered'
  BY DEF PlaceInv, Passes, OnePlace, Unanswered
<1>2. Wanted'
  <2> SUFFICES ASSUME NEW d \in Conn, NEW x \in Peer, Placed(x, d)', d.from # Client
               PROVE  phase'[d.from] = "dead" \/ \E b \in Conn : Waits(d.from, b)' /\ b.req = d.req
    BY DEF Wanted
  <2>1. CASE d = e
    BY <2>1 DEF Passes
  <2>2. CASE d # e
    BY <2>2, ConnIs DEF PlaceInv, Wanted, Passes
  <2> QED
    BY <2>1, <2>2
<1>3. \A x \in Peer, d \in Conn :
         Free(x, d)' <=> (Free(x, d) /\ ~(x = p /\ d = c)) \/ (x = q /\ d = e)
  BY WaitsIs DEF Passes, Free
<1>4. \A x \in Peer, d \in Conn : Free(x, d)' /\ d.req = c.req => d = e
  BY <1>3 DEF PlaceInv, OneRun, OnePlace, Free
<1>5. OneRun'
  BY <1>3, <1>4 DEF PlaceInv, OneRun
<1>6. \A d \in Conn : rsp'[d] \in Answer => rsp[d] \in Answer /\ rsp'[d] = rsp[d]
  BY SentinelAssumption
<1>7. NotYet' /\ Agreed'
  BY <1>3, <1>6 DEF PlaceInv, NotYet, Agreed
<1>8. Issued'
  BY DEF PlaceInv, Issued
<1> QED
  BY <1>1, <1>2, <1>5, <1>7, <1>8 DEF PlaceInv

\* p has ended.
LEMMA LeavesKeeps ==
    ASSUME KeyTyped, PlaceInv, NEW p \in Peer, Leaves(p),
           \A q \in Peer : phase'[q] = IF q = p THEN "dead" ELSE phase[q],
           UNCHANGED cmd,
           \A c \in Conn : /\ ~Placed(p, c) => rsp'[c] = rsp[c]
                           /\ Placed(p, c) => rsp'[c] \in Broken
    PROVE  PlaceInv'
<1>1. OnePlace'
  BY DEF PlaceInv, Leaves, OnePlace
<1>2. Unanswered'
  BY DEF PlaceInv, Leaves, OnePlace, Unanswered
<1>3. Wanted'
  <2> SUFFICES ASSUME NEW d \in Conn, NEW x \in Peer, Placed(x, d)', d.from # Client
               PROVE  phase'[d.from] = "dead" \/ \E b \in Conn : Waits(d.from, b)' /\ b.req = d.req
    BY DEF Wanted
  <2>1. d.from \in Peer /\ Placed(x, d)
    BY ConnIs DEF Leaves
  <2> QED
    BY <2>1 DEF PlaceInv, Wanted, Leaves
<1>4. \A c \in Conn : rsp'[c] \in Answer => rsp[c] \in Answer /\ rsp'[c] = rsp[c]
  BY SentinelAssumption
<1>5. \A x \in Peer, d \in Conn : Free(x, d)' => Free(x, d)
  BY DEF Leaves, Free
<1>6. OneRun' /\ NotYet' /\ Agreed'
  BY <1>4, <1>5 DEF PlaceInv, OneRun, NotYet, Agreed
<1>7. Issued'
  BY PlacedKnown DEF PlaceInv, Issued
<1> QED
  BY <1>1, <1>2, <1>3, <1>6, <1>7 DEF PlaceInv
-----------------------------------------------------------------------------
(* The steps                                                               *)

\* p sends a back on c, and is done with it.
Answers(p, c, a) ==
    /\ c \in Conn /\ Placed(p, c) /\ Drops(p, c) /\ UNCHANGED <<phase, pred, cmd>>
    /\ \A d \in Conn : rsp'[d] = IF d = c THEN a ELSE rsp[d]

Refuses(p, c) == Answers(p, c, Closed) /\ UNCHANGED dht

Relays(p, c, e) ==
    /\ Answers(p, c, Received(rsp[e])) /\ UNCHANGED dht
    /\ e \in Conn /\ e.req = c.req /\ rsp[e] # None

\* p asks another peer on a connection of its own.
Proxies(p, c) == \E q \in Peer, e \in Conn :
    /\ c \in Conn /\ Free(p, c) /\ e.req = c.req /\ e.from = p
    /\ Passes(p, c, q, e) /\ UNCHANGED <<phase, pred, dht, cmd>>
    /\ \A d \in Conn : rsp'[d] = IF d = e THEN None ELSE rsp[d]

\* p has ended, and with it what it had in hand.
HangsUp(p) ==
    /\ Leaves(p) /\ phase'[p] = "dead" /\ UNCHANGED <<dht, cmd>>
    /\ \A c \in Conn : /\ ~Placed(p, c) => rsp'[c] = rsp[c]
                       /\ Placed(p, c) => rsp'[c] \in Broken

Moves == Shifts /\ UNCHANGED <<dht, cmd, rsp>>

\* Who listens goes on listening until it ends, and one ends at a time.
LEMMA PhaseEffect ==
    ASSUME Typed, Effect
    PROVE  /\ \A p \in Peer : phase[p] = "dead" => phase'[p] = "dead"
           /\ \A p \in Peer : phase[p] = "up" => phase'[p] \in {"up", "dead"}
           /\ \A p \in Peer : phase[p] = "up" /\ phase'[p] = "dead" =>
                 \A q \in Peer : phase'[q] = IF q = p THEN "dead" ELSE phase[q]
<1>1. ASSUME UNCHANGED phase
      PROVE  \A p \in Peer : phase'[p] = phase[p]
  BY <1>1
<1>2. ASSUME NEW p \in Peer, NEW n \in Peer,
             \/ Stabilizes(p) \/ JoinsFirst(p, n) \/ JoinsHere(p, n) \/ JoinsOnward(p, n)
             \/ TellsPred(p, n) \/ Learns(p, n)
      PROVE  UNCHANGED phase
  BY <1>2 DEF Stabilizes, JoinsFirst, JoinsHere, JoinsOnward, Joins, TellsPred, Learns
<1>3. Idles => UNCHANGED phase
  BY DEF Idles
<1>4. ASSUME Founds
      PROVE  /\ \A p \in Peer : phase[p] \in {"up", "dead"} => phase'[p] = phase[p]
  BY <1>4 DEF Founds, Typed
<1>5. ASSUME NEW p \in Peer, NEW n \in Peer, Starts(n, p) \/ StartsAlone(n) \/ Listens(p)
      PROVE  \A q \in Peer : phase[q] \in {"up", "dead"} => phase'[q] = phase[q]
  BY <1>5 DEF Starts, StartsAlone, Listens, Typed
<1>6. ASSUME NEW p \in Peer, Ends(p)
      PROVE  phase[p] = "up" /\ \A q \in Peer : phase'[q] = IF q = p THEN "dead" ELSE phase[q]
  BY <1>6 DEF Ends, Typed
<1>7. \/ \A p \in Peer : phase[p] \in {"up", "dead"} => phase'[p] = phase[p]
      \/ \E p \in Peer : /\ phase[p] = "up"
                         /\ \A q \in Peer : phase'[q] = IF q = p THEN "dead" ELSE phase[q]
  BY <1>1, <1>2, <1>3, <1>4, <1>5, <1>6 DEF Effect
<1> QED
  BY <1>7

\* The steps of JoinRing are steps of the ring.
LEMMA RingStepIs ==
    ASSUME RingStep
    PROVE  Step /\ UNCHANGED setting
BY DEF RingStep, Step, Served

\* What the connections are after a step of the ring.
LEMMA KeysOfRing ==
    ASSUME KeyTyped, Tidy, PlaceInv, Typed, Effect, RingStep
    PROVE  /\ KeyTyped' /\ Tidy' /\ PlaceInv'
           /\ (Moves /\ UNCHANGED keyVars) \/ \E p \in Peer : HangsUp(p)
<1>1. CASE {p \in Peer : phase[p] = "up" /\ phase'[p] = "dead"} = {}
  <2>1. UNCHANGED <<dht, rt, calls, job, cmd, rsp>> /\ UNCHANGED keyVars
    BY <1>1 DEF RingStep, keyVars
  <2>2. KeyTyped' /\ Tidy' /\ Shifts
    BY <2>1 DEF KeyTyped, Tidy, TidyAt, Shifts, Placed, Waits, Current, Arrived, Filed, InLoop,
       Row, Loops, HashOf
  <2>3. \A p \in Peer : /\ phase[p] = "up" => phase'[p] = "up"
                        /\ phase[p] = "dead" => phase'[p] = "dead"
    BY <1>1, PhaseEffect
  <2> QED
    BY <2>1, <2>2, <2>3, ShiftsKeeps DEF Moves
<1>2. CASE {p \in Peer : phase[p] = "up" /\ phase'[p] = "dead"} # {}
  <2>1. PICK p \in Peer : phase[p] = "up" /\ phase'[p] = "dead" /\ HangUp(p, calls[p])
    BY <1>2 DEF RingStep
  <2>2. \A q \in Peer : phase'[q] = IF q = p THEN "dead" ELSE phase[q]
    BY <2>1, PhaseEffect
  <2>3. KeyTyped' /\ Tidy' /\ Leaves(p) /\ UNCHANGED <<dht, cmd>>
    BY <2>1, HangUpIs, HangUpLeaves
  <2>4. \A c \in Conn : /\ ~Placed(p, c) => rsp'[c] = rsp[c]
                        /\ Placed(p, c) => rsp'[c] \in Broken
    BY <2>1, HangUpIs DEF Placed, Arrived, Broken
  <2> QED
    BY <2>1, <2>2, <2>3, <2>4, LeavesKeeps DEF HangsUp
<1> QED
  BY <1>1, <1>2

LEMMA KeysOfCrash ==
    ASSUME KeyTyped, Tidy, PlaceInv, Typed,
           NEW p \in Peer, NEW c \in calls[p], CallCrash(p, c)
    PROVE  /\ KeyTyped' /\ Tidy' /\ PlaceInv' /\ HangsUp(p)
           /\ Typed' /\ Ends(p) /\ UNCHANGED setting
<1>1. /\ Die(p) /\ UNCHANGED setting /\ HangUp(p, calls[p] \ {c})
      /\ phase[p] = "up" /\ (pred[p] = NULL \/ succ[p] = NULL)
  BY DEF CallCrash, TakesCall
<1>2. Typed' /\ Ends(p)
  BY <1>1, DieIs
<1>3. \A q \in Peer : phase'[q] = IF q = p THEN "dead" ELSE phase[q]
  BY <1>1 DEF Die, Typed
<1>4. KeyTyped' /\ Tidy' /\ Leaves(p) /\ UNCHANGED <<dht, cmd>>
  BY <1>1, HangUpIs, HangUpLeaves
<1>5. \A d \in Conn : /\ ~Placed(p, d) => rsp'[d] = rsp[d]
                      /\ Placed(p, d) => rsp'[d] \in Broken
  BY <1>1, HangUpIs DEF Placed, Arrived, Broken
<1> QED
  BY <1>1, <1>2, <1>3, <1>4, <1>5, LeavesKeeps DEF HangsUp

LEMMA CallIs ==
    ASSUME KeyTyped, Tidy, NEW p \in Peer, NEW c \in calls[p], TakesCall(p, c)
    PROVE  /\ c \in Conn /\ Arrived(p, c) /\ Free(p, c) /\ cmd[c.req] \in Cmd
           /\ phase[p] = "up" /\ job[p] = NoJob /\ \A d : ~Waits(p, d)
BY IdleIs DEF TakesCall, KeyTyped, Arrived, Placed, Free

LEMMA KeysOfOwn ==
    ASSUME KeyTyped, Tidy, PlaceInv, NEW p \in Peer, NEW c \in calls[p], HandleOwnRequest(p, c)
    PROVE  /\ KeyTyped' /\ Tidy' /\ PlaceInv'
           /\ Free(p, c) /\ cmd[c.req] \in Cmd /\ AnswerTo(dht[p], cmd[c.req]) \in Answer
           /\ Answers(p, c, AnswerTo(dht[p], cmd[c.req]))
<1>1. /\ c \in Conn /\ Arrived(p, c) /\ Free(p, c) /\ cmd[c.req] \in Cmd
      /\ phase[p] = "up" /\ job[p] = NoJob /\ \A d : ~Waits(p, d)
  BY CallIs DEF HandleOwnRequest
<1>2. PICK a : a = AnswerTo(dht[p], cmd[c.req])
  OBVIOUS
<1>3. a \in Answer /\ a # None
  BY <1>1, <1>2, AnswerIs, SentinelAssumption
<1>4. /\ Respond(c, a) /\ calls' = CallTaken(p, c)
      /\ UNCHANGED <<rt, job, cmd, phase, pred>>
      /\ dht' \in [Peer -> [Key -> Value \cup {NoValue}]]
  BY <1>1, <1>2, AnswerIs DEF HandleOwnRequest, vars, KeyTyped
<1>5. KeyTyped' /\ Tidy' /\ Drops(p, c)
  BY <1>1, <1>3, <1>4, TakenDrops
<1>6. \A d \in Conn : rsp'[d] = IF d = c THEN a ELSE rsp[d]
  BY <1>1, <1>3, <1>4, RespondIs
<1>7. Placed(p, c)
  BY <1>1 DEF Free
<1>8. PlaceInv'
  BY <1>1, <1>3, <1>4, <1>5, <1>6, <1>7, DropsKeeps
<1> QED
  BY <1>1, <1>2, <1>3, <1>4, <1>5, <1>6, <1>7, <1>8 DEF Answers

LEMMA KeysOfProxy ==
    ASSUME KeyTyped, Tidy, PlaceInv, Typed, NEW p \in Peer, NEW c \in calls[p], ProxyToSucc(p, c)
    PROVE  /\ KeyTyped' /\ Tidy' /\ PlaceInv'
           /\ \/ succ[p] \in Peer /\ phase[succ[p]] # "up" /\ Refuses(p, c)
              \/ Proxies(p, c)
<1>1. /\ c \in Conn /\ Arrived(p, c) /\ Free(p, c) /\ cmd[c.req] \in Cmd
      /\ phase[p] = "up" /\ job[p] = NoJob /\ \A d : ~Waits(p, d)
  BY CallIs DEF ProxyToSucc
<1>2. PICK q \in Peer : q = succ[p]
  BY DEF ProxyToSucc, SuccOwns, Typed
<1>3. /\ UNCHANGED <<phase, pred, dht, rt, cmd>>
      /\ \/ /\ phase[q] = "up" /\ Connect(CallTaken(p, c), p, c, q)
            /\ job' = [job EXCEPT ![p] = [todo |-> <<c>>, to |-> q,
                                          hash |-> None, waiting |-> TRUE]]
         \/ /\ phase[q] # "up" /\ calls' = CallTaken(p, c) /\ Respond(c, Closed) /\ UNCHANGED job
  BY <1>2 DEF ProxyToSucc, vars
<1>4. CASE /\ phase[q] # "up" /\ calls' = CallTaken(p, c) /\ Respond(c, Closed)
           /\ UNCHANGED job
  <2>1. Closed \in Broken /\ Closed # None /\ Closed \notin Answer
    BY SentinelAssumption DEF Broken
  <2>2. KeyTyped' /\ Tidy' /\ Drops(p, c)
    BY <1>1, <1>3, <1>4, <2>1, TakenDrops DEF KeyTyped
  <2>3. \A d \in Conn : rsp'[d] = IF d = c THEN Closed ELSE rsp[d]
    BY <1>1, <1>4, <2>1, RespondIs
  <2>4. Placed(p, c)
    BY <1>1 DEF Free
  <2> QED
    BY <1>1, <1>2, <1>3, <1>4, <2>1, <2>2, <2>3, <2>4, DropsKeeps DEF Refuses, Answers
<1>5. CASE /\ phase[q] = "up" /\ Connect(CallTaken(p, c), p, c, q)
           /\ job' = [job EXCEPT ![p] = [todo |-> <<c>>, to |-> q,
                                         hash |-> None, waiting |-> TRUE]]
  <2>1. PICK e \in Conn : e = [req |-> c.req, from |-> p] /\ e.req = c.req /\ e.from = p
    BY <1>1, ConnIs, ConnsBuilt
  <2>2. \A x \in Peer : ~Placed(x, e)
    BY <1>1, <2>1, NewIsFresh
  <2>3. KeyTyped' /\ Tidy' /\ Passes(p, c, q, e)
    BY <1>1, <1>3, <1>5, <2>1, <2>2, ProxyPasses
  <2>4. \A d \in Conn : rsp'[d] = IF d = e THEN None ELSE rsp[d]
    BY <1>1, <1>5, <2>1, CallIsTaken, ConnectIs
  <2> QED
    BY <1>1, <1>3, <1>5, <2>1, <2>2, <2>3, <2>4, PassesKeeps DEF Proxies
<1> QED
  BY <1>3, <1>4, <1>5

LEMMA KeysOfLookUp ==
    ASSUME KeyTyped, Tidy, PlaceInv, NEW p \in Peer, NEW c \in calls[p], LookUpPeer(p, c)
    PROVE  KeyTyped' /\ Tidy' /\ PlaceInv' /\ Moves
<1>1. c \in Conn /\ Arrived(p, c) /\ job[p] = NoJob
  BY CallIs DEF LookUpPeer
<1>2. /\ calls' = CallTaken(p, c) /\ UNCHANGED <<phase, dht, job, cmd, rsp>>
      /\ rt' = [rt EXCEPT ![p][HashOf(c)] = Append(@, c)]
  BY DEF LookUpPeer
<1> QED
  BY <1>1, <1>2, LookUpShifts, ShiftsKeeps DEF Moves

LEMMA KeysOfReply ==
    ASSUME KeyTyped, Tidy, PlaceInv, Typed, NEW p \in Peer, NEW m \in inbox[p], ServeOpen(p, m)
    PROVE  KeyTyped' /\ Tidy' /\ PlaceInv' /\ Moves
<1>1. m.node \in Peer /\ m.hash \in KeyHash /\ rt[p][m.hash] # <<>> /\ job[p] = NoJob
  BY PacketFields DEF ServeOpen, Typed, Inboxes
<1>2. /\ job' = [job EXCEPT ![p] = [todo |-> rt[p][m.hash], to |-> m.node,
                                    hash |-> m.hash, waiting |-> FALSE]]
      /\ UNCHANGED <<phase, dht, rt, calls, cmd, rsp>>
  BY DEF ServeOpen
<1> QED
  BY <1>1, <1>2, ServeShifts, ShiftsKeeps DEF Moves

LEMMA KeysOfNext ==
    ASSUME KeyTyped, Tidy, PlaceInv, NEW p \in Peer, ProxyNext(p)
    PROVE  /\ KeyTyped' /\ Tidy' /\ PlaceInv' /\ job[p] # NoJob
           /\ \/ phase[job[p].to] # "up" /\ Refuses(p, Current(p))
              \/ Proxies(p, Current(p))
<1>1. /\ job[p] # NoJob /\ ~job[p].waiting /\ UNCHANGED <<phase, pred, dht, cmd>>
      /\ phase[p] = "up" /\ \A d : ~Waits(p, d)
  BY DEF ProxyNext, Busy, Waits, vars
<1>2. PICK c \in Conn : c = Current(p) /\ InLoop(p, c) /\ cmd[c.req] \in Cmd
  BY <1>1, JobIs
<1>3. PICK q \in Peer : q = job[p].to
  BY <1>1, JobIs
<1>4. Free(p, c)
  BY <1>1, <1>2 DEF Free, Placed
<1>5. \/ /\ phase[q] = "up" /\ Connect(calls, p, c, q) /\ UNCHANGED rt
         /\ job' = [job EXCEPT ![p].waiting = TRUE]
      \/ phase[q] # "up" /\ Respond(c, Closed) /\ Advance(p) /\ UNCHANGED calls
  BY <1>2, <1>3 DEF ProxyNext
<1>6. CASE phase[q] # "up" /\ Respond(c, Closed) /\ Advance(p) /\ UNCHANGED calls
  <2>1. Closed \in Broken /\ Closed # None /\ Closed \notin Answer
    BY SentinelAssumption DEF Broken
  <2>2. KeyTyped' /\ Tidy' /\ Drops(p, c)
    BY <1>1, <1>2, <1>6, <2>1, AdvanceDrops
  <2>3. \A d \in Conn : rsp'[d] = IF d = c THEN Closed ELSE rsp[d]
    BY <1>2, <1>6, <2>1, RespondIs
  <2>4. Placed(p, c)
    BY <1>4 DEF Free
  <2> QED
    BY <1>1, <1>2, <1>3, <1>6, <2>1, <2>2, <2>3, <2>4, DropsKeeps DEF Refuses, Answers
<1>7. CASE /\ phase[q] = "up" /\ Connect(calls, p, c, q) /\ UNCHANGED rt
           /\ job' = [job EXCEPT ![p].waiting = TRUE]
  <2>1. PICK e \in Conn : e = Onward(p) /\ e.req = c.req /\ e.from = p
    BY <1>1, <1>2, JobIs
  <2>2. \A x \in Peer : ~Placed(x, e)
    BY <1>1, <2>1, NewIsFresh
  <2>3. KeyTyped' /\ Tidy' /\ Passes(p, c, q, e)
    BY <1>1, <1>2, <1>3, <1>7, <2>1, <2>2, NextPasses
  <2>4. e = [req |-> c.req, from |-> p] /\ calls \in [Peer -> SUBSET Conn]
    BY <1>2, <2>1 DEF Onward, KeyTyped
  <2>5. \A d \in Conn : rsp'[d] = IF d = e THEN None ELSE rsp[d]
    BY <1>7, <2>4, ConnectIs
  <2> QED
    BY <1>1, <1>2, <1>3, <1>4, <1>7, <2>1, <2>2, <2>3, <2>5, PassesKeeps DEF Proxies
<1> QED
  BY <1>5, <1>6, <1>7

LEMMA KeysOfDone ==
    ASSUME KeyTyped, Tidy, PlaceInv, NEW p \in Peer, ProxyDone(p)
    PROVE  KeyTyped' /\ Tidy' /\ PlaceInv' /\ \E e \in Conn : Relays(p, Current(p), e)
<1>1. /\ job[p] # NoJob /\ job[p].waiting /\ UNCHANGED <<phase, pred, dht, calls, cmd>>
      /\ phase[p] = "up" /\ rsp[Onward(p)] # None /\ Advance(p)
  BY DEF ProxyDone, Busy, vars
<1>2. PICK c \in Conn : /\ c = Current(p) /\ InLoop(p, c) /\ cmd[c.req] \in Cmd
                        /\ Waits(p, c) /\ Placed(p, c)
  BY <1>1, JobIs DEF Waits, Placed
<1>3. PICK e \in Conn : e = Onward(p) /\ e.req = c.req /\ e.from = p
  BY <1>1, <1>2, JobIs
<1>4. PICK a : a = Received(rsp[e])
  OBVIOUS
<1>5. /\ a \in Answer \cup Broken \cup {None} /\ a # None
      /\ a \in Answer => a = rsp[e]
  BY <1>1, <1>3, <1>4, SentinelAssumption DEF Received, KeyTyped, Broken
<1>6. Respond(c, a)
  BY <1>2, <1>3, <1>4 DEF ProxyDone
<1>7. KeyTyped' /\ Tidy' /\ Drops(p, c)
  BY <1>1, <1>2, <1>5, <1>6, AdvanceDrops
<1>8. \A d \in Conn : rsp'[d] = IF d = c THEN a ELSE rsp[d]
  BY <1>5, <1>6, RespondIs
<1>9. \A d \in Conn : d.req = c.req /\ d.from = p => rsp[d] # None
  <2>1. \A d \in Conn : d.req = c.req /\ d.from = p => d = e
    BY <1>3, ConnIs
  <2> QED
    BY <1>1, <1>3, <2>1
<1>10. a \in Answer => \E d \in Conn : d.req = c.req /\ rsp[d] = a
  BY <1>3, <1>5
<1>11. PlaceInv'
  BY <1>1, <1>2, <1>5, <1>7, <1>8, <1>9, <1>10, DropsKeeps
<1>12. Relays(p, Current(p), e)
  BY <1>1, <1>2, <1>3, <1>4, <1>7, <1>8 DEF Relays, Answers
<1> QED
  BY <1>7, <1>11, <1>12

LEMMA KeysOfIssue ==
    ASSUME KeyTyped, Tidy, PlaceInv, NEW r \in Req, NEW p \in Peer, NEW x \in Cmd, Issue(r, p, x)
    PROVE  KeyTyped' /\ Tidy' /\ PlaceInv' /\ Adds(p, ClientConn(r))
<1>1. PICK c \in Conn : c = ClientConn(r)
  BY ConnsBuilt
<1>2. /\ cmd[r] = None /\ phase[p] = "up" /\ UNCHANGED <<phase, rsp>>
      /\ \A s \in Req \ {r} : cmd'[s] = cmd[s]
  BY DEF Issue, vars, KeyTyped
<1>3. KeyTyped' /\ Tidy' /\ Adds(p, c) /\ \A q \in Peer : ~Placed(q, c)
  BY <1>1, IssueTyped, IssueAdds
<1> QED
  BY <1>1, <1>2, <1>3, AddsKeeps

-----------------------------------------------------------------------------
(* The ring under the table                                                *)

\* A lookup for a key is sent; it is no packet about a peer.
LEMMA LookUpEffect ==
    ASSUME Typed, KeyTyped, NEW p \in Peer, NEW c \in calls[p], LookUpPeer(p, c)
    PROVE  Typed' /\ Idles
<1>1. /\ c \in Conn /\ cmd[c.req] \in Cmd
  BY DEF KeyTyped, Arrived
<1>2. PICK q \in Peer, n \in {Lkup(HashOf(c), p, c.req)} : q = succ[p]
  BY DEF LookUpPeer, Typed
<1>3. /\ inbox' = SentTo(inbox, q, {n}) /\ UNCHANGED <<phase, pred, succ>>
  BY <1>2 DEF LookUpPeer
<1>4. HashOf(c) \in HashId /\ c.req \in Req
  BY <1>1, HashIs, ConnIs
<1>5. n \in Packet /\ \A v \in NodeKind : \A z : Node(v, z) # n
  BY <1>2, <1>4, PacketsBuilt DEF Lkup, Node
<1>6. /\ inbox' \in Inboxes
      /\ \A r \in Peer : \A k : k \in inbox'[r] <=>
            k \in inbox[r] \/ (r = q /\ phase[q] = "up" /\ k \in {n})
  <2>1. {n} \in SUBSET Packet /\ inbox \in Inboxes
    BY <1>5 DEF Typed
  <2> QED
    BY <1>3, <2>1, SentIs
<1>7. SameMail
  BY <1>5, <1>6 DEF SameMail, Has
<1> QED
  BY <1>3, <1>6, <1>7 DEF Typed, Idles

\* A REPLY is taken.
LEMMA ServeEffect ==
    ASSUME Typed, NEW p \in Peer, NEW m \in inbox[p], ServeOpen(p, m)
    PROVE  Typed' /\ Idles
<1>1. m \in Packet /\ m.type \notin NodeKind
  BY DEF Typed, Inboxes, ServeOpen, NodeKind
<1>2. inbox' = Taken(p, m) /\ UNCHANGED <<phase, pred, succ>>
  BY DEF ServeOpen
<1>3. /\ inbox' \in Inboxes
      /\ \A q \in Peer : \A n : n \in inbox'[q] <=> n \in inbox[q] /\ ~(q = p /\ n = m)
  BY <1>2, TakenIs DEF Typed
<1>4. SameMail
  BY <1>1, <1>3, NodeIs DEF SameMail, Has
<1> QED
  BY <1>2, <1>3, <1>4 DEF Typed, Idles

\* What is true of the keys at every moment.
KeyInv == KeyTyped /\ Tidy /\ PlaceInv

\* Requests for keys do nothing to the ring, unless one ends a peer.
LEMMA KeyStepIs ==
    ASSUME Typed, KeyInv, NEW p \in Peer, KeyStep(p)
    PROVE  /\ Typed' /\ KeyInv' /\ UNCHANGED <<setting, fingers>>
           /\ Idles \/ Ends(p)
<1>1. ASSUME UNCHANGED vars PROVE Typed' /\ UNCHANGED <<setting, fingers>> /\ Idles
  BY <1>1, Stutter DEF vars
<1>2. ASSUME NEW c \in calls[p], HandleOwnRequest(p, c) \/ ProxyToSucc(p, c)
      PROVE  KeyInv' /\ UNCHANGED vars
  <2>1. UNCHANGED vars
    BY <1>2 DEF HandleOwnRequest, ProxyToSucc
  <2> QED
    BY <1>2, <2>1, KeysOfOwn, KeysOfProxy DEF KeyInv
<1>3. ASSUME NEW c \in calls[p], LookUpPeer(p, c)
      PROVE  KeyInv' /\ Typed' /\ Idles /\ UNCHANGED <<setting, fingers>>
  BY <1>3, KeysOfLookUp, LookUpEffect DEF KeyInv, LookUpPeer
<1>4. ASSUME NEW c \in calls[p], CallCrash(p, c)
      PROVE  KeyInv' /\ Typed' /\ Ends(p) /\ UNCHANGED <<setting, fingers>>
  BY <1>4, KeysOfCrash DEF KeyInv, CallCrash, Die
<1>5. ASSUME NEW m \in inbox[p], ServeOpen(p, m)
      PROVE  KeyInv' /\ Typed' /\ Idles /\ UNCHANGED <<setting, fingers>>
  BY <1>5, KeysOfReply, ServeEffect DEF KeyInv, ServeOpen
<1>6. ASSUME ProxyNext(p) \/ ProxyDone(p)
      PROVE  KeyInv' /\ UNCHANGED vars
  <2>1. UNCHANGED vars
    BY <1>6 DEF ProxyNext, ProxyDone
  <2> QED
    BY <1>6, <2>1, KeysOfNext, KeysOfDone DEF KeyInv
<1> QED
  BY <1>1, <1>2, <1>3, <1>4, <1>5, <1>6 DEF KeyStep

LEMMA TableStep ==
    ASSUME Typed, KeyInv, [TableNext]_<<vars, keyVars>>
    PROVE  /\ Typed' /\ KeyInv' /\ Effect
           /\ setting' = setting /\ fingers' \subseteq fingers
<1>1. CASE RingStep
  <2>1. Step /\ setting' = setting
    BY <1>1, RingStepIs
  <2>2. Typed' /\ Effect /\ fingers' \subseteq fingers
    BY <2>1, StepEffect, FingersStep
  <2> QED
    BY <1>1, <2>1, <2>2, KeysOfRing DEF KeyInv
<1>2. ASSUME NEW p \in Peer, KeyStep(p)
      PROVE  Typed' /\ KeyInv' /\ Effect /\ UNCHANGED <<setting, fingers>>
  BY <1>2, KeyStepIs DEF Effect
<1>3. ASSUME NEW r \in Req, NEW p \in Peer, NEW c \in Cmd, Issue(r, p, c)
      PROVE  Typed' /\ KeyInv' /\ Effect /\ UNCHANGED <<setting, fingers>>
  <2>1. UNCHANGED vars
    BY <1>3 DEF Issue
  <2> QED
    BY <1>3, <2>1, Stutter, KeysOfIssue DEF KeyInv, vars
<1>4. CASE UNCHANGED <<vars, keyVars>>
  <2>1. UNCHANGED <<dht, rt, calls, job, cmd, rsp, phase>>
    BY <1>4 DEF vars, keyVars
  <2>2. KeyTyped' /\ Tidy' /\ Shifts
    BY <2>1 DEF KeyInv, KeyTyped, Tidy, TidyAt, Shifts, Placed, Waits, Current, Arrived, Filed,
       InLoop, Row, Loops, HashOf
  <2>3. PlaceInv'
    BY <2>1, <2>2, ShiftsKeeps DEF KeyInv
  <2> QED
    BY <1>4, <2>2, <2>3, Stutter DEF KeyInv, vars
<1> QED
  BY <1>1, <1>2, <1>3, <1>4 DEF TableNext

LEMMA KeyStart == TableInit => KeyInv /\ Unasked
<1> SUFFICES ASSUME TableInit PROVE KeyInv /\ Unasked
  OBVIOUS
<1>1. /\ dht = [p \in Peer |-> [k \in Key |-> NoValue]]
      /\ rt = [p \in Peer |-> [h \in KeyHash |-> <<>>]]
      /\ calls = [p \in Peer |-> {}] /\ job = [p \in Peer |-> NoJob]
      /\ cmd = [r \in Req |-> None] /\ rsp = [c \in Conn |-> None]
  BY DEF TableInit
<1>2. <<>> \in Seq(Conn)
  OBVIOUS
<1>3. \A p \in Peer : /\ calls[p] = {} /\ job[p] = NoJob
                      /\ \A h \in KeyHash : rt[p][h] = <<>>
  BY <1>1
<1>4. \A p \in Peer, c \in Conn : /\ ~Arrived(p, c) /\ ~InLoop(p, c)
                                  /\ \A h \in KeyHash : ~Row(p, h, c)
  BY <1>3 DEF Arrived, InLoop, Row
<1>5. \A p \in Peer, c \in Conn : ~Placed(p, c)
  BY <1>4 DEF Placed, Filed
<1>6. KeyTyped
  BY <1>1, <1>2, <1>3, <1>4 DEF KeyTyped
<1>7. Tidy
  BY <1>3, <1>4, <1>5 DEF Tidy, TidyAt, Placed
<1>8. PlaceInv
  BY <1>1, <1>5, SentinelAssumption
     DEF PlaceInv, OnePlace, Unanswered, Wanted, OneRun, NotYet, Agreed, Issued, Free
<1>9. Unasked
  BY <1>1, <1>3 DEF Unasked
<1> QED
  BY <1>6, <1>7, <1>8, <1>9 DEF KeyInv

\* Without clients there is nothing but the ring.
LEMMA UnaskedIs ==
    ASSUME Unasked, ~setting.asks, TableNext
    PROVE  RingStep
<1>1. \A p \in Peer : /\ calls[p] = {} /\ job[p] = NoJob
                      /\ \A h \in KeyHash : rt[p][h] = <<>>
  BY DEF Unasked
<1>2. \A p \in Peer : ~KeyStep(p)
  BY <1>1 DEF KeyStep, ServeOpen, ProxyNext, ProxyDone, Busy
<1>3. \A r, p, c : ~Issue(r, p, c)
  BY DEF Issue
<1> QED
  BY <1>2, <1>3 DEF TableNext

LEMMA UnaskedStep ==
    ASSUME Typed, KeyInv, Unasked, [TableNext]_<<vars, keyVars>>
    PROVE  Unasked'
<1> SUFFICES ASSUME ~setting'.asks
             PROVE  /\ cmd' = [r \in Req |-> None] /\ rsp' = [c \in Conn |-> None]
                    /\ dht' = [p \in Peer |-> [k \in Key |-> NoValue]]
                    /\ \A p \in Peer : /\ calls'[p] = {} /\ job'[p] = NoJob
                                       /\ \A h \in KeyHash : rt'[p][h] = <<>>
  BY DEF Unasked
<1>1. ~setting.asks /\ KeyTyped'
  BY TableStep DEF KeyInv
<1>2. /\ cmd = [r \in Req |-> None] /\ rsp = [c \in Conn |-> None]
      /\ dht = [p \in Peer |-> [k \in Key |-> NoValue]]
      /\ \A p \in Peer : /\ calls[p] = {} /\ job[p] = NoJob
                         /\ \A h \in KeyHash : rt[p][h] = <<>>
  BY <1>1 DEF Unasked
<1>3. UNCHANGED keyVars \/ \E p \in Peer : HangUp(p, calls[p])
  BY <1>1, UnaskedIs DEF RingStep
<1>4. CASE UNCHANGED keyVars
  BY <1>2, <1>4 DEF keyVars
<1>5. ASSUME NEW p \in Peer, HangUp(p, calls[p])
      PROVE  /\ UNCHANGED <<dht, cmd>>
             /\ \A q \in Peer : /\ calls'[q] = {} /\ job'[q] = NoJob
                                /\ \A h \in KeyHash : rt'[q][h] = <<>>
             /\ \A c \in Conn : rsp'[c] = None
  <2>1. /\ UNCHANGED <<dht, cmd>>
        /\ \A q \in Peer \ {p} : rt'[q] = rt[q] /\ job'[q] = job[q] /\ calls'[q] = calls[q]
        /\ job'[p] = NoJob /\ calls'[p] = {} /\ \A h \in KeyHash : rt'[p][h] = <<>>
        /\ \A c \in Conn : rsp'[c] = IF c \in calls[p] THEN Reset
                                     ELSE IF Placed(p, c) THEN Closed ELSE rsp[c]
    BY <1>5, HangUpIs DEF KeyInv
  <2>2. \A c \in Conn : ~Placed(p, c)
    BY <1>2 DEF Placed, Arrived, Filed, InLoop, Row
  <2>3. \A c \in Conn : c \notin calls[p] /\ rsp[c] = None
    BY <1>2
  <2>4. \A c \in Conn : rsp'[c] = None
    BY <2>1, <2>2, <2>3
  <2>5. \A q \in Peer : /\ calls'[q] = {} /\ job'[q] = NoJob
                        /\ \A h \in KeyHash : rt'[q][h] = <<>>
    BY <1>2, <2>1
  <2> QED
    BY <2>1, <2>4, <2>5
<1>6. (\A c \in Conn : rsp'[c] = None) => rsp' = [c \in Conn |-> None]
  BY <1>1 DEF KeyTyped
<1> QED
  BY <1>2, <1>3, <1>4, <1>5, <1>6

\* The ring and the keys, whatever the settings.
TableInv ==
    /\ RingInv /\ KeyInv /\ Unasked
    /\ fingers \subseteq Peer /\ setting \in Setting

LEMMA TableStart == TableInit => TableInv
<1>1. TableInit => Init /\ fingers \subseteq Peer /\ setting \in Setting
  BY IdentifierAssumption DEF TableInit, Init
<1> QED
  BY <1>1, RingStart, KeyStart DEF TableInv

LEMMA TableKept == TableInv /\ [TableNext]_<<vars, keyVars>> => TableInv'
<1> SUFFICES ASSUME TableInv, [TableNext]_<<vars, keyVars>> PROVE TableInv'
  OBVIOUS
<1>1. Typed /\ KeyInv /\ Unasked
  BY DEF TableInv, RingInv
<1>2. /\ Typed' /\ KeyInv' /\ Effect
      /\ setting' = setting /\ fingers' \subseteq fingers
  BY <1>1, TableStep
<1>3. Unasked'
  BY <1>1, UnaskedStep
<1>4. RingInv'
  BY <1>2, LoopStep DEF TableInv
<1> QED
  BY <1>2, <1>3, <1>4 DEF TableInv

\* Wherever the requests are while peers join and end: each connection is at
\* one peer, in one place, until it is answered or closed, a request is
\* served by one peer, and everybody who is told its answer is told the same
\* (peer.c:161-357).
THEOREM TableInvariant == TableSpec => []TableInv
<1> QED
  BY TableStart, TableKept, PTL DEF TableSpec
-----------------------------------------------------------------------------
(* What is true of the ring alone is true of it with the table             *)

\* No peer is its own neighbour (peer.c:287-363), whatever clients ask for.
THEOREM TableIsWellFormed == TableSpec => []WellFormed
<1>1. TableInv => WellFormed
  BY DEF TableInv, RingInv, LoopInv, NoSelf, WellFormed, TypeOK, Typed, Inboxes
<1> QED
  BY <1>1, TableInvariant, PTL

\* While peers are started one at a time, the peers that have joined form a
\* circle, even if a request ends some of them.
THEOREM TableCircle ==
    ASSUME OrderlySettings
    PROVE  TableSpec => [](CircleInv /\ CalmInv)
<1>1. TableInit => CircleInv /\ CalmInv
  BY CircleStart, CalmStart DEF TableInit
<1>2. ASSUME TableInv, CircleInv, CalmInv, [TableNext]_<<vars, keyVars>>
      PROVE  CircleInv' /\ CalmInv'
  <2>1. Typed /\ KeyInv /\ Unasked /\ fingers \subseteq Peer
    BY <1>2 DEF TableInv, RingInv
  <2>2. Typed' /\ Effect /\ setting' = setting
    BY <1>2, <2>1, TableStep
  <2>3. CircleInv'
    BY <1>2, <2>2, CircleStep
  <2>4. Undisturbed => LookEffect
    <3> SUFFICES ASSUME Undisturbed PROVE LookEffect
      OBVIOUS
    <3>1. CASE TableNext
      BY <2>1, <3>1, UnaskedIs, RingStepIs, LookStep DEF Undisturbed
    <3>2. CASE UNCHANGED <<vars, keyVars>>
      BY <2>1, <3>2, Stutter DEF LookEffect, vars
    <3> QED
      BY <1>2, <3>1, <3>2
  <2> QED
    BY <1>2, <2>1, <2>2, <2>3, <2>4, CalmStep
<1> QED
  BY <1>1, <1>2, TableInvariant, PTL DEF TableSpec

\* No hash is claimed by two peers (peer_is_responsible of peer.c), even
\* if a request of a client ends some of them.
THEOREM TableHasOneOwner ==
    ASSUME OrderlySettings
    PROVE  TableSpec => []AtMostOneOwner
<1> QED
  BY OwnerIsOne, TableCircle, PTL

\* No NULL pointer is read and no STABILIZE is sent to a peer that does not
\* listen, while no client asks for keys.
THEOREM TableDoesNotCrash ==
    ASSUME OrderlySettings
    PROVE  TableSpec => []NoCrash
<1>1. CalmInv => NoCrash
  BY DEF CalmInv, NoCrash
<1> QED
  BY <1>1, TableCircle, PTL

\* A REPLY on its way names the peer that is responsible for its hash
\* (peer.c:80, 308-329).
THEOREM TableRepliesAreRight ==
    ASSUME OrderlySettings
    PROVE  TableSpec => []RepliesNameOwner
<1>1. CalmInv => RepliesNameOwner
  BY DEF CalmInv, Replies, RepliesNameOwner
<1> QED
  BY <1>1, TableCircle, PTL

\* There is one circle of successors, in the order of the identifiers.
THEOREM TableRing ==
    ASSUME OrderlySettings
    PROVE  TableSpec => []OneOrderedRing
<1> QED
  BY RingIsOrdered, TableCircle, PTL

-----------------------------------------------------------------------------
(* While no peer has ended                                                 *)

\* Somebody waits for what comes back on the connection.
Open(c) ==
    \/ c.from = Client /\ cmd[c.req] # None
    \/ c.from \in Peer /\ \E d \in Conn : Waits(c.from, d) /\ d.req = c.req

NoneLost == \A c \in Conn : Open(c) /\ rsp[c] = None => \E q \in Peer : Placed(q, c)

NoneBroken == \A c \in Conn : rsp[c] \notin Broken

\* Who is being asked, and who is named by a lookup, listens.
Reachable == \A p \in Peer :
    /\ job[p] # NoJob => phase[job[p].to] = "up"
    /\ \A m \in inbox[p] : m.type \in {"LKUP", "RPLY"} => phase[m.node] = "up"

Sought == \A p \in Peer, h \in KeyHash : rt[p][h] # <<>> => LookupUnderWay(p, h)

KeptInv == setting.asks /\ AllAlive => NoneLost /\ NoneBroken /\ Reachable /\ Sought

LEMMA AnswersKept ==
    ASSUME NoneLost, NoneBroken, NEW p \in Peer, NEW c, NEW a \in Answer, Answers(p, c, a)
    PROVE  NoneLost' /\ NoneBroken'
<1>1. a # None /\ a \notin Broken
  BY SentinelAssumption
<1>2. NoneBroken'
  BY <1>1 DEF NoneBroken, Answers
<1>3. ASSUME NEW d \in Conn, Open(d)', rsp'[d] = None PROVE \E q \in Peer : Placed(q, d)'
  <2>1. d # c /\ rsp[d] = None
    BY <1>1, <1>3 DEF Answers
  <2>2. Open(d)
    BY <1>3 DEF Open, Answers, Drops
  <2>3. PICK q \in Peer : Placed(q, d)
    BY <2>1, <2>2 DEF NoneLost
  <2> QED
    BY <2>1, <2>3 DEF Answers, Drops
<1> QED
  BY <1>2, <1>3 DEF NoneLost

LEMMA ProxiesKept ==
    ASSUME NoneLost, NoneBroken, NEW p \in Peer, NEW c, Proxies(p, c)
    PROVE  NoneLost' /\ NoneBroken'
<1>1. PICK q \in Peer, e \in Conn :
         /\ c \in Conn /\ e.req = c.req /\ e.from = p
         /\ Passes(p, c, q, e) /\ UNCHANGED cmd
         /\ \A d \in Conn : rsp'[d] = IF d = e THEN None ELSE rsp[d]
  BY DEF Proxies
<1>2. NoneBroken'
  BY <1>1, SentinelAssumption DEF NoneBroken
<1>3. ASSUME NEW d \in Conn, Open(d)', rsp'[d] = None PROVE \E x \in Peer : Placed(x, d)'
  <2>1. CASE d = e
    BY <1>1, <2>1 DEF Passes
  <2>2. CASE d # e
    <3>1. Open(d)
      <4>1. d.from = p /\ d.req = c.req => d = e
        BY <1>1, ConnIs
      <4> QED
        BY <1>1, <1>3, <2>2, <4>1 DEF Open, Passes
    <3>2. rsp[d] = None
      BY <1>1, <1>3, <2>2
    <3> QED
      BY <1>1, <3>1, <3>2 DEF NoneLost, Passes
  <2> QED
    BY <2>1, <2>2
<1> QED
  BY <1>2, <1>3 DEF NoneLost

LEMMA MovesKept ==
    ASSUME NoneLost, NoneBroken, Moves
    PROVE  NoneLost' /\ NoneBroken'
<1>1. \A c : Open(c)' => Open(c)
  BY DEF Moves, Shifts, Open
<1> QED
  BY <1>1 DEF Moves, Shifts, NoneLost, NoneBroken

LEMMA IssueKept ==
    ASSUME KeyTyped, NoneLost, NoneBroken,
           NEW r \in Req, NEW p \in Peer, NEW x \in Cmd, Issue(r, p, x), Adds(p, ClientConn(r))
    PROVE  NoneLost' /\ NoneBroken'
<1>1. UNCHANGED rsp /\ \A s \in Req : cmd'[s] = IF s = r THEN x ELSE cmd[s]
  BY DEF Issue, KeyTyped
<1>2. NoneBroken'
  BY <1>1 DEF NoneBroken
<1>3. ASSUME NEW d \in Conn, Open(d)', rsp'[d] = None PROVE \E q \in Peer : Placed(q, d)'
  <2>1. CASE d = ClientConn(r)
    BY <2>1 DEF Adds
  <2>2. CASE d # ClientConn(r)
    <3>1. d.req \in Req /\ (d.from = Client => d.req # r)
      BY <2>2, ConnIs
    <3>2. Open(d)
      BY <1>1, <1>3, <3>1 DEF Open, Adds
    <3> QED
      BY <1>1, <1>3, <3>2 DEF NoneLost, Adds
  <2> QED
    BY <2>1, <2>2
<1> QED
  BY <1>2, <1>3 DEF NoneLost

\* No successor has ended.
SuccsUp == \A p \in Peer : succ[p] # NULL => succ[p] \in Peer /\ phase[succ[p]] = "up"

LEMMA SuccIsUp ==
    ASSUME CircleInv, AskedSettings, setting.asks, AllAlive
    PROVE  SuccsUp
<1>1. ~setting.overlap /\ ~EndedEarly
  BY DEF CircleInv, AskedSettings, AllAlive, EndedEarly
<1>2. PICK R \in SUBSET Peer : \E N \in SUBSET R : Shape(R, N)
  BY <1>1 DEF CircleInv, OneByOne, Shaped
<1>3. PICK N \in SUBSET R : Shape(R, N)
  BY <1>2
<1>4. \A r \in R : phase[r] = "up"
  BY <1>3 DEF Shape, Still, Asking, Frozen, AllAlive
<1>5. \A p \in Peer : succ[p] # NULL => succ[p] \in R
  BY <1>3 DEF Shape, Pointers
<1> QED
  BY <1>4, <1>5 DEF SuccsUp

\* m has left the connection of p and all of ms have reached q, when it reads.
PassedOn(p, m, q, ms) ==
    \A r \in Peer : \A n : n \in inbox'[r] <=>
        \/ n \in inbox[r] /\ ~(r = p /\ n = m)
        \/ phase[q] = "up" /\ r = q /\ n \in ms

\* p, which goes on, has taken m off its connection and sent others to q.
Goes(p, m, q, ms) ==
    /\ m \in inbox[p] /\ phase[p] = "up" /\ PassedOn(p, m, q, ms)
    /\ \/ /\ m.type \notin {"LKUP", "RPLY"}
          /\ \A n \in ms : n.type \in NodeKind \/ (n.type = "LKUP" /\ n.node = p)
       \/ m.type = "LKUP" /\ ms = {m} /\ succ[p] # NULL /\ q = succ[p]
       \/ /\ m.type = "LKUP" /\ q = m.node
          /\ \E x \in {p, succ[p]} \ {NULL} : ms = {Rply(m.hash, x, m.tag)}
       \/ m.type = "RPLY" /\ ms = {}

\* A packet is taken and one is sent.
LEMMA OneSent ==
    ASSUME inbox \in Inboxes, NEW p \in Peer, NEW q \in Peer, NEW m \in Packet,
           NEW k \in Packet, inbox' = SentTo(Taken(p, m), q, {k})
    PROVE  PassedOn(p, m, q, {k})
<1>1. {k} \in SUBSET Packet
  OBVIOUS
<1> QED
  BY <1>1, TakeAndSend DEF PassedOn

LEMMA PacketGoes ==
    ASSUME Typed, NEW p \in Peer, NEW m \in inbox[p], HandlePacketCtrl(p, m),
           phase'[p] # "dead"
    PROVE  \E q \in Peer : \E ms : Goes(p, m, q, ms)
<1>1. m \in Packet /\ inbox \in Inboxes
  BY DEF Typed, Inboxes
<1>2. ~Die(p)
  BY DEF Die, Typed
<1>3. CASE JoinFirst(p, m) \/ JoinHere(p, m)
  <2>1. /\ inbox' = SentTo(Taken(p, m), m.node, {Node("NTFY", p)})
        /\ phase[p] = "up" /\ m.type = "JOIN" /\ m.node \in Peer
    BY <1>1, <1>3, PacketFields DEF JoinFirst, JoinHere, TakesJoin, Takes, NodeKind
  <2>2. PICK k \in Packet, q \in Peer : k = Node("NTFY", p) /\ k.type = "NTFY" /\ q = m.node
    BY <2>1, PacketsBuilt, NodeIs DEF NodeKind
  <2>3. PassedOn(p, m, q, {k})
    <3>1. inbox' = SentTo(Taken(p, m), q, {k})
      BY <2>1, <2>2
    <3> QED
      BY <1>1, <3>1, OneSent
  <2>4. Goes(p, m, q, {k})
    BY <2>1, <2>2, <2>3 DEF Goes, NodeKind
  <2> QED
    BY <2>4
<1>4. CASE JoinForward(p, m)
  <2>1. /\ inbox' = SentTo(Taken(p, m), succ[p], {m}) /\ succ[p] \in Peer
        /\ phase[p] = "up" /\ m.type = "JOIN"
    BY <1>4 DEF JoinForward, TakesJoin, Takes, Typed
  <2>2. Goes(p, m, succ[p], {m})
    BY <1>1, <2>1, TakeAndSend DEF Goes, PassedOn, NodeKind
  <2> QED
    BY <2>1, <2>2
<1>5. CASE HandleStab(p, m)
  <2>1. PICK n \in Peer : n = IF pred[p] = NULL THEN m.node ELSE pred[p]
    BY <1>1, <1>5, PacketFields DEF HandleStab, Typed, NodeKind
  <2>2. /\ inbox' = SentTo(Taken(p, m), m.node, {Node("NTFY", n)})
        /\ phase[p] = "up" /\ m.type = "STAB" /\ m.node \in Peer
    BY <1>1, <1>5, <2>1, PacketFields DEF HandleStab, Takes, NodeKind
  <2>3. PICK k \in Packet, q \in Peer : k = Node("NTFY", n) /\ k.type = "NTFY" /\ q = m.node
    BY <2>2, PacketsBuilt, NodeIs DEF NodeKind
  <2>4. PassedOn(p, m, q, {k})
    <3>1. inbox' = SentTo(Taken(p, m), q, {k})
      BY <2>2, <2>3
    <3> QED
      BY <1>1, <3>1, OneSent
  <2>5. Goes(p, m, q, {k})
    BY <2>2, <2>3, <2>4 DEF Goes, NodeKind
  <2> QED
    BY <2>5
<1>6. CASE HandleNotify(p, m) \/ HandleReply(p, m)
  <2>1. inbox' = Taken(p, m) /\ phase[p] = "up" /\ m.type \in {"NTFY", "RPLY"}
    BY <1>6 DEF HandleNotify, HandleReply, Takes
  <2>2. \A r \in Peer : \A n : n \in inbox'[r] <=> n \in inbox[r] /\ ~(r = p /\ n = m)
    BY <1>1, <2>1, TakenIs
  <2>3. Goes(p, m, p, {})
    BY <2>1, <2>2 DEF Goes, PassedOn
  <2> QED
    BY <2>3
<1>7. CASE HandleFinger(p, m)
  <2>1. PICK ms : ms = {Lkup(d % Space, p, NULL) : d \in Steps}
    OBVIOUS
  <2>2. /\ inbox' = SentTo(Taken(p, m), succ[p], ms) /\ succ[p] \in Peer
        /\ phase[p] = "up" /\ m.type = "FNGR"
    BY <1>2, <1>7, <2>1 DEF HandleFinger, Takes, Typed
  <2>3. \A n \in ms : n \in Packet /\ n.type = "LKUP" /\ n.node = p
    <3>1. \A d \in Steps : d % Space \in HashId
      BY IdentifierAssumption DEF HashId
    <3>2. \A d \in Steps : Lkup(d % Space, p, NULL) \in Packet
      BY <3>1, PacketsBuilt
    <3> QED
      BY <2>1, <3>2 DEF Lkup
  <2>4. Goes(p, m, succ[p], ms)
    BY <1>1, <2>2, <2>3, TakeAndSend DEF Goes, PassedOn
  <2> QED
    BY <2>2, <2>4
<1>8. CASE LookupAnswer(p, m)
  <2>1. PICK x \in {p, succ[p]} \ {NULL} :
           inbox' = SentTo(Taken(p, m), m.node, {Rply(m.hash, x, m.tag)})
    BY <1>8 DEF LookupAnswer
  <2>2. phase[p] = "up" /\ m.type = "LKUP" /\ m.node \in Peer /\ x \in Peer
    BY <1>1, <1>8, PacketFields DEF LookupAnswer, Takes, Typed
  <2>3. PICK k \in Packet, q \in Peer : k = Rply(m.hash, x, m.tag) /\ q = m.node
    BY <1>1, <2>2, PacketFields, PacketsBuilt
  <2>4. PassedOn(p, m, q, {k})
    <3>1. inbox' = SentTo(Taken(p, m), q, {k})
      BY <2>1, <2>3
    <3> QED
      BY <1>1, <3>1, OneSent
  <2>5. Goes(p, m, q, {k})
    BY <2>1, <2>2, <2>3, <2>4 DEF Goes
  <2> QED
    BY <2>5
<1>9. CASE LookupForward(p, m)
  <2>1. PICK q \in Peer : q = succ[p] /\ q # NULL
    BY <1>9 DEF LookupForward, Typed
  <2>2. inbox' = SentTo(Taken(p, m), q, {m}) /\ phase[p] = "up" /\ m.type = "LKUP"
    BY <1>9, <2>1 DEF LookupForward, Takes
  <2>3. PassedOn(p, m, q, {m})
    BY <1>1, <2>2, OneSent
  <2>4. Goes(p, m, q, {m})
    BY <2>1, <2>2, <2>3 DEF Goes
  <2> QED
    BY <2>4
<1>10. ~JoinCrash(p, m) /\ ~LookupCrash(p, m)
  BY <1>2 DEF JoinCrash, LookupCrash
<1> QED
  BY <1>3, <1>4, <1>5, <1>6, <1>7, <1>8, <1>9, <1>10 DEF HandlePacketCtrl

\* A lookup that is handled leads to another, or to the REPLY.
LEMMA GoesKeeps ==
    ASSUME Reachable, Sought, SuccsUp, NEW p \in Peer, NEW q \in Peer, NEW m, NEW ms,
           Goes(p, m, q, ms), UNCHANGED <<rt, job>>,
           \A r \in Peer : phase[r] = "up" => phase'[r] = "up",
           \A r \in Peer : job[r] # NoJob => job[r].to \in Peer,
           \A r \in Peer : \A n \in inbox[r] : n.type \in {"LKUP", "RPLY"} => n.node \in Peer,
           m.type = "RPLY" /\ m.hash \in KeyHash => rt[p][m.hash] = <<>>
    PROVE  Reachable' /\ Sought'
<1>1. /\ m \in inbox[p] /\ phase[p] = "up"
      /\ \A r \in Peer : \A n : n \in inbox'[r] <=>
            \/ n \in inbox[r] /\ ~(r = p /\ n = m)
            \/ phase[q] = "up" /\ r = q /\ n \in ms
  BY DEF Goes, PassedOn
<1>2. ASSUME NEW r \in Peer, NEW n \in inbox'[r], n.type \in {"LKUP", "RPLY"}
      PROVE  phase'[n.node] = "up"
  <2>1. CASE n \in inbox[r]
    BY <1>2, <2>1 DEF Reachable
  <2>2. CASE n \in ms
    <3>1. n.node = p \/ n = m \/ n.node \in {p, succ[p]} \ {NULL}
      BY <1>2, <2>2 DEF Goes, PassedOn, NodeKind, Rply
    <3> QED
      BY <1>1, <1>2, <3>1 DEF Reachable, SuccsUp
  <2> QED
    BY <1>1, <2>1, <2>2
<1>3. Reachable'
  BY <1>2 DEF Reachable
<1>4. ASSUME NEW x \in Peer, NEW h \in KeyHash, rt'[x][h] # <<>>
      PROVE  LookupUnderWay(x, h)'
  <2>1. LookupUnderWay(x, h) /\ rt[x][h] # <<>>
    BY <1>4 DEF Sought
  <2>2. ASSUME NEW y \in Peer, NEW n \in inbox[y], n.type = "LKUP", n.hash = h, n.node = x
        PROVE  LookupUnderWay(x, h)'
    <3>1. CASE ~(y = p /\ n = m)
      <4>1. n \in inbox'[y]
        BY <1>1, <3>1
      <4> QED
        BY <2>2, <4>1 DEF LookupUnderWay
    <3>2. CASE y = p /\ n = m /\ ms = {m} /\ succ[p] # NULL /\ q = succ[p]
      <4>1. n \in inbox'[q]
        BY <1>1, <3>2 DEF SuccsUp
      <4> QED
        BY <2>2, <4>1 DEF LookupUnderWay
    <3>3. ASSUME y = p, n = m, q = m.node,
                 \E z \in {p, succ[p]} \ {NULL} : ms = {Rply(m.hash, z, m.tag)}
          PROVE  LookupUnderWay(x, h)'
      <4>a. PICK z \in {p, succ[p]} \ {NULL} : ms = {Rply(m.hash, z, m.tag)}
        BY <3>3
      <4>b. Rply(m.hash, z, m.tag).type = "RPLY" /\ Rply(m.hash, z, m.tag).hash = h
        BY <2>2, <3>3 DEF Rply
      <4>1. PICK k : k \in ms /\ k.type = "RPLY" /\ k.hash = h
        BY <4>a, <4>b
      <4>2. k \in inbox'[x]
        BY <1>1, <2>2, <3>3, <4>1 DEF Reachable
      <4> QED
        BY <4>1, <4>2 DEF LookupUnderWay
    <3> QED
      BY <2>2, <3>1, <3>2, <3>3 DEF Goes, PassedOn
  <2>3. ASSUME NEW n \in inbox[x], n.type = "RPLY", n.hash = h
        PROVE  LookupUnderWay(x, h)'
    <3>1. ~(x = p /\ n = m)
      BY <2>1, <2>3
    <3>2. n \in inbox'[x]
      BY <1>1, <3>1
    <3> QED
      BY <2>3, <3>2 DEF LookupUnderWay
  <2>4. Loops(x, h) => LookupUnderWay(x, h)'
    BY DEF Loops, LookupUnderWay
  <2> QED
    BY <2>1, <2>2, <2>3, <2>4 DEF LookupUnderWay
<1> QED
  BY <1>3, <1>4 DEF Sought

\* A step that takes no packet about a lookup.
LEMMA MailKeeps ==
    ASSUME Reachable, Sought,
           \A r \in Peer : phase[r] = "up" => phase'[r] = "up",
           \A r \in Peer : \A n \in inbox[r] : n.type \in {"LKUP", "RPLY"} => n \in inbox'[r],
           \A r \in Peer : \A n \in inbox'[r] : n.type \in {"LKUP", "RPLY"} =>
              n \in inbox[r] \/ phase[n.node] = "up",
           \A r \in Peer : \A n \in inbox'[r] : n.type \in {"LKUP", "RPLY"} => n.node \in Peer,
           \A r \in Peer : job'[r] # NoJob => job'[r].to \in Peer /\ phase[job'[r].to] = "up",
           \A r \in Peer, h \in KeyHash : rt'[r][h] # <<>> =>
              \/ rt[r][h] # <<>> /\ (Loops(r, h) => Loops(r, h)')
              \/ LookupUnderWay(r, h)'
    PROVE  Reachable' /\ Sought'
<1>1. Reachable'
  BY DEF Reachable
<1>2. ASSUME NEW x \in Peer, NEW h \in KeyHash, rt'[x][h] # <<>>
      PROVE  LookupUnderWay(x, h)'
  <2>1. CASE rt[x][h] # <<>> /\ (Loops(x, h) => Loops(x, h)')
    <3>1. LookupUnderWay(x, h)
      BY <2>1 DEF Sought
    <3> QED
      BY <2>1, <3>1 DEF LookupUnderWay
  <2> QED
    BY <1>2, <2>1
<1> QED
  BY <1>1, <1>2 DEF Sought

\* The steps of the ring.
LEMMA RingKeeps ==
    ASSUME Typed, KeyTyped, Reachable, Sought, SuccsUp, RingStep, Typed', Effect, AllAlive',
           UNCHANGED keyVars
    PROVE  Reachable' /\ Sought'
<1>1. \A r \in Peer : phase[r] = "up" => phase'[r] = "up"
  BY PhaseEffect DEF AllAlive
<1>2. /\ \A r \in Peer : job[r] # NoJob => job[r].to \in Peer
      /\ \A r \in Peer : \A n \in inbox[r] : n.type \in {"LKUP", "RPLY"} => n.node \in Peer
      /\ \A r \in Peer : \A n \in inbox'[r] : n.type \in {"LKUP", "RPLY"} => n.node \in Peer
      /\ UNCHANGED <<rt, job>>
  BY JobIs, PacketFields DEF Typed, Inboxes, keyVars
<1>3. ASSUME NEW p \in Peer, NEW m \in inbox[p], Served(p, m) PROVE Reachable' /\ Sought'
  <2>1. /\ HandlePacketCtrl(p, m) /\ phase'[p] # "dead"
        /\ m.type = "RPLY" /\ m.hash \in KeyHash => rt[p][m.hash] = <<>>
    BY <1>3 DEF Served, AllAlive
  <2>2. PICK q \in Peer : \E ms : Goes(p, m, q, ms)
    BY <2>1, PacketGoes
  <2>3. PICK ms : Goes(p, m, q, ms)
    BY <2>2
  <2> QED
    BY <1>1, <1>2, <2>1, <2>3, GoesKeeps
<1>4. ASSUME /\ \A r \in Peer : \A n \in inbox[r] : n.type \in {"LKUP", "RPLY"} => n \in inbox'[r]
             /\ \A r \in Peer : \A n \in inbox'[r] : n.type \in {"LKUP", "RPLY"} => n \in inbox[r]
      PROVE  Reachable' /\ Sought'
  <2>1. \A r \in Peer : job'[r] # NoJob => job'[r].to \in Peer /\ phase[job'[r].to] = "up"
    BY <1>2 DEF Reachable
  <2>2. \A r \in Peer, h \in KeyHash : rt'[r][h] # <<>> =>
           rt[r][h] # <<>> /\ (Loops(r, h) => Loops(r, h)')
    BY <1>2 DEF Loops
  <2> QED
    BY <1>1, <1>2, <1>4, <2>1, <2>2, MailKeeps
<1>5. inbox \in Inboxes
  BY DEF Typed
<1>6. ASSUME NEW q \in Peer, NEW k, k.type \notin {"LKUP", "RPLY"}, inbox' = SentTo(inbox, q, {k})
      PROVE  Reachable' /\ Sought'
  <2>1. \A r \in Peer : /\ \A n \in inbox[r] : n \in inbox'[r]
                        /\ \A n \in inbox'[r] : n \in inbox[r] \/ n = k
    BY <1>5, <1>6 DEF SentTo, Inboxes
  <2> QED
    BY <1>4, <1>6, <2>1
<1>7. ASSUME NEW p \in Peer, NEW q \in Peer, SendJoin(p, q) PROVE Reachable' /\ Sought'
  <2>1. inbox' = SentTo(inbox, q, {Node("JOIN", p)}) /\ Node("JOIN", p).type = "JOIN"
    BY <1>7, NodeIs DEF SendJoin
  <2> QED
    BY <1>6, <2>1
<1>8. ASSUME NEW p \in Peer, Listen(p) \/ Found PROVE Reachable' /\ Sought'
  BY <1>4, <1>8 DEF Listen, Found
<1>9. ASSUME NEW p \in Peer, AskFingers(p) PROVE Reachable' /\ Sought'
  <2>1. \A r \in Peer : /\ \A n \in inbox[r] : n \in inbox'[r]
                        /\ \A n \in inbox'[r] : n \in inbox[r] \/ n = Fngr
    BY <1>5, <1>9 DEF AskFingers, Inboxes
  <2>2. Fngr.type = "FNGR"
    BY DEF Fngr
  <2> QED
    BY <1>4, <2>1, <2>2
<1>10. ASSUME NEW p \in Peer, Stabilize(p) PROVE Reachable' /\ Sought'
  <2>1. ~Die(p)
    BY DEF Die, Typed, AllAlive
  <2>2. PICK q \in Peer : q = succ[p]
    BY <1>10 DEF Stabilize, Typed
  <2>3. inbox' = SentTo(inbox, q, {Node("STAB", p)}) /\ Node("STAB", p).type = "STAB"
    BY <1>10, <2>1, <2>2, NodeIs DEF Stabilize
  <2> QED
    BY <1>6, <2>3
<1>11. Founder \in Peer
  BY IdentifierAssumption
<1> QED
  BY <1>3, <1>7, <1>8, <1>9, <1>10, <1>11 DEF RingStep

\* A lookup is sent for what is filed.
LEMMA LookUpKeeps ==
    ASSUME Typed, KeyTyped, Reachable, Sought, SuccsUp, Typed',
           NEW p \in Peer, NEW c \in calls[p], LookUpPeer(p, c)
    PROVE  Reachable' /\ Sought'
<1>1. c \in Conn /\ cmd[c.req] \in Cmd
  BY DEF KeyTyped, Arrived
<1>2. PICK h \in KeyHash : h = HashOf(c)
  BY <1>1, HashIs
<1>3. PICK n \in {Lkup(h, p, c.req)} : n.type = "LKUP" /\ n.hash = h /\ n.node = p
  BY DEF Lkup
<1>4. PICK q \in Peer : q = succ[p] /\ phase[q] = "up"
  BY DEF LookUpPeer, SuccsUp
<1>5. /\ inbox' = SentTo(inbox, q, {n}) /\ UNCHANGED <<phase, job>> /\ phase[p] = "up"
      /\ rt' = [rt EXCEPT ![p][h] = Append(@, c)]
  BY <1>2, <1>3, <1>4 DEF LookUpPeer, TakesCall
<1>6. /\ \A r \in Peer : \A k \in inbox[r] : k \in inbox'[r]
      /\ \A r \in Peer : \A k \in inbox'[r] : k \in inbox[r] \/ k = n
      /\ n \in inbox'[q]
  BY <1>4, <1>5 DEF SentTo, Typed, Inboxes
<1>7. LookupUnderWay(p, h)'
  BY <1>3, <1>6 DEF LookupUnderWay
<1>8. \A r \in Peer, g \in KeyHash : ~(r = p /\ g = h) => rt'[r][g] = rt[r][g]
  <2>1. PICK s : s = Append(rt[p][h], c)
    OBVIOUS
  <2>2. rt' = [rt EXCEPT ![p] = [rt[p] EXCEPT ![h] = s]]
    BY <1>5, <2>1
  <2> QED
    BY <1>2, <2>2 DEF KeyTyped
<1>9. \A r \in Peer, g \in KeyHash : rt'[r][g] # <<>> =>
         \/ rt[r][g] # <<>> /\ (Loops(r, g) => Loops(r, g)')
         \/ LookupUnderWay(r, g)'
  BY <1>5, <1>7, <1>8 DEF Loops
<1>10. \A r \in Peer : job'[r] # NoJob => job'[r].to \in Peer /\ phase[job'[r].to] = "up"
  BY <1>5, JobIs DEF Reachable
<1>11. \A r \in Peer : \A k \in inbox'[r] : k.type \in {"LKUP", "RPLY"} => k.node \in Peer
  BY PacketFields DEF Typed, Inboxes
<1> QED
  BY <1>3, <1>5, <1>6, <1>9, <1>10, <1>11, MailKeeps

\* The REPLY is taken, and the loop over what it is for begins.
LEMMA ServeKeeps ==
    ASSUME Typed, KeyTyped, Reachable, Sought, NEW p \in Peer, NEW m \in inbox[p], ServeOpen(p, m)
    PROVE  Reachable' /\ Sought'
<1>1. /\ m \in Packet /\ m.type = "RPLY" /\ m.node \in Peer /\ m.hash \in KeyHash
      /\ job[p] = NoJob /\ rt[p][m.hash] # <<>>
  BY PacketFields DEF ServeOpen, Typed, Inboxes
<1>2. PICK h \in KeyHash, y \in Peer : h = m.hash /\ y = m.node /\ phase[y] = "up"
  BY <1>1 DEF Reachable
<1>3. PICK j : j = [todo |-> rt[p][h], to |-> y, hash |-> h, waiting |-> FALSE]
  OBVIOUS
<1>4. /\ inbox' = Taken(p, m) /\ UNCHANGED <<phase, rt>>
      /\ job' = [job EXCEPT ![p] = j]
  BY <1>2, <1>3 DEF ServeOpen
<1>5. /\ j \in Job /\ j.hash = h /\ j.to = y /\ j.todo # <<>> /\ rt[p][h] \in Seq(Conn)
  <2>1. rt[p][h] \in Seq(Conn)
    BY DEF KeyTyped
  <2> QED
    BY <1>1, <1>2, <1>3, <2>1 DEF Job
<1>6. job'[p] = j /\ j # NoJob /\ \A r \in Peer \ {p} : job'[r] = job[r]
  BY <1>4, <1>5, JobSet
<1>7. \A r \in Peer : \A n : n \in inbox'[r] <=> n \in inbox[r] /\ ~(r = p /\ n = m)
  BY <1>4, TakenIs DEF Typed
<1>8. Reachable'
  BY <1>2, <1>4, <1>5, <1>6, <1>7 DEF Reachable
<1>9. ASSUME NEW x \in Peer, NEW g \in KeyHash, rt'[x][g] # <<>>
      PROVE  LookupUnderWay(x, g)'
  <2>1. LookupUnderWay(x, g)
    BY <1>4, <1>9 DEF Sought
  <2>2. CASE x = p /\ g = h
    BY <1>5, <1>6, <2>2 DEF LookupUnderWay, Loops
  <2>3. CASE ~(x = p /\ g = h)
    <3>1. ASSUME NEW q \in Peer, NEW n \in inbox[q], n.type = "LKUP", n.hash = g, n.node = x
          PROVE  LookupUnderWay(x, g)'
      <4>1. n \in inbox'[q]
        BY <1>1, <1>7, <3>1
      <4> QED
        BY <3>1, <4>1 DEF LookupUnderWay
    <3>2. ASSUME NEW n \in inbox[x], n.type = "RPLY", n.hash = g
          PROVE  LookupUnderWay(x, g)'
      <4>1. n \in inbox'[x]
        BY <1>2, <1>7, <2>3, <3>2
      <4> QED
        BY <3>2, <4>1 DEF LookupUnderWay
    <3>3. Loops(x, g) => Loops(x, g)'
      BY <1>1, <1>6 DEF Loops
    <3> QED
      BY <2>1, <3>1, <3>2, <3>3 DEF LookupUnderWay
  <2> QED
    BY <2>2, <2>3
<1> QED
  BY <1>8, <1>9 DEF Sought

\* The other steps take and send no packet.
LEMMA CallsKeep ==
    ASSUME Typed, KeyTyped, KeyTyped', Reachable, Sought, UNCHANGED vars,
           \A r \in Peer : job'[r] # NoJob => phase[job'[r].to] = "up",
           \A r \in Peer, h \in KeyHash : rt'[r][h] # <<>> =>
              rt[r][h] # <<>> /\ (Loops(r, h) => Loops(r, h)')
    PROVE  Reachable' /\ Sought'
<1>1. UNCHANGED <<inbox, phase>>
  BY DEF vars
<1>2. \A r \in Peer : job'[r] # NoJob => job'[r].to \in Peer
  BY DEF KeyTyped, Job
<1>3. \A r \in Peer : \A n \in inbox[r] : n.type \in {"LKUP", "RPLY"} => n.node \in Peer
  BY PacketFields DEF Typed, Inboxes
<1> QED
  BY <1>1, <1>2, <1>3, MailKeeps

LEMMA ProxyKeeps ==
    ASSUME Typed, KeyTyped, KeyTyped', Reachable, Sought, SuccsUp,
           NEW p \in Peer, NEW c \in calls[p], ProxyToSucc(p, c)
    PROVE  Reachable' /\ Sought'
<1>1. PICK q \in Peer : q = succ[p] /\ phase[q] = "up"
  BY DEF ProxyToSucc, SuccOwns, SuccsUp
<1>2. PICK j : j = [todo |-> <<c>>, to |-> q, hash |-> None, waiting |-> TRUE]
  OBVIOUS
<1>3. /\ UNCHANGED <<rt, phase>> /\ UNCHANGED vars
      /\ job[p] = NoJob /\ job' = [job EXCEPT ![p] = j] /\ j.to = q
  BY <1>1, <1>2 DEF ProxyToSucc, TakesCall, vars
<1>4. \A r \in Peer : job'[r] = IF r = p THEN j ELSE job[r]
  BY <1>3 DEF KeyTyped
<1>5. \A r \in Peer : job'[r] # NoJob => phase[job'[r].to] = "up"
  BY <1>1, <1>3, <1>4 DEF Reachable
<1>6. \A r \in Peer, h \in KeyHash : Loops(r, h) => Loops(r, h)'
  BY <1>3, <1>4 DEF Loops
<1> QED
  BY <1>3, <1>5, <1>6, CallsKeep

LEMMA NextKeeps ==
    ASSUME Typed, KeyTyped, KeyTyped', Reachable, Sought,
           NEW p \in Peer, ProxyNext(p) \/ ProxyDone(p)
    PROVE  Reachable' /\ Sought'
<1>1. job[p] # NoJob /\ phase[job[p].to] = "up" /\ UNCHANGED vars
  BY DEF ProxyNext, ProxyDone, Busy, Reachable
<1>2. CASE job' = [job EXCEPT ![p].waiting = TRUE] /\ UNCHANGED rt
  <2>1. PICK j : j = [job[p] EXCEPT !.waiting = TRUE]
    OBVIOUS
  <2>2. job[p] \in Job
    BY <1>1, JobIs
  <2>3. j \in Job /\ j.hash = job[p].hash /\ j.to = job[p].to
    BY <2>1, <2>2 DEF Job
  <2>4. j # NoJob /\ \A r \in Peer : job'[r] = IF r = p THEN j ELSE job[r]
    BY <1>2, <2>1, <2>3, SentinelAssumption DEF KeyTyped
  <2>5. \A r \in Peer : job'[r] # NoJob => phase[job'[r].to] = "up"
    BY <1>1, <2>3, <2>4 DEF Reachable
  <2>6. \A r \in Peer, h \in KeyHash : Loops(r, h) => Loops(r, h)'
    BY <2>3, <2>4 DEF Loops
  <2> QED
    BY <1>1, <1>2, <2>5, <2>6, CallsKeep
<1>3. CASE Advance(p)
  <2>1. /\ \A q \in Peer \ {p} : job'[q] = job[q] /\ rt'[q] = rt[q]
        /\ \/ /\ job'[p] = NoJob
              /\ \A h \in KeyHash : rt'[p][h] = IF Loops(p, h) THEN <<>> ELSE rt[p][h]
           \/ /\ rt'[p] = rt[p] /\ job'[p] # NoJob
              /\ job'[p].hash = job[p].hash /\ job'[p].to = job[p].to
    BY <1>1, <1>3, AdvanceIs
  <2>2. \A r \in Peer : job'[r] # NoJob => phase[job'[r].to] = "up"
    BY <1>1, <2>1 DEF Reachable
  <2>3. \A r \in Peer, h \in KeyHash : rt'[r][h] # <<>> =>
           rt[r][h] # <<>> /\ (Loops(r, h) => Loops(r, h)')
    BY <2>1 DEF Loops
  <2> QED
    BY <1>1, <2>2, <2>3, CallsKeep
<1>4. \/ job' = [job EXCEPT ![p].waiting = TRUE] /\ UNCHANGED rt
      \/ Advance(p)
  BY DEF ProxyNext, ProxyDone
<1> QED
  BY <1>2, <1>3, <1>4

LEMMA KeptStep ==
    ASSUME TableInv, CircleInv, AskedSettings, setting.asks, KeptInv,
           TableNext, Typed', Effect, KeyTyped', AllAlive'
    PROVE  NoneLost' /\ NoneBroken' /\ Reachable' /\ Sought'
<1>1. Typed /\ KeyInv /\ KeyTyped /\ Tidy /\ PlaceInv
  BY DEF TableInv, RingInv, KeyInv
<1>2. AllAlive
  BY <1>1, PhaseEffect DEF AllAlive
<1>3. NoneLost /\ NoneBroken /\ Reachable /\ Sought /\ SuccsUp
  BY <1>2, SuccIsUp DEF KeptInv
<1>4. \A p \in Peer : phase'[p] # "dead"
  BY DEF AllAlive
<1>5. CASE RingStep
  <2>1. Moves /\ UNCHANGED keyVars
    BY <1>1, <1>4, <1>5, KeysOfRing DEF HangsUp
  <2> QED
    BY <1>1, <1>3, <1>5, <2>1, MovesKept, RingKeeps
<1>6. ASSUME NEW p \in Peer, NEW c \in calls[p], HandleOwnRequest(p, c)
      PROVE  NoneLost' /\ NoneBroken' /\ Reachable' /\ Sought'
  <2>1. UNCHANGED vars /\ UNCHANGED <<rt, job>>
    BY <1>6 DEF HandleOwnRequest
  <2>2. NoneLost' /\ NoneBroken'
    BY <1>1, <1>3, <1>6, KeysOfOwn, AnswersKept
  <2>3. \A r \in Peer : job'[r] # NoJob => phase[job'[r].to] = "up"
    BY <1>3, <2>1 DEF Reachable
  <2>4. \A r \in Peer, h \in KeyHash : rt'[r][h] # <<>> =>
           rt[r][h] # <<>> /\ (Loops(r, h) => Loops(r, h)')
    BY <2>1 DEF Loops
  <2> QED
    BY <1>1, <1>3, <2>1, <2>2, <2>3, <2>4, CallsKeep
<1>7. ASSUME NEW p \in Peer, NEW c \in calls[p], ProxyToSucc(p, c)
      PROVE  NoneLost' /\ NoneBroken' /\ Reachable' /\ Sought'
  <2>1. Proxies(p, c)
    BY <1>1, <1>3, <1>7, KeysOfProxy, NoNull DEF SuccsUp
  <2> QED
    BY <1>1, <1>3, <1>7, <2>1, ProxiesKept, ProxyKeeps
<1>8. ASSUME NEW p \in Peer, NEW c \in calls[p], LookUpPeer(p, c)
      PROVE  NoneLost' /\ NoneBroken' /\ Reachable' /\ Sought'
  BY <1>1, <1>3, <1>8, KeysOfLookUp, MovesKept, LookUpKeeps
<1>9. ASSUME NEW p \in Peer, NEW c \in calls[p] PROVE ~CallCrash(p, c)
  BY <1>1, <1>4, KeysOfCrash DEF HangsUp
<1>10. ASSUME NEW p \in Peer, NEW m \in inbox[p], ServeOpen(p, m)
       PROVE  NoneLost' /\ NoneBroken' /\ Reachable' /\ Sought'
  BY <1>1, <1>3, <1>10, KeysOfReply, MovesKept, ServeKeeps
<1>11. ASSUME NEW p \in Peer, ProxyNext(p)
       PROVE  NoneLost' /\ NoneBroken' /\ Reachable' /\ Sought'
  <2>1. Proxies(p, Current(p))
    BY <1>1, <1>3, <1>11, KeysOfNext DEF Reachable
  <2> QED
    BY <1>1, <1>3, <1>11, <2>1, ProxiesKept, NextKeeps
<1>12. ASSUME NEW p \in Peer, ProxyDone(p)
       PROVE  NoneLost' /\ NoneBroken' /\ Reachable' /\ Sought'
  <2>1. PICK e \in Conn : Relays(p, Current(p), e)
    BY <1>1, <1>12, KeysOfDone
  <2>2. rsp[e] \in Answer /\ Received(rsp[e]) \in Answer
    BY <1>1, <1>3, <2>1, SentinelAssumption DEF Relays, KeyTyped, NoneBroken, Received, Broken
  <2> QED
    BY <1>1, <1>3, <1>12, <2>1, <2>2, AnswersKept, NextKeeps DEF Relays
<1>13. ASSUME NEW r \in Req, NEW p \in Peer, NEW x \in Cmd, Issue(r, p, x)
       PROVE  NoneLost' /\ NoneBroken' /\ Reachable' /\ Sought'
  <2>1. UNCHANGED vars /\ UNCHANGED <<rt, job>>
    BY <1>13 DEF Issue
  <2>2. NoneLost' /\ NoneBroken'
    BY <1>1, <1>3, <1>13, KeysOfIssue, IssueKept
  <2>3. \A q \in Peer : job'[q] # NoJob => phase[job'[q].to] = "up"
    BY <1>3, <2>1 DEF Reachable
  <2>4. \A q \in Peer, h \in KeyHash : rt'[q][h] # <<>> =>
           rt[q][h] # <<>> /\ (Loops(q, h) => Loops(q, h)')
    BY <2>1 DEF Loops
  <2> QED
    BY <1>1, <1>3, <2>1, <2>2, <2>3, <2>4, CallsKeep
<1> QED
  BY <1>5, <1>6, <1>7, <1>8, <1>9, <1>10, <1>11, <1>12, <1>13 DEF TableNext, KeyStep

\* Who waits for a connection holds it, or it is at one other peer.
LEMMA HoldsIs ==
    ASSUME PlaceInv, NEW c \in Conn, rsp[c] = None, \E q \in Peer : Placed(q, c)
    PROVE  Cardinality({p \in Peer : Holds(p, c)}) = 1
<1>1. PICK q \in Peer : Placed(q, c)
  OBVIOUS
<1>2. \A p \in Peer : Holds(p, c) <=> Placed(p, c)
  BY HeldIs DEF Holds, Placed, Arrived
<1>3. \A p \in Peer : Placed(p, c) <=> p = q
  BY <1>1 DEF PlaceInv, OnePlace
<1>4. {p \in Peer : Holds(p, c)} = {q}
  BY <1>2, <1>3
<1> QED
  BY <1>4, FS_Singleton

LEMMA KeptIsKept ==
    ASSUME TableInv, KeptInv
    PROVE  RequestsKept
<1>1. KeyTyped /\ PlaceInv
  BY DEF TableInv, KeyInv
<1>2. CASE ~setting.asks
  BY <1>2 DEF TableInv, Unasked, RequestsKept
<1>3. CASE setting.asks
  <2> SUFFICES ASSUME AllAlive
               PROVE  /\ \A r \in Req : cmd[r] # None =>
                           IF rsp[ClientConn(r)] = None
                           THEN Cardinality({p \in Peer : Holds(p, ClientConn(r))}) = 1
                           ELSE rsp[ClientConn(r)] \in Answer
                      /\ \A p \in Peer, h \in KeyHash : rt[p][h] # <<>> => LookupUnderWay(p, h)
                      /\ \A p \in Peer : job[p] # NoJob /\ job[p].waiting /\ rsp[Onward(p)] = None =>
                           Cardinality({q \in Peer : Holds(q, Onward(p))}) = 1
    BY DEF RequestsKept
  <2>1. NoneLost /\ NoneBroken /\ Sought
    BY <1>3 DEF KeptInv
  <2>2. ASSUME NEW r \in Req, cmd[r] # None
        PROVE  IF rsp[ClientConn(r)] = None
               THEN Cardinality({p \in Peer : Holds(p, ClientConn(r))}) = 1
               ELSE rsp[ClientConn(r)] \in Answer
    <3>1. PICK c \in Conn : c = ClientConn(r) /\ c.req = r /\ c.from = Client
      BY ConnsBuilt, IdentifierAssumption
    <3>2. rsp[c] \in Answer \cup {None}
      BY <1>1, <2>1 DEF KeyTyped, NoneBroken
    <3>3. rsp[c] = None => \E q \in Peer : Placed(q, c)
      BY <2>1, <2>2, <3>1 DEF NoneLost, Open
    <3> QED
      BY <1>1, <3>1, <3>2, <3>3, HoldsIs
  <2>3. ASSUME NEW p \in Peer, job[p] # NoJob, job[p].waiting, rsp[Onward(p)] = None
        PROVE  Cardinality({q \in Peer : Holds(q, Onward(p))}) = 1
    <3>1. PICK e \in Conn : e = Onward(p) /\ e.req = Current(p).req /\ e.from = p
      BY <1>1, <2>3, JobIs
    <3>2. Open(e)
      BY <1>1, <2>3, <3>1, JobIs DEF Open, Waits
    <3>3. \E q \in Peer : Placed(q, e)
      BY <2>1, <2>3, <3>1, <3>2 DEF NoneLost
    <3> QED
      BY <1>1, <2>3, <3>1, <3>3, HoldsIs
  <2> QED
    BY <2>1, <2>2, <2>3 DEF Sought
<1> QED
  BY <1>2, <1>3

LEMMA KeptStart == TableInit => KeptInv
<1> SUFFICES ASSUME TableInit PROVE NoneLost /\ NoneBroken /\ Reachable /\ Sought
  BY DEF KeptInv
<1>1. /\ \A p \in Peer : /\ job[p] = NoJob /\ inbox[p] = {}
                         /\ \A h \in KeyHash : rt[p][h] = <<>>
      /\ \A r \in Req : cmd[r] = None
      /\ \A c \in Conn : rsp[c] = None
  BY DEF TableInit, Init
<1>2. NoneLost
  BY <1>1, ConnIs DEF NoneLost, Open, Waits
<1>3. NoneBroken
  BY <1>1, SentinelAssumption DEF NoneBroken
<1> QED
  BY <1>1, <1>2, <1>3 DEF Reachable, Sought

\* While no peer has ended, a request that a client or a peer waits for is at
\* one peer, none is closed without an answer, and a lookup is on its way for
\* all that is filed (peer.c:161-357, requests.c), however many peers join
\* one after the other and wherever their packets are.
THEOREM RequestsAreKept ==
    ASSUME OrderlySettings, AskedSettings
    PROVE  TableSpec => []RequestsKept
<1>1. ASSUME TableInv, CircleInv, KeptInv, [TableNext]_<<vars, keyVars>>
      PROVE  KeptInv'
  <2>1. Typed /\ KeyInv
    BY <1>1 DEF TableInv, RingInv
  <2>2. Typed' /\ KeyInv' /\ Effect /\ setting' = setting
    BY <1>1, <2>1, TableStep
  <2>3. CASE TableNext
    BY <1>1, <2>2, <2>3, KeptStep DEF KeptInv, KeyInv
  <2>4. CASE UNCHANGED <<vars, keyVars>>
    <3>1. UNCHANGED <<phase, pred, succ, inbox, setting, dht, rt, calls, job, cmd, rsp>>
      BY <2>4 DEF vars, keyVars
    <3> QED
      BY <1>1, <3>1 DEF KeptInv, AllAlive, NoneLost, Open, Waits, Current, Placed, Arrived,
         Filed, InLoop, Row, Loops, NoneBroken, Reachable, Sought, LookupUnderWay
  <2> QED
    BY <1>1, <2>3, <2>4
<1>2. TableInv /\ KeptInv => RequestsKept
  BY KeptIsKept
<1> QED
  BY <1>1, <1>2, KeptStart, TableInvariant, TableCircle, PTL DEF TableSpec

-----------------------------------------------------------------------------
(* The ring as one store                                                   *)

\* A predecessor is learned by a peer that listens, and then only replaced
\* by one that is nearer.
LEMMA PredEffect ==
    ASSUME Typed, Effect, NEW q \in Peer
    PROVE  \/ pred'[q] = pred[q]
           \/ /\ phase[q] = "up" /\ phase'[q] = "up" /\ pred'[q] \in Peer
              /\ pred[q] # NULL => PeerIsResponsibleP3(pred[q], q, pred'[q])
<1>1. ASSUME UNCHANGED pred
      PROVE  pred'[q] = pred[q]
  BY <1>1
<1>2. Founds \/ Idles => UNCHANGED pred
  BY DEF Founds, Idles
<1>3. ASSUME NEW p \in Peer, NEW n \in Peer,
             \/ Starts(n, p) \/ StartsAlone(n) \/ Listens(p) \/ Stabilizes(p) \/ Ends(p)
             \/ JoinsOnward(p, n) \/ Learns(p, n)
      PROVE  UNCHANGED pred
  BY <1>3 DEF Starts, StartsAlone, Listens, Stabilizes, Ends, JoinsOnward, Learns
<1>4. ASSUME NEW p \in Peer, NEW n \in Peer, JoinsFirst(p, n) \/ JoinsHere(p, n)
      PROVE  /\ phase[p] = "up" /\ UNCHANGED phase
             /\ pred[p] # NULL => PeerIsResponsibleP3(pred[p], p, n)
             /\ \A s \in Peer : pred'[s] = IF s = p THEN n ELSE pred[s]
  BY <1>4 DEF JoinsFirst, JoinsHere, Joins, Typed
<1>5. ASSUME NEW p \in Peer, NEW x \in Peer, TellsPred(p, x)
      PROVE  /\ phase[p] = "up" /\ UNCHANGED phase
             /\ \A s \in Peer : pred'[s] = IF s = p /\ pred[p] = NULL THEN x ELSE pred[s]
  BY <1>5 DEF TellsPred, Typed
<1> QED
  BY <1>1, <1>2, <1>3, <1>4, <1>5 DEF Effect

\* Who has no predecessor has served nothing.
Blank == \A p \in Peer :
    /\ pred[p] # NULL => phase[p] \in {"up", "dead"}
    /\ pred[p] = NULL => \A k \in Key : dht[p][k] = NoValue

LEMMA BlankStart == TableInit => Blank
BY DEF TableInit, Init, Blank

\* The arc in front of a peer shrinks when another joins there.
LEMMA ArcShrinks ==
    ASSUME NEW a \in Nat, NEW n \in Nat, NEW q \in Nat, NEW h \in Nat,
           PeerIsResponsibleP3(a, q, n), PeerIsResponsibleP3(n, q, h)
    PROVE  PeerIsResponsibleP3(a, q, h)
BY DEF PeerIsResponsibleP3

\* Who comes to claim a hash has had no predecessor before.
LEMMA ClaimIsNew ==
    ASSUME Typed, Effect, Blank, NEW q \in Peer, NEW h \in HashId,
           phase'[q] = "up", Owns(q, h)', pred[q] # NULL
    PROVE  phase[q] = "up" /\ Owns(q, h)
<1>1. pred[q] \in Peer /\ phase[q] = "up"
  BY PhaseEffect DEF Typed, Blank
<1>2. PICK b : b = pred'[q] /\ PeerIsResponsibleP3(b, q, h)
  BY DEF Owns
<1>3. h \in Nat /\ q \in Nat /\ pred[q] \in Nat /\ \A p \in Peer : p \in Nat
  BY <1>1, SpaceIs
<1>4. CASE b = pred[q]
  BY <1>1, <1>2, <1>4 DEF Owns
<1>5. CASE b \in Peer /\ PeerIsResponsibleP3(pred[q], q, b)
  BY <1>1, <1>2, <1>3, <1>5, ArcShrinks DEF Owns
<1> QED
  BY <1>2, <1>4, <1>5, PredEffect

\* The table is written by who answers a request.
LEMMA WhoWrites ==
    ASSUME [TableNext]_<<vars, keyVars>>
    PROVE  UNCHANGED dht \/ \E p \in Peer : \E c \in calls[p] : HandleOwnRequest(p, c)
<1>1. CASE RingStep
  BY <1>1 DEF RingStep, keyVars, HangUp
<1>2. ASSUME NEW p \in Peer, KeyStep(p)
      PROVE  UNCHANGED dht \/ \E c \in calls[p] : HandleOwnRequest(p, c)
  BY <1>2 DEF KeyStep, ProxyToSucc, LookUpPeer, CallCrash, HangUp, ServeOpen, ProxyNext, ProxyDone
<1>3. ASSUME NEW r \in Req, NEW p \in Peer, NEW c \in Cmd, Issue(r, p, c) PROVE UNCHANGED dht
  BY <1>3 DEF Issue
<1>4. UNCHANGED <<vars, keyVars>> => UNCHANGED dht
  BY DEF keyVars
<1> QED
  BY <1>1, <1>2, <1>3, <1>4 DEF TableNext

LEMMA BlankStep ==
    ASSUME TableInv, Blank, [TableNext]_<<vars, keyVars>>
    PROVE  Blank'
<1>1. Typed /\ Effect /\ KeyTyped
  BY TableStep DEF TableInv, RingInv, KeyInv
<1>2. ASSUME NEW p \in Peer, pred'[p] # NULL PROVE phase'[p] \in {"up", "dead"}
  BY <1>1, <1>2, PredEffect, PhaseEffect DEF Blank
<1>3. ASSUME NEW p \in Peer, pred'[p] = NULL, NEW k \in Key PROVE dht'[p][k] = NoValue
  <2>1. pred[p] = NULL
    BY <1>1, <1>3, PredEffect, NoNull
  <2>2. ASSUME NEW q \in Peer, NEW c \in calls[q], HandleOwnRequest(q, c)
        PROVE  dht'[p] = dht[p]
    <3>1. pred[q] # NULL /\ dht' = [dht EXCEPT ![q] = Stored(@, cmd[c.req])]
      BY <2>2 DEF HandleOwnRequest, Owns
    <3> QED
      BY <1>1, <2>1, <3>1 DEF KeyTyped
  <2>3. dht'[p] = dht[p]
    BY <2>2, WhoWrites
  <2> QED
    BY <2>1, <2>3 DEF Blank
<1> QED
  BY <1>2, <1>3 DEF Blank

\* No hash of a key is claimed by two peers.
Single == \A h \in HashId, p, q \in Peer : Owns(p, h) /\ Owns(q, h) => p = q

\* Who claims a hash and listens is its owner, before a step and after it.
LEMMA OwnerIs ==
    ASSUME NEW h \in HashId
    PROVE  /\ OwnerOf(h) \in Peer \cup {NULL}
           /\ OwnerOf(h) # NULL => phase[OwnerOf(h)] = "up" /\ Owns(OwnerOf(h), h)
           /\ Single => \A p \in Peer : phase[p] = "up" /\ Owns(p, h) => OwnerOf(h) = p
<1>1. CASE \E p \in Member : Owns(p, h)
  <2>1. OwnerOf(h) \in Member /\ Owns(OwnerOf(h), h)
    BY <1>1 DEF OwnerOf
  <2> QED
    BY <2>1 DEF Member, Single
<1>2. CASE ~\E p \in Member : Owns(p, h)
  <2>1. OwnerOf(h) = NULL
    BY <1>2 DEF OwnerOf
  <2> QED
    BY <1>2, <2>1 DEF Member
<1> QED
  BY <1>1, <1>2

LEMMA OwnerWillBe ==
    ASSUME NEW h \in HashId
    PROVE  /\ OwnerOf(h)' \in Peer \cup {NULL}
           /\ OwnerOf(h)' # NULL =>
                \E q \in Peer : q = OwnerOf(h)' /\ phase'[q] = "up" /\ Owns(q, h)'
<1>1. CASE \E p \in Member' : Owns(p, h)'
  <2>1. OwnerOf(h)' = CHOOSE p \in Member' : Owns(p, h)'
    BY <1>1 DEF OwnerOf
  <2>2. PICK q \in Member' : q = OwnerOf(h)' /\ Owns(q, h)'
    BY <1>1, <2>1
  <2> QED
    BY <2>2 DEF Member
<1>2. CASE ~\E p \in Member' : Owns(p, h)'
  <2>1. OwnerOf(h)' = NULL
    BY <1>2 DEF OwnerOf
  <2> QED
    BY <2>1
<1> QED
  BY <1>1, <1>2

\* A hash that changes its owner goes to a peer that has served nothing.
LEMMA OwnerStep ==
    ASSUME Typed, Effect, Blank, Single, NEW h \in HashId, OwnerOf(h)' # OwnerOf(h)
    PROVE  \/ OwnerOf(h)' = NULL
           \/ OwnerOf(h)' \in Peer /\ \A k \in Key : dht[OwnerOf(h)'][k] = NoValue
<1> SUFFICES ASSUME OwnerOf(h)' # NULL
             PROVE  OwnerOf(h)' \in Peer /\ \A k \in Key : dht[OwnerOf(h)'][k] = NoValue
  OBVIOUS
<1>1. PICK q \in Peer : q = OwnerOf(h)' /\ phase'[q] = "up" /\ Owns(q, h)'
  BY OwnerWillBe
<1>2. pred[q] = NULL
  BY <1>1, ClaimIsNew, OwnerIs
<1> QED
  BY <1>1, <1>2 DEF Blank

\* What has been answered to a request, on all its connections.
Said(f, r) == {f[[req |-> r, from |-> q]] : q \in Peer \cup {Client}} \ ({None} \cup Broken)

LEMMA SaidIs ==
    ASSUME NEW f, NEW r \in Req
    PROVE  \A a : a \in Said(f, r) <=>
              a # None /\ a \notin Broken /\ \E d \in Conn : d.req = r /\ f[d] = a
<1>1. \A q \in Peer \cup {Client} :
         [req |-> r, from |-> q] \in Conn /\ [req |-> r, from |-> q].req = r
  BY DEF Conn
<1>2. \A d \in Conn : d.req = r => \E q \in Peer \cup {Client} : d = [req |-> r, from |-> q]
  BY ConnIs
<1> QED
  BY <1>1, <1>2 DEF Said

\* Result, by what has been said, before a step and after it.
LEMMA ResultIs ==
    ASSUME NEW r \in Req
    PROVE  /\ cmd[r] = None \/ Said(rsp, r) = {} => Result(r) = None
           /\ \A a : cmd[r] # None /\ Said(rsp, r) = {a} => Result(r) = a
           /\ cmd'[r] = None \/ Said(rsp', r) = {} => Result(r)' = None
           /\ \A a : cmd'[r] # None /\ Said(rsp', r) = {a} => Result(r)' = a
           /\ cmd'[r] = cmd[r] /\ Said(rsp', r) = Said(rsp, r) => Result(r)' = Result(r)
<1> DEFINE One(S) == CHOOSE a \in S : TRUE
<1>1. Result(r) = IF cmd[r] = None \/ Said(rsp, r) = {} THEN None ELSE One(Said(rsp, r))
  BY DEF Result, Said
<1>2. Result(r)' = IF cmd'[r] = None \/ Said(rsp', r) = {} THEN None ELSE One(Said(rsp', r))
  BY DEF Result, Said
<1>3. \A a : One({a}) = a /\ {a} # {}
  OBVIOUS
<1>4. cmd'[r] = cmd[r] /\ Said(rsp', r) = Said(rsp, r) => Result(r)' = Result(r)
  BY <1>1, <1>2
<1> HIDE DEF One
<1>5. /\ cmd[r] = None \/ Said(rsp, r) = {} => Result(r) = None
      /\ \A a : cmd[r] # None /\ Said(rsp, r) = {a} => Result(r) = a
  BY <1>1, <1>3
<1>6. /\ cmd'[r] = None \/ Said(rsp', r) = {} => Result(r)' = None
      /\ \A a : cmd'[r] # None /\ Said(rsp', r) = {a} => Result(r)' = a
  BY <1>2, <1>3
<1> QED
  BY <1>4, <1>5, <1>6

\* A request that somebody has in hand has not been answered.
LEMMA NothingSaid ==
    ASSUME KeyInv, NEW p \in Peer, NEW c \in Conn, Free(p, c)
    PROVE  Said(rsp, c.req) = {} /\ Result(c.req) = None
<1>1. c.req \in Req
  BY ConnIs
<1>2. \A d \in Conn : d.req = c.req => rsp[d] \in {None} \cup Broken
  BY DEF KeyInv, PlaceInv, NotYet, KeyTyped
<1>3. Said(rsp, c.req) = {}
  BY <1>1, <1>2, SaidIs
<1> QED
  BY <1>1, <1>3, ResultIs

\* Nothing is said where answers stay and others end without one.
LEMMA SameSaid ==
    ASSUME NEW r \in Req,
           \A d \in Conn : d.req = r =>
              \/ rsp'[d] = rsp[d]
              \/ rsp[d] \in {None} \cup Broken /\ rsp'[d] \in {None} \cup Broken
    PROVE  Said(rsp', r) = Said(rsp, r)
<1>1. \A a : a \in Said(rsp', r) <=> a \in Said(rsp, r)
  BY SaidIs
<1> QED
  BY <1>1
-----------------------------------------------------------------------------
(* The steps of the ring are steps of the store.                           *)

StoredAt(r) == LET p == OwnerOf(Hash[r]) IN IF p = NULL THEN NoValue ELSE dht[p][r]

\* A step that answers nobody, but for the clients whom it sends away.
LEMMA ChangeIs ==
    ASSUME KeyTyped, UNCHANGED cmd,
           \A k \in Key :
              StoredAt(k)' = IF OwnerOf(Hash[k])' = OwnerOf(Hash[k]) THEN StoredAt(k) ELSE NoValue,
           \A r \in Req : /\ Said(rsp', r) = Said(rsp, r)
                          /\ \/ rsp'[ClientConn(r)] = rsp[ClientConn(r)]
                             \/ /\ cmd[r] # None /\ rsp[ClientConn(r)] = None
                                /\ rsp'[ClientConn(r)] \in Broken
    PROVE  Store!Change
<1>1. \A r \in Req : Result(r)' = Result(r)
  BY ResultIs
<1>2. \A k \in Key : Hash[k] \in HashId
  BY TableAssumption
<1>3. \A k \in Key : OwnerOf(Hash[k])' \in Peer \cup {NULL}
  BY <1>2, OwnerWillBe
<1>4. \A r \in Req : ClientConn(r)' = ClientConn(r)
  BY DEF ClientConn
<1> QED
  BY <1>1, <1>3, <1>4 DEF Store!Change, StoredAt

\* The owners stay.
LEMMA OwnersStay ==
    ASSUME UNCHANGED <<phase, pred>>
    PROVE  \A h : OwnerOf(h)' = OwnerOf(h)
BY DEF OwnerOf, Member, Owns

LEMMA StoreStays ==
    ASSUME UNCHANGED <<phase, pred, dht>>
    PROVE  \A k \in Key :
              StoredAt(k)' = IF OwnerOf(Hash[k])' = OwnerOf(Hash[k]) THEN StoredAt(k) ELSE NoValue
<1>1. \A k : OwnerOf(Hash[k])' = OwnerOf(Hash[k])
  BY OwnersStay
<1> QED
  BY <1>1 DEF StoredAt

\* A key that changes its owner is lost, and nothing that was lost comes back.
LEMMA StoreShifts ==
    ASSUME Typed, Effect, Blank, Single, UNCHANGED dht
    PROVE  \A k \in Key :
              StoredAt(k)' = IF OwnerOf(Hash[k])' = OwnerOf(Hash[k]) THEN StoredAt(k) ELSE NoValue
<1> SUFFICES ASSUME NEW k \in Key
             PROVE  StoredAt(k)' = IF OwnerOf(Hash[k])' = OwnerOf(Hash[k]) THEN StoredAt(k) ELSE NoValue
  OBVIOUS
<1> PICK h \in HashId : h = Hash[k]
  BY TableAssumption
<1>1. StoredAt(k)' = IF OwnerOf(h)' = NULL THEN NoValue ELSE dht[OwnerOf(h)'][k]
  BY DEF StoredAt
<1>2. StoredAt(k) = IF OwnerOf(h) = NULL THEN NoValue ELSE dht[OwnerOf(h)][k]
  BY DEF StoredAt
<1>3. CASE OwnerOf(h)' = OwnerOf(h)
  BY <1>1, <1>2, <1>3
<1>4. CASE OwnerOf(h)' # OwnerOf(h)
  <2>1. \/ OwnerOf(h)' = NULL
        \/ OwnerOf(h)' \in Peer /\ \A g \in Key : dht[OwnerOf(h)'][g] = NoValue
    BY <1>4, OwnerStep
  <2> QED
    BY <1>1, <1>4, <2>1
<1> QED
  BY <1>3, <1>4

\* A peer that ends answers nobody.
LEMMA HangsUpIsChange ==
    ASSUME KeyInv, Typed, Effect, Blank, Single, NEW p \in Peer, HangsUp(p)
    PROVE  Store!Change
<1>1. /\ UNCHANGED <<dht, cmd>> /\ KeyTyped
      /\ \A c \in Conn : /\ ~Placed(p, c) => rsp'[c] = rsp[c]
                         /\ Placed(p, c) => rsp'[c] \in Broken
  BY DEF HangsUp, KeyInv
<1>2. \A c \in Conn : Placed(p, c) => rsp[c] = None /\ cmd[c.req] # None
  BY PlacedKnown DEF KeyInv, PlaceInv, Unanswered
<1>3. ASSUME NEW r \in Req
      PROVE  /\ Said(rsp', r) = Said(rsp, r)
             /\ \/ rsp'[ClientConn(r)] = rsp[ClientConn(r)]
                \/ /\ cmd[r] # None /\ rsp[ClientConn(r)] = None
                   /\ rsp'[ClientConn(r)] \in Broken
  <2>1. Said(rsp', r) = Said(rsp, r)
    BY <1>1, <1>2, SameSaid
  <2>2. PICK c \in Conn : c = ClientConn(r) /\ c.req = r
    BY ConnsBuilt, IdentifierAssumption
  <2> QED
    BY <1>1, <1>2, <2>1, <2>2
<1>4. \A k \in Key :
         StoredAt(k)' = IF OwnerOf(Hash[k])' = OwnerOf(Hash[k]) THEN StoredAt(k) ELSE NoValue
  BY <1>1, StoreShifts
<1> QED
  BY <1>1, <1>3, <1>4, ChangeIs

\* The ring changes under requests that stay where they are.
LEMMA MovesIsChange ==
    ASSUME KeyInv, Typed, Effect, Blank, Single, Moves
    PROVE  Store!Change
<1>1. UNCHANGED <<dht, cmd, rsp>> /\ KeyTyped
  BY DEF Moves, KeyInv
<1>2. \A k \in Key :
         StoredAt(k)' = IF OwnerOf(Hash[k])' = OwnerOf(Hash[k]) THEN StoredAt(k) ELSE NoValue
  BY <1>1, StoreShifts
<1> QED
  BY <1>1, <1>2, ChangeIs

\* A client that is sent away, and one that is told what is no answer.
LEMMA NoAnswerIsChange ==
    ASSUME KeyInv, NEW p \in Peer, NEW c, NEW a \in Broken, Answers(p, c, a), UNCHANGED dht
    PROVE  Store!Change
<1>1. /\ c \in Conn /\ Placed(p, c) /\ UNCHANGED <<phase, pred, dht, cmd>> /\ KeyTyped
      /\ \A d \in Conn : rsp'[d] = IF d = c THEN a ELSE rsp[d]
  BY DEF Answers, KeyInv
<1>2. rsp[c] = None /\ cmd[c.req] # None
  BY <1>1, PlacedKnown DEF KeyInv, PlaceInv, Unanswered
<1>3. ASSUME NEW r \in Req
      PROVE  /\ Said(rsp', r) = Said(rsp, r)
             /\ \/ rsp'[ClientConn(r)] = rsp[ClientConn(r)]
                \/ /\ cmd[r] # None /\ rsp[ClientConn(r)] = None
                   /\ rsp'[ClientConn(r)] \in Broken
  <2>1. Said(rsp', r) = Said(rsp, r)
    BY <1>1, <1>2, SameSaid
  <2>2. PICK d \in Conn : d = ClientConn(r) /\ d.req = r
    BY ConnsBuilt, IdentifierAssumption
  <2> QED
    BY <1>1, <1>2, <2>1, <2>2
<1> QED
  BY <1>1, <1>3, StoreStays, ChangeIs

\* A peer that asks another has had no answer.
LEMMA ProxiesIsChange ==
    ASSUME KeyInv, NEW p \in Peer, NEW c, Proxies(p, c)
    PROVE  Store!Change
<1>1. PICK q \in Peer, e \in Conn :
         /\ c \in Conn /\ Free(p, c) /\ e.req = c.req /\ e.from = p
         /\ UNCHANGED <<phase, pred, dht, cmd>>
         /\ \A d \in Conn : rsp'[d] = IF d = e THEN None ELSE rsp[d]
  BY DEF Proxies
<1>2. rsp[e] \in {None} \cup Broken /\ KeyTyped /\ e.from # Client
  BY <1>1, TableAssumption DEF KeyInv, PlaceInv, NotYet, KeyTyped
<1>3. ASSUME NEW r \in Req
      PROVE  Said(rsp', r) = Said(rsp, r) /\ rsp'[ClientConn(r)] = rsp[ClientConn(r)]
  <2>1. Said(rsp', r) = Said(rsp, r)
    BY <1>1, <1>2, SameSaid
  <2>2. PICK d \in Conn : d = ClientConn(r) /\ d.from = Client
    BY ConnsBuilt, IdentifierAssumption
  <2> QED
    BY <1>1, <1>2, <2>1, <2>2
<1> QED
  BY <1>1, <1>2, <1>3, StoreStays, ChangeIs

\* What is relayed is the result, if it is an answer.
LEMMA RelaysIsReturn ==
    ASSUME KeyInv, NEW p \in Peer, NEW c, NEW e \in Conn, Relays(p, c, e)
    PROVE  Store!Next
<1>1. PICK a : a = rsp[e]
  OBVIOUS
<1>2. /\ c \in Conn /\ Placed(p, c) /\ UNCHANGED <<phase, pred, dht, cmd>> /\ KeyTyped
      /\ \A d \in Conn : rsp'[d] = IF d = c THEN Received(a) ELSE rsp[d]
      /\ e.req = c.req /\ a # None
  BY <1>1 DEF Relays, Answers, KeyInv
<1>3. rsp[c] = None /\ cmd[c.req] # None /\ c.req \in Req
  BY <1>2, PlacedKnown, ConnIs DEF KeyInv, PlaceInv, Unanswered
<1>4. CASE a \in Broken
  <2>1. Received(a) \in Broken
    BY <1>4 DEF Received, Broken
  <2>2. Answers(p, c, Received(a)) /\ UNCHANGED dht
    BY <1>1 DEF Relays
  <2> QED
    BY <2>1, <2>2, NoAnswerIsChange DEF Store!Next
<1>5. CASE a \in Answer
  <2>1. Received(a) = a /\ a \notin Broken
    BY <1>5, SentinelAssumption DEF Received, Broken
  <2>2. \A r \in Req : Said(rsp', r) = Said(rsp, r)
    <3> SUFFICES ASSUME NEW r \in Req PROVE Said(rsp', r) = Said(rsp, r)
      OBVIOUS
    <3>1. CASE r # c.req
      BY <1>2, <3>1, SameSaid
    <3>2. CASE r = c.req
      <4>1. \A b : b \in Said(rsp', r) <=> b \in Said(rsp, r)
        BY <1>1, <1>2, <1>3, <2>1, <3>2, SaidIs
      <4> QED
        BY <4>1
    <3> QED
      BY <3>1, <3>2
  <2>3. CASE c.from # Client
    <3>1. ASSUME NEW r \in Req PROVE rsp'[ClientConn(r)] = rsp[ClientConn(r)]
      <4>1. PICK d \in Conn : d = ClientConn(r) /\ d.from = Client
        BY ConnsBuilt, IdentifierAssumption
      <4> QED
        BY <1>2, <2>3, <4>1
    <3> QED
      BY <1>2, <2>2, <3>1, StoreStays, ChangeIs DEF Store!Next
  <2>4. CASE c.from = Client
    <3>1. PICK r \in Req : r = c.req /\ c = ClientConn(r)
      BY <1>2, <1>3, <2>4, ConnIs
    <3>2. Result(r) = a
      <4>1. \A d \in Conn : d.req = r /\ rsp[d] # None /\ rsp[d] \notin Broken => rsp[d] = a
        BY <1>1, <1>2, <1>5, <3>1 DEF KeyInv, PlaceInv, Agreed, KeyTyped
      <4>2. \A b : b \in Said(rsp, r) <=> b = a
        BY <1>1, <1>2, <2>1, <3>1, <4>1, SaidIs
      <4>3. Said(rsp, r) = {a}
        BY <4>2
      <4> QED
        BY <1>3, <3>1, <4>3, ResultIs
    <3>3. \A s \in Req : Result(s)' = Result(s)
      BY <1>2, <2>2, ResultIs
    <3>4. \A s \in Req : rsp'[ClientConn(s)] = IF s = r THEN a ELSE rsp[ClientConn(s)]
      <4> SUFFICES ASSUME NEW s \in Req
                   PROVE  rsp'[ClientConn(s)] = IF s = r THEN a ELSE rsp[ClientConn(s)]
        OBVIOUS
      <4>1. PICK d \in Conn : d = ClientConn(s) /\ d.req = s
        BY ConnsBuilt, IdentifierAssumption
      <4> QED
        BY <1>2, <2>1, <3>1, <4>1
    <3>5. \A k \in Key : StoredAt(k)' = StoredAt(k) /\ OwnerOf(Hash[k])' = OwnerOf(Hash[k])
      BY <1>2, OwnersStay DEF StoredAt
    <3>6. \A s \in Req : ClientConn(s)' = ClientConn(s)
      BY DEF ClientConn
    <3>7. Store!Return(r)
      <4>1. [s \in Req |-> rsp[ClientConn(s)]]' = [[s \in Req |-> rsp[ClientConn(s)]] EXCEPT ![r] = a]
        BY <3>4, <3>6
      <4>2. [s \in Req |-> Result(s)][r] = a /\ [s \in Req |-> rsp[ClientConn(s)]][r] = None
        BY <1>3, <3>1, <3>2
      <4> QED
        BY <1>2, <3>3, <3>5, <4>1, <4>2 DEF Store!Return, StoredAt
    <3> QED
      BY <3>7 DEF Store!Next
  <2> QED
    BY <2>3, <2>4
<1> QED
  BY <1>1, <1>2, <1>4, <1>5 DEF KeyTyped

\* A client's request is an invocation.
LEMMA IssueIsInvoke ==
    ASSUME KeyInv, NEW r \in Req, NEW p \in Peer, NEW x \in Cmd, Issue(r, p, x)
    PROVE  Store!Invoke(r)
<1>1. /\ cmd[r] = None /\ cmd' = [cmd EXCEPT ![r] = x] /\ UNCHANGED <<phase, pred, dht, rsp>>
      /\ KeyTyped
  BY DEF Issue, vars, KeyInv
<1>2. \A s \in Req : Result(s)' = Result(s)
  <2> SUFFICES ASSUME NEW s \in Req PROVE Result(s)' = Result(s)
    OBVIOUS
  <2>1. CASE s # r
    <3>1. cmd'[s] = cmd[s] /\ Said(rsp', s) = Said(rsp, s)
      BY <1>1, <2>1
    <3> QED
      BY <3>1, ResultIs
  <2>2. CASE s = r
    <3>1. \A d \in Conn : d.req = r => rsp[d] = None
      BY <1>1 DEF KeyInv, PlaceInv, Issued
    <3>2. Said(rsp', r) = {}
      <4>1. \A a : a \notin Said(rsp, r)
        BY <3>1, SaidIs
      <4> QED
        BY <1>1, <4>1
    <3>3. Result(r) = None /\ Result(r)' = None
      BY <1>1, <3>2, ResultIs
    <3> QED
      BY <2>2, <3>3
  <2> QED
    BY <2>1, <2>2
<1>3. \A k \in Key : StoredAt(k)' = StoredAt(k) /\ OwnerOf(Hash[k])' = OwnerOf(Hash[k])
  BY <1>1, OwnersStay DEF StoredAt
<1>4. \A s \in Req : rsp'[ClientConn(s)'] = rsp[ClientConn(s)]
  BY <1>1 DEF ClientConn
<1> QED
  BY <1>1, <1>2, <1>3, <1>4 DEF Store!Invoke, StoredAt

\* What a command does to a part of the table is what it does to the store.
LEMMA StoredIs ==
    ASSUME NEW f \in [Key -> Value \cup {NoValue}], NEW x \in Cmd,
           NEW kv, kv = [k \in Key |-> kv[k]], kv[x.key] = f[x.key]
    PROVE  /\ AnswerTo(f, x) = Store!AnswerTo(kv, x)
           /\ \A k \in Key : Store!Effect(kv, x)[k] = IF k = x.key THEN Stored(f, x)[k] ELSE kv[k]
           /\ \A k \in Key : k # x.key => Stored(f, x)[k] = f[k]
           /\ Store!Effect(kv, x) = [k \in Key |-> Store!Effect(kv, x)[k]]
<1>1. x.key \in Key /\ x.op \in {"GET", "SET", "DEL"}
  BY DEF Cmd
<1>2. AnswerTo(f, x) = Store!AnswerTo(kv, x)
  BY DEF AnswerTo, Store!AnswerTo
<1>3. CASE x.op = "SET"
  <2>1. /\ Store!Effect(kv, x) = [kv EXCEPT ![x.key] = x.val]
        /\ Stored(f, x) = [f EXCEPT ![x.key] = x.val]
    BY <1>3 DEF Store!Effect, Stored
  <2> QED
    BY <1>1, <1>2, <2>1
<1>4. CASE x.op = "DEL"
  <2>1. /\ Store!Effect(kv, x) = [kv EXCEPT ![x.key] = NoValue]
        /\ Stored(f, x) = [f EXCEPT ![x.key] = NoValue]
    BY <1>4 DEF Store!Effect, Stored
  <2> QED
    BY <1>1, <1>2, <2>1
<1>5. CASE x.op = "GET"
  <2>1. Store!Effect(kv, x) = kv /\ Stored(f, x) = f
    BY <1>5 DEF Store!Effect, Stored
  <2> QED
    BY <1>1, <1>2, <2>1
<1> QED
  BY <1>1, <1>3, <1>4, <1>5

\* The owner of a key executes a command where the store keeps it.
LEMMA OwnIsExecute ==
    ASSUME KeyInv, Single, NEW p \in Peer, NEW c \in calls[p], HandleOwnRequest(p, c)
    PROVE  c.req \in Req /\ Store!Execute(c.req)
<1>1. /\ phase[p] = "up" /\ Owns(p, HashOf(c)) /\ UNCHANGED <<phase, pred, cmd>>
      /\ dht' = [dht EXCEPT ![p] = Stored(@, cmd[c.req])]
  BY DEF HandleOwnRequest, TakesCall, vars
<1>2. PICK x, a : x = cmd[c.req] /\ a = AnswerTo(dht[p], x)
  OBVIOUS
<1>3. /\ c \in Conn /\ Free(p, c) /\ x \in Cmd /\ a \in Answer /\ KeyTyped
      /\ \A d \in Conn : rsp'[d] = IF d = c THEN a ELSE rsp[d]
  BY <1>2, KeysOfOwn DEF KeyInv, Answers
<1>4. PICK r \in Req : r = c.req
  BY <1>3, ConnIs
<1>5. /\ Said(rsp, r) = {} /\ Result(r) = None /\ x # None /\ rsp[c] = None
      /\ a # None /\ a \notin Broken
  BY <1>3, <1>4, NothingSaid, SentinelAssumption DEF KeyInv, PlaceInv, Unanswered, Free
<1>6. x.key \in Key /\ HashOf(c) = Hash[x.key] /\ \A k \in Key : Hash[k] \in HashId
  BY <1>2, <1>3, TableAssumption DEF HashOf, Cmd
<1>7. OwnerOf(Hash[x.key]) = p /\ p # NULL /\ \A k : OwnerOf(Hash[k])' = OwnerOf(Hash[k])
  BY <1>1, <1>6, OwnerIs, OwnersStay, NoNull
<1>8. PICK kv : kv = [k \in Key |-> StoredAt(k)]
  OBVIOUS
<1>9. \A k \in Key : kv[k] = StoredAt(k)
  BY <1>8
<1>10. /\ a = Store!AnswerTo(kv, x) /\ \A k \in Key : k # x.key => Stored(dht[p], x)[k] = dht[p][k]
       /\ \A k \in Key : Store!Effect(kv, x)[k] = IF k = x.key THEN Stored(dht[p], x)[k] ELSE kv[k]
       /\ Store!Effect(kv, x) = [k \in Key |-> Store!Effect(kv, x)[k]]
  <2>1. kv[x.key] = dht[p][x.key] /\ dht[p] \in [Key -> Value \cup {NoValue}]
    BY <1>3, <1>6, <1>7, <1>9 DEF StoredAt, KeyTyped
  <2>2. kv = [k \in Key |-> kv[k]]
    BY <1>8
  <2> QED
    BY <1>2, <1>3, <2>1, <2>2, StoredIs
<1>11. \A k \in Key : StoredAt(k)' = Store!Effect(kv, x)[k]
  <2> SUFFICES ASSUME NEW k \in Key PROVE StoredAt(k)' = Store!Effect(kv, x)[k]
    OBVIOUS
  <2>1. PICK o : o = OwnerOf(Hash[k]) /\ o \in Peer \cup {NULL}
    BY <1>6, OwnerIs
  <2>2. /\ StoredAt(k)' = IF o = NULL THEN NoValue ELSE dht'[o][k]
        /\ StoredAt(k) = IF o = NULL THEN NoValue ELSE dht[o][k]
    BY <1>7, <2>1 DEF StoredAt
  <2>3. /\ dht'[p] = Stored(dht[p], x) /\ \A q \in Peer \ {p} : dht'[q] = dht[q]
    BY <1>1, <1>2, <1>3 DEF KeyTyped
  <2> QED
    BY <1>7, <1>9, <1>10, <2>1, <2>2, <2>3
<1>12. [k \in Key |-> StoredAt(k)]' = Store!Effect(kv, x)
  BY <1>10, <1>11
<1>13. [s \in Req |-> Result(s)]' = [[s \in Req |-> Result(s)] EXCEPT ![r] = a]
  <2>1. \A s \in Req : Result(s)' = IF s = r THEN a ELSE Result(s)
    <3> SUFFICES ASSUME NEW s \in Req PROVE Result(s)' = IF s = r THEN a ELSE Result(s)
      OBVIOUS
    <3>1. CASE s # r
      <4>1. Said(rsp', s) = Said(rsp, s)
        BY <1>3, <1>4, <3>1, SameSaid
      <4> QED
        BY <1>1, <3>1, <4>1, ResultIs
    <3>2. CASE s = r
      <4>1. \A b : b \in Said(rsp, r) <=> FALSE
        BY <1>5
      <4>2. \A b : b \in Said(rsp', r) <=> b = a
        BY <1>3, <1>4, <1>5, <4>1, SaidIs
      <4>3. Said(rsp', r) = {a}
        BY <4>2
      <4>4. cmd'[r] # None
        BY <1>1, <1>2, <1>4, <1>5
      <4> QED
        BY <3>2, <4>3, <4>4, ResultIs
    <3> QED
      BY <3>1, <3>2
  <2> QED
    BY <2>1
<1>14. \/ /\ [s \in Req |-> rsp[ClientConn(s)]]' =
                [[s \in Req |-> rsp[ClientConn(s)]] EXCEPT ![r] = a]
          /\ rsp[ClientConn(r)] = None
       \/ [s \in Req |-> rsp[ClientConn(s)]]' = [s \in Req |-> rsp[ClientConn(s)]]
  <2>1. \A s \in Req :
           rsp'[ClientConn(s)'] = IF s = r /\ c.from = Client THEN a ELSE rsp[ClientConn(s)]
    <3> SUFFICES ASSUME NEW s \in Req
                 PROVE  rsp'[ClientConn(s)'] = IF s = r /\ c.from = Client THEN a
                                               ELSE rsp[ClientConn(s)]
      OBVIOUS
    <3>1. PICK d \in Conn : d = ClientConn(s) /\ d = ClientConn(s)' /\ d.req = s /\ d.from = Client
      BY ConnsBuilt, IdentifierAssumption DEF ClientConn
    <3> QED
      BY <1>3, <1>4, <3>1, ConnIs
  <2>2. c.from = Client => rsp[ClientConn(r)] = None
    BY <1>3, <1>4, <1>5, ConnIs
  <2> QED
    BY <2>1, <2>2
<1>15. /\ cmd[r] = x /\ x # None /\ cmd' = cmd
       /\ [s \in Req |-> Result(s)][r] = None
       /\ [k \in Key |-> OwnerOf(Hash[k])][x.key] # NULL
       /\ [k \in Key |-> OwnerOf(Hash[k])]' = [k \in Key |-> OwnerOf(Hash[k])]
  BY <1>1, <1>2, <1>4, <1>5, <1>6, <1>7
<1>16. /\ [s \in Req |-> Result(s)]' =
             [[s \in Req |-> Result(s)] EXCEPT ![r] = Store!AnswerTo(kv, x)]
       /\ [s \in Req |-> Result(s)]'[r] = a
  BY <1>10, <1>13
<1>17. [s \in Req |-> rsp[ClientConn(s)]][r] = rsp[ClientConn(r)]
  OBVIOUS
<1>18. kv = [k \in Key |-> LET q == OwnerOf(Hash[k]) IN IF q = NULL THEN NoValue ELSE dht[q][k]]
  BY <1>8 DEF StoredAt
<1>19. [k \in Key |-> LET q == OwnerOf(Hash[k]) IN IF q = NULL THEN NoValue ELSE dht[q][k]]' =
          Store!Effect(kv, x)
  BY <1>12 DEF StoredAt
<1> QED
  BY <1>4, <1>14, <1>15, <1>16, <1>17, <1>18, <1>19 DEF Store!Execute

LEMMA StoreStart == TableInit => Store!Init
<1> SUFFICES ASSUME TableInit PROVE Store!Init
  OBVIOUS
<1>1. \A h : OwnerOf(h) = NULL
  BY DEF TableInit, Init, OwnerOf, Member
<1>2. \A r \in Req : Result(r) = None
  BY DEF TableInit, Result
<1>3. \A r \in Req : rsp[ClientConn(r)] = None
  BY ConnsBuilt, IdentifierAssumption DEF TableInit
<1> QED
  BY <1>1, <1>2, <1>3 DEF Store!Init, TableInit

\* Without clients the store stays empty.
LEMMA UnaskedIsChange ==
    ASSUME TableInv, ~setting.asks, [TableNext]_<<vars, keyVars>>
    PROVE  Store!Change
<1>1. /\ Unasked /\ Unasked' /\ setting' = setting /\ KeyTyped
  BY UnaskedStep, TableStep DEF TableInv, RingInv, KeyInv
<1>2. /\ UNCHANGED <<cmd, rsp>>
      /\ \A p \in Peer, k \in Key : dht[p][k] = NoValue /\ dht'[p][k] = NoValue
  BY <1>1 DEF Unasked
<1>3. ASSUME NEW k \in Key PROVE StoredAt(k) = NoValue /\ StoredAt(k)' = NoValue
  <2>1. PICK h \in HashId : h = Hash[k]
    BY TableAssumption
  <2>2. OwnerOf(h) \in Peer \cup {NULL} /\ OwnerOf(h)' \in Peer \cup {NULL}
    BY OwnerIs, OwnerWillBe
  <2> QED
    BY <1>2, <2>1, <2>2 DEF StoredAt
<1> QED
  BY <1>1, <1>2, <1>3, ChangeIs

LEMMA KeyStepIsStoreStep ==
    ASSUME Typed, KeyInv, Effect, Blank, Single, NEW p \in Peer, KeyStep(p)
    PROVE  UNCHANGED mapped \/ Store!Next
<1>1. ASSUME NEW c \in calls[p], HandleOwnRequest(p, c) PROVE Store!Next
  BY <1>1, OwnIsExecute DEF Store!Next
<1>2. ASSUME NEW c, Refuses(p, c) \/ Proxies(p, c) PROVE Store!Next
  <2>1. Closed \in Broken
    BY DEF Broken
  <2> QED
    BY <1>2, <2>1, NoAnswerIsChange, ProxiesIsChange DEF Refuses, Store!Next
<1>3. ASSUME NEW c \in calls[p], ProxyToSucc(p, c) PROVE Store!Next
  BY <1>2, <1>3, KeysOfProxy DEF KeyInv
<1>4. ASSUME NEW c \in calls[p], LookUpPeer(p, c) PROVE UNCHANGED mapped
  BY <1>4 DEF LookUpPeer, mapped
<1>5. ASSUME NEW c \in calls[p], CallCrash(p, c) PROVE Store!Next
  BY <1>5, KeysOfCrash, HangsUpIsChange DEF KeyInv, Store!Next
<1>6. ASSUME NEW m \in inbox[p], ServeOpen(p, m) PROVE UNCHANGED mapped
  BY <1>6 DEF ServeOpen, mapped
<1>7. ASSUME ProxyNext(p) PROVE Store!Next
  BY <1>2, <1>7, KeysOfNext DEF KeyInv
<1>8. ASSUME ProxyDone(p) PROVE Store!Next
  BY <1>8, KeysOfDone, RelaysIsReturn DEF KeyInv
<1> QED
  BY <1>1, <1>3, <1>4, <1>5, <1>6, <1>7, <1>8 DEF KeyStep

LEMMA StoreStep ==
    ASSUME AskedSettings, TableInv, CircleInv, Blank, [TableNext]_<<vars, keyVars>>, ~EndedEarly'
    PROVE  UNCHANGED mapped \/ Store!Next
<1>1. Typed /\ KeyInv /\ Effect
  BY TableStep DEF TableInv, RingInv
<1>2. CASE ~setting.asks
  BY <1>2, UnaskedIsChange DEF Store!Next
<1>3. CASE setting.asks
  <2>1. Single
    <3>1. ~setting.overlap
      BY <1>3 DEF TableInv, AskedSettings
    <3>2. ~EndedEarly
      BY <1>1, EndedEarlyStays
    <3> QED
      BY <3>1, <3>2, OwnerIsOne DEF AtMostOneOwner, Single
  <2>2. CASE RingStep
    <3>1. Moves \/ \E p \in Peer : HangsUp(p)
      BY <1>1, <2>2, KeysOfRing DEF KeyInv
    <3> QED
      BY <1>1, <2>1, <3>1, MovesIsChange, HangsUpIsChange DEF Store!Next
  <2>3. ASSUME NEW p \in Peer, KeyStep(p) PROVE UNCHANGED mapped \/ Store!Next
    BY <1>1, <2>1, <2>3, KeyStepIsStoreStep
  <2>4. ASSUME NEW r \in Req, NEW p \in Peer, NEW c \in Cmd, Issue(r, p, c) PROVE Store!Next
    BY <1>1, <2>4, IssueIsInvoke DEF Store!Next
  <2>5. CASE UNCHANGED <<vars, keyVars>>
    BY <2>5 DEF vars, keyVars, mapped
  <2> QED
    BY <2>2, <2>3, <2>4, <2>5 DEF TableNext
<1> QED
  BY <1>2, <1>3

\* The ring is one store (handle_packet_data and proxy_request of peer.c,
\* while peers join and end): every step executes one command on the part of
\* the table that counts, returns its result, ends connections without an
\* answer, or hands keys to a peer that has nothing stored; each request
\* takes effect once at most.
THEOREM RingIsOneStore ==
    ASSUME OrderlySettings, AskedSettings
    PROVE  TableSpec => RingImplementsStore
<1>1. TableInv /\ Blank /\ [TableNext]_<<vars, keyVars>> => Blank'
  BY BlankStep
<1>2. TableSpec => []Blank
  BY <1>1, BlankStart, TableInvariant, PTL DEF TableSpec
<1>3. TableInv /\ (CircleInv /\ CalmInv) /\ Blank /\ [TableNext]_<<vars, keyVars>> =>
         [EndedEarly' \/ UNCHANGED mapped \/ Store!Next]_Store!vars
  BY StoreStep
<1> QED
  BY <1>2, <1>3, StoreStart, TableInvariant, TableCircle, PTL DEF TableSpec, RingImplementsStore
=============================================================================
