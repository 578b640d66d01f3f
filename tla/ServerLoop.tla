----------------------------- MODULE ServerLoop -----------------------------
(* The server of a peer: one poll loop over a linked list of connections,  *)
(* each with its own little decoder, a callback for every complete packet, *)
(* and the requests that stay open until a REPLY comes.  In project 3 a    *)
(* second thread puts the connections it opens into the same list.         *)
(*                                                                         *)
(* A packet is two portions of bytes, its header and its body; a portion   *)
(* that arrives in pieces is read in pieces without further effect.  Open  *)
(* requests have one hash.  A REPLY is served in one step: what happens    *)
(* while proxy_request blocks is the subject of StaticRing.                *)
EXTENDS SequencesExt

CONSTANTS
    Conn,       \* connections
    Kind,       \* what is sent on each: "OWN" a request for this peer,
                \* "ASK" one that needs a lookup, "RPLY" the REPLY to it,
                \* "NTFY" the answer to a STABILIZE of the second thread
    Setting,    \* the ways in which the server is used
    Fd,         \* file descriptors of connections: 1 .. n, no more are open
    None

ASSUME ServerAssumption ==
    /\ Kind \in [Conn -> {"OWN", "ASK", "RPLY", "NTFY"}]
    /\ Setting \subseteq [made : SUBSET Conn, impatient : SUBSET Conn]
    /\ Fd \subseteq Nat
    /\ None \notin Conn /\ None \notin Fd

Portion == {"hdr", "body", "eof"}

VARIABLES
    far,      \* far end: "new", "queued", then the last portion it has sent
    pipe,     \* portions that have arrived and have not been read
    got,      \* whose answers the far end of a connection has received
    fdt,      \* the process's descriptor table
    clients,  \* srv->clients, front first
    sock,     \* socket of each client object
    cstate,   \* state of each client object; "REMOVE_BUF" is REMOVE put in
              \* the place of HDR_RECVD: there is still a body buffer
    pack,     \* the connection whose header the client object has decoded
    open,     \* the request table: socket and asker of each open request
    pc,       \* "fill", "poll", "walk", "sweep", "accept"; "dead"
    fds,      \* sockets that poll was given
    revents,  \* indices that poll has reported
    accepts,  \* poll has reported the server's own socket
    cur,      \* the loop's index and client
    setting   \* the connections that are made at all (those of kind "NTFY"
              \* by the second thread), and the clients that may hang up
              \* without waiting for an answer

far_vars == <<far, pipe, got>>
list_vars == <<clients, fdt, sock, cstate, pack>>
loop_vars == <<pc, fds, revents, accepts, cur>>
vars == <<far_vars, list_vars, open, loop_vars, setting>>

Init ==
    /\ far = [c \in Conn |-> "new"]
    /\ pipe = [c \in Conn |-> <<>>]
    /\ got = [c \in Conn |-> {}]
    /\ fdt = [f \in Fd |-> None]
    /\ clients = <<>>
    /\ sock = [c \in Conn |-> None]
    /\ cstate = [c \in Conn |-> "IDLE"]
    /\ pack = [c \in Conn |-> None]
    /\ open = <<>>
    /\ pc = "fill" /\ fds = <<>> /\ revents = {} /\ accepts = FALSE
    /\ cur = [i |-> 0, c |-> None]
    /\ setting \in Setting
-----------------------------------------------------------------------------
(* The far ends.                                                           *)

Of(kind) == {c \in Conn : Kind[c] = kind}

\* Requests that have been read completely.
Asked == {c \in Of("ASK") : far[c] \in {"body", "eof"}
                            /\ ~Contains(pipe[c], "body")}

\* A client connects; there is one REPLY to each request looked up.
Connect(c) ==
    /\ far[c] = "new" /\ Kind[c] # "NTFY" /\ c \in setting.made
    /\ Kind[c] = "RPLY" =>
         Cardinality({d \in Of("RPLY") : far[d] # "new"}) < Cardinality(Asked)
    /\ far' = [far EXCEPT ![c] = "queued"]
    /\ UNCHANGED <<pipe, got, list_vars, open, loop_vars>>

\* The next portion of c's packet arrives, or the end of the connection.
\* Who asks waits for the answer; the others close when they have sent.
Send(c, x) ==
    /\ \/ x = "hdr" /\ far[c] = "queued"
       \/ x = "body" /\ far[c] = "hdr"
       \/ /\ x = "eof" /\ far[c] = "body"
          /\ Kind[c] \in {"RPLY", "NTFY"} \/ got[c] # {} \/ c \in setting.impatient
    /\ far' = [far EXCEPT ![c] = x]
    /\ pipe' = [pipe EXCEPT ![c] = Append(@, x)]
    /\ UNCHANGED <<got, list_vars, open, loop_vars>>

\* stabilize: the second thread connects to the successor and puts the
\* connection at the front of the list.
Prepend(c) ==
    /\ Kind[c] = "NTFY" /\ far[c] = "new" /\ c \in setting.made
    /\ pc # "dead"
    /\ \E f \in Fd :
         /\ fdt[f] = None /\ \A g \in Fd : fdt[g] = None => f <= g
         /\ fdt' = [fdt EXCEPT ![f] = c]
         /\ sock' = [sock EXCEPT ![c] = f]
    /\ clients' = <<c>> \o clients
    /\ far' = [far EXCEPT ![c] = "queued"]
    /\ UNCHANGED <<pipe, got, cstate, pack, open, loop_vars>>
-----------------------------------------------------------------------------
(* server.c                                                                *)

\* The place of c in a list that holds it.
Place(list, c) == CHOOSE k \in DOMAIN list : list[k] = c

\* server_remove_client
Removed(c) ==
    IF Contains(clients, c)
    THEN /\ clients' = RemoveAt(clients, Place(clients, c))
         /\ fdt' = [fdt EXCEPT ![sock[c]] = None]
    ELSE UNCHANGED <<clients, fdt>>

\* The client in the list behind c.
After(list, c) ==
    IF Place(list, c) < Len(list) THEN list[Place(list, c) + 1] ELSE None

First(list) == IF list = <<>> THEN None ELSE Head(list)

\* The array for poll is filled with the sockets of the list.
Fill ==
    /\ pc = "fill"
    /\ fds' = [i \in DOMAIN clients |-> sock[clients[i]]]
    /\ pc' = "poll"
    /\ UNCHANGED <<far_vars, list_vars, open, revents, accepts, cur>>

\* poll returns because something has come; the walk begins at the front of
\* the list.
Poll ==
    /\ pc = "poll"
    /\ revents' = {i \in DOMAIN fds : pipe[fdt[fds[i]]] # <<>>}
    /\ accepts' = \E c \in Conn : far[c] # "new" /\ sock[c] = None
    /\ revents' # {} \/ accepts'
    /\ pc' = "walk"
    /\ cur' = [i |-> 1, c |-> First(clients)]
    /\ UNCHANGED <<far_vars, list_vars, open, fds>>

\* The walk is at client c, whose entry in the array is i.
At(c, i) ==
    /\ pc = "walk" /\ cur = [i |-> i, c |-> c]
    /\ c # None /\ i <= Len(clients)

\* On to the next client, which was looked up before this one was served.
Step(c) == cur' = [i |-> cur.i + 1, c |-> After(clients, c)]

\* The loop ends at the end of the list, or when its index reaches the
\* number of clients, which shrinks with every client removed.  (The array
\* is not read again.)
WalkDone ==
    /\ pc = "walk" /\ (cur.c = None \/ cur.i > Len(clients))
    /\ pc' = "sweep"
    /\ fds' = <<>> /\ revents' = {} /\ cur' = [i |-> 0, c |-> None]
    /\ UNCHANGED <<far_vars, list_vars, open, accepts>>

Skip(c, i) ==
    /\ At(c, i) /\ i \notin revents
    /\ Step(c)
    /\ UNCHANGED <<far_vars, list_vars, open, pc, fds, revents, accepts>>

\* The second thread has made the list longer than the array: poll, called
\* with the new number, or the walk goes past the array's end.  Skip is what
\* follows if no event is found there; anything else may follow too.
ReadPastArray ==
    /\ \/ pc = "poll" /\ Len(clients) > Len(fds)
       \/ \E c \in Conn, i \in 1 .. Len(clients) : At(c, i) /\ i \notin DOMAIN fds
    /\ pc' = "dead"
    /\ UNCHANGED <<far_vars, list_vars, open, fds, revents, accepts, cur>>

\* The client has read a header and waits for the body.
HasBuffer(c) == cstate[c] \in {"HDR_RECVD", "REMOVE_BUF"}

\* recv on the array's descriptor; the bytes are those of connection x.
Recv(c, i, x, portion) ==
    /\ At(c, i) /\ i \in revents
    /\ x = fdt[fds[i]] /\ cstate[c] # "REMOVE"
    /\ pipe[x] # <<>> /\ portion = Head(pipe[x])
    /\ pipe' = [pipe EXCEPT ![x] = Tail(@)]

\* client_decode_hdr
RecvHeader(c, i, x) ==
    /\ Recv(c, i, x, "hdr") /\ cstate[c] = "IDLE"
    /\ cstate' = [cstate EXCEPT ![c] = "HDR_RECVD"]
    /\ pack' = [pack EXCEPT ![c] = x]
    /\ Step(c)
    /\ UNCHANGED <<far, got, clients, fdt, sock, open, pc, fds, revents, accepts>>

RecvEof(c, i, x) ==
    /\ Recv(c, i, x, "eof")
    /\ Removed(c)
    /\ Step(c)
    /\ UNCHANGED <<far, got, sock, cstate, pack, open, pc, fds, revents, accepts>>

\* A client that was marked for removal earlier in this walk has something
\* to read: its body buffer is gone and rb_can_write reads through NULL.
RecvMarked(c, i) ==
    /\ At(c, i) /\ i \in revents /\ cstate[c] = "REMOVE"
    /\ pc' = "dead"
    /\ UNCHANGED <<far_vars, list_vars, open, fds, revents, accepts, cur>>

\* Bytes that are not where the decoder of c expects them: what follows
\* depends on their values.
RecvGarbage(c, i, x) ==
    /\ \/ Recv(c, i, x, "body") /\ cstate[c] = "IDLE"
       \/ Recv(c, i, x, "hdr") /\ HasBuffer(c)
    /\ pc' = "dead"
    /\ UNCHANGED <<far, got, list_vars, open, fds, revents, accepts, cur>>

\* A packet of the given kind is complete: client_decode_body and the call
\* of server_deliver_packet.
Deliver(c, i, x, kind) ==
    /\ Recv(c, i, x, "body") /\ HasBuffer(c)
    /\ Kind[pack[c]] = kind
    /\ Step(c)
    /\ UNCHANGED <<far, pack, sock, pc, fds, revents, accepts>>

\* Who receives what is sent on socket f.
FarEnd(f) == {x \in Conn : fdt[f] = x}
-----------------------------------------------------------------------------
(* The callback (peer.c, requests.c).                                      *)

\* Mutant: the callback says that the connection is still needed.
DeliverOwnKeep(c, i, x) ==
    /\ Deliver(c, i, x, "OWN")
    /\ got' = [y \in Conn |-> IF y \in FarEnd(sock[c])
                              THEN got[y] \cup {pack[c]} ELSE got[y]]
    /\ cstate' = [cstate EXCEPT ![c] = "IDLE"]
    /\ UNCHANGED <<clients, fdt, open>>

\* handle_own_request: answered and removed.
DeliverOwn(c, i, x) ==
    /\ Deliver(c, i, x, "OWN")
    /\ got' = [y \in Conn |-> IF y \in FarEnd(sock[c])
                              THEN got[y] \cup {pack[c]} ELSE got[y]]
    /\ Removed(c)
    /\ UNCHANGED <<cstate, open>>

\* Mutant: the connection of a request that is being looked up is removed.
DeliverAskRemove(c, i, x) ==
    /\ Deliver(c, i, x, "ASK")
    /\ open' = Append(open, [fd |-> sock[c], asker |-> pack[c]])
    /\ Removed(c)
    /\ UNCHANGED <<cstate, got>>

\* add_request: the connection stays.
DeliverAsk(c, i, x) ==
    /\ Deliver(c, i, x, "ASK")
    /\ open' = Append(open, [fd |-> sock[c], asker |-> pack[c]])
    /\ cstate' = [cstate EXCEPT ![c] = "IDLE"]
    /\ UNCHANGED <<clients, fdt, got>>

\* server_close_socket for the socket f of an open request: the first
\* client in the list that has it is marked.
Closes(f, d) ==
    \E k \in DOMAIN clients :
       /\ clients[k] = d /\ sock[d] = f
       /\ \A j \in 1 .. k - 1 : sock[clients[j]] # f

Marked == {d \in Conn : \E r \in ToSet(open) : Closes(r.fd, d)}

Mark(state) == IF state \in {"IDLE", "REMOVE"} THEN "REMOVE" ELSE "REMOVE_BUF"

\* Mutant: the connections are removed instead of marked.
DeliverReplyRemove(c, i, x) ==
    /\ Deliver(c, i, x, "RPLY")
    /\ got' = [y \in Conn |-> got[y] \cup
                 {r.asker : r \in {q \in ToSet(open) : y \in FarEnd(q.fd)}}]
    /\ open' = <<>>
    /\ clients' = SelectSeq(clients, LAMBDA d : d # c /\ d \notin Marked)
    /\ fdt' = [f \in Fd |-> IF fdt[f] \in Marked \cup {c} THEN None ELSE fdt[f]]
    /\ UNCHANGED cstate

\* Mutant: the open requests are kept.
DeliverReplyKeep(c, i, x) ==
    /\ Deliver(c, i, x, "RPLY")
    /\ got' = [y \in Conn |-> got[y] \cup
                 {r.asker : r \in {q \in ToSet(open) : y \in FarEnd(q.fd)}}]
    /\ cstate' = [d \in Conn |-> IF d \in Marked THEN Mark(cstate[d])
                             ELSE cstate[d]]
    /\ Removed(c)
    /\ UNCHANGED open

\* A REPLY: every open request is answered on its socket, whose connection
\* is marked for removal; the table's entry is cleared.
DeliverReply(c, i, x) ==
    /\ Deliver(c, i, x, "RPLY")
    /\ got' = [y \in Conn |-> got[y] \cup
                 {r.asker : r \in {q \in ToSet(open) : y \in FarEnd(q.fd)}}]
    /\ cstate' = [d \in Conn |-> IF d \in Marked THEN Mark(cstate[d])
                             ELSE cstate[d]]
    /\ open' = <<>>
    /\ Removed(c)

DeliverNotify(c, i, x) ==
    /\ Deliver(c, i, x, "NTFY")
    /\ Removed(c)
    /\ UNCHANGED <<got, cstate, open>>
-----------------------------------------------------------------------------
\* server_close_socket has marked the connection.
Doomed(c) == cstate[c] \in {"REMOVE", "REMOVE_BUF"}

\* Mutant: the round that accepts a connection removes none.
SweepUnlessAccepting ==
    /\ pc = "sweep"
    /\ \/ \E k \in DOMAIN clients :
             /\ Doomed(clients[k]) /\ ~accepts
             /\ \A j \in 1 .. k - 1 : ~Doomed(clients[j])
             /\ Removed(clients[k])
             /\ pc' = pc
       \/ /\ \A k \in DOMAIN clients : ~Doomed(clients[k]) \/ accepts
          /\ pc' = "accept"
          /\ UNCHANGED <<clients, fdt>>
    /\ UNCHANGED <<far_vars, sock, cstate, pack, open, fds, revents, accepts, cur>>

\* The connections marked for removal are removed, the first of them first.
Sweep ==
    /\ pc = "sweep"
    /\ \/ \E k \in DOMAIN clients :
             /\ Doomed(clients[k])
             /\ \A j \in 1 .. k - 1 : ~Doomed(clients[j])
             /\ Removed(clients[k])
             /\ pc' = pc
       \/ /\ \A k \in DOMAIN clients : ~Doomed(clients[k])
          /\ pc' = "accept"
          /\ UNCHANGED <<clients, fdt>>
    /\ UNCHANGED <<far_vars, sock, cstate, pack, open, fds, revents, accepts, cur>>

\* server_add_client: accept returns the lowest free descriptor.
Accept ==
    /\ pc = "accept"
    /\ IF accepts
       THEN \E c \in Conn, f \in Fd :
              /\ far[c] # "new" /\ sock[c] = None
              /\ fdt[f] = None /\ \A g \in Fd : fdt[g] = None => f <= g
              /\ fdt' = [fdt EXCEPT ![f] = c]
              /\ sock' = [sock EXCEPT ![c] = f]
              /\ clients' = <<c>> \o clients
       ELSE UNCHANGED <<fdt, sock, clients>>
    /\ pc' = "fill" /\ accepts' = FALSE
    /\ UNCHANGED <<far_vars, cstate, pack, open, fds, revents, cur>>

Walk ==
    \E c \in Conn, i \in 1 .. Len(clients) :
       \/ Skip(c, i)
       \/ RecvMarked(c, i)
       \/ \E x \in Conn : \/ RecvHeader(c, i, x)
                          \/ RecvEof(c, i, x)
                          \/ RecvGarbage(c, i, x)
                          \/ DeliverOwn(c, i, x)
                          \/ DeliverAsk(c, i, x)
                          \/ DeliverReply(c, i, x)
                          \/ DeliverNotify(c, i, x)

Loop == Fill \/ Poll \/ Walk \/ ReadPastArray \/ WalkDone \/ Sweep \/ Accept

AnyStep ==
    \/ \E c \in Conn : Connect(c) \/ Prepend(c)
    \/ \E c \in Conn, x \in Portion : Send(c, x)
    \/ Loop

Next == AnyStep /\ UNCHANGED setting

Spec == Init /\ [][Next]_vars

\* The loop runs, whoever has begun to send a packet sends all of it, and
\* every lookup is answered by a REPLY of its own.
FairSpec ==
    /\ Spec /\ WF_vars(Loop /\ UNCHANGED setting)
    /\ \A c \in Conn :
         /\ WF_vars(Kind[c] = "RPLY" /\ Connect(c) /\ UNCHANGED setting)
         /\ \A x \in {"hdr", "body"} : WF_vars(Send(c, x) /\ UNCHANGED setting)
-----------------------------------------------------------------------------
TypeOK ==
    /\ far \in [Conn -> {"new", "queued"} \cup Portion]
    /\ pipe \in [Conn -> Seq(Portion)]
    /\ got \in [Conn -> SUBSET Conn]
    /\ fdt \in [Fd -> Conn \cup {None}]
    /\ clients \in Seq(Conn)
    /\ sock \in [Conn -> Fd \cup {None}]
    /\ cstate \in [Conn -> {"IDLE", "HDR_RECVD", "REMOVE", "REMOVE_BUF"}]
    /\ pack \in [Conn -> Conn \cup {None}]
    /\ open \in Seq([fd: Fd, asker: Conn])
    /\ pc \in {"fill", "poll", "walk", "sweep", "accept", "dead"}
    /\ fds \in Seq(Fd) /\ revents \subseteq DOMAIN fds
    /\ accepts \in BOOLEAN
    /\ cur \in [i: Nat, c: Conn \cup {None}]
    /\ setting \in Setting

\* Every client waits for its answer and there is no second thread.
Orderly == setting.impatient = {} /\ setting.made \cap Of("NTFY") = {}

\* The walk never stands on a client object that has been freed, whatever
\* the callbacks for earlier clients have done.
WalkStaysOnList == pc = "walk" /\ cur.c # None => Contains(clients, cur.c)

\* The list, the array and the position of server_run are well formed.
WellFormed == TypeOK /\ WalkStaysOnList

\* In an orderly setting no client is read from that has no buffer for what
\* comes, and no bytes are taken for what they are not.
NoCrash == Orderly => pc # "dead"

\* What a client object decodes has come on its own connection.
OwnBytesOnly == \A c \in Conn : pack[c] \in {c, None}

\* An open request's socket is still the connection of the client that
\* asked, so the answer goes to nobody else.
OpenSocketsAreAskers == Orderly =>
    \A r \in ToSet(open) : fdt[r.fd] = r.asker /\ Contains(clients, r.asker)

\* Every client receives its answer in an orderly setting.
EveryRequestAnswered ==
    \A c \in Of("OWN") \cup Of("ASK") :
       Orderly /\ far[c] = "body" ~> c \in got[c]

\* No connection is kept for ever: each one that has delivered its packet
\* is removed in the end.
EveryConnectionRemoved ==
    \A c \in Conn : Orderly /\ far[c] = "body" ~> sock[c] # None /\ ~Contains(clients, c)
=============================================================================
