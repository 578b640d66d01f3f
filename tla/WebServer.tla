------------------------------ MODULE WebServer ------------------------------
(* The HTTP server of project 1: one thread that serves one connection     *)
(* after the other, a buffer that collects a request line by line, and a   *)
(* table of resources.  A request is a line, the header line with the      *)
(* length of the body, the blank line, and the characters of the body.     *)
EXTENDS Naturals, Sequences, SequencesExt

CONSTANTS
    Client,
    Clean, Rough,       \* bound: the requests of polite clients and of others
    MaxRequests,        \* bound: how many of them
    Manners,            \* which kinds of clients there are; a subset of BOOLEAN
    Char,
    Width,              \* the bytes of a payload in the table; 100 in the code
    Height,             \* the rows of the table; 100 in the code
    StaticPath, DynamicPath,
    StaticSlot, StaticContent,    \* what main writes into the first rows
    None

Nul == "nul"
Slot == 1 .. Height
Empty == [i \in 1 .. Width |-> Nul]

\* main writes every static resource into a row of its own, which it fits;
\* strings have no zero inside them.
ASSUME WebAssumption ==
    /\ Manners \subseteq BOOLEAN /\ MaxRequests \in Nat
    /\ Width \in Nat /\ Height \in Nat
    /\ StaticSlot \in [StaticPath -> Slot]
    /\ \A p, q \in StaticPath : StaticSlot[p] = StaticSlot[q] => p = q
    /\ StaticContent \in [StaticPath -> Seq(Char)]
    /\ \A p \in StaticPath : Len(StaticContent[p]) <= Width
    /\ StaticPath \cap DynamicPath = {} /\ None \notin StaticPath \cup DynamicPath
    /\ Nul \notin Char /\ None \notin Client
    /\ None \notin Clean \cup Rough
    /\ Clean \cup Rough \subseteq
         [method : {"GET", "PUT", "POST", "DELETE", "OTHER"},
          path : StaticPath \cup DynamicPath, sized : BOOLEAN,
          body : Seq(Char), version : BOOLEAN]

VARIABLES
    path, payload,   \* the table; None is a row of zeros
    buffer,          \* all_buffer
    conn,            \* new_fd's client
    pc,              \* accept, recv, body: the call the thread is in
    backlog,         \* connections that have not been accepted
    wire,            \* what a client has sent or will send, and nobody has received
    phase,           \* off, idle, busy, gone: a client
    asked, got,      \* its request, and the last answer
    left,            \* requests to come
    polite           \* what the clients of this behaviour are like

table == <<path, payload>>
client == <<backlog, phase, asked, left>>
vars == <<table, buffer, conn, pc, wire, client, got, polite>>
-----------------------------------------------------------------------------
Line(r) == [kind |-> "line", method |-> r.method, path |-> r.path, version |-> r.version]
Length(n) == [kind |-> "length", n |-> n]
Blank == [kind |-> "blank"]
Text(c) == [kind |-> "text", char |-> c]
IsText(t) == t.kind = "text"

Tokens(r) ==
    <<Line(r)>> \o (IF r.sized THEN <<Length(Len(r.body))>> ELSE <<>>) \o <<Blank>>
        \o [i \in DOMAIN r.body |-> Text(r.body[i])]

\* The string a row holds, up to the first zero.
Content(row) ==
    LET Before(i) == \A j \in 1 .. i : row[j] # Nul
        n == CHOOSE k \in 0 .. Width : Before(k) /\ (k = Width \/ row[k + 1] = Nul)
    IN SubSeq(row, 1, n)

RowOf(s) == [i \in 1 .. Width |-> IF i <= Len(s) THEN s[i] ELSE Nul]

Init ==
    /\ path = [i \in Slot |->
                 IF \E p \in StaticPath : StaticSlot[p] = i
                 THEN CHOOSE p \in StaticPath : StaticSlot[p] = i ELSE None]
    /\ payload = [i \in Slot |->
                    IF path[i] = None THEN Empty ELSE RowOf(StaticContent[path[i]])]
    /\ buffer = <<>> /\ conn = None /\ pc = "accept" /\ backlog = <<>>
    /\ wire = [c \in Client |-> <<>>]
    /\ phase = [c \in Client |-> "off"]
    /\ asked = [c \in Client |-> None] /\ got = asked
    /\ left = MaxRequests
    /\ polite \in Manners
-----------------------------------------------------------------------------
(* Clients *)

\* On a connection of its own, which is opened for the first request.
Ask(c, r) ==
    /\ phase[c] \in {"off", "idle"} /\ left > 0
    /\ r \in IF polite THEN Clean ELSE Rough
    /\ left' = left - 1
    /\ phase' = [phase EXCEPT ![c] = "busy"]
    /\ backlog' = IF phase[c] = "off" THEN Append(backlog, c) ELSE backlog
    /\ asked' = [asked EXCEPT ![c] = r]
    /\ got' = [got EXCEPT ![c] = None]
    /\ wire' = [wire EXCEPT ![c] = @ \o Tokens(r)]
    /\ UNCHANGED <<table, buffer, conn, pc, polite>>

\* With its answer, or before: then a part of the request still arrives.
HangUp(c) ==
    /\ phase[c] = "idle" \/ (phase[c] = "busy" /\ ~polite)
    /\ phase' = [phase EXCEPT ![c] = "gone"]
    /\ \E k \in 0 .. Len(wire[c]) :
          /\ phase[c] = "idle" => k = Len(wire[c])
          /\ wire' = [wire EXCEPT ![c] = SubSeq(@, 1, k)]
    /\ UNCHANGED <<table, buffer, conn, pc, backlog, asked, left, got, polite>>
-----------------------------------------------------------------------------
(* The thread *)

Accept ==
    /\ pc = "accept" /\ backlog # <<>>
    /\ conn' = Head(backlog) /\ backlog' = Tail(backlog)
    /\ pc' = "recv"
    /\ UNCHANGED <<table, buffer, wire, phase, asked, left, got, polite>>

\* break: back to accept, with the connection open and the buffer as it is.
Break ==
    /\ pc' = "accept" /\ conn' = None
    /\ UNCHANGED <<table, buffer, client, got>>

\* send, and an empty buffer for the next request.
Respond(status, content) ==
    /\ got' = IF phase[conn] = "busy"
              THEN [got EXCEPT ![conn] = [status |-> status, content |-> content]] ELSE got
    /\ phase' = IF phase[conn] = "busy" THEN [phase EXCEPT ![conn] = "idle"] ELSE phase
    /\ asked' = [asked EXCEPT ![conn] = None]
    /\ buffer' = <<>> /\ pc' = "recv"
    /\ UNCHANGED <<conn, backlog, left>>

\* What the parser finds in a buffer: its first line, which is no known
\* method when the rest of a body stands before it, and the first length.
FirstOf(b, kind) == b[CHOOSE i \in DOMAIN b :
                            b[i].kind = kind /\ \A j \in 1 .. i - 1 : b[j].kind # kind]
Sized(b) == \E i \in DOMAIN b : b[i].kind = "length"
ContentLength(b) == IF Sized(b) THEN FirstOf(b, "length").n ELSE 0
Url(b) == FirstOf(b, "line").path
Version(b) == FirstOf(b, "line").version
Method(b) == IF IsText(b[1]) THEN "OTHER" ELSE FirstOf(b, "line").method

\* Mutant: the body of a DELETE is left for the next request.
TakesBodyPut(b) == Method(b) = "PUT" /\ Sized(b)

\* Mutant: a body is received that no header has announced.
TakesBodyAlways(b) == Method(b) \in {"PUT", "DELETE"}

\* A method whose body is received before the answer is known.
TakesBody(b) ==
    \/ Method(b) = "PUT" /\ Sized(b)
    \/ Method(b) = "DELETE" /\ Url(b) \in DynamicPath

\* The version is checked last, when a request has had its effect.
Checked(status, b) == IF Version(b) THEN status ELSE 400

\* Mutant: a path is looked for in the rows before the first empty one.
RowsFirst(p) == {i \in Slot : path[i] = p /\ \A j \in 1 .. i - 1 : path[j] # None}

Rows(p) == {i \in Slot : path[i] = p}
Row(p) == CHOOSE i \in Rows(p) : \A j \in Rows(p) : i <= j

\* Every method whose body is not received.
AnswerAtOnce(b) ==
    LET p == Url(b)
        found == Method(b) = "GET" /\ Rows(p) # {} /\ Version(b)
        status == CASE Method(b) = "GET" -> IF Rows(p) # {} THEN 200 ELSE 404
                    [] Method(b) \in {"PUT", "POST"} /\ ~Sized(b) -> 400
                    [] Method(b) = "DELETE" -> 403
                    [] OTHER -> 501
    IN /\ Respond(Checked(status, b), IF found THEN Content(payload[Row(p)]) ELSE <<>>)
       /\ UNCHANGED table

\* recv of one line.
Recv ==
    /\ pc = "recv" /\ wire[conn] # <<>>
    /\ wire' = [wire EXCEPT ![conn] = Tail(@)]
    /\ LET b == Append(buffer, Head(wire[conn]))
       IN \/ /\ Last(b) # Blank
             /\ buffer' = b
             /\ UNCHANGED <<table, conn, pc, client, got>>
          \/ /\ Last(b) = Blank /\ TakesBody(b)
             /\ buffer' = b /\ pc' = "body"
             /\ UNCHANGED <<table, conn, client, got>>
          \/ Last(b) = Blank /\ ~TakesBody(b) /\ AnswerAtOnce(b)
    /\ UNCHANGED polite

\* recv returns 0.
RecvEnd ==
    /\ pc = "recv" /\ wire[conn] = <<>> /\ phase[conn] = "gone"
    /\ Break
    /\ UNCHANGED <<wire, polite>>

\* strncpy: up to a zero, and zeros for the rest of the n bytes.
Copied(row, body) ==
    [i \in 1 .. Width |->
       IF i > Len(body) THEN row[i]
       ELSE IF \E j \in 1 .. i : body[j] = Nul THEN Nul ELSE body[i]]

\* Mutant: nobody asks where the path leads.
PutAnywhere(p, body) ==
    LET row == IF Rows(p) # {} THEN Row(p) ELSE Row(None)
    IN /\ Rows(p) \cup Rows(None) # {}
       /\ path' = [path EXCEPT ![row] = p]
       /\ payload' = [payload EXCEPT ![row] = Copied(@, body)]
       /\ Respond(Checked(IF Rows(p) # {} THEN 200 ELSE 201, buffer), <<>>)

\* When the table is full the index is -1, and what is written lies before
\* the table.
Put(p, body) ==
    \/ /\ p \notin DynamicPath
       /\ Respond(Checked(403, buffer), <<>>)
       /\ UNCHANGED table
    \/ /\ p \in DynamicPath /\ Rows(p) \cup Rows(None) # {}
       /\ LET row == IF Rows(p) # {} THEN Row(p) ELSE Row(None)
          IN /\ path' = [path EXCEPT ![row] = p]
             /\ payload' = [payload EXCEPT ![row] = Copied(@, body)]
       /\ Respond(Checked(IF Rows(p) # {} THEN 200 ELSE 201, buffer), <<>>)
    \/ /\ p \in DynamicPath /\ Rows(p) \cup Rows(None) = {}
       /\ pc' = "undefined"
       /\ UNCHANGED <<table, buffer, conn, client, got>>

Delete(p) ==
    /\ path' = IF Rows(p) # {} THEN [path EXCEPT ![Row(p)] = None] ELSE path
    /\ payload' = IF Rows(p) # {} THEN [payload EXCEPT ![Row(p)] = Empty] ELSE payload
    /\ Respond(Checked(IF Rows(p) # {} THEN 200 ELSE 404, buffer), <<>>)

\* Bytes of the body that recv has not filled are whatever was there.
Bodies(part, n) ==
    {part \o rest : rest \in [1 .. n - Len(part) -> Char \cup {Nul}]}

\* recv of the body, which returns what has arrived of it; from a polite
\* client that is all.
RecvBody ==
    /\ pc = "body"
    /\ LET n == ContentLength(buffer)
       IN \E k \in 1 .. n :
            LET part == [i \in 1 .. k |-> wire[conn][i].char]
            IN /\ k <= Len(wire[conn]) /\ (polite => k = n)
               /\ wire' = [wire EXCEPT ![conn] = SubSeq(@, k + 1, Len(@))]
               /\ \/ /\ Method(buffer) = "PUT"
                     /\ \E body \in Bodies(part, n) : Put(Url(buffer), body)
                  \/ Method(buffer) = "DELETE" /\ Delete(Url(buffer))
    /\ UNCHANGED polite

\* Nothing to receive, or nobody to receive it from.
BodyEnd ==
    /\ pc = "body"
    /\ \/ ContentLength(buffer) = 0
       \/ wire[conn] = <<>> /\ phase[conn] = "gone"
    /\ Break
    /\ UNCHANGED <<wire, polite>>

Server == Accept \/ Recv \/ RecvEnd \/ RecvBody \/ BodyEnd

Next ==
    \/ Server
    \/ \E c \in Client :
          HangUp(c) \/ \E r \in Clean \cup Rough : Ask(c, r)

Spec == Init /\ [][Next]_vars

\* The thread runs; polite clients send all of a request, and end the
\* connection when they have nothing more to ask.
FairSpec ==
    /\ Spec /\ WF_vars(polite /\ Server)
    /\ \A c \in Client : WF_vars(polite /\ HangUp(c))
-----------------------------------------------------------------------------
Token == UNION {{Tokens(r)[i] : i \in DOMAIN Tokens(r)} : r \in Clean \cup Rough}

TypeOK ==
    /\ path \in [Slot -> StaticPath \cup DynamicPath \cup {None}]
    /\ payload \in [Slot -> [1 .. Width -> Char \cup {Nul}]]
    /\ buffer \in Seq(Token) /\ (polite => Len(buffer) <= 3)
    /\ conn \in Client \cup {None} /\ pc \in {"accept", "recv", "body", "undefined"}
    /\ pc # "accept" <=> conn # None
    /\ backlog \in Seq(Client)
    /\ wire \in [Client -> Seq(Token)]
    /\ phase \in [Client -> {"off", "idle", "busy", "gone"}]
    /\ asked \in [Client -> Clean \cup Rough \cup {None}]
    /\ \A c \in Client : got[c] # None => got[c].status \in {200, 201, 400, 403, 404, 501}
    /\ left \in 0 .. MaxRequests /\ polite \in BOOLEAN

\* A path has one row: a row that DELETE has emptied is given away again
\* only to a path that has none behind it.
OneRowEach == \A i, j \in Slot : path[i] = path[j] /\ path[i] # None => i = j

\* A row without a path has no content either, which the next and shorter
\* resource in it would end with.
EmptyRowsAreEmpty == \A i \in Slot : path[i] = None => payload[i] = Empty

\* The table of webserver.c is well formed, whatever clients leave out.
WellFormed == TypeOK /\ OneRowEach /\ EmptyRowsAreEmpty

\* The static resources stay, whatever clients send or leave out.
StaticKept == \A p \in StaticPath :
    /\ path[StaticSlot[p]] = p
    /\ Content(payload[StaticSlot[p]]) = StaticContent[p]

(* What the server's promise needs of clients *)

\* A method and a path with which a body goes.
HasBody(r) ==
    \/ r.method = "PUT" /\ r.sized
    \/ r.method = "DELETE" /\ r.path \in DynamicPath

\* Clients whose requests the parser takes to their end: a body goes with
\* the methods that have one, and says its length.
GoodManners ==
    \A r \in Clean : (r.body # <<>> <=> HasBody(r)) /\ (r.body # <<>> => r.sized)

\* A request that stores something; clients that know the protocol's
\* version, and that give what they store under one path one length, which
\* fits into a row.
Puts(r) == r.method = "PUT" /\ r.sized /\ r.path \in DynamicPath

KnowVersion == \A r \in Clean : r.version

KeepLengths ==
    \A r, s \in Clean :
       Puts(r) /\ Puts(s) /\ r.path = s.path =>
          Len(r.body) = Len(s.body) /\ Len(r.body) <= Width

-----------------------------------------------------------------------------
\* With clients that finish what they begin and give every body and every
\* stored content its length, the server is one table on which requests
\* take effect once, in the order of their answers, with answers to match.
Store == INSTANCE ResourceStore WITH
    Request <- Clean, NoRequest <- None, NoReply <- None,
    table <- [p \in {path[i] : i \in Slot} \ {None} |->
                 Content(payload[CHOOSE i \in Slot : path[i] = p])],
    pending <- asked,
    answer <- got

ImplementsStore ==
    /\ polite => Store!Init
    /\ [][polite => Store!Next]_(Store!storeVars)

\* Clients that finish what they begin are all answered.
EveryRequestAnswered ==
    \A c \in Client : polite /\ phase[c] = "busy" ~> phase[c] # "busy"

\* "If the buffer ends with \r\n\r\n, there's a request and the server should
\* reply" (webserver.c:93): when the thread turns to the next connection,
\* no complete request is left in the buffer.
CompleteIsAnswered ==
    pc = "accept" => buffer = <<>> \/ Last(buffer) # Blank
=============================================================================
