----------------------------- MODULE OwnedStore -----------------------------
(* What the table of project 3 promises while peers join and end: a single *)
(* key-value store on which every request takes effect at most once, at    *)
(* one instant behind its arrival.  Each key has one owner or none, and a  *)
(* key that changes its owner is lost with its value: nothing is handed    *)
(* over, and nothing that was lost comes back.                             *)
CONSTANTS
    Req, Cmd, Key, Peer,
    Nobody,   \* the owner of a key that nobody is responsible for
    NoValue,
    None,     \* no command yet, no result yet, no reply yet
    Broken    \* how a connection can end without an answer

VARIABLES
    owner,   \* the peer each key belongs to
    kv,      \* the store
    call,    \* the command of each request
    result,  \* what executing it has produced
    reply    \* what the client has received

vars == <<owner, kv, call, result, reply>>

\* The state of the store after a command, and the command's answer: GET and
\* DEL are acknowledged where there was a value.
Effect(store, c) ==
    CASE c.op = "SET" -> [store EXCEPT ![c.key] = c.val]
      [] c.op = "DEL" -> [store EXCEPT ![c.key] = NoValue]
      [] OTHER -> store

AnswerTo(store, c) ==
    [op |-> c.op, ack |-> c.op = "SET" \/ store[c.key] # NoValue,
     val |-> IF c.op = "GET" THEN store[c.key] ELSE NoValue]

Init ==
    /\ owner = [k \in Key |-> Nobody]
    /\ kv = [k \in Key |-> NoValue]
    /\ call = [r \in Req |-> None]
    /\ result = [r \in Req |-> None]
    /\ reply = [r \in Req |-> None]

Invoke(r) ==
    /\ call[r] = None
    /\ \E c \in Cmd : call' = [call EXCEPT ![r] = c]
    /\ UNCHANGED <<owner, kv, result, reply>>

\* The answer may reach the client in the same step, later or never.
Execute(r) ==
    /\ call[r] # None /\ result[r] = None
    /\ owner[call[r].key] # Nobody
    /\ kv' = Effect(kv, call[r])
    /\ result' = [result EXCEPT ![r] = AnswerTo(kv, call[r])]
    /\ \/ reply[r] = None /\ reply' = [reply EXCEPT ![r] = result'[r]]
       \/ UNCHANGED reply
    /\ UNCHANGED <<owner, call>>

Return(r) ==
    /\ result[r] # None /\ reply[r] = None
    /\ reply' = [reply EXCEPT ![r] = result[r]]
    /\ UNCHANGED <<owner, kv, call, result>>

\* The peers of the ring change; with a peer that ends, the connections of
\* the requests that waited for it.
Change ==
    /\ owner' \in [Key -> Peer \cup {Nobody}]
    /\ kv' = [k \in Key |-> IF owner'[k] = owner[k] THEN kv[k] ELSE NoValue]
    /\ \A r \in Req :
         \/ reply'[r] = reply[r]
         \/ call[r] # None /\ reply[r] = None /\ reply'[r] \in Broken
    /\ DOMAIN reply' = Req
    /\ UNCHANGED <<call, result>>

Next == Change \/ \E r \in Req : Invoke(r) \/ Execute(r) \/ Return(r)

Spec == Init /\ [][Next]_vars
=============================================================================
