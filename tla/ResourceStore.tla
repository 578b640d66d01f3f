---------------------------- MODULE ResourceStore ----------------------------
(* What a web server with static and dynamic resources promises: every     *)
(* request takes effect once, between its beginning and its answer, on one *)
(* table of resources.                                                     *)
EXTENDS Naturals

CONSTANTS
    Client, Request, NoRequest, NoReply,
    StaticPath, DynamicPath, StaticContent

VARIABLES
    table,     \* what is stored, from path to content
    pending,   \* the request a client waits for
    answer     \* the answer it has got

storeVars == <<table, pending, answer>>

Init ==
    /\ table = [p \in StaticPath |-> StaticContent[p]]
    /\ pending = [c \in Client |-> NoRequest]
    /\ answer = [c \in Client |-> NoReply]

Reply(status, content) == [status |-> status, content |-> content]

Status(r) ==
    CASE r.method = "GET" -> IF r.path \in DOMAIN table THEN 200 ELSE 404
      [] r.method \in {"PUT", "POST"} /\ ~r.sized -> 400
      [] r.method = "POST" /\ r.sized -> 501
      [] r.method = "OTHER" -> 501
      [] r.method = "PUT" /\ r.sized /\ r.path \notin DynamicPath -> 403
      [] r.method = "PUT" /\ r.sized /\ r.path \in DynamicPath ->
            IF r.path \in DOMAIN table THEN 200 ELSE 201
      [] r.method = "DELETE" /\ r.path \notin DynamicPath -> 403
      [] r.method = "DELETE" /\ r.path \in DynamicPath ->
            IF r.path \in DOMAIN table THEN 200 ELSE 404

Succeeds(r) == Status(r) \in {200, 201}

After(r) ==
    IF r.method = "PUT" /\ Succeeds(r)
    THEN [p \in DOMAIN table \cup {r.path} |-> IF p = r.path THEN r.body ELSE table[p]]
    ELSE IF r.method = "DELETE" /\ Succeeds(r)
    THEN [p \in DOMAIN table \ {r.path} |-> table[p]]
    ELSE table

Ask(c, r) ==
    /\ pending[c] = NoRequest
    /\ pending' = [pending EXCEPT ![c] = r]
    /\ answer' = [answer EXCEPT ![c] = NoReply]
    /\ UNCHANGED table

Serve(c) ==
    /\ pending[c] # NoRequest
    /\ LET r == pending[c]
           content == IF r.method = "GET" /\ Succeeds(r) THEN table[r.path] ELSE <<>>
       IN answer' = [answer EXCEPT ![c] = Reply(Status(r), content)]
    /\ table' = After(pending[c])
    /\ pending' = [pending EXCEPT ![c] = NoRequest]

Next == \E c \in Client : Serve(c) \/ \E r \in Request : Ask(c, r)

Spec == Init /\ [][Next]_storeVars
=============================================================================
