------------------------------ MODULE DhtStore ------------------------------
(* What the distributed hash table promises its clients: a single          *)
(* key-value store on which every request takes effect at most once, at    *)
(* one instant between its arrival and its answer.                         *)
(*                                                                         *)
(* A peer that cannot reach the responsible peer may close the client's    *)
(* connection; the request has then had no effect.                         *)
CONSTANTS
    Req,      \* client requests
    Key, Value,
    NoValue,  \* the value part of an answer that carries none
    None,     \* no command yet, no result yet
    Closed    \* the connection is closed without an answer

Cmd == [op: {"GET", "SET", "DEL"}, key: Key, val: Value]
Answer == [op: {"GET", "SET", "DEL"}, val: Value \cup {NoValue}]

VARIABLES
    kv,      \* the store
    call,    \* the command of each request
    result,  \* what executing it has produced
    reply    \* what the client has received

vars == <<kv, call, result, reply>>

\* The state of the store after a command, and the command's answer.
Effect(store, c) ==
    CASE c.op = "SET" -> [store EXCEPT ![c.key] = c.val]
      [] c.op = "DEL" -> [store EXCEPT ![c.key] = NoValue]
      [] OTHER -> store

AnswerTo(store, c) ==
    [op |-> c.op, val |-> IF c.op = "GET" THEN store[c.key] ELSE NoValue]

Init ==
    /\ kv = [k \in Key |-> NoValue]
    /\ call = [r \in Req |-> None]
    /\ result = [r \in Req |-> None]
    /\ reply = [r \in Req |-> None]

Invoke(r) ==
    /\ call[r] = None
    /\ \E c \in Cmd : call' = [call EXCEPT ![r] = c]
    /\ UNCHANGED <<kv, result, reply>>

\* The answer may reach the client in the same step or later.
Execute(r) ==
    /\ call[r] # None /\ result[r] = None /\ reply[r] = None
    /\ kv' = Effect(kv, call[r])
    /\ result' = [result EXCEPT ![r] = AnswerTo(kv, call[r])]
    /\ \/ reply' = [reply EXCEPT ![r] = result'[r]]
       \/ UNCHANGED reply
    /\ UNCHANGED call

Return(r) ==
    /\ result[r] # None /\ reply[r] = None
    /\ reply' = [reply EXCEPT ![r] = result[r]]
    /\ UNCHANGED <<kv, call, result>>

\* A request that had no effect is dropped: its connection is closed.
Refuse(r) ==
    /\ call[r] # None /\ result[r] = None /\ reply[r] = None
    /\ reply' = [reply EXCEPT ![r] = Closed]
    /\ UNCHANGED <<kv, call, result>>

Next == \E r \in Req : Invoke(r) \/ Execute(r) \/ Return(r) \/ Refuse(r)

Spec == Init /\ [][Next]_vars
=============================================================================
