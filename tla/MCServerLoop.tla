---------------------------- MODULE MCServerLoop ----------------------------
(* ServerLoop with a client whose request is looked up, one that is served *)
(* at once, the REPLY for the lookup and the NOTIFY of a second thread.    *)
EXTENDS ServerLoop

MCKind == "a1" :> "ASK" @@ "o1" :> "OWN"
          @@ "r1" :> "RPLY" @@ "s1" :> "NTFY"

Way(made, impatient) == [made |-> made, impatient |-> impatient]

\* Three clients that wait, or a client that hangs up beside the second
\* thread.
MCSetting == {Way({"a1", "o1", "r1"}, {}), Way({"a1", "r1", "s1"}, {"a1"})}
MCThread == {Way({"o1", "s1"}, {})}
=============================================================================
