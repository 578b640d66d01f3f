--------------------------- MODULE MCDynamicTable ---------------------------
(* JoinRing and DynamicTable on a circle of eight identifiers.  The        *)
(* distances are those of two of the fingers, 2^0 and 2^2.                 *)
EXTENDS DynamicTable

MCPeer == {1, 3, 4, 6}
ThreePeer == {1, 3, 6}
MCSteps == {1, 4}

Way(started, fngr, overlap, prompt, asks) ==
    [started |-> started, fingers |-> fngr, overlap |-> overlap,
     prompt |-> prompt, asks |-> asks]

\* Four peers one after the other, with a FINGER packet; three in any way,
\* with a FINGER packet; three one after the other, with two requests of
\* clients at any moment.
MCSetting ==
    {Way(MCPeer, {6}, FALSE, TRUE, FALSE),
     Way(ThreePeer, {6}, TRUE, FALSE, FALSE),
     Way(ThreePeer, {}, FALSE, TRUE, TRUE)}

\* One key.  Its hash belongs to 6, before that one joins to 1.  What 3 is
\* asked for it serves or passes on, what 1 is asked it looks up.
MCHash == [k \in Key |-> 5]

Ask(p, op) == {<<p, c>> : c \in {d \in Cmd : d.op = op}}
MCAsked == Ask(3, "SET") \cup Ask(3, "DEL") \cup Ask(1, "GET")

Symmetry == Permutations(Req)

\* The theorems' hypotheses on the settings hold for these.
ASSUME SettingsAreOrderly == OrderlySettings /\ AskedSettings
=============================================================================
