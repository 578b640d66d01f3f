----------------------------- MODULE MCJoinRing -----------------------------
(* JoinRing on a circle of eight identifiers, without clients.             *)
EXTENDS JoinRing

MCPeer == {1, 3, 4, 6}

Way(started, overlap) ==
    [started |-> started, fingers |-> {}, overlap |-> overlap, prompt |-> TRUE, asks |-> FALSE]

\* Four peers one after the other; three in any overlap.
OneByOne == {Way(MCPeer, FALSE)}
Together == {Way({1, 3, 6}, TRUE)}

\* The theorems' hypothesis on the settings holds for these.
ASSUME SettingsAreOrderly == OrderlySettings
=============================================================================
