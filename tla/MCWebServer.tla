---------------------------- MODULE MCWebServer ----------------------------
(* Two clients, one static and three dynamic paths, a table of three rows. *)
EXTENDS WebServer

CONSTANTS ca, cb, ps, pd, pe, pf

MCStaticSlot == [p \in {ps} |-> 1]
MCStaticContent == [p \in {ps} |-> <<ca>>]

Request(method, p, sized, body, version) ==
    [method |-> method, path |-> p, sized |-> sized, body |-> body, version |-> version]

Bare(method, p) == Request(method, p, FALSE, <<>>, TRUE)
With(method, p, body) == Request(method, p, TRUE, body, TRUE)

MCClean ==
    {Bare("GET", ps), Bare("GET", pd), Bare("PUT", pd), Bare("POST", pd),
     With("PUT", pd, <<ca, cb>>), With("PUT", pd, <<cb, ca>>), With("PUT", pe, <<cb, ca>>),
     With("PUT", ps, <<ca, cb>>), With("DELETE", pd, <<ca>>)}

MCRough ==
    {With("PUT", pd, <<ca, cb>>), With("PUT", pe, <<cb>>), With("PUT", pf, <<ca>>),
     With("DELETE", pd, <<ca, cb>>), Bare("DELETE", pd), With("DELETE", ps, <<ca>>),
     Request("PUT", pd, TRUE, <<ca>>, FALSE), Bare("OTHER", ps)}

\* For a comment of the code: a client that deletes without a body, and is
\* polite otherwise.
MCBare == {Bare("DELETE", pd), Bare("GET", ps)}

\* The polite clients of the runs are those of the theorems, but for MCBare.
ASSUME PoliteClean == Clean = MCBare \/ (GoodManners /\ KnowVersion /\ KeepLengths)
=============================================================================
