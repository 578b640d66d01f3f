---------------------------- MODULE MCStaticRing ----------------------------
(* StaticRing on a ring of three peers; the arc of peer 1 crosses zero.    *)
EXTENDS StaticRing, TLC

MCPeer == {1, 3, 6}
MCSucc == 1 :> 3 @@ 3 :> 6 @@ 6 :> 1
MCPred == 3 :> 1 @@ 6 :> 3 @@ 1 :> 6

\* Ring of two peers.
TwoPeer == {2, 5}
TwoNext == 2 :> 5 @@ 5 :> 2

\* ka and kb collide; kz lies behind the highest identifier.
MCHash == "ka" :> 3 @@ "kb" :> 3 @@ "kz" :> 7 @@ "kc" :> 5
MCHashThree == "ka" :> 3 @@ "kb" :> 3 @@ "kz" :> 7
MCHashTwo == "ka" :> 2 @@ "kc" :> 3

\* The requests are interchangeable.
ReqSymmetry == Permutations(Req)
=============================================================================
