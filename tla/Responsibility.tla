--------------------------- MODULE Responsibility ---------------------------
(* Which peer of a Chord ring a hash belongs to.  Peers and hashes are the *)
(* 16 bit identifiers of one circle; a peer is responsible for the arc     *)
(* that ends at its own identifier and starts behind its predecessor's.    *)
(* Project 2 and project 3 decide it with two functions that differ when a *)
(* peer is its own predecessor.                                            *)
EXTENDS Naturals

\* peer_is_responsible of project 2: an arc that does not ascend crosses
\* zero; with pred = peer it is the whole circle.
PeerIsResponsible(pred_id, peer_id, hash_id) ==
    \/ /\ pred_id < peer_id
       /\ pred_id < hash_id /\ hash_id <= peer_id
    \/ /\ ~(pred_id < peer_id)
       /\ pred_id < hash_id \/ hash_id <= peer_id

\* peer_is_responsible of project 3: only an arc that descends crosses
\* zero; with pred = peer it is empty.
PeerIsResponsibleP3(pred_id, peer_id, hash_id) ==
    \/ /\ pred_id > peer_id
       /\ pred_id < hash_id \/ hash_id <= peer_id
    \/ /\ ~(pred_id > peer_id)
       /\ pred_id < hash_id /\ hash_id <= peer_id
=============================================================================
