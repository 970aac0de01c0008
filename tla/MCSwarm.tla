------------------------------ MODULE MCSwarm ------------------------------
(* Swarm with the constants of the model-checking runs. *)
EXTENDS Swarm, TLC

CONSTANTS a1, a2, c1, c2

OnePeer       == c1 :> a1
TwoPeers      == c1 :> a1 @@ c2 :> a2
SharedAddress == c1 :> a1 @@ c2 :> a1   \* a peer we dialed also dialed us

(* Peers, each an address with its connections, are interchangeable. *)
PeerSymmetry ==
  {p \in Permutations(Addr \cup Conn) :
     \A c \in Conn : p[c] \in Conn /\ ConnAddr[p[c]] = p[ConnAddr[c]]}

Seeds           == {Piece}
Leeches         == {{}}
SeedsAndLeeches == {Piece, {}}
=============================================================================
