----------------------------- MODULE MCListener -----------------------------
(* Listener with the constants of the model-checking runs: two connections
   from one address and one each from two others, so that each of the two limits
   rejects a connection the other one would let in. *)
EXTENDS Listener, TLC

CONSTANTS k1, k2, k3, k4, near, far, other

ThreeHosts == k1 :> near @@ k2 :> near @@ k3 :> far @@ k4 :> other
=============================================================================
