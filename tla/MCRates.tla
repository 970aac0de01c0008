------------------------------ MODULE MCRates ------------------------------
(* Rates with the constants of the model-checking runs. *)
EXTENDS Rates, TLC

CONSTANTS a1, c1, c2

SharedAddress == c1 :> a1 @@ c2 :> a1   \* a peer we dialed also dialed us

ConnSymmetry == Permutations(Conn)
=============================================================================
