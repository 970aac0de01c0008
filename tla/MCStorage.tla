----------------------------- MODULE MCStorage -----------------------------
(* Storage with the constants of the model-checking run: a full piece and a
   shorter last one, with a byte among them that a hole of the file also has. *)
EXTENDS Storage, TLC

ThreeBytes == 0 :> 1 @@ 1 :> 0 @@ 2 :> 1
=============================================================================
