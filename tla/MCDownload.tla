----------------------------- MODULE MCDownload -----------------------------
(* Download with the constants of the model-checking runs. *)
EXTENDS Download, TLC

CONSTANTS a1, a2, c1, c2

OnePeer       == c1 :> a1
SharedAddress == c1 :> a1 @@ c2 :> a1
Seeds         == {Piece}
=============================================================================
