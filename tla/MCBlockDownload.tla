-------------------------- MODULE MCBlockDownload --------------------------
(* BlockDownload with the constants of the model-checking runs. *)
EXTENDS BlockDownload, TLC

(* Two pieces of three blocks, the last of them short. *)
EqualLengths == 0 :> 5 @@ 1 :> 5

(* An honest connection has time for a second download; with a faulty one, one
   download shows every message. *)
Downloads == FALSE :> 2 @@ TRUE :> 1
OnTheWire == FALSE :> 3 @@ TRUE :> 2

(* A repeated block, one with wrong bytes, one that is not aligned, one that is
   too short, one of another piece, one past the end, one of no piece. *)
AnyJunk == { PieceMsg(0, 0, 2, TRUE), PieceMsg(0, 2, 2, FALSE),
             PieceMsg(0, 1, 2, TRUE), PieceMsg(0, 4, 0, TRUE),
             PieceMsg(1, 0, 2, TRUE), PieceMsg(0, 4, 2, TRUE),
             PieceMsg(2, 0, 2, TRUE) }
=============================================================================
