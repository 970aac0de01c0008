------------------------------- MODULE Codecs -------------------------------
(***************************************************************************)
(* What the client reads from outside: the .torrent file first, and when   *)
(* one was accepted the bytes of a connection.                             *)
(***************************************************************************)
EXTENDS Metainfo, Wire

codecVars == <<fileVars, wireVars>>

(* The torrent that the connection is about. *)
Joined == torrent # NoTorrent /\ torrent.pieceCount = PieceCount

Init == FileInit /\ WireInit

Next ==
  \/ FileNext /\ UNCHANGED wireVars
  \/ Joined /\ WireNext /\ UNCHANGED fileVars

Spec == Init /\ [][Next]_codecVars
=============================================================================
