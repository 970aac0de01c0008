----------------------------- MODULE MCAnnounce -----------------------------
(* Announce with the constants of the model-checking run: a tracker that cannot
   be asked, and two that answer now and then. *)
EXTENDS Announce

CONSTANTS p1, p2

ThreeTrackers == <<"udp", "http", "http">>
BothKnown     == [k \in 1 .. 3 |-> {p1, p2}]
=============================================================================
