----------------------------- MODULE PieceStore -----------------------------
(***************************************************************************)
(* What the client promises of the pieces it keeps, however it keeps them: *)
(* pieces that a crash cannot take away any more are found again by every  *)
(* later session, and a session flushes what it has from time to time.     *)
(* Storage.tla implements this.                                            *)
(***************************************************************************)
CONSTANT Piece

VARIABLES
  up,       \* whether a session is running
  have,     \* the pieces the session offers
  durable   \* the pieces that no crash can take away

storeVars == <<up, have, durable>>

Init ==
  /\ up = FALSE
  /\ have = {}
  /\ durable \in SUBSET Piece

(* A session starts: resume finds at least what is durable. *)
Open ==
  /\ ~up /\ up' = TRUE
  /\ have' \in SUBSET Piece
  /\ durable \subseteq have'
  /\ UNCHANGED durable

Add ==
  /\ up
  /\ \E i \in Piece : have' = have \cup {i}
  /\ UNCHANGED <<up, durable>>

(* Everything the session has is flushed; the session may end with it. *)
Flush ==
  /\ up
  /\ durable' = durable \cup have
  /\ \/ UNCHANGED <<up, have>>
     \/ up' = FALSE /\ have' = {}

(* The session ends in any other way.  By luck more has become durable. *)
Crash ==
  /\ up' = FALSE
  /\ have' = {}
  /\ durable' \in SUBSET Piece
  /\ durable \subseteq durable'

Next == Open \/ Add \/ Flush \/ Crash

Spec == Init /\ [][Next]_storeVars
=============================================================================
