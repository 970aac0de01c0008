------------------------------- MODULE Swarm -------------------------------
(***************************************************************************)
(* The coordinator together with the connection goroutines that drive it   *)
(* (internal/download/worker.go: worker, serveIncoming, runConnection,     *)
(* applyCommand, handleMessage; piece.go for how a download can end).      *)
(*                                                                         *)
(* A connection is one goroutine.  It takes commands out of its channel    *)
(* and messages off the wire, and reports to the coordinator over an       *)
(* unbuffered channel: it is blocked until the event is received.  What    *)
(* leads to an event and the coordinator's handling of it are one step,    *)
(* because the goroutine touches nothing in between; where it has changed  *)
(* something first, or has a second event to report, next is the event it  *)
(* is blocked on, and it does nothing else until that is received.         *)
(* The remote peer is free to send anything at any time, and the           *)
(* connection can die between any two steps.  Each connection runs once; a *)
(* peer that comes back is another connection with the same address.       *)
(***************************************************************************)
EXTENDS Coordinator

CONSTANTS
  Bitfields,       \* the bitfields a peer may send
  Haves,           \* the pieces a peer may announce with a have message
  InterestedConns, \* connections whose peer may declare (dis)interest
  Interruptible    \* whether the context may be cancelled

ASSUME SwarmAssumption == /\ Bitfields \subseteq SUBSET Piece
                          /\ Haves \subseteq Piece
                          /\ InterestedConns \subseteq Conn
                          /\ Interruptible \in BOOLEAN

NoEvent == [type |-> "none", index |-> Idle]
Ready   == [type |-> "ready", index |-> Idle]
Left    == [type |-> "left", index |-> Idle]
Broken  == [type |-> "failed", index |-> Idle]
Have(i) == [type |-> "have", index |-> i]

VARIABLES
  stage,      \* "new", "running" (inside runConnection) or "closed"
  current,    \* the piece the connection is downloading, or Idle
  next,       \* the event it is blocked on, or NoEvent
  amChoking,  \* conn.AmChoking: the choke state last put on the wire
  shared      \* whether the coordinator's have is this connection's own slice

connVars == <<stage, current, next, amChoking, shared>>
allVars  == <<vars, connVars>>

Init ==
  /\ CoordInit
  /\ stage = [c \in Conn |-> "new"]
  /\ current = [c \in Conn |-> Idle]
  /\ next = [c \in Conn |-> NoEvent]
  /\ amChoking = [c \in Conn |-> TRUE]
  /\ shared = [c \in Conn |-> FALSE]

SwarmTypeOK ==
  /\ TypeOK
  /\ stage \in [Conn -> {"new", "running", "closed"}]
  /\ current \in [Conn -> Piece \cup {Idle}]
  /\ next \in [Conn -> {NoEvent, Ready, Left, Broken} \cup {Have(i) : i \in Piece}]
  /\ amChoking \in [Conn -> BOOLEAN]
  /\ shared \in [Conn -> BOOLEAN]

-----------------------------------------------------------------------------
Free(c) == stage[c] = "running" /\ next[c] = NoEvent

(* The slice behind have[a] is a new one, not written by any connection. *)
Unshare(a) == shared' = [d \in Conn |-> shared[d] /\ ConnAddr[d] # a]

(* runConnection begins with PeerJoined. *)
Join(c) ==
  /\ stage[c] = "new"
  /\ HandlePeerJoined(c)
  /\ stage' = [stage EXCEPT ![c] = "running"]
  /\ Unshare(ConnAddr[c])
  /\ UNCHANGED <<current, next, amChoking>>

(* A command read in the main loop of runConnection or, while a piece is in
   flight, in the select of downloadBlocks.  There an AssignPiece falls through
   to applyCommand, which has no case for it. *)
NowDownloading(c, cmd) ==
  IF cmd.type = "assign" /\ current[c] = Idle THEN cmd.index
  ELSE IF cmd = CancelPiece(current[c]) THEN Idle
  ELSE current[c]

(* A bug the model can show: commands other than a cancel are thrown away
   while a piece is in flight. *)
NowChokingMutant(c, cmd) ==
  IF current[c] # Idle THEN amChoking[c]
  ELSE IF cmd.type \in {"choke", "unchoke"} THEN cmd = ChokePeer
  ELSE amChoking[c]
NowChoking(c, cmd) ==
  IF cmd.type \in {"choke", "unchoke"} THEN cmd = ChokePeer ELSE amChoking[c]

ReadCommand(c) ==
  /\ Free(c)
  /\ TakeCommand(c)
  /\ current' = [current EXCEPT ![c] = NowDownloading(c, channel[c])]
  /\ next' = [next EXCEPT ![c] = IF channel[c] = CancelPiece(current[c])
                                 THEN Ready ELSE NoEvent]
  /\ amChoking' = [amChoking EXCEPT ![c] = NowChoking(c, channel[c])]
  /\ UNCHANGED <<stage, shared>>

(* SendChoke or SendUnchoke fails: amChoking stays as it was, and the connection
   is given up, with a PieceFailed to report first if a piece was in flight. *)
SendFails(c) ==
  /\ Free(c)
  /\ channel[c] \in {ChokePeer, UnchokePeer}
  /\ TakeCommand(c)
  /\ next' = [next EXCEPT ![c] = IF current[c] = Idle THEN Left ELSE Broken]
  /\ UNCHANGED <<stage, current, amChoking, shared>>

(* handleMessage: the messages that do no more than become an event. *)
ReadMessage(c) ==
  LET a == ConnAddr[c] IN
  /\ Free(c)
  /\ \/ HandleChokeReceived(a)
     \/ HandleUnchokeReceived(a)
     \/ /\ c \in InterestedConns
        /\ HandleInterestedReceived(a) \/ HandleNotInterestedReceived(a)
  /\ UNCHANGED connVars

(* A bitfield replaces conn.PeerBitfield.  If the coordinator accepts it, both
   use one slice; if not, the slice the coordinator holds is no longer the one
   this connection writes to. *)
ReadBitfield(c) ==
  LET a == ConnAddr[c] IN
  /\ Free(c)
  /\ \E bf \in Bitfields : HandleBitfieldReceived(a, bf)
  /\ shared' = [d \in Conn |->
       IF d = c THEN a \in peers /\ ~gotBitfield[a]
       ELSE shared[d] /\ (ConnAddr[d] = a => gotBitfield[a])]
  /\ UNCHANGED <<stage, current, next, amChoking>>

(* conn.PeerBitfield.SetPiece, and then HaveReceived. *)
ReadHave(c) ==
  /\ Free(c)
  /\ \E i \in Haves :
       /\ next' = [next EXCEPT ![c] = Have(i)]
       /\ \/ ~shared[c] /\ UNCHANGED vars
          \/ shared[c] /\ SharedBit(ConnAddr[c], i)
  /\ UNCHANGED <<stage, current, amChoking, shared>>

ReportHave(c) ==
  /\ stage[c] = "running"
  /\ next[c].type = "have"
  /\ HandleHaveReceived(ConnAddr[c], next[c].index)
  /\ next' = [next EXCEPT ![c] = NoEvent]
  /\ UNCHANGED <<stage, current, amChoking, shared>>

(* Every block arrived and the hash matches: PieceDownloaded, then PeerReady. *)
FinishPiece(c) ==
  /\ Free(c)
  /\ current[c] # Idle
  /\ HandlePieceDownloaded(ConnAddr[c], current[c])
  /\ current' = [current EXCEPT ![c] = Idle]
  /\ next' = [next EXCEPT ![c] = Ready]
  /\ UNCHANGED <<stage, amChoking, shared>>

ReportReady(c) ==
  /\ next[c] = Ready
  /\ HandlePeerReady(ConnAddr[c])
  /\ next' = [next EXCEPT ![c] = NoEvent]
  /\ UNCHANGED <<stage, current, amChoking, shared>>

(* Hash mismatch, pieceTimeout, malformed message, connection closed, command
   that could not be sent: the failure is reported and the connection given up. *)
FailPiece(c) ==
  /\ Free(c) \/ next[c] = Broken
  /\ current[c] # Idle
  /\ HandlePieceFailed(ConnAddr[c], current[c])
  /\ current' = [current EXCEPT ![c] = Idle]
  /\ next' = [next EXCEPT ![c] = Left]
  /\ UNCHANGED <<stage, amChoking, shared>>

(* The deferred PeerLeft: after a failed piece, or when the connection ends for
   another reason, a panic in the middle of a piece included. *)
Leave(c) ==
  /\ Free(c) \/ next[c] = Left
  /\ HandlePeerLeft(ConnAddr[c])
  /\ stage' = [stage EXCEPT ![c] = "closed"]
  /\ current' = [current EXCEPT ![c] = Idle]
  /\ next' = [next EXCEPT ![c] = NoEvent]
  /\ Unshare(ConnAddr[c])
  /\ UNCHANGED amChoking

(* Once the context is cancelled sendEvent may give up instead of sending, and
   so may the deferred PeerLeft; before PeerJoined there is nothing to undo. *)
Abandon(c) ==
  /\ ctxDone
  /\ stage[c] # "closed"
  /\ current' = [current EXCEPT ![c] = Idle]
  /\ \/ /\ stage[c] = "running" /\ next[c] # Left
        /\ next' = [next EXCEPT ![c] = Left]
        /\ UNCHANGED stage
     \/ /\ next' = [next EXCEPT ![c] = NoEvent]
        /\ stage' = [stage EXCEPT ![c] = "closed"]
  /\ UNCHANGED <<vars, amChoking, shared>>

(* The event a connection is blocked on is received. *)
Report(c) ==
  /\ next[c] # NoEvent
  /\ ReportHave(c) \/ ReportReady(c) \/ FailPiece(c) \/ Leave(c)

(* What the coordinator does on its own. *)
CoordinatorStep ==
  \/ Tick
  \/ \E a \in Addr : EndgameVisit(a) \/ OfferVisit(a)
  \/ \E best \in SUBSET Addr : RecalcChoke(best)
  \/ RotateOptimistic
  \/ DeliverResult \/ DropResult \/ Stop

Surroundings ==
  \/ TakeResult
  \/ Elapse
  \/ Interruptible /\ CancelContext

ConnectionStep(c) ==
  \/ Join(c) \/ ReadCommand(c) \/ SendFails(c) \/ ReadMessage(c)
  \/ ReadBitfield(c) \/ ReadHave(c) \/ ReportHave(c) \/ FinishPiece(c)
  \/ ReportReady(c) \/ FailPiece(c) \/ Leave(c) \/ Abandon(c)

Next ==
  \/ (CoordinatorStep \/ Surroundings) /\ UNCHANGED connVars
  \/ \E c \in Conn : ConnectionStep(c)

Spec == Init /\ [][Next]_allVars

(* Fairness.  The clock runs; the coordinator's goroutine is scheduled; its
   select picks at random among the ready cases, so neither a ticker, nor a
   cancelled context, nor a connection waiting to report is passed over for
   ever; a connection that is not blocked gets round to its channel, and to its
   context; the main loop takes results until the context is cancelled.
   Nothing is assumed of the remote peers: a download may never finish or
   fail, and nobody has to send anything. *)
CoordinatorFairness ==
  /\ SF_allVars(Tick /\ UNCHANGED connVars)
  /\ \A a \in Addr : WF_allVars((EndgameVisit(a) \/ OfferVisit(a)) /\ UNCHANGED connVars)
  /\ WF_allVars((DeliverResult \/ DropResult) /\ UNCHANGED connVars)
  /\ SF_allVars(Stop /\ UNCHANGED connVars)

Fairness ==
  /\ CoordinatorFairness
  /\ WF_allVars(Elapse /\ UNCHANGED connVars)
  /\ WF_allVars(~ctxDone /\ TakeResult /\ UNCHANGED connVars)
  /\ \A c \in Conn :
       /\ WF_allVars(ReadCommand(c) \/ SendFails(c))
       /\ SF_allVars(Report(c))
       /\ WF_allVars(Abandon(c))

FairSpec == Spec /\ Fairness

-----------------------------------------------------------------------------
(* Properties *)

(* "A slow peer's full command channel can never leave the coordinator's belief
   out of sync with what was actually sent" (architecture.md): what the
   coordinator records as the choke state of a peer is what the wire was last
   told, once the command still in the channel is counted, until the connection
   is being torn down. *)
InUse(c) == stage[c] = "running" /\ next[c] \notin {Left, Broken}
ChokeBeliefMatchesWire ==
  \A a \in peers :
    LET c == commands[a] IN
    InUse(c) =>
      choked[a] = IF channel[c] \in {ChokePeer, UnchokePeer}
                  THEN channel[c] = ChokePeer
                  ELSE amChoking[c]

(* While peers announce their pieces by bitfield alone, rarity is exact: what
   selectPieceFor compares is the number of registered peers that hold the
   piece, whatever joins, leaves and repeated bitfields came before. *)
Holders(i) == {a \in peers : i \in have[a]}
AvailabilityIsExact == \A i \in Piece : availability[i] = Cardinality(Holders(i))

(* Once every have is reported, each registered peer that holds a piece is
   counted (availability.go: "how many connected peers have each piece"). *)
EveryHolderIsCounted ==
  (\A c \in Conn : next[c].type # "have")
    => \A i \in Piece : availability[i] >= Cardinality(Holders(i))

(* No peer is parked: whoever counts as busy counts as idle again sooner or
   later, even if its connection never reports anything (assignmentTimeout). *)
BusyPeerIsFreed ==
  \A a \in Addr : assigned[a] # Idle ~> assigned[a] = Idle

(* "No single missed event can leave a peer parked forever" (coordinator.go,
   tryAssign): a peer that is idle, does not choke us and holds a missing piece
   does not stay that way. *)
CouldWork(a) ==
  /\ a \in peers /\ assigned[a] = Idle /\ ~peerChoking[a]
  /\ Wanted(have[a]) # {}
IdlePeerIsOffered ==
  \A a \in Addr : CouldWork(a) ~> ~CouldWork(a)

(* A cancelled context stops everything, even when the coordinator is blocked on
   a result nobody will take (coordinator.go: "It blocks until ctx is
   cancelled"; worker.go, sendEvent). *)
CancellationStopsEverything ==
  ctxDone ~> phase = "stopped" /\ \A c \in Conn : stage[c] = "closed"

=============================================================================
