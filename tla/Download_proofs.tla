-------------------------- MODULE Download_proofs --------------------------
(***************************************************************************)
(* The composed system.  First Swarm: the coordinator with its connection  *)
(* goroutines is a coordinator with some environment, so what is proved of *)
(* Coordinator holds in it, and more about chokes and rarity.  Then        *)
(* Download: the client as a whole implements the swarm with free          *)
(* surroundings, and loses no piece.  For any number of peers, connections *)
(* and pieces.                                                             *)
(***************************************************************************)
EXTENDS Download, Coordinator_proofs, FiniteSetTheorems

-----------------------------------------------------------------------------
(* Swarm *)

ConnTypes ==
  /\ stage \in [Conn -> {"new", "running", "closed"}]
  /\ current \in [Conn -> Piece \cup {Idle}]
  /\ next \in [Conn -> {NoEvent, Ready, Left, Broken} \cup {Have(i) : i \in Piece}]
  /\ amChoking \in [Conn -> BOOLEAN]
  /\ shared \in [Conn -> BOOLEAN]

SwarmInv == AssignmentInv /\ ConnTypes

(* A step of a connection is, for the coordinator, the handling of one event,
   a command taken, a bit set in a shared bitfield, or nothing. *)
LEMMA ConnectionStepImplements ==
  ASSUME ConnTypes, NEW c \in Conn, ConnectionStep(c)
  PROVE  [CoordNext]_vars
<1> DEFINE a == ConnAddr[c]
<1>0. a \in Addr
  BY ConnAddrAssumption
<1>1. CASE Join(c)
  BY <1>1 DEF Join, CoordNext
<1>2. CASE ReadCommand(c) \/ SendFails(c)
  BY <1>2 DEF ReadCommand, SendFails, CoordNext
<1>3. CASE ReadMessage(c)
  BY <1>0, <1>3 DEF ReadMessage, CoordNext
<1>4. CASE ReadBitfield(c)
  BY <1>0, <1>4, SwarmAssumption DEF ReadBitfield, CoordNext
<1>5. CASE ReadHave(c)
  BY <1>0, <1>5, SwarmAssumption DEF ReadHave, CoordNext
<1>6. CASE ReportHave(c)
  <2>1. next[c].index \in Piece
    BY <1>6 DEF ReportHave, ConnTypes, NoEvent, Ready, Left, Broken, Have
  <2> QED  BY <1>0, <1>6, <2>1 DEF ReportHave, CoordNext
<1>7. CASE FinishPiece(c) \/ FailPiece(c)
  <2>1. current[c] \in Piece
    BY <1>7 DEF FinishPiece, FailPiece, ConnTypes
  <2> QED  BY <1>0, <1>7, <2>1 DEF FinishPiece, FailPiece, CoordNext
<1>8. CASE ReportReady(c) \/ Leave(c)
  BY <1>0, <1>8 DEF ReportReady, Leave, CoordNext
<1>9. CASE Abandon(c)
  BY <1>9 DEF Abandon
<1> QED
  BY <1>1, <1>2, <1>3, <1>4, <1>5, <1>6, <1>7, <1>8, <1>9 DEF ConnectionStep

(* A step of the swarm is a step of the coordinator or changes none of its state. *)
LEMMA StepImplements ==
  ASSUME ConnTypes, [Next]_allVars
  PROVE  [CoordNext]_vars
<1>1. CASE CoordinatorStep \/ Surroundings
  BY <1>1 DEF CoordinatorStep, Surroundings, CoordNext
<1>2. ASSUME NEW c \in Conn, ConnectionStep(c)  PROVE [CoordNext]_vars
  BY <1>2, ConnectionStepImplements
<1>3. CASE UNCHANGED allVars
  BY <1>3 DEF allVars
<1> QED  BY <1>1, <1>2, <1>3 DEF Next

(* A command that is an assignment names a piece. *)
LEMMA CommandIndex ==
  ASSUME TypeOK, NEW c \in Conn, channel[c].type = "assign"
  PROVE  channel[c].index \in Piece
<1>1. channel[c] \in Command \cup {NoCommand}
  BY DEF TypeOK
<1>2. channel[c] # NoCommand /\ channel[c] # ChokePeer /\ channel[c] # UnchokePeer
  BY DEF NoCommand, ChokePeer, UnchokePeer
<1>3. PICK i \in Piece : channel[c] = AssignPiece(i) \/ channel[c] = CancelPiece(i)
  BY <1>1, <1>2 DEF Command
<1> QED  BY <1>3 DEF AssignPiece, CancelPiece

(* A step of the swarm keeps the state of the connections well typed. *)
LEMMA ConnTypesStep ==
  ASSUME TypeOK, ConnTypes,
         UNCHANGED connVars \/ \E c \in Conn : ConnectionStep(c)
  PROVE  ConnTypes'
<1>1. CASE UNCHANGED connVars
  BY <1>1 DEF ConnTypes, connVars
<1>2. ASSUME NEW c \in Conn, ConnectionStep(c)  PROVE ConnTypes'
  <2>1. CASE Join(c)
    BY <2>1 DEF Join, Unshare, ConnTypes
  <2>2. CASE ReadCommand(c)
    <3>1. current' \in [Conn -> Piece \cup {Idle}]
      <4>1. NowDownloading(c, channel[c]) \in Piece \cup {Idle}
        BY CommandIndex DEF NowDownloading, ConnTypes
      <4> QED  BY <2>2, <4>1 DEF ReadCommand, ConnTypes
    <3>2. amChoking' \in [Conn -> BOOLEAN]
      BY <2>2 DEF ReadCommand, NowChoking, ConnTypes
    <3> QED  BY <2>2, <3>1, <3>2 DEF ReadCommand, ConnTypes
  <2>3. CASE ReadMessage(c)
    BY <2>3 DEF ReadMessage, ConnTypes, connVars
  <2>4. CASE ReadBitfield(c)
    <3>1. gotBitfield \in [Addr -> BOOLEAN]
      BY DEF TypeOK
    <3> QED  BY <2>4, <3>1, ConnAddrAssumption DEF ReadBitfield, ConnTypes
  <2>5. CASE ReadHave(c)
    BY <2>5, SwarmAssumption DEF ReadHave, ConnTypes
  <2>6. CASE ReportHave(c) \/ ReportReady(c)
    BY <2>6 DEF ReportHave, ReportReady, ConnTypes
  <2>7. CASE FinishPiece(c) \/ FailPiece(c)
    BY <2>7 DEF FinishPiece, FailPiece, ConnTypes
  <2>8. CASE Leave(c)
    BY <2>8 DEF Leave, Unshare, ConnTypes
  <2>9. CASE Abandon(c)
    BY <2>9 DEF Abandon, ConnTypes
  <2>10. CASE SendFails(c)
    BY <2>10 DEF SendFails, ConnTypes
  <2> QED
    BY <1>2, <2>1, <2>2, <2>3, <2>4, <2>5, <2>6, <2>7, <2>8, <2>9, <2>10
       DEF ConnectionStep
<1> QED  BY <1>1, <1>2

(* The coordinator's invariant and the connections' types, together. *)
LEMMA SwarmInvariant == Spec => []SwarmInv
<1>1. Init => SwarmInv
  <2>1. Init => AssignmentInv
    BY InitEstablishesInv DEF Init
  <2>2. Init => ConnTypes
    BY DEF Init, ConnTypes
  <2> QED  BY <2>1, <2>2 DEF SwarmInv
<1>2. SwarmInv /\ [Next]_allVars => SwarmInv'
  <2> SUFFICES ASSUME SwarmInv, [Next]_allVars PROVE SwarmInv'
    OBVIOUS
  <2>1. TypeOK /\ ConnTypes /\ AssignmentInv
    BY DEF SwarmInv, AssignmentInv
  <2>2. [CoordNext]_vars
    BY <2>1, StepImplements
  <2>3. AssignmentInv'
    BY <2>1, <2>2, NextKeepsInv
  <2>4. ConnTypes'
    BY <2>1, ConnTypesStep DEF Next, allVars
  <2> QED  BY <2>3, <2>4 DEF SwarmInv
<1> QED  BY <1>1, <1>2, PTL DEF Spec

(* The swarm implements the coordinator: every step of the connection
   goroutines of worker.go is one the coordinator's specification allows its
   environment, so every theorem about CoordSpec is one about the swarm. *)
THEOREM SwarmImplementsCoordinator == Spec => CoordSpec
<1>1. Init => CoordInit
  BY DEF Init
<1>2. SwarmInv /\ [Next]_allVars => [CoordNext]_vars
  BY StepImplements DEF SwarmInv
<1> QED  BY <1>1, <1>2, SwarmInvariant, PTL DEF Spec, CoordSpec

(* Type correctness of the composed system. *)
THEOREM SwarmTypes == Spec => []SwarmTypeOK
<1>1. SwarmInv => SwarmTypeOK
  BY DEF SwarmInv, AssignmentInv, ConnTypes, SwarmTypeOK
<1> QED  BY <1>1, SwarmInvariant, PTL

(* In the composed system no peer is busy without an entry that can time out,
   and no piece in flight without an assignee (coordinator.go, worker.go). *)
THEOREM SwarmBoardIsConsistent ==
  Spec => [](BusyPeerIsListed /\ InFlightIffAssigned /\ OneAssigneeBeforeEndgame)
<1>1. SwarmInv => BusyPeerIsListed /\ InFlightIffAssigned /\ OneAssigneeBeforeEndgame
  BY DEF SwarmInv, AssignmentInv
<1> QED  BY <1>1, SwarmInvariant, PTL

-----------------------------------------------------------------------------
(* What the coordinator believes to have told its peers.  A step of the
   coordinator either leaves its record of the choke states alone, and puts no
   choke or unchoke into a channel, or runs setChoked for some of its peers. *)
QuietStep ==
  /\ UNCHANGED <<peers, commands, choked>>
  /\ \A c \in Conn : \/ channel'[c] = channel[c]
                     \/ /\ channel[c] = NoCommand
                        /\ channel'[c] \notin {ChokePeer, UnchokePeer}

ChokeStep ==
  /\ UNCHANGED <<peers, commands>>
  /\ \E S \in SUBSET peers, want \in [Addr -> BOOLEAN] : SetChoked(S, want)

(* The commands differ from one another. *)
LEMMA CommandsDiffer ==
  /\ ChokePeer # UnchokePeer
  /\ NoCommand \notin {ChokePeer, UnchokePeer}
  /\ \A i \in Piece : AssignPiece(i) \notin {ChokePeer, UnchokePeer}
  /\ \A i \in Piece : CancelPiece(i) \notin {ChokePeer, UnchokePeer}
BY DEF ChokePeer, UnchokePeer, NoCommand, AssignPiece, CancelPiece

(* Handing out work tells nobody about choking. *)
LEMMA BoardStepIsQuiet ==
  ASSUME TypeOK, NEW a, BoardStep(a), UNCHANGED <<peers, commands, choked>>
  PROVE  QuietStep
<1>1. CASE UNCHANGED board
  BY <1>1 DEF board, QuietStep
<1>2. ASSUME NEW i \in Piece, Assigns(a, i)  PROVE QuietStep
  BY <1>2, CommandsDiffer DEF Assigns, QuietStep, TypeOK
<1> QED  BY <1>1, <1>2 DEF BoardStep

(* The events that may hand out work are board steps. *)
LEMMA WorkIsBoardStep ==
  ASSUME AssignmentInv, NEW a \in Addr,
         \/ HandlePeerReady(a) \/ HandleUnchokeReceived(a)
         \/ \E bf \in SUBSET Piece : HandleBitfieldReceived(a, bf)
         \/ \E i \in Piece : HandleHaveReceived(a, i)
         \/ EndgameVisit(a) \/ OfferVisit(a)
  PROVE  BoardStep(a)
<1>1. TypeOK /\ endgame \in BOOLEAN /\ have[a] \in SUBSET Piece
  BY DEF AssignmentInv, TypeOK
<1>2. CASE HandlePeerReady(a)
  BY <1>1, <1>2, TryAssignStep DEF HandlePeerReady, BoardStep
<1>3. CASE HandleUnchokeReceived(a)
  BY <1>1, <1>3, TryAssignStep DEF HandleUnchokeReceived, BoardStep
<1>4. ASSUME NEW bf \in SUBSET Piece, HandleBitfieldReceived(a, bf)
      PROVE  BoardStep(a)
  BY <1>1, <1>4, TryAssignStep DEF HandleBitfieldReceived, BoardStep
<1>5. ASSUME NEW i \in Piece, HandleHaveReceived(a, i)  PROVE BoardStep(a)
  <2>1. have[a] \cup {i} \in SUBSET Piece
    BY <1>1
  <2> QED  BY <1>1, <1>5, <2>1, TryAssignStep DEF HandleHaveReceived, BoardStep
<1>6. CASE EndgameVisit(a)
  <2>1. endgame
    BY <1>6 DEF EndgameVisit, AssignmentInv, LoopStateIsConsistent
  <2> QED  BY <1>1, <1>6, <2>1, AssignAnyMissingStep DEF EndgameVisit
<1>7. CASE OfferVisit(a)
  BY <1>1, <1>7, TryAssignStep DEF OfferVisit
<1> QED  BY <1>2, <1>3, <1>4, <1>5, <1>6, <1>7

(* They tell nobody about choking. *)
LEMMA WorkIsQuiet ==
  ASSUME AssignmentInv, NEW a \in Addr,
         \/ HandlePeerReady(a) \/ HandleUnchokeReceived(a)
         \/ \E bf \in SUBSET Piece : HandleBitfieldReceived(a, bf)
         \/ \E i \in Piece : HandleHaveReceived(a, i)
         \/ EndgameVisit(a) \/ OfferVisit(a)
  PROVE  QuietStep
<1>1. UNCHANGED <<peers, commands, choked>>
  BY DEF HandlePeerReady, HandleUnchokeReceived, HandleBitfieldReceived,
         HandleHaveReceived, EndgameVisit, OfferVisit, chokeVars
<1> QED  BY <1>1, WorkIsBoardStep, BoardStepIsQuiet DEF AssignmentInv

(* The events that change neither peers nor choke states nor the channels, but
   for the cancels that a finished piece sends into empty ones. *)
LEMMA RestIsQuiet ==
  ASSUME TypeOK,
         \/ \E a \in Addr : \/ HandleChokeReceived(a) \/ HandleInterestedReceived(a)
                            \/ \E i \in Piece : \/ HandlePieceDownloaded(a, i)
                                                \/ HandlePieceFailed(a, i)
                                                \/ SharedBit(a, i)
         \/ Tick \/ DeliverResult \/ DropResult \/ Stop
         \/ TakeResult \/ Elapse \/ CancelContext
         \/ UNCHANGED vars
  PROVE  QuietStep
<1>1. UNCHANGED <<peers, commands, choked>>
  BY DEF HandleChokeReceived, HandleInterestedReceived, HandlePieceDownloaded,
         HandlePieceFailed, SharedBit, Tick, DeliverResult, DropResult, Stop,
         TakeResult, Elapse, CancelContext, vars, peerVars, chokeVars
<1>2. ASSUME NEW a \in Addr, NEW i \in Piece, HandlePieceDownloaded(a, i)
      PROVE  QuietStep
  BY <1>1, <1>2, CommandsDiffer DEF HandlePieceDownloaded, QuietStep, board
<1>3. CASE channel' = channel
  BY <1>1, <1>3 DEF QuietStep
<1> QED
  BY <1>2, <1>3 DEF HandleChokeReceived, HandleInterestedReceived,
     HandlePieceFailed, SharedBit, Tick, DeliverResult, DropResult, Stop,
     TakeResult, Elapse, CancelContext, vars

(* The steps that run setChoked. *)
LEMMA ChokingIsChokeStep ==
  ASSUME TypeOK,
         \/ \E a \in Addr : HandleNotInterestedReceived(a)
         \/ \E best \in SUBSET Addr : RecalcChoke(best)
         \/ RotateOptimistic
  PROVE  ChokeStep
<1>1. UNCHANGED <<peers, commands>>
  BY DEF HandleNotInterestedReceived, RecalcChoke, RotateOptimistic, peerVars
<1>2. \E S \in SUBSET peers, want \in [Addr -> BOOLEAN] : SetChoked(S, want)
  <2>1. ASSUME NEW a \in Addr, HandleNotInterestedReceived(a)
        PROVE  \E S \in SUBSET peers, want \in [Addr -> BOOLEAN] : SetChoked(S, want)
    <3>1. SetChoked({a} \cap peers, [b \in Addr |-> TRUE])
      BY <2>1 DEF HandleNotInterestedReceived
    <3>2. {a} \cap peers \in SUBSET peers /\ [b \in Addr |-> TRUE] \in [Addr -> BOOLEAN]
      OBVIOUS
    <3> QED  BY <3>1, <3>2
  <2>2. ASSUME NEW best \in SUBSET Addr, RecalcChoke(best)
        PROVE  \E S \in SUBSET peers, want \in [Addr -> BOOLEAN] : SetChoked(S, want)
    BY <2>2 DEF RecalcChoke
  <2>3. CASE RotateOptimistic
    BY <2>3 DEF RotateOptimistic, Candidates
  <2> QED  BY <2>1, <2>2, <2>3
<1> QED  BY <1>1, <1>2 DEF ChokeStep

(* Neither kind of step separates what the coordinator believes from what the
   wire was told, as long as no connection starts or reads a command in it. *)
LEMMA BeliefKept ==
  ASSUME AssignmentInv, ConnTypes, ChokeBeliefMatchesWire,
         QuietStep \/ ChokeStep, amChoking' = amChoking,
         \A c \in Conn : InUse(c)' => InUse(c)
  PROVE  ChokeBeliefMatchesWire'
<1> SUFFICES ASSUME NEW a \in peers', InUse(commands[a])'
             PROVE  choked'[a] = IF channel'[commands'[a]] \in {ChokePeer, UnchokePeer}
                                 THEN channel'[commands'[a]] = ChokePeer
                                 ELSE amChoking'[commands'[a]]
  BY DEF ChokeBeliefMatchesWire
<1> DEFINE c == commands[a]
<1>1. a \in peers /\ commands' = commands
  BY DEF QuietStep, ChokeStep
<1>2. a \in Addr /\ c \in Conn /\ ConnAddr[c] = a /\ InUse(c)
  BY <1>1 DEF AssignmentInv, RegisteredPeerIsReachable, TypeOK, InUse
<1>3. choked[a] = IF channel[c] \in {ChokePeer, UnchokePeer}
                  THEN channel[c] = ChokePeer ELSE amChoking[c]
  BY <1>1, <1>2 DEF ChokeBeliefMatchesWire
<1>4. CASE QuietStep
  BY <1>1, <1>2, <1>3, <1>4, CommandsDiffer DEF QuietStep
<1>5. CASE ChokeStep
  <2>1. PICK S \in SUBSET peers, want \in [Addr -> BOOLEAN] : SetChoked(S, want)
    BY <1>5 DEF ChokeStep
  <2>2. choked'[a] = IF a \in S /\ CanTell(a, want[a]) THEN want[a] ELSE choked[a]
    BY <1>2, <2>1 DEF SetChoked, Belief
  <2>3. channel'[c] = IF a \in S /\ CanTell(a, want[a])
                      THEN IF want[a] THEN ChokePeer ELSE UnchokePeer
                      ELSE channel[c]
    BY <1>2, <2>1 DEF SetChoked
  <2>4. want[a] \in BOOLEAN
    BY <1>2
  <2>5. CASE a \in S /\ CanTell(a, want[a])
    BY <1>1, <2>2, <2>3, <2>4, <2>5, CommandsDiffer
  <2>6. CASE ~(a \in S /\ CanTell(a, want[a]))
    BY <1>1, <1>3, <2>2, <2>3, <2>6
  <2> QED  BY <2>5, <2>6
<1> QED  BY <1>4, <1>5

(* A connection that has not joined yet starts from the choked state the
   protocol prescribes. *)
NewIsChoking == \A c \in Conn : stage[c] = "new" => amChoking[c]

(* Joining: the record of the address, its channel and the connection all start
   afresh, and no other peer is reached on this connection. *)
LEMMA JoinKeepsBelief ==
  ASSUME AssignmentInv, ConnTypes, ChokeBeliefMatchesWire, NewIsChoking,
         NEW c \in Conn, Join(c)
  PROVE  ChokeBeliefMatchesWire'
<1> DEFINE a == ConnAddr[c]
<1>0. a \in Addr
  BY ConnAddrAssumption
<1>1. /\ peers' = peers \cup {a}
      /\ commands' = [commands EXCEPT ![a] = c]
      /\ choked' = [choked EXCEPT ![a] = TRUE]
      /\ channel' = [channel EXCEPT ![c] = NoCommand]
      /\ stage' = [stage EXCEPT ![c] = "running"]
      /\ amChoking' = amChoking /\ next' = next /\ stage[c] = "new"
  BY DEF Join, HandlePeerJoined, Retire
<1>2. /\ channel'[c] = NoCommand
      /\ \A d \in Conn : d # c => channel'[d] = channel[d] /\ stage'[d] = stage[d]
      /\ commands'[a] = c /\ choked'[a] = TRUE
      /\ \A b \in Addr : b # a => commands'[b] = commands[b] /\ choked'[b] = choked[b]
  BY <1>0, <1>1 DEF AssignmentInv, TypeOK, ConnTypes
<1>3. amChoking'[c] = TRUE
  BY <1>1 DEF NewIsChoking, ConnTypes
<1> SUFFICES ASSUME NEW b \in peers', InUse(commands[b])'
             PROVE  choked'[b] = IF channel'[commands'[b]] \in {ChokePeer, UnchokePeer}
                                 THEN channel'[commands'[b]] = ChokePeer
                                 ELSE amChoking'[commands'[b]]
  BY DEF ChokeBeliefMatchesWire
<1>4. CASE b = a
  BY <1>2, <1>3, <1>4, CommandsDiffer
<1>5. CASE b # a
  <2>1. b \in peers /\ b \in Addr
    BY <1>1, <1>5 DEF AssignmentInv, TypeOK
  <2>2. commands[b] \in Conn /\ commands[b] # c
    BY <1>5, <2>1 DEF AssignmentInv, RegisteredPeerIsReachable
  <2>3. /\ commands'[b] = commands[b] /\ choked'[b] = choked[b]
        /\ channel'[commands[b]] = channel[commands[b]]
        /\ stage'[commands[b]] = stage[commands[b]]
    BY <1>2, <1>5, <2>1, <2>2
  <2>4. InUse(commands[b])
    BY <1>1, <2>3 DEF InUse
  <2> QED  BY <1>1, <2>1, <2>3, <2>4 DEF ChokeBeliefMatchesWire
<1> QED  BY <1>4, <1>5

(* Leaving: the address is no longer registered, the others are untouched. *)
LEMMA LeaveKeepsBelief ==
  ASSUME AssignmentInv, ConnTypes, ChokeBeliefMatchesWire,
         NEW c \in Conn, Leave(c)
  PROVE  ChokeBeliefMatchesWire'
<1> DEFINE a == ConnAddr[c]
<1>0. a \in Addr
  BY ConnAddrAssumption
<1>1. /\ peers' = peers \ {a}
      /\ commands' = [commands EXCEPT ![a] = NoConn]
      /\ choked' = [choked EXCEPT ![a] = TRUE]
      /\ channel' = channel
      /\ stage' = [stage EXCEPT ![c] = "closed"]
      /\ next' = [next EXCEPT ![c] = NoEvent]
      /\ amChoking' = amChoking
  BY DEF Leave, HandlePeerLeft, Retire
<1> SUFFICES ASSUME NEW b \in peers', InUse(commands[b])'
             PROVE  choked'[b] = IF channel'[commands'[b]] \in {ChokePeer, UnchokePeer}
                                 THEN channel'[commands'[b]] = ChokePeer
                                 ELSE amChoking'[commands'[b]]
  BY DEF ChokeBeliefMatchesWire
<1>2. b \in peers /\ b \in Addr /\ b # a
  BY <1>1 DEF AssignmentInv, TypeOK
<1>3. commands[b] \in Conn /\ commands[b] # c
  BY <1>2 DEF AssignmentInv, RegisteredPeerIsReachable
<1>4. /\ commands'[b] = commands[b] /\ choked'[b] = choked[b]
      /\ stage'[commands[b]] = stage[commands[b]]
      /\ next'[commands[b]] = next[commands[b]]
  BY <1>0, <1>1, <1>2, <1>3 DEF AssignmentInv, TypeOK, ConnTypes
<1>5. InUse(commands[b])
  BY <1>4 DEF InUse
<1> QED  BY <1>1, <1>2, <1>4, <1>5 DEF ChokeBeliefMatchesWire

(* A command that could not be sent takes its own connection out of use, and
   nothing else changes. *)
LEMMA SendFailsKeepsBelief ==
  ASSUME AssignmentInv, ConnTypes, ChokeBeliefMatchesWire,
         NEW c \in Conn, SendFails(c)
  PROVE  ChokeBeliefMatchesWire'
<1>1. /\ peers' = peers /\ commands' = commands /\ choked' = choked
      /\ channel' = [channel EXCEPT ![c] = NoCommand]
      /\ stage' = stage /\ amChoking' = amChoking
      /\ next' = [next EXCEPT ![c] = IF current[c] = Idle THEN Left ELSE Broken]
  BY DEF SendFails, TakeCommand, peerVars, chokeVars
<1>2. /\ next'[c] \in {Left, Broken}
      /\ \A d \in Conn : d # c => channel'[d] = channel[d] /\ next'[d] = next[d]
  BY <1>1 DEF AssignmentInv, TypeOK, ConnTypes
<1> SUFFICES ASSUME NEW b \in peers', InUse(commands[b])'
             PROVE  choked'[b] = IF channel'[commands'[b]] \in {ChokePeer, UnchokePeer}
                                 THEN channel'[commands'[b]] = ChokePeer
                                 ELSE amChoking'[commands'[b]]
  BY DEF ChokeBeliefMatchesWire
<1>3. b \in peers /\ commands[b] \in Conn
  BY <1>1 DEF AssignmentInv, RegisteredPeerIsReachable
<1>4. commands[b] # c /\ InUse(commands[b])
  BY <1>1, <1>2, <1>3 DEF InUse
<1> QED  BY <1>1, <1>2, <1>3, <1>4 DEF ChokeBeliefMatchesWire

(* Reading a command: what was in the channel is now on the wire. *)
LEMMA ReadCommandKeepsBelief ==
  ASSUME AssignmentInv, ConnTypes, ChokeBeliefMatchesWire,
         NEW c \in Conn, ReadCommand(c)
  PROVE  ChokeBeliefMatchesWire'
<1>1. /\ peers' = peers /\ commands' = commands /\ choked' = choked
      /\ channel' = [channel EXCEPT ![c] = NoCommand]
      /\ stage' = stage
      /\ amChoking' = [amChoking EXCEPT ![c] = NowChoking(c, channel[c])]
  BY DEF ReadCommand, TakeCommand, peerVars, chokeVars
<1>2. /\ channel'[c] = NoCommand
      /\ amChoking'[c] = NowChoking(c, channel[c])
      /\ \A d \in Conn : d # c => /\ channel'[d] = channel[d]
                                  /\ amChoking'[d] = amChoking[d]
  BY <1>1 DEF AssignmentInv, TypeOK, ConnTypes
<1>3. channel[c].type \in {"choke", "unchoke"}
        <=> channel[c] \in {ChokePeer, UnchokePeer}
  <2>1. channel[c] \in Command \cup {NoCommand}
    BY DEF AssignmentInv, TypeOK
  <2> QED  BY <2>1 DEF Command, NoCommand, ChokePeer, UnchokePeer, AssignPiece,
                       CancelPiece
<1> SUFFICES ASSUME NEW b \in peers', InUse(commands[b])'
             PROVE  choked'[b] = IF channel'[commands'[b]] \in {ChokePeer, UnchokePeer}
                                 THEN channel'[commands'[b]] = ChokePeer
                                 ELSE amChoking'[commands'[b]]
  BY DEF ChokeBeliefMatchesWire
<1>0. b \in peers /\ commands[b] \in Conn /\ InUse(commands[b])
  <2>1. b \in peers /\ commands[b] \in Conn /\ commands' = commands
    BY <1>1 DEF AssignmentInv, RegisteredPeerIsReachable
  <2>2. next[c] = NoEvent /\ \A d \in Conn : d # c => next'[d] = next[d]
    BY DEF ReadCommand, Free, ConnTypes
  <2>3. NoEvent \notin {Left, Broken}
    BY DEF NoEvent, Left, Broken
  <2> QED  BY <1>1, <2>1, <2>2, <2>3 DEF InUse
<1>4. /\ b \in peers /\ commands[b] \in Conn
      /\ choked[b] = IF channel[commands[b]] \in {ChokePeer, UnchokePeer}
                     THEN channel[commands[b]] = ChokePeer
                     ELSE amChoking[commands[b]]
  BY <1>0 DEF ChokeBeliefMatchesWire
<1>5. CASE commands[b] = c
  BY <1>1, <1>2, <1>3, <1>4, <1>5, CommandsDiffer DEF NowChoking
<1>6. CASE commands[b] # c
  BY <1>1, <1>2, <1>4, <1>6
<1> QED  BY <1>5, <1>6

(* A step of the swarm, whether or not its surroundings may cancel the context. *)
SwarmStep ==
  \/ /\ CoordinatorStep \/ TakeResult \/ Elapse \/ CancelContext
     /\ UNCHANGED connVars
  \/ \E c \in Conn : ConnectionStep(c)
  \/ UNCHANGED allVars

(* The steps of the swarm's own specification are of this kind. *)
LEMMA NextIsSwarmStep == [Next]_allVars => SwarmStep
BY DEF Next, Surroundings, SwarmStep

(* Every step keeps both. *)
LEMMA BeliefStep ==
  ASSUME SwarmInv, ChokeBeliefMatchesWire, NewIsChoking, SwarmStep
  PROVE  ChokeBeliefMatchesWire' /\ NewIsChoking'
<1>0. AssignmentInv /\ TypeOK /\ ConnTypes
  BY DEF SwarmInv, AssignmentInv
<1>1. CASE UNCHANGED allVars
  <2>1. QuietStep
    BY <1>0, <1>1, RestIsQuiet DEF allVars
  <2>2. amChoking' = amChoking /\ stage' = stage /\ next' = next
    BY <1>1 DEF allVars, connVars
  <2> QED  BY <1>0, <2>1, <2>2, BeliefKept DEF NewIsChoking, InUse
<1>2. CASE /\ CoordinatorStep \/ TakeResult \/ Elapse \/ CancelContext
           /\ UNCHANGED connVars
  <2>1. QuietStep \/ ChokeStep
    <3>1. ASSUME NEW a \in Addr, EndgameVisit(a) \/ OfferVisit(a)  PROVE QuietStep
      BY <1>0, <3>1, WorkIsQuiet
    <3>2. CASE \/ Tick \/ DeliverResult \/ DropResult \/ Stop
               \/ TakeResult \/ Elapse \/ CancelContext
      BY <1>0, <3>2, RestIsQuiet
    <3>3. CASE (\E best \in SUBSET Addr : RecalcChoke(best)) \/ RotateOptimistic
      BY <1>0, <3>3, ChokingIsChokeStep
    <3> QED  BY <1>2, <3>1, <3>2, <3>3 DEF CoordinatorStep
  <2>2. amChoking' = amChoking /\ stage' = stage /\ next' = next
    BY <1>2 DEF connVars
  <2> QED  BY <1>0, <2>1, <2>2, BeliefKept DEF NewIsChoking, InUse
<1>3. ASSUME NEW c \in Conn, ConnectionStep(c)
      PROVE  ChokeBeliefMatchesWire' /\ NewIsChoking'
  <2> DEFINE a == ConnAddr[c]
  <2>0. a \in Addr
    BY ConnAddrAssumption
  <2>1. CASE Join(c)
    <3>1. NewIsChoking'
      BY <1>0, <2>1 DEF Join, NewIsChoking, ConnTypes
    <3> QED  BY <1>0, <2>1, <3>1, JoinKeepsBelief
  <2>2. CASE ReadCommand(c)
    <3>1. NewIsChoking'
      BY <1>0, <2>2 DEF ReadCommand, Free, NewIsChoking, ConnTypes
    <3> QED  BY <1>0, <2>2, <3>1, ReadCommandKeepsBelief
  <2>3. CASE Leave(c)
    <3>1. NewIsChoking'
      BY <1>0, <2>3 DEF Leave, NewIsChoking, ConnTypes
    <3> QED  BY <1>0, <2>3, <3>1, LeaveKeepsBelief
  <2>4. CASE SendFails(c)
    <3>1. NewIsChoking'
      BY <2>4 DEF SendFails, NewIsChoking
    <3> QED  BY <1>0, <2>4, <3>1, SendFailsKeepsBelief
  <2>5. CASE ~(Join(c) \/ ReadCommand(c) \/ SendFails(c) \/ Leave(c))
    <3>1. /\ amChoking' = amChoking
          /\ \A d \in Conn : stage'[d] \in {"running", "new"} => stage'[d] = stage[d]
      BY <1>0, <1>3, <2>5 DEF ConnectionStep, ReadMessage, ReadBitfield, ReadHave,
         ReportHave, FinishPiece, ReportReady, FailPiece, Abandon, connVars, ConnTypes
    <3>2. QuietStep \/ ChokeStep
      <4>1. CASE ReadMessage(c)
        <5>1. CASE HandleNotInterestedReceived(a)
          BY <1>0, <2>0, <5>1, ChokingIsChokeStep
        <5>2. CASE HandleUnchokeReceived(a)
          BY <1>0, <2>0, <5>2, WorkIsQuiet
        <5>3. CASE HandleChokeReceived(a) \/ HandleInterestedReceived(a)
          BY <1>0, <2>0, <5>3, RestIsQuiet
        <5> QED  BY <4>1, <5>1, <5>2, <5>3 DEF ReadMessage
      <4>2. CASE ReadBitfield(c)
        BY <1>0, <2>0, <4>2, WorkIsQuiet, SwarmAssumption DEF ReadBitfield
      <4>3. CASE ReadHave(c)
        BY <1>0, <2>0, <4>3, RestIsQuiet, SwarmAssumption DEF ReadHave
      <4>4. CASE ReportHave(c)
        <5>1. next[c].index \in Piece
          BY <1>0, <4>4 DEF ReportHave, ConnTypes, NoEvent, Ready, Left, Broken, Have
        <5> QED  BY <1>0, <2>0, <4>4, <5>1, WorkIsQuiet DEF ReportHave
      <4>5. CASE FinishPiece(c) \/ FailPiece(c)
        <5>1. current[c] \in Piece
          BY <1>0, <4>5 DEF FinishPiece, FailPiece, ConnTypes
        <5> QED  BY <1>0, <2>0, <4>5, <5>1, RestIsQuiet DEF FinishPiece, FailPiece
      <4>6. CASE ReportReady(c)
        BY <1>0, <2>0, <4>6, WorkIsQuiet DEF ReportReady
      <4>7. CASE Abandon(c)
        BY <1>0, <4>7, RestIsQuiet DEF Abandon
      <4> QED
        BY <1>3, <2>5, <4>1, <4>2, <4>3, <4>4, <4>5, <4>6, <4>7 DEF ConnectionStep
    <3>3. NewIsChoking'
      BY <3>1 DEF NewIsChoking
    <3>4. \A d \in Conn : InUse(d)' => InUse(d)
      <4>1. /\ \A d \in Conn : d # c => next'[d] = next[d]
            /\ InUse(c)' => next[c] \notin {Left, Broken}
        <5>1. CASE \/ ReadMessage(c) \/ ReadBitfield(c) \/ ReadHave(c) \/ FinishPiece(c)
          <6>1. next[c] = NoEvent /\ \A d \in Conn : d # c => next'[d] = next[d]
            BY <1>0, <5>1 DEF ReadMessage, ReadBitfield, ReadHave, FinishPiece, Free,
               connVars, ConnTypes
          <6> QED  BY <6>1 DEF NoEvent, Left, Broken
        <5>2. CASE ReportHave(c) \/ ReportReady(c)
          <6>1. /\ next[c] = Ready \/ next[c].type = "have"
                /\ \A d \in Conn : d # c => next'[d] = next[d]
            BY <1>0, <5>2 DEF ReportHave, ReportReady, ConnTypes
          <6> QED  BY <6>1 DEF Ready, Left, Broken
        <5>3. CASE FailPiece(c) \/ Abandon(c)
          <6>1. /\ stage'[c] = "running" => next'[c] = Left
                /\ \A d \in Conn : d # c => next'[d] = next[d]
            BY <1>0, <5>3 DEF FailPiece, Abandon, ConnTypes
          <6> QED  BY <6>1 DEF InUse
        <5> QED  BY <1>3, <2>5, <5>1, <5>2, <5>3 DEF ConnectionStep
      <4> QED  BY <3>1, <4>1 DEF InUse
    <3> QED  BY <1>0, <3>1, <3>2, <3>3, <3>4, BeliefKept
  <2> QED  BY <2>1, <2>2, <2>3, <2>4, <2>5
<1> QED  BY <1>1, <1>2, <1>3 DEF SwarmStep

(* The coordinator's record of whom it chokes is what the wire was last told,
   the command still in the channel counted, for every registered peer whose
   connection runs: a full channel never separates the two (choke.go setChoked,
   worker.go applyCommand), whatever joins, replacements and departures of
   connections of the same address come in between. *)
THEOREM BeliefMatchesWire == Spec => []ChokeBeliefMatchesWire
<1>1. Init => ChokeBeliefMatchesWire /\ NewIsChoking
  BY DEF Init, CoordInit, ChokeBeliefMatchesWire, NewIsChoking
<1>2. SwarmInv /\ ChokeBeliefMatchesWire /\ NewIsChoking /\ [Next]_allVars
        => ChokeBeliefMatchesWire' /\ NewIsChoking'
  BY BeliefStep, NextIsSwarmStep
<1> QED  BY <1>1, <1>2, SwarmInvariant, PTL DEF Spec

-----------------------------------------------------------------------------
(* Rarity.  If peers announce what they hold by bitfield alone, a peer that is
   not registered, or whose bitfield was not counted, holds nothing. *)
BlankUntilCounted ==
  \A a \in Addr : a \notin peers \/ ~gotBitfield[a] => have[a] = {}

AvailabilityInv ==
  /\ IsFiniteSet(peers)
  /\ BlankUntilCounted
  /\ \A c \in Conn : next[c].type # "have"
  /\ AvailabilityIsExact

(* The holders of a piece can be counted. *)
LEMMA HoldersAreFinite ==
  ASSUME IsFiniteSet(peers), NEW i
  PROVE  IsFiniteSet(Holders(i)) /\ Cardinality(Holders(i)) \in Nat
BY FS_Subset, FS_CardinalityType DEF Holders

(* Retiring an entry uncounts exactly what it counted for: joining again on
   another connection and leaving change the counts the same way. *)
LEMMA RetireCounts ==
  ASSUME TypeOK, IsFiniteSet(peers), BlankUntilCounted, AvailabilityIsExact,
         NEW a \in Addr, Retire(a), peers' = peers \cup {a} \/ peers' = peers \ {a}
  PROVE  IsFiniteSet(peers') /\ BlankUntilCounted' /\ AvailabilityIsExact'
<1>1. IsFiniteSet(peers')
  BY FS_AddElement, FS_RemoveElement
<1>2. /\ have' = [have EXCEPT ![a] = {}]
      /\ gotBitfield' = [gotBitfield EXCEPT ![a] = FALSE]
      /\ availability' = Count(availability, have[a], -1)
  BY DEF Retire, NotCounted
<1>3. /\ have'[a] = {} /\ \A b \in Addr : b # a => have'[b] = have[b]
      /\ \A b \in Addr : b # a => gotBitfield'[b] = gotBitfield[b]
  BY <1>2 DEF TypeOK
<1>4. BlankUntilCounted'
  BY <1>3 DEF BlankUntilCounted
<1>5. ASSUME NEW i \in Piece  PROVE availability'[i] = Cardinality(Holders(i)')
  <2>1. Holders(i)' = Holders(i) \ {a}
    BY <1>3 DEF Holders, TypeOK
  <2>2. availability'[i] = IF i \in have[a] THEN availability[i] + (-1) ELSE availability[i]
    BY <1>2 DEF Count
  <2>3. availability[i] = Cardinality(Holders(i))
    BY DEF AvailabilityIsExact
  <2>4. IsFiniteSet(Holders(i)) /\ Cardinality(Holders(i)) \in Nat
    BY HoldersAreFinite
  <2>5. CASE i \in have[a]
    <3>1. a \in Holders(i)
      BY <2>5 DEF BlankUntilCounted, Holders
    <3>2. Cardinality(Holders(i) \ {a}) = Cardinality(Holders(i)) - 1
      BY <2>4, <3>1, FS_RemoveElement
    <3> QED  BY <2>1, <2>2, <2>3, <2>4, <2>5, <3>2
  <2>6. CASE i \notin have[a]
    <3>1. Holders(i) \ {a} = Holders(i)
      BY <2>6 DEF Holders
    <3> QED  BY <2>1, <2>2, <2>3, <2>6, <3>1
  <2> QED  BY <2>5, <2>6
<1>6. AvailabilityIsExact'
  BY <1>5 DEF AvailabilityIsExact
<1> QED  BY <1>1, <1>4, <1>6

(* A bitfield is counted once, for a peer that was not counted before. *)
LEMMA BitfieldCounts ==
  ASSUME TypeOK, IsFiniteSet(peers), BlankUntilCounted, AvailabilityIsExact,
         NEW a \in Addr, NEW bf \in SUBSET Piece, HandleBitfieldReceived(a, bf)
  PROVE  IsFiniteSet(peers') /\ BlankUntilCounted' /\ AvailabilityIsExact'
<1>0. peers' = peers
  BY DEF HandleBitfieldReceived
<1>1. CASE UNCHANGED <<gotBitfield, have, availability>>
  BY <1>0, <1>1 DEF BlankUntilCounted, AvailabilityIsExact, Holders
<1>2. CASE /\ a \in peers /\ ~gotBitfield[a]
           /\ gotBitfield' = [gotBitfield EXCEPT ![a] = TRUE]
           /\ have' = [have EXCEPT ![a] = bf]
           /\ availability' = Count(availability, bf, 1)
  <2>1. /\ have[a] = {} /\ have'[a] = bf
        /\ gotBitfield'[a] = TRUE
        /\ \A b \in Addr : b # a => /\ have'[b] = have[b]
                                    /\ gotBitfield'[b] = gotBitfield[b]
    BY <1>2 DEF BlankUntilCounted, TypeOK
  <2>2. BlankUntilCounted'
    BY <1>0, <1>2, <2>1 DEF BlankUntilCounted
  <2>3. ASSUME NEW i \in Piece  PROVE availability'[i] = Cardinality(Holders(i)')
    <3>1. availability'[i] = IF i \in bf THEN availability[i] + 1 ELSE availability[i]
      BY <1>2 DEF Count
    <3>2. availability[i] = Cardinality(Holders(i))
      BY DEF AvailabilityIsExact
    <3>3. IsFiniteSet(Holders(i)) /\ a \notin Holders(i)
      BY <2>1, HoldersAreFinite DEF Holders
    <3>4. peers \subseteq Addr
      BY DEF TypeOK
    <3>5. CASE i \in bf
      <4>1. Holders(i)' = Holders(i) \cup {a}
        BY <1>0, <1>2, <2>1, <3>4, <3>5 DEF Holders
      <4>2. Cardinality(Holders(i) \cup {a}) = Cardinality(Holders(i)) + 1
        BY <3>3, FS_AddElement
      <4> QED  BY <3>1, <3>2, <3>5, <4>1, <4>2
    <3>6. CASE i \notin bf
      <4>1. Holders(i)' = Holders(i)
        BY <1>0, <2>1, <3>4, <3>6 DEF Holders
      <4> QED  BY <3>1, <3>2, <3>6, <4>1
    <3> QED  BY <3>5, <3>6
  <2>4. AvailabilityIsExact'
    BY <2>3 DEF AvailabilityIsExact
  <2> QED  BY <1>0, <2>2, <2>4
<1> QED  BY <1>1, <1>2 DEF HandleBitfieldReceived

(* No other step of a swarm without have messages touches the counts. *)
LEMMA OthersCountNothing ==
  ASSUME \/ \E a \in Addr : \/ HandlePeerReady(a) \/ HandleUnchokeReceived(a)
                            \/ HandleChokeReceived(a) \/ HandleInterestedReceived(a)
                            \/ HandleNotInterestedReceived(a)
                            \/ EndgameVisit(a) \/ OfferVisit(a)
         \/ \E a \in Addr, i \in Piece : \/ HandlePieceDownloaded(a, i)
                                         \/ HandlePieceFailed(a, i)
         \/ \E c \in Conn : TakeCommand(c)
         \/ \E best \in SUBSET Addr : RecalcChoke(best)
         \/ Tick \/ RotateOptimistic \/ DeliverResult \/ DropResult \/ Stop
         \/ TakeResult \/ Elapse \/ CancelContext \/ UNCHANGED vars
  PROVE  UNCHANGED <<peers, have, gotBitfield, availability>>
BY DEF HandlePeerReady, HandleUnchokeReceived, HandleChokeReceived,
       HandleInterestedReceived, HandleNotInterestedReceived, EndgameVisit, OfferVisit,
       HandlePieceDownloaded, HandlePieceFailed, TakeCommand, RecalcChoke, Tick,
       RotateOptimistic, DeliverResult, DropResult, Stop, TakeResult, Elapse,
       CancelContext, vars, pieceVars, peerVars

(* Every step of a swarm without have messages keeps the counts exact. *)
LEMMA AvailabilityStep ==
  ASSUME Haves = {}, SwarmInv, AvailabilityInv, SwarmStep
  PROVE  AvailabilityInv'
<1>0. TypeOK /\ ConnTypes
  BY DEF SwarmInv, AssignmentInv
<1>1. CASE /\ UNCHANGED <<peers, have, gotBitfield, availability>>
           /\ \A c \in Conn : next'[c].type # "have"
  BY <1>1 DEF AvailabilityInv, BlankUntilCounted, AvailabilityIsExact, Holders
<1>2. CASE UNCHANGED allVars
  <2>1. UNCHANGED <<peers, have, gotBitfield, availability>> /\ next' = next
    BY <1>2, OthersCountNothing DEF allVars, connVars
  <2> QED  BY <1>1, <2>1 DEF AvailabilityInv
<1>3. CASE /\ CoordinatorStep \/ TakeResult \/ Elapse \/ CancelContext
           /\ UNCHANGED connVars
  <2>1. UNCHANGED <<peers, have, gotBitfield, availability>>
    BY <1>3, OthersCountNothing DEF CoordinatorStep
  <2>2. next' = next
    BY <1>3 DEF connVars
  <2> QED  BY <1>1, <2>1, <2>2 DEF AvailabilityInv
<1>4. ASSUME NEW c \in Conn, ConnectionStep(c)  PROVE AvailabilityInv'
  <2> DEFINE a == ConnAddr[c]
  <2>0. a \in Addr
    BY ConnAddrAssumption
  <2>1. ~ReadHave(c) /\ ~ReportHave(c)
    BY DEF ReadHave, ReportHave, AvailabilityInv
  <2>2. \A d \in Conn : next'[d].type # "have"
    <3>1. next' = next \/ \E e \in {NoEvent, Ready, Left, Broken} : next' = [next EXCEPT ![c] = e]
      BY <1>4, <2>1 DEF ConnectionStep, Join, ReadCommand, SendFails, ReadMessage,
         ReadBitfield, FinishPiece, ReportReady, FailPiece, Leave, Abandon, connVars
    <3>2. \A e \in {NoEvent, Ready, Left, Broken} : e.type # "have"
      BY DEF NoEvent, Ready, Left, Broken
    <3> QED  BY <1>0, <3>1, <3>2 DEF AvailabilityInv, ConnTypes
  <2>3. CASE Join(c) \/ Leave(c)
    <3>1. Retire(a) /\ (peers' = peers \cup {a} \/ peers' = peers \ {a})
      BY <2>3 DEF Join, Leave, HandlePeerJoined, HandlePeerLeft
    <3>2. IsFiniteSet(peers') /\ BlankUntilCounted' /\ AvailabilityIsExact'
      BY <1>0, <2>0, <3>1, RetireCounts DEF AvailabilityInv
    <3> QED  BY <2>2, <3>2 DEF AvailabilityInv
  <2>4. CASE ReadBitfield(c)
    <3>1. PICK bf \in SUBSET Piece : HandleBitfieldReceived(a, bf)
      BY <2>4, SwarmAssumption DEF ReadBitfield
    <3>2. IsFiniteSet(peers') /\ BlankUntilCounted' /\ AvailabilityIsExact'
      BY <1>0, <2>0, <3>1, BitfieldCounts DEF AvailabilityInv
    <3> QED  BY <2>2, <3>2 DEF AvailabilityInv
  <2>5. CASE \/ ReadCommand(c) \/ SendFails(c) \/ ReadMessage(c) \/ FinishPiece(c)
             \/ ReportReady(c) \/ FailPiece(c) \/ Abandon(c)
    <3>1. FinishPiece(c) \/ FailPiece(c) => current[c] \in Piece
      BY <1>0 DEF FinishPiece, FailPiece, ConnTypes
    <3>2. UNCHANGED <<peers, have, gotBitfield, availability>>
      BY <2>0, <2>5, <3>1, OthersCountNothing DEF ReadCommand, SendFails, ReadMessage,
         FinishPiece, ReportReady, FailPiece, Abandon
    <3> QED  BY <1>1, <2>2, <3>2
  <2> QED  BY <1>4, <2>1, <2>3, <2>4, <2>5 DEF ConnectionStep
<1> QED  BY <1>2, <1>3, <1>4 DEF SwarmStep

(* At first nobody holds anything. *)
LEMMA AvailabilityInit == Init => AvailabilityInv
<1> SUFFICES ASSUME Init PROVE AvailabilityInv
  OBVIOUS
<1>1. peers = {} /\ IsFiniteSet({}) /\ Cardinality({}) = 0
  BY FS_EmptySet DEF Init, CoordInit
<1>2. \A i \in Piece : Holders(i) = {} /\ availability[i] = 0
  BY <1>1 DEF Holders, Init, CoordInit
<1>3. \A c \in Conn : next[c].type # "have"
  BY DEF Init, NoEvent
<1>4. BlankUntilCounted
  BY DEF BlankUntilCounted, Init, CoordInit
<1> QED  BY <1>1, <1>2, <1>3, <1>4 DEF AvailabilityInv, AvailabilityIsExact

(* As long as peers announce their pieces by bitfield alone, what selectPieceFor
   compares is the number of registered peers that hold a piece: no join,
   replacement, departure or repeated bitfield makes it drift (availability.go,
   coordinator.go).  With have messages it does drift: see EveryHolderIsCounted. *)
THEOREM AvailabilityCountsHolders ==
  ASSUME Haves = {}
  PROVE  Spec => []AvailabilityIsExact
<1>1. SwarmInv /\ AvailabilityInv /\ [Next]_allVars => AvailabilityInv'
  BY AvailabilityStep, NextIsSwarmStep
<1>2. AvailabilityInv => AvailabilityIsExact
  BY DEF AvailabilityInv
<1> QED  BY <1>1, <1>2, AvailabilityInit, SwarmInvariant, PTL DEF Spec

-----------------------------------------------------------------------------
(* Download *)

(* A step of the client is a step of the swarm or changes none of its state. *)
LEMMA DownloadStepImplements == [DownloadNext]_downloadVars => SwarmStep
<1> SUFFICES ASSUME [DownloadNext]_downloadVars PROVE SwarmStep
  OBVIOUS
<1>1. CASE \/ Start \/ StartGracePeriod \/ ContextDone \/ Return \/ CallerCancels
           \/ UNCHANGED downloadVars
  BY <1>1 DEF Start, StartGracePeriod, ContextDone, Return, CallerCancels,
              downloadVars, SwarmStep
<1>2. CASE WriteResult \/ Leaving \/ GracePeriodEnds
  <2>1. (TakeResult \/ CancelContext \/ UNCHANGED vars) /\ UNCHANGED connVars
    BY <1>2 DEF WriteResult, Leaving, GracePeriodEnds
  <2> QED  BY <2>1 DEF SwarmStep, allVars
<1>3. CASE Others
  BY <1>3 DEF Others, SwarmStep
<1> QED  BY <1>1, <1>2, <1>3 DEF DownloadNext, MainStep

(* Download, with its main goroutine, implements the swarm whose results are
   taken and whose context is cancelled at any time (download.go). *)
THEOREM DownloadImplementsSwarm ==
  ASSUME Interruptible
  PROVE  DownloadSpec => Spec
<1>1. DownloadInit => Init
  BY DEF DownloadInit
<1>2. [DownloadNext]_downloadVars => [Next]_allVars
  BY DownloadStepImplements DEF SwarmStep, Next, Surroundings
<1> QED  BY <1>1, <1>2, PTL DEF DownloadSpec, Spec

-----------------------------------------------------------------------------
(* Whether the surroundings of the swarm may cancel the context does not
   matter here: the client cancels it by itself. *)
LEMMA DownloadStepImplementsCoord ==
  ASSUME ConnTypes, [DownloadNext]_downloadVars
  PROVE  /\ [CoordNext]_vars
         /\ UNCHANGED connVars \/ \E c \in Conn : ConnectionStep(c)
<1>1. SwarmStep
  BY DownloadStepImplements
<1>2. CASE /\ CoordinatorStep \/ TakeResult \/ Elapse \/ CancelContext
           /\ UNCHANGED connVars
  BY <1>2 DEF CoordinatorStep, CoordNext
<1>3. ASSUME NEW c \in Conn, ConnectionStep(c)  PROVE [CoordNext]_vars
  BY <1>3, ConnectionStepImplements
<1>4. CASE UNCHANGED allVars
  BY <1>4 DEF allVars
<1> QED  BY <1>1, <1>2, <1>3, <1>4 DEF SwarmStep

(* The swarm's invariant holds in the client. *)
LEMMA DownloadKeepsSwarmInv == DownloadSpec => []SwarmInv
<1>1. DownloadInit => SwarmInv
  <2>1. Init => ConnTypes
    BY DEF Init, ConnTypes
  <2> QED  BY <2>1, InitEstablishesInv DEF DownloadInit, Init, SwarmInv
<1>2. SwarmInv /\ [DownloadNext]_downloadVars => SwarmInv'
  <2> SUFFICES ASSUME SwarmInv, [DownloadNext]_downloadVars PROVE SwarmInv'
    OBVIOUS
  <2>1. TypeOK /\ ConnTypes /\ AssignmentInv
    BY DEF SwarmInv, AssignmentInv
  <2>2. /\ [CoordNext]_vars
        /\ UNCHANGED connVars \/ \E c \in Conn : ConnectionStep(c)
    BY <2>1, DownloadStepImplementsCoord
  <2>3. AssignmentInv'
    BY <2>1, <2>2, NextKeepsInv
  <2>4. ConnTypes'
    BY <2>1, <2>2, ConnTypesStep
  <2> QED  BY <2>3, <2>4 DEF SwarmInv
<1> QED  BY <1>1, <1>2, PTL DEF DownloadSpec

(* The coordinator's bookkeeping is consistent in the running client. *)
THEOREM DownloadBoardIsConsistent ==
  DownloadSpec => [](BusyPeerIsListed /\ InFlightIffAssigned
                       /\ OneAssigneeBeforeEndgame)
<1>1. SwarmInv => BusyPeerIsListed /\ InFlightIffAssigned /\ OneAssigneeBeforeEndgame
  BY DEF SwarmInv, AssignmentInv
<1> QED  BY <1>1, DownloadKeepsSwarmInv, PTL

(* The client implements the coordinator's specification, whoever cancels the
   context: every step of its goroutines is one the coordinator allows for. *)
THEOREM DownloadImplementsCoordinator == DownloadSpec => CoordSpec
<1>1. DownloadInit => CoordInit
  BY DEF DownloadInit, Init
<1>2. SwarmInv /\ [DownloadNext]_downloadVars => [CoordNext]_vars
  BY DownloadStepImplementsCoord DEF SwarmInv
<1> QED  BY <1>1, <1>2, DownloadKeepsSwarmInv, PTL DEF DownloadSpec, CoordSpec

(* In the running client too the coordinator's choke record is what the wire was
   told, and only an interested peer holds the optimistic slot, also while the
   client shuts down (choke.go, worker.go, download.go). *)
THEOREM DownloadChokesAsRecorded ==
  DownloadSpec => [](ChokeBeliefMatchesWire /\ OptimisticHolderIsInterested)
<1>1. DownloadInit => ChokeBeliefMatchesWire /\ NewIsChoking
  BY DEF DownloadInit, Init, CoordInit, ChokeBeliefMatchesWire, NewIsChoking
<1>2. SwarmInv /\ ChokeBeliefMatchesWire /\ NewIsChoking /\ [DownloadNext]_downloadVars
        => ChokeBeliefMatchesWire' /\ NewIsChoking'
  BY BeliefStep, DownloadStepImplements
<1> QED  BY <1>1, <1>2, DownloadKeepsSwarmInv, DownloadImplementsCoordinator,
            OptimisticHolders, PTL DEF DownloadSpec

(* And what selectPieceFor compares stays the number of holders, as long as peers
   announce by bitfield alone (availability.go, coordinator.go). *)
THEOREM DownloadCountsHolders ==
  ASSUME Haves = {}
  PROVE  DownloadSpec => []AvailabilityIsExact
<1>1. DownloadInit => Init
  BY DEF DownloadInit
<1>2. SwarmInv /\ AvailabilityInv /\ [DownloadNext]_downloadVars => AvailabilityInv'
  BY AvailabilityStep, DownloadStepImplements
<1>3. AvailabilityInv => AvailabilityIsExact
  BY DEF AvailabilityInv
<1> QED  BY <1>1, <1>2, <1>3, AvailabilityInit, DownloadKeepsSwarmInv, PTL DEF DownloadSpec

-----------------------------------------------------------------------------
(* A finished piece on its way to the main loop. *)
Carried(i) == (\E k \in DOMAIN results : results[k] = i) \/ sending = i

(* Outside the blocking send of handlePieceDownloaded there is no piece in the
   coordinator's hands: a second one never takes the place of the first. *)
HandsAreFree == phase # "deliver" => sending = Idle

(* A step that neither finishes a piece nor moves one along. *)
Uneventful ==
  /\ UNCHANGED <<results, sending>>
  /\ phase' = "deliver" <=> phase = "deliver"
  /\ \A i \in Piece : pieces'[i] = "complete" => pieces[i] = "complete"

(* Handing out work is uneventful: what it changes is in flight afterwards. *)
LEMMA WorkIsUneventful ==
  ASSUME AssignmentInv, NEW a \in Addr,
         \/ HandlePeerReady(a) \/ HandleUnchokeReceived(a)
         \/ \E bf \in SUBSET Piece : HandleBitfieldReceived(a, bf)
         \/ \E i \in Piece : HandleHaveReceived(a, i)
         \/ EndgameVisit(a) \/ OfferVisit(a)
  PROVE  Uneventful
<1>1. UNCHANGED <<results, sending>>
  BY DEF HandlePeerReady, HandleUnchokeReceived, HandleBitfieldReceived,
         HandleHaveReceived, EndgameVisit, OfferVisit, loopVars
<1>2. phase' = "deliver" <=> phase = "deliver"
  BY DEF HandlePeerReady, HandleUnchokeReceived, HandleBitfieldReceived,
         HandleHaveReceived, EndgameVisit, OfferVisit, Continue, loopVars
<1>3. BoardStep(a)
  BY WorkIsBoardStep
<1>4. \A i \in Piece : pieces'[i] = "complete" => pieces[i] = "complete"
  BY <1>3 DEF BoardStep, Assigns, board, AssignmentInv, TypeOK
<1> QED  BY <1>1, <1>2, <1>4 DEF Uneventful

(* So is taking back what a peer was assigned: it is missing afterwards. *)
LEMMA TakingBackIsUneventful ==
  ASSUME TypeOK,
         \/ \E c \in Conn : HandlePeerJoined(c)
         \/ \E a \in Addr : HandlePeerLeft(a)
         \/ \E a \in Addr, i \in Piece : HandlePieceFailed(a, i)
         \/ Tick
  PROVE  Uneventful
<1>1. UNCHANGED <<results, sending>>
  BY DEF HandlePeerJoined, HandlePeerLeft, HandlePieceFailed, Tick, loopVars
<1>2. phase' = "deliver" <=> phase = "deliver"
  BY DEF HandlePeerJoined, HandlePeerLeft, HandlePieceFailed, Tick, Continue,
         Selecting, loopVars
<1>3. \A i \in Piece : pieces'[i] = "complete" => pieces[i] = "complete"
  <2>1. ASSUME NEW a \in Addr, Retire(a)
        PROVE  \A i \in Piece : pieces'[i] = "complete" => pieces[i] = "complete"
    BY <2>1 DEF Retire, TypeOK
  <2>2. CASE \/ \E c \in Conn : HandlePeerJoined(c)
             \/ \E a \in Addr : HandlePeerLeft(a)
    BY <2>1, <2>2, ConnAddrAssumption DEF HandlePeerJoined, HandlePeerLeft
  <2>3. ASSUME NEW a \in Addr, NEW i \in Piece, HandlePieceFailed(a, i)
        PROVE  \A j \in Piece : pieces'[j] = "complete" => pieces[j] = "complete"
    BY <2>3 DEF HandlePieceFailed, TypeOK
  <2>4. CASE Tick
    BY <2>4 DEF Tick, FreedPieces
  <2> QED  BY <2>2, <2>3, <2>4
<1> QED  BY <1>1, <1>2, <1>3 DEF Uneventful

(* And everything else but the four steps about finished pieces. *)
LEMMA RestIsUneventful ==
  ASSUME \/ \E a \in Addr : \/ HandleChokeReceived(a) \/ HandleInterestedReceived(a)
                            \/ HandleNotInterestedReceived(a)
                            \/ \E i \in Piece : SharedBit(a, i)
         \/ \E c \in Conn : TakeCommand(c)
         \/ \E best \in SUBSET Addr : RecalcChoke(best)
         \/ RotateOptimistic \/ Stop \/ Elapse \/ CancelContext
         \/ UNCHANGED vars
  PROVE  Uneventful
<1>1. UNCHANGED <<results, sending, pieces>>
  BY DEF HandleChokeReceived, HandleInterestedReceived, HandleNotInterestedReceived,
         SharedBit, TakeCommand, RecalcChoke, RotateOptimistic, Stop, Elapse,
         CancelContext, vars, loopVars, pieceVars
<1>2. phase' = "deliver" <=> phase = "deliver"
  BY DEF HandleChokeReceived, HandleInterestedReceived, HandleNotInterestedReceived,
         SharedBit, TakeCommand, RecalcChoke, RotateOptimistic, Stop, Elapse,
         CancelContext, vars, loopVars, Selecting
<1> QED  BY <1>1, <1>2 DEF Uneventful

(* The steps of the coordinator, sorted by what they do to finished pieces. *)
LEMMA FinishedPieceSteps ==
  ASSUME AssignmentInv, [CoordNext]_vars
  PROVE  \/ Uneventful
         \/ \E a \in Addr, i \in Piece : HandlePieceDownloaded(a, i)
         \/ DeliverResult \/ DropResult \/ TakeResult
<1>0. TypeOK
  BY DEF AssignmentInv
<1>1. ASSUME NEW a \in Addr,
             \/ HandlePeerReady(a) \/ HandleUnchokeReceived(a)
             \/ \E bf \in SUBSET Piece : HandleBitfieldReceived(a, bf)
             \/ \E i \in Piece : HandleHaveReceived(a, i)
             \/ EndgameVisit(a) \/ OfferVisit(a)
      PROVE  Uneventful
  BY <1>1, WorkIsUneventful
<1>2. CASE \/ \E c \in Conn : HandlePeerJoined(c)
           \/ \E a \in Addr : HandlePeerLeft(a)
           \/ \E a \in Addr, i \in Piece : HandlePieceFailed(a, i)
           \/ Tick
  BY <1>0, <1>2, TakingBackIsUneventful
<1>3. CASE \/ \E a \in Addr : \/ HandleChokeReceived(a) \/ HandleInterestedReceived(a)
                              \/ HandleNotInterestedReceived(a)
                              \/ \E i \in Piece : SharedBit(a, i)
           \/ \E c \in Conn : TakeCommand(c)
           \/ \E best \in SUBSET Addr : RecalcChoke(best)
           \/ RotateOptimistic \/ Stop \/ Elapse \/ CancelContext
           \/ UNCHANGED vars
  BY <1>3, RestIsUneventful
<1> QED  BY <1>1, <1>2, <1>3 DEF CoordNext

(* What such a step does to a piece: it stays carried, unless the main loop has
   just taken it or the context is cancelled, and a piece that becomes complete
   is carried from then on. *)
LEMMA PiecesAreCarried ==
  ASSUME AssignmentInv, HandsAreFree, [CoordNext]_vars
  PROVE  /\ HandsAreFree'
         /\ ~ctxDone => \A i \in Piece :
              /\ pieces'[i] = "complete" => pieces[i] = "complete" \/ Carried(i)'
              /\ Carried(i) => \/ Carried(i)'
                               \/ TakeResult /\ Head(results) = i
<1>0. /\ TypeOK /\ results \in Seq(Piece)
      /\ pieces \in [Piece -> PieceState]
      /\ phase = "deliver" => sending \in Piece
  BY DEF AssignmentInv, TypeOK, LoopStateIsConsistent
<1>1. CASE Uneventful
  BY <1>1 DEF Uneventful, HandsAreFree, Carried
<1>2. ASSUME NEW a \in Addr, NEW i \in Piece, HandlePieceDownloaded(a, i)
      PROVE  /\ HandsAreFree'
             /\ \A j \in Piece :
                  /\ pieces'[j] = "complete" => pieces[j] = "complete" \/ Carried(j)'
                  /\ Carried(j) => Carried(j)'
  <2>1. results' = results /\ sending = Idle /\ phase = "select"
    BY <1>2 DEF HandlePieceDownloaded, HandsAreFree, Selecting
  <2>2. CASE pieces[i] = "complete"
    BY <1>2, <2>1, <2>2 DEF HandlePieceDownloaded, HandsAreFree, Carried, board
  <2>3. CASE pieces[i] # "complete"
    <3>1. /\ pieces' = [pieces EXCEPT ![i] = "complete"]
          /\ sending' = i /\ phase' = "deliver"
      BY <1>2, <2>3 DEF HandlePieceDownloaded
    <3> QED  BY <1>0, <2>1, <3>1, AgeFacts DEF HandsAreFree, Carried
  <2> QED  BY <2>2, <2>3
<1>3. CASE DeliverResult
  <2>1. /\ pieces' = pieces /\ phase' = "select" /\ sending' = Idle
        /\ results' = Append(results, sending) /\ sending \in Piece
    BY <1>0, <1>3 DEF DeliverResult, pieceVars
  <2>2. /\ results'[Len(results) + 1] = sending
        /\ Len(results) + 1 \in DOMAIN results'
        /\ \A k \in DOMAIN results : k \in DOMAIN results' /\ results'[k] = results[k]
    BY <1>0, <2>1
  <2> QED  BY <2>1, <2>2 DEF HandsAreFree, Carried
<1>4. CASE DropResult
  BY <1>4 DEF DropResult, HandsAreFree
<1>5. CASE TakeResult
  <2>1. /\ results # <<>> /\ results' = Tail(results) /\ sending' = sending
        /\ phase' = phase /\ pieces' = pieces
    BY <1>5 DEF TakeResult, loopVars, pieceVars
  <2>2. ASSUME NEW k \in DOMAIN results, results[k] # Head(results)
        PROVE  k - 1 \in DOMAIN results' /\ results'[k - 1] = results[k]
    <3>1. k \in 1 .. Len(results) /\ k # 1 /\ Len(results) \in Nat
      BY <1>0, <2>1, <2>2
    <3>2. Len(results') = Len(results) - 1 /\ results' \in Seq(Piece)
      BY <1>0, <2>1
    <3>3. k - 1 \in 1 .. Len(results')
      BY <3>1, <3>2
    <3> QED  BY <1>0, <2>1, <3>1, <3>2, <3>3
  <2> QED  BY <1>5, <2>1, <2>2 DEF HandsAreFree, Carried
<1> QED  BY <1>1, <1>2, <1>3, <1>4, <1>5, FinishedPieceSteps

(* Only the main loop takes a result. *)
LEMMA OnlyWriteTakes ==
  ASSUME AssignmentInv, ConnTypes, [DownloadNext]_downloadVars, TakeResult
  PROVE  WriteResult
<1>1. results \in Seq(Piece) /\ results' = Tail(results) /\ results # <<>>
  BY DEF AssignmentInv, TypeOK, TakeResult
<1>2. Len(results') = Len(results) - 1 /\ Len(results) \in Nat
  BY <1>1
<1>3. CASE Others
  <2>1. results' = results \/ results' = Append(results, sending)
    BY <1>3 DEF Others, CoordinatorStep, Tick, EndgameVisit, OfferVisit, RecalcChoke,
       RotateOptimistic, DeliverResult, DropResult, Stop, Elapse, ConnectionStep,
       Join, HandlePeerJoined, ReadCommand, SendFails, TakeCommand, ReadMessage,
       HandleChokeReceived, HandleUnchokeReceived, HandleInterestedReceived,
       HandleNotInterestedReceived, ReadBitfield, HandleBitfieldReceived,
       ReadHave, SharedBit, ReportHave, HandleHaveReceived, FinishPiece,
       HandlePieceDownloaded, ReportReady, HandlePeerReady, FailPiece,
       HandlePieceFailed, Leave, HandlePeerLeft, Abandon, vars
  <2>2. results \in Seq(Piece \cup {Idle}) /\ sending \in Piece \cup {Idle}
    BY DEF AssignmentInv, TypeOK
  <2>3. Len(Append(results, sending)) = Len(results) + 1
    BY <2>2
  <2>4. Len(results') >= Len(results)
    BY <1>2, <2>1, <2>3
  <2> QED  BY <1>2, <2>4
<1>4. CASE \/ Start \/ Leaving \/ StartGracePeriod \/ GracePeriodEnds
           \/ ContextDone \/ Return \/ CallerCancels \/ UNCHANGED downloadVars
  <2>1. results' = results
    BY <1>4 DEF Start, Leaving, StartGracePeriod, GracePeriodEnds, ContextDone,
       Return, CallerCancels, CancelContext, downloadVars, allVars, vars
  <2> QED  BY <1>2, <2>1
<1> QED  BY <1>3, <1>4 DEF DownloadNext, MainStep

(* Nothing is decided before the main loop is left. *)
Undecided == main \in {"starting", "loop"} => outcome = "none"

(* What the main loop does: it never forgets a piece on disk, a failure is final,
   and so is the cancellation of the context; the piece it takes is on disk
   afterwards unless writing it fails. *)
LEMMA MainLoopFacts ==
  ASSUME SwarmInv, Undecided, [DownloadNext]_downloadVars
  PROVE  /\ Undecided'
         /\ onDisk \subseteq onDisk'
         /\ outcome = "error" => outcome' = "error"
         /\ ctxDone => ctxDone'
         /\ WriteResult => outcome' = "error" \/ Head(results) \in onDisk'
<1>1. ctxDone => ctxDone'
  <2>1. [CoordNext]_vars
    BY DownloadStepImplementsCoord DEF SwarmInv
  <2> QED
    BY <2>1 DEF CoordNext, HandlePeerJoined, TakeCommand, HandlePeerLeft,
       HandlePeerReady, HandleChokeReceived, HandleUnchokeReceived,
       HandleInterestedReceived, HandleNotInterestedReceived, EndgameVisit,
       OfferVisit, HandleBitfieldReceived, HandleHaveReceived, SharedBit,
       HandlePieceDownloaded, HandlePieceFailed, RecalcChoke, Tick,
       RotateOptimistic, DeliverResult, DropResult, Stop, TakeResult, Elapse,
       CancelContext, vars
<1>2. onDisk \subseteq onDisk'
  BY DEF DownloadNext, MainStep, Start, WriteResult, Leaving, StartGracePeriod,
     GracePeriodEnds, ContextDone, Return, CallerCancels, Others, mainVars,
     downloadVars
<1>3. Undecided' /\ (outcome = "error" => outcome' = "error")
  <2>1. CASE \/ Start \/ Leaving \/ StartGracePeriod \/ GracePeriodEnds
             \/ ContextDone \/ Return \/ CallerCancels \/ Others
             \/ UNCHANGED downloadVars
    BY <2>1 DEF Undecided, Start, Leaving, StartGracePeriod, GracePeriodEnds,
       ContextDone, Return, CallerCancels, Others, mainVars, downloadVars
  <2>2. CASE WriteResult
    BY <2>2 DEF Undecided, WriteResult
  <2> QED  BY <2>1, <2>2 DEF DownloadNext, MainStep
<1>4. WriteResult => outcome' = "error" \/ Head(results) \in onDisk'
  BY DEF WriteResult
<1> QED  BY <1>1, <1>2, <1>3, <1>4

(* While the client runs, every piece the coordinator counts as complete is on
   disk or still carried there: through the blocked send of
   handlePieceDownloaded, the buffered channel and the main loop of download.go,
   for any number of pieces and any size of the buffer. *)
THEOREM NoPieceIsLost == DownloadSpec => []NoVerifiedPieceIsLost
<1> DEFINE I == HandsAreFree /\ Undecided /\ NoVerifiedPieceIsLost
<1>1. DownloadInit => I
  <2> SUFFICES ASSUME DownloadInit PROVE I
    OBVIOUS
  <2>1. HandsAreFree /\ Undecided
    BY DEF DownloadInit, Init, CoordInit, HandsAreFree, Undecided
  <2>2. onDisk = {i \in Piece : pieces[i] = "complete"}
    BY DEF DownloadInit
  <2> QED  BY <2>1, <2>2 DEF NoVerifiedPieceIsLost
<1>2. SwarmInv /\ I /\ [DownloadNext]_downloadVars => I'
  <2> SUFFICES ASSUME SwarmInv, I, [DownloadNext]_downloadVars PROVE I'
    OBVIOUS
  <2>1. AssignmentInv /\ ConnTypes
    BY DEF SwarmInv
  <2>2. [CoordNext]_vars
    BY <2>1, DownloadStepImplementsCoord
  <2>3. /\ Undecided'
        /\ onDisk \subseteq onDisk'
        /\ outcome = "error" => outcome' = "error"
        /\ ctxDone => ctxDone'
        /\ WriteResult => outcome' = "error" \/ Head(results) \in onDisk'
    BY MainLoopFacts
  <2>4. HandsAreFree'
    BY <2>1, <2>2, PiecesAreCarried
  <2>5. ASSUME ~ctxDone', outcome' # "error", NEW i \in Piece,
               pieces'[i] = "complete"
        PROVE  i \in onDisk' \/ Carried(i)'
    <3>1. ~ctxDone /\ outcome # "error"
      BY <2>3, <2>5
    <3>2. /\ pieces[i] = "complete" \/ Carried(i)'
          /\ Carried(i) => Carried(i)' \/ (TakeResult /\ Head(results) = i)
      BY <2>1, <2>2, <2>5, <3>1, PiecesAreCarried
    <3>3. CASE pieces[i] = "complete"
      <4>1. i \in onDisk \/ Carried(i)
        BY <3>1, <3>3 DEF NoVerifiedPieceIsLost, Carried
      <4>2. CASE TakeResult /\ Head(results) = i
        BY <2>1, <2>3, <2>5, <4>2, OnlyWriteTakes
      <4> QED  BY <2>3, <3>2, <4>1, <4>2
    <3> QED  BY <3>2, <3>3
  <2>6. NoVerifiedPieceIsLost'
    BY <2>5 DEF NoVerifiedPieceIsLost, Carried
  <2> QED  BY <2>3, <2>4, <2>6
<1>3. I => NoVerifiedPieceIsLost
  OBVIOUS
<1> QED  BY <1>1, <1>2, <1>3, DownloadKeepsSwarmInv, PTL DEF DownloadSpec

=============================================================================
