---------------------------- MODULE Coordinator ----------------------------
(***************************************************************************)
(* The download coordinator (internal/download: coordinator.go,            *)
(* selection.go, endgame.go, availability.go, choke.go): the one goroutine *)
(* that owns which pieces are done, how rare each one is, which peers are  *)
(* connected, who downloads what and whom we choke.                        *)
(*                                                                         *)
(* It is specified the way coordinator_test.go drives it: events in, in    *)
(* any order, commands out.  One action is one trip around the select of   *)
(* Run.  Only the two loops of tick that hand out work peer by peer, and   *)
(* the blocking send of a finished piece, are split into steps, because    *)
(* the connection goroutines run between them; phase is the program        *)
(* counter, and no event is received before it is back at "select".        *)
(*                                                                         *)
(* The connections, the main loop and the clock are the environment here:  *)
(* Swarm.tla replaces them by the goroutines of worker.go.                 *)
(***************************************************************************)
EXTENDS Integers, Sequences, FiniteSets, FiniteSetsExt

CONSTANTS
  Addr,               \* peer addresses (netip.AddrPort), the keys of peers
  Conn,               \* connections; each has a command channel of its own
  ConnAddr,           \* the remote address of each connection
  PieceCount,         \* pieces of the torrent
  EndgameThreshold,   \* config.go: endgameThreshold
  AssignmentTimeout,  \* config.go: assignmentTimeout, in clock steps
  UnchokeSlots,       \* config.go: unchokeSlots
  ResultsBuffer       \* config.go: resultsBufferSize

ASSUME ConnAddrAssumption  == ConnAddr \in [Conn -> Addr]
ASSUME PieceCountAssumption == PieceCount \in Nat \ {0}
ASSUME TimeoutAssumption   == AssignmentTimeout \in Nat \ {0}
ASSUME LimitsAssumption    == /\ EndgameThreshold \in Nat
                              /\ UnchokeSlots \in Nat
                              /\ ResultsBuffer \in Nat \ {0}

-----------------------------------------------------------------------------
(* Types *)

Piece == 0 .. PieceCount - 1
Idle  == -1                        \* peerInfo.assigned of a peer without work
Age   == 0 .. AssignmentTimeout    \* AssignmentTimeout: old enough to be freed

NoAddr == "no address"
NoConn == "no connection"

PieceState == {"missing", "inflight", "complete"}

AssignPiece(i) == [type |-> "assign", index |-> i]
CancelPiece(i) == [type |-> "cancel", index |-> i]
ChokePeer      == [type |-> "choke", index |-> Idle]
UnchokePeer    == [type |-> "unchoke", index |-> Idle]
NoCommand      == [type |-> "none", index |-> Idle]   \* an empty channel

Command == {AssignPiece(i) : i \in Piece} \cup {CancelPiece(i) : i \in Piece}
             \cup {ChokePeer, UnchokePeer}

VARIABLES
  pieces,        \* the coordinator's own view of every piece
  availability,  \* how many connected peers are counted as holding a piece
  assignments,   \* assignments[i][a][g]: entries of age g that piece i has for
                 \*   peer a.  The code's list is in order of age and is only
                 \*   ever searched for the first, so the oldest, match
  endgame,       \* whether duplicate requests are allowed
  peers,         \* the registered addresses; of each of them:
  commands,      \*   the connection whose command channel it is reached on
  have,          \*   the pieces it announced
  assigned,      \*   the piece it is downloading, or Idle
  peerChoking,   \*   whether it chokes us
  gotBitfield,   \*   whether its bitfield was counted
  interested,    \*   whether it wants to download from us
  choked,        \*   whether we believe to be choking it
  optimistic,    \* holder of the optimistic slot (hasOptimistic), or NoAddr
  channel,       \* the command in each connection's channel of capacity one
  results,       \* finished pieces on their way to the main loop
  phase,         \* where the coordinator goroutine is
  todo,          \* peers its current loop has yet to visit
  sending,       \* the piece whose result it is blocked on, or Idle
  ctxDone        \* whether the context was cancelled

pieceVars == <<pieces, availability, assignments, endgame>>
peerVars  == <<peers, commands, have, assigned, peerChoking, gotBitfield>>
chokeVars == <<interested, choked, optimistic>>
loopVars  == <<phase, todo, sending>>
vars      == <<pieceVars, peerVars, chokeVars, channel, results, loopVars,
               ctxDone>>

board == <<pieces, assignments, assigned, channel>>  \* what an assignment touches

NoEntries == [a \in Addr |-> [g \in Age |-> 0]]

TypeOK ==
  /\ pieces \in [Piece -> PieceState]
  /\ availability \in [Piece -> Int]
  /\ assignments \in [Piece -> [Addr -> [Age -> Nat]]]
  /\ endgame \in BOOLEAN
  /\ peers \in SUBSET Addr
  /\ commands \in [Addr -> Conn \cup {NoConn}]
  /\ have \in [Addr -> SUBSET Piece]
  /\ assigned \in [Addr -> Piece \cup {Idle}]
  /\ peerChoking \in [Addr -> BOOLEAN]
  /\ gotBitfield \in [Addr -> BOOLEAN]
  /\ interested \in [Addr -> BOOLEAN]
  /\ choked \in [Addr -> BOOLEAN]
  /\ optimistic \in Addr \cup {NoAddr}
  /\ channel \in [Conn -> Command \cup {NoCommand}]
  /\ results \in Seq(Piece)
  /\ phase \in {"select", "endgame", "offer", "deliver", "stopped"}
  /\ todo \in SUBSET Addr
  /\ sending \in Piece \cup {Idle}
  /\ ctxDone \in BOOLEAN

(* NewCoordinator, after MarkComplete for the pieces resume found on disk. *)
CoordInit ==
  /\ pieces \in [Piece -> {"missing", "complete"}]
  /\ availability = [i \in Piece |-> 0]
  /\ assignments = [i \in Piece |-> NoEntries]
  /\ endgame = FALSE
  /\ peers = {}
  /\ commands = [a \in Addr |-> NoConn]
  /\ have = [a \in Addr |-> {}]
  /\ assigned = [a \in Addr |-> Idle]
  /\ peerChoking = [a \in Addr |-> TRUE]
  /\ gotBitfield = [a \in Addr |-> FALSE]
  /\ interested = [a \in Addr |-> FALSE]
  /\ choked = [a \in Addr |-> TRUE]
  /\ optimistic = NoAddr
  /\ channel = [c \in Conn |-> NoCommand]
  /\ results = <<>>
  /\ phase = "select"
  /\ todo = {}
  /\ sending = Idle
  /\ ctxDone = FALSE

-----------------------------------------------------------------------------
(* Who is downloading what *)

Listed(i, a)        == \E g \in Age : assignments[i][a][g] > 0
Unassigned(entries) == \A a \in Addr, g \in Age : entries[a][g] = 0

Assignees(i) ==      \* len(c.assignments[i])
  MapThenSumSet(LAMBDA e : assignments[i][e[1]][e[2]], Addr \X Age)

Remaining == {i \in Piece : pieces[i] # "complete"}

(* A bug the model can show: the entry is taken without looking for it. *)
RemoveAssigneeMutant(i, a) == assignments' = [assignments EXCEPT ![i][a][0] = @ - 1]

(* removeAssignee: the first, so the oldest, entry of a goes. *)
RemoveAssignee(i, a) ==
  \/ /\ ~Listed(i, a)
     /\ assignments' = assignments
  \/ \E g \in Age :
       /\ assignments[i][a][g] > 0
       /\ \A h \in Age : h > g => assignments[i][a][h] = 0
       /\ assignments' = [assignments EXCEPT ![i][a][g] = @ - 1]

-----------------------------------------------------------------------------
(* Handing out work.  These formulas say how the board changes; mine, avail
   and choking are the peer's pieces, the rarity counts and the peer's choke
   state as the calling handler has just updated them. *)

(* sendAssignCommand and the p.assigned = index of its two callers: nothing
   happens when the channel of the peer is full. *)
SendAssignCommand(a, i) ==
  LET c == commands[a] IN
  \/ /\ channel[c] # NoCommand
     /\ UNCHANGED board
  \/ /\ channel[c] = NoCommand
     /\ channel' = [channel EXCEPT ![c] = AssignPiece(i)]
     /\ pieces' = [pieces EXCEPT ![i] = "inflight"]
     /\ assignments' = [assignments EXCEPT ![i][a][0] = @ + 1]
     /\ assigned' = [assigned EXCEPT ![a] = i]

(* A bug the model can show: in-flight pieces are offered too. *)
WantedMutant(mine) == {i \in mine : pieces[i] # "complete"}
Wanted(mine) == {i \in mine : pieces[i] = "missing"}

(* selectPieceFor: any of the rarest missing pieces the peer holds. *)
SelectPieceFor(mine, avail) ==
  {i \in Wanted(mine) : \A j \in Wanted(mine) : avail[i] <= avail[j]}

(* assignAnyMissingTo: the incomplete piece with the fewest assignees, the
   lowest index among equals. *)
LeastCovered(mine) ==
  LET open == {i \in mine : pieces[i] # "complete"}
  IN  {i \in open : \A j \in open :
         \/ Assignees(i) < Assignees(j)
         \/ Assignees(i) = Assignees(j) /\ i <= j}

AssignAnyMissingTo(a, mine) ==
  \/ /\ assigned[a] # Idle \/ LeastCovered(mine) = {}
     /\ UNCHANGED board
  \/ /\ assigned[a] = Idle
     /\ \E i \in LeastCovered(mine) : SendAssignCommand(a, i)

TryAssign(a, mine, avail, choking) ==
  \/ /\ assigned[a] # Idle \/ choking
     /\ UNCHANGED board
  \/ /\ assigned[a] = Idle /\ ~choking /\ endgame
     /\ AssignAnyMissingTo(a, mine)
  \/ /\ assigned[a] = Idle /\ ~choking /\ ~endgame
     /\ \/ /\ SelectPieceFor(mine, avail) = {}
           /\ UNCHANGED board
        \/ \E i \in SelectPieceFor(mine, avail) : SendAssignCommand(a, i)

-----------------------------------------------------------------------------
(* Events about peers coming, going and announcing pieces *)

Selecting == phase = "select"

Count(avail, bf, n) == [i \in Piece |-> IF i \in bf THEN avail[i] + n ELSE avail[i]]

(* handlePeerLeft without the deletion from peers: what a registered peer
   leaves behind is taken back, and its entry is blank.  For an address that
   is not registered the entry is blank already and nothing changes. *)
NotCountedMutant(a) == availability     \* a bug: a replaced entry stays counted
NotCounted(a) == Count(availability, have[a], -1)
SlotWithoutMutant(a) == optimistic      \* a bug: the slot is not given back
SlotWithout(a) == IF optimistic = a THEN NoAddr ELSE optimistic

Retire(a) ==
  /\ availability' = NotCounted(a)
  /\ \/ /\ assigned[a] = Idle
        /\ UNCHANGED <<assignments, pieces>>
     \/ /\ assigned[a] # Idle
        /\ RemoveAssignee(assigned[a], a)
        /\ pieces' = IF Unassigned(assignments'[assigned[a]])
                     THEN [pieces EXCEPT ![assigned[a]] = "missing"]
                     ELSE pieces
  /\ have' = [have EXCEPT ![a] = {}]
  /\ assigned' = [assigned EXCEPT ![a] = Idle]
  /\ peerChoking' = [peerChoking EXCEPT ![a] = TRUE]
  /\ gotBitfield' = [gotBitfield EXCEPT ![a] = FALSE]
  /\ interested' = [interested EXCEPT ![a] = FALSE]
  /\ choked' = [choked EXCEPT ![a] = TRUE]
  /\ optimistic' = SlotWithout(a)

(* handlePeerJoined: an entry for the same address is retired first.  The
   connection brings a fresh command channel. *)
HandlePeerJoined(c) ==
  LET a == ConnAddr[c] IN
  /\ Selecting
  /\ Retire(a)
  /\ peers' = peers \cup {a}
  /\ commands' = [commands EXCEPT ![a] = c]
  /\ channel' = [channel EXCEPT ![c] = NoCommand]
  /\ UNCHANGED <<endgame, results, loopVars, ctxDone>>

HandlePeerLeft(a) ==
  /\ Selecting
  /\ Retire(a)
  /\ peers' = peers \ {a}
  /\ commands' = [commands EXCEPT ![a] = NoConn]
  /\ UNCHANGED <<endgame, channel, results, loopVars, ctxDone>>

HandleBitfieldReceived(a, bf) ==
  /\ Selecting
  /\ \/ /\ a \notin peers \/ gotBitfield[a]
        /\ UNCHANGED <<gotBitfield, have, availability, board>>
     \/ /\ a \in peers /\ ~gotBitfield[a]
        /\ gotBitfield' = [gotBitfield EXCEPT ![a] = TRUE]
        /\ have' = [have EXCEPT ![a] = bf]
        /\ availability' = Count(availability, bf, 1)
        /\ TryAssign(a, bf, Count(availability, bf, 1), peerChoking[a])
  /\ UNCHANGED <<endgame, peers, commands, peerChoking, chokeVars, results,
                 loopVars, ctxDone>>

HandleHaveReceived(a, i) ==
  /\ Selecting
  /\ \/ /\ a \notin peers \/ i \in have[a]
        /\ UNCHANGED <<have, availability, board>>
     \/ /\ a \in peers /\ i \notin have[a]
        /\ have' = [have EXCEPT ![a] = @ \cup {i}]
        /\ availability' = Count(availability, {i}, 1)
        /\ TryAssign(a, have[a] \cup {i}, Count(availability, {i}, 1),
                     peerChoking[a])
  /\ UNCHANGED <<endgame, peers, commands, peerChoking, gotBitfield, chokeVars,
                 results, loopVars, ctxDone>>

HandleChokeReceived(a) ==
  /\ Selecting
  /\ peerChoking' = [peerChoking EXCEPT ![a] = TRUE]   \* blank entry: TRUE already
  /\ UNCHANGED <<pieceVars, peers, commands, have, assigned, gotBitfield,
                 chokeVars, channel, results, loopVars, ctxDone>>

HandleUnchokeReceived(a) ==
  /\ Selecting
  /\ \/ /\ a \notin peers
        /\ UNCHANGED <<peerChoking, board>>
     \/ /\ a \in peers
        /\ peerChoking' = [peerChoking EXCEPT ![a] = FALSE]
        /\ TryAssign(a, have[a], availability, FALSE)
  /\ UNCHANGED <<availability, endgame, peers, commands, have, gotBitfield,
                 chokeVars, results, loopVars, ctxDone>>

HandlePeerReady(a) ==
  /\ Selecting
  /\ \/ /\ a \notin peers
        /\ UNCHANGED board
     \/ /\ a \in peers
        /\ TryAssign(a, have[a], availability, peerChoking[a])
  /\ UNCHANGED <<availability, endgame, peers, commands, have, peerChoking,
                 gotBitfield, chokeVars, results, loopVars, ctxDone>>

-----------------------------------------------------------------------------
(* Outcomes of downloads, and the hand-over to the main loop *)

(* cancelOtherAssignees, and the p.assigned = -1 of the winner. *)
Losers(i, winner) == {b \in peers \ {winner} : Listed(i, b)}

(* A bug the model can show: the losers are told but still count as busy. *)
FreedByMutant(i, winner) == [assigned EXCEPT ![winner] = Idle]
FreedBy(i, winner) ==
  [b \in Addr |-> IF b = winner \/ (b \in Losers(i, winner) /\ assigned[b] = i)
                  THEN Idle
                  ELSE assigned[b]]

HandlePieceDownloaded(a, i) ==
  /\ Selecting
  /\ \/ /\ pieces[i] = "complete"
        /\ UNCHANGED <<board, phase, sending>>
     \/ /\ pieces[i] # "complete"
        /\ pieces' = [pieces EXCEPT ![i] = "complete"]
        /\ channel' = [c \in Conn |->
             IF channel[c] = NoCommand /\ \E b \in Losers(i, a) : commands[b] = c
             THEN CancelPiece(i)
             ELSE channel[c]]
        /\ assignments' = [assignments EXCEPT ![i] = NoEntries]
        /\ assigned' = FreedBy(i, a)
        /\ phase' = "deliver"
        /\ sending' = i
  /\ UNCHANGED <<availability, endgame, peers, commands, have, peerChoking,
                 gotBitfield, chokeVars, results, todo, ctxDone>>

(* The select that ends handlePieceDownloaded: the result is sent as soon as
   the buffer has room ... *)
DeliverResult ==
  /\ phase = "deliver"
  /\ Len(results) < ResultsBuffer
  /\ results' = Append(results, sending)
  /\ phase' = "select"
  /\ sending' = Idle
  /\ UNCHANGED <<pieceVars, peerVars, chokeVars, channel, todo, ctxDone>>

(* ... or dropped once the context is cancelled.  A bug the model can show: the
   send is not abandoned. *)
DropResultMutant == FALSE /\ UNCHANGED vars
DropResultEarly ==    \* another: a full buffer is reason enough to drop
  /\ phase = "deliver"
  /\ phase' = "select"
  /\ sending' = Idle
  /\ UNCHANGED <<pieceVars, peerVars, chokeVars, channel, results, todo, ctxDone>>
DropResult ==
  /\ phase = "deliver"
  /\ ctxDone
  /\ phase' = "select"
  /\ sending' = Idle
  /\ UNCHANGED <<pieceVars, peerVars, chokeVars, channel, results, todo, ctxDone>>

HandlePieceFailed(a, i) ==
  /\ Selecting
  /\ RemoveAssignee(i, a)
  /\ pieces' = IF Unassigned(assignments'[i])
               THEN [pieces EXCEPT ![i] = "missing"]
               ELSE pieces
  /\ assigned' = [assigned EXCEPT ![a] = Idle]
  /\ UNCHANGED <<availability, endgame, peers, commands, have, peerChoking,
                 gotBitfield, chokeVars, channel, results, loopVars, ctxDone>>

-----------------------------------------------------------------------------
(* tick: free what timed out, maybe enter the endgame, re-offer work *)

(* freeStaleAssignments *)
Stale(i, a)   == assignments[i][a][AssignmentTimeout] > 0
Kept(i)       == [a \in Addr |-> [assignments[i][a] EXCEPT ![AssignmentTimeout] = 0]]
FreedPiecesMutant == pieces     \* a bug: a piece nobody is left for stays reserved
FreedPieces   == [i \in Piece |->
                    IF (\E a \in Addr : Stale(i, a)) /\ Unassigned(Kept(i))
                    THEN "missing"
                    ELSE pieces[i]]
FreedPeersMutant == assigned    \* a bug: the peer still counts as busy
FreedPeers    == [a \in Addr |-> IF assigned[a] # Idle /\ Stale(assigned[a], a)
                                 THEN Idle
                                 ELSE assigned[a]]

(* A bug the model can show: tick frees assignments and offers nothing. *)
ContinueMutant(loop, left) == phase' = "select" /\ todo' = {}

(* Where a loop over the peers goes on when left is what it has yet to visit:
   after the endgame loop tick runs assignIdlePeers, and then returns. *)
Continue(loop, left) ==
  IF left # {} THEN phase' = loop /\ todo' = left
  ELSE IF loop = "endgame" /\ peers # {} THEN phase' = "offer" /\ todo' = peers
  ELSE phase' = "select" /\ todo' = {}

EntersEndgame ==
  /\ ~endgame
  /\ Remaining # {}
  /\ Cardinality(Remaining) <= EndgameThreshold

Tick ==
  /\ Selecting
  /\ pieces' = FreedPieces
  /\ assigned' = FreedPeers
  /\ assignments' = [i \in Piece |-> Kept(i)]
  /\ endgame' = (endgame \/ EntersEndgame)
  /\ Continue(IF EntersEndgame THEN "endgame" ELSE "offer", peers)
  /\ UNCHANGED <<availability, peers, commands, have, peerChoking, gotBitfield,
                 chokeVars, channel, results, sending, ctxDone>>

(* One turn of the loop of maybeEnterEndgame. *)
EndgameVisit(a) ==
  /\ phase = "endgame"
  /\ a \in todo
  /\ AssignAnyMissingTo(a, have[a])
  /\ Continue("endgame", todo \ {a})
  /\ UNCHANGED <<availability, endgame, peers, commands, have, peerChoking,
                 gotBitfield, chokeVars, results, sending, ctxDone>>

(* One turn of the loop of assignIdlePeers. *)
OfferVisit(a) ==
  /\ phase = "offer"
  /\ a \in todo
  /\ TryAssign(a, have[a], availability, peerChoking[a])
  /\ Continue("offer", todo \ {a})
  /\ UNCHANGED <<availability, endgame, peers, commands, have, peerChoking,
                 gotBitfield, chokeVars, results, sending, ctxDone>>

-----------------------------------------------------------------------------
(* Choking *)

(* setChoked for every peer of S: a command is sent, and the record updated,
   when the state changes and the channel has room. *)
CanTell(a, want) == want # choked[a] /\ channel[commands[a]] = NoCommand

Belief(S, want) ==
  [a \in Addr |-> IF a \in S /\ CanTell(a, want[a]) THEN want[a] ELSE choked[a]]

SetChoked(S, want) ==
  /\ choked' = Belief(S, want)
  /\ channel' = [c \in Conn |->
       LET a == ConnAddr[c] IN
       IF a \in S /\ commands[a] = c /\ CanTell(a, want[a])
       THEN IF want[a] THEN ChokePeer ELSE UnchokePeer
       ELSE channel[c]]

HandleInterestedReceived(a) ==
  /\ Selecting
  /\ interested' = [interested EXCEPT ![a] = a \in peers]
  /\ UNCHANGED <<pieceVars, peerVars, choked, optimistic, channel, results,
                 loopVars, ctxDone>>

HandleNotInterestedReceived(a) ==
  /\ Selecting
  /\ interested' = [interested EXCEPT ![a] = FALSE]
  /\ SetChoked({a} \cap peers, [b \in Addr |-> TRUE])
  /\ optimistic' = SlotWithout(a)
  /\ UNCHANGED <<pieceVars, peerVars, results, loopVars, ctxDone>>

Candidates == {a \in peers : interested[a]}

(* recalcChoke.  best is the head of the candidates sorted by rate: the rates
   belong to RateTracker, so any ranking can come out. *)
RecalcChoke(best) ==
  LET keeps == optimistic # NoAddr /\ optimistic \in Candidates
      unchoked == best \cup (IF keeps THEN {optimistic} ELSE {})
  IN
  /\ Selecting
  /\ best \subseteq Candidates
  /\ Cardinality(best) = Min({UnchokeSlots, Cardinality(Candidates)})
  /\ SetChoked(peers, [a \in Addr |-> a \notin unchoked])
  /\ optimistic' = IF keeps THEN optimistic ELSE NoAddr
  /\ UNCHANGED <<pieceVars, peerVars, interested, results, loopVars, ctxDone>>

(* rotateOptimistic: the holder is choked, and the slot goes to one of the
   other interested peers we choke, whether or not the unchoke fits into its
   channel. *)
RotateOptimistic ==
  LET previous == {optimistic} \cap peers
      next     == {a \in Candidates \ {optimistic} : choked[a]}
  IN
  /\ Selecting
  /\ \/ /\ next = {}
        /\ optimistic' = NoAddr
        /\ SetChoked(previous, [b \in Addr |-> TRUE])
     \/ \E a \in next :
          /\ optimistic' = a
          /\ SetChoked(previous \cup {a}, [b \in Addr |-> b # a])
  /\ UNCHANGED <<pieceVars, peerVars, interested, results, loopVars, ctxDone>>

-----------------------------------------------------------------------------
(* Run's exit, and the coordinator's environment *)

Stop ==
  /\ Selecting
  /\ ctxDone
  /\ phase' = "stopped"
  /\ UNCHANGED <<pieceVars, peerVars, chokeVars, channel, results, todo, sending,
                 ctxDone>>

(* A connection takes the command out of its channel. *)
TakeCommand(c) ==
  /\ channel[c] # NoCommand
  /\ channel' = [channel EXCEPT ![c] = NoCommand]
  /\ UNCHANGED <<pieceVars, peerVars, chokeVars, results, loopVars, ctxDone>>

(* The main loop takes a finished piece. *)
TakeResult ==
  /\ results # <<>>
  /\ results' = Tail(results)
  /\ UNCHANGED <<pieceVars, peerVars, chokeVars, channel, loopVars, ctxDone>>

(* The bitfield a connection reports is the slice it goes on writing to: a
   later have of the peer is in it before the event about it is received. *)
SharedBit(a, i) ==
  /\ a \in peers /\ gotBitfield[a]
  /\ have' = [have EXCEPT ![a] = @ \cup {i}]
  /\ UNCHANGED <<pieceVars, peers, commands, assigned, peerChoking, gotBitfield,
                 chokeVars, channel, results, loopVars, ctxDone>>

(* Time passes: every assignment gets older by one step. *)
Older(ages) ==
  [g \in Age |-> IF g = 0 THEN 0
                 ELSE IF g < AssignmentTimeout THEN ages[g - 1]
                 ELSE ages[g - 1] + ages[g]]
Elapse ==
  /\ assignments' = [i \in Piece |-> [a \in Addr |-> Older(assignments[i][a])]]
  /\ UNCHANGED <<pieces, availability, endgame, peerVars, chokeVars, channel,
                 results, loopVars, ctxDone>>

CancelContext ==
  /\ ~ctxDone
  /\ ctxDone' = TRUE
  /\ UNCHANGED <<pieceVars, peerVars, chokeVars, channel, results, loopVars>>

-----------------------------------------------------------------------------
CoordNext ==
  \/ \E c \in Conn : HandlePeerJoined(c) \/ TakeCommand(c)
  \/ \E a \in Addr :
       \/ HandlePeerLeft(a) \/ HandlePeerReady(a)
       \/ HandleChokeReceived(a) \/ HandleUnchokeReceived(a)
       \/ HandleInterestedReceived(a) \/ HandleNotInterestedReceived(a)
       \/ EndgameVisit(a) \/ OfferVisit(a)
       \/ \E bf \in SUBSET Piece : HandleBitfieldReceived(a, bf)
       \/ \E i \in Piece :
            \/ HandleHaveReceived(a, i) \/ SharedBit(a, i)
            \/ HandlePieceDownloaded(a, i) \/ HandlePieceFailed(a, i)
  \/ \E best \in SUBSET Addr : RecalcChoke(best)
  \/ Tick \/ RotateOptimistic \/ DeliverResult \/ DropResult \/ Stop
  \/ TakeResult \/ Elapse \/ CancelContext

CoordSpec == CoordInit /\ [][CoordNext]_vars

-----------------------------------------------------------------------------
(* Properties *)

(* A peer that counts as busy has an entry that can time out
   (coordinator.go, selection.go: p.assigned against c.assignments), so a
   peer is never parked on an assignment nobody will ever free. *)
BusyPeerIsListed ==
  \A a \in Addr : assigned[a] # Idle => a \in peers /\ Listed(assigned[a], a)

(* A piece is in flight exactly when somebody is listed for it: no piece is
   reserved with nobody left to time out, and none is offered as missing or
   kept as done while it still has assignees. *)
InFlightIffAssigned ==
  \A i \in Piece : pieces[i] = "inflight" <=> ~Unassigned(assignments[i])

(* "Duplicate requests are prevented by piece state alone" (architecture.md):
   until the endgame a piece has at most one assignee entry. *)
OneAssigneeBeforeEndgame ==
  ~endgame =>
    \A i \in Piece : \A a, b \in Addr : \A g, h \in Age :
      assignments[i][a][g] > 0 /\ assignments[i][b][h] > 0
        => a = b /\ g = h /\ assignments[i][a][g] = 1

(* The optimistic slot is held by a registered peer that is interested
   (choke.go: every path that ends either of the two also frees the slot). *)
OptimisticHolderIsInterested ==
  optimistic # NoAddr => optimistic \in peers /\ interested[optimistic]

-----------------------------------------------------------------------------
(* What makes these inductive *)

(* A registered peer is reached on a channel of its own. *)
RegisteredPeerIsReachable ==
  \A a \in peers : commands[a] \in Conn /\ ConnAddr[commands[a]] = a

(* A loop visits registered peers only, the endgame loop runs in the endgame,
   and outside the loops and the blocking send there is nothing left over. *)
LoopStateIsConsistent ==
  /\ todo \subseteq peers
  /\ phase \notin {"endgame", "offer"} => todo = {}
  /\ phase = "endgame" => endgame
  /\ phase = "deliver" => sending \in Piece

AssignmentInv ==
  /\ TypeOK
  /\ RegisteredPeerIsReachable
  /\ LoopStateIsConsistent
  /\ BusyPeerIsListed
  /\ InFlightIffAssigned
  /\ OneAssigneeBeforeEndgame

=============================================================================
