------------------------- MODULE Coordinator_proofs -------------------------
(***************************************************************************)
(* Proofs about the coordinator, for any number of peers, connections and  *)
(* pieces and any order of events.  The invariants on who downloads what   *)
(* are proved together: each is what keeps another one true.               *)
(***************************************************************************)
EXTENDS Coordinator, TLAPS

(* What handing out work does to the board, whichever path it takes: nothing,
   or one new entry for an idle peer on a piece that is not complete and, before
   the endgame, missing. *)
Assigns(a, i) ==
  /\ i \in Piece
  /\ assigned[a] = Idle
  /\ pieces[i] # "complete"
  /\ ~endgame => pieces[i] = "missing"
  /\ channel[commands[a]] = NoCommand
  /\ channel' = [channel EXCEPT ![commands[a]] = AssignPiece(i)]
  /\ pieces' = [pieces EXCEPT ![i] = "inflight"]
  /\ assignments' = [assignments EXCEPT ![i][a][0] = @ + 1]
  /\ assigned' = [assigned EXCEPT ![a] = i]

BoardStep(a) == UNCHANGED board \/ \E i \in Piece : Assigns(a, i)

(* assignAnyMissingTo in the endgame is a board step. *)
LEMMA AssignAnyMissingStep ==
  ASSUME NEW a, NEW mine \in SUBSET Piece, endgame,
         AssignAnyMissingTo(a, mine)
  PROVE  BoardStep(a)
BY DEF AssignAnyMissingTo, LeastCovered, SendAssignCommand, BoardStep, Assigns

(* tryAssign is a board step. *)
LEMMA TryAssignStep ==
  ASSUME NEW a, NEW mine \in SUBSET Piece, NEW avail, NEW choking,
         endgame \in BOOLEAN,
         TryAssign(a, mine, avail, choking)
  PROVE  BoardStep(a)
<1>1. CASE endgame
  BY <1>1, AssignAnyMissingStep DEF TryAssign, BoardStep
<1>2. CASE ~endgame
  BY <1>2 DEF TryAssign, SelectPieceFor, Wanted, SendAssignCommand, BoardStep,
              Assigns
<1> QED  BY <1>1, <1>2

-----------------------------------------------------------------------------
(* The variables an assignment touches, and their types. *)
BoardTypes ==
  /\ pieces \in [Piece -> PieceState]
  /\ assignments \in [Piece -> [Addr -> [Age -> Nat]]]
  /\ assigned \in [Addr -> Piece \cup {Idle}]
  /\ channel \in [Conn -> Command \cup {NoCommand}]

(* The three invariants on the board. *)
BoardInv == BusyPeerIsListed /\ InFlightIffAssigned /\ OneAssigneeBeforeEndgame

(* Facts about the constants: a new and a timed-out age are ages, and Idle is no
   piece. *)
LEMMA AgeFacts == 0 \in Age /\ AssignmentTimeout \in Age /\ Idle \notin Piece
BY TimeoutAssumption DEF Age, Idle, Piece

(* Handing out work keeps the board well typed. *)
LEMMA BoardStepTypes ==
  ASSUME BoardTypes, NEW a \in Addr, BoardStep(a)
  PROVE  BoardTypes'
<1>1. CASE UNCHANGED board
  BY <1>1 DEF BoardTypes, board
<1>2. ASSUME NEW i \in Piece, Assigns(a, i)  PROVE BoardTypes'
  <2>1. pieces' \in [Piece -> PieceState]
    BY <1>2 DEF BoardTypes, Assigns, PieceState
  <2>2. assignments' \in [Piece -> [Addr -> [Age -> Nat]]]
    BY <1>2, AgeFacts DEF BoardTypes, Assigns
  <2>3. assigned' \in [Addr -> Piece \cup {Idle}]
    BY <1>2 DEF BoardTypes, Assigns
  <2>4. AssignPiece(i) \in Command
    BY DEF Command
  <2>5. channel' \in [Conn -> Command \cup {NoCommand}]
    BY <1>2, <2>4 DEF BoardTypes, Assigns
  <2> QED  BY <2>1, <2>2, <2>3, <2>5 DEF BoardTypes
<1> QED  BY <1>1, <1>2 DEF BoardStep

(* Handing out work to a registered peer keeps the board consistent. *)
LEMMA BoardStepKeepsInv ==
  ASSUME BoardTypes, BoardInv, NEW a \in Addr, a \in peers, BoardStep(a),
         peers' = peers, endgame' = endgame
  PROVE  BoardInv'
<1>1. CASE UNCHANGED board
  BY <1>1 DEF board, BoardInv, BusyPeerIsListed, InFlightIffAssigned,
              OneAssigneeBeforeEndgame, Listed, Unassigned
<1>2. ASSUME NEW i \in Piece, Assigns(a, i)  PROVE BoardInv'
  <2>1. /\ assignments'[i][a][0] = assignments[i][a][0] + 1
        /\ \A j \in Piece, b \in Addr, g \in Age :
             (j # i \/ b # a \/ g # 0) => assignments'[j][b][g] = assignments[j][b][g]
        /\ \A j \in Piece, b \in Addr, g \in Age :
             assignments'[j][b][g] \in Nat /\ assignments[j][b][g] \in Nat
    BY <1>2, AgeFacts DEF BoardTypes, Assigns
  <2>2. /\ pieces'[i] = "inflight"
        /\ \A j \in Piece : j # i => pieces'[j] = pieces[j]
    BY <1>2 DEF BoardTypes, Assigns
  <2>3. /\ assigned'[a] = i
        /\ \A b \in Addr : b # a => assigned'[b] = assigned[b]
    BY <1>2 DEF BoardTypes, Assigns
  <2>4. BusyPeerIsListed'
    <3> SUFFICES ASSUME NEW b \in Addr, assigned'[b] # Idle
                 PROVE  b \in peers' /\ Listed(assigned[b], b)'
      BY DEF BusyPeerIsListed
    <3>1. CASE b = a
      BY <3>1, <2>1, <2>3, AgeFacts DEF Listed
    <3>2. CASE b # a
      <4>1. assigned[b] \in Piece /\ b \in peers /\ Listed(assigned[b], b)
        BY <3>2, <2>3 DEF BoardInv, BusyPeerIsListed, BoardTypes
      <4> QED  BY <3>2, <4>1, <2>1, <2>3 DEF Listed
    <3> QED  BY <3>1, <3>2
  <2>5. InFlightIffAssigned'
    <3> SUFFICES ASSUME NEW j \in Piece
                 PROVE  pieces'[j] = "inflight" <=> ~Unassigned(assignments'[j])
      BY DEF InFlightIffAssigned
    <3>1. CASE j = i
      BY <3>1, <2>1, <2>2, AgeFacts DEF Unassigned
    <3>2. CASE j # i
      BY <3>2, <2>1, <2>2 DEF Unassigned, BoardInv, InFlightIffAssigned
    <3> QED  BY <3>1, <3>2
  <2>6. OneAssigneeBeforeEndgame'
    <3> SUFFICES ASSUME ~endgame', NEW j \in Piece, NEW b \in Addr, NEW d \in Addr,
                        NEW g \in Age, NEW h \in Age,
                        assignments'[j][b][g] > 0, assignments'[j][d][h] > 0
                 PROVE  b = d /\ g = h /\ assignments'[j][b][g] = 1
      BY DEF OneAssigneeBeforeEndgame
    <3>1. CASE j = i
      <4>1. Unassigned(assignments[i])
        BY <1>2 DEF Assigns, BoardInv, InFlightIffAssigned
      <4> QED  BY <3>1, <4>1, <2>1 DEF Unassigned
    <3>2. CASE j # i
      BY <3>2, <2>1 DEF BoardInv, OneAssigneeBeforeEndgame
    <3> QED  BY <3>1, <3>2
  <2> QED  BY <2>4, <2>5, <2>6 DEF BoardInv
<1> QED  BY <1>1, <1>2 DEF BoardStep

-----------------------------------------------------------------------------
(* removeAssignee takes away at most one entry, of this peer for this piece. *)
LEMMA RemoveAssigneeFacts ==
  ASSUME BoardTypes, NEW i \in Piece, NEW a \in Addr, RemoveAssignee(i, a)
  PROVE  /\ assignments' \in [Piece -> [Addr -> [Age -> Nat]]]
         /\ \A j \in Piece, b \in Addr :
              (j # i \/ b # a) => assignments'[j][b] = assignments[j][b]
         /\ \A j \in Piece : j # i => assignments'[j] = assignments[j]
         /\ \A g \in Age : assignments'[i][a][g] <= assignments[i][a][g]
<1>1. CASE assignments' = assignments
  BY <1>1 DEF BoardTypes
<1>2. ASSUME NEW g \in Age, assignments[i][a][g] > 0,
             assignments' = [assignments EXCEPT ![i][a][g] = @ - 1]
      PROVE  /\ assignments' \in [Piece -> [Addr -> [Age -> Nat]]]
             /\ \A j \in Piece, b \in Addr :
                  (j # i \/ b # a) => assignments'[j][b] = assignments[j][b]
             /\ \A j \in Piece : j # i => assignments'[j] = assignments[j]
             /\ \A h \in Age : assignments'[i][a][h] <= assignments[i][a][h]
  <2>1. assignments[i][a][g] \in Nat /\ assignments[i][a][g] - 1 \in Nat
    BY <1>2 DEF BoardTypes
  <2> QED  BY <1>2, <2>1 DEF BoardTypes
<1> QED  BY <1>1, <1>2 DEF RemoveAssignee

(* Losing one entry of an idle-to-be peer, and going back to missing with the
   last one, keeps the board consistent. *)
LEMMA RemovalKeepsInv ==
  ASSUME BoardTypes, BoardInv, NEW i \in Piece, NEW a \in Addr,
         RemoveAssignee(i, a),
         pieces' = IF Unassigned(assignments'[i])
                   THEN [pieces EXCEPT ![i] = "missing"] ELSE pieces,
         assigned' = [assigned EXCEPT ![a] = Idle],
         peers \ {a} \subseteq peers', endgame' = endgame,
         Unassigned(assignments[i]) => Unassigned(assignments'[i])
  PROVE  /\ pieces' \in [Piece -> PieceState]
         /\ assigned' \in [Addr -> Piece \cup {Idle}]
         /\ BoardInv'
<1>1. /\ assignments' \in [Piece -> [Addr -> [Age -> Nat]]]
      /\ \A j \in Piece, b \in Addr :
           (j # i \/ b # a) => assignments'[j][b] = assignments[j][b]
      /\ \A j \in Piece : j # i => assignments'[j] = assignments[j]
      /\ \A g \in Age : assignments'[i][a][g] <= assignments[i][a][g]
  BY RemoveAssigneeFacts
<1>2. /\ pieces' \in [Piece -> PieceState]
      /\ \A j \in Piece : j # i => pieces'[j] = pieces[j]
      /\ pieces'[i] = IF Unassigned(assignments'[i]) THEN "missing" ELSE pieces[i]
  BY DEF BoardTypes, PieceState
<1>3. /\ assigned' \in [Addr -> Piece \cup {Idle}]
      /\ assigned'[a] = Idle
      /\ \A b \in Addr : b # a => assigned'[b] = assigned[b]
  BY DEF BoardTypes
<1>4. BusyPeerIsListed'
  <2> SUFFICES ASSUME NEW b \in Addr, assigned'[b] # Idle
               PROVE  b \in peers' /\ Listed(assigned[b], b)'
    BY DEF BusyPeerIsListed
  <2>1. b # a /\ assigned'[b] = assigned[b] /\ assigned[b] \in Piece
    BY <1>3 DEF BoardTypes
  <2>2. b \in peers /\ Listed(assigned[b], b)
    BY <2>1 DEF BoardInv, BusyPeerIsListed
  <2> QED  BY <2>1, <2>2, <1>1 DEF Listed
<1>5. InFlightIffAssigned'
  <2> SUFFICES ASSUME NEW j \in Piece
               PROVE  pieces'[j] = "inflight" <=> ~Unassigned(assignments'[j])
    BY DEF InFlightIffAssigned
  <2>1. pieces[j] = "inflight" <=> ~Unassigned(assignments[j])
    BY DEF BoardInv, InFlightIffAssigned
  <2>2. CASE j = i
    BY <2>1, <2>2, <1>2
  <2>3. CASE j # i
    BY <2>1, <2>3, <1>1, <1>2
  <2> QED  BY <2>2, <2>3
<1>6. OneAssigneeBeforeEndgame'
  <2> SUFFICES ASSUME ~endgame', NEW j \in Piece, NEW b \in Addr, NEW d \in Addr,
                      NEW g \in Age, NEW h \in Age,
                      assignments'[j][b][g] > 0, assignments'[j][d][h] > 0
               PROVE  b = d /\ g = h /\ assignments'[j][b][g] = 1
    BY DEF OneAssigneeBeforeEndgame
  <2>1. \A k \in Piece, e \in Addr, f \in Age :
          /\ assignments'[k][e][f] <= assignments[k][e][f]
          /\ assignments'[k][e][f] \in Nat /\ assignments[k][e][f] \in Nat
    <3> TAKE k \in Piece, e \in Addr, f \in Age
    <3>1. assignments'[k][e][f] \in Nat /\ assignments[k][e][f] \in Nat
      BY <1>1 DEF BoardTypes
    <3>2. CASE k = i /\ e = a
      BY <1>1, <3>1, <3>2
    <3>3. CASE k # i \/ e # a
      <4>1. assignments'[k][e] = assignments[k][e]
        BY <1>1, <3>3
      <4> QED  BY <3>1, <4>1
    <3> QED  BY <3>1, <3>2, <3>3
  <2>2. assignments[j][b][g] > 0 /\ assignments[j][d][h] > 0
    BY <2>1
  <2>3. b = d /\ g = h /\ assignments[j][b][g] = 1
    BY <2>2 DEF BoardInv, OneAssigneeBeforeEndgame
  <2> QED  BY <2>1, <2>3
<1> QED  BY <1>2, <1>3, <1>4, <1>5, <1>6 DEF BoardInv

(* removeAssignee never adds an entry. *)
LEMMA RemovalEmpties ==
  ASSUME BoardTypes, NEW i \in Piece, NEW a \in Addr, RemoveAssignee(i, a),
         Unassigned(assignments[i])
  PROVE  Unassigned(assignments'[i])
<1>1. /\ assignments' \in [Piece -> [Addr -> [Age -> Nat]]]
      /\ \A b \in Addr : b # a => assignments'[i][b] = assignments[i][b]
      /\ \A g \in Age : assignments'[i][a][g] <= assignments[i][a][g]
  BY RemoveAssigneeFacts
<1> SUFFICES ASSUME NEW b \in Addr, NEW g \in Age
             PROVE  assignments'[i][b][g] = 0
  BY DEF Unassigned
<1>2. assignments[i][b][g] = 0
  BY DEF Unassigned
<1>3. assignments'[i][b][g] \in Nat
  BY <1>1
<1>4. CASE b = a
  <2>1. assignments'[i][b][g] <= assignments[i][b][g]
    BY <1>1, <1>4
  <2> QED  BY <1>2, <1>3, <2>1
<1>5. CASE b # a
  BY <1>1, <1>2, <1>5
<1> QED  BY <1>4, <1>5

(* handlePeerLeft, up to the deletion from peers. *)
LEMMA RetireKeepsInv ==
  ASSUME TypeOK, BoardInv, NEW a \in Addr, Retire(a),
         peers \ {a} \subseteq peers', endgame' = endgame
  PROVE  /\ pieces' \in [Piece -> PieceState]
         /\ assignments' \in [Piece -> [Addr -> [Age -> Nat]]]
         /\ assigned' \in [Addr -> Piece \cup {Idle}]
         /\ BoardInv'
<1>0. BoardTypes
  BY DEF TypeOK, BoardTypes
<1>1. CASE assigned[a] = Idle
  <2>1. /\ pieces' = pieces /\ assignments' = assignments
        /\ assigned' = assigned
    BY <1>1 DEF Retire, TypeOK
  <2>2. \A b \in Addr : assigned[b] # Idle => b \in peers'
    BY <1>1 DEF BoardInv, BusyPeerIsListed
  <2> QED
    BY <2>1, <2>2 DEF TypeOK, BoardInv, BusyPeerIsListed, InFlightIffAssigned,
       OneAssigneeBeforeEndgame, Listed, Unassigned
<1>2. CASE assigned[a] # Idle
  <2>1. assigned[a] \in Piece
    BY <1>2 DEF TypeOK
  <2>2. /\ RemoveAssignee(assigned[a], a)
        /\ pieces' = IF Unassigned(assignments'[assigned[a]])
                     THEN [pieces EXCEPT ![assigned[a]] = "missing"] ELSE pieces
        /\ assigned' = [assigned EXCEPT ![a] = Idle]
    BY <1>2 DEF Retire
  <2>3. assignments' \in [Piece -> [Addr -> [Age -> Nat]]]
    BY <1>0, <2>1, <2>2, RemoveAssigneeFacts
  <2>4. Unassigned(assignments[assigned[a]]) => Unassigned(assignments'[assigned[a]])
    BY <1>0, <2>1, <2>2, RemovalEmpties
  <2> QED  BY <1>0, <2>1, <2>2, <2>3, <2>4, RemovalKeepsInv
<1> QED  BY <1>1, <1>2

-----------------------------------------------------------------------------
(* handlePieceDownloaded: the finished piece loses all its entries, and every
   peer that counted as busy with it becomes idle. *)
LEMMA DownloadKeepsInv ==
  ASSUME TypeOK, BoardInv, NEW a \in Addr, NEW i \in Piece,
         pieces' = [pieces EXCEPT ![i] = "complete"],
         assignments' = [assignments EXCEPT ![i] = NoEntries],
         assigned' = FreedBy(i, a),
         peers' = peers, endgame' = endgame
  PROVE  /\ pieces' \in [Piece -> PieceState]
         /\ assignments' \in [Piece -> [Addr -> [Age -> Nat]]]
         /\ assigned' \in [Addr -> Piece \cup {Idle}]
         /\ BoardInv'
<1>1. /\ pieces' \in [Piece -> PieceState]
      /\ pieces'[i] = "complete"
      /\ \A j \in Piece : j # i => pieces'[j] = pieces[j]
  BY DEF TypeOK, PieceState
<1>2. NoEntries \in [Addr -> [Age -> Nat]] /\ Unassigned(NoEntries)
  BY DEF NoEntries, Unassigned
<1>3. /\ assignments' \in [Piece -> [Addr -> [Age -> Nat]]]
      /\ assignments'[i] = NoEntries
      /\ \A j \in Piece : j # i => assignments'[j] = assignments[j]
  BY <1>2 DEF TypeOK
<1>4. /\ assigned' \in [Addr -> Piece \cup {Idle}]
      /\ \A b \in Addr : assigned'[b] # Idle => b # a /\ assigned'[b] = assigned[b]
      /\ \A b \in Losers(i, a) : assigned[b] = i => assigned'[b] = Idle
  BY DEF TypeOK, FreedBy, Losers
<1>5. BusyPeerIsListed'
  <2> SUFFICES ASSUME NEW b \in Addr, assigned'[b] # Idle
               PROVE  b \in peers' /\ Listed(assigned[b], b)'
    BY DEF BusyPeerIsListed
  <2>1. b # a /\ assigned'[b] = assigned[b] /\ assigned[b] \in Piece
    BY <1>4 DEF TypeOK
  <2>2. b \in peers /\ Listed(assigned[b], b)
    BY <2>1 DEF BoardInv, BusyPeerIsListed
  <2>3. assigned[b] # i
    BY <2>1, <2>2, <1>4 DEF Losers
  <2> QED  BY <2>1, <2>2, <2>3, <1>3 DEF Listed
<1>6. InFlightIffAssigned'
  BY <1>1, <1>2, <1>3 DEF BoardInv, InFlightIffAssigned
<1>7. OneAssigneeBeforeEndgame'
  <2> SUFFICES ASSUME ~endgame', NEW j \in Piece, NEW b \in Addr, NEW d \in Addr,
                      NEW g \in Age, NEW h \in Age,
                      assignments'[j][b][g] > 0, assignments'[j][d][h] > 0
               PROVE  b = d /\ g = h /\ assignments'[j][b][g] = 1
    BY DEF OneAssigneeBeforeEndgame
  <2>1. j # i
    BY <1>2, <1>3 DEF Unassigned
  <2> QED  BY <2>1, <1>3 DEF BoardInv, OneAssigneeBeforeEndgame
<1> QED  BY <1>1, <1>3, <1>4, <1>5, <1>6, <1>7 DEF BoardInv

(* freeStaleAssignments: entries that are old enough go, and with them the busy
   mark of their peer and, if none is left, the in-flight mark of the piece. *)
LEMMA FreeStaleKeepsInv ==
  ASSUME TypeOK, BoardInv,
         pieces' = FreedPieces,
         assigned' = FreedPeers,
         assignments' = [i \in Piece |-> Kept(i)],
         peers' = peers, endgame => endgame'
  PROVE  /\ pieces' \in [Piece -> PieceState]
         /\ assignments' \in [Piece -> [Addr -> [Age -> Nat]]]
         /\ assigned' \in [Addr -> Piece \cup {Idle}]
         /\ BoardInv'
<1>1. pieces' \in [Piece -> PieceState]
  BY DEF TypeOK, FreedPieces, PieceState
<1>2. /\ assignments' \in [Piece -> [Addr -> [Age -> Nat]]]
      /\ \A i \in Piece : assignments'[i] = Kept(i)
      /\ \A i \in Piece, a \in Addr, g \in Age :
           assignments'[i][a][g] = IF g = AssignmentTimeout THEN 0
                                   ELSE assignments[i][a][g]
  BY AgeFacts DEF TypeOK, Kept
<1>3. /\ assigned' \in [Addr -> Piece \cup {Idle}]
      /\ \A a \in Addr : assigned'[a] # Idle =>
           assigned'[a] = assigned[a] /\ ~Stale(assigned[a], a)
  BY DEF TypeOK, FreedPeers
<1>4. BusyPeerIsListed'
  <2> SUFFICES ASSUME NEW b \in Addr, assigned'[b] # Idle
               PROVE  b \in peers' /\ Listed(assigned[b], b)'
    BY DEF BusyPeerIsListed
  <2>1. assigned'[b] = assigned[b] /\ assigned[b] \in Piece /\ ~Stale(assigned[b], b)
    BY <1>3 DEF TypeOK
  <2>2. b \in peers /\ Listed(assigned[b], b)
    BY <2>1 DEF BoardInv, BusyPeerIsListed
  <2>3. PICK g \in Age : assignments[assigned[b]][b][g] > 0
    BY <2>2 DEF Listed
  <2>4. g # AssignmentTimeout
    BY <2>1, <2>3 DEF Stale
  <2>5. assignments'[assigned'[b]][b][g] > 0
    BY <2>1, <2>3, <2>4, <1>2
  <2> QED  BY <2>2, <2>5 DEF Listed
<1>5. InFlightIffAssigned'
  <2> SUFFICES ASSUME NEW j \in Piece
               PROVE  pieces'[j] = "inflight" <=> ~Unassigned(assignments'[j])
    BY DEF InFlightIffAssigned
  <2>1. pieces[j] = "inflight" <=> ~Unassigned(assignments[j])
    BY DEF BoardInv, InFlightIffAssigned
  <2>2. pieces'[j] = IF (\E a \in Addr : Stale(j, a)) /\ Unassigned(Kept(j))
                     THEN "missing" ELSE pieces[j]
    BY DEF FreedPieces
  <2>3. CASE \E a \in Addr : Stale(j, a)
    <3>1. ~Unassigned(assignments[j])
      BY <2>3, AgeFacts DEF Stale, Unassigned, TypeOK
    <3> QED  BY <2>1, <2>2, <2>3, <3>1, <1>2
  <2>4. CASE ~\E a \in Addr : Stale(j, a)
    <3>1. \A a \in Addr : assignments[j][a][AssignmentTimeout] = 0
      BY <2>4, AgeFacts DEF Stale, TypeOK
    <3>2. \A a \in Addr, g \in Age : assignments'[j][a][g] = assignments[j][a][g]
      BY <3>1, <1>2
    <3> QED  BY <2>1, <2>2, <2>4, <3>2 DEF Unassigned
  <2> QED  BY <2>3, <2>4
<1>6. OneAssigneeBeforeEndgame'
  <2> SUFFICES ASSUME ~endgame', NEW j \in Piece, NEW b \in Addr, NEW d \in Addr,
                      NEW g \in Age, NEW h \in Age,
                      assignments'[j][b][g] > 0, assignments'[j][d][h] > 0
               PROVE  b = d /\ g = h /\ assignments'[j][b][g] = 1
    BY DEF OneAssigneeBeforeEndgame
  <2>1. /\ assignments'[j][b][g] = assignments[j][b][g]
        /\ assignments'[j][d][h] = assignments[j][d][h]
    BY <1>2
  <2> QED  BY <2>1 DEF BoardInv, OneAssigneeBeforeEndgame
<1> QED  BY <1>1, <1>2, <1>3, <1>4, <1>5, <1>6 DEF BoardInv

(* Time passing changes ages only. *)
LEMMA ElapseKeepsInv ==
  ASSUME TypeOK, BoardInv, Elapse
  PROVE  /\ assignments' \in [Piece -> [Addr -> [Age -> Nat]]]
         /\ BoardInv'
<1> DEFINE T == AssignmentTimeout
<1>0. T \in Nat /\ T > 0 /\ \A g \in Age : g \in Nat /\ g <= T
  BY TimeoutAssumption DEF Age
<1>1. \A g \in Age : (g # 0 => g - 1 \in Age) /\ (g < T => g + 1 \in Age)
  BY <1>0 DEF Age
<1>2. \A i \in Piece, a \in Addr, g \in Age :
        assignments'[i][a][g] =
          IF g = 0 THEN 0
          ELSE IF g < T THEN assignments[i][a][g - 1]
          ELSE assignments[i][a][g - 1] + assignments[i][a][g]
  BY DEF Elapse, Older
<1>3. \A i \in Piece, a \in Addr, g \in Age : assignments[i][a][g] \in Nat
  BY DEF TypeOK
<1>4. assignments' \in [Piece -> [Addr -> [Age -> Nat]]]
  <2>1. assignments' = [i \in Piece |-> [a \in Addr |-> Older(assignments[i][a])]]
    BY DEF Elapse
  <2>2. \A i \in Piece, a \in Addr : Older(assignments[i][a]) \in [Age -> Nat]
    BY <1>0, <1>1, <1>3 DEF Older
  <2> QED  BY <2>1, <2>2
<1>5. \A i \in Piece, a \in Addr, g \in Age :
        assignments[i][a][g] > 0 =>
          assignments'[i][a][IF g < T THEN g + 1 ELSE T] > 0
  <2> TAKE i \in Piece, a \in Addr, g \in Age
  <2> HAVE assignments[i][a][g] > 0
  <2>1. CASE g < T
    <3>1. g + 1 \in Age /\ g + 1 # 0 /\ (g + 1) - 1 = g
      BY <1>0, <1>1, <2>1
    <3>2. g \in Age
      OBVIOUS
    <3> QED  BY <3>1, <1>2, <1>3, <2>1
  <2>2. CASE g = T
    <3>1. T \in Age /\ T # 0 /\ T - 1 \in Age
      BY <1>0, <1>1, <2>2
    <3> QED  BY <3>1, <1>0, <1>2, <1>3, <2>2
  <2> QED  BY <2>1, <2>2, <1>0
<1>6. \A i \in Piece, a \in Addr, g \in Age :
        assignments'[i][a][g] > 0 =>
          \/ g > 0 /\ assignments[i][a][g - 1] > 0
          \/ g = T /\ assignments[i][a][T] > 0
  <2> TAKE i \in Piece, a \in Addr, g \in Age
  <2> HAVE assignments'[i][a][g] > 0
  <2>1. g # 0 /\ g - 1 \in Age /\ g \in Nat
    BY <1>0, <1>1, <1>2
  <2> QED  BY <2>1, <1>0, <1>2, <1>3
<1>7. BusyPeerIsListed'
  <2> SUFFICES ASSUME NEW b \in Addr, assigned'[b] # Idle
               PROVE  b \in peers' /\ Listed(assigned[b], b)'
    BY DEF BusyPeerIsListed
  <2>1. assigned'[b] = assigned[b] /\ assigned[b] \in Piece /\ peers' = peers
    BY DEF TypeOK, Elapse, peerVars
  <2>2. b \in peers /\ Listed(assigned[b], b)
    BY <2>1 DEF BoardInv, BusyPeerIsListed
  <2>3. PICK g \in Age : assignments[assigned[b]][b][g] > 0
    BY <2>2 DEF Listed
  <2>4. (IF g < T THEN g + 1 ELSE T) \in Age
    BY <1>0, <1>1, AgeFacts
  <2> QED  BY <2>1, <2>2, <2>3, <2>4, <1>5 DEF Listed
<1>8. \A i \in Piece : Unassigned(assignments'[i]) <=> Unassigned(assignments[i])
  <2> TAKE i \in Piece
  <2>1. ASSUME Unassigned(assignments[i])  PROVE Unassigned(assignments'[i])
    <3> SUFFICES ASSUME NEW a \in Addr, NEW g \in Age
                 PROVE  assignments'[i][a][g] = 0
      BY DEF Unassigned
    <3>1. assignments'[i][a][g] \in Nat
      BY <1>4
    <3>2. ~(assignments'[i][a][g] > 0)
      BY <1>0, <1>1, <1>6, <2>1, AgeFacts DEF Unassigned
    <3> QED  BY <3>1, <3>2
  <2>2. ASSUME ~Unassigned(assignments[i])  PROVE ~Unassigned(assignments'[i])
    <3>1. PICK a \in Addr, g \in Age : assignments[i][a][g] > 0
      BY <2>2, <1>3 DEF Unassigned
    <3>2. (IF g < T THEN g + 1 ELSE T) \in Age
      BY <1>0, <1>1, AgeFacts
    <3> QED  BY <3>1, <3>2, <1>5 DEF Unassigned
  <2> QED  BY <2>1, <2>2
<1>9. InFlightIffAssigned'
  BY <1>8 DEF Elapse, BoardInv, InFlightIffAssigned
<1>10. OneAssigneeBeforeEndgame'
  <2> SUFFICES ASSUME ~endgame', NEW j \in Piece, NEW b \in Addr, NEW d \in Addr,
                      NEW g \in Age, NEW h \in Age,
                      assignments'[j][b][g] > 0, assignments'[j][d][h] > 0
               PROVE  b = d /\ g = h /\ assignments'[j][b][g] = 1
    BY DEF OneAssigneeBeforeEndgame
  <2> DEFINE From(e, k) == IF k > 0 /\ assignments[j][e][k - 1] > 0 THEN k - 1 ELSE T
  <2>1. \A e \in Addr, k \in Age : assignments'[j][e][k] > 0 =>
          /\ From(e, k) \in Age
          /\ assignments[j][e][From(e, k)] > 0
          /\ From(e, k) = T => k = T
    BY <1>0, <1>1, <1>6, AgeFacts
  <2>2. ~endgame
    BY DEF Elapse
  <2>3. \A e, f \in Addr : \A k, l \in Age :
          assignments[j][e][k] > 0 /\ assignments[j][f][l] > 0
            => e = f /\ k = l /\ assignments[j][e][k] = 1
    BY <2>2 DEF BoardInv, OneAssigneeBeforeEndgame
  <2>4. b = d /\ From(b, g) = From(d, h) /\ assignments[j][b][From(b, g)] = 1
    BY <2>1, <2>3
  <2>5. g = h
    BY <2>1, <2>4, <1>0
  <2>6. assignments'[j][b][g] = 1
    <3>0. g # 0 /\ g - 1 \in Age /\ g \in Nat /\ g <= T
      BY <1>0, <1>1, <1>2
    <3>1. CASE g < T
      <4>1. From(b, g) = g - 1
        BY <2>1, <3>0, <3>1, <1>0
      <4> QED  BY <2>4, <3>0, <3>1, <4>1, <1>2
    <3>2. CASE g = T
      <4>1. CASE assignments[j][b][T - 1] > 0
        <5>1. assignments[j][b][T - 1] = 1
          BY <4>1, <3>0, <3>2, <2>3
        <5>2. assignments[j][b][T] = 0
          <6>1. assignments[j][b][T] \in Nat
            BY <1>3, AgeFacts
          <6>2. T - 1 # T
            BY <1>0
          <6>3. ~(assignments[j][b][T] > 0)
            BY <4>1, <3>0, <3>2, <2>3, <6>2, AgeFacts
          <6> QED  BY <6>1, <6>3
        <5> QED  BY <5>1, <5>2, <3>0, <3>2, <1>2, <1>0
      <4>2. CASE ~(assignments[j][b][T - 1] > 0)
        <5>1. assignments[j][b][T - 1] = 0
          BY <4>2, <3>0, <3>2, <1>3
        <5>2. assignments[j][b][T] = 1
          BY <4>2, <3>0, <3>2, <2>4
        <5> QED  BY <5>1, <5>2, <3>0, <3>2, <1>2, <1>0
      <4> QED  BY <4>1, <4>2
    <3> QED  BY <3>0, <3>1, <3>2, <1>0
  <2> QED  BY <2>4, <2>5, <2>6
<1> QED  BY <1>4, <1>7, <1>9, <1>10 DEF BoardInv

-----------------------------------------------------------------------------
(* Actions that hand out work, and nothing else to the board. *)
LEMMA WorkStepKeepsInv ==
  ASSUME AssignmentInv, NEW a \in peers,
         BoardStep(a),
         UNCHANGED <<endgame, peers, commands, chokeVars, results, sending, ctxDone>>,
         availability' \in [Piece -> Int],
         have' \in [Addr -> SUBSET Piece],
         peerChoking' \in [Addr -> BOOLEAN],
         gotBitfield' \in [Addr -> BOOLEAN],
         \/ UNCHANGED <<phase, todo>>
         \/ /\ phase' \in {"endgame", "offer", "select"}
            /\ todo' \subseteq peers
            /\ phase' = "select" => todo' = {}
            /\ phase' = "endgame" => endgame
  PROVE  AssignmentInv'
<1>1. BoardTypes /\ BoardInv /\ a \in Addr
  BY DEF AssignmentInv, TypeOK, BoardTypes, BoardInv
<1>2. BoardTypes' /\ BoardInv'
  BY <1>1, BoardStepTypes, BoardStepKeepsInv
<1>3. TypeOK'
  BY <1>2 DEF AssignmentInv, TypeOK, BoardTypes, chokeVars
<1>4. RegisteredPeerIsReachable'
  BY DEF AssignmentInv, RegisteredPeerIsReachable
<1>5. LoopStateIsConsistent'
  BY DEF AssignmentInv, LoopStateIsConsistent
<1> QED  BY <1>2, <1>3, <1>4, <1>5 DEF AssignmentInv, BoardInv

(* Counting a bitfield in or out keeps the counts integers. *)
LEMMA CountType ==
  ASSUME NEW avail \in [Piece -> Int], NEW bf, NEW n \in Int
  PROVE  Count(avail, bf, n) \in [Piece -> Int]
BY DEF Count

(* The invariant only depends on these variables: nothing happens to it when
   they keep their values. *)
LEMMA StutterKeepsInv ==
  ASSUME AssignmentInv, UNCHANGED vars
  PROVE  AssignmentInv'
BY DEF AssignmentInv, TypeOK, RegisteredPeerIsReachable, LoopStateIsConsistent,
       BusyPeerIsListed, InFlightIffAssigned, OneAssigneeBeforeEndgame, Listed,
       Unassigned, vars, pieceVars, peerVars, chokeVars, loopVars

(* handleBitfieldReceived: the peer becomes known to hold pieces and may be given
   one. *)
LEMMA BitfieldKeepsInv ==
  ASSUME AssignmentInv, NEW a \in Addr, NEW bf \in SUBSET Piece,
         HandleBitfieldReceived(a, bf)
  PROVE  AssignmentInv'
<1>1. CASE a \notin peers \/ gotBitfield[a]
  <2>1. UNCHANGED vars
    BY <1>1 DEF HandleBitfieldReceived, vars, pieceVars, peerVars, board, AssignmentInv,
       TypeOK
  <2> QED  BY <2>1, StutterKeepsInv
<1>2. CASE a \in peers /\ ~gotBitfield[a]
  <2>1. /\ gotBitfield' = [gotBitfield EXCEPT ![a] = TRUE]
        /\ have' = [have EXCEPT ![a] = bf]
        /\ availability' = Count(availability, bf, 1)
        /\ TryAssign(a, bf, Count(availability, bf, 1), peerChoking[a])
        /\ UNCHANGED <<endgame, peers, commands, peerChoking, chokeVars, results,
                       loopVars, ctxDone>>
    BY <1>2 DEF HandleBitfieldReceived
  <2>2. endgame \in BOOLEAN
    BY DEF AssignmentInv, TypeOK
  <2>3. BoardStep(a)
    BY <2>1, <2>2, TryAssignStep
  <2>4. availability \in [Piece -> Int] /\ 1 \in Int
    BY DEF AssignmentInv, TypeOK
  <2>5. availability' \in [Piece -> Int]
    BY <2>1, <2>4, CountType, Zenon
  <2>6. /\ have' \in [Addr -> SUBSET Piece]
        /\ peerChoking' \in [Addr -> BOOLEAN]
        /\ gotBitfield' \in [Addr -> BOOLEAN]
    BY <2>1 DEF AssignmentInv, TypeOK
  <2> QED  BY <1>2, <2>1, <2>3, <2>5, <2>6, WorkStepKeepsInv DEF loopVars
<1> QED  BY <1>1, <1>2

(* handleHaveReceived. *)
LEMMA HaveKeepsInv ==
  ASSUME AssignmentInv, NEW a \in Addr, NEW i \in Piece, HandleHaveReceived(a, i)
  PROVE  AssignmentInv'
<1>1. CASE a \notin peers \/ i \in have[a]
  <2>1. UNCHANGED vars
    BY <1>1 DEF HandleHaveReceived, vars, pieceVars, peerVars, board
  <2> QED  BY <2>1, StutterKeepsInv
<1>2. CASE a \in peers /\ i \notin have[a]
  <2>1. /\ have' = [have EXCEPT ![a] = @ \cup {i}]
        /\ availability' = Count(availability, {i}, 1)
        /\ TryAssign(a, have[a] \cup {i}, Count(availability, {i}, 1), peerChoking[a])
        /\ UNCHANGED <<endgame, peers, commands, peerChoking, gotBitfield, chokeVars,
                       results, loopVars, ctxDone>>
    BY <1>2 DEF HandleHaveReceived
  <2>2. endgame \in BOOLEAN /\ have[a] \cup {i} \in SUBSET Piece
    BY DEF AssignmentInv, TypeOK
  <2>3. BoardStep(a)
    BY <2>1, <2>2, TryAssignStep
  <2>4. availability \in [Piece -> Int] /\ 1 \in Int
    BY DEF AssignmentInv, TypeOK
  <2>5. availability' \in [Piece -> Int]
    BY <2>1, <2>4, CountType, Zenon
  <2>6. /\ have' \in [Addr -> SUBSET Piece]
        /\ peerChoking' \in [Addr -> BOOLEAN]
        /\ gotBitfield' \in [Addr -> BOOLEAN]
    BY <2>1, <2>2 DEF AssignmentInv, TypeOK
  <2> QED  BY <1>2, <2>1, <2>3, <2>5, <2>6, WorkStepKeepsInv DEF loopVars
<1> QED  BY <1>1, <1>2

(* handleUnchokeReceived. *)
LEMMA UnchokeKeepsInv ==
  ASSUME AssignmentInv, NEW a \in Addr, HandleUnchokeReceived(a)
  PROVE  AssignmentInv'
<1>1. CASE a \notin peers
  <2>1. UNCHANGED vars
    BY <1>1 DEF HandleUnchokeReceived, vars, pieceVars, peerVars, board
  <2> QED  BY <2>1, StutterKeepsInv
<1>2. CASE a \in peers
  <2>1. /\ peerChoking' = [peerChoking EXCEPT ![a] = FALSE]
        /\ TryAssign(a, have[a], availability, FALSE)
        /\ UNCHANGED <<availability, endgame, peers, commands, have, gotBitfield,
                       chokeVars, results, loopVars, ctxDone>>
    BY <1>2 DEF HandleUnchokeReceived
  <2>2. endgame \in BOOLEAN /\ have[a] \in SUBSET Piece
    BY DEF AssignmentInv, TypeOK
  <2>3. BoardStep(a)
    BY <2>1, <2>2, TryAssignStep
  <2>4. /\ availability' \in [Piece -> Int]
        /\ have' \in [Addr -> SUBSET Piece]
        /\ peerChoking' \in [Addr -> BOOLEAN]
        /\ gotBitfield' \in [Addr -> BOOLEAN]
    BY <2>1 DEF AssignmentInv, TypeOK
  <2> QED  BY <1>2, <2>1, <2>3, <2>4, WorkStepKeepsInv DEF loopVars
<1> QED  BY <1>1, <1>2

(* handlePeerReady. *)
LEMMA ReadyKeepsInv ==
  ASSUME AssignmentInv, NEW a \in Addr, HandlePeerReady(a)
  PROVE  AssignmentInv'
<1>1. CASE a \notin peers
  <2>1. UNCHANGED vars
    BY <1>1 DEF HandlePeerReady, vars, pieceVars, peerVars, board
  <2> QED  BY <2>1, StutterKeepsInv
<1>2. CASE a \in peers
  <2>1. /\ TryAssign(a, have[a], availability, peerChoking[a])
        /\ UNCHANGED <<availability, endgame, peers, commands, have, peerChoking,
                       gotBitfield, chokeVars, results, loopVars, ctxDone>>
    BY <1>2 DEF HandlePeerReady
  <2>2. endgame \in BOOLEAN /\ have[a] \in SUBSET Piece
    BY DEF AssignmentInv, TypeOK
  <2>3. BoardStep(a)
    BY <2>1, <2>2, TryAssignStep
  <2> QED  BY <1>2, <2>1, <2>3, WorkStepKeepsInv DEF loopVars, AssignmentInv, TypeOK
<1> QED  BY <1>1, <1>2

(* A turn of either loop of tick. *)
LEMMA VisitKeepsInv ==
  ASSUME AssignmentInv, NEW a \in Addr, EndgameVisit(a) \/ OfferVisit(a)
  PROVE  AssignmentInv'
<1>1. a \in peers /\ endgame \in BOOLEAN /\ have[a] \in SUBSET Piece
      /\ todo \subseteq peers
  BY DEF AssignmentInv, TypeOK, LoopStateIsConsistent, EndgameVisit, OfferVisit
<1>2. UNCHANGED <<availability, endgame, peers, commands, have, peerChoking,
                  gotBitfield, chokeVars, results, sending, ctxDone>>
  BY DEF EndgameVisit, OfferVisit
<1>3. CASE EndgameVisit(a)
  <2>1. endgame
    BY <1>3 DEF EndgameVisit, AssignmentInv, LoopStateIsConsistent
  <2>2. BoardStep(a)
    BY <1>1, <1>3, <2>1, AssignAnyMissingStep DEF EndgameVisit
  <2>3. /\ phase' \in {"endgame", "offer", "select"}
        /\ todo' \subseteq peers
        /\ phase' = "select" => todo' = {}
        /\ phase' = "endgame" => endgame
    BY <1>1, <1>3, <2>1 DEF EndgameVisit, Continue
  <2> QED  BY <1>1, <1>2, <2>2, <2>3, WorkStepKeepsInv DEF AssignmentInv, TypeOK
<1>4. CASE OfferVisit(a)
  <2>1. BoardStep(a)
    BY <1>1, <1>4, TryAssignStep DEF OfferVisit
  <2>2. /\ phase' \in {"offer", "select"}
        /\ todo' \subseteq peers
        /\ phase' = "select" => todo' = {}
    BY <1>1, <1>4 DEF OfferVisit, Continue
  <2> QED  BY <1>1, <1>2, <2>1, <2>2, WorkStepKeepsInv DEF AssignmentInv, TypeOK
<1> QED  BY <1>3, <1>4

-----------------------------------------------------------------------------
(* The other actions *)

(* handlePeerJoined: what an earlier entry of the address was assigned is freed. *)
LEMMA JoinedKeepsInv ==
  ASSUME AssignmentInv, NEW c \in Conn, HandlePeerJoined(c)
  PROVE  AssignmentInv'
<1> DEFINE a == ConnAddr[c]
<1>1. a \in Addr
  BY ConnAddrAssumption
<1>2. TypeOK /\ BoardInv
  BY DEF AssignmentInv, BoardInv
<1>3. /\ Retire(a)
      /\ peers' = peers \cup {a}
      /\ commands' = [commands EXCEPT ![a] = c]
      /\ channel' = [channel EXCEPT ![c] = NoCommand]
      /\ UNCHANGED <<endgame, results, loopVars, ctxDone>>
      /\ Selecting
  BY DEF HandlePeerJoined
<1>4. /\ pieces' \in [Piece -> PieceState]
      /\ assignments' \in [Piece -> [Addr -> [Age -> Nat]]]
      /\ assigned' \in [Addr -> Piece \cup {Idle}]
      /\ BoardInv'
  BY <1>1, <1>2, <1>3, RetireKeepsInv
<1>5. availability' \in [Piece -> Int]
  <2>1. availability \in [Piece -> Int] /\ -1 \in Int
    BY <1>2 DEF TypeOK
  <2>2. availability' = Count(availability, have[a], -1)
    BY <1>3 DEF Retire, NotCounted
  <2> QED  BY <2>1, <2>2, CountType, Zenon
<1>6. TypeOK'
  BY <1>1, <1>2, <1>3, <1>4, <1>5 DEF TypeOK, Retire, SlotWithout, loopVars
<1>7. RegisteredPeerIsReachable'
  BY <1>1, <1>2, <1>3 DEF AssignmentInv, RegisteredPeerIsReachable, TypeOK
<1>8. LoopStateIsConsistent'
  BY <1>3 DEF AssignmentInv, LoopStateIsConsistent, loopVars
<1> QED  BY <1>4, <1>6, <1>7, <1>8 DEF AssignmentInv, BoardInv

(* handlePeerLeft. *)
LEMMA LeftKeepsInv ==
  ASSUME AssignmentInv, NEW a \in Addr, HandlePeerLeft(a)
  PROVE  AssignmentInv'
<1>2. TypeOK /\ BoardInv
  BY DEF AssignmentInv, BoardInv
<1>3. /\ Retire(a)
      /\ peers' = peers \ {a}
      /\ commands' = [commands EXCEPT ![a] = NoConn]
      /\ UNCHANGED <<endgame, channel, results, loopVars, ctxDone>>
      /\ Selecting
  BY DEF HandlePeerLeft
<1>4. /\ pieces' \in [Piece -> PieceState]
      /\ assignments' \in [Piece -> [Addr -> [Age -> Nat]]]
      /\ assigned' \in [Addr -> Piece \cup {Idle}]
      /\ BoardInv'
  BY <1>2, <1>3, RetireKeepsInv
<1>5. availability' \in [Piece -> Int]
  <2>1. availability \in [Piece -> Int] /\ -1 \in Int
    BY <1>2 DEF TypeOK
  <2>2. availability' = Count(availability, have[a], -1)
    BY <1>3 DEF Retire, NotCounted
  <2> QED  BY <2>1, <2>2, CountType, Zenon
<1>6. TypeOK'
  BY <1>2, <1>3, <1>4, <1>5 DEF TypeOK, Retire, SlotWithout, loopVars
<1>7. RegisteredPeerIsReachable'
  BY <1>2, <1>3 DEF AssignmentInv, RegisteredPeerIsReachable, TypeOK
<1>8. LoopStateIsConsistent'
  BY <1>3 DEF AssignmentInv, LoopStateIsConsistent, loopVars, Selecting
<1> QED  BY <1>4, <1>6, <1>7, <1>8 DEF AssignmentInv, BoardInv

(* handlePieceDownloaded: nobody stays listed for, or busy with, the piece. *)
LEMMA DownloadedKeepsInv ==
  ASSUME AssignmentInv, NEW a \in Addr, NEW i \in Piece, HandlePieceDownloaded(a, i)
  PROVE  AssignmentInv'
<1>1. TypeOK /\ BoardInv
  BY DEF AssignmentInv, BoardInv
<1>2. UNCHANGED <<availability, endgame, peers, commands, have, peerChoking,
                  gotBitfield, chokeVars, results, todo, ctxDone>>
  BY DEF HandlePieceDownloaded
<1>3. CASE UNCHANGED <<board, phase, sending>>
  <2>1. UNCHANGED vars
    BY <1>2, <1>3 DEF vars, pieceVars, peerVars, loopVars, board
  <2> QED  BY <2>1, StutterKeepsInv
<1>4. CASE ~UNCHANGED <<board, phase, sending>>
  <2>1. /\ pieces' = [pieces EXCEPT ![i] = "complete"]
        /\ channel' = [c \in Conn |->
             IF channel[c] = NoCommand /\ \E b \in Losers(i, a) : commands[b] = c
             THEN CancelPiece(i) ELSE channel[c]]
        /\ assignments' = [assignments EXCEPT ![i] = NoEntries]
        /\ assigned' = FreedBy(i, a)
        /\ phase' = "deliver"
        /\ sending' = i
        /\ Selecting
    BY <1>4 DEF HandlePieceDownloaded
  <2>2. /\ pieces' \in [Piece -> PieceState]
        /\ assignments' \in [Piece -> [Addr -> [Age -> Nat]]]
        /\ assigned' \in [Addr -> Piece \cup {Idle}]
        /\ BoardInv'
    BY <1>1, <1>2, <2>1, DownloadKeepsInv
  <2>3. CancelPiece(i) \in Command
    BY DEF Command
  <2>4. channel' \in [Conn -> Command \cup {NoCommand}]
    BY <1>1, <2>1, <2>3 DEF TypeOK
  <2>5. TypeOK'
    BY <1>1, <1>2, <2>1, <2>2, <2>4 DEF TypeOK, chokeVars
  <2>6. RegisteredPeerIsReachable'
    BY <1>2 DEF AssignmentInv, RegisteredPeerIsReachable
  <2>7. LoopStateIsConsistent'
    BY <1>2, <2>1 DEF AssignmentInv, LoopStateIsConsistent, Selecting
  <2> QED  BY <2>2, <2>5, <2>6, <2>7 DEF AssignmentInv, BoardInv
<1> QED  BY <1>3, <1>4

(* handlePieceFailed: the piece is missing again once nobody is listed. *)
LEMMA FailedKeepsInv ==
  ASSUME AssignmentInv, NEW a \in Addr, NEW i \in Piece, HandlePieceFailed(a, i)
  PROVE  AssignmentInv'
<1>1. TypeOK /\ BoardInv /\ BoardTypes
  BY DEF AssignmentInv, BoardInv, BoardTypes, TypeOK
<1>2. /\ RemoveAssignee(i, a)
      /\ pieces' = IF Unassigned(assignments'[i])
                   THEN [pieces EXCEPT ![i] = "missing"] ELSE pieces
      /\ assigned' = [assigned EXCEPT ![a] = Idle]
      /\ UNCHANGED <<availability, endgame, peers, commands, have, peerChoking,
                     gotBitfield, chokeVars, channel, results, loopVars, ctxDone>>
  BY DEF HandlePieceFailed
<1>3. assignments' \in [Piece -> [Addr -> [Age -> Nat]]]
  BY <1>1, <1>2, RemoveAssigneeFacts
<1>4. Unassigned(assignments[i]) => Unassigned(assignments'[i])
  BY <1>1, <1>2, RemovalEmpties
<1>5. /\ pieces' \in [Piece -> PieceState]
      /\ assigned' \in [Addr -> Piece \cup {Idle}]
      /\ BoardInv'
  BY <1>1, <1>2, <1>4, RemovalKeepsInv
<1>6. TypeOK'
  BY <1>1, <1>2, <1>3, <1>5 DEF TypeOK, chokeVars, loopVars
<1>7. RegisteredPeerIsReachable' /\ LoopStateIsConsistent'
  BY <1>2 DEF AssignmentInv, RegisteredPeerIsReachable, LoopStateIsConsistent,
              loopVars
<1> QED  BY <1>5, <1>6, <1>7 DEF AssignmentInv, BoardInv

(* tick: what timed out is freed on both sides at once. *)
LEMMA TickKeepsInv ==
  ASSUME AssignmentInv, Tick
  PROVE  AssignmentInv'
<1>1. TypeOK /\ BoardInv
  BY DEF AssignmentInv, BoardInv
<1>2. /\ pieces' = FreedPieces
      /\ assigned' = FreedPeers
      /\ assignments' = [i \in Piece |-> Kept(i)]
      /\ endgame' = (endgame \/ EntersEndgame)
      /\ UNCHANGED <<availability, peers, commands, have, peerChoking, gotBitfield,
                     chokeVars, channel, results, sending, ctxDone>>
      /\ Selecting
  BY DEF Tick
<1>3. /\ pieces' \in [Piece -> PieceState]
      /\ assignments' \in [Piece -> [Addr -> [Age -> Nat]]]
      /\ assigned' \in [Addr -> Piece \cup {Idle}]
      /\ BoardInv'
  BY <1>1, <1>2, FreeStaleKeepsInv
<1>4. /\ phase' \in {"endgame", "offer", "select"}
      /\ todo' \subseteq peers
      /\ phase' = "select" => todo' = {}
      /\ phase' = "endgame" => EntersEndgame
  BY DEF Tick, Continue
<1>5. EntersEndgame \in BOOLEAN
  BY DEF EntersEndgame
<1>6. TypeOK'
  BY <1>1, <1>2, <1>3, <1>4, <1>5 DEF TypeOK, chokeVars
<1>7. RegisteredPeerIsReachable'
  BY <1>2 DEF AssignmentInv, RegisteredPeerIsReachable
<1>8. LoopStateIsConsistent'
  BY <1>2, <1>4 DEF LoopStateIsConsistent
<1> QED  BY <1>3, <1>6, <1>7, <1>8 DEF AssignmentInv, BoardInv

(* Choking sends commands but leaves the board alone. *)
LEMMA SetChokedTypes ==
  ASSUME TypeOK, NEW S \in SUBSET Addr, NEW want \in [Addr -> BOOLEAN],
         SetChoked(S, want)
  PROVE  /\ choked' \in [Addr -> BOOLEAN]
         /\ channel' \in [Conn -> Command \cup {NoCommand}]
<1>1. choked' \in [Addr -> BOOLEAN]
  BY DEF SetChoked, Belief, TypeOK
<1>2. ChokePeer \in Command /\ UnchokePeer \in Command
  BY DEF Command
<1>3. channel' \in [Conn -> Command \cup {NoCommand}]
  BY <1>2 DEF SetChoked, TypeOK
<1> QED  BY <1>1, <1>3

(* A step that changes only choking state and commands of that kind. *)
LEMMA ChokeStepKeepsInv ==
  ASSUME AssignmentInv,
         UNCHANGED <<pieceVars, peerVars, results, loopVars, ctxDone>>,
         choked' \in [Addr -> BOOLEAN],
         interested' \in [Addr -> BOOLEAN],
         optimistic' \in Addr \cup {NoAddr},
         channel' \in [Conn -> Command \cup {NoCommand}]
  PROVE  AssignmentInv'
<1>1. TypeOK'
  BY DEF AssignmentInv, TypeOK, pieceVars, peerVars, loopVars
<1>2. RegisteredPeerIsReachable' /\ LoopStateIsConsistent'
  BY DEF AssignmentInv, RegisteredPeerIsReachable, LoopStateIsConsistent, pieceVars,
         peerVars, loopVars
<1>3. BusyPeerIsListed' /\ InFlightIffAssigned' /\ OneAssigneeBeforeEndgame'
  BY DEF AssignmentInv, BusyPeerIsListed, InFlightIffAssigned,
         OneAssigneeBeforeEndgame, Listed, Unassigned, pieceVars, peerVars
<1> QED  BY <1>1, <1>2, <1>3 DEF AssignmentInv

(* The choke handlers, recalcChoke and rotateOptimistic. *)
LEMMA ChokingKeepsInv ==
  ASSUME AssignmentInv,
         \/ \E a \in Addr : \/ HandleInterestedReceived(a)
                            \/ HandleNotInterestedReceived(a)
         \/ \E best \in SUBSET Addr : RecalcChoke(best)
         \/ RotateOptimistic
  PROVE  AssignmentInv'
<1>0. TypeOK
  BY DEF AssignmentInv
<1>1. ASSUME NEW a \in Addr, HandleInterestedReceived(a)  PROVE AssignmentInv'
  BY <1>0, <1>1, ChokeStepKeepsInv DEF HandleInterestedReceived, TypeOK
<1>2. ASSUME NEW a \in Addr, HandleNotInterestedReceived(a)  PROVE AssignmentInv'
  <2>1. SetChoked({a} \cap peers, [b \in Addr |-> TRUE])
    BY <1>2 DEF HandleNotInterestedReceived
  <2>2. {a} \cap peers \in SUBSET Addr /\ [b \in Addr |-> TRUE] \in [Addr -> BOOLEAN]
    OBVIOUS
  <2>3. /\ choked' \in [Addr -> BOOLEAN]
        /\ channel' \in [Conn -> Command \cup {NoCommand}]
    BY <1>0, <2>1, <2>2, SetChokedTypes
  <2> QED  BY <1>0, <1>2, <2>3, ChokeStepKeepsInv
           DEF HandleNotInterestedReceived, SlotWithout, TypeOK
<1>3. ASSUME NEW best \in SUBSET Addr, RecalcChoke(best)  PROVE AssignmentInv'
  <2>1. PICK want \in [Addr -> BOOLEAN] : SetChoked(peers, want)
    BY <1>3 DEF RecalcChoke
  <2>2. peers \in SUBSET Addr
    BY <1>0 DEF TypeOK
  <2>3. /\ choked' \in [Addr -> BOOLEAN]
        /\ channel' \in [Conn -> Command \cup {NoCommand}]
    BY <1>0, <2>1, <2>2, SetChokedTypes
  <2> QED  BY <1>0, <1>3, <2>3, ChokeStepKeepsInv DEF RecalcChoke, TypeOK
<1>4. ASSUME RotateOptimistic  PROVE AssignmentInv'
  <2>1. PICK S \in SUBSET Addr, want \in [Addr -> BOOLEAN] : SetChoked(S, want)
    BY <1>0, <1>4 DEF RotateOptimistic, TypeOK, Candidates
  <2>2. /\ choked' \in [Addr -> BOOLEAN]
        /\ channel' \in [Conn -> Command \cup {NoCommand}]
    BY <1>0, <2>1, SetChokedTypes
  <2>3. optimistic' \in Addr \cup {NoAddr}
    BY <1>0, <1>4 DEF RotateOptimistic, TypeOK, Candidates
  <2> QED  BY <1>0, <1>4, <2>2, <2>3, ChokeStepKeepsInv DEF RotateOptimistic, TypeOK
<1> QED  BY <1>1, <1>2, <1>3, <1>4

(* The rest: a choke message, the channels, the exits, the shared bitfield. *)
LEMMA PlumbingKeepsInv ==
  ASSUME AssignmentInv,
         \/ \E a \in Addr : HandleChokeReceived(a) \/ \E i \in Piece : SharedBit(a, i)
         \/ \E c \in Conn : TakeCommand(c)
         \/ DeliverResult \/ DropResult \/ Stop \/ TakeResult \/ CancelContext
  PROVE  AssignmentInv'
<1>1. UNCHANGED <<pieceVars, peers, commands, assigned>>
  BY DEF HandleChokeReceived, SharedBit, TakeCommand, DeliverResult, DropResult, Stop,
         TakeResult, CancelContext, peerVars
<1>2. BusyPeerIsListed' /\ InFlightIffAssigned' /\ OneAssigneeBeforeEndgame'
  BY <1>1 DEF AssignmentInv, BusyPeerIsListed, InFlightIffAssigned,
              OneAssigneeBeforeEndgame, Listed, Unassigned, pieceVars
<1>3. RegisteredPeerIsReachable'
  BY <1>1 DEF AssignmentInv, RegisteredPeerIsReachable
<1>4. LoopStateIsConsistent'
  BY <1>1 DEF AssignmentInv, LoopStateIsConsistent, HandleChokeReceived, SharedBit,
     TakeCommand, DeliverResult, DropResult, Stop, TakeResult, CancelContext, loopVars,
     pieceVars, Selecting
<1>5. TypeOK'
  <2>0. TypeOK /\ (phase = "deliver" => sending \in Piece)
    BY DEF AssignmentInv, LoopStateIsConsistent
  <2>1. ASSUME NEW a \in Addr, HandleChokeReceived(a)  PROVE TypeOK'
    BY <2>0, <2>1 DEF TypeOK, HandleChokeReceived, pieceVars, chokeVars, loopVars
  <2>2. ASSUME NEW a \in Addr, NEW i \in Piece, SharedBit(a, i)  PROVE TypeOK'
    BY <2>0, <2>2 DEF TypeOK, SharedBit, pieceVars, chokeVars, loopVars
  <2>3. ASSUME NEW c \in Conn, TakeCommand(c)  PROVE TypeOK'
    BY <2>0, <2>3 DEF TypeOK, TakeCommand, pieceVars, peerVars, chokeVars, loopVars
  <2>4. CASE DeliverResult
    BY <2>0, <2>4 DEF TypeOK, DeliverResult, pieceVars, peerVars, chokeVars
  <2>5. CASE DropResult \/ Stop \/ CancelContext
    BY <2>0, <2>5 DEF TypeOK, DropResult, Stop, CancelContext, pieceVars, peerVars,
                      chokeVars, loopVars
  <2>6. CASE TakeResult
    BY <2>0, <2>6 DEF TypeOK, TakeResult, pieceVars, peerVars, chokeVars, loopVars
  <2> QED  BY <2>1, <2>2, <2>3, <2>4, <2>5, <2>6
<1> QED  BY <1>2, <1>3, <1>4, <1>5 DEF AssignmentInv

-----------------------------------------------------------------------------
(* A coordinator as NewCoordinator and MarkComplete leave it. *)
LEMMA InitEstablishesInv == CoordInit => AssignmentInv
<1> SUFFICES ASSUME CoordInit PROVE AssignmentInv
  OBVIOUS
<1>1. NoEntries \in [Addr -> [Age -> Nat]] /\ Unassigned(NoEntries)
  BY DEF NoEntries, Unassigned
<1>2. TypeOK
  <2>1. /\ pieces \in [Piece -> PieceState]
        /\ availability \in [Piece -> Int]
        /\ assignments \in [Piece -> [Addr -> [Age -> Nat]]]
    BY <1>1 DEF CoordInit, PieceState
  <2>2. /\ commands \in [Addr -> Conn \cup {NoConn}]
        /\ have \in [Addr -> SUBSET Piece]
        /\ assigned \in [Addr -> Piece \cup {Idle}]
        /\ peerChoking \in [Addr -> BOOLEAN]
        /\ gotBitfield \in [Addr -> BOOLEAN]
        /\ interested \in [Addr -> BOOLEAN]
        /\ choked \in [Addr -> BOOLEAN]
        /\ channel \in [Conn -> Command \cup {NoCommand}]
    BY DEF CoordInit
  <2>3. results \in Seq(Piece)
    BY DEF CoordInit
  <2>4. /\ phase \in {"select", "endgame", "offer", "deliver", "stopped"}
        /\ endgame \in BOOLEAN
        /\ ctxDone \in BOOLEAN
        /\ peers \in SUBSET Addr
        /\ todo \in SUBSET Addr
        /\ optimistic \in Addr \cup {NoAddr}
        /\ sending \in Piece \cup {Idle}
    BY DEF CoordInit
  <2> QED  BY <2>1, <2>2, <2>3, <2>4 DEF TypeOK
<1>3. InFlightIffAssigned
  BY <1>1 DEF CoordInit, InFlightIffAssigned
<1>4. OneAssigneeBeforeEndgame
  BY <1>1 DEF CoordInit, OneAssigneeBeforeEndgame, Unassigned
<1> QED
  BY <1>2, <1>3, <1>4 DEF CoordInit, AssignmentInv, RegisteredPeerIsReachable,
     LoopStateIsConsistent, BusyPeerIsListed

(* Every step of the coordinator or of its environment keeps the invariant. *)
LEMMA NextKeepsInv == AssignmentInv /\ [CoordNext]_vars => AssignmentInv'
<1> SUFFICES ASSUME AssignmentInv, [CoordNext]_vars PROVE AssignmentInv'
  OBVIOUS
<1>1. ASSUME NEW c \in Conn, HandlePeerJoined(c) PROVE AssignmentInv'
  BY <1>1, JoinedKeepsInv
<1>2. ASSUME NEW a \in Addr, HandlePeerLeft(a) PROVE AssignmentInv'
  BY <1>2, LeftKeepsInv
<1>3. ASSUME NEW a \in Addr, HandlePeerReady(a) PROVE AssignmentInv'
  BY <1>3, ReadyKeepsInv
<1>4. ASSUME NEW a \in Addr, HandleUnchokeReceived(a) PROVE AssignmentInv'
  BY <1>4, UnchokeKeepsInv
<1>5. ASSUME NEW a \in Addr, EndgameVisit(a) \/ OfferVisit(a) PROVE AssignmentInv'
  BY <1>5, VisitKeepsInv
<1>6. ASSUME NEW a \in Addr, NEW bf \in SUBSET Piece, HandleBitfieldReceived(a, bf)
      PROVE  AssignmentInv'
  BY <1>6, BitfieldKeepsInv
<1>7. ASSUME NEW a \in Addr, NEW i \in Piece, HandleHaveReceived(a, i)
      PROVE  AssignmentInv'
  BY <1>7, HaveKeepsInv
<1>8. ASSUME NEW a \in Addr, NEW i \in Piece, HandlePieceDownloaded(a, i)
      PROVE  AssignmentInv'
  BY <1>8, DownloadedKeepsInv
<1>9. ASSUME NEW a \in Addr, NEW i \in Piece, HandlePieceFailed(a, i)
      PROVE  AssignmentInv'
  BY <1>9, FailedKeepsInv
<1>10. CASE Tick
  BY <1>10, TickKeepsInv
<1>11. CASE Elapse
  <2>1. TypeOK /\ BoardInv
    BY DEF AssignmentInv, BoardInv
  <2>2. /\ assignments' \in [Piece -> [Addr -> [Age -> Nat]]]
        /\ BoardInv'
    BY <1>11, <2>1, ElapseKeepsInv
  <2> QED
    BY <1>11, <2>1, <2>2 DEF Elapse, AssignmentInv, TypeOK, BoardInv,
       RegisteredPeerIsReachable, LoopStateIsConsistent, peerVars, chokeVars, loopVars
<1>12. CASE \/ \E a \in Addr : \/ HandleInterestedReceived(a)
                               \/ HandleNotInterestedReceived(a)
            \/ \E best \in SUBSET Addr : RecalcChoke(best)
            \/ RotateOptimistic
  BY <1>12, ChokingKeepsInv
<1>13. CASE \/ \E a \in Addr : HandleChokeReceived(a) \/ \E i \in Piece : SharedBit(a, i)
            \/ \E c \in Conn : TakeCommand(c)
            \/ DeliverResult \/ DropResult \/ Stop \/ TakeResult \/ CancelContext
  BY <1>13, PlumbingKeepsInv
<1>14. CASE UNCHANGED vars
  BY <1>14, StutterKeepsInv
<1> QED
  BY <1>1, <1>2, <1>3, <1>4, <1>5, <1>6, <1>7, <1>8, <1>9, <1>10, <1>11, <1>12,
     <1>13, <1>14 DEF CoordNext

(* The inductive invariant holds for every number of peers, connections and
   pieces, whatever events the connections report and in whatever order. *)
THEOREM AssignmentInvariant == CoordSpec => []AssignmentInv
BY InitEstablishesInv, NextKeepsInv, PTL DEF CoordSpec

(* Type correctness of the coordinator's state. *)
THEOREM CoordinatorTypes == CoordSpec => []TypeOK
<1>1. AssignmentInv => TypeOK
  BY DEF AssignmentInv
<1> QED  BY <1>1, AssignmentInvariant, PTL

(* A busy peer always has an assignment entry, so assignmentTimeout always
   reaches it (coordinator.go, selection.go). *)
THEOREM BusyPeersAreListed == CoordSpec => []BusyPeerIsListed
<1>1. AssignmentInv => BusyPeerIsListed
  BY DEF AssignmentInv
<1> QED  BY <1>1, AssignmentInvariant, PTL

(* A piece is in flight exactly when it has an assignee: none is ever held
   hostage by nobody (coordinator.go, selection.go, endgame.go). *)
THEOREM InFlightPiecesHaveAssignees == CoordSpec => []InFlightIffAssigned
<1>1. AssignmentInv => InFlightIffAssigned
  BY DEF AssignmentInv
<1> QED  BY <1>1, AssignmentInvariant, PTL

(* Piece state alone prevents duplicate requests until the endgame
   (selection.go, selectPieceFor and assignPiece). *)
THEOREM NoDuplicatesBeforeEndgame == CoordSpec => []OneAssigneeBeforeEndgame
<1>1. AssignmentInv => OneAssigneeBeforeEndgame
  BY DEF AssignmentInv
<1> QED  BY <1>1, AssignmentInvariant, PTL

-----------------------------------------------------------------------------
(* Every step keeps the optimistic slot with an interested, registered peer. *)
LEMMA NextKeepsOptimistic ==
  TypeOK /\ OptimisticHolderIsInterested /\ [CoordNext]_vars
    => OptimisticHolderIsInterested'
<1> SUFFICES ASSUME TypeOK, OptimisticHolderIsInterested, [CoordNext]_vars
             PROVE  OptimisticHolderIsInterested'
  OBVIOUS
<1> USE DEF OptimisticHolderIsInterested
<1>1. ASSUME NEW c \in Conn, HandlePeerJoined(c)
      PROVE  OptimisticHolderIsInterested'
  <2>1. ConnAddr[c] \in Addr
    BY ConnAddrAssumption
  <2> QED  BY <1>1, <2>1 DEF HandlePeerJoined, Retire, SlotWithout, TypeOK
<1>2. ASSUME NEW a \in Addr, HandlePeerLeft(a)
      PROVE  OptimisticHolderIsInterested'
  BY <1>2 DEF HandlePeerLeft, Retire, SlotWithout, TypeOK
<1>3. ASSUME NEW a \in Addr, HandleInterestedReceived(a)
      PROVE  OptimisticHolderIsInterested'
  BY <1>3 DEF HandleInterestedReceived, peerVars, TypeOK
<1>4. ASSUME NEW a \in Addr, HandleNotInterestedReceived(a)
      PROVE  OptimisticHolderIsInterested'
  BY <1>4 DEF HandleNotInterestedReceived, SlotWithout, peerVars, TypeOK
<1>5. ASSUME NEW best \in SUBSET Addr, RecalcChoke(best)
      PROVE  OptimisticHolderIsInterested'
  BY <1>5 DEF RecalcChoke, Candidates, peerVars
<1>6. CASE RotateOptimistic
  BY <1>6 DEF RotateOptimistic, Candidates, peerVars
<1>7. CASE UNCHANGED <<peers, interested, optimistic>>
  BY <1>7
<1>8. CASE UNCHANGED vars
  BY <1>8 DEF vars, peerVars, chokeVars
<1>9. ASSUME NEW a \in Addr, NEW i \in Piece,
             \/ HandleHaveReceived(a, i) \/ SharedBit(a, i)
             \/ HandlePieceDownloaded(a, i) \/ HandlePieceFailed(a, i)
      PROVE  UNCHANGED <<peers, interested, optimistic>>
  BY <1>9 DEF HandleHaveReceived, SharedBit, HandlePieceDownloaded,
              HandlePieceFailed, chokeVars
<1>10. ASSUME NEW a \in Addr, NEW bf \in SUBSET Piece, HandleBitfieldReceived(a, bf)
       PROVE  UNCHANGED <<peers, interested, optimistic>>
  BY <1>10 DEF HandleBitfieldReceived, chokeVars
<1>11. ASSUME NEW a \in Addr,
              \/ HandlePeerReady(a) \/ HandleChokeReceived(a)
              \/ HandleUnchokeReceived(a) \/ EndgameVisit(a) \/ OfferVisit(a)
       PROVE  UNCHANGED <<peers, interested, optimistic>>
  BY <1>11 DEF HandlePeerReady, HandleChokeReceived, HandleUnchokeReceived,
               EndgameVisit, OfferVisit, chokeVars
<1>12. ASSUME \/ \E c \in Conn : TakeCommand(c)
              \/ Tick \/ DeliverResult \/ DropResult \/ Stop
              \/ TakeResult \/ Elapse \/ CancelContext
       PROVE  UNCHANGED <<peers, interested, optimistic>>
  BY <1>12 DEF TakeCommand, Tick, DeliverResult, DropResult, Stop, TakeResult, Elapse,
               CancelContext, peerVars, chokeVars
<1> QED
  BY <1>1, <1>2, <1>3, <1>4, <1>5, <1>6, <1>7, <1>8, <1>9, <1>10, <1>11, <1>12
     DEF CoordNext

(* The optimistic slot is never held by a peer that left or lost interest, so
   the repair in recalcChoke (choke.go) is never needed. *)
THEOREM OptimisticHolders == CoordSpec => []OptimisticHolderIsInterested
<1>1. CoordInit => OptimisticHolderIsInterested
  BY DEF CoordInit, OptimisticHolderIsInterested
<1> QED  BY <1>1, NextKeepsOptimistic, CoordinatorTypes, PTL DEF CoordSpec

=============================================================================
