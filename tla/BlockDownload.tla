--------------------------- MODULE BlockDownload ---------------------------
(***************************************************************************)
(* How one connection downloads pieces block by block (internal/download:  *)
(* piece.go, Piece and downloadBlocks, called from runConnection in        *)
(* worker.go; internal/peer/payload.go, ParsePiecePayload; the block       *)
(* geometry of internal/piece/geometry.go), against a remote peer at the   *)
(* other end of a TCP connection.                                          *)
(*                                                                         *)
(* The goroutine keeps the block accounting of the piece in flight; the    *)
(* wire is a FIFO each way.  The peer answers the requests it got in any   *)
(* order, chokes and unchokes us; a faulty one also sends the messages of  *)
(* Junk, and its connection may die.  It still holds the requests of a     *)
(* piece whose download was cancelled: a CancelPiece command never becomes *)
(* a message.                                                              *)
(* What the connection tells the coordinator is in Swarm.tla.              *)
(***************************************************************************)
EXTENDS Integers, Sequences, FiniteSets, SequencesExt

CONSTANTS
  PieceCount,    \* pieces of the torrent
  Length,        \* bytes of each piece (work.Length)
  BlockSize,     \* geometry.go: BlockSize
  BacklogLimit,  \* config.go: backlogLimit
  Junk,          \* messages a faulty peer sends that answer no request
  MaxDownloads,  \* bound: pieces assigned during one connection, by faulty
  MaxChokes,     \* bound: times the peer chokes us
  WireLimit      \* bound: messages on their way to us, by faulty

Piece   == 0 .. PieceCount - 1
NoPiece == -1

Message == [type : {"choke", "unchoke"}]
             \cup [type : {"piece"}, index : Nat, begin : Nat, length : Int,
                   good : BOOLEAN]

ASSUME LengthAssumption    == Length \in [Piece -> Nat \ {0}]
ASSUME BlockSizeAssumption == BlockSize \in Nat \ {0}
ASSUME BacklogAssumption   == BacklogLimit \in Nat \ {0}
ASSUME JunkAssumption      == Junk \subseteq Message

ChokeMsg    == [type |-> "choke"]
UnchokeMsg  == [type |-> "unchoke"]
PieceMsg(i, begin, length, good) ==
  [type |-> "piece", index |-> i, begin |-> begin, length |-> length, good |-> good]

-----------------------------------------------------------------------------
(* Geometry *)

BlockCount(i) ==
  IF i \in Piece THEN (Length[i] + BlockSize - 1) \div BlockSize ELSE 0
Block(i)      == 0 .. BlockCount(i) - 1

(* BlockBounds *)
Offset(b) == b * BlockSize
BlockLength(i, b) ==
  IF b = BlockCount(i) - 1 THEN Length[i] - Offset(b) ELSE BlockSize

-----------------------------------------------------------------------------
VARIABLES
  status,       \* of the connection: "idle", "downloading" or "closed"
  work,         \* the piece being downloaded, or NoPiece
  requested,    \* its blocks we asked for, or have
  received,     \* its blocks that arrived
  outstanding,  \* requests sent but not yet answered
  remaining,    \* blocks yet to arrive
  buf,          \* what each byte of the piece holds
  peerChoking,  \* conn.PeerChoking, our view of the peer's choke state
  completed,    \* pieces handed to the coordinator as downloaded
  inbox,        \* messages on their way from the peer
  requests,     \* requests on their way to the peer or held by it
  choking,      \* whether the peer does choke us
  started,      \* pieces assigned so far
  chokes,       \* times the peer choked us so far
  faulty        \* whether peer and connection are faulty; never changes

localVars == <<work, requested, received, outstanding, remaining, buf>>
wireVars  == <<inbox, requests, choking, started, chokes, faulty>>
vars      == <<status, localVars, peerChoking, completed, wireVars>>

Byte     == {"hole", "good", "bad"}
Bytes(i) == IF i \in Piece THEN 0 .. Length[i] - 1 ELSE {}
Blank(i) == [n \in Bytes(i) |-> "hole"]

TypeOK ==
  /\ status \in {"idle", "downloading", "closed"}
  /\ work \in Piece \cup {NoPiece}
  /\ status = "downloading" <=> work \in Piece
  /\ requested \in SUBSET Block(work) /\ received \in SUBSET Block(work)
  /\ outstanding \in Nat /\ remaining \in Nat
  /\ buf \in [Bytes(work) -> Byte]
  /\ peerChoking \in BOOLEAN /\ choking \in BOOLEAN
  /\ completed \in SUBSET Piece
  /\ inbox \in Seq(Message)
  /\ requests \in Seq([index : Piece, block : Nat])
  /\ started \in Nat /\ chokes \in Nat /\ faulty \in BOOLEAN

(* A fresh connection: both sides choke. *)
Init ==
  /\ status = "idle"
  /\ work = NoPiece
  /\ requested = {} /\ received = {}
  /\ outstanding = 0 /\ remaining = 0
  /\ buf = Blank(NoPiece)
  /\ peerChoking = TRUE /\ choking = TRUE
  /\ completed = {}
  /\ inbox = <<>> /\ requests = <<>>
  /\ started = 0 /\ chokes = 0
  /\ faulty \in BOOLEAN

-----------------------------------------------------------------------------
(* The connection goroutine *)

(* AssignPiece in the main loop: downloadBlocks sets up its accounting. *)
Begin(i) ==
  /\ status = "idle"
  /\ started < MaxDownloads[faulty]
  /\ started' = started + 1
  /\ status' = "downloading"
  /\ work' = i
  /\ requested' = {} /\ received' = {}
  /\ outstanding' = 0
  /\ remaining' = BlockCount(i)
  /\ buf' = Blank(i)
  /\ UNCHANGED <<peerChoking, completed, inbox, requests, choking, chokes, faulty>>

(* The loop that fills the pipeline.  The select is reached only when it has
   nothing more to send. *)
Unrequested == Block(work) \ requested
CanRequestMutant ==      \* a bug: one request more than the limit
  /\ ~peerChoking
  /\ outstanding <= BacklogLimit
  /\ Unrequested # {}
CanRequest ==
  /\ ~peerChoking
  /\ outstanding < BacklogLimit
  /\ Unrequested # {}

SendRequest ==
  /\ status = "downloading" /\ remaining > 0
  /\ CanRequest
  /\ \E b \in Unrequested :
       /\ \A other \in Unrequested : b <= other      \* nextUnrequestedBlock
       /\ requests' = Append(requests, [index |-> work, block |-> b])
       /\ requested' = requested \cup {b}
  /\ outstanding' = outstanding + 1
  /\ UNCHANGED <<status, work, received, remaining, buf, peerChoking, completed,
                 inbox, choking, started, chokes, faulty>>

Selecting == status = "downloading" /\ remaining > 0 /\ ~CanRequest

(* Reading the next message off the wire. *)
Reading(type) == inbox # <<>> /\ Head(inbox).type = type

(* downloadBlocks returns, and its accounting is gone. *)
Return ==
  /\ work' = NoPiece
  /\ requested' = {} /\ received' = {}
  /\ outstanding' = 0 /\ remaining' = 0
  /\ buf' = Blank(NoPiece)
  /\ UNCHANGED peerChoking

(* The download failed: runConnection returns too. *)
Close ==
  /\ status' = "closed"
  /\ Return
  /\ UNCHANGED completed

(* ParsePiecePayload is given the length of the piece being downloaded, and
   fails the download, whatever piece the block is for. *)
Fits(m) ==
  /\ m.index \in Piece
  /\ m.begin < Length[work]
  /\ m.begin + m.length <= Length[work]

ReceiveBadBlock ==
  /\ Selecting
  /\ Reading("piece")
  /\ ~Fits(Head(inbox))
  /\ inbox' = Tail(inbox)
  /\ Close
  /\ UNCHANGED <<requests, choking, started, chokes, faulty>>

(* A block of another piece, or at an offset that is no block's. *)
Ignored(m) ==
  \/ m.index # work
  \/ m.begin % BlockSize # 0
  \/ m.begin \div BlockSize \notin Block(work)

(* The effect of a block that has not arrived before; nothing for one that has. *)
StoreMutant(b, m) ==     \* a bug: the check for duplicates is missing
  /\ buf' = [n \in DOMAIN buf |->
       IF m.begin <= n /\ n < m.begin + m.length
       THEN IF m.good THEN "good" ELSE "bad"
       ELSE buf[n]]
  /\ received' = received \cup {b}
  /\ requested' = requested \cup {b}
  /\ remaining' = remaining - 1
Store(b, m) ==
  \/ /\ b \in received
     /\ UNCHANGED <<buf, received, requested, remaining>>
  \/ /\ b \notin received
     /\ buf' = [n \in DOMAIN buf |->
          IF m.begin <= n /\ n < m.begin + m.length
          THEN IF m.good THEN "good" ELSE "bad"
          ELSE buf[n]]
     /\ received' = received \cup {b}
     /\ requested' = requested \cup {b}
     /\ remaining' = remaining - 1

Answered == IF outstanding > 0 THEN outstanding - 1 ELSE 0

ReceiveBlock ==
  LET m == Head(inbox) IN
  /\ Selecting
  /\ Reading("piece")
  /\ Fits(m)
  /\ inbox' = Tail(inbox)
  /\ \/ /\ Ignored(m)
        /\ UNCHANGED <<requested, received, outstanding, remaining, buf>>
     \/ /\ ~Ignored(m)
        /\ outstanding' = Answered
        /\ Store(m.begin \div BlockSize, m)
  /\ UNCHANGED <<status, work, peerChoking, completed, requests, choking, started,
                 chokes, faulty>>

(* What has to be asked for again after a choke: all that did not arrive. *)
StillRequestedMutant == requested   \* a bug: what was asked for stays asked for
StillRequested == received
StillOutstandingMutant == outstanding   \* a bug: answers that will not come
StillOutstanding == 0

ReceiveChoke ==
  /\ Selecting
  /\ Reading("choke")
  /\ inbox' = Tail(inbox)
  /\ peerChoking' = TRUE
  /\ outstanding' = StillOutstanding
  /\ requested' = StillRequested
  /\ UNCHANGED <<status, work, received, remaining, buf, completed, requests,
                 choking, started, chokes, faulty>>

ReceiveUnchoke ==
  /\ Selecting
  /\ Reading("unchoke")
  /\ inbox' = Tail(inbox)
  /\ peerChoking' = FALSE
  /\ UNCHANGED <<status, localVars, completed, requests, choking, started,
                 chokes, faulty>>

(* handleMessage in the main loop: a block that arrives too late is dropped. *)
ReadIdle ==
  /\ status = "idle"
  /\ inbox # <<>>
  /\ inbox' = Tail(inbox)
  /\ peerChoking' = IF Reading("piece") THEN peerChoking ELSE Reading("choke")
  /\ UNCHANGED <<status, localVars, completed, requests, choking, started,
                 chokes, faulty>>

(* CancelPiece for the piece in flight: errCancelled. *)
Cancelled ==
  /\ Selecting
  /\ status' = "idle"
  /\ Return
  /\ UNCHANGED <<completed, wireVars>>

(* Every block is there.  The hash decides: PieceDownloaded or PieceFailed. *)
Verified == \A n \in DOMAIN buf : buf[n] = "good"
Finish ==
  /\ status = "downloading" /\ remaining = 0
  /\ \/ /\ Verified
        /\ status' = "idle"
        /\ completed' = completed \cup {work}
        /\ Return
     \/ /\ ~Verified
        /\ Close
  /\ UNCHANGED wireVars

(* pieceTimeout or readTimeout expires, a request cannot be sent, or the
   connection dies. *)
GiveUp ==
  /\ faulty
  /\ status # "closed"
  /\ Close
  /\ UNCHANGED wireVars

Goroutine ==
  \/ SendRequest \/ ReceiveBadBlock \/ ReceiveBlock \/ ReceiveChoke
  \/ ReceiveUnchoke \/ ReadIdle \/ Finish

-----------------------------------------------------------------------------
(* The remote peer *)

Room == Len(inbox) < WireLimit[faulty]
Send(m) == inbox' = Append(inbox, m)

(* It answers one of the requests it got. *)
PeerAnswers ==
  /\ ~choking /\ Room
  /\ \E k \in DOMAIN requests :
       LET r == requests[k] IN
       /\ Send(PieceMsg(r.index, Offset(r.block), BlockLength(r.index, r.block), TRUE))
       /\ requests' = RemoveAt(requests, k)
  /\ UNCHANGED <<status, localVars, peerChoking, completed, choking, started,
                 chokes, faulty>>

(* Choking us it forgets the requests it got; the others are still under way. *)
PeerChokes ==
  /\ ~choking /\ Room
  /\ chokes < MaxChokes
  /\ chokes' = chokes + 1
  /\ choking' = TRUE
  /\ Send(ChokeMsg)
  /\ \E k \in 0 .. Len(requests) : requests' = SubSeq(requests, k + 1, Len(requests))
  /\ UNCHANGED <<status, localVars, peerChoking, completed, started, faulty>>

(* A request that arrives while it chokes us is dropped. *)
PeerDrops ==
  /\ choking
  /\ requests # <<>>
  /\ requests' = Tail(requests)
  /\ UNCHANGED <<status, localVars, peerChoking, completed, inbox, choking, started,
                 chokes, faulty>>

PeerUnchokes ==
  /\ choking /\ Room
  /\ choking' = FALSE
  /\ Send(UnchokeMsg)
  /\ UNCHANGED <<status, localVars, peerChoking, completed, requests, started,
                 chokes, faulty>>

PeerMisbehaves ==
  /\ faulty /\ Room
  /\ \E m \in Junk : Send(m)
  /\ UNCHANGED <<status, localVars, peerChoking, completed, requests, choking,
                 started, chokes, faulty>>

Peer == PeerAnswers \/ PeerChokes \/ PeerDrops \/ PeerUnchokes \/ PeerMisbehaves

Next ==
  \/ \E i \in Piece : Begin(i)
  \/ Goroutine \/ Cancelled \/ GiveUp
  \/ Peer

Spec == Init /\ [][Next]_vars

(* The goroutine runs; a peer that unchoked us answers; one that chokes us
   relents in the end.  Nothing is assumed of the timer or of cancellation. *)
FairSpec == Spec /\ WF_vars(Goroutine) /\ WF_vars(PeerAnswers) /\ WF_vars(PeerUnchokes)

-----------------------------------------------------------------------------
(* Properties *)

(* "A peer that sends the same block twice would otherwise push the count past
   the piece length while leaving a hole" (piece.go): the count reaches zero
   exactly when every block arrived, whatever the peer sends. *)
RemainingIsExact ==
  status = "downloading" => remaining = Cardinality(Block(work) \ received)

(* Each request counted as unanswered is backed by a block that was asked for
   and is missing, and the pipeline is never deeper than the limit. *)
OutstandingIsBacked ==
  status = "downloading" =>
    /\ received \subseteq requested
    /\ outstanding <= Cardinality(requested \ received)
    /\ outstanding <= BacklogLimit

(* The goroutine never waits for a peer that owes it nothing: unchoked in the
   select, at least one missing block has been asked for ("a piece that hangs
   until it times out", piece.go). *)
NoSilentStall ==
  Selecting /\ ~peerChoking => requested \ received # {}

(* What was asked for and is missing is still on its way: the request, its
   answer or the choke that makes us ask again (an honest peer). *)
On(seq, P(_)) == \E k \in DOMAIN seq : P(seq[k])
NothingIsForgotten ==
  ~faulty /\ status = "downloading" /\ ~peerChoking =>
    \/ On(inbox, LAMBDA m : m.type = "choke")
    \/ \A b \in requested \ received :
         \/ On(requests, LAMBDA r : r.index = work /\ r.block = b)
         \/ On(inbox, LAMBDA m : /\ m.type = "piece" /\ m.index = work
                                 /\ m.begin = Offset(b))

(* An honest peer on a working connection is never dropped: no cancelled
   download, choke or late block makes a later download fail (piece.go: a block
   "for a piece we're not downloading - stale" is to be skipped). *)
HonestPeerIsKept == ~faulty => status # "closed"

(* With an honest peer that relents whenever it chokes us, no download needs
   the timer: one that is not cancelled ends with the piece. *)
PieceCompletes == ~faulty /\ status = "downloading" ~> status = "idle"

=============================================================================
