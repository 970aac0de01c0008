------------------------ MODULE BlockDownload_proofs ------------------------
(***************************************************************************)
(* Proofs about the block accounting of downloadBlocks, for pieces of any  *)
(* length, any block size and backlog limit, and a peer that sends any     *)
(* messages in any order.                                                  *)
(***************************************************************************)
EXTENDS BlockDownload, FiniteSetTheorems, SequenceTheorems, TLAPS

(* The accounting invariant: each part needs the others. *)
AccountingInv == TypeOK /\ RemainingIsExact /\ OutstandingIsBacked

(* The blocks of a piece are finitely many, so the code can count them. *)
LEMMA BlocksAreFinite ==
  ASSUME NEW i \in Piece \cup {NoPiece}
  PROVE  /\ BlockCount(i) \in Nat
         /\ IsFiniteSet(Block(i))
         /\ Cardinality(Block(i)) = BlockCount(i)
<1>1. NoPiece \notin Piece
  BY DEF NoPiece, Piece
<1>2. BlockCount(i) \in Nat
  <2>1. CASE i \notin Piece
    BY <2>1 DEF BlockCount
  <2>2. CASE i \in Piece
    <3>1. Length[i] \in Nat \ {0} /\ BlockSize \in Nat \ {0}
      BY <2>2, LengthAssumption, BlockSizeAssumption
    <3>2. ASSUME NEW n \in Nat, NEW k \in Nat \ {0}  PROVE n \div k \in Nat
      OBVIOUS
    <3>3. Length[i] + BlockSize - 1 \in Nat
      BY <3>1
    <3> QED  BY <2>2, <3>1, <3>2, <3>3 DEF BlockCount
  <2> QED  BY <2>1, <2>2
<1>3. Block(i) = 0 .. BlockCount(i) - 1
  BY DEF Block
<1>4. BlockCount(i) - 1 \in Int
  BY <1>2
<1> QED  BY <1>2, <1>3, <1>4, FS_Interval

(* A stretch of a sequence is a sequence of the same things. *)
LEMMA SubSeqType ==
  ASSUME NEW S, NEW s \in Seq(S), NEW m \in Nat \ {0}, NEW n \in Int, n <= Len(s)
  PROVE  SubSeq(s, m, n) \in Seq(S)
<1>1. \A k \in m .. n : k \in 1 .. Len(s)
  OBVIOUS
<1>2. \A k \in m .. n : s[k] \in S
  BY <1>1, ElementOfSeq
<1> QED  BY <1>2, SubSeqProperties

(* Every operation of the peer leaves the accounting alone and keeps the wire
   well typed. *)
LEMMA PeerTypes ==
  ASSUME TypeOK, Peer
  PROVE  TypeOK'
<1> USE DEF TypeOK, Send, localVars
<1>1. CASE PeerAnswers
  <2> DEFINE R == [index : Piece, block : Nat]
  <2>1. PICK k \in DOMAIN requests :
          /\ inbox' = Append(inbox, PieceMsg(requests[k].index,
                        Offset(requests[k].block),
                        BlockLength(requests[k].index, requests[k].block), TRUE))
          /\ requests' = RemoveAt(requests, k)
    BY <1>1 DEF PeerAnswers
  <2>2. requests \in Seq(R) /\ k \in 1 .. Len(requests) /\ Len(requests) \in Nat
    OBVIOUS
  <2>3. requests[k] \in R
    BY <2>2, ElementOfSeq
  <2>4. requests[k].index \in Piece /\ requests[k].block \in Nat
    BY <2>3
  <2>5. Offset(requests[k].block) \in Nat
    BY <2>4, BlockSizeAssumption DEF Offset
  <2>6. BlockLength(requests[k].index, requests[k].block) \in Int
    BY <2>4, <2>5, LengthAssumption, BlockSizeAssumption DEF BlockLength
  <2>7. PieceMsg(requests[k].index, Offset(requests[k].block),
                 BlockLength(requests[k].index, requests[k].block), TRUE) \in Message
    BY <2>4, <2>5, <2>6 DEF PieceMsg, Message, Piece
  <2>8. inbox' \in Seq(Message)
    BY <2>1, <2>7, AppendProperties
  <2>9. requests' \in Seq(R)
    <3>1. k - 1 \in Int /\ k - 1 <= Len(requests) /\ k + 1 \in Nat \ {0}
      BY <2>2
    <3> HIDE DEF R
    <3>2. SubSeq(requests, 1, k - 1) \in Seq(R)
      BY <2>2, <3>1, SubSeqType
    <3>3. SubSeq(requests, k + 1, Len(requests)) \in Seq(R)
      BY <2>2, <3>1, SubSeqType
    <3>4. RemoveAt(requests, k) \in Seq(R)
      BY <3>2, <3>3, ConcatProperties DEF RemoveAt
    <3> QED  BY <2>1, <3>4
  <2> QED  BY <1>1, <2>8, <2>9 DEF PeerAnswers
<1>2. CASE PeerChokes
  <2>1. ChokeMsg \in Message
    BY DEF ChokeMsg, Message
  <2>2. inbox' \in Seq(Message)
    BY <1>2, <2>1 DEF PeerChokes
  <2>3. requests' \in Seq([index : Piece, block : Nat])
    <3> DEFINE R == [index : Piece, block : Nat]
    <3>1. PICK k \in 0 .. Len(requests) :
            requests' = SubSeq(requests, k + 1, Len(requests))
      BY <1>2 DEF PeerChokes
    <3>2. requests \in Seq(R) /\ k + 1 \in Nat \ {0} /\ Len(requests) \in Nat
      OBVIOUS
    <3> HIDE DEF R
    <3>3. SubSeq(requests, k + 1, Len(requests)) \in Seq(R)
      BY <3>2, SubSeqType
    <3> QED  BY <3>1, <3>3 DEF R
  <2> QED  BY <1>2, <2>2, <2>3 DEF PeerChokes
<1>3. CASE PeerDrops
  BY <1>3 DEF PeerDrops
<1>4. CASE PeerUnchokes
  <2>1. UnchokeMsg \in Message
    BY DEF UnchokeMsg, Message
  <2>2. inbox' \in Seq(Message)
    BY <1>4, <2>1 DEF PeerUnchokes
  <2> QED  BY <1>4, <2>2 DEF PeerUnchokes
<1>5. CASE PeerMisbehaves
  <2>1. inbox' \in Seq(Message)
    BY <1>5, JunkAssumption DEF PeerMisbehaves
  <2> QED  BY <1>5, <2>1 DEF PeerMisbehaves
<1> QED  BY <1>1, <1>2, <1>3, <1>4, <1>5 DEF Peer

(* Returning from downloadBlocks leaves nothing to account for. *)
LEMMA ReturnClears ==
  ASSUME TypeOK, Return, status' \in {"idle", "closed"},
         completed' \in SUBSET Piece, inbox' \in Seq(Message),
         UNCHANGED <<requests, choking, started, chokes, faulty>>
  PROVE  AccountingInv'
<1>1. NoPiece \notin Piece
  BY DEF NoPiece, Piece
<1>2. buf' \in [Bytes(NoPiece) -> Byte]
  BY DEF Return, Blank, Byte
<1>3. TypeOK'
  BY <1>1, <1>2 DEF TypeOK, Return
<1> QED  BY <1>3 DEF AccountingInv, RemainingIsExact, OutstandingIsBacked

(* One more request: it is counted, and it is for a missing block. *)
LEMMA SendRequestKeeps ==
  ASSUME AccountingInv, SendRequest
  PROVE  AccountingInv'
<1>1. PICK b \in Unrequested :
        /\ requests' = Append(requests, [index |-> work, block |-> b])
        /\ requested' = requested \cup {b}
  BY DEF SendRequest
<1>2. work \in Piece /\ b \in Block(work) /\ b \notin requested
  BY <1>1 DEF AccountingInv, TypeOK, SendRequest, Unrequested
<1>3. b \in Nat
  BY <1>2 DEF Block
<1>4. TypeOK'
  BY <1>1, <1>2, <1>3 DEF AccountingInv, TypeOK, SendRequest
<1>5. RemainingIsExact'
  BY DEF AccountingInv, RemainingIsExact, SendRequest
<1>6. IsFiniteSet(requested \ received)
  BY <1>2, BlocksAreFinite, FS_Subset DEF AccountingInv, TypeOK
<1>7. Cardinality((requested \ received)') = Cardinality(requested \ received) + 1
  <2>1. (requested \ received)' = (requested \ received) \cup {b}
    BY <1>1, <1>2 DEF AccountingInv, OutstandingIsBacked, SendRequest
  <2> QED  BY <2>1, <1>2, <1>6, FS_AddElement
<1>8. Cardinality(requested \ received) \in Nat
  BY <1>6, FS_CardinalityType
<1>9. OutstandingIsBacked'
  BY <1>1, <1>7, <1>8, BacklogAssumption
     DEF AccountingInv, TypeOK, OutstandingIsBacked, SendRequest, CanRequest
<1> QED  BY <1>4, <1>5, <1>9 DEF AccountingInv

(* A block arrives: a new one is counted once, a known one not at all. *)
LEMMA ReceiveBlockKeeps ==
  ASSUME AccountingInv, ReceiveBlock
  PROVE  AccountingInv'
<1> DEFINE m == Head(inbox)
           b == m.begin \div BlockSize
<1>1. work \in Piece /\ status = "downloading" /\ status' = status /\ work' = work
  BY DEF ReceiveBlock, Selecting, AccountingInv, TypeOK
<1>2. inbox' \in Seq(Message)
  BY DEF ReceiveBlock, Reading, AccountingInv, TypeOK
<1>3. CASE UNCHANGED <<requested, received, outstanding, remaining, buf>>
  <2>1. TypeOK'
    BY <1>2, <1>3 DEF ReceiveBlock, AccountingInv, TypeOK
  <2> QED  BY <1>3, <1>1, <2>1
           DEF AccountingInv, RemainingIsExact, OutstandingIsBacked
<1>4. CASE b \in Block(work) /\ outstanding' = Answered /\ Store(b, m)
  <2>1. IsFiniteSet(Block(work)) /\ IsFiniteSet(requested \ received)
        /\ IsFiniteSet(Block(work) \ received)
    BY <1>1, BlocksAreFinite, FS_Subset DEF AccountingInv, TypeOK
  <2>2. outstanding' \in Nat /\ outstanding' <= outstanding
        /\ (outstanding' = 0 \/ outstanding' = outstanding - 1)
    BY <1>4 DEF Answered, AccountingInv, TypeOK
  <2>3. CASE b \in received
    <3>1. UNCHANGED <<buf, received, requested, remaining>>
      BY <1>4, <2>3 DEF Store
    <3>2. TypeOK'
      BY <1>2, <2>2, <3>1 DEF ReceiveBlock, AccountingInv, TypeOK
    <3>3. Cardinality(requested \ received) \in Nat
      BY <2>1, FS_CardinalityType
    <3> QED  BY <1>1, <2>2, <3>1, <3>2, <3>3, BacklogAssumption
             DEF AccountingInv, TypeOK, RemainingIsExact, OutstandingIsBacked
  <2>4. CASE b \notin received
    <3>1. /\ received' = received \cup {b}
          /\ requested' = requested \cup {b}
          /\ remaining' = remaining - 1
          /\ buf' = [n \in DOMAIN buf |->
               IF m.begin <= n /\ n < m.begin + m.length
               THEN IF m.good THEN "good" ELSE "bad"
               ELSE buf[n]]
      BY <1>4, <2>4 DEF Store
    <3>2. Cardinality((Block(work) \ received)') = Cardinality(Block(work) \ received) - 1
      <4>1. (Block(work) \ received)' = (Block(work) \ received) \ {b}
        BY <1>1, <3>1 DEF Block, BlockCount
      <4>2. b \in Block(work) \ received
        BY <1>4, <2>4
      <4> HIDE DEF b
      <4> QED  BY <4>1, <4>2, <2>1, FS_RemoveElement
    <3>3. remaining' = Cardinality((Block(work) \ received)')
      BY <1>1, <3>1, <3>2 DEF AccountingInv, RemainingIsExact
    <3>4. remaining' \in Nat
      <4>1. IsFiniteSet((Block(work) \ received)')
        BY <1>1, <3>1, <2>1, FS_Subset DEF Block, BlockCount
      <4> QED  BY <4>1, <3>3, FS_CardinalityType
    <3>5. buf' \in [Bytes(work) -> Byte]
      BY <1>1, <3>1 DEF AccountingInv, TypeOK, Byte
    <3>6. TypeOK'
      BY <1>1, <1>2, <1>4, <2>2, <3>1, <3>4, <3>5
         DEF ReceiveBlock, AccountingInv, TypeOK
    <3>7. RemainingIsExact'
      BY <3>3, <1>1 DEF RemainingIsExact
    <3>8. CASE b \in requested
      <4>1. (requested \ received)' = (requested \ received) \ {b}
        BY <3>1, <3>8
      <4>2. Cardinality((requested \ received)') = Cardinality(requested \ received) - 1
        <5>1. b \in requested \ received
          BY <2>4, <3>8
        <5> HIDE DEF b
        <5> QED  BY <4>1, <5>1, <2>1, FS_RemoveElement
      <4>3. Cardinality((requested \ received)') \in Nat
            /\ Cardinality(requested \ received) \in Nat
        BY <4>1, <2>1, FS_CardinalityType, FS_Subset
      <4>4. OutstandingIsBacked'
        BY <1>1, <2>2, <3>1, <4>2, <4>3, BacklogAssumption
           DEF AccountingInv, TypeOK, OutstandingIsBacked
      <4> QED  BY <3>6, <3>7, <4>4 DEF AccountingInv
    <3>9. CASE b \notin requested
      <4>1. (requested \ received)' = requested \ received
        BY <3>1, <3>9
      <4>2. Cardinality(requested \ received) \in Nat
        BY <2>1, FS_CardinalityType
      <4>3. /\ received \subseteq requested
            /\ outstanding <= Cardinality(requested \ received)
            /\ outstanding <= BacklogLimit
            /\ outstanding \in Nat
        BY <1>1 DEF AccountingInv, TypeOK, OutstandingIsBacked
      <4>4. received' \subseteq requested'
        BY <3>1, <4>3
      <4>5. /\ outstanding' <= Cardinality(requested \ received)
            /\ outstanding' <= BacklogLimit
        BY <2>2, <4>2, <4>3, BacklogAssumption
      <4>6. OutstandingIsBacked'
        BY <4>1, <4>4, <4>5 DEF OutstandingIsBacked
      <4> QED  BY <3>6, <3>7, <4>6 DEF AccountingInv
    <3> QED  BY <3>8, <3>9
  <2> QED  BY <2>3, <2>4
<1> QED  BY <1>3, <1>4 DEF ReceiveBlock, Ignored

(* A choke: nothing is outstanding, and what did not arrive is asked for again. *)
LEMMA ReceiveChokeKeeps ==
  ASSUME AccountingInv, ReceiveChoke
  PROVE  AccountingInv'
<1>1. inbox' \in Seq(Message)
  BY DEF ReceiveChoke, Reading, AccountingInv, TypeOK
<1>2. TypeOK'
  BY <1>1 DEF ReceiveChoke, AccountingInv, TypeOK, StillRequested, StillOutstanding
<1>3. (requested \ received)' = {}
  BY DEF ReceiveChoke, StillRequested
<1>4. Cardinality((requested \ received)') = 0
  BY <1>3, FS_EmptySet
<1>5. OutstandingIsBacked'
  BY <1>4, BacklogAssumption DEF OutstandingIsBacked, ReceiveChoke, StillRequested,
     StillOutstanding
<1>6. RemainingIsExact'
  BY DEF AccountingInv, RemainingIsExact, ReceiveChoke
<1> QED  BY <1>2, <1>5, <1>6 DEF AccountingInv

(* The accounting of downloadBlocks is right at all times. *)
THEOREM Accounting == Spec => []AccountingInv
<1>1. Init => AccountingInv
  <2> SUFFICES ASSUME Init PROVE AccountingInv
    OBVIOUS
  <2>1. NoPiece \notin Piece
    BY DEF NoPiece, Piece
  <2>2. buf \in [Bytes(NoPiece) -> Byte]
    BY DEF Init, Blank, Byte
  <2> QED  BY <2>1, <2>2
           DEF Init, AccountingInv, TypeOK, RemainingIsExact, OutstandingIsBacked
<1>2. AccountingInv /\ [Next]_vars => AccountingInv'
  <2> SUFFICES ASSUME AccountingInv, [Next]_vars PROVE AccountingInv'
    OBVIOUS
  <2>1. ASSUME NEW i \in Piece, Begin(i)  PROVE AccountingInv'
    <3>1. buf' \in [Bytes(i) -> Byte]
      BY <2>1 DEF Begin, Blank, Byte
    <3>2. TypeOK'
      BY <2>1, <3>1, BlocksAreFinite DEF Begin, AccountingInv, TypeOK
    <3>3. RemainingIsExact'
      <4>1. (Block(work) \ received)' = Block(i)
        BY <2>1 DEF Begin, Block, BlockCount
      <4> QED  BY <2>1, <4>1, BlocksAreFinite DEF Begin, RemainingIsExact
    <3>4. OutstandingIsBacked'
      <4>1. (requested \ received)' = {}
        BY <2>1 DEF Begin
      <4> QED  BY <2>1, <4>1, FS_EmptySet, BacklogAssumption DEF Begin, OutstandingIsBacked
    <3> QED  BY <3>2, <3>3, <3>4 DEF AccountingInv
  <2>2. CASE SendRequest
    BY <2>2, SendRequestKeeps
  <2>3. CASE ReceiveBadBlock
    BY <2>3, ReturnClears DEF ReceiveBadBlock, Close, Reading, AccountingInv, TypeOK
  <2>4. CASE ReceiveBlock
    BY <2>4, ReceiveBlockKeeps
  <2>5. CASE ReceiveChoke
    BY <2>5, ReceiveChokeKeeps
  <2>6. CASE ReceiveUnchoke \/ ReadIdle
    <3>1. /\ inbox' = Tail(inbox) /\ inbox # <<>>
          /\ peerChoking' \in BOOLEAN
          /\ UNCHANGED <<status, localVars, completed, requests, choking, started,
                         chokes, faulty>>
      BY <2>6 DEF ReceiveUnchoke, ReadIdle, Reading, AccountingInv, TypeOK
    <3>2. TypeOK'
      BY <3>1 DEF AccountingInv, TypeOK, localVars
    <3> QED  BY <3>1, <3>2
             DEF AccountingInv, RemainingIsExact, OutstandingIsBacked, localVars
  <2>7. CASE Finish
    BY <2>7, ReturnClears DEF Finish, Close, wireVars, AccountingInv, TypeOK
  <2>8. CASE Cancelled
    BY <2>8, ReturnClears DEF Cancelled, wireVars, AccountingInv, TypeOK
  <2>9. CASE GiveUp
    BY <2>9, ReturnClears DEF GiveUp, Close, wireVars, AccountingInv, TypeOK
  <2>10. CASE Peer
    <3>1. TypeOK'
      BY <2>10, PeerTypes DEF AccountingInv
    <3>2. UNCHANGED <<status, localVars>>
      BY <2>10 DEF Peer, PeerAnswers, PeerChokes, PeerDrops, PeerUnchokes,
                   PeerMisbehaves
    <3> QED  BY <3>1, <3>2
             DEF AccountingInv, RemainingIsExact, OutstandingIsBacked, localVars
  <2>11. CASE UNCHANGED vars
    BY <2>11 DEF vars, localVars, wireVars, AccountingInv, TypeOK, RemainingIsExact,
                 OutstandingIsBacked
  <2> QED  BY <2>1, <2>2, <2>3, <2>4, <2>5, <2>6, <2>7, <2>8, <2>9, <2>10, <2>11
           DEF Next, Goroutine
<1> QED  BY <1>1, <1>2, PTL DEF Spec

(* The connection's state is well typed: no counter of downloadBlocks goes below
   zero, and no block index out of the piece. *)
THEOREM DownloadTypes == Spec => []TypeOK
<1>1. AccountingInv => TypeOK
  BY DEF AccountingInv
<1> QED  BY <1>1, Accounting, PTL

(* A duplicate or unsolicited block never makes a piece with a hole look
   complete. *)
THEOREM RemainingCountsMissingBlocks == Spec => []RemainingIsExact
<1>1. AccountingInv => RemainingIsExact
  BY DEF AccountingInv
<1> QED  BY <1>1, Accounting, PTL

(* Every request counted as outstanding is backed by a missing block. *)
THEOREM OutstandingCountsMissingBlocks == Spec => []OutstandingIsBacked
<1>1. AccountingInv => OutstandingIsBacked
  BY DEF AccountingInv
<1> QED  BY <1>1, Accounting, PTL

(* Unchoked, the goroutine waits only while a missing block is asked for. *)
THEOREM NeverStallsSilently == Spec => []NoSilentStall
<1>1. AccountingInv => NoSilentStall
  <2> SUFFICES ASSUME AccountingInv, Selecting, ~peerChoking
               PROVE  requested \ received # {}
    BY DEF NoSilentStall
  <2>1. work \in Piece /\ remaining > 0 /\ status = "downloading"
    BY DEF Selecting, AccountingInv, TypeOK
  <2>2. CASE outstanding >= BacklogLimit
    <3>1. outstanding > 0 /\ outstanding <= Cardinality(requested \ received)
      BY <2>1, <2>2, BacklogAssumption DEF AccountingInv, OutstandingIsBacked, TypeOK
    <3>2. SUFFICES ASSUME requested \ received = {} PROVE FALSE
      OBVIOUS
    <3>3. Cardinality(requested \ received) = 0
      BY <3>2, FS_EmptySet
    <3> QED  BY <3>1, <3>3 DEF AccountingInv, TypeOK
  <2>3. CASE Unrequested = {}
    <3>1. Block(work) \ received # {}
      <4>1. SUFFICES ASSUME Block(work) \ received = {} PROVE FALSE
        OBVIOUS
      <4>2. Cardinality(Block(work) \ received) = 0
        BY <4>1, FS_EmptySet
      <4> QED  BY <2>1, <4>2 DEF AccountingInv, RemainingIsExact
    <3> QED  BY <2>3, <3>1 DEF Unrequested
  <2> QED  BY <2>2, <2>3, BacklogAssumption
           DEF Selecting, CanRequest, AccountingInv, TypeOK
<1> QED  BY <1>1, Accounting, PTL

-----------------------------------------------------------------------------
(* Geometry: integer division, and what it says about blocks. *)
LEMMA DivBounds ==
  ASSUME NEW n \in Nat, NEW p \in Nat \ {0}
  PROVE  /\ n \div p \in Nat
         /\ (n \div p) * p <= n /\ n < (n \div p) * p + p
         /\ n = p * (n \div p) + (n % p)
OBVIOUS

(* There is only one quotient. *)
LEMMA DivUnique ==
  ASSUME NEW n \in Nat, NEW p \in Nat \ {0}, NEW q \in Int,
         q * p <= n, n < q * p + p
  PROVE  n \div p = q
OBVIOUS

(* A later block starts where an earlier one has ended, or behind. *)
LEMMA OffsetsGrow ==
  ASSUME NEW b \in Nat, NEW d \in Nat, b < d
  PROVE  Offset(b) + BlockSize <= Offset(d)
<1> DEFINE p == BlockSize
<1>0. p \in Nat \ {0}
  BY BlockSizeAssumption
<1> HIDE DEF p
<1>1. d - b - 1 \in Nat
  OBVIOUS
<1>2. (d - b - 1) * p \in Nat
  BY <1>0, <1>1
<1>3. d * p = (d - b - 1) * p + b * p + p
  BY <1>0
<1>4. b * p + p <= d * p
  BY <1>0, <1>2, <1>3
<1> QED  BY <1>4 DEF p, Offset

(* The last block ends with the piece, and is not empty. *)
LEMMA LastBlock ==
  ASSUME NEW i \in Piece
  PROVE  /\ BlockCount(i) \in Nat \ {0}
         /\ Offset(BlockCount(i) - 1) < Length[i]
         /\ Length[i] <= Offset(BlockCount(i) - 1) + BlockSize
<1> DEFINE L == Length[i]
           p == BlockSize
           n == BlockCount(i)
<1>0. p \in Nat \ {0} /\ L \in Nat \ {0}
  BY BlockSizeAssumption, LengthAssumption
<1>1. n = (L + p - 1) \div p
  BY DEF BlockCount
<1>2. L + p - 1 \in Nat
  BY <1>0
<1> HIDE DEF L, p, n
<1>3. n \in Nat /\ n * p <= L + p - 1 /\ L + p - 1 < n * p + p
  BY <1>0, <1>1, <1>2, DivBounds
<1>4. n # 0
  BY <1>0, <1>3
<1>5. (n - 1) * p = n * p - p
  BY <1>0, <1>3
<1> QED  BY <1>0, <1>3, <1>4, <1>5 DEF L, p, n, Offset

(* BlockBounds: a block lies within its piece, and its offset gives it back. *)
LEMMA BlockGeometry ==
  ASSUME NEW i \in Piece, NEW b \in Block(i)
  PROVE  /\ b \in Nat /\ Offset(b) \in Nat
         /\ Offset(b) % BlockSize = 0
         /\ Offset(b) \div BlockSize = b
         /\ BlockLength(i, b) \in Nat \ {0}
         /\ Offset(b) + BlockLength(i, b) <= Length[i]
<1> DEFINE last == BlockCount(i) - 1
<1>0. BlockSize \in Nat \ {0} /\ Length[i] \in Nat \ {0}
  BY BlockSizeAssumption, LengthAssumption
<1>1. /\ last \in Nat /\ Offset(last) < Length[i]
      /\ Length[i] <= Offset(last) + BlockSize
  BY LastBlock
<1>2. b \in Nat /\ b <= last
  BY <1>1 DEF Block
<1>3. /\ Offset(b) \in Nat /\ Offset(last) \in Nat
      /\ b * BlockSize <= Offset(b) /\ Offset(b) < b * BlockSize + BlockSize
  BY <1>0, <1>1, <1>2 DEF Offset
<1>4. Offset(b) \div BlockSize = b
  BY <1>0, <1>2, <1>3, DivUnique
<1>5. Offset(b) % BlockSize = 0
  <2>1. Offset(b) = BlockSize * (Offset(b) \div BlockSize) + (Offset(b) % BlockSize)
    BY <1>0, <1>3, DivBounds
  <2>2. Offset(b) = BlockSize * b + (Offset(b) % BlockSize)
    BY <1>4, <2>1
  <2>3. Offset(b) = BlockSize * b /\ Offset(b) % BlockSize \in Int
    BY <1>0, <1>2, <1>3 DEF Offset
  <2> DEFINE r == Offset(b) % BlockSize
             q == BlockSize * b
  <2>4. q \in Int /\ r \in Int /\ q = q + r
    BY <1>0, <1>2, <2>2, <2>3
  <2> HIDE DEF r, q
  <2>5. r = 0
    BY <2>4
  <2> QED  BY <2>5 DEF r
<1>6. BlockLength(i, b) \in Nat \ {0} /\ Offset(b) + BlockLength(i, b) <= Length[i]
  <2>1. CASE b = last
    BY <1>0, <1>1, <1>3, <2>1 DEF BlockLength
  <2>2. CASE b # last
    <3>1. b < last
      BY <1>1, <1>2, <2>2
    <3>2. Offset(b) + BlockSize <= Offset(last)
      BY <1>1, <1>2, <3>1, OffsetsGrow
    <3>3. BlockLength(i, b) = BlockSize
      BY <2>2 DEF BlockLength
    <3> QED  BY <1>0, <1>1, <1>3, <3>2, <3>3
  <2> QED  BY <2>1, <2>2
<1> QED  BY <1>2, <1>3, <1>4, <1>5, <1>6

(* The bytes a block holds. *)
Holds(i, b, n) == Offset(b) <= n /\ n < Offset(b) + BlockLength(i, b)

(* Every byte of a piece is in some block of it. *)
LEMMA EveryByteIsInABlock ==
  ASSUME NEW i \in Piece, NEW n \in Bytes(i)
  PROVE  \E b \in Block(i) : Holds(i, b, n)
<1> DEFINE last == BlockCount(i) - 1
           b == n \div BlockSize
<1>0. BlockSize \in Nat \ {0} /\ Length[i] \in Nat \ {0}
  BY BlockSizeAssumption, LengthAssumption
<1>1. n \in Nat /\ n < Length[i]
  BY <1>0 DEF Bytes
<1>2. /\ last \in Nat /\ Offset(last) < Length[i]
      /\ Length[i] <= Offset(last) + BlockSize
  BY LastBlock
<1>3. b \in Nat /\ b * BlockSize <= n /\ n < b * BlockSize + BlockSize
  BY <1>0, <1>1, DivBounds
<1> HIDE DEF b
<1>4. Offset(b) \in Nat /\ Offset(last) \in Nat /\ Offset(b) <= n
      /\ n < Offset(b) + BlockSize
  BY <1>0, <1>2, <1>3 DEF Offset
<1>5. b <= last
  <2> SUFFICES ASSUME last < b PROVE FALSE
    BY <1>2, <1>3
  <2>1. Offset(last) + BlockSize <= Offset(b)
    BY <1>2, <1>3, OffsetsGrow
  <2> QED  BY <1>0, <1>1, <1>2, <1>4, <2>1
<1>6. b \in Block(i)
  BY <1>2, <1>3, <1>5 DEF Block
<1>7. Holds(i, b, n)
  BY <1>0, <1>1, <1>2, <1>4 DEF Holds, BlockLength
<1> QED  BY <1>6, <1>7

-----------------------------------------------------------------------------
(* Sequences, element by element: what Tail, Append and RemoveAt leave. *)
LEMMA TailElements ==
  ASSUME NEW S, NEW s \in Seq(S), s # <<>>
  PROVE  /\ 1 \in DOMAIN s /\ Head(s) = s[1]
         /\ \A k \in DOMAIN Tail(s) : k + 1 \in DOMAIN s /\ Tail(s)[k] = s[k + 1]
         /\ \A k \in DOMAIN s : k = 1 \/ (k - 1 \in DOMAIN Tail(s) /\ Tail(s)[k - 1] = s[k])
<1>1. /\ Tail(s) \in Seq(S) /\ Len(Tail(s)) = Len(s) - 1
      /\ \A k \in 1 .. Len(Tail(s)) : Tail(s)[k] = s[k + 1]
  BY HeadTailProperties
<1>2. DOMAIN s = 1 .. Len(s) /\ DOMAIN Tail(s) = 1 .. Len(Tail(s)) /\ Len(s) \in Nat
  BY <1>1
<1>3. 1 \in DOMAIN s /\ Head(s) = s[1]
  BY <1>2
<1>4. \A k \in DOMAIN Tail(s) : k + 1 \in DOMAIN s /\ Tail(s)[k] = s[k + 1]
  BY <1>1, <1>2
<1>5. ASSUME NEW k \in DOMAIN s, k # 1
      PROVE  k - 1 \in DOMAIN Tail(s) /\ Tail(s)[k - 1] = s[k]
  <2>1. k - 1 \in 1 .. Len(Tail(s)) /\ (k - 1) + 1 = k
    BY <1>1, <1>2, <1>5
  <2> QED  BY <1>1, <1>2, <2>1
<1> QED  BY <1>3, <1>4, <1>5

(* A new last element. *)
LEMMA AppendElements ==
  ASSUME NEW S, NEW s \in Seq(S), NEW e \in S
  PROVE  /\ DOMAIN Append(s, e) = DOMAIN s \cup {Len(s) + 1}
         /\ \A k \in DOMAIN s : /\ k \in Nat /\ k < Len(s) + 1
                                /\ Append(s, e)[k] = s[k]
         /\ Append(s, e)[Len(s) + 1] = e
<1>1. /\ Append(s, e) \in Seq(S) /\ Len(Append(s, e)) = Len(s) + 1
      /\ \A k \in 1 .. Len(s) : Append(s, e)[k] = s[k]
      /\ Append(s, e)[Len(s) + 1] = e
  BY AppendProperties
<1>2. Len(s) \in Nat /\ DOMAIN s = 1 .. Len(s)
  OBVIOUS
<1>3. DOMAIN Append(s, e) = 1 .. Len(s) + 1
  BY <1>1
<1> QED  BY <1>1, <1>2, <1>3

(* All elements but one. *)
LEMMA RemoveAtElements ==
  ASSUME NEW S, NEW s \in Seq(S), NEW k \in DOMAIN s
  PROVE  /\ \A j \in DOMAIN RemoveAt(s, k) :
              \E l \in DOMAIN s : RemoveAt(s, k)[j] = s[l]
         /\ \A l \in DOMAIN s : l # k =>
              \E j \in DOMAIN RemoveAt(s, k) : RemoveAt(s, k)[j] = s[l]
<1> DEFINE u == SubSeq(s, 1, k - 1)
           v == SubSeq(s, k + 1, Len(s))
<1>0. Len(s) \in Nat /\ DOMAIN s = 1 .. Len(s) /\ k \in 1 .. Len(s)
  OBVIOUS
<1>1. \A l \in 1 .. Len(s) : s[l] \in S
  BY ElementOfSeq
<1>2. /\ u \in Seq(S) /\ Len(u) = k - 1
      /\ \A j \in 1 .. k - 1 : u[j] = s[j]
  <2>1. \A j \in 1 .. k - 1 : s[j] \in S
    BY <1>0, <1>1
  <2>2. k - 1 \in Int /\ (k - 1) - 1 + 1 = k - 1
    BY <1>0
  <2> QED  BY <1>0, <2>1, <2>2, SubSeqProperties
<1>3. /\ v \in Seq(S) /\ Len(v) = Len(s) - k
      /\ \A j \in 1 .. Len(s) - k : v[j] = s[k + j]
  <2>1. \A j \in k + 1 .. Len(s) : s[j] \in S
    BY <1>0, <1>1
  <2>2. k + 1 \in Int /\ Len(s) - (k + 1) + 1 = Len(s) - k
    BY <1>0
  <2>3. /\ v \in Seq(S)
        /\ Len(v) = IF k + 1 <= Len(s) THEN Len(s) - (k + 1) + 1 ELSE 0
        /\ \A j \in 1 .. Len(s) - (k + 1) + 1 : v[j] = s[(k + 1) + j - 1]
    BY <1>0, <2>1, <2>2, SubSeqProperties
  <2> QED  BY <1>0, <2>2, <2>3
<1> HIDE DEF u, v
<1>4. /\ u \o v \in Seq(S) /\ Len(u \o v) = Len(s) - 1
      /\ \A j \in 1 .. Len(s) - 1 :
           (u \o v)[j] = IF j <= k - 1 THEN u[j] ELSE v[j - (k - 1)]
  <2>1. /\ u \o v \in Seq(S) /\ Len(u \o v) = Len(u) + Len(v)
        /\ \A j \in 1 .. Len(u) + Len(v) :
             (u \o v)[j] = IF j <= Len(u) THEN u[j] ELSE v[j - Len(u)]
    BY <1>2, <1>3, ConcatProperties
  <2>2. Len(u) + Len(v) = Len(s) - 1
    BY <1>0, <1>2, <1>3
  <2> QED  BY <1>2, <2>1, <2>2
<1>5. DOMAIN (u \o v) = 1 .. Len(s) - 1
  BY <1>4
<1>6. \A j \in 1 .. Len(s) - 1 :
        (u \o v)[j] = IF j <= k - 1 THEN s[j] ELSE s[j + 1]
  <2> SUFFICES ASSUME NEW j \in 1 .. Len(s) - 1
               PROVE  (u \o v)[j] = IF j <= k - 1 THEN s[j] ELSE s[j + 1]
    OBVIOUS
  <2>1. CASE j <= k - 1
    BY <1>0, <1>2, <1>4, <2>1
  <2>2. CASE ~(j <= k - 1)
    <3>1. j - (k - 1) \in 1 .. Len(s) - k /\ k + (j - (k - 1)) = j + 1
      BY <1>0, <2>2
    <3>2. v[j - (k - 1)] = s[j + 1]
      BY <1>3, <3>1
    <3> QED  BY <1>4, <2>2, <3>2
  <2> QED  BY <2>1, <2>2
<1>7. RemoveAt(s, k) = u \o v
  BY DEF RemoveAt, u, v
<1>8. ASSUME NEW j \in 1 .. Len(s) - 1
      PROVE  \E l \in 1 .. Len(s) : (u \o v)[j] = s[l]
  <2>1. j \in 1 .. Len(s) /\ j + 1 \in 1 .. Len(s)
    BY <1>0
  <2> QED  BY <1>6, <2>1
<1>9. ASSUME NEW l \in 1 .. Len(s), l # k
      PROVE  \E j \in 1 .. Len(s) - 1 : (u \o v)[j] = s[l]
  <2>1. CASE l < k
    <3>1. l \in 1 .. Len(s) - 1 /\ l <= k - 1
      BY <1>0, <2>1
    <3> QED  BY <1>6, <3>1
  <2>2. CASE l > k
    <3>1. l - 1 \in 1 .. Len(s) - 1 /\ ~(l - 1 <= k - 1) /\ (l - 1) + 1 = l
      BY <1>0, <2>2
    <3>2. (u \o v)[l - 1] = s[l]
      BY <1>6, <3>1
    <3> QED  BY <3>1, <3>2
  <2>3. l < k \/ l > k
    BY <1>0, <1>9
  <2> QED  BY <2>1, <2>2, <2>3
<1> QED  BY <1>0, <1>5, <1>7, <1>8, <1>9

(* A stretch of a sequence has none but its elements. *)
LEMMA SubSeqElements ==
  ASSUME NEW S, NEW s \in Seq(S), NEW k \in 0 .. Len(s)
  PROVE  \A j \in DOMAIN SubSeq(s, k + 1, Len(s)) :
           \E l \in DOMAIN s : SubSeq(s, k + 1, Len(s))[j] = s[l]
<1> DEFINE v == SubSeq(s, k + 1, Len(s))
<1>0. Len(s) \in Nat /\ DOMAIN s = 1 .. Len(s) /\ k + 1 \in Int
  OBVIOUS
<1>1. \A l \in k + 1 .. Len(s) : s[l] \in S
  BY <1>0, ElementOfSeq
<1>2. /\ v \in Seq(S)
      /\ Len(v) = IF k + 1 <= Len(s) THEN Len(s) - (k + 1) + 1 ELSE 0
      /\ \A j \in 1 .. Len(s) - (k + 1) + 1 : v[j] = s[(k + 1) + j - 1]
  BY <1>0, <1>1, SubSeqProperties
<1> HIDE DEF v
<1>3. ASSUME NEW j \in DOMAIN v  PROVE \E l \in DOMAIN s : v[j] = s[l]
  <2>1. j \in 1 .. Len(v)
    BY <1>2
  <2>2. j \in Nat /\ 1 <= j /\ j <= Len(v)
    BY <1>2, <2>1
  <2>3. CASE k + 1 <= Len(s)
    <3>1. Len(v) = Len(s) - (k + 1) + 1
      BY <1>2, <2>3
    <3>2. j \in 1 .. Len(s) - (k + 1) + 1 /\ (k + 1) + j - 1 \in 1 .. Len(s)
      BY <1>0, <2>2, <3>1
    <3> QED  BY <1>0, <1>2, <3>2
  <2>4. CASE ~(k + 1 <= Len(s))
    BY <1>2, <2>2, <2>4
  <2> QED  BY <2>3, <2>4
<1> QED  BY <1>3 DEF v

-----------------------------------------------------------------------------
(* An honest peer.  What it sends for block b of piece i. *)
Answer(i, b) == PieceMsg(i, Offset(b), BlockLength(i, b), TRUE)

(* Only blocks that exist are asked for, and only blocks that exist, with the
   right bytes, are sent. *)
WireIsHonest ==
  /\ \A k \in DOMAIN requests : requests[k].block \in Block(requests[k].index)
  /\ \A k \in DOMAIN inbox : inbox[k].type = "piece" =>
       \E i \in Piece : \E b \in Block(i) : inbox[k] = Answer(i, b)

(* While the peer chokes us we know it or are about to be told: behind every
   unchoke that is still under way there is a choke. *)
ChokeUnderWay == \E k \in DOMAIN inbox : inbox[k].type = "choke"
ChokeIsComing ==
  choking =>
    /\ peerChoking \/ ChokeUnderWay
    /\ \A k \in DOMAIN inbox : inbox[k].type = "unchoke" =>
         \E j \in DOMAIN inbox : j > k /\ inbox[j].type = "choke"

WireInv == ~faulty => WireIsHonest /\ ChokeIsComing

(* What reading a message does, whichever part of the code reads it. *)
ReadsMessage ==
  /\ inbox # <<>> /\ inbox' = Tail(inbox)
  /\ UNCHANGED <<requests, choking, faulty>>
  /\ peerChoking' = IF Head(inbox).type = "choke" THEN TRUE
                    ELSE IF Head(inbox).type = "unchoke" THEN FALSE
                    ELSE peerChoking

(* The five places where messages are read. *)
LEMMA ReadersRead ==
  ASSUME TypeOK,
         \/ ReceiveBadBlock \/ ReceiveBlock \/ ReceiveChoke \/ ReceiveUnchoke
         \/ ReadIdle
  PROVE  ReadsMessage
<1>1. inbox # <<>> /\ inbox' = Tail(inbox) /\ UNCHANGED <<requests, choking, faulty>>
  BY DEF ReceiveBadBlock, ReceiveBlock, ReceiveChoke, ReceiveUnchoke, ReadIdle, Reading
<1>2. Head(inbox).type \in {"choke", "unchoke", "piece"}
  <2>1. Head(inbox) \in Message
    BY <1>1 DEF TypeOK
  <2> QED  BY <2>1 DEF Message
<1>3. peerChoking' = IF Head(inbox).type = "choke" THEN TRUE
                     ELSE IF Head(inbox).type = "unchoke" THEN FALSE
                     ELSE peerChoking
  BY <1>1, <1>2 DEF ReceiveBadBlock, ReceiveBlock, ReceiveChoke, ReceiveUnchoke,
                    ReadIdle, Reading, Close, Return
<1> QED  BY <1>1, <1>3 DEF ReadsMessage

(* The answer to a request is a message. *)
LEMMA AnswerType ==
  ASSUME NEW i \in Piece, NEW b \in Block(i)
  PROVE  Answer(i, b) \in Message /\ Answer(i, b).type = "piece"
BY BlockGeometry DEF Answer, PieceMsg, Message, Piece

(* A message put on the wire behind the others. *)
LEMMA SendKeepsHonesty ==
  ASSUME TypeOK, WireIsHonest, NEW m \in Message, inbox' = Append(inbox, m),
         m.type = "piece" => \E i \in Piece : \E b \in Block(i) : m = Answer(i, b),
         \A k \in DOMAIN requests' : \E l \in DOMAIN requests :
           requests'[k] = requests[l]
  PROVE  WireIsHonest'
<1>1. inbox \in Seq(Message)
  BY DEF TypeOK
<1>2. /\ DOMAIN inbox' = DOMAIN inbox \cup {Len(inbox) + 1}
      /\ \A k \in DOMAIN inbox : inbox'[k] = inbox[k]
      /\ inbox'[Len(inbox) + 1] = m
  BY <1>1, AppendElements
<1>3. \A k \in DOMAIN inbox' : inbox'[k].type = "piece" =>
        \E i \in Piece : \E b \in Block(i) : inbox'[k] = Answer(i, b)
  BY <1>2 DEF WireIsHonest
<1>4. \A k \in DOMAIN requests' : requests'[k].block \in Block(requests'[k].index)
  BY DEF WireIsHonest
<1> QED  BY <1>3, <1>4 DEF WireIsHonest

(* Reading keeps what is known about the rest of the wire. *)
LEMMA ReadKeepsWire ==
  ASSUME TypeOK, WireIsHonest, ChokeIsComing, ReadsMessage
  PROVE  WireIsHonest' /\ ChokeIsComing'
<1>1. inbox \in Seq(Message) /\ inbox # <<>> /\ inbox' = Tail(inbox)
  BY DEF TypeOK, ReadsMessage
<1>2. /\ 1 \in DOMAIN inbox /\ Head(inbox) = inbox[1]
      /\ \A k \in DOMAIN inbox' : k + 1 \in DOMAIN inbox /\ inbox'[k] = inbox[k + 1]
      /\ \A k \in DOMAIN inbox :
           k = 1 \/ (k - 1 \in DOMAIN inbox' /\ inbox'[k - 1] = inbox[k])
      /\ DOMAIN inbox \subseteq Nat /\ DOMAIN inbox' \subseteq Nat
  BY <1>1, TailElements
<1>3. WireIsHonest'
  BY <1>2 DEF WireIsHonest, ReadsMessage
<1>4. ChokeIsComing'
  <2> SUFFICES ASSUME choking'
               PROVE  /\ peerChoking' \/ ChokeUnderWay'
                      /\ \A k \in DOMAIN inbox' : inbox'[k].type = "unchoke" =>
                           \E j \in DOMAIN inbox' : j > k /\ inbox'[j].type = "choke"
    BY DEF ChokeIsComing
  <2>0. choking
    BY DEF ReadsMessage
  <2>1. ASSUME NEW k \in DOMAIN inbox', inbox'[k].type = "unchoke"
        PROVE  \E j \in DOMAIN inbox' : j > k /\ inbox'[j].type = "choke"
    <3>1. k + 1 \in DOMAIN inbox /\ inbox[k + 1].type = "unchoke" /\ k \in Nat
      BY <1>2, <2>1
    <3>2. PICK j \in DOMAIN inbox : j > k + 1 /\ inbox[j].type = "choke"
      BY <2>0, <3>1 DEF ChokeIsComing
    <3>3. j \in Nat /\ j # 1 /\ j - 1 > k
      BY <1>2, <3>1, <3>2
    <3> QED  BY <1>2, <3>2, <3>3
  <2>2. peerChoking' \/ ChokeUnderWay'
    <3>1. CASE Head(inbox).type = "choke"
      BY <3>1 DEF ReadsMessage
    <3>2. CASE Head(inbox).type = "unchoke"
      <4>1. PICK j \in DOMAIN inbox : j > 1 /\ inbox[j].type = "choke"
        BY <1>2, <2>0, <3>2 DEF ChokeIsComing
      <4>2. j # 1
        BY <1>2, <4>1
      <4> QED  BY <1>2, <4>1, <4>2 DEF ChokeUnderWay
    <3>3. CASE Head(inbox).type \notin {"choke", "unchoke"}
      <4>1. peerChoking' = peerChoking
        BY <3>3 DEF ReadsMessage
      <4>2. CASE ChokeUnderWay
        <5>1. PICK j \in DOMAIN inbox : inbox[j].type = "choke"
          BY <4>2 DEF ChokeUnderWay
        <5>2. j # 1
          BY <1>2, <3>3, <5>1
        <5> QED  BY <1>2, <5>1, <5>2 DEF ChokeUnderWay
      <4> QED  BY <2>0, <4>1, <4>2 DEF ChokeIsComing
    <3> QED  BY <3>1, <3>2, <3>3
  <2> QED  BY <2>1, <2>2
<1> QED  BY <1>3, <1>4

(* A further request is for a block of the piece. *)
LEMMA RequestKeepsWire ==
  ASSUME TypeOK, WireIsHonest, ChokeIsComing, SendRequest
  PROVE  WireIsHonest' /\ ChokeIsComing'
<1>1. PICK b \in Unrequested : requests' = Append(requests, [index |-> work, block |-> b])
  BY DEF SendRequest
<1>2. b \in Block(work) /\ work \in Piece /\ UNCHANGED <<inbox, choking, peerChoking>>
  BY <1>1 DEF Unrequested, SendRequest, TypeOK
<1>3. b \in Nat
  BY <1>2, BlockGeometry
<1>4. /\ requests \in Seq([index : Piece, block : Nat])
      /\ [index |-> work, block |-> b] \in [index : Piece, block : Nat]
  BY <1>2, <1>3 DEF TypeOK
<1> DEFINE r == [index |-> work, block |-> b]
           R == [index : Piece, block : Nat]
<1>5. r.index = work /\ r.block = b
  OBVIOUS
<1> HIDE DEF r, R
<1>6. requests \in Seq(R) /\ r \in R /\ requests' = Append(requests, r)
  BY <1>1, <1>4 DEF r, R
<1>7. /\ DOMAIN requests' = DOMAIN requests \cup {Len(requests) + 1}
      /\ \A k \in DOMAIN requests : requests'[k] = requests[k]
      /\ requests'[Len(requests) + 1] = r
  BY <1>6, AppendElements
<1>8. \A k \in DOMAIN requests' : requests'[k].block \in Block(requests'[k].index)
  BY <1>2, <1>5, <1>7 DEF WireIsHonest
<1>9. WireIsHonest'
  BY <1>2, <1>8 DEF WireIsHonest
<1>10. ChokeIsComing'
  BY <1>2 DEF ChokeIsComing, ChokeUnderWay
<1> QED  BY <1>9, <1>10

(* What the peer does, if it is honest. *)
LEMMA PeerKeepsWire ==
  ASSUME TypeOK, ~faulty, WireIsHonest, ChokeIsComing, Peer
  PROVE  WireIsHonest' /\ ChokeIsComing'
<1> DEFINE R == [index : Piece, block : Nat]
<1>0. inbox \in Seq(Message) /\ requests \in Seq(R)
  BY DEF TypeOK
<1>1. CASE PeerAnswers
  <2>1. PICK k \in DOMAIN requests :
          /\ inbox' = Append(inbox, Answer(requests[k].index, requests[k].block))
          /\ requests' = RemoveAt(requests, k)
    BY <1>1 DEF PeerAnswers, Send, Answer
  <2>2. requests[k].index \in Piece /\ requests[k].block \in Block(requests[k].index)
    <3>0. k \in 1 .. Len(requests)
      BY <1>0
    <3>1. requests[k] \in R
      BY <1>0, <3>0, ElementOfSeq
    <3> QED  BY <3>1 DEF WireIsHonest
  <2> HIDE DEF R
  <2>3. \A j \in DOMAIN requests' : \E l \in DOMAIN requests : requests'[j] = requests[l]
    BY <1>0, <2>1, RemoveAtElements
  <2>4. WireIsHonest'
    BY <2>1, <2>2, <2>3, AnswerType, SendKeepsHonesty
  <2> QED  BY <1>1, <2>4 DEF PeerAnswers, ChokeIsComing
<1>2. CASE PeerChokes
  <2>1. inbox' = Append(inbox, ChokeMsg) /\ ChokeMsg \in Message
        /\ ChokeMsg.type = "choke"
    BY <1>2 DEF PeerChokes, Send, ChokeMsg, Message
  <2>2. PICK k \in 0 .. Len(requests) :
          requests' = SubSeq(requests, k + 1, Len(requests))
    BY <1>2 DEF PeerChokes
  <2> HIDE DEF R
  <2>3. \A j \in DOMAIN requests' : \E l \in DOMAIN requests : requests'[j] = requests[l]
    BY <1>0, <2>2, SubSeqElements
  <2>4. WireIsHonest'
    BY <2>1, <2>3, SendKeepsHonesty
  <2>5. /\ DOMAIN inbox' = DOMAIN inbox \cup {Len(inbox) + 1}
        /\ \A k2 \in DOMAIN inbox : /\ k2 \in Nat /\ k2 < Len(inbox) + 1
                                    /\ inbox'[k2] = inbox[k2]
        /\ inbox'[Len(inbox) + 1] = ChokeMsg
    BY <1>0, <2>1, AppendElements
  <2>6. ChokeIsComing'
    <3>1. ChokeUnderWay'
      BY <2>1, <2>5 DEF ChokeUnderWay
    <3>2. Len(inbox) + 1 \in DOMAIN inbox' /\ inbox'[Len(inbox) + 1].type = "choke"
      BY <2>1, <2>5
    <3>3. ASSUME NEW j \in DOMAIN inbox', inbox'[j].type = "unchoke"
          PROVE  Len(inbox) + 1 > j
      <4>1. j # Len(inbox) + 1
        BY <3>2, <3>3
      <4>2. j \in DOMAIN inbox /\ j \in Nat /\ j < Len(inbox) + 1 /\ Len(inbox) \in Nat
        BY <1>0, <2>5, <3>3, <4>1
      <4> QED  BY <4>2
    <3> QED  BY <3>1, <3>2, <3>3 DEF ChokeIsComing
  <2> QED  BY <2>4, <2>6
<1>3. CASE PeerDrops
  <2>1. requests # <<>> /\ requests' = Tail(requests)
        /\ UNCHANGED <<inbox, choking, peerChoking>>
    BY <1>3 DEF PeerDrops
  <2> HIDE DEF R
  <2>2. \A j \in DOMAIN requests' : \E l \in DOMAIN requests : requests'[j] = requests[l]
    BY <1>0, <2>1, TailElements
  <2>3. WireIsHonest'
    BY <2>1, <2>2 DEF WireIsHonest
  <2> QED  BY <2>1, <2>3 DEF ChokeIsComing, ChokeUnderWay
<1>4. CASE PeerUnchokes
  <2>1. inbox' = Append(inbox, UnchokeMsg) /\ UnchokeMsg \in Message
        /\ UnchokeMsg.type = "unchoke" /\ requests' = requests
    BY <1>4 DEF PeerUnchokes, Send, UnchokeMsg, Message
  <2>2. WireIsHonest'
    BY <2>1, SendKeepsHonesty
  <2> QED  BY <1>4, <2>2 DEF PeerUnchokes, ChokeIsComing
<1>5. ~PeerMisbehaves
  BY DEF PeerMisbehaves
<1> QED  BY <1>1, <1>2, <1>3, <1>4, <1>5 DEF Peer

(* Every step keeps the wire of an honest peer honest. *)
LEMMA WireStep ==
  ASSUME TypeOK, WireInv, [Next]_vars
  PROVE  WireInv'
<1>1. CASE ReceiveBadBlock \/ ReceiveBlock \/ ReceiveChoke \/ ReceiveUnchoke \/ ReadIdle
  <2>1. ReadsMessage
    BY <1>1, ReadersRead
  <2> QED  BY <2>1, ReadKeepsWire DEF WireInv, ReadsMessage
<1>2. CASE SendRequest
  BY <1>2, RequestKeepsWire DEF WireInv, SendRequest
<1>3. CASE Peer
  <2>1. faulty' = faulty
    BY <1>3 DEF Peer, PeerAnswers, PeerChokes, PeerDrops, PeerUnchokes, PeerMisbehaves
  <2> QED  BY <1>3, <2>1, PeerKeepsWire DEF WireInv
<1>4. CASE \/ \E i \in Piece : Begin(i)
           \/ Finish \/ Cancelled \/ GiveUp \/ UNCHANGED vars
  <2>1. UNCHANGED <<inbox, requests, choking, peerChoking, faulty>>
    BY <1>4 DEF Begin, Finish, Cancelled, GiveUp, Close, Return, vars, wireVars
  <2> QED  BY <2>1 DEF WireInv, WireIsHonest, ChokeIsComing, ChokeUnderWay
<1> QED  BY <1>1, <1>2, <1>3, <1>4 DEF Next, Goroutine

(* Choked, the goroutine waits for nothing: what it asks for again is all that
   did not arrive. *)
NothingAskedWhileChoked ==
  status = "downloading" /\ peerChoking => requested = received

(* A missing block of the piece is asked for, or its answer under way. *)
Asked(b) == \E k \in DOMAIN requests : requests[k].index = work /\ requests[k].block = b
Arriving(b) ==
  \E k \in DOMAIN inbox : /\ inbox[k].type = "piece" /\ inbox[k].index = work
                          /\ inbox[k].begin = Offset(b)
AllUnderWay ==
  ~faulty /\ status = "downloading" /\ ~peerChoking =>
    ChokeUnderWay \/ \A b \in requested \ received : Asked(b) \/ Arriving(b)

(* That is the property, in other words. *)
LEMMA NothingIsForgottenReads == NothingIsForgotten <=> AllUnderWay
BY DEF NothingIsForgotten, AllUnderWay, On, ChokeUnderWay, Asked, Arriving

(* Requests are made only while the peer does not choke us. *)
LEMMA ChokedStep ==
  ASSUME AccountingInv, NothingAskedWhileChoked, [Next]_vars
  PROVE  NothingAskedWhileChoked'
<1>1. CASE ReceiveBlock
  <2>1. UNCHANGED <<requested, received>>
        \/ \E b : received' = received \cup {b} /\ requested' = requested \cup {b}
    BY <1>1 DEF ReceiveBlock, Store
  <2>2. UNCHANGED <<status, peerChoking>>
    BY <1>1 DEF ReceiveBlock
  <2> QED  BY <2>1, <2>2 DEF NothingAskedWhileChoked
<1>2. CASE SendRequest \/ ReceiveChoke \/ ReceiveUnchoke \/ ReadIdle
  BY <1>2 DEF SendRequest, CanRequest, ReceiveChoke, StillRequested, ReceiveUnchoke,
     ReadIdle, NothingAskedWhileChoked
<1>3. CASE \/ \E i \in Piece : Begin(i)
           \/ ReceiveBadBlock \/ Finish \/ Cancelled \/ GiveUp
  BY <1>3 DEF Begin, ReceiveBadBlock, Finish, Cancelled, GiveUp, Close, Return,
     NothingAskedWhileChoked
<1>4. CASE Peer \/ UNCHANGED vars
  BY <1>4 DEF Peer, PeerAnswers, PeerChokes, PeerDrops, PeerUnchokes, PeerMisbehaves,
     vars, localVars, NothingAskedWhileChoked
<1> QED  BY <1>1, <1>2, <1>3, <1>4 DEF Next, Goroutine

(* A block is read: it is the one that was missing, or none we wait for. *)
LEMMA BlockKeepsUnderWay ==
  ASSUME AccountingInv, AllUnderWay, ReceiveBlock
  PROVE  AllUnderWay'
<1> DEFINE m == Head(inbox)
<1>1. /\ inbox \in Seq(Message) /\ inbox # <<>> /\ inbox' = Tail(inbox)
      /\ m.type = "piece" /\ m.begin \in Nat
  <2>1. /\ inbox \in Seq(Message) /\ inbox # <<>> /\ inbox' = Tail(inbox)
        /\ m.type = "piece"
    BY DEF AccountingInv, TypeOK, ReceiveBlock, Reading
  <2>2. m \in Message
    BY <2>1
  <2> QED  BY <2>1, <2>2 DEF Message
<1>2. /\ 1 \in DOMAIN inbox /\ m = inbox[1]
      /\ \A k \in DOMAIN inbox :
           k = 1 \/ (k - 1 \in DOMAIN inbox' /\ inbox'[k - 1] = inbox[k])
  BY <1>1, TailElements
<1>3. /\ UNCHANGED <<status, work, peerChoking, requests, faulty>>
      /\ status = "downloading" /\ work \in Piece
  BY DEF ReceiveBlock, Selecting, AccountingInv, TypeOK
<1>4. ChokeUnderWay => ChokeUnderWay'
  BY <1>1, <1>2 DEF ChokeUnderWay
<1>5. ASSUME NEW b \in (requested \ received)', Asked(b) \/ Arriving(b)
      PROVE  Asked(b)' \/ Arriving(b)'
  <2>1. CASE Asked(b)
    BY <1>3, <2>1 DEF Asked
  <2>2. CASE Arriving(b)
    <3>1. PICK k \in DOMAIN inbox : /\ inbox[k].type = "piece"
                                    /\ inbox[k].index = work
                                    /\ inbox[k].begin = Offset(b)
      BY <2>2 DEF Arriving
    <3>2. CASE k # 1
      BY <1>2, <1>3, <3>1, <3>2 DEF Arriving
    <3>3. CASE k = 1
      <4>1. m.index = work /\ m.begin = Offset(b)
        BY <1>2, <3>1, <3>3
      <4>2. requested' \subseteq requested \cup {m.begin \div BlockSize}
        BY DEF ReceiveBlock, Store
      <4>3. b \in Block(work)
        <5>1. CASE b \in requested
          BY <5>1 DEF AccountingInv, TypeOK
        <5>2. CASE b \notin requested
          BY <4>2, <5>2 DEF ReceiveBlock, Ignored, Store, AccountingInv, TypeOK
        <5> QED  BY <5>1, <5>2
      <4>4. Offset(b) % BlockSize = 0 /\ Offset(b) \div BlockSize = b
        BY <1>3, <4>3, BlockGeometry
      <4>5. ~Ignored(m) /\ m.begin \div BlockSize = b
        BY <4>1, <4>3, <4>4 DEF Ignored
      <4>6. Store(b, m)
        BY <4>5 DEF ReceiveBlock
      <4>7. b \in received'
        BY <4>6 DEF Store
      <4> QED  BY <4>7
    <3> QED  BY <3>2, <3>3
  <2> QED  BY <1>5, <2>1, <2>2
<1>6. \A b \in (requested \ received)' : b \in requested \ received
  BY DEF ReceiveBlock, Store
<1> QED  BY <1>3, <1>4, <1>5, <1>6 DEF AllUnderWay

(* A request that the honest peer answers becomes the answer. *)
LEMMA AnswerKeepsUnderWay ==
  ASSUME AccountingInv, WireInv, AllUnderWay, ~faulty, PeerAnswers
  PROVE  AllUnderWay'
<1> DEFINE R == [index : Piece, block : Nat]
<1>0. inbox \in Seq(Message) /\ requests \in Seq(R)
  BY DEF AccountingInv, TypeOK
<1>1. PICK k \in DOMAIN requests :
        /\ inbox' = Append(inbox, Answer(requests[k].index, requests[k].block))
        /\ requests' = RemoveAt(requests, k)
  BY DEF PeerAnswers, Send, Answer
<1>2. requests[k].index \in Piece /\ requests[k].block \in Block(requests[k].index)
  <2>0. k \in 1 .. Len(requests)
    BY <1>0
  <2>1. requests[k] \in R
    BY <1>0, <2>0, ElementOfSeq
  <2> QED  BY <2>1 DEF WireInv, WireIsHonest
<1> DEFINE m == Answer(requests[k].index, requests[k].block)
<1>3. /\ m \in Message /\ m.type = "piece" /\ m.index = requests[k].index
      /\ m.begin = Offset(requests[k].block)
  <2>1. m \in Message /\ m.type = "piece"
    BY <1>2, AnswerType
  <2> QED  BY <2>1 DEF Answer, PieceMsg
<1> HIDE DEF R, m
<1>4. /\ DOMAIN inbox' = DOMAIN inbox \cup {Len(inbox) + 1}
      /\ \A j \in DOMAIN inbox : inbox'[j] = inbox[j]
      /\ inbox'[Len(inbox) + 1] = m
  BY <1>0, <1>1, <1>3, AppendElements DEF m
<1>5. \A l \in DOMAIN requests : l # k =>
        \E j \in DOMAIN requests' : requests'[j] = requests[l]
  BY <1>0, <1>1, RemoveAtElements
<1>6. UNCHANGED <<status, work, requested, received, peerChoking, faulty>>
  BY DEF PeerAnswers, localVars
<1>7. ChokeUnderWay => ChokeUnderWay'
  BY <1>4 DEF ChokeUnderWay
<1>8. ASSUME NEW b, Arriving(b)  PROVE Arriving(b)'
  BY <1>4, <1>6, <1>8 DEF Arriving
<1>9. ASSUME NEW b, Asked(b)  PROVE Asked(b)' \/ Arriving(b)'
  <2>1. PICK l \in DOMAIN requests : requests[l].index = work /\ requests[l].block = b
    BY <1>9 DEF Asked
  <2>2. CASE l # k
    BY <1>5, <1>6, <2>1, <2>2 DEF Asked
  <2>3. CASE l = k
    BY <1>3, <1>4, <1>6, <2>1, <2>3 DEF Arriving
  <2> QED  BY <2>2, <2>3
<1> QED  BY <1>6, <1>7, <1>8, <1>9 DEF AllUnderWay

(* Every step keeps what is missing under way. *)
LEMMA UnderWayStep ==
  ASSUME AccountingInv, WireInv, NothingAskedWhileChoked, AllUnderWay, [Next]_vars
  PROVE  AllUnderWay'
<1>0. inbox \in Seq(Message) /\ requests \in Seq([index : Piece, block : Nat])
  BY DEF AccountingInv, TypeOK
<1>1. CASE SendRequest
  <2>1. PICK b \in Unrequested :
          /\ requests' = Append(requests, [index |-> work, block |-> b])
          /\ requested' = requested \cup {b}
    BY <1>1 DEF SendRequest
  <2>2. b \in Nat /\ work \in Piece
    BY <1>1, <2>1 DEF SendRequest, Unrequested, AccountingInv, TypeOK, Block
  <2> DEFINE r == [index |-> work, block |-> b]
             R == [index : Piece, block : Nat]
  <2>3. r.index = work /\ r.block = b /\ r \in R /\ requests \in Seq(R)
        /\ requests' = Append(requests, r)
    BY <1>0, <2>1, <2>2
  <2> HIDE DEF r, R
  <2>4. /\ DOMAIN requests' = DOMAIN requests \cup {Len(requests) + 1}
        /\ \A k \in DOMAIN requests : requests'[k] = requests[k]
        /\ requests'[Len(requests) + 1] = r
    BY <2>3, AppendElements
  <2>5. UNCHANGED <<status, work, received, peerChoking, inbox, faulty>>
    BY <1>1 DEF SendRequest
  <2>6. Asked(b)'
    BY <2>3, <2>4, <2>5 DEF Asked
  <2>7. ASSUME NEW d, Asked(d)  PROVE Asked(d)'
    BY <2>4, <2>5, <2>7 DEF Asked
  <2>8. ASSUME NEW d  PROVE Arriving(d)' <=> Arriving(d)
    BY <2>5 DEF Arriving
  <2>9. ChokeUnderWay' <=> ChokeUnderWay
    BY <2>5 DEF ChokeUnderWay
  <2> QED  BY <2>1, <2>5, <2>6, <2>7, <2>8, <2>9 DEF AllUnderWay
<1>2. CASE ReceiveBlock
  BY <1>2, BlockKeepsUnderWay
<1>3. CASE ReceiveChoke
  BY <1>3 DEF ReceiveChoke, AllUnderWay
<1>4. CASE ReceiveUnchoke
  <2>1. CASE peerChoking
    <3>1. (requested \ received)' = {}
      BY <1>4, <2>1 DEF ReceiveUnchoke, Selecting, NothingAskedWhileChoked, localVars
    <3> QED  BY <3>1 DEF AllUnderWay
  <2>2. CASE ~peerChoking
    <3>1. /\ inbox # <<>> /\ inbox' = Tail(inbox) /\ Head(inbox).type = "unchoke"
          /\ UNCHANGED <<status, work, requested, received, requests, faulty>>
      BY <1>4 DEF ReceiveUnchoke, Reading, localVars
    <3>2. /\ Head(inbox) = inbox[1]
          /\ \A k \in DOMAIN inbox :
               k = 1 \/ (k - 1 \in DOMAIN inbox' /\ inbox'[k - 1] = inbox[k])
      BY <1>0, <3>1, TailElements
    <3>3. ChokeUnderWay => ChokeUnderWay'
      BY <3>1, <3>2 DEF ChokeUnderWay
    <3>4. ASSUME NEW b, Arriving(b)  PROVE Arriving(b)'
      BY <3>1, <3>2, <3>4 DEF Arriving
    <3>5. ASSUME NEW b, Asked(b)  PROVE Asked(b)'
      BY <3>1, <3>5 DEF Asked
    <3> QED  BY <2>2, <3>1, <3>3, <3>4, <3>5 DEF AllUnderWay
  <2> QED  BY <2>1, <2>2
<1>5. CASE \E i \in Piece : Begin(i)
  <2>1. (requested \ received)' = {}
    BY <1>5 DEF Begin
  <2> QED  BY <2>1 DEF AllUnderWay
<1>6. CASE ReceiveBadBlock \/ ReadIdle \/ Finish \/ Cancelled \/ GiveUp
  <2>1. status' # "downloading"
    BY <1>6 DEF ReceiveBadBlock, ReadIdle, Finish, Cancelled, GiveUp, Close
  <2> QED  BY <2>1 DEF AllUnderWay
<1>7. CASE PeerAnswers
  <2>1. faulty' = faulty
    BY <1>7 DEF PeerAnswers
  <2> QED  BY <1>7, <2>1, AnswerKeepsUnderWay DEF AllUnderWay
<1>8. CASE PeerChokes
  <2>1. inbox' = Append(inbox, ChokeMsg) /\ ChokeMsg \in Message
        /\ ChokeMsg.type = "choke"
    BY <1>8 DEF PeerChokes, Send, ChokeMsg, Message
  <2>2. Len(inbox) + 1 \in DOMAIN inbox' /\ inbox'[Len(inbox) + 1] = ChokeMsg
    BY <1>0, <2>1, AppendElements
  <2> QED  BY <2>1, <2>2 DEF AllUnderWay, ChokeUnderWay
<1>9. CASE PeerDrops
  <2>1. choking /\ UNCHANGED <<inbox, peerChoking, faulty>>
    BY <1>9 DEF PeerDrops
  <2>2. ~faulty => peerChoking \/ ChokeUnderWay
    BY <2>1 DEF WireInv, ChokeIsComing
  <2> QED  BY <2>1, <2>2 DEF AllUnderWay, ChokeUnderWay
<1>10. CASE PeerUnchokes
  <2>1. inbox' = Append(inbox, UnchokeMsg) /\ UnchokeMsg \in Message
        /\ UNCHANGED <<status, work, requested, received, peerChoking, requests, faulty>>
    BY <1>10 DEF PeerUnchokes, Send, UnchokeMsg, Message, localVars
  <2>2. /\ DOMAIN inbox \subseteq DOMAIN inbox'
        /\ \A k \in DOMAIN inbox : inbox'[k] = inbox[k]
    BY <1>0, <2>1, AppendElements
  <2>3. ChokeUnderWay => ChokeUnderWay'
    BY <2>2 DEF ChokeUnderWay
  <2>4. ASSUME NEW b  PROVE (Arriving(b) => Arriving(b)') /\ (Asked(b) => Asked(b)')
    BY <2>1, <2>2 DEF Arriving, Asked
  <2> QED  BY <2>1, <2>3, <2>4 DEF AllUnderWay
<1>11. CASE PeerMisbehaves
  BY <1>11 DEF PeerMisbehaves, AllUnderWay
<1>12. CASE UNCHANGED vars
  BY <1>12 DEF vars, localVars, wireVars, AllUnderWay, ChokeUnderWay, Asked, Arriving
<1> QED
  BY <1>1, <1>2, <1>3, <1>4, <1>5, <1>6, <1>7, <1>8, <1>9, <1>10, <1>11, <1>12
     DEF Next, Goroutine, Peer

(* The invariant of a connection to an honest peer. *)
LEMMA HonestInvariant == Spec => [](WireInv /\ NothingAskedWhileChoked /\ AllUnderWay)
<1> DEFINE I == WireInv /\ NothingAskedWhileChoked /\ AllUnderWay
<1>1. Init => I
  <2> SUFFICES ASSUME Init PROVE I
    OBVIOUS
  <2>1. DOMAIN inbox = {} /\ DOMAIN requests = {} /\ status = "idle" /\ peerChoking
    BY DEF Init
  <2> QED  BY <2>1 DEF WireInv, WireIsHonest, ChokeIsComing, NothingAskedWhileChoked,
                       AllUnderWay
<1>2. AccountingInv /\ I /\ [Next]_vars => I'
  BY WireStep, ChokedStep, UnderWayStep DEF AccountingInv
<1> QED  BY <1>1, <1>2, Accounting, PTL DEF Spec

(* Against an honest peer downloadBlocks never waits for a block nobody will
   send: what it asked for and misses is requested, on its way, or about to be
   asked for again because of a choke (piece.go, the accounting of requested and
   received across a choke), for any piece length, backlog and wire. *)
THEOREM NoRequestIsForgotten == Spec => []NothingIsForgotten
<1>1. AllUnderWay => NothingIsForgotten
  BY NothingIsForgottenReads
<1> QED  BY <1>1, HonestInvariant, PTL

-----------------------------------------------------------------------------
(* What arrived from an honest peer is what the piece holds there. *)
ArrivedIsGood ==
  ~faulty /\ status = "downloading" =>
    \A b \in received, n \in Bytes(work) : Holds(work, b, n) => buf[n] = "good"

(* A block is stored where it belongs, and nowhere else. *)
LEMMA StoreKeepsGood ==
  ASSUME AccountingInv, WireInv, ArrivedIsGood, ReceiveBlock
  PROVE  ArrivedIsGood'
<1> DEFINE m == Head(inbox)
           d == m.begin \div BlockSize
<1>1. /\ UNCHANGED <<status, work, faulty>> /\ status = "downloading" /\ work \in Piece
      /\ inbox \in Seq(Message) /\ inbox # <<>> /\ m.type = "piece"
  BY DEF ReceiveBlock, Selecting, Reading, AccountingInv, TypeOK
<1>2. buf \in [Bytes(work) -> Byte]
  BY DEF AccountingInv, TypeOK
<1> SUFFICES ASSUME ~faulty, NEW b \in received', NEW n \in Bytes(work),
                    Holds(work, b, n)
             PROVE  buf'[n] = "good"
  BY <1>1 DEF ArrivedIsGood, Holds, Bytes, BlockLength, BlockCount
<1>3. CASE UNCHANGED <<received, buf>>
  BY <1>1, <1>3 DEF ArrivedIsGood
<1>4. CASE ~Ignored(m) /\ d \notin received /\ Store(d, m)
  <2>1. /\ received' = received \cup {d}
        /\ buf' = [x \in DOMAIN buf |->
             IF m.begin <= x /\ x < m.begin + m.length
             THEN IF m.good THEN "good" ELSE "bad"
             ELSE buf[x]]
    BY <1>4 DEF Store
  <2>2. PICK i \in Piece : \E c \in Block(i) : m = Answer(i, c)
    <3>1. 1 \in DOMAIN inbox /\ m = inbox[1]
      BY <1>1, TailElements
    <3> QED  BY <1>1, <3>1 DEF WireInv, WireIsHonest
  <2>3. PICK c \in Block(i) : m = Answer(i, c)
    BY <2>2
  <2>4. /\ m.index = i /\ m.begin = Offset(c) /\ m.length = BlockLength(i, c)
        /\ m.good = TRUE
    BY <2>3 DEF Answer, PieceMsg
  <2>5. i = work
    BY <1>4, <2>4 DEF Ignored
  <2>6. d = c
    BY <2>4, BlockGeometry
  <2>7. buf'[n] = IF Holds(work, c, n) THEN "good" ELSE buf[n]
    BY <1>2, <2>1, <2>4, <2>5 DEF Holds
  <2>8. CASE b \in received
    BY <1>1, <2>7, <2>8 DEF ArrivedIsGood
  <2>9. CASE b = d
    BY <2>6, <2>7, <2>9
  <2> QED  BY <2>1, <2>8, <2>9
<1> QED  BY <1>3, <1>4 DEF ReceiveBlock, Store

(* Every step keeps what arrived good. *)
LEMMA GoodStep ==
  ASSUME AccountingInv, WireInv, ArrivedIsGood, [Next]_vars
  PROVE  ArrivedIsGood'
<1>1. CASE ReceiveBlock
  BY <1>1, StoreKeepsGood
<1>2. CASE \E i \in Piece : Begin(i)
  BY <1>2 DEF Begin, ArrivedIsGood
<1>3. CASE ReceiveBadBlock \/ ReadIdle \/ Finish \/ Cancelled \/ GiveUp
  <2>1. status' # "downloading"
    BY <1>3 DEF ReceiveBadBlock, ReadIdle, Finish, Cancelled, GiveUp, Close
  <2> QED  BY <2>1 DEF ArrivedIsGood
<1>4. CASE SendRequest \/ ReceiveChoke \/ ReceiveUnchoke \/ Peer \/ UNCHANGED vars
  <2>1. UNCHANGED <<status, work, received, buf, faulty>>
    BY <1>4 DEF SendRequest, ReceiveChoke, ReceiveUnchoke, Peer, PeerAnswers,
       PeerChokes, PeerDrops, PeerUnchokes, PeerMisbehaves, vars, localVars, wireVars
  <2> QED  BY <2>1 DEF ArrivedIsGood, Holds, Bytes, BlockLength, BlockCount
<1> QED  BY <1>1, <1>2, <1>3, <1>4 DEF Next, Goroutine

(* When the count of remaining blocks is zero, every byte came from the peer. *)
LEMMA WholePieceVerifies ==
  ASSUME AccountingInv, ArrivedIsGood, ~faulty,
         status = "downloading", remaining = 0
  PROVE  Verified
<1>1. work \in Piece /\ buf \in [Bytes(work) -> Byte]
  BY DEF AccountingInv, TypeOK
<1>2. Block(work) \subseteq received
  <2>1. IsFiniteSet(Block(work) \ received)
    BY <1>1, BlocksAreFinite, FS_Subset
  <2>2. Cardinality(Block(work) \ received) = 0
    BY DEF AccountingInv, RemainingIsExact
  <2>3. Block(work) \ received = {}
    BY <2>1, <2>2, FS_EmptySet
  <2> QED  BY <2>3
<1>3. ASSUME NEW n \in DOMAIN buf  PROVE buf[n] = "good"
  <2>1. n \in Bytes(work)
    BY <1>1
  <2>2. PICK b \in Block(work) : Holds(work, b, n)
    BY <1>1, <2>1, EveryByteIsInABlock
  <2> QED  BY <1>2, <2>1, <2>2 DEF ArrivedIsGood
<1> QED  BY <1>3 DEF Verified

(* An honest peer is never dropped, however often its pieces are cancelled and
   however late its blocks arrive (piece.go, downloadBlocks), if all pieces have
   one length: the last piece of a torrent may be shorter, and then a stale block
   fails the length check of ParsePiecePayload before its index is looked at. *)
THEOREM HonestPeerStays ==
  ASSUME \A i, j \in Piece : Length[i] = Length[j]
  PROVE  Spec => []HonestPeerIsKept
<1>1. Init => ArrivedIsGood /\ HonestPeerIsKept
  BY DEF Init, ArrivedIsGood, HonestPeerIsKept
<1>2. AccountingInv /\ WireInv /\ ArrivedIsGood /\ HonestPeerIsKept /\ [Next]_vars
        => ArrivedIsGood' /\ HonestPeerIsKept'
  <2> SUFFICES ASSUME AccountingInv, WireInv, ArrivedIsGood, HonestPeerIsKept,
                      [Next]_vars
               PROVE  ArrivedIsGood' /\ HonestPeerIsKept'
    OBVIOUS
  <2>1. ArrivedIsGood'
    BY GoodStep
  <2>2. CASE ReceiveBadBlock
    <3> SUFFICES ASSUME ~faulty PROVE FALSE
      BY <2>1, <2>2 DEF ReceiveBadBlock, HonestPeerIsKept
    <3> DEFINE m == Head(inbox)
    <3>1. /\ work \in Piece /\ inbox \in Seq(Message) /\ inbox # <<>>
          /\ m.type = "piece" /\ ~Fits(m)
      BY <2>2 DEF ReceiveBadBlock, Selecting, Reading, AccountingInv, TypeOK
    <3>2. 1 \in DOMAIN inbox /\ m = inbox[1]
      BY <3>1, TailElements
    <3>3. \E i \in Piece : \E b \in Block(i) : m = Answer(i, b)
      BY <3>1, <3>2 DEF WireInv, WireIsHonest
    <3>4. PICK i \in Piece : \E b \in Block(i) : m = Answer(i, b)
      BY <3>3
    <3>5. PICK b \in Block(i) : m = Answer(i, b)
      BY <3>4
    <3>6. m.index = i /\ m.begin = Offset(b) /\ m.length = BlockLength(i, b)
      BY <3>5 DEF Answer, PieceMsg
    <3>7. /\ Offset(b) \in Nat /\ BlockLength(i, b) \in Nat \ {0}
          /\ Offset(b) + BlockLength(i, b) <= Length[i]
      BY BlockGeometry
    <3>8. Length[work] = Length[i] /\ Length[i] \in Nat
      BY <3>1, LengthAssumption
    <3>9. Fits(m)
      BY <3>6, <3>7, <3>8 DEF Fits
    <3> QED  BY <3>1, <3>9
  <2>3. CASE Finish
    BY <2>1, <2>3, WholePieceVerifies DEF Finish, wireVars, HonestPeerIsKept
  <2>4. CASE GiveUp
    BY <2>1, <2>4 DEF GiveUp, wireVars, HonestPeerIsKept
  <2>5. CASE \/ \E i \in Piece : Begin(i)
             \/ SendRequest \/ ReceiveBlock \/ ReceiveChoke \/ ReceiveUnchoke
             \/ ReadIdle \/ Cancelled \/ Peer \/ UNCHANGED vars
    BY <2>1, <2>5 DEF Begin, SendRequest, ReceiveBlock, ReceiveChoke, ReceiveUnchoke,
       ReadIdle, Cancelled, Peer, PeerAnswers, PeerChokes, PeerDrops, PeerUnchokes,
       PeerMisbehaves, vars, wireVars, HonestPeerIsKept
  <2> QED  BY <2>1, <2>2, <2>3, <2>4, <2>5 DEF Next, Goroutine
<1> QED  BY <1>1, <1>2, Accounting, HonestInvariant, PTL DEF Spec

=============================================================================
