-------------------------------- MODULE Wire --------------------------------
(***************************************************************************)
(* The bytes of a peer connection, in one direction (internal/peer:        *)
(* handshake.go, dial.go, message.go, send.go, bitfield.go, payload.go,    *)
(* conn.go; readLoop, handleMessage and the sends of runConnection in      *)
(* internal/download/worker.go).  The sender writes a handshake, its       *)
(* bitfield, and messages; a write may hit its deadline in the middle.     *)
(* The reader is this client too: it takes the stream apart again and      *)
(* keeps the bitfield of the peer.                                         *)
(*                                                                         *)
(* A byte has Bits bits; numbers on the wire are Words of WordSize bytes   *)
(* (4 in the code).  The parts of a handshake are one byte each.           *)
(***************************************************************************)
EXTENDS Integers, Sequences, FiniteSets, SequencesExt

CONSTANTS
  PieceCount,        \* pieces of the torrent
  Bits,              \* bits of a byte (8)
  WordSize,          \* bytes of a number on the wire (4)
  MaxMessageLength,  \* limits.go
  Hashes,            \* info hashes of torrents the sender may be sharing
  InfoHash,          \* that of the reader
  MaxMessages        \* bound: messages sent

(* b to the power n, as a recursive function: the exponentiation of Integers is
   unknown to the provers. *)
Power(b, n) ==
  LET power[k \in 0 .. n] == IF k = 0 THEN 1 ELSE b * power[k - 1]
  IN  power[n]

Piece == 0 .. PieceCount - 1
Base  == Power(2, Bits)
Byte  == 0 .. Base - 1

MsgKeepAlive == -1
MsgUnchoke   == 1
MsgHave      == 4
MsgBitfield  == 5
MsgRequest   == 6
Message(id, payload) == [ID |-> id, Payload |-> payload]

(* Bytes hold every MessageID, words every piece index and message length (with 8
   bits and 4 bytes: up to 2^32 pieces). *)
BitfieldSize == (PieceCount + Bits - 1) \div Bits
ASSUME WireAssumption ==
  /\ PieceCount \in Nat \ {0}
  /\ Bits \in Nat \ {0} /\ WordSize \in Nat \ {0}
  /\ MaxMessageLength \in Nat /\ MaxMessages \in Nat
  /\ InfoHash \in Byte /\ Hashes \subseteq Byte
ASSUME SizesAssumption ==
  /\ MsgRequest < Base \div 2
  /\ PieceCount <= Power(Base, WordSize)
  /\ 1 + BitfieldSize < Power(Base, WordSize)
  /\ 1 + 3 * WordSize < Power(Base, WordSize)

-----------------------------------------------------------------------------
(* Encoding and decoding *)

(* binary.BigEndian: PutUint32 and Uint32. *)
Word(n) == [k \in 1 .. WordSize |-> (n \div Power(Base, WordSize - k)) % Base]
Uint(w) ==
  LET uint[k \in 0 .. Len(w)] == IF k = 0 THEN 0 ELSE uint[k - 1] * Base + w[k]
  IN  uint[Len(w)]

(* A MessageID is a signed byte. *)
IDByte(id) == id % Base
IDOf(b)    == IF b < Base \div 2 THEN b ELSE b - Base

Serialize(m) ==
  IF m.ID = MsgKeepAlive THEN Word(0)
  ELSE Word(1 + Len(m.Payload)) \o <<IDByte(m.ID)>> \o m.Payload

Protocol == 1
Handshake(hash) == <<1, Protocol, 0, hash, 0>>   \* length, protocol, reserved, hash, id

(* Bitfields: piece 0 is the highest bit of the first byte. *)
BitOffset(i) == Bits - 1 - (i % Bits)
Bit(byte, k) == (byte \div Power(2, k)) % 2
HasPiece(bf, i) ==
  /\ i \div Bits < Len(bf)
  /\ Bit(bf[i \div Bits + 1], BitOffset(i)) = 1
SetPieceMutant(bf, i) ==     \* a bug: the bit is added, not or-ed
  IF i \div Bits >= Len(bf) THEN bf
  ELSE [bf EXCEPT ![i \div Bits + 1] = @ + Power(2, BitOffset(i))]
SetPiece(bf, i) ==
  IF i \div Bits >= Len(bf) \/ HasPiece(bf, i) THEN bf
  ELSE [bf EXCEPT ![i \div Bits + 1] = @ + Power(2, BitOffset(i))]
EmptyBitfield == [k \in 1 .. BitfieldSize |-> 0]
BitsOf(bf) == {x \in (1 .. Len(bf)) \X (0 .. Bits - 1) : Bit(bf[x[1]], x[2]) = 1}
Count(bf)  == Cardinality(BitsOf(bf))

-----------------------------------------------------------------------------
VARIABLES
  stage,     \* of the sender: "dialing", "joined", "running" or "closed"
  have,      \* pieces the sender has by the time it announces its bitfield
  haveBits,  \* HaveBitfield of the sender, in which it marks them
  told,      \* pieces the sender announced, after each message
  sent,      \* messages the sender wrote
  cut,       \* whether a have was cut off and the connection went on
  wire,      \* bytes written and not yet read
  reading,   \* of the reader: "handshake", "messages" or "closed"
  received,  \* messages the reader took off the wire
  bitfield   \* conn.PeerBitfield of the reader

senderVars == <<stage, have, haveBits, told, sent, cut>>
readerVars == <<reading, received, bitfield>>
wireVars   == <<senderVars, wire, readerVars>>

WireTypeOK ==
  /\ stage \in {"dialing", "joined", "running", "closed"}
  /\ have \in SUBSET Piece
  /\ haveBits \in Seq(Byte) /\ Len(haveBits) = BitfieldSize
  /\ told \in Seq(SUBSET Piece) /\ Len(told) = Len(sent)
  /\ cut \in BOOLEAN
  /\ wire \in Seq(Byte)
  /\ reading \in {"handshake", "messages", "closed"}
  /\ bitfield \in Seq(Byte) /\ Len(bitfield) = BitfieldSize

WireInit ==
  /\ stage = "dialing"
  /\ have = {} /\ haveBits = EmptyBitfield
  /\ told = <<>> /\ sent = <<>>
  /\ cut = FALSE
  /\ wire = <<>>
  /\ reading = "handshake"
  /\ received = <<>>
  /\ bitfield = EmptyBitfield

-----------------------------------------------------------------------------
(* The sender *)

Put(bytes) == wire' = wire \o bytes
PutPart(bytes) == \E n \in 0 .. Len(bytes) - 1 : Put(SubSeq(bytes, 1, n))

SendHandshake ==
  /\ stage = "dialing"
  /\ \E hash \in Hashes :
       \/ Put(Handshake(hash)) /\ stage' = "joined"
       \/ PutPart(Handshake(hash)) /\ stage' = "closed"
  /\ UNCHANGED <<have, haveBits, told, sent, cut, readerVars>>

Told == IF told = <<>> THEN {} ELSE Last(told)

(* Conn.send: the whole message, or what was written before the deadline. *)
Write(m, pieces) ==
  /\ Len(sent) < MaxMessages
  /\ Put(Serialize(m))
  /\ sent' = Append(sent, m)
  /\ told' = Append(told, pieces)
WriteFails(m) ==
  /\ Len(sent) < MaxMessages
  /\ PutPart(Serialize(m))
  /\ UNCHANGED <<sent, told>>

(* runConnection: the bitfield comes first, unless there is nothing to tell. *)
SendBitfield ==
  /\ stage = "joined"
  /\ \/ /\ Count(haveBits) = 0
        /\ stage' = "running"
        /\ UNCHANGED <<told, sent, wire>>
     \/ /\ Count(haveBits) > 0
        /\ \/ Write(Message(MsgBitfield, haveBits), have) /\ stage' = "running"
           \/ WriteFails(Message(MsgBitfield, haveBits)) /\ stage' = "closed"
  /\ UNCHANGED <<have, haveBits, cut, readerVars>>

(* The other sends: their failure closes the connection. *)
AfterFailureMutant == "running"     \* a bug: the error is ignored
AfterFailure == "closed"
Others == {Message(MsgUnchoke, <<>>), Message(MsgRequest, Word(1) \o Word(0) \o Word(1))}
SendOther ==
  /\ stage = "running"
  /\ \E m \in Others :
       \/ Write(m, Told) /\ stage' = "running"
       \/ WriteFails(m) /\ stage' = AfterFailure
  /\ UNCHANGED <<have, haveBits, cut, readerVars>>

(* A piece was downloaded over this connection.  The error is dropped.  Bound:
   at most one have is cut off. *)
SendHave ==
  /\ stage = "running"
  /\ \E i \in Piece :
       \/ Write(Message(MsgHave, Word(i)), Told \cup {i}) /\ cut' = cut
       \/ ~cut /\ WriteFails(Message(MsgHave, Word(i))) /\ cut' = TRUE
  /\ UNCHANGED <<stage, have, haveBits, readerVars>>

(* A piece was downloaded over another connection.  One that comes after the
   bitfield is not announced on this connection. *)
OtherPiece ==
  /\ stage \in {"dialing", "joined"}
  /\ \E i \in Piece \ have :
       have' = have \cup {i} /\ haveBits' = SetPiece(haveBits, i)
  /\ UNCHANGED <<stage, told, sent, cut, wire, readerVars>>

(* Its goroutine ends. *)
Hangup ==
  /\ stage \in {"joined", "running"}
  /\ stage' = "closed"
  /\ UNCHANGED <<have, haveBits, told, sent, cut, wire, readerVars>>

-----------------------------------------------------------------------------
(* The reader *)

Available(n) == Len(wire) >= n
Rest(n)      == SubSeq(wire, n + 1, Len(wire))

(* ParseHandshake takes its bytes and no more; then the hashes must agree. *)
HandshakeLen == Len(Handshake(InfoHash))
ReadHandshake ==
  /\ reading = "handshake"
  /\ Available(HandshakeLen)
  /\ wire' = Rest(HandshakeLen)
  /\ reading' = IF SubSeq(wire, 1, 2) = <<1, Protocol>> /\ wire[4] = InfoHash
                THEN "messages" ELSE "closed"
  /\ UNCHANGED <<senderVars, received, bitfield>>

(* handleMessage; a bitfield that does not fit closes the connection. *)
Handle(m) ==
  CASE m.ID = MsgBitfield ->
         IF Len(m.Payload) = BitfieldSize
         THEN bitfield' = m.Payload /\ reading' = "messages"
         ELSE UNCHANGED bitfield /\ reading' = "closed"
    [] m.ID = MsgHave ->
         /\ bitfield' = IF Len(m.Payload) = WordSize /\ Uint(m.Payload) < PieceCount
                        THEN SetPiece(bitfield, Uint(m.Payload)) ELSE bitfield
         /\ reading' = "messages"
    [] OTHER -> UNCHANGED <<bitfield, reading>>

Length == Uint(SubSeq(wire, 1, WordSize))

(* ReadMessage: a length within the cap, then as many bytes. *)
ReadMessage ==
  /\ reading = "messages"
  /\ Available(WordSize)
  /\ Length <= MaxMessageLength
  /\ Available(WordSize + Length)
  /\ LET m == IF Length = 0 THEN Message(MsgKeepAlive, <<>>)
              ELSE Message(IDOf(wire[WordSize + 1]),
                           SubSeq(wire, WordSize + 2, WordSize + Length))
     IN  received' = Append(received, m) /\ Handle(m)
  /\ wire' = Rest(WordSize + Length)
  /\ UNCHANGED senderVars

(* The length is too large, the stream ends in the middle of something, or the
   read deadline expires while a message is still under way. *)
ReadFails ==
  /\ reading # "closed"
  /\ reading' = "closed"
  /\ UNCHANGED <<senderVars, wire, received, bitfield>>

WireNext ==
  \/ SendHandshake \/ SendBitfield \/ SendOther \/ SendHave \/ OtherPiece \/ Hangup
  \/ ReadHandshake \/ ReadMessage \/ ReadFails

WireSpec == WireInit /\ [][WireNext]_wireVars

-----------------------------------------------------------------------------
(* Properties *)

(* Framing stays in step: what the reader takes off the wire are the messages
   that were sent, whole and in order, however writes and reads are cut short.
   A have that is cut short breaks it, because its error is dropped (worker.go,
   "best-effort courtesy"); the property is stated without it. *)
ReceivedAsSent == ~cut => IsPrefix(received, sent)

(* The reader's bitfield is what the sender had announced by the last message
   read: no bit is lost, moved or set by another message. *)
BitfieldIsWhatWasTold ==
  ~cut /\ reading = "messages" =>
    LET pieces == IF received = <<>> THEN {} ELSE told[Len(received)] IN
    /\ {i \in Piece : HasPiece(bitfield, i)} = pieces
    /\ Count(bitfield) = Cardinality(pieces)
=============================================================================
