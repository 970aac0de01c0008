--------------------------- MODULE Storage_proofs ---------------------------
(***************************************************************************)
(* What is proved of the output file, for every torrent: any content, any  *)
(* length and any piece length, and any sequence of sessions and crashes.  *)
(***************************************************************************)
EXTENDS Storage, FiniteSetTheorems, TLAPS

-----------------------------------------------------------------------------
(* The geometry of the pieces *)

(* The bytes of a piece, by its Range. *)
Bytes(i) == Start(i) .. End(i) - 1

(* Integer division: the quotient, and that there is only one. *)
LEMMA DivBounds ==
  ASSUME NEW n \in Nat, NEW p \in Nat \ {0}
  PROVE  /\ n \div p \in Nat
         /\ (n \div p) * p <= n /\ n < (n \div p) * p + p
         /\ n % p \in 0 .. p - 1
         /\ n = p * (n \div p) + (n % p)
<1>1. n = p * (n \div p) + (n % p)
  OBVIOUS
<1>2. n \div p \in Nat /\ n % p \in 0 .. p - 1
  OBVIOUS
<1>3. (n \div p) * p <= n /\ n < (n \div p) * p + p
  OBVIOUS
<1> QED  BY <1>1, <1>2, <1>3

(* A quotient is determined by the interval its number lies in. *)
LEMMA DivUnique ==
  ASSUME NEW n \in Nat, NEW p \in Nat \ {0}, NEW q \in Int,
         q * p <= n, n < q * p + p
  PROVE  n \div p = q
OBVIOUS

(* A later piece starts no earlier than where this one ends at full length. *)
LEMMA Monotone ==
  ASSUME NEW p \in Nat \ {0}, NEW i \in Nat, NEW j \in Nat, i < j
  PROVE  i * p + p <= j * p
<1>1. j - i - 1 \in Nat
  OBVIOUS
<1>2. (j - i - 1) * p \in Nat
  BY <1>1
<1>3. j * p = (j - i - 1) * p + i * p + p
  OBVIOUS
<1> QED  BY <1>2, <1>3

(* The last piece holds what the others leave, a whole piece or less. *)
LEMMA LastPiece ==
  /\ PieceCount \in Nat \ {0}
  /\ Length(PieceCount - 1) \in 1 .. PieceLength
  /\ End(PieceCount - 1) = TotalLength
<1> DEFINE q == TotalLength \div PieceLength
           r == TotalLength % PieceLength
           p == PieceLength
<1>1. p \in Nat \ {0} /\ TotalLength \in Nat \ {0}
  BY ContentAssumption
<1>2. q \in Nat /\ r \in 0 .. p - 1 /\ TotalLength = p * q + r
  BY <1>1, DivBounds
<1>3. TotalLength + p - 1 \in Nat
  BY <1>1
<1>4. CASE r = 0
  <2>1. q * p <= TotalLength + p - 1 /\ TotalLength + p - 1 < q * p + p
    BY <1>1, <1>2, <1>4
  <2>2. PieceCount = q
    <3>1. q \in Int
      BY <1>2
    <3> HIDE DEF q
    <3>2. (TotalLength + p - 1) \div p = q
      BY <1>1, <1>3, <2>1, <3>1, DivUnique
    <3> QED  BY <3>2 DEF PieceCount
  <2>3. q # 0
    BY <1>1, <1>2, <1>4
  <2>4. Length(PieceCount - 1) = p
    BY <1>4 DEF Length
  <2>5. (q - 1) * p + p = TotalLength
    BY <1>1, <1>2, <1>4
  <2> QED  BY <1>1, <1>2, <2>2, <2>3, <2>4, <2>5 DEF End, Start
<1>5. CASE r # 0
  <2>1. /\ (q + 1) * p <= TotalLength + p - 1
        /\ TotalLength + p - 1 < (q + 1) * p + p
    BY <1>1, <1>2, <1>5
  <2>2. PieceCount = q + 1
    <3>1. q + 1 \in Int
      BY <1>2
    <3> HIDE DEF q
    <3>2. (TotalLength + p - 1) \div p = q + 1
      BY <1>1, <1>3, <2>1, <3>1, DivUnique
    <3> QED  BY <3>2 DEF PieceCount
  <2>3. Length(PieceCount - 1) = r
    <3>1. ~(PieceCount - 1 < PieceCount - 1)
      BY <1>2, <2>2
    <3> QED  BY <1>5, <3>1 DEF Length
  <2>4. (PieceCount - 1) * p + r = TotalLength
    BY <1>1, <1>2, <2>2
  <2>5. Length(PieceCount - 1) \in 1 .. PieceLength
    BY <1>1, <1>2, <1>5, <2>3
  <2>6. PieceCount \in Nat \ {0}
    BY <1>2, <2>2
  <2> QED  BY <2>3, <2>4, <2>5, <2>6 DEF End, Start
<1> QED  BY <1>4, <1>5

(* A piece has one to PieceLength bytes, at its own offset of the file. *)
LEMMA PieceFacts ==
  ASSUME NEW i \in Piece
  PROVE  /\ Length(i) \in 1 .. PieceLength
         /\ Start(i) \in Nat /\ Start(i) = i * PieceLength
         /\ End(i) = Start(i) + Length(i) /\ End(i) <= TotalLength
         /\ \A b \in Nat : b \in Bytes(i) <=> b < TotalLength /\ b \div PieceLength = i
<1>0. PieceLength \in Nat \ {0} /\ TotalLength \in Nat \ {0} /\ PieceCount \in Nat \ {0}
  BY ContentAssumption, LastPiece
<1>1. i \in Nat /\ i <= PieceCount - 1
  BY <1>0 DEF Piece
<1>2. Start(i) \in Nat /\ Start(i) = i * PieceLength /\ End(i) = Start(i) + Length(i)
  BY <1>0, <1>1 DEF Start, End
<1>3. CASE i = PieceCount - 1
  <2>1. Length(i) \in 1 .. PieceLength /\ End(i) = TotalLength
    BY <1>3, LastPiece
  <2>2. ASSUME NEW b \in Nat
        PROVE  b \in Bytes(i) <=> b < TotalLength /\ b \div PieceLength = i
    <3>1. b \in Bytes(i) <=> i * PieceLength <= b /\ b < TotalLength
      BY <1>0, <1>2, <2>1 DEF Bytes
    <3>2. i * PieceLength <= b /\ b < TotalLength => b \div PieceLength = i
      <4>1. b < TotalLength => b < i * PieceLength + PieceLength
        BY <1>0, <1>2, <2>1
      <4> QED  BY <1>0, <1>1, <4>1, DivUnique
    <3>3. b \div PieceLength = i => i * PieceLength <= b
      BY <1>0, DivBounds
    <3> QED  BY <3>1, <3>2, <3>3
  <2> QED  BY <1>0, <1>2, <2>1, <2>2
<1>4. CASE i # PieceCount - 1
  <2>1. Length(i) = PieceLength
    BY <1>0, <1>1, <1>4 DEF Length
  <2>2. End(i) <= TotalLength
    <3>1. i < PieceCount - 1 /\ PieceCount - 1 \in Nat
      BY <1>0, <1>1, <1>4
    <3>2. i * PieceLength + PieceLength <= (PieceCount - 1) * PieceLength
      BY <1>0, <1>1, <3>1, Monotone
    <3>3. (PieceCount - 1) * PieceLength <= TotalLength
      <4>1. TotalLength = (PieceCount - 1) * PieceLength + Length(PieceCount - 1)
        BY LastPiece DEF End, Start
      <4>2. (PieceCount - 1) * PieceLength \in Nat
        BY <1>0
      <4> QED  BY <1>0, <4>1, <4>2, LastPiece
    <3>4. (PieceCount - 1) * PieceLength \in Int
      BY <1>0
    <3> QED  BY <1>0, <1>2, <2>1, <3>2, <3>3, <3>4
  <2>3. ASSUME NEW b \in Nat
        PROVE  b \in Bytes(i) <=> b < TotalLength /\ b \div PieceLength = i
    <3>1. b \in Bytes(i) <=> i * PieceLength <= b /\ b < i * PieceLength + PieceLength
      BY <1>0, <1>2, <2>1 DEF Bytes
    <3>2. i * PieceLength <= b /\ b < i * PieceLength + PieceLength
            <=> b \div PieceLength = i
      <4>1. i * PieceLength <= b /\ b < i * PieceLength + PieceLength
              => b \div PieceLength = i
        BY <1>0, <1>1, DivUnique
      <4>2. b \div PieceLength = i
              => i * PieceLength <= b /\ b < i * PieceLength + PieceLength
        BY <1>0, DivBounds
      <4> QED  BY <4>1, <4>2
    <3>3. b < i * PieceLength + PieceLength => b < TotalLength
      BY <1>0, <1>2, <2>1, <2>2
    <3> QED  BY <3>1, <3>2, <3>3
  <2> QED  BY <1>0, <1>2, <2>1, <2>2, <2>3
<1> QED  BY <1>3, <1>4

(* The bytes the torrent's hashes vouch for are those of the piece's Range. *)
LEMMA PieceDataFacts ==
  ASSUME NEW i \in Piece
  PROVE  PieceData(i) = [k \in 0 .. Length(i) - 1 |-> Content[Start(i) + k]]
<1> DEFINE offset == {b \in DOMAIN Content : b \div PieceLength = i}
<1>1. DOMAIN Content = 0 .. TotalLength - 1 /\ TotalLength \in Nat
  BY ContentAssumption
<1>2. offset = Bytes(i)
  <2>1. ASSUME NEW b \in Bytes(i)  PROVE b \in offset
    <3>1. b \in Nat
      BY PieceFacts DEF Bytes
    <3> QED  BY <1>1, <3>1, PieceFacts
  <2>2. ASSUME NEW b \in offset  PROVE b \in Bytes(i)
    BY <1>1, PieceFacts
  <2> QED  BY <2>1, <2>2
<1>3. Cardinality(Bytes(i)) = Length(i)
  <2>0. Start(i) \in Nat /\ Length(i) \in Nat /\ Length(i) >= 1
    BY PieceFacts, ContentAssumption
  <2>1. Start(i) \in Int /\ End(i) - 1 \in Int /\ End(i) = Start(i) + Length(i)
    BY <2>0, PieceFacts
  <2>2. Cardinality(Bytes(i)) = IF Start(i) > End(i) - 1 THEN 0
                                ELSE End(i) - 1 - Start(i) + 1
    BY <2>1, FS_Interval DEF Bytes
  <2> QED  BY <2>0, <2>1, <2>2
<1> QED  BY <1>2, <1>3, PieceFacts DEF PieceData

-----------------------------------------------------------------------------
(* A byte of the file is right. *)
Good(f, b) == b \in DOMAIN f /\ f[b] = Content[b]

(* A piece is genuine when its bytes are right. *)
LEMMA GenuineBytes ==
  ASSUME NEW i \in Piece, NEW f
  PROVE  Genuine(f, i) <=> \A b \in Bytes(i) : Good(f, b)
<1>1. /\ Start(i) \in Nat /\ Start(i) = i * PieceLength /\ Length(i) \in Nat
      /\ End(i) = Start(i) + Length(i)
  BY PieceFacts, ContentAssumption
<1>2. /\ DOMAIN PieceData(i) = 0 .. Length(i) - 1
      /\ \A k \in 0 .. Length(i) - 1 : PieceData(i)[k] = Content[Start(i) + k]
  BY PieceDataFacts
<1>3. Genuine(f, i) <=> \A k \in 0 .. Length(i) - 1 : Good(f, Start(i) + k)
  BY <1>1, <1>2 DEF Genuine, Good
<1>4. \A k \in 0 .. Length(i) - 1 : Start(i) + k \in Bytes(i)
  BY <1>1 DEF Bytes
<1>5. \A b \in Bytes(i) : b - Start(i) \in 0 .. Length(i) - 1 /\ b = Start(i) + (b - Start(i))
  BY <1>1 DEF Bytes
<1> QED  BY <1>3, <1>4, <1>5

(* A piece lies within the file's contents. *)
LEMMA BytesInContent ==
  ASSUME NEW i \in Piece
  PROVE  Bytes(i) \subseteq DOMAIN Content
<1>1. Start(i) \in Nat /\ Length(i) \in Nat
  BY PieceFacts, ContentAssumption
<1>2. End(i) \in Nat /\ End(i) <= TotalLength
  BY <1>1, PieceFacts
<1> QED  BY <1>1, <1>2, ContentAssumption DEF Bytes

(* No byte is in two pieces. *)
LEMMA PiecesAreDisjoint ==
  ASSUME NEW i \in Piece, NEW j \in Piece, i # j
  PROVE  Bytes(i) \cap Bytes(j) = {}
<1> SUFFICES ASSUME NEW b \in Bytes(i), b \in Bytes(j)  PROVE FALSE
  OBVIOUS
<1>1. b \in Nat
  BY BytesInContent, ContentAssumption
<1> QED  BY <1>1, PieceFacts

(* A scan's comparison is about the bytes of the file. *)
LEMMA ScanFindsGenuine ==
  ASSUME NEW i \in Piece, DOMAIN file = DOMAIN Content
  PROVE  ReadPiece(i) = PieceData(i) <=> Genuine(file, i)
<1>1. /\ Start(i) \in Nat /\ Length(i) \in Nat /\ End(i) = Start(i) + Length(i)
      /\ Start(i) = i * PieceLength
  BY PieceFacts, ContentAssumption
<1>2. \A k \in 0 .. Length(i) - 1 : Start(i) + k \in DOMAIN file
  <2>1. \A k \in 0 .. Length(i) - 1 : Start(i) + k \in Bytes(i)
    BY <1>1 DEF Bytes
  <2> QED  BY <2>1, BytesInContent
<1>3. PieceData(i) = [k \in 0 .. Length(i) - 1 |-> Content[Start(i) + k]]
  BY PieceDataFacts
<1>4. Genuine(file, i) <=>
        \A k \in 0 .. Length(i) - 1 : file[Start(i) + k] = Content[Start(i) + k]
  BY <1>1, <1>2, <1>3 DEF Genuine
<1> QED  BY <1>3, <1>4 DEF ReadPiece

-----------------------------------------------------------------------------
(* The inductive invariant *)

(* Every byte that is right on the disk is right in the file: nothing but the
   torrent's own bytes is ever written. *)
DiskInFile == \A b \in DOMAIN Content : Good(disk, b) => Good(file, b)

(* What of a session's state goes with the stage it is at. *)
StageInv ==
  /\ loop = "down" => spawned = 0 /\ verified = {}
  /\ loop # "scanning" => scanning = {}
  /\ ~Up => have = {} /\ pending = {} /\ completed = 0 /\ upload = Idle
  /\ loop = "writing" <=> writing # NoPiece
  /\ completed + Cardinality(pending) + (IF writing = NoPiece THEN 0 ELSE 1)
       <= PieceCount + MaxDuplicates

(* The scan has looked at the pieces whose goroutines are through. *)
ScanInv ==
  loop = "scanning" =>
    verified = {i \in (0 .. spawned - 1) \ scanning : Genuine(file, i)}

(* The bytes WritePiece has written are right. *)
WriteInv ==
  loop = "writing" =>
    /\ written <= Length(writing)
    /\ \A k \in 0 .. written - 1 : Good(file, Start(writing) + k)

(* A block is read only of a piece that we have, and within it. *)
ReadInv ==
  upload.state = "reading" =>
    /\ Up
    /\ upload.request.index \in have
    /\ Fits(upload.request)

StorageInv ==
  /\ TypeOK /\ DiskInFile /\ StageInv /\ ScanInv /\ WriteInv /\ ReadInv
  /\ HaveMatchesFile /\ ServedBlocksAreGenuine /\ ReportedSurvives

-----------------------------------------------------------------------------
(* Facts that the steps share *)

(* Bytes that stay right keep their piece genuine. *)
LEMMA Genuineness ==
  ASSUME NEW f, NEW g, NEW i \in Piece, Genuine(f, i),
         \A b \in DOMAIN Content : Good(f, b) => Good(g, b)
  PROVE  Genuine(g, i)
BY GenuineBytes, BytesInContent

(* What is right on the disk and stays right there stays durable. *)
LEMMA DurableGrows ==
  ASSUME \A b \in DOMAIN Content : Good(disk, b) => Good(disk', b)
  PROVE  Durable \subseteq Durable'
BY Genuineness DEF Durable

(* What is durable on the disk is also what system calls see. *)
LEMMA DurableIsInFile ==
  ASSUME DiskInFile, NEW i \in Durable
  PROVE  i \in Piece /\ Genuine(file, i)
BY Genuineness DEF Durable, DiskInFile

(* A file of permitted size is one of Files. *)
LEMMA FileTypes ==
  ASSUME NEW n \in 0 .. MaxFileSize, NEW f, f \in [0 .. n - 1 -> Byte]
  PROVE  f \in Files
BY DEF Files

(* The end of a session, however the file and the disk come out of it. *)
LEMMA ExitKeepsInv ==
  ASSUME StorageInv, Exit,
         file' \in Files, disk' \in Files,
         \A b \in DOMAIN Content : Good(disk', b) => Good(file', b),
         reported' \in SUBSET Piece, reported' \subseteq Durable'
  PROVE  StorageInv'
<1>1. TypeOK'
  <2>1. PieceCount \in Nat /\ PieceLength \in Nat /\ MaxDuplicates \in Nat
    BY LastPiece, ContentAssumption, LimitsAssumption
  <2>2. upload'.state = "idle"
    BY DEF Exit, Idle
  <2>3. /\ spawned' \in 0 .. PieceCount /\ written' \in 0 .. PieceLength
        /\ completed' \in 0 .. PieceCount + MaxDuplicates
    BY <2>1 DEF Exit
  <2> QED  BY <2>2, <2>3 DEF Exit, TypeOK
<1>2. ~Up'
  BY DEF Exit, Up
<1>3. DiskInFile' /\ ScanInv' /\ WriteInv'
  BY DEF Exit, DiskInFile, ScanInv, WriteInv
<1>4. ReadInv' /\ ServedBlocksAreGenuine'
  BY DEF Exit, ReadInv, ServedBlocksAreGenuine, Idle
<1>5. StageInv'
  <2>1. Cardinality(pending') = 0
    BY FS_EmptySet DEF Exit
  <2>2. PieceCount \in Nat /\ MaxDuplicates \in Nat
    BY LastPiece, LimitsAssumption
  <2> QED  BY <1>2, <2>1, <2>2 DEF Exit, StageInv
<1>6. HaveMatchesFile' /\ ReportedSurvives'
  BY <1>2 DEF HaveMatchesFile, ReportedSurvives
<1> QED  BY <1>1, <1>3, <1>4, <1>5, <1>6 DEF StorageInv

(* The steps that end a session. *)
Ends == NothingToDo \/ DownloadFails \/ Shutdown \/ (Complete /\ Exit) \/ Kill \/ PowerLoss

(* None of them takes away a byte that had reached the disk, and a machine that
   stops leaves the file as the disk has it. *)
LEMMA EndsKeepFile ==
  ASSUME StorageInv, Ends
  PROVE  /\ file' \in Files /\ disk' \in Files
         /\ \A b \in DOMAIN Content : Good(disk', b) => Good(file', b)
         /\ \A b \in DOMAIN Content : Good(disk, b) => Good(disk', b)
<1>0. /\ file \in Files /\ disk \in Files
      /\ \A b \in DOMAIN Content : Good(disk, b) => Good(file, b)
  BY DEF StorageInv, TypeOK, DiskInFile
<1>1. CASE NothingToDo \/ DownloadFails \/ Kill
  BY <1>0, <1>1 DEF NothingToDo, DownloadFails, Kill
<1>2. CASE Shutdown \/ Complete
  <2>1. file' = file /\ disk' \in {file, disk}
    BY <1>2 DEF Shutdown, Complete, Flushed
  <2> QED  BY <1>0, <2>1
<1>3. CASE PowerLoss
  <2>1. PICK lucky \in SUBSET DOMAIN file, size \in {DOMAIN disk, DOMAIN file} :
          disk' = [b \in size |-> IF b \in lucky THEN file[b]
                                  ELSE IF b \in DOMAIN disk THEN disk[b] ELSE 0]
    BY <1>3 DEF PowerLoss
  <2>2. file' = disk'
    BY <1>3 DEF PowerLoss
  <2>3. disk' \in Files
    <3>1. PICK n \in 0 .. MaxFileSize : file \in [0 .. n - 1 -> Byte]
      BY <1>0 DEF Files
    <3>2. PICK m \in 0 .. MaxFileSize : disk \in [0 .. m - 1 -> Byte]
      BY <1>0 DEF Files
    <3>3. \A b \in size : disk'[b] \in Byte
      BY <2>1, <3>1, <3>2 DEF Byte
    <3>4. disk' \in [size -> Byte]
      BY <2>1, <3>3
    <3>5. size \in {0 .. n - 1, 0 .. m - 1}
      BY <3>1, <3>2
    <3> QED  BY <3>4, <3>5, FileTypes
  <2>4. ASSUME NEW b \in DOMAIN Content, Good(disk, b)  PROVE Good(disk', b)
    <3>1. Good(file, b)
      BY <1>0, <2>4
    <3>2. b \in size
      BY <2>4, <3>1 DEF Good
    <3> QED  BY <2>1, <2>4, <3>1, <3>2 DEF Good
  <2> QED  BY <2>2, <2>3, <2>4
<1> QED  BY <1>1, <1>2, <1>3 DEF Ends

(* The end of a session keeps the invariant; a flush makes all that the session
   has durable before the tracker is told. *)
LEMMA EndsKeepInv ==
  ASSUME StorageInv, Ends
  PROVE  StorageInv'
<1>1. Exit
  BY DEF Ends, NothingToDo, DownloadFails, Shutdown, Kill, PowerLoss
<1>2. Durable \subseteq Durable'
  BY EndsKeepFile, DurableGrows
<1>3. reported' \in SUBSET Piece /\ reported' \subseteq Durable'
  <2>0. reported \in SUBSET Piece /\ reported \subseteq Durable /\ have \in SUBSET Piece
    BY DEF StorageInv, TypeOK, ReportedSurvives
  <2>1. CASE UNCHANGED reported
    BY <1>2, <2>0, <2>1
  <2>2. CASE Complete
    <3>1. reported' = reported \cup have /\ disk' = file /\ Up
      BY <2>2 DEF Complete, Flushed, Up
    <3>2. \A i \in have : Genuine(disk', i)
      BY <3>1 DEF StorageInv, HaveMatchesFile
    <3>3. have \subseteq Durable'
      BY <2>0, <3>2 DEF Durable
    <3> QED  BY <1>2, <2>0, <3>1, <3>3
  <2> QED  BY <2>1, <2>2 DEF Ends, NothingToDo, DownloadFails, Shutdown, Kill, PowerLoss
<1> QED  BY <1>1, <1>3, EndsKeepFile, ExitKeepsInv

-----------------------------------------------------------------------------
(* Opening the file *)

(* Create keeps the bytes of the file that was found. *)
LEMMA CreateKeepsInv ==
  ASSUME StorageInv, Create
  PROVE  StorageInv'
<1>0. /\ TotalLength \in Nat \ {0} /\ TotalLength \in 0 .. MaxFileSize
      /\ DOMAIN Content = 0 .. TotalLength - 1 /\ PieceCount \in Nat
  BY ContentAssumption, LimitsAssumption, LastPiece
<1>1. /\ file' = [b \in 0 .. TotalLength - 1 |-> IF b \in DOMAIN file THEN file[b] ELSE 0]
      /\ loop = "down" /\ loop' = "scanning"
      /\ UNCHANGED <<disk, scanning, verified, have, completed, pending, writing, written,
                     amChoking, upload, reported>>
  BY DEF Create, Resize, writeVars, serveVars
<1>2. DOMAIN file' = DOMAIN Content /\ spawned' = 0
  BY <1>0, <1>1 DEF Create
<1>3. ~Up /\ ~Up'
  BY <1>1 DEF Up
<1>4. scanning = {} /\ verified = {} /\ writing = NoPiece
  BY <1>1 DEF StorageInv, StageInv
<1>5. file' \in Files
  <2>1. PICK n \in 0 .. MaxFileSize : file \in [0 .. n - 1 -> Byte]
    BY DEF StorageInv, TypeOK, Files
  <2>2. file' \in [0 .. TotalLength - 1 -> Byte]
    BY <1>1, <2>1 DEF Byte
  <2> QED  BY <1>0, <2>2, FileTypes
<1>6. TypeOK'
  BY <1>0, <1>1, <1>2, <1>4, <1>5 DEF StorageInv, TypeOK
<1>7. DiskInFile'
  BY <1>0, <1>1 DEF StorageInv, DiskInFile, Good
<1>8. StageInv'
  BY <1>1, <1>3, <1>4 DEF StorageInv, StageInv
<1>9. ScanInv'
  BY <1>1, <1>2, <1>4 DEF ScanInv
<1>10. WriteInv' /\ HaveMatchesFile'
  BY <1>1, <1>3 DEF WriteInv, HaveMatchesFile
<1>11. ReadInv' /\ ServedBlocksAreGenuine'
  BY <1>1, <1>3 DEF StorageInv, StageInv, ReadInv, ServedBlocksAreGenuine, Idle
<1>12. ReportedSurvives'
  BY <1>1, <1>3 DEF StorageInv, ReportedSurvives, Durable
<1> QED  BY <1>6, <1>7, <1>8, <1>9, <1>10, <1>11, <1>12 DEF StorageInv

(* A goroutine of the scan starts, or has compared its piece. *)
LEMMA ScanKeepsInv ==
  ASSUME StorageInv, SpawnScan \/ \E i \in Piece : ScanPiece(i)
  PROVE  StorageInv'
<1>0. PieceCount \in Nat /\ spawned \in 0 .. PieceCount
  BY LastPiece DEF StorageInv, TypeOK
<1>1. /\ loop = "scanning"
      /\ UNCHANGED <<file, disk, loop, have, completed, pending, writing, written,
                     amChoking, upload, reported>>
  BY DEF StorageInv, StageInv, SpawnScan, ScanPiece, writeVars, serveVars
<1>2. ~Up /\ ~Up'
  BY <1>1 DEF Up
<1>3. DOMAIN file = DOMAIN Content
  BY <1>1 DEF StorageInv, TypeOK
<1>4. /\ scanning \in SUBSET (0 .. spawned - 1) /\ verified \in SUBSET (0 .. spawned - 1)
      /\ verified = {j \in (0 .. spawned - 1) \ scanning : Genuine(file, j)}
  BY <1>1 DEF StorageInv, TypeOK, ScanInv
<1>5. /\ spawned' \in 0 .. PieceCount
      /\ scanning' \in SUBSET (0 .. spawned' - 1) /\ verified' \in SUBSET (0 .. spawned' - 1)
      /\ verified' = {j \in (0 .. spawned' - 1) \ scanning' : Genuine(file, j)}
  <2>1. CASE SpawnScan
    <3>1. /\ spawned < PieceCount /\ spawned' = spawned + 1
          /\ scanning' = scanning \cup {spawned} /\ verified' = verified
      BY <2>1 DEF SpawnScan
    <3>2. (0 .. spawned' - 1) \ scanning' = (0 .. spawned - 1) \ scanning
      BY <1>0, <1>4, <3>1
    <3> QED  BY <1>0, <1>4, <3>1, <3>2
  <2>2. ASSUME NEW i \in Piece, ScanPiece(i)
        PROVE  /\ spawned' = spawned /\ scanning' = scanning \ {i} /\ i \in scanning
               /\ verified' = IF Genuine(file, i) THEN verified \cup {i} ELSE verified
    BY <1>3, <2>2, ScanFindsGenuine DEF ScanPiece
  <2>3. CASE \E i \in Piece : ScanPiece(i)
    BY <1>0, <1>4, <2>2, <2>3
  <2> QED  BY <2>1, <2>3
<1>6. TypeOK'
  BY <1>1, <1>5 DEF StorageInv, TypeOK
<1>7. StageInv'
  BY <1>1, <1>2 DEF StorageInv, StageInv
<1>8. ScanInv'
  BY <1>1, <1>5 DEF ScanInv
<1>9. DiskInFile' /\ WriteInv' /\ HaveMatchesFile'
  BY <1>1, <1>2 DEF StorageInv, DiskInFile, WriteInv, HaveMatchesFile
<1>10. ReadInv' /\ ServedBlocksAreGenuine'
  BY <1>1, <1>2 DEF StorageInv, StageInv, ReadInv, ServedBlocksAreGenuine, Idle
<1>11. ReportedSurvives'
  BY <1>1, <1>2 DEF StorageInv, ReportedSurvives, Durable
<1> QED  BY <1>6, <1>7, <1>8, <1>9, <1>10, <1>11 DEF StorageInv

(* What the scan found is what the file has, and with it all that was reported. *)
LEMMA ScanDoneKeepsInv ==
  ASSUME StorageInv, ScanDone
  PROVE  /\ StorageInv'
         /\ ~Up /\ Up' /\ have' = {i \in Piece : Genuine(file, i)}
<1>0. PieceCount \in Nat /\ MaxDuplicates \in Nat /\ PieceLength \in Nat
  BY LastPiece, LimitsAssumption, ContentAssumption
<1>1. /\ loop = "scanning" /\ loop' = "select"
      /\ spawned = PieceCount /\ scanning = {}
      /\ have' = verified /\ completed' = Cardinality(verified)
      /\ UNCHANGED <<file, disk, spawned, scanning, verified, pending, writing, written,
                     amChoking, upload, reported>>
  BY DEF ScanDone, scanVars, writeVars, serveVars
<1>2. ~Up /\ Up'
  BY <1>1 DEF Up
<1>3. verified = {i \in Piece : Genuine(file, i)}
  BY <1>1 DEF StorageInv, ScanInv, Piece
<1>4. verified \in SUBSET Piece /\ Cardinality(verified) \in 0 .. PieceCount
  <2>1. IsFiniteSet(Piece) /\ Cardinality(Piece) = PieceCount
    BY <1>0, FS_Interval DEF Piece
  <2>2. verified \in SUBSET Piece
    BY <1>3
  <2> QED  BY <1>0, <2>1, <2>2, FS_Subset, FS_CardinalityType
<1>5. completed' \in 0 .. PieceCount + MaxDuplicates
  BY <1>0, <1>1, <1>4
<1>6. pending = {} /\ writing = NoPiece /\ upload = Idle
  BY <1>1, <1>2 DEF StorageInv, StageInv
<1>7. TypeOK'
  BY <1>1, <1>4, <1>5 DEF StorageInv, TypeOK
<1>8. StageInv'
  <2>1. Cardinality(pending') = 0
    BY <1>1, <1>6, FS_EmptySet
  <2>2. completed' + Cardinality(pending') + (IF writing' = NoPiece THEN 0 ELSE 1)
          <= PieceCount + MaxDuplicates
    BY <1>0, <1>1, <1>4, <1>6, <2>1
  <2> QED  BY <1>1, <1>2, <1>6, <2>2 DEF StageInv
<1>9. HaveMatchesFile'
  BY <1>1, <1>3 DEF HaveMatchesFile
<1>10. ReportedSurvives'
  <2>1. reported \subseteq Durable /\ Durable' = Durable
    BY <1>1 DEF StorageInv, ReportedSurvives, Durable
  <2>2. Durable \subseteq verified
    BY <1>3, DurableIsInFile DEF StorageInv
  <2> QED  BY <1>1, <2>1, <2>2 DEF ReportedSurvives
<1>11. DiskInFile' /\ WriteInv' /\ ScanInv'
  BY <1>1 DEF StorageInv, DiskInFile, WriteInv, ScanInv
<1>12. ReadInv' /\ ServedBlocksAreGenuine'
  BY <1>1, <1>6 DEF ReadInv, ServedBlocksAreGenuine, Idle
<1> QED  BY <1>1, <1>2, <1>3, <1>7, <1>8, <1>9, <1>10, <1>11, <1>12 DEF StorageInv

-----------------------------------------------------------------------------
(* The main loop *)

(* Results that wait for the main loop can be counted. *)
LEMMA PendingIsFinite ==
  ASSUME StorageInv
  PROVE  IsFiniteSet(pending) /\ Cardinality(pending) \in Nat
<1>1. IsFiniteSet(Piece)
  BY LastPiece, FS_Interval DEF Piece
<1> QED  BY <1>1, FS_Subset, FS_CardinalityType DEF StorageInv, TypeOK

(* The counter of completed pieces cannot outrun the results that were received. *)
LEMMA CountBounds ==
  ASSUME StorageInv
  PROVE  /\ PieceCount \in Nat /\ MaxDuplicates \in Nat
         /\ completed \in Nat /\ Cardinality(pending) \in Nat
         /\ completed + Cardinality(pending) + (IF writing = NoPiece THEN 0 ELSE 1)
              <= PieceCount + MaxDuplicates
<1>1. PieceCount \in Nat /\ MaxDuplicates \in Nat
  BY LastPiece, LimitsAssumption
<1> QED  BY <1>1, PendingIsFinite DEF StorageInv, TypeOK, StageInv

(* A result on its way touches nothing else. *)
LEMMA ReceiveKeepsInv ==
  ASSUME StorageInv, NEW i \in Piece, Receive(i)
  PROVE  StorageInv'
<1>1. /\ Up /\ i \notin pending /\ pending' = pending \cup {i}
      /\ UNCHANGED <<file, disk, loop, spawned, scanning, verified, have, completed,
                     writing, written, amChoking, upload, reported>>
  BY DEF Receive, scanVars, writeVars, serveVars
<1>2. Up'
  BY <1>1 DEF Up
<1>3. Cardinality(pending') = Cardinality(pending) + 1
  BY <1>1, PendingIsFinite, FS_AddElement
<1>4. Cardinality({writing} \ {NoPiece}) = IF writing = NoPiece THEN 0 ELSE 1
  <2>1. CASE writing = NoPiece
    <3>1. {writing} \ {NoPiece} = {}
      BY <2>1
    <3> QED  BY <2>1, <3>1, FS_EmptySet
  <2>2. CASE writing # NoPiece
    <3>1. {writing} \ {NoPiece} = {writing}
      BY <2>2
    <3> QED  BY <2>2, <3>1, FS_Singleton
  <2> QED  BY <2>1, <2>2
<1>5. completed' + Cardinality(pending') + (IF writing' = NoPiece THEN 0 ELSE 1)
        <= PieceCount + MaxDuplicates
  <2>1. completed + Cardinality(pending) + Cardinality({writing} \ {NoPiece})
          < PieceCount + MaxDuplicates
    BY DEF Receive
  <2> QED  BY <1>1, <1>3, <1>4, <2>1, CountBounds
<1>6. StageInv'
  BY <1>1, <1>2, <1>5 DEF StorageInv, StageInv
<1>7. TypeOK'
  BY <1>1 DEF StorageInv, TypeOK
<1>8. /\ DiskInFile' /\ ScanInv' /\ WriteInv' /\ HaveMatchesFile'
      /\ ReadInv' /\ ServedBlocksAreGenuine' /\ ReportedSurvives'
  BY <1>1, <1>2 DEF StorageInv, DiskInFile, ScanInv, WriteInv, HaveMatchesFile, ReadInv,
     ServedBlocksAreGenuine, ReportedSurvives, Durable
<1> QED  BY <1>6, <1>7, <1>8 DEF StorageInv

(* The main loop takes a result and begins to write its piece. *)
LEMMA TakeResultKeepsInv ==
  ASSUME StorageInv, NEW i \in Piece, TakeResult(i)
  PROVE  StorageInv'
<1>0. PieceLength \in Nat \ {0}
  BY ContentAssumption
<1>1. /\ loop = "select" /\ loop' = "writing"
      /\ i \in pending /\ pending' = pending \ {i}
      /\ writing' = i /\ written' = 0
      /\ UNCHANGED <<file, disk, spawned, scanning, verified, have, completed,
                     amChoking, upload, reported>>
  BY DEF TakeResult, scanVars, serveVars
<1>2. Up /\ Up' /\ writing = NoPiece /\ i # NoPiece
  BY <1>1, LastPiece DEF StorageInv, StageInv, Up, Piece, NoPiece
<1>3. Cardinality(pending') = Cardinality(pending) - 1
  BY <1>1, PendingIsFinite, FS_RemoveElement
<1>4. completed' + Cardinality(pending') + (IF writing' = NoPiece THEN 0 ELSE 1)
        <= PieceCount + MaxDuplicates
  BY <1>1, <1>2, <1>3, CountBounds
<1>5. StageInv'
  BY <1>1, <1>2, <1>4 DEF StorageInv, StageInv
<1>6. TypeOK'
  BY <1>0, <1>1 DEF StorageInv, TypeOK
<1>7. WriteInv'
  <2>1. Length(i) \in Nat
    BY PieceFacts, <1>0
  <2> QED  BY <1>1, <2>1 DEF WriteInv
<1>8. HaveMatchesFile'
  BY <1>1, <1>2, LastPiece DEF StorageInv, HaveMatchesFile, Piece, NoPiece
<1>9. DiskInFile' /\ ScanInv' /\ ReadInv' /\ ServedBlocksAreGenuine' /\ ReportedSurvives'
  BY <1>1, <1>2 DEF StorageInv, DiskInFile, ScanInv, ReadInv,
     ServedBlocksAreGenuine, ReportedSurvives, Durable
<1> QED  BY <1>5, <1>6, <1>7, <1>8, <1>9 DEF StorageInv

(* A byte written is the torrent's byte at that offset, so that every byte that
   was right stays right, and no other piece becomes right by it. *)
LEMMA WriteByteKeepsInv ==
  ASSUME StorageInv, WriteByte
  PROVE  StorageInv'
<1> DEFINE w == writing
           at == Start(w) + written
<1>1. /\ loop = "writing" /\ loop' = "writing" /\ written < Length(w)
      /\ file' = [file EXCEPT ![at] = PieceData(w)[written]]
      /\ written' = written + 1
      /\ UNCHANGED <<disk, spawned, scanning, verified, have, completed, pending, writing,
                     amChoking, upload, reported>>
  BY DEF WriteByte, scanVars, serveVars
<1>2. w \in Piece /\ written \in Nat /\ DOMAIN file = DOMAIN Content /\ Up /\ Up'
  BY <1>1, ContentAssumption DEF StorageInv, TypeOK, StageInv, Up
<1>3. /\ Length(w) \in 1 .. PieceLength /\ Start(w) \in Nat
      /\ End(w) = Start(w) + Length(w) /\ PieceLength \in Nat
  BY <1>2, PieceFacts, ContentAssumption
<1>4. at \in Bytes(w) /\ at \in DOMAIN file
  <2>1. at \in Bytes(w)
    BY <1>1, <1>2, <1>3 DEF Bytes
  <2> QED  BY <1>2, <2>1, BytesInContent
<1>5. PieceData(w)[written] = Content[at]
  <2>1. written \in 0 .. Length(w) - 1
    BY <1>1, <1>2, <1>3
  <2> QED  BY <1>2, <2>1, PieceDataFacts
<1>6. /\ DOMAIN file' = DOMAIN file
      /\ file'[at] = Content[at]
      /\ \A b \in DOMAIN file \ {at} : file'[b] = file[b]
  <2>1. PICK n \in 0 .. MaxFileSize : file \in [0 .. n - 1 -> Byte]
    BY DEF StorageInv, TypeOK, Files
  <2> HIDE DEF at
  <2> QED  BY <1>1, <1>4, <1>5, <2>1
<1>7. \A b : Good(file, b) => Good(file', b)
  BY <1>6 DEF Good
<1>8. TypeOK'
  <2>1. PICK n \in 0 .. MaxFileSize : file \in [0 .. n - 1 -> Byte]
    BY DEF StorageInv, TypeOK, Files
  <2>2. Content[at] \in Byte
    BY <1>2, <1>4, ContentAssumption
  <2>3. file' \in [0 .. n - 1 -> Byte]
    <3> HIDE DEF at
    <3> QED  BY <1>1, <1>5, <2>1, <2>2
  <2>4. file' \in Files
    BY <2>3, FileTypes
  <2>5. written' \in 0 .. PieceLength
    BY <1>1, <1>2, <1>3
  <2> QED  BY <1>1, <1>6, <2>4, <2>5 DEF StorageInv, TypeOK
<1>9. DiskInFile'
  BY <1>1, <1>7 DEF StorageInv, DiskInFile
<1>10. WriteInv'
  <2>1. written' <= Length(w)
    BY <1>1, <1>2, <1>3
  <2>2. ASSUME NEW k \in 0 .. written' - 1  PROVE Good(file', Start(w) + k)
    <3>1. CASE k = written
      BY <1>4, <1>6, <3>1 DEF Good
    <3>2. CASE k # written
      <4>1. k \in 0 .. written - 1
        BY <1>1, <1>2, <3>2
      <4> QED  BY <1>1, <1>7, <4>1 DEF StorageInv, WriteInv
    <3> QED  BY <3>1, <3>2
  <2> QED  BY <1>1, <2>1, <2>2 DEF WriteInv
<1>11. HaveMatchesFile'
  <2>1. have \in SUBSET Piece /\ \A i \in have : Genuine(file, i)
    BY <1>2 DEF StorageInv, TypeOK, HaveMatchesFile
  <2>2. \A i \in have : Genuine(file', i)
    BY <1>7, <2>1, Genuineness
  <2>3. ASSUME NEW i \in Piece \ {w}, Genuine(file', i)  PROVE i \in have
    <3>1. at \notin Bytes(i)
      BY <1>2, <1>4, PiecesAreDisjoint
    <3>2. \A b \in Bytes(i) : Good(file', b) => Good(file, b)
      BY <1>6, <3>1 DEF Good
    <3>3. Genuine(file, i)
      BY <2>3, <3>2, GenuineBytes
    <3> QED  BY <1>2, <3>3 DEF StorageInv, HaveMatchesFile
  <2> QED  BY <1>1, <1>2, <2>2, <2>3 DEF HaveMatchesFile
<1>12. StageInv' /\ ScanInv' /\ ReadInv'
  BY <1>1, <1>2 DEF StorageInv, StageInv, ScanInv, ReadInv
<1>13. ServedBlocksAreGenuine' /\ ReportedSurvives'
  BY <1>1, <1>2 DEF StorageInv, ServedBlocksAreGenuine, ReportedSurvives, Durable
<1> QED  BY <1>8, <1>9, <1>10, <1>11, <1>12, <1>13 DEF StorageInv

(* have.Set comes when the whole piece is in the file. *)
LEMMA PieceWrittenKeepsInv ==
  ASSUME StorageInv, PieceWritten
  PROVE  StorageInv' /\ Up /\ Up' /\ writing \in Piece /\ have' = have \cup {writing}
<1> DEFINE w == writing
<1>1. /\ loop = "writing" /\ written = Length(w)
      /\ have' = have \cup {w} /\ completed' = completed + 1
      /\ loop' \in {"syncing", "select"}
      /\ writing' = NoPiece /\ written' = 0
      /\ UNCHANGED <<file, disk, spawned, scanning, verified, pending,
                     amChoking, upload, reported>>
  BY DEF PieceWritten, SetHave, scanVars, serveVars
<1>2. w \in Piece /\ w # NoPiece /\ Up /\ Up'
  BY <1>1 DEF StorageInv, TypeOK, StageInv, Up
<1>3. /\ Start(w) \in Nat /\ Length(w) \in Nat /\ End(w) = Start(w) + Length(w)
      /\ PieceLength \in Nat
  BY <1>2, PieceFacts, ContentAssumption
<1>4. Genuine(file, w)
  <2>1. \A k \in 0 .. Length(w) - 1 : Good(file, Start(w) + k)
    BY <1>1 DEF StorageInv, WriteInv
  <2>2. \A b \in Bytes(w) : b - Start(w) \in 0 .. Length(w) - 1 /\ b = Start(w) + (b - Start(w))
    BY <1>3 DEF Bytes
  <2>3. \A b \in Bytes(w) : Good(file, b)
    BY <2>1, <2>2
  <2> QED  BY <1>2, <2>3, GenuineBytes
<1>5. HaveMatchesFile'
  BY <1>1, <1>2, <1>4 DEF StorageInv, HaveMatchesFile
<1>6. completed' + Cardinality(pending') + (IF writing' = NoPiece THEN 0 ELSE 1)
        <= PieceCount + MaxDuplicates
  BY <1>1, <1>2, CountBounds
<1>7. StageInv'
  BY <1>1, <1>2, <1>6 DEF StorageInv, StageInv
<1>8. TypeOK'
  <2>1. completed' \in 0 .. PieceCount + MaxDuplicates
    BY <1>1, <1>6, CountBounds
  <2> QED  BY <1>1, <1>2, <1>3, <2>1 DEF StorageInv, TypeOK
<1>9. ReportedSurvives'
  BY <1>1, <1>2 DEF StorageInv, ReportedSurvives, Durable
<1>10. DiskInFile' /\ ScanInv' /\ WriteInv' /\ ReadInv' /\ ServedBlocksAreGenuine'
  BY <1>1, <1>2 DEF StorageInv, DiskInFile, ScanInv, WriteInv, ReadInv, ServedBlocksAreGenuine
<1> QED  BY <1>1, <1>2, <1>5, <1>7, <1>8, <1>9, <1>10 DEF StorageInv

(* The flush makes durable exactly what the session has. *)
LEMMA CompleteFlushes ==
  ASSUME StorageInv, Complete
  PROVE  Up /\ Durable' = Durable \cup have /\ Durable' = have
<1>1. loop = "syncing" /\ disk' = file /\ Up /\ writing = NoPiece
  BY DEF StorageInv, StageInv, Complete, Flushed, Up
<1>2. have = {i \in Piece : Genuine(file, i)}
  <2>1. Piece \ {writing} = Piece
    BY <1>1, LastPiece DEF Piece, NoPiece
  <2> QED  BY <1>1, <2>1 DEF StorageInv, TypeOK, HaveMatchesFile
<1>3. Durable' = have
  BY <1>1, <1>2 DEF Durable
<1>4. Durable \subseteq have
  BY <1>2, DurableIsInFile DEF StorageInv
<1> QED  BY <1>1, <1>3, <1>4

(* The last piece is flushed and the client stays to seed. *)
LEMMA SeederKeepsInv ==
  ASSUME StorageInv, Complete, ~Exit
  PROVE  StorageInv'
<1>1. /\ loop = "syncing" /\ loop' = "select" /\ disk' = file
      /\ reported' = reported \cup have
      /\ UNCHANGED <<file, spawned, scanning, verified, have, completed, pending,
                     writing, written, amChoking, upload>>
  BY DEF Complete, Flushed, scanVars, writeVars, serveVars
<1>2. Up /\ Up'
  BY <1>1 DEF Up
<1>3. ReportedSurvives'
  BY <1>1, <1>2, CompleteFlushes DEF StorageInv, ReportedSurvives
<1>4. TypeOK'
  BY <1>1 DEF StorageInv, TypeOK
<1>5. StageInv'
  BY <1>1, <1>2 DEF StorageInv, StageInv
<1>6. /\ DiskInFile' /\ ScanInv' /\ WriteInv' /\ HaveMatchesFile' /\ ReadInv'
      /\ ServedBlocksAreGenuine'
  BY <1>1, <1>2 DEF StorageInv, DiskInFile, ScanInv, WriteInv, HaveMatchesFile, ReadInv,
     ServedBlocksAreGenuine
<1> QED  BY <1>3, <1>4, <1>5, <1>6 DEF StorageInv

-----------------------------------------------------------------------------
(* Serving *)

(* A block is read from bytes that are right, since the piece is in have. *)
LEMMA ReadBlockIsGenuine ==
  ASSUME StorageInv, upload.state = "reading"
  PROVE  LET r == upload.request IN
         \A k \in 0 .. r.length - 1 : ReadBlock(r)[k] = PieceData(r.index)[r.begin + k]
<1> DEFINE r == upload.request
           i == r.index
<1>0. r \in Request /\ Up /\ i \in have /\ Fits(r)
  BY DEF StorageInv, TypeOK, ReadInv
<1>1. i \in Piece /\ Genuine(file, i)
  BY <1>0 DEF StorageInv, TypeOK, HaveMatchesFile
<1>2. r.begin \in Nat /\ r.length \in Nat
  BY <1>0, ContentAssumption DEF Request
<1>3. Start(i) \in Nat /\ Length(i) \in Nat /\ Start(i) = i * PieceLength
  BY <1>1, PieceFacts, ContentAssumption
<1> SUFFICES ASSUME NEW k \in 0 .. r.length - 1
             PROVE  ReadBlock(r)[k] = PieceData(i)[r.begin + k]
  OBVIOUS
<1>4. r.begin + k \in 0 .. Length(i) - 1
  BY <1>0, <1>2, <1>3 DEF Fits
<1>5. r.begin + k \in DOMAIN PieceData(i)
  BY <1>1, <1>4, PieceDataFacts
<1>6. file[Start(i) + (r.begin + k)] = PieceData(i)[r.begin + k]
  BY <1>1, <1>3, <1>5 DEF Genuine
<1>7. Start(i) + (r.begin + k) = Start(i) + r.begin + k
  BY <1>2, <1>3
<1> QED  BY <1>6, <1>7 DEF ReadBlock

(* Every step of serveRequest and of the choking that goes on beside it. *)
LEMMA ServeKeepsInv ==
  ASSUME StorageInv, Serve
  PROVE  StorageInv'
<1>1. UNCHANGED <<file, disk, loop, spawned, scanning, verified, have, completed, pending,
                  writing, written, reported>>
  BY DEF Serve, ChangeChoke, AcceptRequest, RejectRequest, SendBlock,
     SendBlockFails, NextRequest, scanVars, writeVars
<1>2. Up' <=> Up
  BY <1>1 DEF Up
<1>3. DiskInFile' /\ ScanInv' /\ WriteInv' /\ HaveMatchesFile' /\ ReportedSurvives'
  BY <1>1, <1>2 DEF StorageInv, DiskInFile, ScanInv, WriteInv, HaveMatchesFile,
     ReportedSurvives, Durable
<1>4. ASSUME amChoking' \in BOOLEAN, ~Up => upload' = Idle,
             upload'.state \in {"idle", "closed", "reading", "sent"},
             upload'.state \in {"reading", "sent"} => upload'.request \in Request,
             ReadInv', ServedBlocksAreGenuine'
      PROVE  StorageInv'
  <2>1. TypeOK'
    BY <1>1, <1>4 DEF StorageInv, TypeOK
  <2>2. StageInv'
    BY <1>1, <1>2, <1>4 DEF StorageInv, StageInv
  <2> QED  BY <1>3, <1>4, <2>1, <2>2 DEF StorageInv
<1>5. CASE ChangeChoke
  <2>1. upload = Idle /\ upload' = upload /\ amChoking' \in BOOLEAN
    BY <1>5 DEF StorageInv, TypeOK, ChangeChoke
  <2> QED  BY <1>4, <2>1 DEF Idle, ReadInv, ServedBlocksAreGenuine
<1>6. ASSUME NEW r \in Request, AcceptRequest(r)  PROVE StorageInv'
  <2>1. Up /\ r.index \in have /\ Fits(r) /\ upload' = Reading(r) /\ amChoking' = amChoking
    BY <1>6 DEF AcceptRequest, Willing
  <2>2. upload'.state = "reading" /\ upload'.request = r
    BY <2>1 DEF Reading
  <2>3. ReadInv'
    BY <1>1, <1>2, <2>1, <2>2 DEF ReadInv
  <2>4. ServedBlocksAreGenuine'
    BY <2>2 DEF ServedBlocksAreGenuine
  <2>5. amChoking \in BOOLEAN
    BY DEF StorageInv, TypeOK
  <2> QED  BY <1>4, <2>1, <2>2, <2>3, <2>4, <2>5
<1>7. ASSUME NEW r \in Request, RejectRequest(r)  PROVE StorageInv'
  <2>1. Up /\ upload' = Closed /\ amChoking' = amChoking
    BY <1>7 DEF RejectRequest
  <2>2. amChoking \in BOOLEAN
    BY DEF StorageInv, TypeOK
  <2> QED  BY <1>4, <2>1, <2>2 DEF Closed, ReadInv, ServedBlocksAreGenuine
<1>8. CASE SendBlock
  <2>1. /\ upload.state = "reading" /\ amChoking' = amChoking
        /\ upload' = Sent(upload.request, ReadBlock(upload.request))
    BY <1>8 DEF SendBlock
  <2>2. upload.request \in Request /\ Up /\ amChoking \in BOOLEAN
    BY <2>1 DEF StorageInv, TypeOK, ReadInv
  <2>3. /\ upload'.state = "sent" /\ upload'.request = upload.request
        /\ upload'.block = ReadBlock(upload.request)
    BY <2>1 DEF Sent
  <2>4. ServedBlocksAreGenuine'
    BY <2>1, <2>3, ReadBlockIsGenuine DEF ServedBlocksAreGenuine
  <2>5. ReadInv'
    BY <2>3 DEF ReadInv
  <2> QED  BY <1>4, <2>1, <2>2, <2>3, <2>4, <2>5
<1>9. CASE SendBlockFails
  <2>1. upload.state = "reading" /\ upload' = Closed /\ amChoking' = amChoking
    BY <1>9 DEF SendBlockFails
  <2>2. Up /\ amChoking \in BOOLEAN
    BY <2>1 DEF StorageInv, TypeOK, ReadInv
  <2> QED  BY <1>4, <2>1, <2>2 DEF Closed, ReadInv, ServedBlocksAreGenuine
<1>10. CASE NextRequest
  <2>1. upload' = Idle /\ amChoking' \in BOOLEAN
    BY <1>10 DEF StorageInv, TypeOK, NextRequest
  <2> QED  BY <1>4, <2>1 DEF Idle, ReadInv, ServedBlocksAreGenuine
<1> QED  BY <1>5, <1>6, <1>7, <1>8, <1>9, <1>10 DEF Serve

(* A step of nothing modelled here. *)
LEMMA StutterKeepsInv ==
  ASSUME StorageInv, UNCHANGED vars
  PROVE  StorageInv'
<1>1. UNCHANGED <<file, disk, loop, spawned, scanning, verified, have, completed, pending,
                  writing, written, amChoking, upload, reported>>
  BY DEF vars, sessionVars
<1>2. Up' <=> Up
  BY <1>1 DEF Up
<1>3. TypeOK'
  BY <1>1 DEF StorageInv, TypeOK
<1>4. StageInv'
  BY <1>1, <1>2 DEF StorageInv, StageInv
<1>5. /\ DiskInFile' /\ ScanInv' /\ WriteInv' /\ HaveMatchesFile' /\ ReadInv'
      /\ ServedBlocksAreGenuine' /\ ReportedSurvives'
  BY <1>1, <1>2 DEF StorageInv, DiskInFile, ScanInv, WriteInv, HaveMatchesFile, ReadInv,
     ServedBlocksAreGenuine, ReportedSurvives, Durable
<1> QED  BY <1>3, <1>4, <1>5 DEF StorageInv

-----------------------------------------------------------------------------
(* StorageInv is an inductive invariant. *)

(* The invariant holds when the first session begins, whatever file it finds. *)
LEMMA InitEstablishesInv == Init => StorageInv
<1> SUFFICES ASSUME Init PROVE StorageInv
  OBVIOUS
<1>0. PieceCount \in Nat /\ PieceLength \in Nat /\ MaxDuplicates \in Nat
  BY LastPiece, ContentAssumption, LimitsAssumption
<1>1. ~Up /\ upload.state = "idle"
  BY DEF Init, Up, Idle
<1>2. TypeOK
  BY <1>0, <1>1 DEF Init, TypeOK
<1>3. StageInv
  <2>1. Cardinality(pending) = 0
    BY FS_EmptySet DEF Init
  <2> QED  BY <1>0, <1>1, <2>1 DEF Init, StageInv
<1>4. DiskInFile /\ ScanInv /\ WriteInv /\ HaveMatchesFile
  BY <1>1 DEF Init, DiskInFile, ScanInv, WriteInv, HaveMatchesFile
<1>5. ReadInv /\ ServedBlocksAreGenuine /\ ReportedSurvives
  BY <1>1 DEF Init, ReadInv, ServedBlocksAreGenuine, ReportedSurvives
<1> QED  BY <1>2, <1>3, <1>4, <1>5 DEF StorageInv

(* Every step keeps the invariant. *)
LEMMA NextKeepsInv == StorageInv /\ [Next]_vars => StorageInv'
<1> SUFFICES ASSUME StorageInv, [Next]_vars PROVE StorageInv'
  OBVIOUS
<1>1. CASE Ends
  BY <1>1, EndsKeepInv
<1>2. CASE Complete /\ ~Exit
  BY <1>2, SeederKeepsInv
<1>3. CASE Create \/ SpawnScan \/ (\E i \in Piece : ScanPiece(i)) \/ ScanDone
  BY <1>3, CreateKeepsInv, ScanKeepsInv, ScanDoneKeepsInv
<1>4. CASE \E i \in Piece : Receive(i) \/ TakeResult(i)
  BY <1>4, ReceiveKeepsInv, TakeResultKeepsInv
<1>5. CASE WriteByte \/ PieceWritten \/ Serve \/ UNCHANGED vars
  BY <1>5, WriteByteKeepsInv, PieceWrittenKeepsInv, ServeKeepsInv, StutterKeepsInv
<1> QED  BY <1>1, <1>2, <1>3, <1>4, <1>5 DEF Next, MainLoop, Ends

(* The inductive invariant of storage, over any number of sessions. *)
LEMMA StorageInvariant == Spec => []StorageInv
BY InitEstablishesInv, NextKeepsInv, PTL DEF Spec

-----------------------------------------------------------------------------
(* Theorems *)

(* The state variables keep their types, for every torrent and every sequence of
   sessions; a running session's file has the torrent's length. *)
THEOREM StorageTypes == Spec => []TypeOK
<1>1. StorageInv => TypeOK
  BY DEF StorageInv
<1> QED  BY <1>1, StorageInvariant, PTL

(* A session offers exactly the pieces of the file that are right, but for the
   one being written (resume.go, and have.Set in download.go). *)
THEOREM HaveIsExact == Spec => []HaveMatchesFile
<1>1. StorageInv => HaveMatchesFile
  BY DEF StorageInv
<1> QED  BY <1>1, StorageInvariant, PTL

(* Whatever serveRequest sends is the torrent's data, also while the main loop
   writes the same file and after any crash. *)
THEOREM OnlyGenuineBlocksAreServed == Spec => []ServedBlocksAreGenuine
<1>1. StorageInv => ServedBlocksAreGenuine
  BY DEF StorageInv
<1> QED  BY <1>1, StorageInvariant, PTL

(* What the tracker was told we have survives every crash of the process and of
   the machine, and every later session offers it again. *)
THEOREM ReportedPiecesSurvive == Spec => []ReportedSurvives
<1>1. StorageInv => ReportedSurvives
  BY DEF StorageInv
<1> QED  BY <1>1, StorageInvariant, PTL

(* Every step of the file is a step of the abstract store of pieces, or changes
   nothing that it shows. *)
LEMMA StepRefinesStore ==
  ASSUME StorageInv, StorageInv', [Next]_vars
  PROVE  [Store!Next]_(Store!storeVars)
<1>0. have \in SUBSET Piece /\ have' \in SUBSET Piece
  BY DEF StorageInv, TypeOK
<1>1. CASE Complete
  <2>1. Up /\ Durable' = Durable \cup have
    BY <1>1, CompleteFlushes
  <2>2. (have' = have /\ Up') \/ (have' = {} /\ ~Up')
    BY <1>1 DEF Complete, Exit, Up
  <2>3. UNCHANGED <<Up, have>> \/ (Up' = FALSE /\ have' = {})
    <3>1. Up' \in BOOLEAN /\ Up \in BOOLEAN
      BY DEF Up
    <3>2. Up' = Up \/ Up' = FALSE
      BY <2>1, <3>1
    <3>3. Up' => Up' # FALSE
      BY <3>1
    <3> QED  BY <2>1, <2>2, <3>1, <3>2, <3>3
  <2>4. Store!Flush
    BY <2>1, <2>3 DEF Store!Flush
  <2> QED  BY <2>4 DEF Store!Next
<1>2. CASE Ends /\ ~Complete
  <2>1. Exit
    BY <1>2 DEF Ends, NothingToDo, DownloadFails, Shutdown, Kill, PowerLoss
  <2>2. Durable \subseteq Durable'
    BY <1>2, EndsKeepFile, DurableGrows
  <2>3. ~Up' /\ have' = {} /\ Durable' \in SUBSET Piece
    BY <2>1 DEF Exit, Up, Durable
  <2> QED  BY <2>2, <2>3 DEF Store!Next, Store!Crash
<1>3. CASE ScanDone
  <2>1. ~Up /\ Up' /\ have' = {i \in Piece : Genuine(file, i)} /\ Durable' = Durable
    BY <1>3, ScanDoneKeepsInv DEF ScanDone, Durable
  <2>2. Durable \subseteq have'
    BY <2>1, DurableIsInFile DEF StorageInv
  <2> QED  BY <1>0, <2>1, <2>2 DEF Store!Next, Store!Open
<1>4. CASE PieceWritten
  <2>1. /\ Up /\ Up' /\ writing \in Piece /\ have' = have \cup {writing}
        /\ Durable' = Durable
    BY <1>4, PieceWrittenKeepsInv DEF PieceWritten, Durable
  <2> QED  BY <2>1 DEF Store!Next, Store!Add
<1>5. CASE \/ Create \/ SpawnScan \/ (\E i \in Piece : ScanPiece(i))
           \/ (\E i \in Piece : Receive(i) \/ TakeResult(i))
           \/ WriteByte \/ Serve \/ UNCHANGED vars
  <2>1. have' = have /\ Durable' = Durable
    BY <1>5 DEF Create, SpawnScan, ScanPiece, Receive, TakeResult, WriteByte, Serve,
       ChangeChoke, AcceptRequest, RejectRequest, SendBlock,
       SendBlockFails, NextRequest, vars, sessionVars, Durable
  <2>2. Up' <=> Up
    BY <1>5 DEF Create, SpawnScan, ScanPiece, Receive, TakeResult, WriteByte, Serve,
       ChangeChoke, AcceptRequest, RejectRequest, SendBlock,
       SendBlockFails, NextRequest, vars, sessionVars, Up
  <2> QED  BY <2>1, <2>2 DEF Store!storeVars
<1> QED  BY <1>1, <1>2, <1>3, <1>4, <1>5 DEF Next, MainLoop, Ends

(* The file with its scan, its writes and its flushes implements the abstract
   store of pieces (PieceStore.tla): a session finds again whatever no crash can
   take away, and flushing makes all it has durable. *)
THEOREM StorageImplementsPieceStore == Spec => ImplementsPieceStore
<1>1. Init => Store!Init
  BY DEF Init, Store!Init, Up, Durable
<1>2. StorageInv /\ StorageInv' /\ [Next]_vars => [Store!Next]_(Store!storeVars)
  BY StepRefinesStore
<1> QED  BY <1>1, <1>2, StorageInvariant, PTL DEF Spec, ImplementsPieceStore, Store!Spec

(* What a step may never do: no write, shutdown, crash or loss of power takes away
   a piece that is safe on the disk, and no step of a session one that it offers
   (file.go, download.go: HaveBitfield is only added to, and what is written again
   over a piece is the piece). *)
THEOREM StoreOnlyGrows ==
  Spec => [][Durable \subseteq Durable' /\ (Up /\ Up' => have \subseteq have')]_vars
<1>1. [Store!Next]_(Store!storeVars) =>
        Durable \subseteq Durable' /\ (Up /\ Up' => have \subseteq have')
  BY DEF Store!Next, Store!Open, Store!Add, Store!Flush, Store!Crash, Store!storeVars
<1>2. StorageInv /\ StorageInv' /\ [Next]_vars =>
        [Durable \subseteq Durable' /\ (Up /\ Up' => have \subseteq have')]_vars
  BY <1>1, StepRefinesStore
<1> QED  BY <1>2, StorageInvariant, PTL DEF Spec

=============================================================================
