------------------------------ MODULE Storage ------------------------------
(***************************************************************************)
(* The output file (internal/storage: file.go, resume.go), byte by byte,   *)
(* with the parts of download.go that open, verify, write and flush it,    *)
(* the pieces the client says it has (HaveBitfield), and the peer that is  *)
(* served from it (serve.go).                                              *)
(*                                                                         *)
(* file is what the operating system shows of it, disk what has reached    *)
(* the disk.  A process that is killed leaves file as it is; when the      *)
(* machine stops, any of the bytes not yet flushed may be lost.  A session *)
(* may start from any file, and be followed by any number of others.       *)
(***************************************************************************)
EXTENDS Integers, FiniteSets

CONSTANTS
  Content,                 \* the bytes of the torrent, from offset 0
  TotalLength,             \* how many there are
  PieceLength,
  NumCPU,                  \* pieces verified at once
  MaxIncomingRequestSize,
  MaxDuplicates,           \* bound: results more than there are pieces
  MaxFileSize              \* bound: bytes of a file found on disk

(* A byte is 0, which is also what a hole of the file reads as, or 1. *)
Byte == {0, 1}

ASSUME ContentAssumption ==
  /\ TotalLength \in Nat \ {0} /\ PieceLength \in Nat \ {0}
  /\ Content \in [0 .. TotalLength - 1 -> Byte]
ASSUME LimitsAssumption ==
  /\ NumCPU \in Nat \ {0} /\ MaxIncomingRequestSize \in Nat
  /\ MaxDuplicates \in Nat /\ MaxFileSize \in Nat /\ TotalLength <= MaxFileSize

PieceCount == (TotalLength + PieceLength - 1) \div PieceLength
Piece      == 0 .. PieceCount - 1
NoPiece    == -1

(* What the torrent's hashes vouch for: the bytes of each piece. *)
PieceData(i) ==
  LET offset == {b \in DOMAIN Content : b \div PieceLength = i} IN
  [k \in 0 .. Cardinality(offset) - 1 |-> Content[i * PieceLength + k]]

Request ==
  [index : 0 .. PieceCount, begin : 0 .. PieceLength, length : 0 .. PieceLength + 1]

-----------------------------------------------------------------------------
(* geometry.go *)

Length(i) ==
  LET remainder == TotalLength % PieceLength IN
  IF i < PieceCount - 1 \/ remainder = 0 THEN PieceLength ELSE remainder

(* Range *)
Start(i) == i * PieceLength
End(i)   == Start(i) + Length(i)

-----------------------------------------------------------------------------
VARIABLES
  file,       \* the output file, as the system calls see it
  disk,       \* what of it is on the disk
  loop,       \* where Download is
  spawned,    \* VerifyExisting: goroutines started so far
  scanning,   \* the ones that are running
  verified,   \* the pieces they found
  have,       \* HaveBitfield
  completed,  \* results written or resumed
  pending,    \* verified pieces on their way to the main loop
  writing,    \* the piece WritePiece is writing
  written,    \* how many bytes of it are written
  amChoking,  \* conn.AmChoking of the peer being served
  upload,     \* what serveRequest is at with that peer
  reported    \* the pieces we had when the tracker was told "completed"

sessionVars == <<loop, spawned, scanning, verified, have, completed, pending,
                 writing, written, amChoking, upload>>
vars == <<file, disk, sessionVars, reported>>

Files == UNION {[0 .. n - 1 -> Byte] : n \in 0 .. MaxFileSize}

Idle   == [state |-> "idle"]
Closed == [state |-> "closed"]
Reading(r)     == [state |-> "reading", request |-> r]
Sent(r, block) == [state |-> "sent", request |-> r, block |-> block]

Up == loop \in {"select", "writing", "syncing"}

TypeOK ==
  /\ file \in Files /\ disk \in Files
  /\ loop \in {"down", "scanning", "select", "writing", "syncing"}
  /\ loop # "down" => DOMAIN file = DOMAIN Content
  /\ spawned \in 0 .. PieceCount
  /\ scanning \in SUBSET (0 .. spawned - 1) /\ verified \in SUBSET (0 .. spawned - 1)
  /\ have \in SUBSET Piece /\ pending \in SUBSET Piece
  /\ completed \in 0 .. PieceCount + MaxDuplicates
  /\ writing \in Piece \cup {NoPiece} /\ written \in 0 .. PieceLength
  /\ amChoking \in BOOLEAN
  /\ upload.state \in {"idle", "closed", "reading", "sent"}
  /\ upload.state \in {"reading", "sent"} => upload.request \in Request
  /\ reported \in SUBSET Piece

(* No session has run yet; whatever is found at the path is on the disk. *)
Init ==
  /\ disk \in Files /\ file = disk
  /\ loop = "down"
  /\ spawned = 0 /\ scanning = {} /\ verified = {}
  /\ have = {} /\ completed = 0 /\ pending = {}
  /\ writing = NoPiece /\ written = 0
  /\ amChoking = TRUE /\ upload = Idle
  /\ reported = {}

(* The process ends, and with it all that is in memory. *)
Exit ==
  /\ loop' = "down"
  /\ spawned' = 0 /\ scanning' = {} /\ verified' = {}
  /\ have' = {} /\ completed' = 0 /\ pending' = {}
  /\ writing' = NoPiece /\ written' = 0
  /\ amChoking' = TRUE /\ upload' = Idle

serveVars == <<amChoking, upload>>
scanVars  == <<spawned, scanning, verified>>
writeVars == <<writing, written>>

-----------------------------------------------------------------------------
(* Opening the file *)

ResizeErases(f, n) == [b \in 0 .. n - 1 |-> 0]   \* a bug: O_TRUNC
Resize(f, n) == [b \in 0 .. n - 1 |-> IF b \in DOMAIN f THEN f[b] ELSE 0]

(* Create, and the beginning of VerifyExisting: a file of the wrong size is not
   looked at.  (After Create there is none.) *)
Create ==
  /\ loop = "down"
  /\ loop' = "scanning"
  /\ file' = Resize(file, TotalLength)
  /\ spawned' = IF DOMAIN file' = DOMAIN Content THEN 0 ELSE PieceCount
  /\ UNCHANGED <<disk, scanning, verified, have, completed, pending, writeVars,
                 serveVars, reported>>

(* VerifyExisting: the loop blocks while NumCPU goroutines run. *)
SpawnScan ==
  /\ loop = "scanning"
  /\ spawned < PieceCount
  /\ Cardinality(scanning) < NumCPU
  /\ scanning' = scanning \cup {spawned}
  /\ spawned' = spawned + 1
  /\ UNCHANGED <<file, disk, loop, verified, have, completed, pending, writeVars,
                 serveVars, reported>>

(* ReadAt and piece.Verify: the hash matches exactly the torrent's bytes. *)
ReadPiece(i) == [k \in 0 .. Length(i) - 1 |-> file[Start(i) + k]]
ScanPiece(i) ==
  /\ i \in scanning
  /\ scanning' = scanning \ {i}
  /\ verified' = IF ReadPiece(i) = PieceData(i) THEN verified \cup {i} ELSE verified
  /\ UNCHANGED <<file, disk, loop, spawned, have, completed, pending, writeVars,
                 serveVars, reported>>

(* wg.Wait, and the marking of what was found.  Without -seed a session with
   nothing left to do returns. *)
ScanDone ==
  /\ loop = "scanning"
  /\ spawned = PieceCount /\ scanning = {}
  /\ loop' = "select"
  /\ have' = verified
  /\ completed' = Cardinality(verified)
  /\ UNCHANGED <<file, disk, scanVars, pending, writeVars, serveVars, reported>>

NothingToDo ==
  /\ loop = "scanning"
  /\ spawned = PieceCount /\ scanning = {}
  /\ verified = Piece
  /\ Exit
  /\ UNCHANGED <<file, disk, reported>>

-----------------------------------------------------------------------------
(* The main loop *)

(* A connection has downloaded and verified a piece, told its peer so with a
   have, and passed it on to the main loop. *)
Receive(i) ==
  /\ Up
  /\ i \notin pending
  /\ completed + Cardinality(pending) + Cardinality({writing} \ {NoPiece})
       < PieceCount + MaxDuplicates
  /\ pending' = pending \cup {i}
  /\ UNCHANGED <<file, disk, loop, scanVars, have, completed, writeVars, serveVars,
                 reported>>

TakeResultMutant(i) ==   \* a bug: have.Set comes before the write
  /\ loop = "select"
  /\ i \in pending
  /\ pending' = pending \ {i}
  /\ loop' = "writing"
  /\ writing' = i /\ written' = 0
  /\ have' = have \cup {i}
  /\ UNCHANGED <<file, disk, scanVars, completed, serveVars, reported>>
TakeResult(i) ==
  /\ loop = "select"
  /\ i \in pending
  /\ pending' = pending \ {i}
  /\ loop' = "writing"
  /\ writing' = i /\ written' = 0
  /\ UNCHANGED <<file, disk, scanVars, have, completed, serveVars, reported>>

(* WriteAt, a byte at a time: it is not atomic for whoever reads the file. *)
WriteByte ==
  /\ loop = "writing"
  /\ written < Length(writing)
  /\ file' = [file EXCEPT ![Start(writing) + written] = PieceData(writing)[written]]
  /\ written' = written + 1
  /\ UNCHANGED <<disk, loop, scanVars, have, completed, pending, writing, serveVars,
                 reported>>

(* A write or the final Sync fails: Download returns the error. *)
DownloadFails ==
  /\ loop \in {"writing", "syncing"}
  /\ Exit
  /\ UNCHANGED <<file, disk, reported>>

SetHaveMutant(i) == have   \* a bug: have.Set is forgotten
SetHave(i) == have \cup {i}
PieceWritten ==
  /\ loop = "writing"
  /\ written = Length(writing)
  /\ have' = SetHave(writing)
  /\ completed' = completed + 1
  /\ loop' = IF completed' = PieceCount THEN "syncing" ELSE "select"
  /\ writing' = NoPiece /\ written' = 0
  /\ UNCHANGED <<file, disk, scanVars, pending, serveVars, reported>>

(* Sync *)
FlushedMutant == disk   \* a bug: the file is not flushed
Flushed == file

(* Sync at completion, and the "completed" announce; then Download goes on as a
   seeder or returns. *)
Complete ==
  /\ loop = "syncing"
  /\ disk' = Flushed
  /\ reported' = reported \cup have
  /\ \/ /\ loop' = "select"
        /\ UNCHANGED <<scanVars, have, completed, pending, writeVars, serveVars>>
     \/ Exit
  /\ UNCHANGED file

(* Shutdown: the connections have ended, results not read yet are dropped, and
   the file is flushed, or not if that fails. *)
Shutdown ==
  /\ loop = "select"
  /\ upload.state # "reading"
  /\ disk' \in {Flushed, disk}
  /\ Exit
  /\ UNCHANGED <<file, reported>>

-----------------------------------------------------------------------------
(* serveRequest, called by the goroutine of a connection *)

ChangeChoke ==
  /\ Up
  /\ upload = Idle
  /\ amChoking' = ~amChoking
  /\ UNCHANGED <<file, disk, loop, scanVars, have, completed, pending, writeVars,
                 upload, reported>>

(* A request that meets a choke or a piece we lack is ignored. *)
WillingMutant(i) == ~amChoking   \* a bug: the client serves what it lacks
Willing(i) == ~amChoking /\ i \in have

(* ParseRequestPayload with the piece's real length, the size cap, ReadBlock *)
Fits(r) ==
  /\ r.begin < Length(r.index)
  /\ r.begin + r.length <= Length(r.index)
  /\ r.length <= MaxIncomingRequestSize

AcceptRequest(r) ==
  /\ Up
  /\ upload = Idle
  /\ r.index \in Piece
  /\ Willing(r.index)
  /\ Fits(r)
  /\ upload' = Reading(r)
  /\ UNCHANGED <<file, disk, loop, scanVars, have, completed, pending, writeVars,
                 amChoking, reported>>

(* An index that is no piece's is an error even from a choked peer. *)
RejectRequest(r) ==
  /\ Up
  /\ upload = Idle
  /\ r.index \in Piece => Willing(r.index) /\ ~Fits(r)
  /\ upload' = Closed
  /\ UNCHANGED <<file, disk, loop, scanVars, have, completed, pending, writeVars,
                 amChoking, reported>>

(* ReadBlock and SendPiece *)
ReadBlock(r) == [k \in 0 .. r.length - 1 |-> file[Start(r.index) + r.begin + k]]
SendBlock ==
  /\ upload.state = "reading"
  /\ upload' = Sent(upload.request, ReadBlock(upload.request))
  /\ UNCHANGED <<file, disk, loop, scanVars, have, completed, pending, writeVars,
                 amChoking, reported>>

(* The read or the send fails, which closes the connection. *)
SendBlockFails ==
  /\ upload.state = "reading"
  /\ upload' = Closed
  /\ UNCHANGED <<file, disk, loop, scanVars, have, completed, pending, writeVars,
                 amChoking, reported>>

(* The connection's loop goes on, or a new connection, choked, takes its place. *)
NextRequest ==
  /\ upload.state \in {"sent", "closed"}
  /\ upload' = Idle
  /\ amChoking' = IF upload = Closed THEN TRUE ELSE amChoking
  /\ UNCHANGED <<file, disk, loop, scanVars, have, completed, pending, writeVars,
                 reported>>

Serve ==
  \/ ChangeChoke
  \/ \E r \in Request : AcceptRequest(r) \/ RejectRequest(r)
  \/ SendBlock \/ SendBlockFails \/ NextRequest

-----------------------------------------------------------------------------
(* The surroundings *)

Kill ==
  /\ loop # "down"
  /\ Exit
  /\ UNCHANGED <<file, disk, reported>>

(* The machine stops.  Of what was not flushed any byte, and a change of size,
   may have reached the disk or not. *)
PowerLoss ==
  /\ \E lucky \in SUBSET DOMAIN file, size \in {DOMAIN disk, DOMAIN file} :
       disk' = [b \in size |-> IF b \in lucky THEN file[b]
                               ELSE IF b \in DOMAIN disk THEN disk[b] ELSE 0]
  /\ file' = disk'
  /\ Exit
  /\ UNCHANGED reported

MainLoop ==
  \/ \E i \in Piece : TakeResult(i)
  \/ WriteByte \/ PieceWritten \/ Complete \/ DownloadFails

Next ==
  \/ Create \/ SpawnScan \/ (\E i \in Piece : ScanPiece(i)) \/ ScanDone \/ NothingToDo
  \/ \E i \in Piece : Receive(i)
  \/ MainLoop \/ Shutdown
  \/ Serve
  \/ Kill \/ PowerLoss

Spec == Init /\ [][Next]_vars

(* The main loop runs, and a ready result is not passed over for ever. *)
FairSpec == Spec /\ WF_vars(MainLoop)

-----------------------------------------------------------------------------
(* Properties *)

Genuine(f, i) ==
  \A k \in DOMAIN PieceData(i) :
    /\ i * PieceLength + k \in DOMAIN f
    /\ f[i * PieceLength + k] = PieceData(i)[k]
Durable == {i \in Piece : Genuine(disk, i)}

(* "There's nothing that can drift out of sync with the data on disk"
   (resume.go): the pieces a session offers are exactly the pieces of the file
   that are right, but for the one being written, whatever file the session
   started from and however earlier sessions ended. *)
HaveMatchesFile ==
  Up => /\ \A i \in have : Genuine(file, i)
        /\ \A i \in Piece \ {writing} : Genuine(file, i) => i \in have

(* Whatever is served is the torrent's data, also while the main loop writes and
   after any crash (serve.go). *)
ServedBlocksAreGenuine ==
  upload.state = "sent" =>
    LET r == upload.request IN
    \A k \in 0 .. r.length - 1 : upload.block[k] = PieceData(r.index)[r.begin + k]

(* What the tracker was told we have as a seeder outlives every later crash, and
   every later session finds it (download.go: Sync comes before the "completed"
   announce). *)
ReportedSurvives ==
  /\ reported \subseteq Durable
  /\ Up => reported \subseteq have

(* The file is the abstract store of pieces: a session finds again whatever no
   crash could take away, and flushing makes all it has durable ("a crash
   before this only costs a re-download of unflushed pieces", file.go). *)
Store == INSTANCE PieceStore WITH up <- Up, durable <- Durable
ImplementsPieceStore == Store!Spec

(* A piece announced with a have before it is on disk (worker.go: SendHave comes
   before PieceDownloaded) is there in the end, unless the session ends. *)
HaveIsHonoured == \A i \in Piece : i \in pending ~> i \in have \/ ~Up
=============================================================================
