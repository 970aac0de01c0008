# p2pget: verification project

TLA+ models of p2pget, a BitTorrent client in Go (`cmd/`, `internal/`): the download coordinator, the goroutine of every
peer connection, the block pipeline of one piece, the main loop with its announces and its shutdown, the output file
across crashes, the listener, the rates, and the codecs of the torrent file and of the wire. TLC checks them on small
instances; TLAPS proves the safety properties for all instances, those of the torrent file's decoder apart.

## The system

| Part | Source | State it keeps | Operations |
|---|---|---|---|
| Coordinator | `internal/download/coordinator.go`, `selection.go`, `endgame.go`, `availability.go`, `choke.go` | state of every piece, rarity counts, assignees with their times, registered peers, choke records, optimistic slot, endgame flag | one handler per event, `tick`, `recalcChoke`, `rotateOptimistic`; all in one goroutine |
| Connections | `worker.go` | piece in flight, choke state on the wire, bitfield of the peer | read commands and messages, report events, download, leave |
| Block download | `piece.go`, `peer/payload.go`, `piece/geometry.go` | requested and received blocks, outstanding, remaining, buffer | fill the pipeline, receive block, choke, unchoke, cancel, verify |
| Main loop | `download.go`, `cmd/p2pget/main.go` | have bitfield, completed count, connected addresses, announce times, grace period | resume, write results, complete, announce, shut down |
| Storage, resume, serving | `storage/`, `serve.go` | the output file | create, verify on start, write pieces, read blocks, flush |
| Listener | `peer/listen.go` | slots taken, per address and in total, handlers | admit, handshake, release, stop |
| Tracker | `tracker/` | none | try the trackers in order |
| Rates, progress | `rates.go`, `progress.go` | sample windows, counters | add, prune, report, remove |
| Codecs | `bencode/`, `metainfo/`, `peer/message.go`, `handshake.go`, `bitfield.go`, `send.go` | position in the stream | parse, format |

Connections send events to the coordinator over one unbuffered channel and block until each is received. The
coordinator answers over a channel of capacity one per connection and never blocks on it: a command that does not fit
is not sent. Finished pieces go to the main loop over a bounded channel on which the coordinator does block; the main
loop writes them to the file that connections read from when they serve. One context, cancelled by the main loop, stops
everything. One piece of state is shared against the design: the bitfield slice of a `BitfieldReceived` event stays the
connection's own.

What is hard in it, and so what the properties are about: events of several connections interleave with the
coordinator's timers; commands are lost at a full channel; an assignment times out while the peer still works on it; two
connections share an address; a choke crosses requests and answers on the wire; a write or a read ends in the middle of a
message; the process or the machine stops between any two bytes written; trackers come and go; the coordinator blocks on
a buffer that its reader has stopped reading. `hazards` in `PROJECT.json` lists them line by line.

## Modules

* **Coordinator** specifies the coordinator alone, the way `coordinator_test.go` drives it: any event in any order,
  commands out. It is the abstract specification the composed modules implement. An action is one trip around the select of
  `Run`. Only the two peer-by-peer loops of `tick` (`EndgameVisit`, `OfferVisit`) and the blocking send of a result
  (`DeliverResult`, `DropResult`) are steps of their own, since connections drain their channels meanwhile; `phase` is
  the program counter. `assignments[i][a][g]` counts the entries of age `g` that piece `i` has for peer `a`: the code's
  list is ordered by age and only ever searched for the first match. The entry of an address that is not registered is
  blank, which is how the lookups that find nothing are modelled. Times become ages, up to the age at which
  `freeStaleAssignments` acts. Transfer rates become an arbitrary ranking in `RecalcChoke`.
* **Swarm** adds the connection goroutines. What leads to an event and its handling are one step, because the sender is
  blocked; where the goroutine changed something before sending, or has another event to send, `next` holds the event it
  is blocked on. The remote peer may send anything at any time, a download may end in any way, and a connection may die
  between any two steps; a choke command that cannot be sent takes the connection down (`SendFails`).
* **BlockDownload** opens the step "a download ends" of Swarm: `downloadBlocks` against a peer with FIFO wires. Bytes
  are kept (block size 2), since the short last block is about lengths. `faulty`, chosen in the initial state, says
  whether this peer may also send anything it likes and the timer may expire.
* **Download** composes Swarm with the main goroutine: results are taken and the context is cancelled only where its
  code does so.
* **Listener** models the accept loop, its limits and the handlers. The socket is closed by the cancelled context or, when
  `Download` returns early, by its deferred `Close` before that.
* **Storage** is the output file byte by byte, over any number of sessions. `file` is what system calls see, `disk` what
  has been flushed; `Kill` keeps the first, `PowerLoss` mixes the two in any way. A session creates the file, verifies it
  with `NumCPU` goroutines, writes results a byte at a time, flushes, and serves one peer meanwhile. A hash is the bytes
  it is of. Which verified pieces arrive is left open (`Receive`).
* **PieceStore** is what the rest of the client relies on: a set of pieces of which those that are durable are found
  again by every later session, and which a flush makes durable. `Storage` implements it with `durable` mapped to the
  pieces whose bytes on disk are right (`ImplementsPieceStore`).
* **Announce** models the announces of the main loop, `AnnounceAll`, and the workers as far as slots and the WaitGroup
  are concerned. Time is counted in ticks of the progress ticker. An announce and the case of the select it runs in are one
  step: the main loop does nothing else meanwhile, and a worker that ends during it makes room for a later address of the
  same answer. The end of the grace period (`GracePeriodEnds`: `cancel`) and the select's case for the cancelled context
  (`ContextDone`) are two steps, with ticks, results and failing writes possible in between. `waited` records that
  `wg.Wait` returned.
* **Rates** models `RateTracker` (each method under its mutex is one step) and the lock-free peak of active peers, step
  by step, with the connections that feed them and the coordinator that registers addresses and removes entries. Tracker
  and coordinator know addresses only, and two connections may share one. `log` is the reference: all that a connection
  recorded since it joined. `mixed` records which addresses have been shared since the last connection there left and its
  `PeerLeft` removed the entry.
* **Bencode** and **Metainfo** are the decoder, the encoder and `Parse` as operators on byte sequences, with the code's
  errors in the code's order. Keys of the format are one letter long. Bencode's operators are recursive, so these two
  modules are for TLC alone. The arithmetic of `validate` and `LastPieceLength` is in **Lengths**, which can be proved
  about: the machine's largest integer is `MaxInt`, and `Wrap` is what int64 addition does beyond it.
* **Wire** is one direction of a connection in bytes: handshake, bitfield and messages are serialized, cut short by a
  deadline anywhere, and read again by `ReadHandshake` and `ReadMessage`, which is this client too. `haveBits` is the
  sender's `HaveBitfield`, `bitfield` the reader's `conn.PeerBitfield`. The sizes of bytes and words are constants;
  `SizesAssumption` says that a byte holds every message id and a word every piece index and message length, as 8 bits
  and 4 bytes do.
* **Codecs** reads a torrent file first and opens the connection only when `Parse` accepted a torrent of that many
  pieces.
* `MC*` modules give the constants of the runs; `*_proofs` modules hold the theorems. An operator whose name ends in
  `Mutant` (and `DropResultEarly`, `ResizeErases`) is a plausible bug, used to make sure that a property can fail.

## Runs

Bounds are constants in the `.cfg` files. Passing runs are exhaustive. `board` and `rates` check safety only and use
symmetry: permuting peers together with their connections (in `rates`, the connections of the one address) changes
nothing, since no formula orders them.

| Run | Instance | Checks |
|---|---|---|
| `board` | 2 interested peers, 2 pieces, haves, timeout 1, endgame at 1, 1 unchoke slot | `SwarmTypeOK`; `BusyPeerIsListed`, `InFlightIffAssigned`, `OneAssigneeBeforeEndgame`: the three records of who downloads what agree; `ChokeBeliefMatchesWire`, `OptimisticHolderIsInterested` |
| `parked` | 2 peers, 1 piece, endgame threshold 0, fair | `BusyPeerIsFreed`, `IdlePeerIsOffered` |
| `replaced` | 2 connections on one address, seed or leech, cancel, fair | `AvailabilityIsExact` when peers use bitfields only, `CancellationStopsEverything` |
| `blocks` | 2 pieces of 3 blocks, backlog 2, a choke; honest peer: 2 downloads, fair; faulty peer: 1 download, seven kinds of bad blocks | `RemainingIsExact`, `OutstandingIsBacked`, `NoSilentStall` for both; `NothingIsForgotten`, `HonestPeerIsKept`, `PieceCompletes` for the honest one |
| `deliver` | 2 pieces, results buffer 1, haves, fair | `NoVerifiedPieceIsLost`, `ShutdownTerminates` |
| `slots` | 4 connections, 3 addresses, limits 2 and 1, fair | `SlotsMatchConnections`, `WaitMissesNobody`, `ListenerStops` |
| `storage` | 3 bytes in pieces of 2, any file of up to 4 bytes, one duplicate result, any number of sessions and crashes | `HaveMatchesFile`, `ServedBlocksAreGenuine`, `ReportedSurvives`, `ImplementsPieceStore`, `HaveIsHonoured` |
| `announce` | 3 trackers, one not supported, 2 peers, 1 slot, intervals 1 to 3 | `SlotsMatchWorkers`, `WaitMissesNoWorker`, `EventsInOrder`, `KeepsAnnouncing`, `SkippedPeerIsRetried`, `DownloadReturns` |
| `rates` | 2 connections on one address, window 2, 3 records each, 5 clock steps | `PeakIsHighest`, `RateIsExact` |
| `codecs` | files built from tokens up to 8 bytes, pairs of keys, torrents of every length and variants of a good one; bytes of 4 bits, 5 pieces, 3 messages | `DecoderIsLossless`, `SpansHoldTheValues`, `PiecesCoverTheFile`, `InfoHashNamesTheFile`, `ReceivedAsSent`, `BitfieldIsWhatWasTold` |

Why these bounds: two peers are enough for a duplicate, a loser and a stale report; two pieces let one be in the endgame
while the other is done; a timeout of one clock step already separates fresh entries from stale ones; a results buffer of
one is filled by the second piece; with an endgame threshold of 0 what `parked` sees handed out comes from the ordinary
offers of `tick` and of events (`board` and `deliver` have the endgame); three blocks with a backlog of two make the pipeline fill, drain and refill. Three bytes
make a full piece and a short one, with a byte that a hole of the file also reads as; a file of four bytes has to be cut.
One slot and two peers make an announce skip a peer; a window of two with five clock steps lets samples leave it and a
peer fall silent. Five pieces in bytes of four bits leave a last byte with spare bits. `BlockDownload` is also bounded by
`MaxDownloads`, `MaxChokes` and `WireLimit`, `Storage` and `Announce` by `MaxDuplicates` (results that arrive twice,
which the code allows), `Metainfo` by `MaxBytes`, `Wire` by `MaxMessages` and one cut have. The proofs remove the bounds
for the invariants they cover.

The type invariants of `BlockDownload`, `Download`, `Listener`, `Storage`, `Announce`, `Rates` and `Wire` document the
state and are there for proofs; no run spends time on them.

### Where the code and its comments disagree

Two runs end with a counterexample; the findings in `PROJECT.json` quote the comment.

| Run | What happens |
|---|---|
| `v_success` | a late `PieceFailed` turns a completed piece back to missing; it is delivered twice, `completed` reaches the piece count, and `Download` returns success with a piece missing. The run uses two connections on one address, which is short; two peers with their own addresses reach it too |
| `v_undercount` | a have after the bitfield is not counted, because the slice is shared |

The models do more that the code does and its comments or docs do not say. None of these has a run of its own; where a
property would fail because of one, the property says so and is stated without it.

* `PeerLeft` of a replaced connection removes its replacement, which stays connected and is never offered work again:
  `handlePeerLeft` looks the peer up by address (`coordinator.go:268`).
* Two connections on one address record into one entry of `RateTracker`, and the `PeerLeft` of either, as well as a
  `PeerJoined` at that address, removes it (`coordinator.go:149`, `280`). The rate behind the choking decision is then
  neither connection's own. And once the first `PeerLeft` has unregistered the address, what the other connection records
  afterwards stays: its own `PeerLeft` returns at `coordinator.go:269`, although the entry is removed "so a long-gone peer
  doesn't linger" (`rates.go:127`). `RateIsExact` is stated for addresses that are not `mixed` this way.
* During a shorter last piece a stale block of a longer one is past the end, and closes the connection instead of being
  skipped: the length is checked before the index (`piece.go:100`). `HonestPeerIsKept` holds for pieces of equal length.
* Entering the endgame assigns work to peers that choke us; an assignment made after a timeout or a dropped cancel reaches
  a connection that still downloads, which ignores it. Both cost time and not work: `BusyPeerIsFreed` and
  `IdlePeerIsOffered` hold with them.
* A have before the bitfield is counted twice; `AvailabilityIsExact` is checked without haves.
* The write error of `SendHave` is dropped as "best-effort courtesy" (`worker.go:211`), but a have that was cut short
  leaves half a frame on the wire, and what follows is misread. `ReceivedAsSent` and `BitfieldIsWhatWasTold` hold without.
* A failed re-announce is not tried "at the next tick" (`download.go:343`, `356`): `lastAnnounce` is set all the same.
* A failed write or flush makes `Download` return without the wait for its workers, also when the context is already
  cancelled (`download.go:361`, `375`), so the file is closed with workers running; `WaitMissesNoWorker` is about the
  sessions that wait.
* The announce of `stopped` may start workers after the wait for them is over (`download.go:246`).
* A peer whose connection died stays in `connected` and is never dialed again.
* A piece downloaded from one peer is announced to that peer only.
* `Create` resizes the file before `VerifyExisting` looks at its size, so a file of the wrong size is verified and
  kept as far as it is right (`storage/resume.go:33` never applies). `HaveMatchesFile` holds because of the hashes.
* A resumed download that is complete announces `started` with nothing left, and without `-seed` returns, before
  anything is flushed. `ReportedSurvives` is about the `completed` event.
* String lengths with leading zeros decode, so the check of the two info hashes can fail, although `architecture.md`
  says that it "can only ever pass"; `InfoHashNamesTheFile` says that it fails for just these files.
* `totalLength + pieceLength - 1` may overflow in `validate`, and then a torrent without pieces is accepted;
  `PiecesCoverTheFile` leaves these lengths out.
* Upload samples of `Progress` may be recorded out of order (`progress.go:73`), and the ETA ignores resumed bytes. Both
  are only displayed.

## Fairness

Assumed of the program: goroutines are scheduled, timers fire, and Go's select chooses at random among ready cases, so
a case that is ready again and again is taken (strong fairness for ticks, the coordinator's exit and connections waiting
to report, whatever the event; weak fairness elsewhere). Assumed of the main loop: it takes results until the context is cancelled. Nothing is
assumed of remote peers in `Swarm` and `Download`: a download may never end. `PieceCompletes` alone assumes a
peer that answers and, having choked us, relents; it assumes nothing of the timer, so it shows that the timer is not needed.
In `Listener` a handshake ends (it has a deadline), and the socket is closed and a served connection ends once the context
is cancelled.

`Storage` assumes only that the main loop runs. `Announce` assumes that the ticker ticks, that the select gets round to a
cancelled context, that a dial ends (it has a
timeout), that a connection ends once the context is cancelled and that a worker that ended says so; that a tracker
answers, that results arrive and that peers go away is not assumed. `KeepsAnnouncing` and `SkippedPeerIsRetried` state as
premises what they need of trackers and peers: one that stays up, and slots that keep opening.

## Proofs

Every safety property of the passing runs is also a theorem, except the four of `Metainfo`. The proofs are for arbitrary
constants, bounds included, under the named assumptions of the modules (positive piece count, timeout, buffer, block
size, backlog and window; every connection has an address; peers, clients and suggested intervals are finite sets; junk
messages are well-formed records; a torrent with at least one byte; bytes and words that are large enough). Some theorems
have a hypothesis of their own. `AvailabilityCountsHolders` and `DownloadCountsHolders` are about peers that announce by
bitfield alone (`Haves = {}`), `HonestPeerStays` about pieces of equal length; the runs of these properties share the
hypothesis, and without it the properties are false (see above). `DownloadImplementsSwarm` alone assumes
`Interruptible = TRUE`.

* `Coordinator_proofs`: `AssignmentInv` is inductive. `BusyPeerIsListed` alone is not: freeing a stale entry needs to know
  that only one entry exists before the endgame, handing out work needs `InFlightIffAssigned`, and the visiting loops need that
  they visit registered peers with a channel of their own (`RegisteredPeerIsReachable`, `LoopStateIsConsistent`). Every
  way of handing out work is first reduced to one `BoardStep`, so that each handler is proved against that one formula.
  `OptimisticHolders` is a second invariant on top.
* `Download_proofs` is about `Swarm` and `Download`. Each step of `Swarm` is a step of `Coordinator` or leaves its state
  alone, so `Spec => CoordSpec` and the invariants carry over. `BeliefMatchesWire` needs besides that a connection not
  yet running is choking and that no two registered peers share a channel, and it is about connections that are not being
  torn down (`InUse`), since a command that could not be sent is gone from the channel and never reached the wire; each coordinator step either leaves choke
  records and channels alone or is one `ChokeStep`. `AvailabilityCountsHolders` needs that a peer whose bitfield was not
  counted has none (`BlankUntilCounted`), since `handlePeerLeft` subtracts whatever it finds. All this is proved of
  `SwarmStep`, a step of the coordinator or of a connection with the surroundings left open. A step of `Download` is a
  `SwarmStep` or leaves the swarm alone, whoever may cancel the context; so the whole client implements the coordinator
  (`DownloadImplementsCoordinator`) and has the invariants of both (`DownloadBoardIsConsistent`,
  `DownloadChokesAsRecorded`, `DownloadCountsHolders`). It implements `Swarm` itself where the client may be interrupted
  (`DownloadImplementsSwarm`). `NoPieceIsLost` adds what the coordinator holds in its hands: `sending` names a piece
  only in the phase of the blocked send, and a piece becomes complete only in the step that enters it.
* `BlockDownload_proofs`: `AccountingInv` (types, `RemainingIsExact`, `OutstandingIsBacked`) is inductive for any
  sequence of messages, and implies `NoSilentStall`: either the backlog is full, and then a counted request is backed by a
  missing block, or every block is requested and one is missing. For an honest peer `HonestInvariant` adds what is on
  the wires: answers are genuine blocks, a peer that chokes has its choke on the way to us or read, and every block asked
  for and missing is under way. `HonestPeerStays` adds that what has arrived is right (`ArrivedIsGood`), so that a piece
  with every block in it passes its hash; that rests on the blocks covering every byte once (`BlockGeometry`).
* `Listener_proofs`, `Announce_proofs`: the counters are the cardinalities of sets that each step changes by one element
  (or, for an announce, by the set of peers it connects to). `WaitMissesNobody` needs that only the accept loop has a
  connection between `Accept` and `admit` (`LoopInv`); `WaitMissesNoWorker` needs that the
  counter is zero from the return of the wait until the last announce, since nothing starts a worker in between
  (`WaitInv`); `EventsInOrder` needs to know what was announced at each place of `Download` (`EventsInv`).
* `Storage_proofs`: `StorageInv` follows the bytes: whatever is right on the disk is right in the file (`DiskInFile`),
  which makes a power loss harmless to what was flushed; the scan has found just the genuine pieces among those it looked
  at; what `WritePiece` has written so far is right; a block is read only of a piece we have. From it the three
  invariants and, step by step, the refinement of `PieceStore`: a write, a scan and a read are stutters, and a session
  that comes up, a piece that lands, a flush and a crash are the steps of the abstract store. Underneath is the geometry
  of pieces: each byte is in one piece, and the short last one ends with the file. A consequence of the refinement is an
  action property, `StoreOnlyGrows`: no step, a crash included, takes a piece from the disk, and no session forgets one.
* `Rates_proofs`: as long as the peak is not the highest count, the connection that made that count is still in its loop
  (`PeakInv`); and at an address that is not `mixed` the tracker's entry is a function of the log of the one connection
  there (`RateInv`, `Kept`): the total, and the running totals from the oldest record of the last window on. Such an
  address is registered, with that one connection, or its events are being handled, or it is vacant and has no entry
  (`Clean`); that an earlier connection's entry is gone when the next one joins rests on nobody joining while `PeerLeft`
  is handled.
* `Codecs_proofs`: `ReceivedAsSent` says nothing of the bytes under way, so it is not inductive. `WireInv` does: as long as
  no have was cut off, the stream is the frames of the messages sent and not yet read, one after the other, behind the
  handshake if that is unread, and part of a frame comes only at the end, behind a sender that closed (`InStep`). A
  reader that finds a length and that many bytes has then found the first of these frames (`StreamRead`), because a word
  read back is the number written (`WordRoundTrip`). For `BitfieldIsWhatWasTold` the invariant adds that the sender's
  bitfield and the reader's each represent a set of pieces (`Represents`): bit by bit that set and no spare bit, which
  rests on adding a power of two to a byte without that bit changing that bit only (`AddBit`). The theorems are about `WireSpec`.
  `Codecs` starts these steps after `Parse`; that its behaviours are those of `Wire` is plain from its definition, but it
  cannot be stated as a theorem, since `Codecs` reaches recursive operators. `ValidPiecesCoverTheFile` is the
  arithmetic behind `PiecesCoverTheFile`, for every `MaxInt`: the pieces cover the file unless the sum in
  `validate` overflows, and then only a torrent without pieces passes.

Two things about the method. A minimal counterexample replaces induction over numbers and finite sets: the set of
counterexamples is well-founded, so it has a least element, which the step refutes (`TotalsExist`,
`MaxOfFinite`); `Induction` in `Codecs_proofs` states this once, for a set of numbers in place of a predicate. And
every composed proof first sorts the steps of a component by what they do to the state in question, so that the
invariant is proved against a few formulas and not against every action.

Only model-checked: all liveness properties (`BusyPeerIsFreed`, `IdlePeerIsOffered`, `CancellationStopsEverything`,
`PieceCompletes`, `ShutdownTerminates`, `ListenerStops`, `HaveIsHonoured`, `KeepsAnnouncing`, `SkippedPeerIsRetried`,
`DownloadReturns`), since the prover does neither fairness nor ENABLED; and the four properties of `Metainfo`, whose decoder
and encoder are recursive operators, which a module with theorems may not reach (of `PiecesCoverTheFile` the arithmetic is
proved, as said).

## Plan

What is left: more action properties of the coordinator, such as what a step may never do to a complete piece (a late
`PieceFailed` does make one missing again, see `v_success`, so this needs a premise); and the decoder written
with recursive functions, so that its round trip could at least be stated next to a theorem.

## Not modelled

Building announce URLs, HTTP, the fields and peer formats of an answer, and the random peer id: `Announce` takes an
answer as a set of peers and two intervals. Of `Progress`, the samples behind the displayed rates (the same code as in
`Rates` with another window), percentages, ETA and rendering. The reserved bits and the port message, which the client
does not use. That the deferred `PeerLeft` may be given up once the context is cancelled, in `Rates` (`Swarm` has it as
`Abandon`). Errors of single reads in `VerifyExisting`, which leave a piece to be downloaded again. Logging and flags.
