------------------------------ MODULE Announce ------------------------------
(***************************************************************************)
(* How the client finds its peers (internal/download/download.go: announce *)
(* and the ticker of the main loop; internal/tracker/tiers.go and          *)
(* client.go; the worker goroutines of internal/download/worker.go).       *)
(*                                                                         *)
(* An announce tries the trackers in order and starts one worker for every *)
(* new address of the first answer, as far as the semaphore has room.  It  *)
(* runs inside the main loop, so an announce and the handler it belongs to *)
(* are one step.  Time is counted in ticks of the progress ticker, as the  *)
(* ages of lastProgress and lastAnnounce.                                  *)
(***************************************************************************)
EXTENDS Integers, Sequences, FiniteSets, FiniteSetsExt

CONSTANTS
  Peer,                     \* addresses trackers know
  Trackers,                 \* the flattened tiers: the scheme of each URL
  Known,                    \* the peers each tracker knows
  MaxPeers,                 \* opts.MaxPeers
  PieceCount,
  StallTimeout,
  DefaultAnnounceInterval,
  Suggested,                \* intervals an answer may suggest; 0: it does not
  MaxDuplicates             \* bound: results more than there are pieces

ASSUME PeerAssumption == IsFiniteSet(Peer)
ASSUME TrackersAssumption ==
  /\ Trackers \in Seq(STRING)
  /\ Known \in [DOMAIN Trackers -> SUBSET Peer]
ASSUME NumbersAssumption ==
  /\ MaxPeers \in Nat \ {0} /\ PieceCount \in Nat \ {0}
  /\ StallTimeout \in Nat \ {0} /\ DefaultAnnounceInterval \in Nat \ {0}
  /\ Suggested \subseteq Nat /\ IsFiniteSet(Suggested) /\ MaxDuplicates \in Nat

Http == {k \in DOMAIN Trackers : Trackers[k] = "http"}

(* Ages are not told apart beyond the longest interval. *)
MaxAge == Max(Suggested \cup {StallTimeout, DefaultAnnounceInterval})
Older(age) == Min({age + 1, MaxAge})

NoReply == [answered |-> FALSE]
Reply(peers) == [answered |-> TRUE, peers |-> peers]

VARIABLES
  loop,              \* where Download is
  started,           \* whether a tracker answered the first announce
  ctxDone,
  waited,            \* history: whether wg.Wait has returned
  completed,         \* pieces resumed or written
  sinceProgress,     \* the age of lastProgress
  sinceAnnounce,     \* the age of lastAnnounce
  minReannounceInterval,
  announceInterval,
  connected,         \* addresses a worker was started for
  worker,            \* what the worker of each address does
  sem,               \* slots taken
  wg,                \* the WaitGroup's counter
  reply,             \* the answer to the announce of the last tick, if any
  events,            \* the events announced, whether or not they were heard
  up                 \* the trackers that answer at the moment

timeVars   == <<sinceProgress, sinceAnnounce>>
answerVars == <<minReannounceInterval, announceInterval, connected, worker, sem, wg,
                reply>>
vars == <<loop, started, ctxDone, waited, completed, timeVars, answerVars, events, up>>

Events == {"started", "completed", "stopped"}
Active(p) == worker[p] \in {"dialing", "running"}

TypeOK ==
  /\ loop \in {"begin", "select", "wait", "stop", "returned"}
  /\ started \in BOOLEAN /\ ctxDone \in BOOLEAN /\ waited \in BOOLEAN
  /\ completed \in 0 .. PieceCount + MaxDuplicates
  /\ sinceProgress \in 0 .. MaxAge /\ sinceAnnounce \in 0 .. MaxAge
  /\ minReannounceInterval \in 1 .. MaxAge /\ announceInterval \in 1 .. MaxAge
  /\ connected \in SUBSET Peer
  /\ worker \in [Peer -> {"none", "dialing", "running", "released", "ended"}]
  /\ sem \in 0 .. MaxPeers
  /\ wg \in Nat
  /\ reply \in {NoReply} \cup {Reply(peers) : peers \in SUBSET Peer}
  /\ events \in Seq(Events)
  /\ up \in SUBSET Http

Init ==
  /\ loop = "begin"
  /\ started = FALSE /\ ctxDone = FALSE /\ waited = FALSE
  /\ completed \in 0 .. PieceCount
  /\ sinceProgress = 0 /\ sinceAnnounce = 0
  /\ minReannounceInterval = StallTimeout
  /\ announceInterval = DefaultAnnounceInterval
  /\ connected = {}
  /\ worker = [p \in Peer |-> "none"]
  /\ sem = 0 /\ wg = 0
  /\ reply = NoReply
  /\ events = <<>>
  /\ up \in SUBSET Http

-----------------------------------------------------------------------------
(* announce *)

(* AnnounceAll: the trackers that are asked until one answers are those that
   speak HTTP, in order; each of the others is skipped. *)
AskedMutant == {k \in Http : \A j \in Http : k <= j}   \* a bug: one failure is final
Asked == Http
First(answering) == CHOOSE k \in answering : \A j \in answering : k <= j

(* An address is marked only together with the slot it takes. *)
MarkedMutant(addrs, taken) == connected \cup addrs   \* a bug: marked, then skipped
Marked(addrs, taken) == connected \cup taken
RegisteredMutant(n) == wg   \* a bug: wg.Add inside the goroutine
Registered(n) == wg + n

(* The loop over the addresses of an answer, in any order: each new one takes a
   slot, or is skipped when there is none.  A worker of this very answer may be
   gone again before the loop ends, which makes room for a later address. *)
StartWorkers(addrs) ==
  LET new == addrs \ connected IN
  \E taken \in SUBSET new : \E gone \in SUBSET taken :
    /\ taken # {} => sem < MaxPeers
    /\ taken # new => sem + Cardinality(taken) >= MaxPeers
    /\ sem + Cardinality(taken \ gone) <= MaxPeers
    /\ connected' = Marked(addrs, taken)
    /\ worker' = [p \in Peer |-> IF p \in gone THEN "released"
                                 ELSE IF p \in taken THEN "dialing"
                                 ELSE worker[p]]
    /\ sem' = sem + Cardinality(taken \ gone)
    /\ wg' = Registered(Cardinality(taken))

Suggestion(suggested, current) == IF suggested > 0 THEN suggested ELSE current

Answered(k) ==
  \E min \in Suggested, interval \in Suggested, addrs \in SUBSET Known[k] :
    /\ minReannounceInterval' = Suggestion(min, minReannounceInterval)
    /\ announceInterval' = Suggestion(interval, announceInterval)
    /\ StartWorkers(addrs)
    /\ reply' = Reply(addrs)

Unanswered ==
  /\ reply' = NoReply
  /\ UNCHANGED <<minReannounceInterval, announceInterval, connected, worker, sem, wg>>

(* succeeded is whether announce returns no error. *)
AnnounceTo(event, succeeded) ==
  LET answering == Asked \cap up IN
  /\ events' = IF event = "" THEN events ELSE Append(events, event)
  /\ succeeded = (answering # {})
  /\ \/ answering = {} /\ Unanswered
     \/ answering # {} /\ Answered(First(answering))
  /\ UNCHANGED up
BestEffort(event) == \E succeeded \in BOOLEAN : AnnounceTo(event, succeeded)

-----------------------------------------------------------------------------
(* Download *)

(* The first announce has to succeed.  A resumed download that is complete and
   does not seed cancels the context and waits. *)
Start ==
  /\ loop = "begin"
  /\ AnnounceTo("started", TRUE)
  /\ started' = TRUE
  /\ sinceProgress' = 0 /\ sinceAnnounce' = 0
  /\ \/ loop' = "select" /\ UNCHANGED ctxDone
     \/ completed = PieceCount /\ loop' = "wait" /\ ctxDone' = TRUE
  /\ UNCHANGED <<waited, completed>>

StartFails ==
  /\ loop = "begin"
  /\ AnnounceTo("started", FALSE)
  /\ loop' = "returned" /\ ctxDone' = TRUE
  /\ UNCHANGED <<started, waited, completed, timeVars>>

(* progressTicker: the check for a stall, then the routine one. *)
Due(progressAge, announceAge) ==
  \/ /\ completed < PieceCount
     /\ progressAge >= StallTimeout
     /\ announceAge >= minReannounceInterval
  \/ announceAge >= announceInterval

Tick ==
  /\ loop = "select"
  /\ sinceProgress' = Older(sinceProgress)
  /\ \/ /\ Due(sinceProgress', Older(sinceAnnounce))
        /\ BestEffort("")
        /\ sinceAnnounce' = 0
     \/ /\ ~Due(sinceProgress', Older(sinceAnnounce))
        /\ Unanswered /\ UNCHANGED <<events, up>>
        /\ sinceAnnounce' = Older(sinceAnnounce)
  /\ UNCHANGED <<loop, started, ctxDone, waited, completed>>

(* A result is written.  The last one is announced, and the client goes on as a
   seeder or cancels the context and waits. *)
LastMutant == completed + 1 >= PieceCount   \* a bug: every result from then on
Last == completed + 1 = PieceCount
TakeResult ==
  /\ loop = "select"
  /\ completed < PieceCount + MaxDuplicates
  /\ completed' = completed + 1
  /\ sinceProgress' = 0
  /\ \/ /\ ~Last
        /\ UNCHANGED <<loop, ctxDone, sinceAnnounce, answerVars, events, up>>
     \/ /\ Last
        /\ BestEffort("completed")
        /\ sinceAnnounce' = 0
        /\ \/ UNCHANGED <<loop, ctxDone>>
           \/ loop' = "wait" /\ ctxDone' = TRUE
  /\ UNCHANGED <<started, waited>>

(* A write or the final sync fails: Download returns, and the workers are not
   waited for. *)
DownloadFails ==
  /\ loop = "select"
  /\ completed < PieceCount + MaxDuplicates
  /\ loop' = "stop"
  /\ UNCHANGED <<started, ctxDone, waited, completed, timeVars, answerVars, events, up>>

(* The grace period after a signal is over: the context is cancelled, and the
   loop goes on. *)
GracePeriodEnds ==
  /\ loop = "select"
  /\ ~ctxDone /\ ctxDone' = TRUE
  /\ UNCHANGED <<loop, started, waited, completed, timeVars, answerVars, events, up>>

(* The case of the cancelled context, which the select need not take at once. *)
ContextDone ==
  /\ loop = "select"
  /\ ctxDone
  /\ loop' = "wait"
  /\ UNCHANGED <<started, ctxDone, waited, completed, timeVars, answerVars, events, up>>

(* wg.Wait *)
WaitReturns ==
  /\ loop = "wait"
  /\ wg = 0
  /\ loop' = "stop" /\ waited' = TRUE
  /\ UNCHANGED <<started, ctxDone, completed, timeVars, answerVars, events, up>>

(* The deferred calls: the announce that we are gone, which may find new peers
   like any other, and then cancel. *)
Stop ==
  /\ loop = "stop"
  /\ BestEffort("stopped")
  /\ loop' = "returned" /\ ctxDone' = TRUE
  /\ UNCHANGED <<started, waited, completed, timeVars>>

-----------------------------------------------------------------------------
(* worker *)

Move(p, from, to) ==
  /\ worker[p] = from
  /\ worker' = [worker EXCEPT ![p] = to]
  /\ UNCHANGED <<loop, started, ctxDone, waited, completed, timeVars,
                 minReannounceInterval, announceInterval, connected, reply, events, up>>

(* peer.Dial, which does not look at the context. *)
DialSucceeds(p) == Move(p, "dialing", "running") /\ UNCHANGED <<sem, wg>>

(* A bug the model can show: the slot is given back only by runConnection. *)
DialFailsMutant(p) == Move(p, "dialing", "released") /\ UNCHANGED <<sem, wg>>
DialFails(p) == Move(p, "dialing", "released") /\ sem' = sem - 1 /\ UNCHANGED wg

(* runConnection returns: the peer is gone, or the context was cancelled. *)
ConnectionEnds(p) == Move(p, "running", "released") /\ sem' = sem - 1 /\ UNCHANGED wg

WorkerDoneMutant(p) == Move(p, "released", "ended") /\ UNCHANGED <<sem, wg>>   \* a bug
WorkerDone(p) == Move(p, "released", "ended") /\ wg' = wg - 1 /\ UNCHANGED sem

Worker(p) ==
  DialSucceeds(p) \/ DialFails(p) \/ ConnectionEnds(p) \/ WorkerDone(p)

(* A tracker goes down, or comes back. *)
TrackerChanges(k) ==
  /\ up' = IF k \in up THEN up \ {k} ELSE up \cup {k}
  /\ UNCHANGED <<loop, started, ctxDone, waited, completed, timeVars, answerVars, events>>

Next ==
  \/ Start \/ StartFails \/ Tick \/ TakeResult \/ DownloadFails
  \/ GracePeriodEnds \/ ContextDone \/ WaitReturns \/ Stop
  \/ \E p \in Peer : Worker(p)
  \/ \E k \in Http : TrackerChanges(k)

Spec == Init /\ [][Next]_vars

(* The ticker ticks, the main loop and the goroutines run, a dial ends by its
   timeout, a connection once the context is cancelled.  That peers go away, that
   results arrive or that a tracker answers is not assumed. *)
FairSpec ==
  /\ Spec
  /\ WF_vars(Start \/ StartFails) /\ WF_vars(Tick)
  /\ WF_vars(ContextDone) /\ WF_vars(WaitReturns) /\ WF_vars(Stop)
  /\ \A p \in Peer :
       /\ WF_vars(DialSucceeds(p) \/ DialFails(p))
       /\ WF_vars(ctxDone /\ ConnectionEnds(p))
       /\ WF_vars(WorkerDone(p))

-----------------------------------------------------------------------------
(* Properties *)

(* Every slot of the semaphore belongs to a worker that dials or runs, whatever
   the way the others ended, and there are never more than maxPeers. *)
SlotsMatchWorkers ==
  /\ sem = Cardinality({p \in Peer : Active(p)})
  /\ sem <= MaxPeers

(* When the wait for the workers is over there are none, so that the file and
   the tracker client can be closed (download.go, wg.Wait), although announces
   start workers until the wait begins, after cancel too.  Not every session
   waits: a failed write returns at once, also with the context cancelled.  What
   the announce of "stopped" starts afterwards is not waited for. *)
WaitMissesNoWorker ==
  loop = "stop" /\ waited => \A p \in Peer : worker[p] \in {"none", "ended"}

(* "The started/completed/stopped events the spec expects at exactly those
   three moments and no others" (architecture.md): in order, each at most once,
   and "stopped" by every session whose start was heard, whatever ended it. *)
EventsInOrder ==
  /\ events \in {<<>>, <<"started">>, <<"started", "completed">>,
                 <<"started", "stopped">>, <<"started", "completed", "stopped">>}
  /\ loop = "returned" => (started <=> events[Len(events)] = "stopped")

(* A client in the loop hears from a tracker again and again once one of those
   that speak HTTP stays up: a stall, or a seeder's routine announce, gets past
   the trackers that are dead or not supported (download.go: "is fixed the same
   way: more peers"; tiers.go: "real torrents mix working and dead trackers"). *)
KeepsAnnouncing ==
  (\E k \in Http : <>[](k \in up)) => []<>(loop # "select" \/ reply.answered)

(* "Leaving that peer out of connected means the next announce naturally retries
   it once a slot opens up" (download.go): a peer that trackers keep returning
   is dialed in the end, if slots keep opening up. *)
Offered(p) == reply.answered /\ p \in reply.peers
SkippedPeerIsRetried ==
  \A p \in Peer :
    []<>(loop = "select" /\ Offered(p)) /\ []<>(sem < MaxPeers)
      => <>(worker[p] # "none")

(* A cancelled context ends the wait for the workers, also for one that was
   dialing (peer.Dial does not watch the context), and gets Download to return. *)
DownloadReturns == ctxDone ~> loop = "returned"
=============================================================================
