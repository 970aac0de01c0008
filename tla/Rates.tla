------------------------------- MODULE Rates -------------------------------
(***************************************************************************)
(* What the client knows of its speed (internal/download/rates.go, the     *)
(* RateTracker behind the choking decisions, and the counters of           *)
(* progress.go that connections update): one goroutine per connection that *)
(* counts itself in, joins, records bytes, leaves and counts itself out,   *)
(* and the coordinator, which drops the rates of a peer that left.  The    *)
(* tracker and the coordinator know a connection by its address, which two *)
(* connections may share.                                                  *)
(*                                                                         *)
(* The RateTracker is guarded by a mutex, so each of its methods is one    *)
(* step; the peak of active peers is not, and its loop of load and         *)
(* compare-and-swap is modelled step by step.  Both directions of a        *)
(* connection are recorded by the same code; one is modelled.              *)
(***************************************************************************)
EXTENDS Integers, Sequences, FiniteSets

CONSTANTS
  Conn,              \* connections
  Addr,
  ConnAddr,          \* the address of each connection
  RateSampleWindow,
  Amounts,           \* bytes that move at once
  MaxTime,           \* bound: when the clock stops
  MaxRecords         \* bound: times one connection moves bytes

ASSUME RatesAssumption ==
  /\ ConnAddr \in [Conn -> Addr]
  /\ RateSampleWindow \in Nat \ {0}
  /\ Amounts \subseteq Nat \ {0}
  /\ MaxTime \in Nat /\ MaxRecords \in Nat

NoEntry  == [known |-> FALSE]
Entry(total, samples) == [known |-> TRUE, total |-> total, samples |-> samples]
Sample(at, bytes) == [at |-> at, bytes |-> bytes]

(* What the coordinator is in the middle of, when not in its select. *)
Idle == [event |-> "none"]
PeerJoined(c) == [event |-> "joined", conn |-> c]
PeerLeft(c)   == [event |-> "left", conn |-> c]

VARIABLES
  now,          \* the clock
  stage,        \* where the goroutine of each connection is
  n,            \* PeerConnected: the count it brought about
  seen,         \* PeerConnected: the peak it loaded
  activePeers,
  peakPeers,
  highest,      \* the highest activePeers ever was
  rates,        \* RateTracker.peers
  peers,        \* the addresses the coordinator has registered
  handling,     \* the event the coordinator has received and not yet handled
  log,          \* history: what each connection recorded since it joined
  mixed         \* history: addresses that two connections have shared since the
                \* last of them left and took the entry with it

peakVars == <<n, seen, activePeers, peakPeers, highest>>
rateVars == <<rates, peers, handling, log, mixed>>
vars == <<now, stage, peakVars, rateVars>>

TypeOK ==
  /\ now \in 0 .. MaxTime
  /\ stage \in [Conn -> {"out", "loading", "swapping", "counted", "joined", "left"}]
  /\ n \in [Conn -> 0 .. Cardinality(Conn)] /\ seen \in [Conn -> 0 .. Cardinality(Conn)]
  /\ activePeers \in 0 .. Cardinality(Conn)
  /\ peakPeers \in 0 .. highest /\ highest \in 0 .. Cardinality(Conn)
  /\ peers \in SUBSET Addr /\ mixed \in SUBSET Addr
  /\ handling \in {Idle} \cup {PeerJoined(c) : c \in Conn} \cup {PeerLeft(c) : c \in Conn}
  /\ \A c \in Conn : log[c] \in Seq([at : 0 .. now, bytes : Nat])
  /\ \A a \in Addr :
       rates[a].known =>
         /\ rates[a].total \in Nat
         /\ rates[a].samples \in Seq([at : 0 .. now, bytes : Nat])

Init ==
  /\ now = 0
  /\ stage = [c \in Conn |-> "out"]
  /\ n = [c \in Conn |-> 0] /\ seen = [c \in Conn |-> 0]
  /\ activePeers = 0 /\ peakPeers = 0 /\ highest = 0
  /\ rates = [a \in Addr |-> NoEntry]
  /\ peers = {} /\ mixed = {}
  /\ handling = Idle
  /\ log = [c \in Conn |-> <<>>]

Move(c, from, to) == stage[c] = from /\ stage' = [stage EXCEPT ![c] = to]

-----------------------------------------------------------------------------
(* PeerConnected *)

PeerConnected(c) ==
  /\ Move(c, "out", "loading")
  /\ activePeers' = activePeers + 1
  /\ n' = [n EXCEPT ![c] = activePeers']
  /\ highest' = IF activePeers' > highest THEN activePeers' ELSE highest
  /\ UNCHANGED <<now, seen, peakPeers, rateVars>>

LoadPeak(c) ==
  /\ Move(c, "loading", IF n[c] <= peakPeers THEN "counted" ELSE "swapping")
  /\ seen' = [seen EXCEPT ![c] = peakPeers]
  /\ UNCHANGED <<now, n, activePeers, peakPeers, highest, rateVars>>

CompareAndSwapMutant(c) ==   \* a bug: a plain store
  /\ Move(c, "swapping", "counted")
  /\ peakPeers' = n[c]
  /\ UNCHANGED <<now, n, seen, activePeers, highest, rateVars>>
CompareAndSwap(c) ==
  /\ \/ /\ peakPeers = seen[c]
        /\ peakPeers' = n[c]
        /\ Move(c, "swapping", "counted")
     \/ /\ peakPeers # seen[c]
        /\ UNCHANGED peakPeers
        /\ Move(c, "swapping", "loading")
  /\ UNCHANGED <<now, n, seen, activePeers, highest, rateVars>>

PeerDisconnected(c) ==
  /\ Move(c, "left", "out")
  /\ activePeers' = activePeers - 1
  /\ n' = [n EXCEPT ![c] = 0] /\ seen' = [seen EXCEPT ![c] = 0]
  /\ log' = [log EXCEPT ![c] = <<>>]
  /\ UNCHANGED <<now, peakPeers, highest, rates, peers, handling, mixed>>

-----------------------------------------------------------------------------
(* The RateTracker *)

At(a) == {c \in Conn : ConnAddr[c] = a}
Joined(a) == {c \in At(a) : stage[c] = "joined"}

(* The coordinator receives PeerJoined, between two handlers. *)
Join(c) ==
  /\ handling = Idle
  /\ Move(c, "counted", "joined")
  /\ handling' = PeerJoined(c)
  /\ mixed' = mixed \cup {a \in {ConnAddr[c]} : Joined(a) # {}}
  /\ UNCHANGED <<now, peakVars, rates, peers, log>>

(* handlePeerJoined: the entry of a peer that it replaces is removed. *)
HandlePeerJoined ==
  /\ handling.event = "joined"
  /\ LET a == ConnAddr[handling.conn] IN
     /\ rates' = [rates EXCEPT ![a] = IF a \in peers THEN NoEntry ELSE @]
     /\ peers' = peers \cup {a}
  /\ handling' = Idle
  /\ UNCHANGED <<now, stage, peakVars, log, mixed>>

(* prune: the samples up to the first one inside the window are dropped. *)
PruneMutant(samples, t) ==   \* a bug: the sample at the cutoff is dropped too
  SelectSeq(samples, LAMBDA s : s.at > t - RateSampleWindow)
Prune(samples, t) ==
  LET fresh == {k \in DOMAIN samples : samples[k].at >= t - RateSampleWindow} IN
  IF fresh = {} THEN <<>>
  ELSE SubSeq(samples, CHOOSE k \in fresh : \A j \in fresh : k <= j, Len(samples))

(* record *)
Total(a)   == IF rates[a].known THEN rates[a].total ELSE 0
Samples(a) == IF rates[a].known THEN rates[a].samples ELSE <<>>
Record(c, bytes) ==
  LET a      == ConnAddr[c]
      sample == Sample(now, Total(a) + bytes)
  IN
  /\ stage[c] = "joined"
  /\ Len(log[c]) < MaxRecords
  /\ rates' = [rates EXCEPT ![a] =
                 Entry(sample.bytes, Prune(Append(Samples(a), sample), now))]
  /\ log' = [log EXCEPT ![c] = Append(@, Sample(now, bytes))]
  /\ UNCHANGED <<now, stage, peakVars, peers, handling, mixed>>

(* The coordinator receives PeerLeft, which says only the address. *)
Leave(c) ==
  /\ handling = Idle
  /\ Move(c, "joined", "left")
  /\ handling' = PeerLeft(c)
  /\ UNCHANGED <<now, peakVars, rates, peers, log, mixed>>

(* handlePeerLeft: the registered peer of that address goes, with its entry,
   whichever connection the event is from; without one nothing happens. *)
HandlePeerLeft ==
  /\ handling.event = "left"
  /\ LET a == ConnAddr[handling.conn] IN
     \/ /\ a \in peers
        /\ rates' = [rates EXCEPT ![a] = NoEntry]
        /\ peers' = peers \ {a}
        /\ mixed' = mixed \ {b \in {a} : Joined(b) = {}}
     \/ /\ a \notin peers
        /\ UNCHANGED <<rates, peers, mixed>>
  /\ handling' = Idle
  /\ UNCHANGED <<now, stage, peakVars, log>>

Elapse ==
  /\ now < MaxTime
  /\ now' = now + 1
  /\ UNCHANGED <<stage, peakVars, rateVars>>

(* rate, as the bytes and the time it divides; no rate is 0 bytes. *)
Stale(samples) == now - samples[Len(samples)].at > RateSampleWindow
Rate(a) ==
  LET s     == Samples(a)
      last  == s[Len(s)]
      delta == [bytes |-> last.bytes - s[1].bytes, elapsed |-> last.at - s[1].at]
  IN
  IF Len(s) < 2 \/ Stale(s) \/ delta.elapsed <= 0
  THEN [bytes |-> 0, elapsed |-> 1] ELSE delta

Next ==
  \/ \E c \in Conn :
       \/ PeerConnected(c) \/ LoadPeak(c) \/ CompareAndSwap(c) \/ PeerDisconnected(c)
       \/ Join(c) \/ (\E bytes \in Amounts : Record(c, bytes)) \/ Leave(c)
  \/ HandlePeerJoined \/ HandlePeerLeft \/ Elapse

Spec == Init /\ [][Next]_vars

-----------------------------------------------------------------------------
(* Properties *)

(* "peakPeers only ever needs to remember the highest value it has ever seen"
   (progress.go): when no connection is in the middle of its loop the peak is
   the highest number of peers there ever was, however the loops interleaved. *)
PeakIsHighest ==
  (\A c \in Conn : stage[c] \notin {"loading", "swapping"}) => peakPeers = highest

(* A rate is made of the right bytes: those the connection moved after the
   oldest sample of the window that ends with the newest one, in the time
   between these two; and a peer that was silent for a whole window has none
   ("treating a stale window (nothing recent) as zero instead of a stuck
   last-known value", rates.go).  Nothing an earlier connection from the same
   address moved counts, unless two of them were connected at once and the
   coordinator's register has not been empty of both since: the replaced
   connection goes on recording into the entry of its replacement, and its
   PeerLeft removes that entry. *)
Moved(l) ==   \* Moved(l)[k]: the bytes of the first k entries
  LET moved[k \in 0 .. Len(l)] == IF k = 0 THEN 0 ELSE moved[k - 1] + l[k].bytes
  IN  moved
Window(l) == {k \in 1 .. Len(l) : l[k].at >= l[Len(l)].at - RateSampleWindow}
Oldest(l) == CHOOSE k \in Window(l) : \A j \in Window(l) : k <= j
RateIsExact ==
  \A c \in Conn :
    stage[c] = "joined" /\ ConnAddr[c] \notin mixed =>
      LET l == log[c]
          m == Len(l)
          rate == Rate(ConnAddr[c])
      IN
      \/ /\ rate.bytes = 0
         /\ \/ l = <<>>
            \/ l[m].at < now - RateSampleWindow
            \/ l[m].at = l[Oldest(l)].at
      \/ /\ l[m].at >= now - RateSampleWindow
         /\ rate = [bytes   |-> Moved(l)[m] - Moved(l)[Oldest(l)],
                    elapsed |-> l[m].at - l[Oldest(l)].at]
=============================================================================
