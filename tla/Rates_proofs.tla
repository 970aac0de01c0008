---------------------------- MODULE Rates_proofs ----------------------------
(***************************************************************************)
(* The lock-free peak of active peers is right for any number of           *)
(* connections and any interleaving of their compare-and-swap loops, and a *)
(* rate is made of exactly the bytes that moved in its window.             *)
(***************************************************************************)
EXTENDS Rates, FiniteSetTheorems, WellFoundedInduction, TLAPS

InLoop(c) == stage[c] \in {"loading", "swapping"}

CounterTypes ==
  /\ stage \in [Conn -> {"out", "loading", "swapping", "counted", "joined", "left"}]
  /\ n \in [Conn -> Int] /\ seen \in [Conn -> Int]
  /\ activePeers \in Int /\ peakPeers \in Int /\ highest \in Int

(* The peak has not gone past the highest count, and as long as it has not got
   there, the connection that brought about that count is still in its loop.  A
   connection about to swap loaded a peak that its own count exceeds. *)
PeakInv ==
  /\ CounterTypes
  /\ peakPeers <= highest /\ activePeers <= highest
  /\ peakPeers = highest \/ \E c \in Conn : InLoop(c) /\ n[c] = highest
  /\ \A c \in Conn : InLoop(c) => n[c] <= highest
  /\ \A c \in Conn : stage[c] = "swapping" => seen[c] < n[c]

-----------------------------------------------------------------------------
(* activePeers.Add: the count it returns is still to be compared with the peak, so the
   highest count is either the peak or on its way to it. *)
LEMMA ConnectedKeepsPeak ==
  ASSUME PeakInv, NEW c \in Conn, PeerConnected(c)
  PROVE  PeakInv' /\ peakPeers' = peakPeers
<1>1. /\ stage[c] = "out" /\ stage' = [stage EXCEPT ![c] = "loading"]
      /\ activePeers' = activePeers + 1 /\ n' = [n EXCEPT ![c] = activePeers + 1]
      /\ highest' = IF activePeers + 1 > highest THEN activePeers + 1 ELSE highest
      /\ UNCHANGED <<seen, peakPeers>>
  BY DEF PeerConnected, Move
<1>2. /\ stage'[c] = "loading" /\ n'[c] = activePeers + 1
      /\ \A d \in Conn \ {c} : stage'[d] = stage[d] /\ n'[d] = n[d]
      /\ CounterTypes'
  BY <1>1 DEF PeakInv, CounterTypes
<1>3. peakPeers' = highest' \/ \E d \in Conn : InLoop(d)' /\ n'[d] = highest'
  <2>1. CASE activePeers + 1 > highest
    BY <1>1, <1>2, <2>1 DEF InLoop
  <2>2. CASE ~(activePeers + 1 > highest)
    BY <1>1, <1>2, <2>2 DEF PeakInv, InLoop
  <2> QED  BY <2>1, <2>2
<1> QED  BY <1>1, <1>2, <1>3 DEF PeakInv, CounterTypes, InLoop

(* A loop that gives up has seen a peak at least as high as its own count. *)
LEMMA LoadKeepsPeak ==
  ASSUME PeakInv, NEW c \in Conn, LoadPeak(c)
  PROVE  PeakInv' /\ peakPeers' = peakPeers
<1>1. /\ stage[c] = "loading"
      /\ stage' = [stage EXCEPT ![c] = IF n[c] <= peakPeers THEN "counted" ELSE "swapping"]
      /\ seen' = [seen EXCEPT ![c] = peakPeers]
      /\ UNCHANGED <<n, activePeers, peakPeers, highest>>
  BY DEF LoadPeak, Move
<1>2. /\ stage'[c] = (IF n[c] <= peakPeers THEN "counted" ELSE "swapping")
      /\ seen'[c] = peakPeers
      /\ \A d \in Conn \ {c} : stage'[d] = stage[d] /\ seen'[d] = seen[d]
      /\ CounterTypes'
  BY <1>1 DEF PeakInv, CounterTypes
<1> QED  BY <1>1, <1>2 DEF PeakInv, CounterTypes, InLoop

(* A swap succeeds only on the peak that was loaded, so it never lowers it. *)
LEMMA SwapKeepsPeak ==
  ASSUME PeakInv, NEW c \in Conn, CompareAndSwap(c)
  PROVE  PeakInv' /\ peakPeers' >= peakPeers
<1>0. UNCHANGED <<n, seen, activePeers, highest>> /\ stage[c] = "swapping"
  BY DEF CompareAndSwap, Move
<1>1. seen[c] < n[c] /\ n[c] <= highest
  BY <1>0 DEF PeakInv, InLoop
<1>2. CASE /\ peakPeers = seen[c] /\ peakPeers' = n[c]
           /\ stage' = [stage EXCEPT ![c] = "counted"]
  <2>1. /\ stage'[c] = "counted"
        /\ \A d \in Conn \ {c} : stage'[d] = stage[d]
        /\ CounterTypes'
    BY <1>0, <1>2 DEF PeakInv, CounterTypes
  <2> QED  BY <1>0, <1>1, <1>2, <2>1 DEF PeakInv, CounterTypes, InLoop
<1>3. CASE peakPeers' = peakPeers /\ stage' = [stage EXCEPT ![c] = "loading"]
  <2>1. /\ stage'[c] = "loading"
        /\ \A d \in Conn \ {c} : stage'[d] = stage[d]
        /\ CounterTypes'
    BY <1>0, <1>3 DEF PeakInv, CounterTypes
  <2> QED  BY <1>0, <1>3, <2>1 DEF PeakInv, CounterTypes, InLoop
<1> QED  BY <1>2, <1>3 DEF CompareAndSwap, Move

(* activePeers.Add(-1) by a connection that has left its loop. *)
LEMMA DisconnectedKeepsPeak ==
  ASSUME PeakInv, NEW c \in Conn, PeerDisconnected(c)
  PROVE  PeakInv' /\ peakPeers' = peakPeers
<1>1. /\ stage[c] = "left" /\ stage' = [stage EXCEPT ![c] = "out"]
      /\ activePeers' = activePeers - 1
      /\ n' = [n EXCEPT ![c] = 0] /\ seen' = [seen EXCEPT ![c] = 0]
      /\ UNCHANGED <<peakPeers, highest>>
  BY DEF PeerDisconnected, Move
<1>2. /\ stage'[c] = "out"
      /\ \A d \in Conn \ {c} : stage'[d] = stage[d] /\ n'[d] = n[d] /\ seen'[d] = seen[d]
      /\ CounterTypes'
  BY <1>1 DEF PeakInv, CounterTypes
<1> QED  BY <1>1, <1>2 DEF PeakInv, CounterTypes, InLoop

(* The other steps leave the counters alone, and nobody enters or leaves a loop. *)
LEMMA RestKeepsPeak ==
  ASSUME PeakInv,
         \/ \E c \in Conn : Join(c) \/ Leave(c) \/ \E bytes \in Amounts : Record(c, bytes)
         \/ HandlePeerJoined \/ HandlePeerLeft \/ Elapse \/ UNCHANGED vars
  PROVE  PeakInv' /\ peakPeers' = peakPeers
<1>1. UNCHANGED <<n, seen, activePeers, peakPeers, highest>>
  BY DEF Join, Leave, Record, HandlePeerJoined, HandlePeerLeft, Elapse, vars, peakVars
<1>2. CounterTypes' /\ \A d \in Conn : InLoop(d)' => stage'[d] = stage[d]
  BY <1>1 DEF PeakInv, CounterTypes, InLoop, Join, Leave, Record, HandlePeerJoined,
     HandlePeerLeft, Elapse, Move, vars
<1>3. \A d \in Conn : InLoop(d) => stage'[d] = stage[d]
  BY DEF PeakInv, CounterTypes, InLoop, Join, Leave, Record, HandlePeerJoined,
     HandlePeerLeft, Elapse, Move, vars
<1> QED  BY <1>1, <1>2, <1>3 DEF PeakInv, CounterTypes, InLoop

-----------------------------------------------------------------------------
(* Every step keeps the invariant, and none lowers the peak. *)
LEMMA PeakStep ==
  ASSUME PeakInv, [Next]_vars
  PROVE  PeakInv' /\ peakPeers' >= peakPeers
<1>0. peakPeers >= peakPeers
  BY DEF PeakInv, CounterTypes
<1> QED
  BY <1>0, ConnectedKeepsPeak, LoadKeepsPeak, SwapKeepsPeak, DisconnectedKeepsPeak,
     RestKeepsPeak DEF Next

(* The invariant of the lock-free peak. *)
LEMMA PeakInvariant == Spec => []PeakInv
<1>1. Init => PeakInv
  BY DEF Init, PeakInv, CounterTypes, InLoop
<1> QED  BY <1>1, PeakStep, PTL DEF Spec

(* When no connection is in its loop the peak is the highest number of peers there
   ever was, with any number of connections counting themselves at once
   (progress.go, PeerConnected). *)
THEOREM PeakIsExact == Spec => []PeakIsHighest
<1>1. PeakInv => PeakIsHighest
  BY DEF PeakInv, PeakIsHighest, InLoop
<1> QED  BY <1>1, PeakInvariant, PTL

(* The peak never falls: a swap cannot write over a higher one. *)
THEOREM PeakNeverFalls == Spec => [][peakPeers' >= peakPeers]_vars
<1>1. PeakInv /\ [Next]_vars => [peakPeers' >= peakPeers]_vars
  BY PeakStep
<1> QED  BY <1>1, PeakInvariant, PTL DEF Spec

-----------------------------------------------------------------------------
(* Running totals *)

(* A nonempty set of numbers has a least one. *)
LEMMA Least ==
  ASSUME NEW S \in SUBSET Nat, S # {}
  PROVE  \E k \in S : \A j \in S : k <= j /\ ~(j < k)
<1> DEFINE Less == {ss \in Nat \X Nat : ss[1] < ss[2]}
<1>1. IsWellFoundedOn(Less, Nat)
  BY NatLessThanWellFounded DEF OpToRel
<1>2. PICK k \in S : \A j \in S : ~(<<j, k>> \in Less)
  <2> HIDE DEF Less
  <2> QED  BY <1>1, WFMin
<1>3. ASSUME NEW j \in S  PROVE k <= j /\ ~(j < k)
  <2>1. j \in Nat /\ k \in Nat
    OBVIOUS
  <2>2. j < k => <<j, k>> \in Less
    BY <2>1
  <2> QED  BY <1>2, <2>1, <2>2
<1> QED  BY <1>3

Records == [at : Nat, bytes : Nat]

(* f holds the running totals of the first m entries of l. *)
RunningTotals(f, l, m) ==
  f = [k \in 0 .. m |-> IF k = 0 THEN 0 ELSE f[k - 1] + l[k].bytes]

(* Running totals exist for every prefix: the shortest one without them would be one
   entry longer than a prefix that has them. *)
LEMMA TotalsExist ==
  ASSUME NEW l, NEW m \in Nat
  PROVE  \E f : RunningTotals(f, l, m)
<1> DEFINE Bad == {k \in Nat : ~ \E f : RunningTotals(f, l, k)}
<1>1. SUFFICES ASSUME m \in Bad PROVE FALSE
  OBVIOUS
<1>2. PICK k \in Bad : \A j \in Bad : ~(j < k)
  <2>1. Bad \subseteq Nat /\ Bad # {}
    BY <1>1
  <2> HIDE DEF Bad
  <2> QED  BY <2>1, Least
<1>3. k # 0
  <2>1. RunningTotals([j \in 0 .. 0 |-> 0], l, 0)
    BY DEF RunningTotals
  <2> QED  BY <2>1
<1>4. PICK f : RunningTotals(f, l, k - 1)
  <2>1. k - 1 \in Nat /\ k - 1 < k
    BY <1>3
  <2>2. k - 1 \notin Bad
    BY <1>2, <2>1
  <2> QED  BY <2>1, <2>2
<1> DEFINE g == [j \in 0 .. k |-> IF j = k THEN f[k - 1] + l[k].bytes ELSE f[j]]
<1>5. RunningTotals(g, l, k)
  <2>1. ASSUME NEW j \in 0 .. k
        PROVE  g[j] = IF j = 0 THEN 0 ELSE g[j - 1] + l[j].bytes
    BY <1>3, <1>4 DEF RunningTotals
  <2> QED  BY <2>1 DEF RunningTotals
<1> QED  BY <1>2, <1>5

(* Running totals of two logs agree as far as the logs do. *)
LEMMA TotalsAgree ==
  ASSUME NEW f, NEW l, NEW m \in Nat, RunningTotals(f, l, m),
         NEW g, NEW q, NEW p \in Nat, RunningTotals(g, q, p),
         NEW i \in Nat, i <= m, i <= p, \A k \in 1 .. i : l[k] = q[k]
  PROVE  \A k \in 0 .. i : f[k] = g[k]
<1> DEFINE Bad == {k \in 0 .. i : f[k] # g[k]}
<1>1. SUFFICES ASSUME Bad # {} PROVE FALSE
  OBVIOUS
<1>2. PICK k \in Bad : \A j \in Bad : ~(j < k)
  <2>1. Bad \subseteq Nat /\ Bad # {}
    BY <1>1
  <2> HIDE DEF Bad
  <2> QED  BY <2>1, Least
<1>3. f[0] = 0 /\ g[0] = 0
  BY DEF RunningTotals
<1>4. k \in 1 .. i /\ k - 1 \in 0 .. i /\ k - 1 < k
  BY <1>3
<1>5. f[k - 1] = g[k - 1]
  BY <1>2, <1>4
<1>6. f[k] = f[k - 1] + l[k].bytes /\ g[k] = g[k - 1] + q[k].bytes
  <2>1. k \in 0 .. m /\ k \in 0 .. p /\ k # 0
    BY <1>4
  <2> QED  BY <2>1 DEF RunningTotals
<1> QED  BY <1>4, <1>5, <1>6

(* Moved(l) holds the running totals of l, which are natural numbers. *)
LEMMA MovedIsRunning ==
  ASSUME NEW l \in Seq(Records)
  PROVE  /\ RunningTotals(Moved(l), l, Len(l))
         /\ Moved(l)[0] = 0
         /\ \A k \in 0 .. Len(l) : Moved(l)[k] \in Nat
<1>1. RunningTotals(Moved(l), l, Len(l))
  <2>1. \E f : f = [k \in 0 .. Len(l) |-> IF k = 0 THEN 0 ELSE f[k - 1] + l[k].bytes]
    BY TotalsExist DEF RunningTotals
  <2> QED  BY <2>1 DEF Moved, RunningTotals
<1> HIDE DEF Moved
<1>2. Moved(l)[0] = 0
  BY <1>1 DEF RunningTotals
<1> DEFINE Bad == {k \in 0 .. Len(l) : Moved(l)[k] \notin Nat}
<1>3. ASSUME Bad # {} PROVE FALSE
  <2>1. PICK k \in Bad : \A j \in Bad : ~(j < k)
    <3>1. Bad \subseteq Nat /\ Bad # {}
      BY <1>3
    <3> HIDE DEF Bad
    <3> QED  BY <3>1, Least
  <2>2. k \in 1 .. Len(l) /\ k - 1 \in 0 .. Len(l) /\ k - 1 < k
    BY <1>2
  <2>3. Moved(l)[k - 1] \in Nat
    BY <2>1, <2>2
  <2>4. Moved(l)[k] = Moved(l)[k - 1] + l[k].bytes
    BY <1>1, <2>2 DEF RunningTotals
  <2>5. l[k].bytes \in Nat
    <3>1. l[k] \in Records
      BY <2>2
    <3> QED  BY <3>1 DEF Records
  <2> QED  BY <2>3, <2>4, <2>5
<1> QED  BY <1>1, <1>2, <1>3

(* One more entry adds its bytes and leaves the earlier totals alone. *)
LEMMA MovedAppend ==
  ASSUME NEW l \in Seq(Records), NEW r \in Records
  PROVE  /\ Moved(Append(l, r))[Len(l) + 1] = Moved(l)[Len(l)] + r.bytes
         /\ \A k \in 0 .. Len(l) : Moved(Append(l, r))[k] = Moved(l)[k]
<1> DEFINE q == Append(l, r)
<1>1. q \in Seq(Records) /\ Len(q) = Len(l) + 1 /\ q[Len(l) + 1] = r /\ Len(l) \in Nat
  OBVIOUS
<1>2. \A k \in 1 .. Len(l) : l[k] = q[k]
  OBVIOUS
<1> HIDE DEF q
<1>3. RunningTotals(Moved(q), q, Len(l) + 1) /\ RunningTotals(Moved(l), l, Len(l))
  BY <1>1, MovedIsRunning
<1>4. \A k \in 0 .. Len(l) : Moved(l)[k] = Moved(q)[k]
  <2>1. Len(l) \in Nat /\ Len(l) + 1 \in Nat /\ Len(l) <= Len(l) + 1
    BY <1>1
  <2> QED  BY <1>2, <1>3, <2>1, TotalsAgree
<1>5. Moved(q)[Len(l) + 1] = Moved(q)[Len(l)] + r.bytes
  <2>1. Len(l) + 1 \in 0 .. Len(l) + 1 /\ Len(l) + 1 # 0 /\ Len(l) + 1 - 1 = Len(l)
    BY <1>1
  <2> QED  BY <1>1, <1>3, <2>1 DEF RunningTotals
<1>6. Len(l) \in 0 .. Len(l)
  BY <1>1
<1> QED  BY <1>4, <1>5, <1>6 DEF q

(* A log that is not empty has an oldest entry in the window of its newest one. *)
LEMMA OldestEntry ==
  ASSUME NEW l \in Seq(Records), l # <<>>
  PROVE  /\ Oldest(l) \in Window(l) /\ Len(l) \in Window(l)
         /\ \A j \in Window(l) : Oldest(l) <= j
<1>1. Len(l) \in 1 .. Len(l) /\ l[Len(l)] \in Records
  OBVIOUS
<1>2. Len(l) \in Window(l)
  <2>1. l[Len(l)].at \in Nat
    BY <1>1 DEF Records
  <2> QED  BY <1>1, <2>1, RatesAssumption DEF Window
<1>3. Window(l) \in SUBSET Nat
  BY DEF Window
<1>4. \E k \in Window(l) : \A j \in Window(l) : k <= j
  BY <1>2, <1>3, Least
<1> QED  BY <1>2, <1>4 DEF Oldest

(* The oldest entry is the only one with nothing before it in the window. *)
LEMMA OldestIsUnique ==
  ASSUME NEW l \in Seq(Records), l # <<>>, NEW k \in Window(l),
         \A j \in Window(l) : k <= j
  PROVE  Oldest(l) = k
<1>1. Oldest(l) \in Window(l) /\ \A j \in Window(l) : Oldest(l) <= j
  BY OldestEntry
<1>2. Oldest(l) \in Nat /\ k \in Nat
  BY <1>1 DEF Window
<1> QED  BY <1>1, <1>2

(* A function on 1 .. z is a sequence of length z. *)
LEMMA SequenceFromFunction ==
  ASSUME NEW z \in Nat, NEW S, NEW f \in [1 .. z -> S]
  PROVE  f \in Seq(S) /\ Len(f) = z
OBVIOUS

(* What is left of a sequence from its entry i on, as a function. *)
LEMMA SuffixIsFunction ==
  ASSUME NEW S, NEW f \in Seq(S), NEW z, Len(f) = z, NEW i \in 1 .. z
  PROVE  SubSeq(f, i, Len(f)) = [k \in 1 .. z - i + 1 |-> f[i + k - 1]]
OBVIOUS

(* What Append does, as a function. *)
LEMMA AppendIsFunction ==
  ASSUME NEW S, NEW f \in Seq(S), NEW e \in S
  PROVE  Append(f, e) = [k \in 1 .. Len(f) + 1 |-> IF k = Len(f) + 1 THEN e ELSE f[k]]
<1>1. /\ Append(f, e) \in Seq(S) /\ Len(Append(f, e)) = Len(f) + 1 /\ Len(f) \in Nat
      /\ \A k \in 1 .. Len(f) : Append(f, e)[k] = f[k]
      /\ Append(f, e)[Len(f) + 1] = e
  OBVIOUS
<1>2. Append(f, e) = [k \in 1 .. Len(f) + 1 |-> Append(f, e)[k]]
  <2> DEFINE g == Append(f, e)
  <2>1. g \in Seq(S) /\ Len(g) = Len(f) + 1
    BY <1>1
  <2> HIDE DEF g
  <2>2. g \in [1 .. Len(g) -> S]
    BY <2>1
  <2> QED  BY <2>1, <2>2 DEF g
<1>3. ASSUME NEW k \in 1 .. Len(f) + 1
      PROVE  Append(f, e)[k] = IF k = Len(f) + 1 THEN e ELSE f[k]
  BY <1>1
<1> QED  BY <1>2, <1>3, Zenon

(* What the tracker keeps of a log: its total, and a sample of the running total for
   each entry from the oldest one in the window on. *)
KeptSamples(l) ==
  [k \in 1 .. Len(l) - Oldest(l) + 1 |->
     Sample(l[Oldest(l) + k - 1].at, Moved(l)[Oldest(l) + k - 1])]
Kept(l) == IF l = <<>> THEN NoEntry ELSE Entry(Moved(l)[Len(l)], KeptSamples(l))

(* No entry is newer than the last, which is not newer than t. *)
InOrder(l, t) ==
  l # <<>> => /\ \A k \in 1 .. Len(l) : l[k].at <= l[Len(l)].at
              /\ l[Len(l)].at <= t

TotalOf(l)   == IF l = <<>> THEN 0 ELSE Moved(l)[Len(l)]
SamplesOf(l) == IF l = <<>> THEN <<>> ELSE KeptSamples(l)

(* The entry of l that the first sample stands for when record appends to them. *)
From(l) == IF l = <<>> THEN 1 ELSE Oldest(l)

(* record: samples that are right for the log so far are, with the new one appended,
   the running totals of the longer log from the same entry on. *)
LEMMA AppendedSamples ==
  ASSUME NEW l \in Seq(Records), NEW t \in Nat, NEW b \in Nat
  PROVE  LET q == Append(l, Sample(t, b))
             s == Append(SamplesOf(l), Sample(t, TotalOf(l) + b))
         IN  /\ q \in Seq(Records) /\ q # <<>> /\ Len(q) = Len(l) + 1
             /\ TotalOf(l) + b = Moved(q)[Len(q)]
             /\ From(l) \in 1 .. Len(q)
             /\ s = [k \in 1 .. Len(q) - From(l) + 1 |->
                       Sample(q[From(l) + k - 1].at, Moved(q)[From(l) + k - 1])]
<1> DEFINE q == Append(l, Sample(t, b))
           total == TotalOf(l)
           samples == SamplesOf(l)
           s == Append(samples, Sample(t, total + b))
           o == From(l)
           m == Len(l)
<1>1. Sample(t, b) \in Records /\ Sample(t, b).at = t /\ Sample(t, b).bytes = b
  BY DEF Sample, Records
<1>2. q \in Seq(Records) /\ q # <<>> /\ Len(q) = m + 1 /\ m \in Nat /\ q[m + 1] = Sample(t, b)
  <2> DEFINE r == Sample(t, b)
  <2>1. r \in Records
    BY <1>1
  <2> HIDE DEF r
  <2>2. Append(l, r) \in Seq(Records) /\ Len(Append(l, r)) = m + 1 /\ m \in Nat
        /\ Append(l, r)[m + 1] = r
    BY <2>1
  <2>3. Append(l, r) # <<>>
    BY <2>2
  <2> QED  BY <2>2, <2>3 DEF r
<1>3. total = Moved(l)[m]
  BY MovedIsRunning DEF TotalOf
<1>4. total + b = Moved(q)[m + 1]
  BY <1>1, <1>3, MovedAppend
<1>5. o \in 1 .. m + 1 /\ (l # <<>> => o = Oldest(l) /\ o \in 1 .. m)
  BY OldestEntry DEF From, Window
<1>6. \A k \in 1 .. m : q[k] = l[k] /\ Moved(q)[k] = Moved(l)[k]
  BY <1>1, MovedAppend
<1>7. samples = [k \in 1 .. m - o + 1 |-> Sample(q[o + k - 1].at, Moved(q)[o + k - 1])]
  <2>1. CASE l = <<>>
    <3>1. m = 0 /\ o = 1 /\ samples = <<>>
      BY <2>1 DEF From, SamplesOf
    <3> HIDE DEF m, o, q
    <3>2. 1 .. m - o + 1 = {}
      BY <3>1
    <3> QED  BY <3>1, <3>2
  <2>2. CASE l # <<>>
    <3>1. samples = [k \in 1 .. m - o + 1 |-> Sample(l[o + k - 1].at, Moved(l)[o + k - 1])]
      BY <2>2, <1>5 DEF KeptSamples, SamplesOf
    <3>2. ASSUME NEW k \in 1 .. m - o + 1
          PROVE  Sample(q[o + k - 1].at, Moved(q)[o + k - 1])
                   = Sample(l[o + k - 1].at, Moved(l)[o + k - 1])
      <4>1. o + k - 1 \in 1 .. m
        <5> HIDE DEF o, m
        <5> QED  BY <1>2, <1>5
      <4> QED  BY <1>6, <4>1
    <3> HIDE DEF m, o, q
    <3> QED  BY <3>1, <3>2
  <2> QED  BY <2>1, <2>2
<1>8. s = [k \in 1 .. m + 1 - o + 1 |-> Sample(q[o + k - 1].at, Moved(q)[o + k - 1])]
  <2> DEFINE new == Sample(t, total + b)
  <2>1. new = Sample(q[m + 1].at, Moved(q)[m + 1])
    BY <1>1, <1>2, <1>4
  <2>2. m - o + 1 \in Nat /\ m + 1 - o + 1 = m - o + 1 + 1 /\ o + (m - o + 1 + 1) - 1 = m + 1
    <3> HIDE DEF m, o
    <3> QED  BY <1>2, <1>5
  <2> DEFINE S == {new} \cup {Sample(q[j].at, Moved(q)[j]) : j \in 1 .. m}
  <2>3. samples \in Seq(S) /\ Len(samples) = m - o + 1 /\ new \in S
    <3>1. ASSUME NEW k \in 1 .. m - o + 1 PROVE o + k - 1 \in 1 .. m
      <4> HIDE DEF o, m
      <4> QED  BY <1>2, <1>5
    <3> HIDE DEF q, o, m, new
    <3> QED  BY <1>7, <2>2, <3>1
  <2> HIDE DEF q, o, m, new, samples, total, S
  <2>4. Append(samples, new)
          = [k \in 1 .. m - o + 1 + 1 |-> IF k = m - o + 1 + 1 THEN new ELSE samples[k]]
    BY <2>3, AppendIsFunction
  <2>5. ASSUME NEW k \in 1 .. m - o + 1 + 1
        PROVE  (IF k = m - o + 1 + 1 THEN new ELSE samples[k])
                 = Sample(q[o + k - 1].at, Moved(q)[o + k - 1])
    <3>1. CASE k = m - o + 1 + 1
      BY <2>1, <2>2, <3>1
    <3>2. CASE k # m - o + 1 + 1
      <4>1. k \in 1 .. m - o + 1
        BY <2>2, <3>2
      <4> QED  BY <1>7, <3>2, <4>1
    <3> QED  BY <3>1, <3>2
  <2> QED  BY <2>2, <2>4, <2>5 DEF new
<1>9. /\ q \in Seq(Records) /\ q # <<>> /\ Len(q) = m + 1
      /\ total + b = Moved(q)[Len(q)] /\ o \in 1 .. Len(q)
      /\ s = [k \in 1 .. Len(q) - o + 1 |-> Sample(q[o + k - 1].at, Moved(q)[o + k - 1])]
  <2> HIDE DEF q, s, o, m
  <2> QED  BY <1>2, <1>4, <1>5, <1>8
<1> QED  BY <1>9, Zenon

(* prune cuts samples that stand for the entries of q from o on to the window of the
   newest one, if nothing before o is in that window. *)
LEMMA PrunedSamples ==
  ASSUME NEW q \in Seq(Records), q # <<>>, NEW o \in 1 .. Len(q), NEW s,
         s = [k \in 1 .. Len(q) - o + 1 |-> Sample(q[o + k - 1].at, Moved(q)[o + k - 1])],
         \A j \in Window(q) : o <= j
  PROVE  Prune(s, q[Len(q)].at) = KeptSamples(q)
<1> DEFINE m == Len(q)
           t == q[m].at
           fresh == {k \in DOMAIN s : s[k].at >= t - RateSampleWindow}
           S == {Sample(q[j].at, Moved(q)[j]) : j \in 1 .. m}
<1>0. m \in Nat \ {0} /\ \A j \in 1 .. m : q[j].at \in Nat
  <2>1. m \in Nat \ {0} /\ \A j \in 1 .. m : q[j] \in Records
    OBVIOUS
  <2> QED  BY <2>1 DEF Records
<1>1. s \in Seq(S) /\ Len(s) = m - o + 1 /\ DOMAIN s = 1 .. m - o + 1
  <2>1. m - o + 1 \in Nat
    BY <1>0
  <2>2. ASSUME NEW k \in 1 .. m - o + 1 PROVE o + k - 1 \in 1 .. m
    BY <1>0
  <2> DEFINE z == m - o + 1
  <2>3. \A k \in 1 .. z : s[k] \in S
    BY <2>2
  <2>4. z \in Nat /\ s \in [1 .. z -> S] /\ DOMAIN s = 1 .. z
    BY <2>1, <2>3
  <2> HIDE DEF z, S
  <2>5. s \in Seq(S) /\ Len(s) = z
    BY <2>4, SequenceFromFunction
  <2> QED  BY <2>4, <2>5 DEF z
<1>2. \A k \in 1 .. m - o + 1 : s[k].at = q[o + k - 1].at
  BY DEF Sample
<1>3. \A k \in fresh : o + k - 1 \in Window(q)
  <2> SUFFICES ASSUME NEW k \in fresh PROVE o + k - 1 \in Window(q)
    OBVIOUS
  <2>1. k \in 1 .. m - o + 1 /\ o + k - 1 \in 1 .. m
    BY <1>0, <1>1
  <2>2. q[o + k - 1].at >= t - RateSampleWindow
    BY <1>2, <2>1
  <2> QED  BY <2>1, <2>2 DEF Window
<1>4. \A j \in Window(q) : j - o + 1 \in fresh
  <2> SUFFICES ASSUME NEW j \in Window(q) PROVE j - o + 1 \in fresh
    OBVIOUS
  <2>1. j \in 1 .. m /\ q[j].at >= t - RateSampleWindow /\ o <= j
    BY DEF Window
  <2>2. j - o + 1 \in 1 .. m - o + 1 /\ o + (j - o + 1) - 1 = j
    BY <1>0, <2>1
  <2>3. s[j - o + 1].at = q[j].at
    BY <1>2, <2>2
  <2> QED  BY <1>1, <2>1, <2>2, <2>3
<1>5. fresh \in SUBSET Nat /\ fresh # {}
  <2>1. Len(q) \in Window(q)
    BY OldestEntry
  <2>2. fresh \subseteq 1 .. m - o + 1
    BY <1>1
  <2> HIDE DEF fresh
  <2> QED  BY <1>4, <2>1, <2>2
<1> DEFINE first == CHOOSE k \in fresh : \A j \in fresh : k <= j
<1>6. first \in fresh /\ \A j \in fresh : first <= j
  <2> HIDE DEF fresh
  <2>1. \E k \in fresh : \A j \in fresh : k <= j
    BY <1>5, Least, Zenon
  <2> QED  BY <2>1, Zenon
<1>7. Prune(s, t) = SubSeq(s, first, Len(s))
  BY <1>5 DEF Prune
<1>8. first \in 1 .. m - o + 1
  BY <1>1, <1>6
<1> HIDE DEF fresh, first
<1>9. Oldest(q) = o + first - 1
  <2>1. o + first - 1 \in Window(q)
    BY <1>3, <1>6
  <2>2. ASSUME NEW j \in Window(q) PROVE o + first - 1 <= j
    <3>1. first <= j - o + 1
      BY <1>4, <1>6
    <3>2. j \in Nat
      BY DEF Window
    <3> QED  BY <1>8, <3>1, <3>2
  <2> QED  BY <2>1, <2>2, OldestIsUnique
<1> DEFINE z == m - o + 1
<1> HIDE DEF z, S
<1>10. SubSeq(s, first, Len(s)) = [k \in 1 .. z - first + 1 |-> s[first + k - 1]]
  <2>1. s \in Seq(S) /\ Len(s) = z /\ first \in 1 .. z
    BY <1>1, <1>8 DEF z
  <2> QED  BY <2>1, SuffixIsFunction
<1>11. z - first + 1 = m - Oldest(q) + 1
  BY <1>0, <1>8, <1>9 DEF z
<1>12. ASSUME NEW k \in 1 .. m - Oldest(q) + 1
       PROVE  s[first + k - 1] = Sample(q[Oldest(q) + k - 1].at, Moved(q)[Oldest(q) + k - 1])
  <2>1. first + k - 1 \in 1 .. m - o + 1 /\ o + (first + k - 1) - 1 = Oldest(q) + k - 1
    BY <1>0, <1>8, <1>9
  <2> QED  BY <2>1
<1> QED  BY <1>7, <1>10, <1>11, <1>12 DEF KeptSamples

(* record keeps of the longer log what it is meant to keep. *)
LEMMA RecordKeeps ==
  ASSUME NEW l \in Seq(Records), NEW t \in Nat, NEW b \in Nat, InOrder(l, t)
  PROVE  LET q == Append(l, Sample(t, b)) IN
         /\ Entry(TotalOf(l) + b, Prune(Append(SamplesOf(l), Sample(t, TotalOf(l) + b)), t))
              = Kept(q)
         /\ q \in Seq(Records) /\ InOrder(q, t)
<1> DEFINE q == Append(l, Sample(t, b))
           total == TotalOf(l)
           samples == SamplesOf(l)
           s == Append(samples, Sample(t, total + b))
           o == From(l)
<1>1. /\ q \in Seq(Records) /\ q # <<>> /\ Len(q) = Len(l) + 1
      /\ total + b = Moved(q)[Len(q)]
      /\ o \in 1 .. Len(q)
      /\ s = [k \in 1 .. Len(q) - o + 1 |-> Sample(q[o + k - 1].at, Moved(q)[o + k - 1])]
  BY AppendedSamples
<1>2. q[Len(l) + 1] = Sample(t, b) /\ q[Len(q)].at = t /\ Len(l) \in Nat
  <2>1. q[Len(l) + 1] = Sample(t, b) /\ Len(l) \in Nat
    OBVIOUS
  <2> QED  BY <1>1, <2>1 DEF Sample
<1>3. \A k \in 1 .. Len(l) : q[k] = l[k]
  OBVIOUS
<1>4. \A k \in 1 .. Len(l) : l[k].at \in Nat /\ l[k].at <= l[Len(l)].at /\ l[Len(l)].at <= t
                             /\ l[Len(l)].at \in Nat /\ l # <<>>
  <2>1. \A k \in 1 .. Len(l) : l[k] \in Records /\ l[Len(l)] \in Records /\ l # <<>>
    OBVIOUS
  <2> QED  BY <2>1 DEF InOrder, Records
<1> HIDE DEF q
<1>5. \A j \in Window(q) : o <= j
  <2> SUFFICES ASSUME NEW j \in Window(q) PROVE o <= j
    OBVIOUS
  <2>1. j \in 1 .. Len(q) /\ q[j].at >= t - RateSampleWindow
    BY <1>2 DEF Window
  <2>2. CASE j = Len(l) + 1
    BY <1>1, <2>2
  <2>3. CASE j \in 1 .. Len(l)
    <3>1. l[j].at >= l[Len(l)].at - RateSampleWindow
      BY <1>3, <1>4, <2>1, <2>3, RatesAssumption
    <3>2. j \in Window(l)
      BY <2>3, <3>1 DEF Window
    <3> QED  BY <1>4, <2>3, <3>2, OldestEntry DEF From
  <2> QED  BY <1>1, <1>2, <2>1, <2>2, <2>3
<1>6. Prune(s, t) = KeptSamples(q)
  <2> HIDE DEF s, o
  <2> QED  BY <1>1, <1>2, <1>5, PrunedSamples
<1>7. InOrder(q, t)
  <2>1. ASSUME NEW k \in 1 .. Len(q) PROVE q[k].at <= t
    <3>1. CASE k = Len(l) + 1
      BY <1>1, <1>2, <3>1
    <3>2. CASE k \in 1 .. Len(l)
      BY <1>3, <1>4, <3>2
    <3> QED  BY <1>1, <1>2, <3>1, <3>2
  <2> QED  BY <1>2, <2>1 DEF InOrder
<1>8. Entry(total + b, Prune(s, t)) = Kept(q)
  BY <1>1, <1>6 DEF Kept
<1> QED  BY <1>1, <1>7, <1>8 DEF q

-----------------------------------------------------------------------------
(* The tracker's entries *)

RateTypes ==
  /\ now \in Nat
  /\ stage \in [Conn -> {"out", "loading", "swapping", "counted", "joined", "left"}]
  /\ rates = [a \in Addr |-> rates[a]]
  /\ handling = Idle \/ \E c \in Conn : handling \in {PeerJoined(c), PeerLeft(c)}
  /\ log \in [Conn -> Seq(Records)]

(* A connection is joined from the moment the coordinator receives its PeerJoined
   to the moment it receives its PeerLeft. *)
EventsMatch ==
  \A c \in Conn : /\ handling = PeerJoined(c) => stage[c] = "joined"
                  /\ handling = PeerLeft(c) => stage[c] # "joined"

(* An address with nobody joined: nothing is registered and no entry is left,
   unless that is what the coordinator is about to see to. *)
Vacant(a) ==
  \/ rates[a] = NoEntry /\ a \notin peers /\ \A d \in At(a) : handling # PeerLeft(d)
  \/ a \in peers /\ \E d \in At(a) : handling = PeerLeft(d)

(* An address with one connection, c: it has the entry c's log deserves and is
   registered, unless that is what the coordinator is about to see to. *)
Occupied(a, c) ==
  /\ Joined(a) = {c}
  /\ rates[a] = Kept(log[c])
  /\ a \in peers <=> handling # PeerJoined(c)
  /\ \A d \in At(a) : handling # PeerLeft(d)

(* An address that is not mixed is in one of these two states. *)
Clean(a) ==
  \/ Joined(a) = {} /\ Vacant(a)
  \/ \E c \in At(a) : Occupied(a, c)

(* The entry of a clean address is that of its one connection.  This holds when it
   joins only if the entry of an earlier one is gone by then, and that one is gone
   only if the address was registered when its PeerLeft came. *)
RateInv ==
  /\ RateTypes /\ EventsMatch
  /\ \A c \in Conn : InOrder(log[c], now)
  /\ \A c \in Conn : stage[c] \notin {"joined", "left"} => log[c] = <<>>
  /\ \A a \in Addr \ mixed : Clean(a)

(* An empty log is in order, and nothing is kept of it. *)
LEMMA EmptyLog ==
  /\ <<>> \in Seq(Records) /\ Kept(<<>>) = NoEntry
  /\ \A t : InOrder(<<>>, t)
<1>1. <<>> \in Seq(Records)
  OBVIOUS
<1> QED  BY <1>1 DEF Kept, InOrder

(* The events are told apart by their kind and their connection. *)
LEMMA EventsDiffer ==
  /\ \A c : Idle # PeerJoined(c) /\ Idle # PeerLeft(c)
  /\ \A c, d : PeerJoined(c) # PeerLeft(d)
  /\ \A c, d : PeerJoined(c) = PeerJoined(d) => c = d
  /\ \A c, d : PeerLeft(c) = PeerLeft(d) => c = d
<1>1. Idle.event = "none"
  BY DEF Idle
<1>2. \A c : PeerJoined(c).event = "joined" /\ PeerJoined(c).conn = c
  BY DEF PeerJoined
<1>3. \A c : PeerLeft(c).event = "left" /\ PeerLeft(c).conn = c
  BY DEF PeerLeft
<1> QED  BY <1>1, <1>2, <1>3

(* A step that touches neither the entry of a, nor its registration, nor which of
   its connections are joined and what they recorded, nor whose event is handled
   leaves a as clean as it was. *)
LEMMA ElsewhereKeepsClean ==
  ASSUME NEW a \in Addr, Clean(a),
         rates'[a] = rates[a], a \in peers' <=> a \in peers,
         \A c \in At(a) : /\ stage'[c] = "joined" <=> stage[c] = "joined"
                          /\ log'[c] = log[c] \/ stage[c] # "joined"
                          /\ handling' = PeerJoined(c) <=> handling = PeerJoined(c)
                          /\ handling' = PeerLeft(c) <=> handling = PeerLeft(c)
  PROVE  Clean(a)'
<1>1. At(a)' = At(a) /\ Joined(a)' = Joined(a)
  BY DEF At, Joined
<1>2. Vacant(a) => Vacant(a)'
  BY <1>1 DEF Vacant
<1>3. ASSUME NEW c \in At(a), Occupied(a, c)  PROVE Occupied(a, c)'
  <2>1. stage[c] = "joined"
    BY <1>3 DEF Occupied, Joined
  <2> QED  BY <1>1, <1>3, <2>1 DEF Occupied
<1> QED  BY <1>1, <1>2, <1>3 DEF Clean

(* PeerConnected and its loop: nothing of the tracker moves. *)
LEMMA CountingKeepsRates ==
  ASSUME RateInv, NEW c \in Conn, PeerConnected(c) \/ LoadPeak(c) \/ CompareAndSwap(c)
  PROVE  RateInv'
<1>1. /\ UNCHANGED <<now, rates, peers, handling, log, mixed>>
      /\ stage[c] \notin {"joined", "left"}
      /\ \E to \in {"loading", "swapping", "counted"} : stage' = [stage EXCEPT ![c] = to]
  BY DEF PeerConnected, LoadPeak, CompareAndSwap, Move, rateVars
<1>2. /\ stage'[c] \notin {"joined", "left"}
      /\ \A d \in Conn \ {c} : stage'[d] = stage[d]
      /\ RateTypes'
  BY <1>1 DEF RateInv, RateTypes
<1>3. EventsMatch'
  BY <1>1, <1>2 DEF RateInv, EventsMatch
<1>4. \A d \in Conn : stage'[d] = "joined" <=> stage[d] = "joined"
  BY <1>1, <1>2
<1>5. ASSUME NEW a \in Addr \ mixed'  PROVE Clean(a)'
  BY <1>1, <1>4, ElsewhereKeepsClean DEF RateInv, At
<1> QED  BY <1>1, <1>2, <1>3, <1>5 DEF RateInv

(* PeerDisconnected: with the connection its log is gone. *)
LEMMA CountedOutKeepsRates ==
  ASSUME RateInv, NEW c \in Conn, PeerDisconnected(c)
  PROVE  RateInv'
<1>1. /\ UNCHANGED <<now, rates, peers, handling, mixed>>
      /\ stage[c] = "left" /\ stage' = [stage EXCEPT ![c] = "out"]
      /\ log' = [log EXCEPT ![c] = <<>>]
  BY DEF PeerDisconnected, Move
<1>2. /\ stage'[c] = "out" /\ log'[c] = <<>>
      /\ \A d \in Conn \ {c} : stage'[d] = stage[d] /\ log'[d] = log[d]
      /\ RateTypes'
  BY <1>1, EmptyLog DEF RateInv, RateTypes
<1>3. InOrder(log'[c], now)
  BY <1>2, EmptyLog
<1>4. EventsMatch'
  BY <1>1, <1>2 DEF RateInv, EventsMatch
<1>5. \A d \in Conn : /\ stage'[d] = "joined" <=> stage[d] = "joined"
                      /\ log'[d] = log[d] \/ stage[d] # "joined"
  BY <1>1, <1>2
<1>6. ASSUME NEW a \in Addr \ mixed'  PROVE Clean(a)'
  BY <1>1, <1>5, ElsewhereKeepsClean DEF RateInv, At
<1> QED  BY <1>1, <1>2, <1>3, <1>4, <1>6 DEF RateInv

(* PeerJoined is received between two handlers, so no old entry is left, and
   whoever finds somebody else joined at its address makes the address mixed. *)
LEMMA JoinKeepsRates ==
  ASSUME RateInv, NEW c \in Conn, Join(c)
  PROVE  RateInv'
<1> DEFINE b == ConnAddr[c]
<1>1. /\ UNCHANGED <<now, rates, peers, log>> /\ handling = Idle /\ handling' = PeerJoined(c)
      /\ stage[c] = "counted" /\ stage' = [stage EXCEPT ![c] = "joined"]
      /\ mixed \subseteq mixed' /\ (Joined(b) # {} => b \in mixed')
  BY DEF Join, Move
<1>2. /\ stage'[c] = "joined" /\ \A d \in Conn \ {c} : stage'[d] = stage[d]
      /\ RateTypes'
  BY <1>1 DEF RateInv, RateTypes
<1>3. EventsMatch'
  BY <1>1, <1>2, EventsDiffer DEF RateInv, EventsMatch
<1>4. ASSUME NEW a \in Addr \ mixed', a # b  PROVE Clean(a)'
  <2>1. \A d \in At(a) : d # c
    BY <1>4 DEF At
  <2> QED  BY <1>1, <1>2, <2>1, EventsDiffer, ElsewhereKeepsClean DEF RateInv, At
<1>5. ASSUME b \notin mixed', b \in Addr  PROVE Clean(b)'
  <2>1. Joined(b) = {} /\ Clean(b) /\ c \in At(b)
    BY <1>1, <1>5 DEF RateInv, At
  <2>2. rates[b] = NoEntry /\ b \notin peers
    BY <1>1, <2>1, EventsDiffer DEF Clean, Vacant, Occupied
  <2>3. Joined(b)' = {c}
    BY <1>2, <2>1 DEF Joined, At
  <2>4. log[c] = <<>>
    BY <1>1 DEF RateInv
  <2>5. Occupied(b, c)'
    BY <1>1, <2>2, <2>3, <2>4, EmptyLog, EventsDiffer DEF Occupied
  <2> QED  BY <2>1, <2>5 DEF Clean, At
<1>6. log[c] = <<>> /\ \A a \in Addr \ mixed' : Clean(a)'
  BY <1>1, <1>4, <1>5 DEF RateInv
<1> QED  BY <1>1, <1>2, <1>3, <1>6 DEF RateInv

(* The handler of PeerJoined registers the address, and removes nothing of a clean
   one: it replaces nobody there. *)
LEMMA RegisterKeepsRates ==
  ASSUME RateInv, HandlePeerJoined
  PROVE  RateInv'
<1>1. PICK c \in Conn : handling = PeerJoined(c)
  BY DEF HandlePeerJoined, RateInv, RateTypes, Idle, PeerLeft
<1> DEFINE b == ConnAddr[c]
<1>2. /\ UNCHANGED <<now, stage, log, mixed>> /\ handling' = Idle
      /\ rates' = [rates EXCEPT ![b] = IF b \in peers THEN NoEntry ELSE @]
      /\ peers' = peers \cup {b}
  BY <1>1 DEF HandlePeerJoined, PeerJoined
<1>3. b \in Addr /\ c \in At(b) /\ stage[c] = "joined"
  BY <1>1, RatesAssumption DEF RateInv, EventsMatch, At
<1>4. \A a \in Addr : a # b \/ b \notin peers => rates'[a] = rates[a]
  BY <1>2 DEF RateInv, RateTypes
<1>5. RateTypes'
  <2>1. rates' = [a \in Addr |-> rates'[a]]
    BY <1>2 DEF RateInv, RateTypes
  <2> QED  BY <1>2, <2>1 DEF RateInv, RateTypes
<1>6. EventsMatch'
  BY <1>2, EventsDiffer DEF EventsMatch
<1>7. ASSUME NEW a \in Addr \ mixed', a # b  PROVE Clean(a)'
  <2>1. \A d \in At(a) : d # c
    BY <1>7 DEF At
  <2> QED  BY <1>1, <1>2, <1>4, <1>7, <2>1, EventsDiffer, ElsewhereKeepsClean DEF RateInv
<1>8. ASSUME b \notin mixed'  PROVE Clean(b)'
  <2>1. PICK d \in At(b) : Occupied(b, d)
    BY <1>2, <1>3, <1>8 DEF RateInv, Clean, Joined
  <2>2. d = c
    BY <1>3, <2>1 DEF Occupied, Joined
  <2>3. b \notin peers /\ rates[b] = Kept(log[c]) /\ Joined(b) = {c}
    BY <1>1, <2>1, <2>2 DEF Occupied
  <2>4. rates'[b] = rates[b] /\ b \in peers' /\ Joined(b)' = Joined(b) /\ At(b)' = At(b)
    BY <1>2, <1>3, <1>4, <2>3 DEF Joined, At
  <2>5. Occupied(b, c)'
    BY <1>2, <2>3, <2>4, EventsDiffer DEF Occupied
  <2> QED  BY <1>3, <2>4, <2>5 DEF Clean
<1> QED  BY <1>2, <1>5, <1>6, <1>7, <1>8 DEF RateInv

(* PeerLeft: the coordinator is about to remove the entry of a clean address, which
   is registered. *)
LEMMA LeaveKeepsRates ==
  ASSUME RateInv, NEW c \in Conn, Leave(c)
  PROVE  RateInv'
<1> DEFINE b == ConnAddr[c]
<1>1. /\ UNCHANGED <<now, rates, peers, log, mixed>> /\ handling = Idle
      /\ handling' = PeerLeft(c)
      /\ stage[c] = "joined" /\ stage' = [stage EXCEPT ![c] = "left"]
  BY DEF Leave, Move
<1>2. /\ stage'[c] = "left" /\ \A d \in Conn \ {c} : stage'[d] = stage[d]
      /\ RateTypes'
  BY <1>1 DEF RateInv, RateTypes
<1>3. EventsMatch'
  BY <1>1, <1>2, EventsDiffer DEF EventsMatch
<1>4. ASSUME NEW a \in Addr \ mixed', a # b  PROVE Clean(a)'
  <2>1. \A d \in At(a) : d # c
    BY <1>4 DEF At
  <2> QED  BY <1>1, <1>2, <1>4, <2>1, EventsDiffer, ElsewhereKeepsClean DEF RateInv, At
<1>5. ASSUME b \notin mixed', b \in Addr  PROVE Clean(b)'
  <2>1. c \in At(b) /\ c \in Joined(b)
    BY <1>1 DEF Joined, At
  <2>2. PICK d \in At(b) : Occupied(b, d)
    BY <1>1, <1>5, <2>1 DEF RateInv, Clean
  <2>3. Joined(b) = {c} /\ b \in peers
    BY <1>1, <2>1, <2>2, EventsDiffer DEF Occupied
  <2>4. Joined(b)' = {} /\ At(b)' = At(b)
    BY <1>2, <2>3 DEF Joined, At
  <2>5. Vacant(b)'
    BY <1>1, <2>1, <2>3, <2>4 DEF Vacant
  <2> QED  BY <2>4, <2>5 DEF Clean
<1>6. \A a \in Addr \ mixed' : Clean(a)'
  BY <1>4, <1>5
<1> QED  BY <1>1, <1>2, <1>3, <1>6 DEF RateInv

(* The handler of PeerLeft.  At a clean address it removes the entry; at a mixed one
   it makes the address clean if it removes an entry and nobody is joined any more. *)
LEMMA RemoveKeepsRates ==
  ASSUME RateInv, HandlePeerLeft
  PROVE  RateInv'
<1>1. PICK c \in Conn : handling = PeerLeft(c)
  BY DEF HandlePeerLeft, RateInv, RateTypes, Idle, PeerJoined
<1> DEFINE b == ConnAddr[c]
<1>2. /\ UNCHANGED <<now, stage, log>> /\ handling' = Idle
      /\ \/ /\ b \in peers /\ rates' = [rates EXCEPT ![b] = NoEntry] /\ peers' = peers \ {b}
            /\ mixed' = mixed \ {a \in {b} : Joined(a) = {}}
         \/ b \notin peers /\ UNCHANGED <<rates, peers, mixed>>
  BY <1>1 DEF HandlePeerLeft, PeerLeft
<1>3. b \in Addr /\ c \in At(b)
  BY <1>1, RatesAssumption DEF At
<1>4. /\ \A a \in Addr : a # b => rates'[a] = rates[a] /\ (a \in peers' <=> a \in peers)
                                /\ (a \in mixed' <=> a \in mixed)
      /\ b \in peers => rates'[b] = NoEntry /\ b \notin peers'
  BY <1>2, <1>3 DEF RateInv, RateTypes
<1>5. RateTypes'
  <2>1. rates' = [a \in Addr |-> rates'[a]]
    BY <1>2 DEF RateInv, RateTypes
  <2> QED  BY <1>2, <2>1 DEF RateInv, RateTypes
<1>6. EventsMatch'
  BY <1>2, EventsDiffer DEF EventsMatch
<1>7. ASSUME NEW a \in Addr \ mixed', a # b  PROVE Clean(a)'
  <2>1. \A d \in At(a) : d # c
    BY <1>7 DEF At
  <2>2. Clean(a)
    BY <1>4, <1>7 DEF RateInv
  <2> QED  BY <1>1, <1>2, <1>4, <1>7, <2>1, <2>2, EventsDiffer, ElsewhereKeepsClean
<1>8. ASSUME b \notin mixed'  PROVE Clean(b)'
  <2>1. b \in peers /\ Joined(b) = {}
    <3>1. CASE b \in mixed
      BY <1>2, <1>8, <3>1
    <3>2. CASE b \notin mixed
      BY <1>1, <1>3, <3>2 DEF RateInv, Clean, Vacant, Occupied
    <3> QED  BY <3>1, <3>2
  <2>2. rates'[b] = NoEntry /\ b \notin peers' /\ Joined(b)' = {} /\ At(b)' = At(b)
    BY <1>2, <1>4, <2>1 DEF Joined, At
  <2>3. Vacant(b)'
    BY <1>2, <2>2, EventsDiffer DEF Vacant
  <2> QED  BY <2>2, <2>3 DEF Clean
<1> QED  BY <1>2, <1>5, <1>6, <1>7, <1>8 DEF RateInv

(* The clock moves on. *)
LEMMA ElapseKeepsRates ==
  ASSUME RateInv, Elapse \/ UNCHANGED vars
  PROVE  RateInv'
<1>1. UNCHANGED <<stage, rates, peers, handling, log, mixed>> /\ now' \in {now, now + 1}
  BY DEF Elapse, vars, rateVars
<1>2. RateTypes' /\ now <= now' /\ now \in Nat /\ now' \in Nat
  BY <1>1 DEF RateInv, RateTypes
<1>3. ASSUME NEW c \in Conn  PROVE InOrder(log[c], now')
  <2>1. log[c] \in Seq(Records) /\ InOrder(log[c], now)
    BY DEF RateInv, RateTypes
  <2>2. ASSUME log[c] # <<>> PROVE log[c][Len(log[c])].at \in Nat
    <3>1. log[c][Len(log[c])] \in Records
      BY <2>1, <2>2
    <3> QED  BY <3>1 DEF Records
  <2> QED  BY <1>2, <2>1, <2>2 DEF InOrder
<1>4. EventsMatch'
  BY <1>1 DEF RateInv, EventsMatch
<1>5. ASSUME NEW a \in Addr \ mixed'  PROVE Clean(a)'
  BY <1>1, ElsewhereKeepsClean DEF RateInv
<1> QED  BY <1>1, <1>2, <1>3, <1>4, <1>5 DEF RateInv

(* record: at a clean address total, samples and the log of its one connection move
   together. *)
LEMMA RecordKeepsRates ==
  ASSUME RateInv, NEW c \in Conn, NEW bytes \in Amounts, Record(c, bytes)
  PROVE  RateInv'
<1> DEFINE b == ConnAddr[c]
           l == log[c]
           q == Append(l, Sample(now, bytes))
<1>1. /\ stage[c] = "joined" /\ UNCHANGED <<now, stage, peers, handling, mixed>>
      /\ log' = [log EXCEPT ![c] = q]
      /\ rates' = [rates EXCEPT ![b] =
                     Entry(Total(b) + bytes,
                           Prune(Append(Samples(b), Sample(now, Total(b) + bytes)), now))]
  BY DEF Record, Sample
<1>2. /\ l \in Seq(Records) /\ InOrder(l, now) /\ now \in Nat /\ bytes \in Nat
      /\ b \in Addr /\ c \in At(b)
  BY RatesAssumption DEF RateInv, RateTypes, At
<1>3. /\ Entry(TotalOf(l) + bytes, Prune(Append(SamplesOf(l), Sample(now, TotalOf(l) + bytes)), now))
           = Kept(q)
      /\ q \in Seq(Records) /\ InOrder(q, now)
  BY <1>2, RecordKeeps
<1> HIDE DEF q
<1>4. /\ log'[c] = q /\ \A d \in Conn \ {c} : log'[d] = log[d]
      /\ \A a \in Addr \ {b} : rates'[a] = rates[a]
      /\ RateTypes'
  <2>1. rates' = [a \in Addr |-> rates'[a]]
    BY <1>1 DEF RateInv, RateTypes
  <2> QED  BY <1>1, <1>2, <1>3, <2>1 DEF RateInv, RateTypes
<1>5. EventsMatch'
  BY <1>1 DEF RateInv, EventsMatch
<1>6. ASSUME NEW a \in Addr \ mixed', a # b  PROVE Clean(a)'
  <2>1. \A d \in At(a) : d # c /\ d \in Conn
    BY <1>6 DEF At
  <2> QED  BY <1>1, <1>4, <1>6, <2>1, ElsewhereKeepsClean DEF RateInv
<1>7. ASSUME b \notin mixed'  PROVE Clean(b)'
  <2>1. PICK d \in At(b) : Occupied(b, d)
    BY <1>1, <1>2, <1>7 DEF RateInv, Clean, Joined
  <2>2. d = c
    BY <1>1, <1>2, <2>1 DEF Occupied, Joined
  <2>3. rates[b] = Kept(l)
    BY <2>1, <2>2 DEF Occupied
  <2>4. Total(b) = TotalOf(l) /\ Samples(b) = SamplesOf(l)
    <3> HIDE DEF l, b
    <3> QED  BY <2>3 DEF Total, Samples, TotalOf, SamplesOf, Kept, Entry, NoEntry
  <2>5. rates'[b] = Kept(q)
    BY <1>1, <1>2, <1>3, <2>4 DEF RateInv, RateTypes
  <2>6. Joined(b)' = Joined(b) /\ At(b)' = At(b)
    BY <1>1 DEF Joined, At
  <2>7. Occupied(b, c)'
    BY <1>1, <1>4, <2>1, <2>2, <2>5, <2>6 DEF Occupied
  <2> QED  BY <1>2, <2>6, <2>7 DEF Clean
<1> QED  BY <1>1, <1>3, <1>4, <1>5, <1>6, <1>7 DEF RateInv

(* The invariant of the rate tracker. *)
LEMMA RateInvariant == Spec => []RateInv
<1>1. Init => RateInv
  <2> SUFFICES ASSUME Init PROVE RateInv
    OBVIOUS
  <2>1. RateTypes
    BY EmptyLog DEF Init, RateTypes
  <2>2. EventsMatch
    BY EventsDiffer DEF Init, EventsMatch
  <2>3. ASSUME NEW a \in Addr PROVE Clean(a)
    <3>1. Joined(a) = {}
      BY DEF Init, Joined, At
    <3>2. Vacant(a)
      BY EventsDiffer DEF Init, Vacant
    <3> QED  BY <3>1, <3>2 DEF Clean
  <2>4. \A c \in Conn : log[c] = <<>> /\ InOrder(log[c], now)
    BY EmptyLog DEF Init
  <2> QED  BY <2>1, <2>2, <2>3, <2>4 DEF RateInv
<1>2. RateInv /\ [Next]_vars => RateInv'
  BY CountingKeepsRates, CountedOutKeepsRates, JoinKeepsRates, RegisterKeepsRates,
     LeaveKeepsRates, RemoveKeepsRates, ElapseKeepsRates, RecordKeepsRates DEF Next
<1> QED  BY <1>1, <1>2, PTL DEF Spec

(* The rate of a joined connection is made of the bytes it moved after the oldest
   record of its last window, over the time between these records, and is zero once
   it was silent for a window, whatever came from this address before, as long as
   no two connections share the address (rates.go, coordinator.go). *)
THEOREM RatesAreExact == Spec => []RateIsExact
<1>1. RateInv => RateIsExact
  <2> SUFFICES ASSUME RateInv, NEW c \in Conn, stage[c] = "joined", ConnAddr[c] \notin mixed
               PROVE  LET l == log[c]
                          m == Len(l)
                          rate == Rate(ConnAddr[c])
                      IN
                      \/ /\ rate.bytes = 0
                         /\ \/ l = <<>>
                            \/ l[m].at < now - RateSampleWindow
                            \/ l[m].at = l[Oldest(l)].at
                      \/ /\ l[m].at >= now - RateSampleWindow
                         /\ rate = [bytes   |-> Moved(l)[m] - Moved(l)[Oldest(l)],
                                    elapsed |-> l[m].at - l[Oldest(l)].at]
    BY DEF RateIsExact
  <2> DEFINE a == ConnAddr[c]
             l == log[c]
             m == Len(l)
             o == Oldest(l)
             s == KeptSamples(l)
  <2>1. l \in Seq(Records) /\ InOrder(l, now) /\ rates[a] = Kept(l) /\ now \in Nat
    <3>1. a \in Addr /\ c \in Joined(a)
      BY RatesAssumption DEF At, Joined
    <3>2. PICK d \in At(a) : Occupied(a, d)
      BY <3>1 DEF RateInv, Clean
    <3>3. rates[a] = Kept(l)
      BY <3>1, <3>2 DEF Occupied
    <3> QED  BY <3>3 DEF RateInv, RateTypes
  <2> HIDE DEF a
  <2>2. CASE l = <<>>
    <3>1. Samples(a) = <<>>
      BY <2>1, <2>2 DEF Samples, Kept, NoEntry
    <3>2. Rate(a).bytes = 0
      BY <3>1 DEF Rate
    <3> QED  BY <2>2, <3>2 DEF a
  <2>3. CASE l # <<>>
    <3>1. Samples(a) = s
      BY <2>1, <2>3 DEF Samples, Kept, Entry
    <3>2. m \in Nat /\ o \in 1 .. m
      BY <2>1, <2>3, OldestEntry DEF Window
    <3>3. l[m].at \in Nat /\ l[o].at \in Nat /\ l[o].at <= l[m].at
      <4>1. l[m] \in Records /\ l[o] \in Records
        BY <2>1, <2>3, <3>2
      <4> QED  BY <2>1, <2>3, <3>2, <4>1 DEF InOrder, Records
    <3>4. /\ Len(s) = m - o + 1
          /\ s[1] = Sample(l[o].at, Moved(l)[o])
          /\ s[m - o + 1] = Sample(l[m].at, Moved(l)[m])
      <4> HIDE DEF l, m, o
      <4>1. s = [k \in 1 .. m - o + 1 |-> Sample(l[o + k - 1].at, Moved(l)[o + k - 1])]
        BY DEF KeptSamples, m, o
      <4>2. m - o + 1 \in Nat /\ 1 \in 1 .. m - o + 1 /\ m - o + 1 \in 1 .. m - o + 1
            /\ o + 1 - 1 = o /\ o + (m - o + 1) - 1 = m
        BY <3>2
      <4> HIDE DEF s
      <4>3. DOMAIN s = 1 .. m - o + 1 /\ Len(s) = m - o + 1
        BY <4>1, <4>2
      <4> QED  BY <4>1, <4>2, <4>3
    <3> HIDE DEF l, m, o, s
    <3>5. /\ s[Len(s)].bytes = Moved(l)[m] /\ s[Len(s)].at = l[m].at
          /\ s[1].bytes = Moved(l)[o] /\ s[1].at = l[o].at
      BY <3>4 DEF Sample
    <3>6. CASE l[m].at < now - RateSampleWindow
      <4>1. Stale(s)
        BY <2>1, <3>3, <3>5, <3>6, RatesAssumption DEF Stale
      <4>2. Rate(a).bytes = 0
        BY <3>1, <4>1 DEF Rate
      <4> QED  BY <3>6, <4>2 DEF a, l, m
    <3>7. CASE l[m].at >= now - RateSampleWindow /\ l[m].at = l[o].at
      <4>1. s[Len(s)].at - s[1].at <= 0
        BY <3>3, <3>5, <3>7
      <4>2. Rate(a).bytes = 0
        BY <3>1, <4>1 DEF Rate
      <4> QED  BY <3>7, <4>2 DEF a, l, m, o
    <3>8. CASE l[m].at >= now - RateSampleWindow /\ l[m].at # l[o].at
      <4>1. ~Stale(s) /\ ~(s[Len(s)].at - s[1].at <= 0)
        BY <2>1, <3>3, <3>5, <3>8, RatesAssumption DEF Stale
      <4>2. ~(Len(s) < 2)
        BY <3>2, <3>4, <3>8
      <4>3. Rate(a) = [bytes |-> s[Len(s)].bytes - s[1].bytes,
                       elapsed |-> s[Len(s)].at - s[1].at]
        BY <3>1, <4>1, <4>2 DEF Rate
      <4> QED  BY <3>5, <3>8, <4>3 DEF a, l, m, o
    <3> QED  BY <2>1, <3>3, <3>6, <3>7, <3>8, RatesAssumption
  <2> QED  BY <2>2, <2>3
<1> QED  BY <1>1, RateInvariant, PTL

=============================================================================
