-------------------------- MODULE Announce_proofs ---------------------------
(***************************************************************************)
(* What is proved of the announces and the workers they start, for any     *)
(* number of peers, trackers, slots and pieces.                            *)
(***************************************************************************)
EXTENDS Announce, FiniteSetTheorems, SequenceTheorems, WellFoundedInduction, TLAPS

Alive(p)  == worker[p] \in {"dialing", "running", "released"}
ActiveSet == {p \in Peer : Active(p)}
AliveSet  == {p \in Peer : Alive(p)}

(* Both counters are exact, and a worker is started only for an address that has
   none: connected covers every worker there ever was. *)
WorkersInv ==
  /\ sem = Cardinality(ActiveSet)
  /\ wg = Cardinality(AliveSet)
  /\ \A p \in Peer : worker[p] # "none" => p \in connected

(* Nothing but the wait is over once it is over: the loop, whose announces start
   workers, is not entered again before Download stops. *)
WaitInv ==
  /\ waited => loop \in {"stop", "returned"}
  /\ loop = "stop" /\ waited => wg = 0

(* What was announced, for each place Download can be at.  "completed" is
   announced when the count of pieces is reached, which the count then passes. *)
EventsInv ==
  /\ loop = "begin" => events = <<>> /\ ~started
  /\ loop \in {"select", "wait", "stop"} =>
       /\ started
       /\ events \in {<<"started">>, <<"started", "completed">>}
       /\ events = <<"started", "completed">> => completed >= PieceCount
  /\ loop = "returned" =>
       \/ ~started /\ events = <<"started">>
       \/ started /\ events \in {<<"started", "stopped">>,
                                 <<"started", "completed", "stopped">>}

Inv == TypeOK /\ WorkersInv /\ WaitInv /\ EventsInv

-----------------------------------------------------------------------------
(* Facts about the operators. *)

(* A nonempty set of numbers has a least one, so First picks one of the trackers
   that answer. *)
LEMMA FirstIsOne ==
  ASSUME NEW answering \in SUBSET Http, answering # {}
  PROVE  First(answering) \in answering
<1>1. answering \subseteq Nat
  BY TrackersAssumption DEF Http
<1> DEFINE Less == {ss \in Nat \X Nat : ss[1] < ss[2]}
<1>2. IsWellFoundedOn(Less, Nat)
  BY NatLessThanWellFounded DEF OpToRel
<1>3. PICK k \in answering : \A j \in answering : ~(<<j, k>> \in Less)
  <2> HIDE DEF Less
  <2> QED  BY <1>1, <1>2, WFMin
<1>4. ASSUME NEW j \in answering  PROVE k <= j
  <2>1. j \in Nat /\ k \in Nat
    BY <1>1
  <2>2. j < k => <<j, k>> \in Less
    BY <2>1
  <2> QED  BY <1>3, <2>1, <2>2
<1> QED  BY <1>4 DEF First

(* Min of two numbers. *)
LEMMA MinOfTwo ==
  ASSUME NEW a \in Int, NEW b \in Int
  PROVE  Min({a, b}) = IF a <= b THEN a ELSE b
<1> DEFINE m == IF a <= b THEN a ELSE b
<1>1. m \in {a, b} /\ \A y \in {a, b} : m <= y
  OBVIOUS
<1>2. \A x \in {a, b} : (\A y \in {a, b} : x <= y) => x = m
  OBVIOUS
<1> QED  BY <1>1, <1>2 DEF Min

(* What Append makes of the sequences of events there are. *)
LEMMA AppendShort ==
  ASSUME NEW a \in Events, NEW b \in Events, NEW c \in Events
  PROVE  /\ Append(<<>>, a) = <<a>> /\ <<a>> \in Seq(Events)
         /\ Append(<<a>>, b) = <<a, b>> /\ <<a, b>> \in Seq(Events)
         /\ Append(<<a, b>>, c) = <<a, b, c>> /\ <<a, b, c>> \in Seq(Events)
<1>1. <<a>> \in Seq(Events) /\ <<a, b>> \in Seq(Events) /\ <<a, b, c>> \in Seq(Events)
  OBVIOUS
<1>2. Append(<<>>, a) = <<a>>
  OBVIOUS
<1>3. Append(<<a>>, b) = <<a, b>>
  <2>1. Append(<<a>>, b) \in Seq(Events) /\ Len(Append(<<a>>, b)) = 2
    BY <1>1
  <2>2. Len(<<a, b>>) = 2 /\ \A i \in 1 .. 2 : Append(<<a>>, b)[i] = <<a, b>>[i]
    BY <1>1
  <2> QED  BY <1>1, <2>1, <2>2, SeqEqual
<1>4. Append(<<a, b>>, c) = <<a, b, c>>
  <2>1. Append(<<a, b>>, c) \in Seq(Events) /\ Len(Append(<<a, b>>, c)) = 3
    BY <1>1
  <2>2. Len(<<a, b, c>>) = 3 /\ \A i \in 1 .. 3 : Append(<<a, b>>, c)[i] = <<a, b, c>>[i]
    BY <1>1
  <2> QED  BY <1>1, <2>1, <2>2, SeqEqual
<1> QED  BY <1>1, <1>2, <1>3, <1>4

(* A finite nonempty set of numbers has a greatest one: a minimal set without it
   would have a smaller one with it. *)
LEMMA MaxOfFinite ==
  ASSUME NEW S \in SUBSET Nat, IsFiniteSet(S), S # {}
  PROVE  Max(S) \in S /\ \A x \in S : x <= Max(S)
<1> DEFINE HasMax(T) == \E m \in T : \A x \in T : m >= x
           Bad == {T \in FiniteSubsetsOf(Nat) : T # {} /\ ~HasMax(T)}
           R == StrictSubsetOrdering(Nat)
<1>1. Bad = {}
  <2> SUFFICES ASSUME Bad # {} PROVE FALSE
    OBVIOUS
  <2>0. IsWellFoundedOn(R, FiniteSubsetsOf(Nat))
    BY FS_StrictSubsetOrderingWellFounded
  <2>1. PICK T \in Bad : \A U \in Bad : ~(<<U, T>> \in R)
    <3> HIDE DEF R
    <3> QED  BY <2>0, WFMin
  <2>2. T \subseteq Nat /\ IsFiniteSet(T) /\ T # {} /\ ~HasMax(T)
    BY DEF FiniteSubsetsOf
  <2>3. PICK x \in T : TRUE
    BY <2>2
  <2> DEFINE U == T \ {x}
  <2>4. U \in FiniteSubsetsOf(Nat) /\ U # T
    BY <2>2, FS_RemoveElement DEF FiniteSubsetsOf
  <2>5. <<U, T>> \in R
    BY <2>2, <2>4 DEF StrictSubsetOrdering, FiniteSubsetsOf
  <2>6. U = {} \/ HasMax(U)
    BY <2>1, <2>4, <2>5
  <2>7. HasMax(T)
    <3>1. CASE U = {}
      BY <2>2, <3>1
    <3>2. CASE HasMax(U)
      <4>1. PICK m \in U : \A y \in U : m >= y
        BY <3>2
      <4>2. CASE m >= x
        BY <2>2, <4>1, <4>2
      <4>3. CASE ~(m >= x)
        BY <2>2, <4>1, <4>3
      <4> QED  BY <4>2, <4>3
    <3> QED  BY <2>6, <3>1, <3>2
  <2> QED  BY <2>2, <2>7
<1>2. S \in FiniteSubsetsOf(Nat)
  BY DEF FiniteSubsetsOf
<1>3. HasMax(S)
  BY <1>1, <1>2
<1>4. PICK m \in S : \A x \in S : m >= x
  BY <1>3
<1>5. Max(S) \in S /\ \A x \in S : Max(S) >= x
  BY <1>4 DEF Max
<1> QED  BY <1>5

(* The longest interval bounds every other, and ages stop there. *)
LEMMA MaxAgeBounds ==
  /\ MaxAge \in Nat
  /\ StallTimeout \in 1 .. MaxAge /\ DefaultAnnounceInterval \in 1 .. MaxAge
  /\ \A n \in Suggested : n <= MaxAge
<1> DEFINE S == Suggested \cup {StallTimeout, DefaultAnnounceInterval}
<1>1. S \in SUBSET Nat /\ S # {}
  BY NumbersAssumption
<1>2. S = (Suggested \cup {StallTimeout}) \cup {DefaultAnnounceInterval}
  OBVIOUS
<1>3. IsFiniteSet(S)
  BY <1>2, FS_AddElement, NumbersAssumption
<1>4. MaxAge \in S /\ \A x \in S : x <= MaxAge
  <2> HIDE DEF S
  <2>1. Max(S) \in S /\ \A x \in S : x <= Max(S)
    BY <1>1, <1>3, MaxOfFinite
  <2> QED  BY <2>1 DEF MaxAge, S
<1> QED  BY <1>1, <1>4, NumbersAssumption

(* An age stops growing at MaxAge. *)
LEMMA OlderType ==
  ASSUME NEW age \in 0 .. MaxAge
  PROVE  Older(age) \in 0 .. MaxAge
BY MaxAgeBounds, MinOfTwo DEF Older

(* The sets that sem and wg count are finite, whatever the workers do. *)
LEMMA SetsAreFinite ==
  /\ IsFiniteSet(ActiveSet) /\ IsFiniteSet(AliveSet)
  /\ Cardinality(ActiveSet) \in Nat /\ Cardinality(AliveSet) \in Nat
<1>1. ActiveSet \in SUBSET Peer /\ AliveSet \in SUBSET Peer
  BY DEF ActiveSet, AliveSet
<1> QED  BY <1>1, FS_Subset, FS_CardinalityType, PeerAssumption

-----------------------------------------------------------------------------
(* An announce *)

(* The workers it starts are new ones and take free slots. *)
LEMMA StartWorkersKeeps ==
  ASSUME TypeOK, WorkersInv, NEW addrs \in SUBSET Peer, StartWorkers(addrs)
  PROVE  /\ WorkersInv'
         /\ connected' \in SUBSET Peer
         /\ worker' \in [Peer -> {"none", "dialing", "running", "released", "ended"}]
         /\ sem' \in 0 .. MaxPeers
         /\ wg' \in Nat
<1> DEFINE new == addrs \ connected
<1>1. PICK taken \in SUBSET new, gone \in SUBSET new :
        /\ gone \subseteq taken
        /\ sem + Cardinality(taken \ gone) <= MaxPeers
        /\ connected' = connected \cup taken
        /\ worker' = [p \in Peer |-> IF p \in gone THEN "released"
                                     ELSE IF p \in taken THEN "dialing"
                                     ELSE worker[p]]
        /\ sem' = sem + Cardinality(taken \ gone)
        /\ wg' = wg + Cardinality(taken)
  BY DEF StartWorkers, Marked, Registered
<1> DEFINE kept == taken \ gone
<1>2. taken \in SUBSET Peer /\ kept \in SUBSET Peer /\ gone \in SUBSET Peer
  OBVIOUS
<1>3. IsFiniteSet(taken) /\ IsFiniteSet(kept)
  BY <1>2, FS_Subset, PeerAssumption
<1>4. Cardinality(taken) \in Nat /\ Cardinality(kept) \in Nat
  BY <1>3, FS_CardinalityType
<1>6. \A p \in taken : worker[p] = "none"
  BY <1>2 DEF WorkersInv
<1>7. ActiveSet' = ActiveSet \cup kept /\ ActiveSet \cap kept = {}
  BY <1>1, <1>2, <1>6 DEF ActiveSet, Active
<1>8. AliveSet' = AliveSet \cup taken /\ AliveSet \cap taken = {}
  BY <1>1, <1>2, <1>6 DEF AliveSet, Alive
<1>9. Cardinality(ActiveSet') = Cardinality(ActiveSet) + Cardinality(kept)
  <2>1. Cardinality(ActiveSet \cap kept) = 0
    BY <1>7, FS_EmptySet
  <2>2. Cardinality(ActiveSet \cup kept) =
          Cardinality(ActiveSet) + Cardinality(kept) - Cardinality(ActiveSet \cap kept)
    BY <1>3, FS_Union, SetsAreFinite
  <2> QED  BY <1>4, <1>7, <2>1, <2>2, SetsAreFinite
<1>10. Cardinality(AliveSet') = Cardinality(AliveSet) + Cardinality(taken)
  <2>1. Cardinality(AliveSet \cap taken) = 0
    BY <1>8, FS_EmptySet
  <2>2. Cardinality(AliveSet \cup taken) =
          Cardinality(AliveSet) + Cardinality(taken) - Cardinality(AliveSet \cap taken)
    BY <1>3, FS_Union, SetsAreFinite
  <2> QED  BY <1>4, <1>8, <2>1, <2>2, SetsAreFinite
<1>11. \A p \in Peer : worker'[p] # "none" => p \in connected'
  BY <1>1, <1>2 DEF WorkersInv
<1>12. WorkersInv'
  BY <1>1, <1>9, <1>10, <1>11 DEF WorkersInv
<1>13. sem' \in 0 .. MaxPeers /\ wg' \in Nat
  BY <1>1, <1>4, NumbersAssumption DEF TypeOK
<1>14. worker' \in [Peer -> {"none", "dialing", "running", "released", "ended"}]
  BY <1>1 DEF TypeOK
<1> QED  BY <1>1, <1>2, <1>12, <1>13, <1>14 DEF TypeOK

(* The types of what an announce changes. *)
AnswerTypes ==
  /\ minReannounceInterval \in 1 .. MaxAge /\ announceInterval \in 1 .. MaxAge
  /\ connected \in SUBSET Peer
  /\ worker \in [Peer -> {"none", "dialing", "running", "released", "ended"}]
  /\ sem \in 0 .. MaxPeers
  /\ wg \in Nat
  /\ reply \in {NoReply} \cup {Reply(peers) : peers \in SUBSET Peer}
  /\ up \in SUBSET Http

(* An announce nobody answers leaves the workers and their slots alone. *)
LEMMA UnansweredKeeps ==
  ASSUME TypeOK, WorkersInv, Unanswered, UNCHANGED up
  PROVE  AnswerTypes' /\ WorkersInv'
<1>1. UNCHANGED <<minReannounceInterval, announceInterval, connected, worker, sem, wg>>
  BY DEF Unanswered
<1>2. AnswerTypes'
  BY <1>1 DEF AnswerTypes, TypeOK, Unanswered
<1>3. ActiveSet' = ActiveSet /\ AliveSet' = AliveSet
  BY <1>1 DEF ActiveSet, AliveSet, Active, Alive
<1> QED  BY <1>1, <1>2, <1>3 DEF WorkersInv

(* An announce, answered or not, starts workers only with a slot each (AnnounceAll and
   connectTo in download.go). *)
LEMMA AnnounceKeeps ==
  ASSUME TypeOK, WorkersInv, NEW event, NEW succeeded, AnnounceTo(event, succeeded)
  PROVE  AnswerTypes' /\ WorkersInv'
<1> DEFINE answering == Asked \cap up
<1>1. CASE answering = {} /\ Unanswered
  BY <1>1, UnansweredKeeps DEF AnnounceTo
<1>2. CASE answering # {} /\ Answered(First(answering))
  <2>1. First(answering) \in DOMAIN Trackers
    BY <1>2, FirstIsOne DEF Asked, Http
  <2>2. PICK min \in Suggested, interval \in Suggested, addrs \in SUBSET Known[First(answering)] :
          /\ minReannounceInterval' = Suggestion(min, minReannounceInterval)
          /\ announceInterval' = Suggestion(interval, announceInterval)
          /\ StartWorkers(addrs)
          /\ reply' = Reply(addrs)
    BY <1>2 DEF Answered
  <2>3. addrs \in SUBSET Peer
    BY <2>1, TrackersAssumption
  <2>4. minReannounceInterval' \in 1 .. MaxAge /\ announceInterval' \in 1 .. MaxAge
    BY <2>2, MaxAgeBounds, NumbersAssumption DEF Suggestion, TypeOK
  <2>5. up' \in SUBSET Http
    BY DEF AnnounceTo, TypeOK
  <2> QED  BY <2>2, <2>3, <2>4, <2>5, StartWorkersKeeps DEF AnswerTypes
<1> QED  BY <1>1, <1>2 DEF AnnounceTo

-----------------------------------------------------------------------------
(* Steps of Download *)

(* TypeOK is about what an announce changes and the rest. *)
LEMMA TypeParts ==
  TypeOK <=>
    /\ AnswerTypes
    /\ loop \in {"begin", "select", "wait", "stop", "returned"}
    /\ started \in BOOLEAN /\ ctxDone \in BOOLEAN /\ waited \in BOOLEAN
    /\ completed \in 0 .. PieceCount + MaxDuplicates
    /\ sinceProgress \in 0 .. MaxAge /\ sinceAnnounce \in 0 .. MaxAge
    /\ events \in Seq(Events)
BY DEF TypeOK, AnswerTypes

(* A step that leaves the workers alone leaves their slots and the WaitGroup right. *)
LEMMA QuietKeeps ==
  ASSUME TypeOK, WorkersInv, UNCHANGED <<answerVars, up>>
  PROVE  AnswerTypes' /\ WorkersInv'
<1>1. AnswerTypes'
  BY DEF AnswerTypes, TypeOK, answerVars
<1>2. ActiveSet' = ActiveSet /\ AliveSet' = AliveSet
  BY DEF ActiveSet, AliveSet, Active, Alive, answerVars
<1> QED  BY <1>1, <1>2 DEF WorkersInv, answerVars

(* The first announce: "started" is sent before anything else. *)
LEMMA StartKeepsInv ==
  ASSUME Inv, Start \/ StartFails
  PROVE  Inv'
<1>1. AnswerTypes' /\ WorkersInv'
  BY AnnounceKeeps DEF Inv, Start, StartFails
<1>2. loop = "begin" /\ events' = <<"started">>
  <2>1. loop = "begin" /\ events' = Append(<<>>, "started")
    BY DEF Inv, EventsInv, Start, StartFails, AnnounceTo
  <2> QED  BY <2>1, AppendShort DEF Events
<1>3. TypeOK'
  <2>1. events' \in Seq(Events)
    BY <1>2 DEF Events
  <2>2. /\ loop' \in {"select", "wait", "returned"}
        /\ started' \in BOOLEAN /\ ctxDone' \in BOOLEAN /\ waited' = waited
        /\ completed' = completed
        /\ sinceProgress' \in {0, sinceProgress} /\ sinceAnnounce' \in {0, sinceAnnounce}
    BY DEF Inv, TypeOK, Start, StartFails, timeVars
  <2> QED  BY <1>1, <2>1, <2>2, TypeParts, MaxAgeBounds DEF Inv, TypeOK, AnswerTypes
<1>4. WaitInv'
  <2>1. ~waited /\ waited' = waited
    BY <1>2 DEF Inv, WaitInv, Start, StartFails
  <2> QED  BY <2>1 DEF WaitInv
<1>5. EventsInv'
  <2>1. events' # <<"started", "completed">>
    BY <1>2
  <2>2. CASE Start
    <3>1. loop' \in {"select", "wait"} /\ started'
      BY <2>2 DEF Start
    <3> QED  BY <1>2, <2>1, <3>1 DEF EventsInv
  <2>3. CASE StartFails
    <3>1. loop' = "returned" /\ started' = started
      BY <2>3 DEF StartFails
    <3>2. ~started
      BY <1>2 DEF Inv, EventsInv
    <3> QED  BY <1>2, <3>1, <3>2 DEF EventsInv
  <2> QED  BY <2>2, <2>3
<1> QED  BY <1>1, <1>3, <1>4, <1>5 DEF Inv

(* A tick of the progress ticker announces without an event. *)
LEMMA TickKeepsInv ==
  ASSUME Inv, Tick
  PROVE  Inv'
<1>1. AnswerTypes' /\ WorkersInv'
  BY AnnounceKeeps, UnansweredKeeps DEF Inv, Tick, BestEffort
<1>2. UNCHANGED <<loop, started, ctxDone, waited, completed, events>> /\ loop = "select"
  BY DEF Tick, BestEffort, AnnounceTo
<1>3. sinceProgress' \in 0 .. MaxAge /\ sinceAnnounce' \in 0 .. MaxAge
  <2>1. /\ sinceProgress' = Older(sinceProgress)
        /\ sinceAnnounce' \in {0, Older(sinceAnnounce)}
    BY DEF Tick
  <2>2. sinceProgress \in 0 .. MaxAge /\ sinceAnnounce \in 0 .. MaxAge
    BY DEF Inv, TypeOK
  <2> QED  BY <2>1, <2>2, OlderType, MaxAgeBounds
<1>4. TypeOK'
  BY <1>1, <1>2, <1>3 DEF Inv, TypeOK, AnswerTypes
<1>5. WaitInv' /\ EventsInv'
  BY <1>2 DEF Inv, WaitInv, EventsInv
<1> QED  BY <1>1, <1>4, <1>5 DEF Inv

(* The last result is the only one that finds the count one short. *)
LEMMA TakeResultKeepsInv ==
  ASSUME Inv, TakeResult
  PROVE  Inv'
<1>1. AnswerTypes' /\ WorkersInv'
  BY AnnounceKeeps, QuietKeeps DEF Inv, TakeResult, BestEffort
<1>2. /\ loop = "select" /\ loop' \in {"select", "wait"} /\ started' = started
      /\ completed' = completed + 1
      /\ completed \in Nat /\ completed' \in 0 .. PieceCount + MaxDuplicates
      /\ PieceCount \in Nat
  BY NumbersAssumption DEF Inv, TypeOK, TakeResult
<1>3. \/ events' = events /\ completed' # PieceCount
      \/ events' = Append(events, "completed") /\ completed' = PieceCount
  BY <1>2 DEF TakeResult, BestEffort, AnnounceTo, Last
<1>4. \/ events' = events
      \/ events' = <<"started", "completed">> /\ completed' = PieceCount
  <2>1. events \in {<<"started">>, <<"started", "completed">>}
    BY <1>2 DEF Inv, EventsInv
  <2>2. completed' = PieceCount => events # <<"started", "completed">>
    BY <1>2 DEF Inv, EventsInv
  <2> QED  BY <1>3, <2>1, <2>2, AppendShort DEF Events
<1>5. EventsInv'
  BY <1>2, <1>4 DEF Inv, EventsInv
<1>6. TypeOK'
  <2>1. events' \in Seq(Events)
    BY <1>4, AppendShort DEF Inv, TypeOK, Events
  <2>2. sinceProgress' \in 0 .. MaxAge /\ sinceAnnounce' \in 0 .. MaxAge
    BY MaxAgeBounds DEF Inv, TypeOK, TakeResult
  <2>3. ctxDone' \in BOOLEAN /\ waited' \in BOOLEAN
    BY DEF Inv, TypeOK, TakeResult
  <2> QED  BY <1>1, <1>2, <2>1, <2>2, <2>3, TypeParts DEF Inv, TypeOK, AnswerTypes
<1>7. WaitInv'
  BY DEF Inv, WaitInv, TakeResult
<1> QED  BY <1>1, <1>5, <1>6, <1>7 DEF Inv

(* The context is cancelled, the loop ends, or the wait does: nothing is announced. *)
LEMMA LeaveLoopKeepsInv ==
  ASSUME Inv, DownloadFails \/ GracePeriodEnds \/ ContextDone \/ WaitReturns
  PROVE  Inv'
<1>1. AnswerTypes' /\ WorkersInv'
  BY QuietKeeps DEF Inv, DownloadFails, GracePeriodEnds, ContextDone, WaitReturns
<1>2. TypeOK'
  BY <1>1, TypeParts DEF Inv, TypeOK, AnswerTypes, DownloadFails, GracePeriodEnds,
     ContextDone, WaitReturns, timeVars
<1>3. WaitInv'
  BY DEF Inv, WaitInv, DownloadFails, GracePeriodEnds, ContextDone, WaitReturns, answerVars
<1>4. EventsInv'
  BY DEF Inv, EventsInv, DownloadFails, GracePeriodEnds, ContextDone, WaitReturns
<1> QED  BY <1>1, <1>2, <1>3, <1>4 DEF Inv

(* The final announce: "stopped" comes last, and after it only the wait is left. *)
LEMMA StopKeepsInv ==
  ASSUME Inv, Stop
  PROVE  Inv'
<1>1. AnswerTypes' /\ WorkersInv'
  BY AnnounceKeeps DEF Inv, Stop, BestEffort
<1>2. events \in {<<"started">>, <<"started", "completed">>} /\ started
  BY DEF Inv, EventsInv, Stop
<1>3. events' = Append(events, "stopped")
  BY DEF Stop, BestEffort, AnnounceTo
<1>4. /\ events' \in {<<"started", "stopped">>, <<"started", "completed", "stopped">>}
      /\ events' \in Seq(Events)
  BY <1>2, <1>3, AppendShort DEF Events
<1>5. TypeOK'
  BY <1>1, <1>4, TypeParts DEF Inv, TypeOK, AnswerTypes, Stop, timeVars
<1>6. WaitInv' /\ EventsInv'
  BY <1>2, <1>4 DEF WaitInv, EventsInv, Stop
<1> QED  BY <1>1, <1>5, <1>6 DEF Inv

-----------------------------------------------------------------------------
(* Steps of the workers *)

(* The worker of p goes from one stage to the next, the counters with it. *)
LEMMA WorkerKeepsInv ==
  ASSUME Inv, NEW p \in Peer, Worker(p)
  PROVE  Inv'
<1> DEFINE States == {"none", "dialing", "running", "released", "ended"}
<1>1. PICK from \in States, to \in States : Move(p, from, to)
  BY DEF Worker, DialSucceeds, DialFails, ConnectionEnds, WorkerDone
<1>2. worker \in [Peer -> States]
  BY DEF Inv, TypeOK
<1>3. /\ worker[p] = from /\ worker'[p] = to
      /\ \A q \in Peer \ {p} : worker'[q] = worker[q]
      /\ worker' \in [Peer -> States]
  BY <1>1, <1>2 DEF Move
<1>4. UNCHANGED <<loop, started, ctxDone, waited, completed, sinceProgress, sinceAnnounce,
                  minReannounceInterval, announceInterval, connected, reply, events, up>>
  BY <1>1 DEF Move, timeVars
<1>5. /\ sem' = Cardinality(ActiveSet') /\ sem' \in 0 .. MaxPeers
      /\ wg' = Cardinality(AliveSet') /\ wg' \in Nat /\ wg' <= wg
      /\ worker[p] # "none"
  <2>0. /\ sem = Cardinality(ActiveSet) /\ sem \in 0 .. MaxPeers
        /\ wg = Cardinality(AliveSet) /\ wg \in Nat
        /\ MaxPeers \in Nat
    BY NumbersAssumption DEF Inv, TypeOK, WorkersInv
  <2>1. CASE DialSucceeds(p)
    <3>1. /\ worker[p] = "dialing" /\ worker'[p] = "running"
          /\ sem' = sem /\ wg' = wg
      BY <1>2, <2>1 DEF DialSucceeds, Move
    <3>2. ActiveSet' = ActiveSet /\ AliveSet' = AliveSet
      BY <1>3, <3>1 DEF ActiveSet, AliveSet, Active, Alive
    <3> QED  BY <2>0, <3>1, <3>2
  <2>2. CASE DialFails(p) \/ ConnectionEnds(p)
    <3>1. /\ worker[p] \in {"dialing", "running"} /\ worker'[p] = "released"
          /\ sem' = sem - 1 /\ wg' = wg
      BY <1>2, <2>2 DEF DialFails, ConnectionEnds, Move
    <3>2. ActiveSet' = ActiveSet \ {p} /\ p \in ActiveSet /\ AliveSet' = AliveSet
      BY <1>3, <3>1 DEF ActiveSet, AliveSet, Active, Alive
    <3>3. /\ Cardinality(ActiveSet \ {p}) = Cardinality(ActiveSet) - 1
          /\ Cardinality(ActiveSet \ {p}) \in Nat
      BY <3>2, FS_RemoveElement, FS_CardinalityType, SetsAreFinite
    <3> QED  BY <2>0, <3>1, <3>2, <3>3
  <2>3. CASE WorkerDone(p)
    <3>1. /\ worker[p] = "released" /\ worker'[p] = "ended"
          /\ sem' = sem /\ wg' = wg - 1
      BY <1>2, <2>3 DEF WorkerDone, Move
    <3>2. ActiveSet' = ActiveSet /\ AliveSet' = AliveSet \ {p} /\ p \in AliveSet
      BY <1>3, <3>1 DEF ActiveSet, AliveSet, Active, Alive
    <3>3. /\ Cardinality(AliveSet \ {p}) = Cardinality(AliveSet) - 1
          /\ Cardinality(AliveSet \ {p}) \in Nat
      BY <3>2, FS_RemoveElement, FS_CardinalityType, SetsAreFinite
    <3> QED  BY <2>0, <3>1, <3>2, <3>3
  <2> QED  BY <2>1, <2>2, <2>3 DEF Worker
<1>6. TypeOK'
  BY <1>3, <1>4, <1>5 DEF Inv, TypeOK
<1>7. WorkersInv'
  BY <1>3, <1>4, <1>5 DEF Inv, WorkersInv
<1>8. WaitInv'
  BY <1>4, <1>5 DEF Inv, WaitInv
<1>9. EventsInv'
  BY <1>4 DEF Inv, EventsInv
<1> QED  BY <1>6, <1>7, <1>8, <1>9 DEF Inv

(* A tracker that goes up or down, or a step of nothing modelled here. *)
LEMMA QuietKeepsInv ==
  ASSUME Inv, (\E k \in Http : TrackerChanges(k)) \/ UNCHANGED vars
  PROVE  Inv'
<1>1. UNCHANGED <<loop, started, ctxDone, waited, completed, timeVars, answerVars, events>>
  BY DEF TrackerChanges, vars
<1>2. up' \in SUBSET Http
  BY DEF Inv, TypeOK, TrackerChanges, vars
<1>3. TypeOK'
  BY <1>1, <1>2 DEF Inv, TypeOK, timeVars, answerVars
<1>4. ActiveSet' = ActiveSet /\ AliveSet' = AliveSet
  BY <1>1 DEF ActiveSet, AliveSet, Active, Alive, answerVars
<1>5. WorkersInv' /\ WaitInv' /\ EventsInv'
  BY <1>1, <1>4 DEF Inv, WorkersInv, WaitInv, EventsInv, answerVars
<1> QED  BY <1>3, <1>5 DEF Inv

-----------------------------------------------------------------------------
(* Inv is an inductive invariant. *)
LEMMA AnnounceInvariant == Spec => []Inv
<1>1. Init => Inv
  <2> SUFFICES ASSUME Init PROVE Inv
    OBVIOUS
  <2>1. ActiveSet = {} /\ AliveSet = {}
    BY DEF Init, ActiveSet, AliveSet, Active, Alive
  <2>2. WorkersInv
    BY <2>1, FS_EmptySet DEF Init, WorkersInv
  <2>3. TypeOK
    <3>1. completed \in 0 .. PieceCount + MaxDuplicates
      BY NumbersAssumption DEF Init
    <3>2. /\ minReannounceInterval \in 1 .. MaxAge /\ announceInterval \in 1 .. MaxAge
          /\ sinceProgress \in 0 .. MaxAge /\ sinceAnnounce \in 0 .. MaxAge
      BY MaxAgeBounds DEF Init
    <3>3. sem \in 0 .. MaxPeers /\ wg \in Nat /\ events \in Seq(Events)
      BY NumbersAssumption DEF Init
    <3>4. worker \in [Peer -> {"none", "dialing", "running", "released", "ended"}]
      BY DEF Init
    <3> QED  BY <3>1, <3>2, <3>3, <3>4 DEF Init, TypeOK
  <2>4. WaitInv /\ EventsInv
    BY DEF Init, WaitInv, EventsInv
  <2> QED  BY <2>2, <2>3, <2>4 DEF Inv
<1>2. Inv /\ [Next]_vars => Inv'
  BY StartKeepsInv, TickKeepsInv, TakeResultKeepsInv, LeaveLoopKeepsInv, StopKeepsInv,
     WorkerKeepsInv, QuietKeepsInv DEF Next
<1> QED  BY <1>1, <1>2, PTL DEF Spec

(* The state variables keep their types: the semaphore never overflows, and no
   counter goes below zero. *)
THEOREM AnnounceTypes == Spec => []TypeOK
<1>1. Inv => TypeOK
  BY DEF Inv
<1> QED  BY <1>1, AnnounceInvariant, PTL

(* The slots of the semaphore are the workers that dial or run, whatever the
   trackers answer and however workers end, and never more than maxPeers. *)
THEOREM SlotsAreExact == Spec => []SlotsMatchWorkers
<1>1. Inv => SlotsMatchWorkers
  BY NumbersAssumption DEF Inv, TypeOK, WorkersInv, SlotsMatchWorkers, ActiveSet
<1> QED  BY <1>1, AnnounceInvariant, PTL

(* The wait for the workers leaves none behind, although announces start workers
   in the loop until it begins, before and after the context is cancelled. *)
THEOREM WaitIsComplete == Spec => []WaitMissesNoWorker
<1>1. Inv => WaitMissesNoWorker
  <2> SUFFICES ASSUME Inv, loop = "stop", waited, NEW p \in Peer
               PROVE  worker[p] \in {"none", "ended"}
    BY DEF WaitMissesNoWorker
  <2>1. AliveSet = {}
    BY FS_EmptySet, SetsAreFinite DEF Inv, WaitInv, WorkersInv
  <2> QED  BY <2>1 DEF Inv, TypeOK, AliveSet, Alive
<1> QED  BY <1>1, AnnounceInvariant, PTL

(* The trackers are told "started", "completed" and "stopped" in this order, each
   at most once, and a session whose start was heard ends with "stopped". *)
THEOREM EventsAreInOrder == Spec => []EventsInOrder
<1>1. Inv => EventsInOrder
  <2> SUFFICES ASSUME Inv PROVE EventsInOrder
    OBVIOUS
  <2>1. events \in {<<>>, <<"started">>, <<"started", "completed">>,
                    <<"started", "stopped">>, <<"started", "completed", "stopped">>}
    BY DEF Inv, TypeOK, EventsInv
  <2>2. loop = "returned" => (started <=> events[Len(events)] = "stopped")
    <3>1. /\ Len(<<"started">>) = 1 /\ <<"started">>[1] = "started"
          /\ Len(<<"started", "stopped">>) = 2 /\ <<"started", "stopped">>[2] = "stopped"
          /\ Len(<<"started", "completed", "stopped">>) = 3
          /\ <<"started", "completed", "stopped">>[3] = "stopped"
      OBVIOUS
    <3> QED  BY <3>1 DEF Inv, EventsInv
  <2> QED  BY <2>1, <2>2 DEF EventsInOrder
<1> QED  BY <1>1, AnnounceInvariant, PTL

=============================================================================
