-------------------------- MODULE Listener_proofs ---------------------------
(***************************************************************************)
(* The listener's books are right for any number of connections, addresses *)
(* and limits: every slot counted has its connection, and a Wait that has  *)
(* returned left no handler behind.                                        *)
(***************************************************************************)
EXTENDS Listener, FiniteSetTheorems, TLAPS

Held         == {c \in Client : Holding(c)}
HeldFrom(ip) == {c \in Client : Holding(c) /\ RemoteIP[c] = ip}
Live         == {c \in Client : Running(c)}

(* The loop has one connection at a time between Accept and admit, and only while
   it is there, so none is left when Serve has returned; the WaitGroup counts the
   handlers from before their goroutine starts. *)
LoopInv ==
  /\ handlers = Cardinality(Live)
  /\ \A c \in Client : conn[c] = "accepted" => loop = "admit"
  /\ \A c, d \in Client : conn[c] = "accepted" /\ conn[d] = "accepted" => c = d
  /\ loop = "returned" => handlers = 0

Inv == TypeOK /\ SlotsMatchConnections /\ LoopInv

-----------------------------------------------------------------------------
(* The sets that are counted are finite. *)
LEMMA CountedAreFinite ==
  /\ IsFiniteSet(Held) /\ IsFiniteSet(Live)
  /\ \A ip \in IP : IsFiniteSet(HeldFrom(ip))
<1>1. Held \in SUBSET Client /\ Live \in SUBSET Client
  BY DEF Held, Live
<1>2. \A ip \in IP : HeldFrom(ip) \in SUBSET Client
  BY DEF HeldFrom
<1> QED  BY <1>1, <1>2, FS_Subset, ClientAssumption

(* SlotsMatchConnections, in the words of this module. *)
LEMMA SlotsAreHeld ==
  SlotsMatchConnections <=>
    /\ total = Cardinality(Held)
    /\ \A ip \in IP : perIP[ip] = Cardinality(HeldFrom(ip))
    /\ total <= MaxIncomingConnections
    /\ \A ip \in IP : perIP[ip] <= MaxConnectionsPerIP
BY DEF SlotsMatchConnections, Held, HeldFrom

(* A step that leaves alone who holds a slot, and the counters, keeps them right. *)
LEMMA SameHolders ==
  ASSUME SlotsMatchConnections, UNCHANGED <<total, perIP>>,
         \A c \in Client : Holding(c)' <=> Holding(c)
  PROVE  SlotsMatchConnections'
<1>1. Held' = Held
  BY DEF Held
<1>2. \A ip \in IP : HeldFrom(ip)' = HeldFrom(ip)
  BY DEF HeldFrom
<1> QED
  BY <1>1, <1>2 DEF SlotsMatchConnections, Held, HeldFrom


(* The same for the handlers the WaitGroup counts. *)
LEMMA SameHandlers ==
  ASSUME handlers = Cardinality(Live), UNCHANGED handlers,
         \A c \in Client : Running(c)' <=> Running(c)
  PROVE  (handlers = Cardinality(Live))'
<1>1. Live' = Live
  BY DEF Live
<1> QED  BY <1>1

-----------------------------------------------------------------------------
(* admit with room: one more slot, within both limits, and one more handler. *)
LEMMA AdmitKeepsInv ==
  ASSUME Inv, NEW c \in Client, Admit(c)
  PROVE  Inv'
<1> DEFINE ip == RemoteIP[c]
<1>0. ip \in IP
  BY RemoteIPAssumption
<1>1. conn[c] = "accepted" /\ conn' = [conn EXCEPT ![c] = "handshaking"]
  BY DEF Admit, Move
<1>2. conn \in [Client -> {"outside", "queued", "accepted", "handshaking",
                           "serving", "finished", "released", "gone"}]
  BY DEF Inv, TypeOK
<1>3. /\ conn'[c] = "handshaking"
      /\ \A d \in Client \ {c} : conn'[d] = conn[d]
  BY <1>1, <1>2
<1>4. TypeOK'
  BY <1>0, <1>1, <1>2 DEF Inv, TypeOK, Admit, Registered
<1>5. SlotsMatchConnections'
  <2>1. Held' = Held \cup {c} /\ c \notin Held
    BY <1>1, <1>3 DEF Held, Holding
  <2>2. HeldFrom(ip)' = HeldFrom(ip) \cup {c} /\ c \notin HeldFrom(ip)
    BY <1>1, <1>3 DEF HeldFrom, Holding
  <2>3. \A x \in IP \ {ip} : HeldFrom(x)' = HeldFrom(x)
    BY <1>1, <1>3 DEF HeldFrom, Holding
  <2>4. Cardinality(Held') = Cardinality(Held) + 1
    BY <2>1, FS_AddElement, CountedAreFinite
  <2>5. Cardinality(HeldFrom(ip)') = Cardinality(HeldFrom(ip)) + 1
    BY <1>0, <2>2, FS_AddElement, CountedAreFinite
  <2>6. /\ total' = Cardinality(Held')
        /\ total' <= MaxIncomingConnections
    BY <2>4, SlotsAreHeld, LimitsAssumption DEF Inv, TypeOK, Admit, HasRoom
  <2>7. ASSUME NEW x \in IP
        PROVE  /\ perIP'[x] = Cardinality(HeldFrom(x)')
               /\ perIP'[x] <= MaxConnectionsPerIP
    <3>1. CASE x = ip
      <4>1. perIP'[x] = perIP[x] + 1
        BY <1>0, <3>1 DEF Inv, TypeOK, Admit
      <4>2. perIP[x] < MaxConnectionsPerIP /\ perIP[x] \in Nat
        BY <3>1 DEF Inv, TypeOK, Admit, HasRoom
      <4>3. perIP[x] = Cardinality(HeldFrom(x))
        BY SlotsAreHeld DEF Inv
      <4>4. perIP'[x] = Cardinality(HeldFrom(x)')
        BY <2>5, <3>1, <4>1, <4>3
      <4> QED  BY <4>1, <4>2, <4>4, LimitsAssumption
    <3>2. CASE x # ip
      BY <1>0, <2>3, <3>2, SlotsAreHeld DEF Inv, TypeOK, Admit
    <3> QED  BY <3>1, <3>2
  <2> QED  BY <2>6, <2>7 DEF SlotsMatchConnections, Held, HeldFrom
<1>6. LoopInv'
  <2>1. Live' = Live \cup {c} /\ c \notin Live
    BY <1>1, <1>3 DEF Live, Running, Holding
  <2>2. Cardinality(Live') = Cardinality(Live) + 1
    BY <2>1, FS_AddElement, CountedAreFinite
  <2>3. handlers' = Cardinality(Live')
    BY <2>2 DEF Inv, LoopInv, Admit, Registered
  <2>4. ASSUME NEW d \in Client, conn'[d] = "accepted"  PROVE FALSE
    BY <2>4, <1>3, <1>1 DEF Inv, LoopInv, Admit
  <2> QED  BY <2>3, <2>4 DEF LoopInv, Admit
<1> QED  BY <1>4, <1>5, <1>6 DEF Inv

(* release: one slot less, of the address the connection came from. *)
LEMMA ReleaseKeepsInv ==
  ASSUME Inv, NEW c \in Client, Release(c)
  PROVE  Inv'
<1> DEFINE ip == RemoteIP[c]
<1>0. ip \in IP
  BY RemoteIPAssumption
<1>1. conn[c] = "finished" /\ conn' = [conn EXCEPT ![c] = "released"]
  BY DEF Release, Move
<1>2. conn \in [Client -> {"outside", "queued", "accepted", "handshaking",
                           "serving", "finished", "released", "gone"}]
  BY DEF Inv, TypeOK
<1>3. /\ conn'[c] = "released"
      /\ \A d \in Client \ {c} : conn'[d] = conn[d]
  BY <1>1, <1>2
<1>4. /\ Held' = Held \ {c} /\ c \in Held
      /\ HeldFrom(ip)' = HeldFrom(ip) \ {c} /\ c \in HeldFrom(ip)
      /\ \A x \in IP \ {ip} : HeldFrom(x)' = HeldFrom(x)
  BY <1>1, <1>3 DEF Held, HeldFrom, Holding
<1>5. /\ Cardinality(Held') = Cardinality(Held) - 1
      /\ Cardinality(Held') \in Nat
  BY <1>4, FS_RemoveElement, FS_CardinalityType, CountedAreFinite
<1>6. /\ Cardinality(HeldFrom(ip)') = Cardinality(HeldFrom(ip)) - 1
      /\ Cardinality(HeldFrom(ip)') \in Nat
  BY <1>0, <1>4, FS_RemoveElement, FS_CardinalityType, CountedAreFinite
<1>7. /\ total' = Cardinality(Held') /\ total' \in Nat
      /\ total' <= MaxIncomingConnections
  BY <1>5, SlotsAreHeld, LimitsAssumption DEF Inv, TypeOK, Release
<1>8. ASSUME NEW x \in IP
      PROVE  /\ perIP'[x] = Cardinality(HeldFrom(x)') /\ perIP'[x] \in Nat
             /\ perIP'[x] <= MaxConnectionsPerIP
  <2>1. /\ perIP[x] = Cardinality(HeldFrom(x)) /\ perIP[x] \in Nat
        /\ perIP[x] <= MaxConnectionsPerIP
    BY SlotsAreHeld DEF Inv, TypeOK
  <2>2. CASE x = ip
    <3>1. perIP'[x] = perIP[x] - 1
      BY <1>0, <2>2 DEF Inv, TypeOK, Release
    <3> QED  BY <1>6, <2>1, <2>2, <3>1, LimitsAssumption
  <2>3. CASE x # ip
    BY <1>0, <1>4, <2>1, <2>3 DEF Inv, TypeOK, Release
  <2> QED  BY <2>2, <2>3
<1>9. TypeOK'
  BY <1>1, <1>2, <1>7, <1>8 DEF Inv, TypeOK, Release
<1>10. SlotsMatchConnections'
  BY <1>7, <1>8 DEF SlotsMatchConnections, Held, HeldFrom
<1>11. LoopInv'
  <2>1. \A d \in Client : Running(d)' <=> Running(d)
    BY <1>1, <1>3 DEF Running, Holding
  <2>2. (handlers = Cardinality(Live))'
    BY <2>1, SameHandlers DEF Inv, LoopInv, Release
  <2> QED  BY <1>1, <1>3, <2>2 DEF Inv, LoopInv, Release
<1> QED  BY <1>9, <1>10, <1>11 DEF Inv

(* handlers.Done: the handler no longer counts. *)
LEMMA DoneKeepsInv ==
  ASSUME Inv, NEW c \in Client, Done(c)
  PROVE  Inv'
<1>1. conn[c] = "released" /\ conn' = [conn EXCEPT ![c] = "gone"]
  BY DEF Done, Move
<1>2. conn \in [Client -> {"outside", "queued", "accepted", "handshaking",
                           "serving", "finished", "released", "gone"}]
  BY DEF Inv, TypeOK
<1>3. /\ conn'[c] = "gone"
      /\ \A d \in Client \ {c} : conn'[d] = conn[d]
  BY <1>1, <1>2
<1>4. Live' = Live \ {c} /\ c \in Live
  BY <1>1, <1>3 DEF Live, Running, Holding
<1>5. /\ Cardinality(Live') = Cardinality(Live) - 1
      /\ Cardinality(Live') \in Nat
  BY <1>4, FS_RemoveElement, FS_CardinalityType, CountedAreFinite
<1>6. handlers' = Cardinality(Live') /\ handlers' \in Nat
  BY <1>5 DEF Inv, LoopInv, Done
<1>7. TypeOK'
  BY <1>1, <1>2, <1>6 DEF Inv, TypeOK, Done
<1>8. SlotsMatchConnections'
  <2>1. \A d \in Client : Holding(d)' <=> Holding(d)
    BY <1>1, <1>3 DEF Holding
  <2> QED  BY <2>1, SameHolders DEF Inv, Done
<1>9. loop' # "returned"
  <2>1. handlers # 0
    BY <1>4, FS_EmptySet, CountedAreFinite DEF Inv, LoopInv
  <2> QED  BY <2>1 DEF Inv, LoopInv, Done
<1> QED  BY <1>1, <1>3, <1>6, <1>7, <1>8, <1>9 DEF Inv, LoopInv, Done

(* Every other step leaves alone who holds a slot and whose handler is running. *)
Rest ==
  \/ \E c \in Client :
       \/ Connect(c) \/ AcceptConn(c) \/ Reject(c)
       \/ HandshakeDone(c) \/ HandshakeFails(c) \/ ServingEnds(c)
  \/ AcceptError \/ Retry \/ ServeReturns \/ WaitReturns \/ CancelContext \/ CloseSocket

(* The steps that neither take nor give back a slot and start or end no handler. *)
LEMMA RestKeepsInv ==
  ASSUME Inv, Rest \/ UNCHANGED vars
  PROVE  Inv'
<1>1. conn \in [Client -> {"outside", "queued", "accepted", "handshaking",
                           "serving", "finished", "released", "gone"}]
  BY DEF Inv, TypeOK
<1>2. /\ UNCHANGED <<total, perIP, handlers>>
      /\ \A c \in Client : (Holding(c)' <=> Holding(c)) /\ (Running(c)' <=> Running(c))
  BY <1>1 DEF Rest, vars, Move, Connect, AcceptConn, Reject, HandshakeDone,
     HandshakeFails, ServingEnds, AcceptError, Retry, ServeReturns, WaitReturns,
     CancelContext, CloseSocket, Holding, Running
<1>3. TypeOK'
  BY DEF Inv, TypeOK, Rest, vars, Move, Connect, AcceptConn, Reject, HandshakeDone,
     HandshakeFails, ServingEnds, AcceptError, Retry, ServeReturns, WaitReturns,
     CancelContext, CloseSocket
<1>4. SlotsMatchConnections'
  BY <1>2, SameHolders DEF Inv
<1>5. (handlers = Cardinality(Live))'
  BY <1>2, SameHandlers DEF Inv, LoopInv
<1>6. (loop = "returned" => handlers = 0)'
  BY DEF Inv, LoopInv, Rest, vars, Move, Connect, AcceptConn, Reject, HandshakeDone,
     HandshakeFails, ServingEnds, AcceptError, Retry, ServeReturns, WaitReturns,
     CancelContext, CloseSocket
<1>7. /\ \A c \in Client : conn'[c] = "accepted" => loop' = "admit"
      /\ \A c, d \in Client : conn'[c] = "accepted" /\ conn'[d] = "accepted" => c = d
  <2>1. CASE \E c \in Client : AcceptConn(c)
    BY <1>1, <2>1 DEF Inv, LoopInv, AcceptConn, Move
  <2>2. CASE \E c \in Client : Reject(c)
    BY <1>1, <2>2 DEF Inv, LoopInv, Reject, Move
  <2>3. CASE ~ \E c \in Client : AcceptConn(c) \/ Reject(c)
    <3>1. \A c \in Client : conn'[c] = "accepted" => conn[c] = "accepted"
      BY <1>1, <2>3 DEF Rest, vars, Move, Connect, HandshakeDone, HandshakeFails,
         ServingEnds, AcceptError, Retry, ServeReturns, WaitReturns, CancelContext,
         CloseSocket
    <3>2. loop = "admit" => loop' = "admit"
      BY <2>3 DEF Rest, vars, Connect, HandshakeDone, HandshakeFails,
         ServingEnds, AcceptError, Retry, ServeReturns, WaitReturns, CancelContext,
         CloseSocket
    <3> QED  BY <3>1, <3>2 DEF Inv, LoopInv
  <2> QED  BY <2>1, <2>2, <2>3
<1> QED  BY <1>3, <1>4, <1>5, <1>6, <1>7 DEF Inv, LoopInv

-----------------------------------------------------------------------------
(* Inv is an inductive invariant of the listener. *)
LEMMA ListenerInvariant == Spec => []Inv
<1>1. Init => Inv
  <2> SUFFICES ASSUME Init PROVE Inv
    OBVIOUS
  <2>1. Held = {} /\ Live = {} /\ \A ip \in IP : HeldFrom(ip) = {}
    BY DEF Init, Held, HeldFrom, Live, Running, Holding
  <2>2. SlotsMatchConnections
    BY <2>1, SlotsAreHeld, FS_EmptySet, LimitsAssumption DEF Init
  <2>3. LoopInv
    BY <2>1, FS_EmptySet DEF Init, LoopInv
  <2>4. TypeOK
    BY DEF Init, TypeOK
  <2> QED  BY <2>2, <2>3, <2>4 DEF Inv
<1>2. Inv /\ [Next]_vars => Inv'
  <2> SUFFICES ASSUME Inv, [Next]_vars PROVE Inv'
    OBVIOUS
  <2>1. CASE \E c \in Client : Admit(c)
    BY <2>1, AdmitKeepsInv
  <2>2. CASE \E c \in Client : Release(c)
    BY <2>2, ReleaseKeepsInv
  <2>3. CASE \E c \in Client : Done(c)
    BY <2>3, DoneKeepsInv
  <2>4. CASE Rest \/ UNCHANGED vars
    BY <2>4, RestKeepsInv
  <2> QED  BY <2>1, <2>2, <2>3, <2>4 DEF Next, Handler, Rest
<1> QED  BY <1>1, <1>2, PTL DEF Spec

(* The state variables keep their types; in particular no counter of admit and
   release ever goes below zero. *)
THEOREM ListenerTypes == Spec => []TypeOK
<1>1. Inv => TypeOK
  BY DEF Inv
<1> QED  BY <1>1, ListenerInvariant, PTL

(* However many peers connect, from however many addresses, and however their
   handlers end, the slots of admit and release are the connections that hold
   one, and neither limit is exceeded. *)
THEOREM SlotsAreExact == Spec => []SlotsMatchConnections
<1>1. Inv => SlotsMatchConnections
  BY DEF Inv
<1> QED  BY <1>1, ListenerInvariant, PTL

(* When Wait has returned no handler is running and no accepted connection can
   still become one. *)
THEOREM WaitIsComplete == Spec => []WaitMissesNobody
<1>1. Inv => WaitMissesNobody
  <2> SUFFICES ASSUME Inv, loop = "returned", NEW c \in Client
               PROVE  ~Running(c) /\ conn[c] # "accepted"
    BY DEF WaitMissesNobody
  <2>1. Live = {}
    BY FS_EmptySet, CountedAreFinite DEF Inv, LoopInv
  <2> QED  BY <2>1 DEF Inv, LoopInv, Live
<1> QED  BY <1>1, ListenerInvariant, PTL

=============================================================================
