------------------------------ MODULE Listener ------------------------------
(***************************************************************************)
(* The listener for incoming peers (internal/peer/listen.go): the accept   *)
(* loop of Serve with its two connection limits, the goroutine per         *)
(* connection that performs the handshake (Accept) and hands the           *)
(* connection to serveIncoming, and the shutdown that waits for them all   *)
(* (download.go).  The loop and the handlers share total and perIP under   *)
(* a mutex, so admit and release are each one step.                        *)
(***************************************************************************)
EXTENDS Integers, FiniteSets

CONSTANTS
  Client,                  \* connections remote peers try to make
  IP,                      \* remote addresses without their ports
  RemoteIP,                \* the address each of them comes from (remoteIP)
  MaxIncomingConnections,
  MaxConnectionsPerIP

ASSUME RemoteIPAssumption == RemoteIP \in [Client -> IP]
ASSUME ClientAssumption   == IsFiniteSet(Client)
ASSUME LimitsAssumption   == /\ MaxIncomingConnections \in Nat
                             /\ MaxConnectionsPerIP \in Nat

VARIABLES
  conn,      \* where each connection, and its handler goroutine, is
  total,     \* slots taken
  perIP,     \* slots taken from each address
  handlers,  \* the WaitGroup's counter
  loop,      \* the goroutine that runs Serve and then Wait
  open,      \* whether the listening socket is open
  ctxDone    \* whether the context was cancelled

vars == <<conn, total, perIP, handlers, loop, open, ctxDone>>

TypeOK ==
  /\ conn \in [Client -> {"outside", "queued", "accepted", "handshaking",
                          "serving", "finished", "released", "gone"}]
  /\ total \in Nat
  /\ perIP \in [IP -> Nat]
  /\ handlers \in Nat
  /\ loop \in {"accept", "backoff", "admit", "wait", "returned"}
  /\ open \in BOOLEAN
  /\ ctxDone \in BOOLEAN

(* Listen *)
Init ==
  /\ conn = [c \in Client |-> "outside"]
  /\ total = 0
  /\ perIP = [ip \in IP |-> 0]
  /\ handlers = 0
  /\ loop = "accept"
  /\ open = TRUE
  /\ ctxDone = FALSE

Move(c, from, to) == conn[c] = from /\ conn' = [conn EXCEPT ![c] = to]

-----------------------------------------------------------------------------
(* The accept loop *)

AcceptConn(c) ==
  /\ loop = "accept" /\ open
  /\ Move(c, "queued", "accepted")
  /\ loop' = "admit"
  /\ UNCHANGED <<total, perIP, handlers, open, ctxDone>>

(* admit *)
HasRoom(c) ==
  /\ total < MaxIncomingConnections
  /\ perIP[RemoteIP[c]] < MaxConnectionsPerIP

(* A bug the model can show: the handler registers itself once it runs, which is
   after Wait may have looked. *)
RegisteredMutant == handlers
Registered == handlers + 1

Admit(c) ==
  /\ loop = "admit"
  /\ HasRoom(c)
  /\ Move(c, "accepted", "handshaking")
  /\ total' = total + 1
  /\ perIP' = [perIP EXCEPT ![RemoteIP[c]] = @ + 1]
  /\ handlers' = Registered
  /\ loop' = "accept"
  /\ UNCHANGED <<open, ctxDone>>

(* A bug the model can show: a rejected connection keeps the slot it was counted
   for before the second check. *)
RejectMutant(c) ==
  /\ loop = "admit"
  /\ ~HasRoom(c)
  /\ Move(c, "accepted", "gone")
  /\ total' = total + 1
  /\ loop' = "accept"
  /\ UNCHANGED <<perIP, handlers, open, ctxDone>>
Reject(c) ==
  /\ loop = "admit"
  /\ ~HasRoom(c)
  /\ Move(c, "accepted", "gone")
  /\ loop' = "accept"
  /\ UNCHANGED <<total, perIP, handlers, open, ctxDone>>

(* A transient error: back off and try again. *)
AcceptError ==
  /\ loop = "accept" /\ open /\ ~ctxDone
  /\ loop' = "backoff"
  /\ UNCHANGED <<conn, total, perIP, handlers, open, ctxDone>>

Retry ==
  /\ loop = "backoff"
  /\ loop' = "accept"
  /\ UNCHANGED <<conn, total, perIP, handlers, open, ctxDone>>

(* Accept fails because the socket is closed, or with the context cancelled:
   Serve returns, and Wait is next. *)
ServeReturns ==
  /\ loop = "accept"
  /\ ~open \/ ctxDone
  /\ loop' = "wait"
  /\ UNCHANGED <<conn, total, perIP, handlers, open, ctxDone>>

WaitReturns ==
  /\ loop = "wait"
  /\ handlers = 0
  /\ loop' = "returned"
  /\ UNCHANGED <<conn, total, perIP, handlers, open, ctxDone>>

-----------------------------------------------------------------------------
(* A handler goroutine *)

(* Accept: the handshakes match, or they do not, or the deadline expires. *)
HandshakeDone(c) ==
  /\ Move(c, "handshaking", "serving")
  /\ UNCHANGED <<total, perIP, handlers, loop, open, ctxDone>>

HandshakeFails(c) ==
  /\ Move(c, "handshaking", "finished")
  /\ UNCHANGED <<total, perIP, handlers, loop, open, ctxDone>>

(* serveIncoming returns: the peer left, or the context was cancelled. *)
ServingEnds(c) ==
  /\ Move(c, "serving", "finished")
  /\ UNCHANGED <<total, perIP, handlers, loop, open, ctxDone>>

(* The deferred calls, the last one first: release, then handlers.Done. *)
Release(c) ==
  /\ Move(c, "finished", "released")
  /\ total' = total - 1
  /\ perIP' = [perIP EXCEPT ![RemoteIP[c]] = @ - 1]
  /\ UNCHANGED <<handlers, loop, open, ctxDone>>

(* A bug the model can show: a handler that is through is not counted down. *)
DoneMutant(c) ==
  /\ Move(c, "released", "gone")
  /\ UNCHANGED <<total, perIP, handlers, loop, open, ctxDone>>
Done(c) ==
  /\ Move(c, "released", "gone")
  /\ handlers' = handlers - 1
  /\ UNCHANGED <<total, perIP, loop, open, ctxDone>>

-----------------------------------------------------------------------------
(* The surroundings *)

Connect(c) ==
  /\ open
  /\ Move(c, "outside", "queued")
  /\ UNCHANGED <<total, perIP, handlers, loop, open, ctxDone>>

CancelContext ==
  /\ ~ctxDone
  /\ ctxDone' = TRUE
  /\ UNCHANGED <<conn, total, perIP, handlers, loop, open>>

(* The socket is closed by the goroutine of Serve that waits for the context or,
   when Download returns early, by its deferred Close, which runs before the
   context is cancelled.  Whoever is still queued in the kernel is cut off. *)
CloseSocket ==
  /\ open
  /\ open' = FALSE
  /\ conn' = [c \in Client |-> IF conn[c] = "queued" THEN "gone" ELSE conn[c]]
  /\ UNCHANGED <<total, perIP, handlers, loop, ctxDone>>

Handler(c) ==
  \/ HandshakeDone(c) \/ HandshakeFails(c) \/ ServingEnds(c) \/ Release(c) \/ Done(c)

Next ==
  \/ \E c \in Client :
       Connect(c) \/ AcceptConn(c) \/ Admit(c) \/ Reject(c) \/ Handler(c)
  \/ AcceptError \/ Retry \/ ServeReturns \/ WaitReturns
  \/ CancelContext \/ CloseSocket

Spec == Init /\ [][Next]_vars

(* The goroutines run; a handshake ends, by its deadline if by nothing else; a
   connection being served ends once the context is cancelled. *)
Fairness ==
  /\ WF_vars(Retry) /\ WF_vars(ServeReturns) /\ WF_vars(WaitReturns)
  /\ WF_vars(ctxDone /\ CloseSocket)
  /\ \A c \in Client :
       /\ WF_vars(Admit(c) \/ Reject(c))
       /\ WF_vars(HandshakeDone(c) \/ HandshakeFails(c))
       /\ WF_vars(ctxDone /\ ServingEnds(c))
       /\ WF_vars(Release(c) \/ Done(c))

FairSpec == Spec /\ Fairness

-----------------------------------------------------------------------------
(* Properties *)

Holding(c) == conn[c] \in {"handshaking", "serving", "finished"}
Running(c) == Holding(c) \/ conn[c] = "released"

(* Every slot taken is held by a live connection and given back exactly once,
   on whatever path its handler ends (listen.go, admit and release), and the
   limits are never exceeded. *)
SlotsMatchConnections ==
  /\ total = Cardinality({c \in Client : Holding(c)})
  /\ \A ip \in IP :
       perIP[ip] = Cardinality({c \in Client : Holding(c) /\ RemoteIP[c] = ip})
  /\ total <= MaxIncomingConnections
  /\ \A ip \in IP : perIP[ip] <= MaxConnectionsPerIP

(* "A caller that waits on it after Serve returns can never miss a late arrival"
   (listen.go): when Wait has returned no handler is running, nor will be. *)
WaitMissesNobody ==
  loop = "returned" => \A c \in Client : ~Running(c) /\ conn[c] # "accepted"

(* Cancelling the context gets Serve and Wait to return, with a connection in
   any stage, including between Accept and admit. *)
ListenerStops == ctxDone ~> loop = "returned"

=============================================================================
