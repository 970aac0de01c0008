------------------------------ MODULE Download ------------------------------
(***************************************************************************)
(* The whole client around the coordinator and its connections             *)
(* (internal/download/download.go, Download): resuming from what is on     *)
(* disk, writing finished pieces, noticing that the last one landed, and   *)
(* shutting down.  The main goroutine takes the place of the free          *)
(* surroundings of Swarm.tla: results are taken and the context is         *)
(* cancelled only where its code does so.                                  *)
(*                                                                         *)
(* Announces to the tracker are part of the steps they belong to: all the  *)
(* model needs of them is that they start connections, which Swarm.tla     *)
(* lets happen at any time, and that the first one can fail.               *)
(***************************************************************************)
EXTENDS Swarm

CONSTANT Seed    \* Options.Seed: keep serving once the download is complete

ASSUME SeedAssumption == Seed \in BOOLEAN

VARIABLES
  main,              \* where the main goroutine is
  onDisk,            \* pieces written and synced into HaveBitfield
  completed,         \* the counter of pieces done
  downloadComplete,  \* whether the last piece was seen to land
  caller,            \* "running", "cancelled" (callerCtx), "grace" (the timer runs)
  outcome            \* what Download returns, or will return

mainVars     == <<main, onDisk, completed, downloadComplete, caller, outcome>>
downloadVars == <<allVars, mainVars>>

(* Every verified piece is marked complete, set in have and counted. *)
DownloadInit ==
  /\ Init
  /\ main = "starting"
  /\ onDisk = {i \in Piece : pieces[i] = "complete"}
  /\ completed = Cardinality(onDisk)
  /\ downloadComplete = FALSE
  /\ caller = "running"
  /\ outcome = "none"

DownloadTypeOK ==
  /\ SwarmTypeOK
  /\ main \in {"starting", "loop", "leaving", "waiting", "returned"}
  /\ onDisk \in SUBSET Piece
  /\ completed \in Nat
  /\ downloadComplete \in BOOLEAN
  /\ caller \in {"running", "cancelled", "grace"}
  /\ outcome \in {"none", "ok", "error"}

-----------------------------------------------------------------------------
(* The first announce, and what resume makes of the rest.  A failed announce
   returns at once, and a download that is already complete is not started
   unless it is to be seeded. *)
Start ==
  /\ main = "starting"
  /\ \/ /\ outcome' = "error"
        /\ main' = "leaving"
        /\ UNCHANGED downloadComplete
     \/ /\ downloadComplete' = (completed = PieceCount)
        /\ \/ /\ completed = PieceCount /\ ~Seed
              /\ outcome' = "ok"
              /\ main' = "leaving"
           \/ /\ completed # PieceCount \/ Seed
              /\ main' = "loop"
              /\ UNCHANGED outcome
  /\ UNCHANGED <<allVars, onDisk, completed, caller>>

(* A result is written, or writing it fails and Download returns. *)
WriteResult ==
  /\ main = "loop"
  /\ TakeResult
  /\ UNCHANGED connVars
  /\ \/ /\ outcome' = "error"
        /\ main' = "leaving"
        /\ UNCHANGED <<onDisk, completed, downloadComplete>>
     \/ /\ onDisk' = onDisk \cup {Head(results)}
        /\ completed' = completed + 1
        /\ downloadComplete' = (downloadComplete \/ completed' = PieceCount)
        /\ LET last == downloadComplete' /\ ~downloadComplete IN
           \/ last /\ outcome' = "error" /\ main' = "leaving"   \* Sync failed
           \/ last /\ ~Seed /\ outcome' = "ok" /\ main' = "leaving"
           \/ (~last \/ Seed) /\ UNCHANGED <<outcome, main>>
  /\ UNCHANGED caller

(* The cancel on the way out.  After an error it is a deferred call, and nobody
   is waited for. *)
Leaving ==
  /\ main = "leaving"
  /\ \/ CancelContext
     \/ ctxDone /\ UNCHANGED vars
  /\ main' = IF outcome = "error" THEN "returned" ELSE "waiting"
  /\ UNCHANGED <<connVars, onDisk, completed, downloadComplete, caller, outcome>>

(* The caller's context is cancelled, by a signal. *)
CallerCancels ==
  /\ caller = "running"
  /\ caller' = "cancelled"
  /\ UNCHANGED <<allVars, main, onDisk, completed, downloadComplete, outcome>>

(* The main loop notices and starts the grace period ... *)
StartGracePeriod ==
  /\ main = "loop"
  /\ caller = "cancelled"
  /\ caller' = "grace"
  /\ UNCHANGED <<allVars, main, onDisk, completed, downloadComplete, outcome>>

(* ... at whose end everything is stopped. *)
GracePeriodEnds ==
  /\ main = "loop"
  /\ caller = "grace"
  /\ CancelContext
  /\ UNCHANGED <<connVars, mainVars>>

ContextDone ==
  /\ main = "loop"
  /\ ctxDone
  /\ main' = "waiting"
  /\ outcome' = IF downloadComplete THEN "ok" ELSE "error"
  /\ UNCHANGED <<allVars, onDisk, completed, downloadComplete, caller>>

(* wg.Wait: the coordinator and every connection have returned. *)
AllGone == phase = "stopped" /\ \A c \in Conn : stage[c] # "running"
Return ==
  /\ main = "waiting"
  /\ AllGone
  /\ main' = "returned"
  /\ UNCHANGED <<allVars, onDisk, completed, downloadComplete, caller, outcome>>

MainStep ==
  \/ Start \/ WriteResult \/ Leaving
  \/ StartGracePeriod \/ GracePeriodEnds \/ ContextDone \/ Return

(* Once Download has returned the process exits. *)
Others ==
  /\ main # "returned"
  /\ \/ (CoordinatorStep \/ Elapse) /\ UNCHANGED connVars
     \/ \E c \in Conn : ConnectionStep(c)
  /\ UNCHANGED mainVars

DownloadNext == MainStep \/ CallerCancels \/ Others

DownloadSpec == DownloadInit /\ [][DownloadNext]_downloadVars

(* Fairness, as in Swarm.tla; the main goroutine is scheduled, the grace period
   ends, and its select does not pass over a ready case for ever. *)
DownloadFairness ==
  /\ WF_downloadVars(Start \/ Leaving \/ ContextDone \/ Return)
  /\ WF_downloadVars(StartGracePeriod) /\ WF_downloadVars(GracePeriodEnds)
  /\ SF_downloadVars(Stop /\ Others)
  /\ WF_downloadVars((DeliverResult \/ DropResult) /\ Others)
  /\ \A a \in Addr : WF_downloadVars((EndgameVisit(a) \/ OfferVisit(a)) /\ Others)
  /\ \A c \in Conn : WF_downloadVars(Abandon(c) /\ Others)

FairDownload == DownloadSpec /\ DownloadFairness

-----------------------------------------------------------------------------
(* Properties *)

(* No verified piece is lost on its way to the disk: while the download runs,
   what the coordinator counts as complete is on disk, buffered, or in the
   blocked send of handlePieceDownloaded, however full the buffer is. *)
NoVerifiedPieceIsLost ==
  ~ctxDone /\ outcome # "error" =>
    \A i \in Piece : pieces[i] = "complete" =>
      \/ i \in onDisk
      \/ \E k \in DOMAIN results : results[k] = i
      \/ sending = i

(* "downloadComplete flips once, the moment the last piece lands" (download.go):
   Download reports success only for a file with every piece in it. *)
SuccessMeansWholeFile == outcome = "ok" => onDisk = Piece

(* A signal gets Download to return, whatever the coordinator is blocked on and
   whatever its connections are doing ("a short grace period ... before a hard
   cancel closes everything", README.md). *)
ShutdownTerminates == caller # "running" ~> main = "returned"

=============================================================================
