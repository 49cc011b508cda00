---------------------------- MODULE WorkersPage ------------------------------
(***************************************************************************)
(* The list of workers in the web application and the button that shuts    *)
(* one down: WorkersTab.tsx and WorkerCard.tsx over controllers/workers.ts *)
(* and disconnectWorker of websocket.ts.                                   *)
(*                                                                         *)
(* A worker is a process and the number its connection got; the numbers    *)
(* start at 1 again when the server restarts.  The page stands for one of  *)
(* two tabs that share a session, so it can outlive a restart.             *)
(***************************************************************************)
EXTENDS Naturals, FiniteSets

CONSTANTS
  Processes,   \* worker processes
  MaxId,       \* bound: connections between two starts of the server
  MaxWorkersClicks,   \* bound: confirmed disconnects and returns to the tab
  MaxServerRestarts  \* bound: restarts of the server

ASSUME WorkersPageAssumption ==
  /\ Processes # {} /\ MaxId \in Nat /\ MaxWorkersClicks \in Nat /\ MaxServerRestarts \in Nat

VARIABLES
  wpConnected, \* the workers of the registry
  wpNext,      \* nextWorkerId
  wpStopping,  \* connections whose removal waits for its 100 ms
  wpExited,    \* processes told to exit
  wpList,      \* the tab's workers
  wpConfirm,   \* confirmDisconnectWorker
  wpChosen,    \* workerToDisconnect, 0 for null
  wpRequests,  \* requests under way
  wpClicks, wpRestarts,
  wpStale,     \* for the properties: the server restarted since the list was asked for
  wpHit        \* for the properties: processes meant and shut down

wpVars == <<wpConnected, wpNext, wpStopping, wpExited, wpList, wpConfirm, wpChosen, wpRequests,
            wpClicks, wpRestarts, wpStale, wpHit>>

Worker(id, p) == [id |-> id, process |-> p]

(* seen: the list when the request was sent, or the one it answers;        *)
(* worker: whom it is about; age: "stale" if wpStale when it was sent;     *)
(* tab: "left" once the WorkersTab that sent it is unmounted.              *)
WorkersRequest(n, kind, worker, seen, age) ==
  [n |-> n, kind |-> kind, worker |-> worker, seen |-> seen, state |-> "sent", age |-> age,
   tab |-> "mounted"]

Anyone == Worker(0, CHOOSE p \in Processes : TRUE)

WorkersPageInit ==
  /\ wpConnected = {} /\ wpNext = 1 /\ wpStopping = {} /\ wpExited = {}
  /\ wpList = {} /\ wpConfirm = FALSE /\ wpChosen = Anyone
  /\ wpRequests = {WorkersRequest(0, "load", Anyone, {}, "fresh")}
  /\ wpClicks = 0 /\ wpRestarts = 0
  /\ wpStale = FALSE /\ wpHit = {}

Page == <<wpList, wpConfirm, wpChosen, wpClicks, wpStale>>

-----------------------------------------------------------------------------
(* The server.                                                             *)

(* Mutant: the number of a new worker is the number of workers.            *)
NewIdByCount == Cardinality(wpConnected) + 1
NewId == wpNext

Connect(p) ==
  /\ p \notin wpExited /\ wpNext <= MaxId /\ \A w \in wpConnected : w.process # p
  /\ wpConnected' = wpConnected \cup {Worker(NewId, p)}
  /\ wpNext' = wpNext + 1
  /\ UNCHANGED <<wpStopping, wpExited, wpRequests, wpRestarts, wpHit, Page>>

(* handleWorkerClose.                                                      *)
Close(w) ==
  /\ wpConnected' = wpConnected \ {w}
  /\ UNCHANGED <<wpNext, wpStopping, wpExited, wpRequests, wpRestarts, wpHit, Page>>

(* Requests the server has not answered fail.                              *)
ServerRestart ==
  /\ wpRestarts < MaxServerRestarts /\ wpRestarts' = wpRestarts + 1
  /\ wpConnected' = {} /\ wpNext' = 1 /\ wpStopping' = {}
  /\ wpRequests' = {[r EXCEPT !.state = IF @ = "sent" THEN "failed" ELSE @] : r \in wpRequests}
  /\ wpStale' = TRUE
  /\ UNCHANGED <<wpExited, wpList, wpConfirm, wpChosen, wpClicks, wpHit>>

WorkersNow(r, state, seen) ==
  (wpRequests \ {r}) \cup {[r EXCEPT !.state = state, !.seen = seen]}

GetWorkers(r) ==
  /\ r.kind = "load" /\ r.state = "sent"
  /\ wpRequests' = WorkersNow(r, "ok", wpConnected)
  /\ UNCHANGED <<wpConnected, wpNext, wpStopping, wpExited, wpRestarts, wpHit, Page>>

(* disconnectWorker: the number is looked up, the process is told to exit. *)
DisconnectWorker(r) ==
  /\ r.kind = "disconnect" /\ r.state = "sent"
  /\ \E w \in wpConnected :
       /\ w.id = r.worker.id
       /\ wpStopping' = wpStopping \cup {w.id}
       /\ wpExited' = wpExited \cup {w.process}
       /\ wpHit' = IF r.age = "stale" THEN wpHit ELSE wpHit \cup {<<r.worker.process, w.process>>}
  /\ wpRequests' = WorkersNow(r, "ok", r.seen)
  /\ UNCHANGED <<wpConnected, wpNext, wpRestarts, Page>>

NotFound(r) ==
  /\ r.kind = "disconnect" /\ r.state = "sent"
  /\ \A w \in wpConnected : w.id # r.worker.id
  /\ wpRequests' = WorkersNow(r, "failed", r.seen)
  /\ UNCHANGED <<wpConnected, wpNext, wpStopping, wpExited, wpRestarts, wpHit, Page>>

RemoveWorker(id) ==
  /\ id \in wpStopping /\ wpStopping' = wpStopping \ {id}
  /\ wpConnected' = {w \in wpConnected : w.id # id}
  /\ UNCHANGED <<wpNext, wpExited, wpRequests, wpRestarts, wpHit, Page>>

-----------------------------------------------------------------------------
(* The tab.                                                                *)

WorkersAnswered(r) ==
  /\ r.kind = "load" /\ r.state # "sent"
  /\ wpRequests' = wpRequests \ {r}
  /\ wpList' = IF r.tab = "mounted" THEN r.seen ELSE wpList
  /\ UNCHANGED <<wpConnected, wpNext, wpStopping, wpExited, wpConfirm, wpChosen, wpClicks,
                 wpRestarts, wpStale, wpHit>>

(* initiateDisconnectWorker.                                               *)
ChooseWorker(w) ==
  /\ ~wpConfirm
  /\ wpConfirm' = TRUE /\ wpChosen' = w
  /\ UNCHANGED <<wpConnected, wpNext, wpStopping, wpExited, wpList, wpRequests, wpClicks,
                 wpRestarts, wpStale, wpHit>>

Cancel ==
  /\ wpConfirm /\ wpConfirm' = FALSE
  /\ UNCHANGED <<wpConnected, wpNext, wpStopping, wpExited, wpList, wpChosen, wpRequests, wpClicks,
                 wpRestarts, wpStale, wpHit>>

WorkersClick == wpClicks < MaxWorkersClicks /\ wpClicks' = wpClicks + 1

Disconnecting == \E r \in wpRequests : r.kind = "disconnect" /\ r.tab = "mounted"

Age == IF wpStale THEN "stale" ELSE "fresh"

(* The dialog closes at the click; the request keeps the list of now.      *)
Confirm ==
  /\ wpConfirm /\ wpConfirm' = FALSE
  /\ wpChosen # Anyone /\ WorkersClick
  /\ wpRequests' = wpRequests \cup {WorkersRequest(wpClicks', "disconnect", wpChosen, wpList, Age)}
  /\ UNCHANGED <<wpConnected, wpNext, wpStopping, wpExited, wpList, wpChosen, wpRestarts, wpStale, wpHit>>

Without(list, w) == list \ {w}

(* disconnectWorker: the list of the click without the worker, and in      *)
(* finally whatever dialog is open by then is closed.                      *)
DisconnectAnswered(r) ==
  /\ r.kind = "disconnect" /\ r.state # "sent"
  /\ wpRequests' = wpRequests \ {r}
  /\ IF r.tab = "mounted"
       THEN /\ wpList' = IF r.state = "ok" THEN Without(r.seen, r.worker) ELSE wpList
            /\ wpConfirm' = FALSE /\ wpChosen' = Anyone
       ELSE UNCHANGED <<wpList, wpConfirm, wpChosen>>
  /\ UNCHANGED <<wpConnected, wpNext, wpStopping, wpExited, wpClicks, wpRestarts, wpStale, wpHit>>

(* Another tab of the settings and back.                                   *)
ReturnToWorkers ==
  /\ ~wpConfirm /\ WorkersClick
  /\ wpList' = {} /\ wpChosen' = Anyone
  /\ wpRequests' = {[r EXCEPT !.tab = "left"] : r \in wpRequests}
                     \cup {WorkersRequest(wpClicks', "load", Anyone, {}, "fresh")}
  /\ wpStale' = FALSE
  /\ UNCHANGED <<wpConnected, wpNext, wpStopping, wpExited, wpConfirm, wpRestarts, wpHit>>

WorkersPageNext ==
  \/ \E p \in Processes : Connect(p)
  \/ \E w \in wpConnected : Close(w)
  \/ ServerRestart
  \/ \E r \in wpRequests :
       GetWorkers(r) \/ DisconnectWorker(r) \/ NotFound(r) \/ WorkersAnswered(r) \/ DisconnectAnswered(r)
  \/ \E id \in wpStopping : RemoveWorker(id)
  \/ \E w \in wpList : ChooseWorker(w)
  \/ Cancel \/ Confirm \/ ReturnToWorkers

WorkersPageSpec == WorkersPageInit /\ [][WorkersPageNext]_wpVars
-----------------------------------------------------------------------------
(* Properties.                                                             *)

(* The process shut down is the one on the card, though the request names  *)
(* only a number and workers come and go meanwhile - unless the server     *)
(* restarted since the list was asked for and gave the numbers anew.       *)
TheOneOnTheCard == \A h \in wpHit : h[1] = h[2]
=============================================================================
