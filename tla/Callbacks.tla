------------------------------- MODULE Callbacks -------------------------------
(***************************************************************************)
(* Callbacks of modules (services/callbacks.ts), for one callback: the row *)
(* in module_callbacks, the requests that trigger it over HTTP             *)
(* (controllers/callbacks.ts), and the DNS service that reassembles a      *)
(* payload sent in chunks and triggers it too (services/dns.ts).           *)
(*                                                                         *)
(* One event loop; everything between two awaits is one action.  Queries   *)
(* that are not for the zone of the server change nothing and are left     *)
(* out.                                                                    *)
(***************************************************************************)
EXTENDS Naturals, Sequences, FiniteSets

CONSTANTS
  HttpTriggers, \* requests to /cb/:uuid
  DnsTriggers,  \* bound: transfers that may be complete at once
  Senders,      \* clients that send their own payload by DNS
  Total,        \* chunks of a payload
  MaxArrivals,  \* bound: chunks that arrive, duplicates included
  NoSession, NoChunk

Triggers == HttpTriggers \cup DnsTriggers
Chunks == 1..Total

Session == [id : Nat, chunks : [Chunks -> Senders \cup {NoChunk}], received : Nat, old : BOOLEAN]

ASSUME CallbackAssumption ==
  /\ HttpTriggers \cap DnsTriggers = {} /\ NoChunk \notin Senders /\ NoSession \notin Session
  /\ Total \in Nat \ {0} /\ MaxArrivals \in Nat

VARIABLES
  cbRow,      \* the row of module_callbacks
  cbAge,      \* "early" before effectiveAt, "active", "expired"
  cbHandler,  \* callbackHandlers has the module's handler
  cbPc,       \* where each triggerCallback is
  cbDone,     \* for the properties: triggers that have updated the row
  cbPrior,    \* for the properties: cbDone when the trigger read the row
  dnsUp,      \* the service listens
  dnsSession, \* chunkBuffer at the callback's uuid
  dnsHeld,    \* session each DNS trigger is finalizing
  dnsArrived, \* arrivals of each chunk so far, for the bound
  dnsStarted, \* sessions begun
  dnsExpired  \* for the properties: those swept while being finalized

cbVars == <<cbRow, cbAge, cbHandler, cbPc, cbDone, cbPrior>>
dnsVars == <<dnsUp, dnsSession, dnsHeld, dnsArrived, dnsStarted, dnsExpired>>
callbackVars == <<cbVars, dnsVars>>

RowStored == cbRow.state = "stored"

CallbackInit ==
  /\ cbRow = [state |-> "none", single |-> FALSE, count |-> 0]
  /\ cbAge = "early" /\ cbHandler = FALSE
  /\ cbPc = [t \in Triggers |-> "idle"]
  /\ cbDone = {} /\ cbPrior = [t \in Triggers |-> {}]
  /\ dnsUp = TRUE /\ dnsSession = NoSession
  /\ dnsHeld = [t \in DnsTriggers |-> 0]
  /\ dnsArrived = [c \in Chunks |-> 0]
  /\ dnsStarted = 0 /\ dnsExpired = {}

-----------------------------------------------------------------------------
(* The module's side.                                                      *)

(* createCallback, with or without a delay and for one trigger or many.    *)
CreateCallback ==
  /\ cbRow.state = "none"
  /\ \E single \in BOOLEAN : cbRow' = [state |-> "stored", single |-> single, count |-> 0]
  /\ cbAge' \in {"early", "active"}
  /\ UNCHANGED <<cbHandler, cbPc, cbDone, cbPrior, dnsVars>>

(* deleteCallback, deleteAllCallbacks.                                     *)
DeleteCallback ==
  /\ RowStored
  /\ cbRow' = [cbRow EXCEPT !.state = "deleted"]
  /\ UNCHANGED <<cbAge, cbHandler, cbPc, cbDone, cbPrior, dnsVars>>

(* registerCallbackHandler; unregisterCallbackHandler at the module's end. *)
SetHandler ==
  /\ cbHandler' = ~cbHandler
  /\ UNCHANGED <<cbRow, cbAge, cbPc, cbDone, cbPrior, dnsVars>>

(* effectiveAt, then expiresAt passes.                                     *)
TimePasses ==
  /\ RowStored
  /\ \/ cbAge = "early" /\ cbAge' = "active"
     \/ cbAge = "active" /\ cbAge' = "expired"
  /\ UNCHANGED <<cbRow, cbHandler, cbPc, cbDone, cbPrior, dnsVars>>

-----------------------------------------------------------------------------
(* triggerCallback.                                                        *)

Move(t, to) == cbPc' = [cbPc EXCEPT ![t] = to]

(* The end of triggerCallback in finalizeTransfer: the finally removes     *)
(* whatever session the key has by then.                                   *)
TransferEnded(t) ==
  IF t \in DnsTriggers
  THEN dnsSession' = NoSession /\ dnsHeld' = [dnsHeld EXCEPT ![t] = 0]
  ELSE UNCHANGED <<dnsSession, dnsHeld>>

(* A request to /cb/:uuid.                                                 *)
HandleCallback(t) ==
  /\ cbPc[t] = "idle"
  /\ Move(t, "select")
  /\ UNCHANGED <<cbRow, cbAge, cbHandler, cbDone, cbPrior, dnsVars>>

(* Mutant: two triggers are taken for none.                                *)
SpentAfterTwo(row) == row.single /\ row.count > 1

(* A callback for one trigger that has had it.                             *)
Spent(row) == row.single /\ row.count > 0

(* The row was read and checked.                                           *)
RowSelected(t) ==
  /\ cbPc[t] = "select"
  /\ RowStored /\ cbAge = "active" /\ ~Spent(cbRow)
  /\ cbPrior' = [cbPrior EXCEPT ![t] = cbDone]
  /\ Move(t, "update")
  /\ UNCHANGED <<cbRow, cbAge, cbHandler, cbDone, dnsVars>>

(* Not found, expired, not active yet, already triggered; or the SELECT    *)
(* or the UPDATE failed.                                                   *)
Refused(t) ==
  /\ cbPc[t] \in {"select", "update"}
  /\ Move(t, "refused")
  /\ TransferEnded(t)
  /\ UNCHANGED <<cbRow, cbAge, cbHandler, cbDone, cbPrior,
                 dnsUp, dnsArrived, dnsStarted, dnsExpired>>

(* triggerCount = triggerCount + 1, in the database.                       *)
Count(t) == cbRow.count + 1

(* The row was updated, if it is still there; the module's handler is      *)
(* looked up, and its call scheduled.                                      *)
RowUpdated(t) ==
  /\ cbPc[t] = "update"
  /\ cbRow' = IF RowStored THEN [cbRow EXCEPT !.count = Count(t)] ELSE cbRow
  /\ cbDone' = cbDone \cup {t}
  /\ Move(t, IF cbHandler THEN "call" ELSE "done")
  /\ TransferEnded(t)
  /\ UNCHANGED <<cbAge, cbHandler, cbPrior, dnsUp, dnsArrived, dnsStarted, dnsExpired>>

(* The UPDATE was committed and its acknowledgement lost: withRetry sends  *)
(* it again.  Bound: one such count at a time.                             *)
UpdateUnacknowledged(t) ==
  /\ cbPc[t] = "update"
  /\ RowStored /\ cbRow.count = Cardinality(cbDone)
  /\ cbRow' = [cbRow EXCEPT !.count = Count(t)]
  /\ UNCHANGED <<cbAge, cbHandler, cbPc, cbDone, cbPrior, dnsVars>>

(* The setImmediate turn of the handler.                                   *)
HandlerCalled(t) ==
  /\ cbPc[t] = "call"
  /\ Move(t, "done")
  /\ UNCHANGED <<cbRow, cbAge, cbHandler, cbDone, cbPrior, dnsVars>>

-----------------------------------------------------------------------------
(* The DNS service.                                                        *)

NewSession ==
  [id |-> dnsStarted + 1, chunks |-> [c \in Chunks |-> NoChunk], received |-> 0, old |-> FALSE]

(* The session once chunk c of sender who was taken.                       *)
Fill(s, c, who) ==
  IF s.chunks[c] # NoChunk THEN [s EXCEPT !.old = FALSE]
  ELSE [s EXCEPT !.chunks[c] = who, !.received = @ + 1, !.old = FALSE]

(* Mutant: the buffer is cleared before the callback is awaited as well.   *)
WhileFinalizingNone(s) == NoSession

(* A complete session stays in the buffer while the callback is awaited.   *)
WhileFinalizing(s) == s

(* handleQuery, processChunk, and the start of finalizeTransfer: with the  *)
(* last chunk the payload is decoded, which may fail when the chunks are   *)
(* of two senders, and the callback triggered.                             *)
ChunkArrives(c, who) ==
  /\ dnsUp
  /\ dnsArrived' = [dnsArrived EXCEPT ![c] = @ + 1]
  /\ LET s == IF dnsSession = NoSession THEN NewSession ELSE dnsSession
         f == Fill(s, c, who)
         complete == f.received = Total /\ f.received # s.received
         mixed == Cardinality({f.chunks[x] : x \in Chunks}) > 1
     IN /\ dnsStarted' = IF dnsSession = NoSession THEN s.id ELSE dnsStarted
        /\ \/ /\ ~complete
              /\ dnsSession' = f
              /\ UNCHANGED <<cbPc, dnsHeld>>
           \/ /\ complete
              /\ \E t \in DnsTriggers :
                   /\ cbPc[t] = "idle"
                   /\ Move(t, "select")
                   /\ dnsHeld' = [dnsHeld EXCEPT ![t] = s.id]
              /\ dnsSession' = WhileFinalizing(f)
           \/ /\ complete /\ mixed
              /\ dnsSession' = NoSession
              /\ UNCHANGED <<cbPc, dnsHeld>>
  /\ UNCHANGED <<cbRow, cbAge, cbHandler, cbDone, cbPrior, dnsUp, dnsExpired>>

(* 60 seconds pass without a chunk.                                        *)
SessionAges ==
  /\ dnsSession # NoSession /\ ~dnsSession.old
  /\ dnsSession' = [dnsSession EXCEPT !.old = TRUE]
  /\ UNCHANGED <<cbVars, dnsUp, dnsHeld, dnsArrived, dnsStarted, dnsExpired>>

Swept(s) == s.old

(* The session was swept while its transfer was being finalized.           *)
Expired(s) == dnsExpired \cup {dnsHeld[t] : t \in {u \in DnsTriggers : dnsHeld[u] = s.id}}

(* The timer that removes incomplete transfers; it takes a transfer that   *)
(* is being finalized for one of them.                                     *)
CleanupTimer ==
  /\ dnsSession # NoSession /\ Swept(dnsSession)
  /\ dnsSession' = NoSession
  /\ dnsExpired' = Expired(dnsSession)
  /\ UNCHANGED <<cbVars, dnsUp, dnsHeld, dnsArrived, dnsStarted>>

(* stop, or an error of the socket: the port is closed, the buffer         *)
(* cleared.                                                                *)
DnsShutdown ==
  /\ dnsUp
  /\ dnsUp' = FALSE
  /\ dnsSession' = NoSession
  /\ dnsExpired' = IF dnsSession = NoSession THEN dnsExpired ELSE Expired(dnsSession)
  /\ UNCHANGED <<cbVars, dnsHeld, dnsArrived, dnsStarted>>

-----------------------------------------------------------------------------
Arrivals(f) == Cardinality(UNION {{c} \X (1..f[c]) : c \in Chunks})

CallbackStep(t) == RowSelected(t) \/ Refused(t) \/ RowUpdated(t) \/ HandlerCalled(t)

CallbackNext ==
  \/ CreateCallback \/ DeleteCallback \/ SetHandler \/ TimePasses
  \/ \E t \in HttpTriggers : HandleCallback(t)
  \/ \E t \in Triggers : CallbackStep(t) \/ UpdateUnacknowledged(t)
  \/ Arrivals(dnsArrived) < MaxArrivals /\ \E c \in Chunks, who \in Senders : ChunkArrives(c, who)
  \/ SessionAges \/ CleanupTimer \/ DnsShutdown

CallbackSpec == CallbackInit /\ [][CallbackNext]_callbackVars
-----------------------------------------------------------------------------
(* Properties.                                                             *)

(* A callback that does not allow multiple triggers is triggered again     *)
(* only by requests that were all in progress at once: each of them read   *)
(* the row before any of the others had updated it.                        *)
SecondOnlyOverlapping ==
  RowStored /\ cbRow.single => \A t \in cbDone : cbPrior[t] = {}

(* The finally of finalizeTransfer removes by key: it removes another      *)
(* transfer's session only after the timer swept one that was still being  *)
(* finalized, this or an earlier one, the database having taken over a     *)
(* minute: from then on each may remove its successor's.                   *)
RemovesItsOwn ==
  \A t \in DnsTriggers :
    dnsHeld[t] # 0 =>
      \/ dnsExpired \cap 1..dnsHeld[t] # {}
      \/ dnsSession # NoSession /\ dnsSession.id = dnsHeld[t]
=============================================================================
