---------------------------- MODULE PagesProofs -----------------------------
(***************************************************************************)
(* Proofs about the pages of the web application: what a page shows, or    *)
(* sends, is what the server has and what the user chose, whatever other   *)
(* requests of the same page answer in between. Each page has an invariant *)
(* of its own, kept by every step of the page.                             *)
(***************************************************************************)
EXTENDS WorkersPage, TargetDialog, ModulesPage, AlertsPage, SettingsPage, Notifications,
        TLAPS

-----------------------------------------------------------------------------
(***************************************************************************)
(* Proof about WorkersPage: a disconnect that names a worker by its number *)
(* shuts down the process on the card.                                     *)
(***************************************************************************)

WorkerType == [id : Nat, process : Processes]

RequestType ==
  [n : Nat, kind : {"load", "disconnect"}, worker : WorkerType, seen : SUBSET WorkerType,
   state : {"sent", "ok", "failed"}, age : {"fresh", "stale"},
   tab : {"mounted", "left"}]

WorkersType ==
  /\ wpConnected \subseteq WorkerType /\ wpList \subseteq WorkerType
  /\ wpChosen \in WorkerType
  /\ wpRequests \subseteq RequestType
  /\ wpNext \in Nat \ {0} /\ wpClicks \in Nat

(* Worker w's number was not given to another one since the last restart.  *)
Unambiguous(w) == w.id < wpNext /\ \A v \in wpConnected : v.id = w.id => v = w

(* What the page shows and what it has asked for is unambiguous, unless    *)
(* the server restarted meanwhile.                                         *)
WorkersInv ==
  /\ WorkersType
  /\ \A w \in wpConnected : w.id > 0 /\ Unambiguous(w)
  /\ ~wpStale => \A w \in wpList \cup {wpChosen} : Unambiguous(w)
  /\ \A r \in wpRequests : r.tab = "mounted" /\ ~wpStale => \A w \in r.seen : Unambiguous(w)
  /\ \A r \in wpRequests :
       r.kind = "disconnect" /\ r.state = "sent" /\ r.age = "fresh" => Unambiguous(r.worker)
  /\ TheOneOnTheCard

(* The value that stands for null is a worker no connection ever was.      *)
LEMMA AnyoneType == Anyone \in WorkerType /\ Anyone.id = 0
BY WorkersPageAssumption DEF Anyone, Worker, WorkerType

(* A request that the server answers keeps everything but state and seen.  *)
LEMMA AnswerFacts ==
  ASSUME NEW r \in RequestType, NEW state \in {"ok", "failed"}, NEW seen \in SUBSET WorkerType
  PROVE  LET q == [r EXCEPT !.state = state, !.seen = seen]
         IN /\ q \in RequestType /\ q.state = state /\ q.seen = seen
            /\ q.kind = r.kind /\ q.worker = r.worker /\ q.tab = r.tab /\ q.age = r.age
<1> DEFINE q == [r EXCEPT !.state = state, !.seen = seen]
<1>1. q \in RequestType
  BY Zenon DEF RequestType
<1>2. q.state = state /\ q.seen = seen /\ q.kind = r.kind /\ q.worker = r.worker
  BY SMT DEF RequestType
<1>3. q.tab = r.tab /\ q.age = r.age
  BY SMT DEF RequestType
<1> QED BY <1>1, <1>2, <1>3

(* What a request looks like when it is sent.                              *)
LEMMA RequestFacts ==
  ASSUME NEW n \in Nat, NEW kind \in {"load", "disconnect"}, NEW worker \in WorkerType,
         NEW seen \in SUBSET WorkerType,
         NEW age \in {"fresh", "stale"}
  PROVE  LET q == WorkersRequest(n, kind, worker, seen, age)
         IN /\ q \in RequestType /\ q.state = "sent" /\ q.seen = seen
            /\ q.kind = kind /\ q.worker = worker /\ q.tab = "mounted"
            /\ q.age = age
BY SMT DEF RequestType, WorkersRequest

(* Nothing is connected yet, and the page asks for the list.               *)
LEMMA WorkersInvInit == WorkersPageInit => WorkersInv
<1> SUFFICES ASSUME WorkersPageInit PROVE WorkersInv
  OBVIOUS
<1> DEFINE q == WorkersRequest(0, "load", Anyone, {}, "fresh")
<1>1. q \in RequestType /\ q.seen = {} /\ q.kind = "load"
  <2>1. /\ 0 \in Nat /\ "load" \in {"load", "disconnect"} /\ {} \in SUBSET WorkerType
        /\ "fresh" \in {"fresh", "stale"}
    OBVIOUS
  <2> QED BY <2>1, AnyoneType, RequestFacts
<1>2. wpRequests = {q}
  BY DEF WorkersPageInit
<1> HIDE DEF q
<1>3. WorkersType /\ TheOneOnTheCard
  BY <1>1, <1>2, AnyoneType, SMT DEF WorkersPageInit, WorkersType, TheOneOnTheCard
<1>4. wpConnected = {} /\ wpList = {} /\ Unambiguous(wpChosen)
  BY AnyoneType, SMT DEF WorkersPageInit, Unambiguous
<1> QED BY <1>1, <1>2, <1>3, <1>4, Zenon DEF WorkersInv

(* Every step of server, workers and page preserves it.                    *)
LEMMA WorkersInvNext == WorkersInv /\ [WorkersPageNext]_wpVars => WorkersInv'
<1> SUFFICES ASSUME WorkersInv, [WorkersPageNext]_wpVars PROVE WorkersInv'
  OBVIOUS
<1> USE DEF WorkersInv, WorkersType, Unambiguous, TheOneOnTheCard
<1>1. ASSUME NEW p \in Processes, Connect(p) PROVE WorkersInv'
  <2> DEFINE w == Worker(wpNext, p)
  <2>1. w \in WorkerType /\ w.id = wpNext
    BY SMT DEF Worker, WorkerType
  <2>2. wpConnected' = wpConnected \cup {w} /\ wpNext' = wpNext + 1
    BY <1>1 DEF Connect, NewId
  <2>3. \A v \in WorkerType : v.id \in Nat
    BY SMT DEF WorkerType
  <2>4. UNCHANGED <<wpRequests, wpHit, Page>>
    BY <1>1 DEF Connect
  <2> HIDE DEF w
  <2> QED BY <2>1, <2>2, <2>3, <2>4, SMT DEF Page, RequestType
<1>2. ASSUME NEW w \in wpConnected, Close(w) PROVE WorkersInv'
  BY <1>2, SMT DEF Close, Page
<1>3. CASE ServerRestart
  BY <1>3, SMT DEF ServerRestart, RequestType
<1>4. ASSUME NEW r \in wpRequests, GetWorkers(r) PROVE WorkersInv'
  <2> DEFINE q == [r EXCEPT !.state = "ok", !.seen = wpConnected]
  <2>1. r \in RequestType /\ r.seen \in SUBSET WorkerType
    BY SMT DEF RequestType
  <2>2. /\ q \in RequestType /\ q.state = "ok" /\ q.seen = wpConnected
        /\ q.kind = r.kind /\ q.worker = r.worker /\ q.tab = r.tab /\ q.age = r.age
    BY <2>1, AnswerFacts, Zenon
  <2>3. wpRequests' = (wpRequests \ {r}) \cup {q}
    BY <1>4 DEF GetWorkers, WorkersNow
  <2> HIDE DEF q
  <2> QED BY <1>4, <2>1, <2>2, <2>3, SMT DEF GetWorkers, Page
<1>5. ASSUME NEW r \in wpRequests, DisconnectWorker(r) PROVE WorkersInv'
  <2> DEFINE q == [r EXCEPT !.state = "ok", !.seen = r.seen]
  <2>1. r \in RequestType /\ r.seen \in SUBSET WorkerType
    BY SMT DEF RequestType
  <2>2. /\ q \in RequestType /\ q.state = "ok" /\ q.seen = r.seen
        /\ q.kind = r.kind /\ q.worker = r.worker /\ q.tab = r.tab /\ q.age = r.age
    BY <2>1, AnswerFacts, Zenon
  <2>3. wpRequests' = (wpRequests \ {r}) \cup {q}
    BY <1>5 DEF DisconnectWorker, WorkersNow
  <2> HIDE DEF q
  <2>4. PICK w \in wpConnected :
          /\ w.id = r.worker.id
          /\ wpHit' = IF r.age = "stale" THEN wpHit ELSE wpHit \cup {<<r.worker.process, w.process>>}
    BY <1>5 DEF DisconnectWorker
  <2>5. /\ r.kind = "disconnect" /\ r.state = "sent"
        /\ UNCHANGED <<wpConnected, wpNext, wpList, wpChosen, wpStale, wpClicks>>
    BY <1>5 DEF DisconnectWorker, Page
  <2>6. r.age = "fresh" => w = r.worker
    BY <2>4, <2>5
  <2>7. TheOneOnTheCard'
    BY <2>1, <2>4, <2>6, SMT DEF RequestType
  <2> QED BY <2>1, <2>2, <2>3, <2>5, <2>7, SMT
<1>6. ASSUME NEW r \in wpRequests, NotFound(r) PROVE WorkersInv'
  <2> DEFINE q == [r EXCEPT !.state = "failed", !.seen = r.seen]
  <2>1. r \in RequestType /\ r.seen \in SUBSET WorkerType
    BY SMT DEF RequestType
  <2>2. /\ q \in RequestType /\ q.state = "failed" /\ q.seen = r.seen
        /\ q.kind = r.kind /\ q.worker = r.worker /\ q.tab = r.tab /\ q.age = r.age
    BY <2>1, AnswerFacts, Zenon
  <2>3. wpRequests' = (wpRequests \ {r}) \cup {q}
    BY <1>6 DEF NotFound, WorkersNow
  <2> HIDE DEF q
  <2> QED BY <1>6, <2>1, <2>2, <2>3, SMT DEF NotFound, Page
<1>7. ASSUME NEW r \in wpRequests, WorkersAnswered(r) PROVE WorkersInv'
  BY <1>7, SMT DEF WorkersAnswered, RequestType
<1>8. ASSUME NEW r \in wpRequests, DisconnectAnswered(r) PROVE WorkersInv'
  BY <1>8, AnyoneType, SMT DEF DisconnectAnswered, RequestType, Without
<1>9. ASSUME NEW id \in wpStopping, RemoveWorker(id) PROVE WorkersInv'
  BY <1>9, SMT DEF RemoveWorker, Page
<1>10. ASSUME NEW w \in wpList, ChooseWorker(w) PROVE WorkersInv'
  BY <1>10, SMT DEF ChooseWorker
<1>11. CASE Cancel
  BY <1>11, SMT DEF Cancel
<1>12. CASE Confirm
  <2> DEFINE q == WorkersRequest(wpClicks', "disconnect", wpChosen, wpList, Age)
  <2>1. wpClicks' \in Nat
    BY <1>12, SMT DEF Confirm, WorkersClick
  <2>2. /\ q \in RequestType /\ q.state = "sent" /\ q.seen = wpList /\ q.kind = "disconnect"
        /\ q.worker = wpChosen /\ q.age = Age
    <3>1. /\ "disconnect" \in {"load", "disconnect"} /\ wpList \in SUBSET WorkerType
          /\ Age \in {"fresh", "stale"}
      BY DEF Age
    <3> QED BY <2>1, <3>1, RequestFacts, SMT
  <2>3. wpRequests' = wpRequests \cup {q}
    BY <1>12 DEF Confirm
  <2> HIDE DEF q
  <2> QED BY <1>12, <2>1, <2>2, <2>3, SMT DEF Confirm, Age
<1>13. CASE ReturnToWorkers
  <2> DEFINE q == WorkersRequest(wpClicks', "load", Anyone, {}, "fresh")
  <2>1. wpClicks' \in Nat
    BY <1>13, SMT DEF ReturnToWorkers, WorkersClick
  <2>2. q \in RequestType /\ q.seen = {} /\ q.kind = "load"
    <3>1. "load" \in {"load", "disconnect"} /\ {} \in SUBSET WorkerType /\ "fresh" \in {"fresh", "stale"}
      OBVIOUS
    <3> QED BY <2>1, <3>1, AnyoneType, RequestFacts, SMT
  <2>3. wpRequests' = {[r EXCEPT !.tab = "left"] : r \in wpRequests} \cup {q}
    BY <1>13 DEF ReturnToWorkers
  <2>4. ASSUME NEW r \in wpRequests
        PROVE  LET o == [r EXCEPT !.tab = "left"]
               IN /\ o \in RequestType /\ o.tab = "left"
                  /\ o.kind = r.kind /\ o.state = r.state /\ o.worker = r.worker
                  /\ o.age = r.age
    BY SMT DEF RequestType
  <2> HIDE DEF q
  <2>5. /\ wpList' = {} /\ wpChosen' = Anyone /\ UNCHANGED <<wpConnected, wpNext, wpHit>>
    BY <1>13 DEF ReturnToWorkers
  <2>6. wpRequests' \subseteq RequestType
    BY <2>2, <2>3, <2>4
  <2>7. ASSUME NEW o \in wpRequests', o # q
        PROVE  /\ o.tab = "left"
               /\ o.kind = "disconnect" /\ o.state = "sent" /\ o.age = "fresh" =>
                    Unambiguous(o.worker)
    <3>1. PICK r \in wpRequests : o = [r EXCEPT !.tab = "left"]
      BY <2>3, <2>7
    <3>2. /\ o.tab = "left" /\ o.kind = r.kind /\ o.state = r.state /\ o.worker = r.worker
          /\ o.age = r.age
      BY <2>4, <3>1, Zenon
    <3> QED BY <3>2, Zenon
  <2>8. Unambiguous(Anyone)
    BY AnyoneType, SMT
  <2>9. WorkersType'
    BY <2>1, <2>5, <2>6, AnyoneType, SMT
  <2> QED BY <2>2, <2>5, <2>7, <2>8, <2>9, SMT
<1>14. CASE UNCHANGED wpVars
  BY <1>14, SMT DEF wpVars
<1> QED
  BY <1>1, <1>2, <1>3, <1>4, <1>5, <1>6, <1>7, <1>8, <1>9, <1>10, <1>11, <1>12, <1>13, <1>14
  DEF WorkersPageNext

(* Numbers are given anew only by a restart, and a request that the server *)
(* still has to answer does not outlive one (websocket.ts nextWorkerId).   *)
THEOREM AlwaysTheOneOnTheCard == WorkersPageSpec => []TheOneOnTheCard
<1>1. WorkersInv => TheOneOnTheCard
  BY DEF WorkersInv
<1> QED BY <1>1, WorkersInvInit, WorkersInvNext, PTL DEF WorkersPageSpec

-----------------------------------------------------------------------------
(***************************************************************************)
(* TargetDialog: a dialog changes only what the user touches.              *)
(***************************************************************************)

(* A target in the database, a save and the dialog have all their parts.   *)
WholeTarget(t) == t = [p \in TargetParts |-> t[p]]

WholeSave(c) ==
  c = [pc |-> c.pc, mode |-> c.mode, data |-> c.data, override |-> c.override, next |-> c.next,
       failed |-> c.failed]

WholeDialog(d) ==
  /\ d = [save |-> d.save, form |-> d.form, override |-> d.override, tasks |-> d.tasks]
  /\ WholeTarget(d.form)

AnyTarget(t) == t = NewTarget \/ WholeTarget(t)

DialogShape ==
  /\ AnyTarget(tdServer)
  /\ WholeDialog(tdDialog)
  /\ tdSave = [s \in Saves |-> tdSave[s]]
  /\ \A s \in Saves : WholeSave(tdSave[s]) /\ tdSave[s].next \in Nat \ {0}
  /\ tdKept \in [Saves -> SUBSET TargetParts]
  /\ tdShown = [s \in Saves |-> tdShown[s]]
  /\ \A s \in Saves : DOMAIN tdShown[s] \subseteq TargetParts

(* What was read of the list, and is shown.                                *)
ListShape ==
  /\ AnyTarget(tdList)
  /\ tdFetch = [f \in 1..MaxFetches |-> tdFetch[f]]
  /\ \A f \in 1..MaxFetches :
       AnyTarget(tdFetch[f].list) /\ tdFetch[f] = [pc |-> tdFetch[f].pc, list |-> tdFetch[f].list]

(* The property, of one save.                                              *)
KeptBy(s) ==
  tdSave[s].pc \in {"open", "saving"} =>
    /\ \A p \in DOMAIN tdShown[s] : Agrees(p, SentOf(s, p), tdShown[s][p])
    /\ \A p \in tdKept[s] : Agrees(p, SentOf(s, p), tdServer[p])

(* Only the dialog's own save is open; of no target nothing is kept.       *)
DialogInv ==
  /\ DialogShape
  /\ ListShape
  /\ \A s \in Saves : tdSave[s].pc = "open" => tdDialog.save = s
  /\ tdServer = NewTarget => \A s \in Saves : tdKept[s] = {}
  /\ \A s \in Saves : KeptBy(s)

LEMMA TheParts ==
  /\ TargetParts = {"row", "subdomains", "outOfScope", "settings"} /\ Len(Requests) = 3
  /\ \A i \in 1..3 : Requests[i] \subseteq TargetParts
BY DEF TargetParts, Requests, TargetRow

(* A target of which some parts are replaced.                              *)
LEMMA WithFacts ==
  ASSUME NEW t, NEW parts \in SUBSET TargetParts, NEW new
  PROVE  /\ WholeTarget(With(t, parts, new)) /\ With(t, parts, new) # NewTarget
         /\ \A p \in TargetParts : With(t, parts, new)[p] = IF p \in parts THEN new[p] ELSE t[p]
<1>1. With(t, parts, new) = [p \in TargetParts |-> IF p \in parts THEN new[p] ELSE t[p]]
  BY DEF With
<1>2. DOMAIN With(t, parts, new) = TargetParts /\ DOMAIN NewTarget = {} /\ "row" \in TargetParts
  BY <1>1, TheParts DEF NewTarget
<1> QED BY <1>1, <1>2 DEF WholeTarget

(* A part of a save that changes, and those that do not.                   *)
LEMMA PcChanged ==
  ASSUME NEW c, WholeSave(c), NEW v, NEW e, e = [c EXCEPT !.pc = v]
  PROVE  WholeSave(e) /\ e.pc = v /\ e.data = c.data /\ e.next = c.next
BY DEF WholeSave

LEMMA DataChanged ==
  ASSUME NEW c, WholeSave(c), NEW v, NEW e, e = [c EXCEPT !.data = v]
  PROVE  WholeSave(e) /\ e.pc = c.pc /\ e.data = v /\ e.next = c.next
BY DEF WholeSave

LEMMA NextChanged ==
  ASSUME NEW c, WholeSave(c), NEW v, NEW e, e = [c EXCEPT !.next = v]
  PROVE  WholeSave(e) /\ e.pc = c.pc /\ e.data = c.data /\ e.next = v
BY DEF WholeSave

LEMMA RestChanged ==
  ASSUME NEW c, WholeSave(c), NEW v, NEW e,
         \/ e = [c EXCEPT !.mode = v] \/ e = [c EXCEPT !.override = v]
         \/ e = [c EXCEPT !.failed = v]
  PROVE  WholeSave(e) /\ e.pc = c.pc /\ e.data = c.data /\ e.next = c.next
BY DEF WholeSave

LEMMA OneSaveChanged ==
  ASSUME DialogShape, NEW s \in Saves, NEW e, tdSave' = [tdSave EXCEPT ![s] = e]
  PROVE  /\ tdSave' = [r \in Saves |-> tdSave'[r]] /\ tdSave'[s] = e
         /\ \A r \in Saves : r # s => tdSave'[r] = tdSave[r]
BY Zenon DEF DialogShape

(* A save that goes on as it was, or ends, and of whose parts none is      *)
(* written that is to be kept.                                             *)
LEMMA Undisturbed ==
  ASSUME NEW s \in Saves, KeptBy(s),
         tdSave'[s].data = tdSave[s].data,
         tdSave'[s].pc \in {"open", "saving"} => tdSave'[s].pc = tdSave[s].pc,
         tdSave'[s].pc = "open" => tdDialog'.form = tdDialog.form,
         tdKept'[s] \subseteq tdKept[s], tdShown'[s] = tdShown[s],
         \A p \in tdKept'[s] : tdServer'[p] = tdServer[p]
  PROVE  KeptBy(s)'
BY DEF KeptBy, SentOf, Agrees

(* Fetches of the list.                                                    *)
LEMMA ListsShaped ==
  ASSUME DialogInv,
         \/ \E f \in 1..MaxFetches : DbSelectList(f) \/ ListShown(f) \/ FetchFails(f)
         \/ UNCHANGED tdList /\ tdFetch' \in {tdFetch, FetchAsked}
  PROVE  ListShape'
<1>1. ListShape /\ AnyTarget(tdServer) /\ AnyTarget(NewTarget)
  BY DEF DialogInv, DialogShape, AnyTarget
<1>2. ASSUME NEW f, NEW e, e = [pc |-> e.pc, list |-> e.list], AnyTarget(e.list),
             AnyTarget(tdList'), tdFetch' = [tdFetch EXCEPT ![f] = e]
      PROVE  ListShape'
  <2>1. tdFetch' = [g \in 1..MaxFetches |-> IF g = f THEN e ELSE tdFetch[g]]
    BY <1>1, <1>2, Zenon DEF ListShape
  <2>2. ASSUME NEW g \in 1..MaxFetches
        PROVE  AnyTarget(tdFetch'[g].list)
               /\ tdFetch'[g] = [pc |-> tdFetch'[g].pc, list |-> tdFetch'[g].list]
    <3>1. CASE g = f
      <4>1. tdFetch'[g] = e
        BY <2>1, <3>1
      <4> QED BY <1>2, <4>1
    <3>2. CASE g # f
      <4>1. tdFetch'[g] = tdFetch[g]
        BY <2>1, <3>2
      <4> QED BY <1>1, <4>1 DEF ListShape
    <3> QED BY <3>1, <3>2
  <2> QED BY <1>2, <2>1, <2>2 DEF ListShape, AnyTarget, WholeTarget
<1>3. ASSUME NEW f, DbSelectList(f) PROVE ListShape'
  <2>1. tdFetch' = [tdFetch EXCEPT ![f] = [pc |-> "read", list |-> tdServer]] /\ tdList' = tdList
    BY <1>3 DEF DbSelectList
  <2> DEFINE e == [pc |-> "read", list |-> tdServer]
  <2>2. e = [pc |-> e.pc, list |-> e.list] /\ AnyTarget(e.list) /\ AnyTarget(tdList')
    BY <1>1, <2>1 DEF ListShape
  <2>3. tdFetch' = [tdFetch EXCEPT ![f] = e]
    BY <2>1
  <2> HIDE DEF e
  <2> QED BY <2>2, <2>3, <1>2
<1>8. ASSUME NEW f, AnyTarget(tdList'),
             tdFetch' = [tdFetch EXCEPT ![f] = [pc |-> "done", list |-> NewTarget]]
      PROVE  ListShape'
  <2> DEFINE e == [pc |-> "done", list |-> NewTarget]
  <2>1. e = [pc |-> e.pc, list |-> e.list] /\ AnyTarget(e.list)
    BY <1>1
  <2>2. tdFetch' = [tdFetch EXCEPT ![f] = e]
    BY <1>8
  <2> HIDE DEF e
  <2> QED BY <1>8, <2>1, <2>2, <1>2
<1>4. ASSUME NEW f, FetchFails(f) PROVE ListShape'
  <2>1. /\ tdFetch' = [tdFetch EXCEPT ![f] = [pc |-> "done", list |-> NewTarget]]
        /\ AnyTarget(tdList')
    BY <1>1, <1>4 DEF FetchFails
  <2> QED BY <1>1, <2>1, <1>8
<1>5. ASSUME NEW f \in 1..MaxFetches, ListShown(f) PROVE ListShape'
  <2>1. /\ tdFetch' = [tdFetch EXCEPT ![f] = [pc |-> "done", list |-> NewTarget]]
        /\ tdList' = tdFetch[f].list
    BY <1>5 DEF ListShown
  <2>2. AnyTarget(tdList')
    BY <1>1, <2>1 DEF ListShape
  <2> QED BY <1>1, <2>1, <2>2, <1>8
<1>6. CASE UNCHANGED tdList /\ tdFetch' = tdFetch
  BY <1>1, <1>6 DEF ListShape
<1>7. CASE UNCHANGED tdList /\ tdFetch' = FetchAsked
  <2> DEFINE f == CHOOSE f \in IdleFetches : \A g \in IdleFetches : f <= g
             e == [tdFetch[f] EXCEPT !.pc = "asked"]
  <2>1. tdFetch' = [tdFetch EXCEPT ![f] = e]
    BY <1>7 DEF FetchAsked
  <2>2. CASE f \in 1..MaxFetches
    <3>1. e = [pc |-> e.pc, list |-> e.list] /\ AnyTarget(e.list)
      BY <1>1, <2>2 DEF ListShape
    <3> QED BY <1>1, <1>2, <1>7, <2>1, <3>1 DEF ListShape
  <2>3. CASE f \notin 1..MaxFetches
    <3>1. tdFetch' = tdFetch
      BY <1>1, <2>1, <2>3, Zenon DEF ListShape
    <3> QED BY <1>6, <1>7, <3>1
  <2> QED BY <2>2, <2>3
<1> QED BY <1>3, <1>4, <1>5, <1>6, <1>7

(* Steps that write no target and end no save.                             *)
LEMMA DialogOnly ==
  ASSUME DialogInv, ListShape', UNCHANGED <<tdServer, tdSave, asShown>>, WholeDialog(tdDialog'),
         tdDialog'.save = tdDialog.save, tdDialog'.form = tdDialog.form
  PROVE  DialogInv'
<1>1. DialogShape'
  BY DEF DialogInv, DialogShape, AnyTarget, asShown
<1>2. \A s \in Saves : KeptBy(s)'
  BY Undisturbed DEF DialogInv, asShown
<1> QED BY <1>1, <1>2 DEF DialogInv, asShown

(* Steps after which no dialog is open.                                    *)
LEMMA AllClosed ==
  ASSUME DialogInv, ListShape', UNCHANGED <<tdServer, asShown>>, WholeDialog(tdDialog'),
         tdSave' = [s \in Saves |-> tdSave'[s]],
         \A s \in Saves : /\ WholeSave(tdSave'[s]) /\ tdSave'[s].next = tdSave[s].next
                          /\ tdSave'[s].data = tdSave[s].data /\ tdSave'[s].pc # "open"
                          /\ tdSave'[s].pc = "saving" => tdSave[s].pc = "saving"
  PROVE  DialogInv'
<1>1. DialogShape'
  BY DEF DialogInv, DialogShape, AnyTarget, asShown
<1>2. \A s \in Saves : KeptBy(s)'
  <2>1. SUFFICES ASSUME NEW s \in Saves PROVE KeptBy(s)'
    OBVIOUS
  <2>2. /\ KeptBy(s) /\ tdKept'[s] \subseteq tdKept[s] /\ tdShown'[s] = tdShown[s]
        /\ \A p \in tdKept'[s] : tdServer'[p] = tdServer[p]
    BY DEF DialogInv, asShown
  <2> QED BY <2>2, Undisturbed
<1> QED BY <1>1, <1>2 DEF DialogInv, asShown

LEMMA ClosedIsWhole == WholeDialog(Closed)
BY DEF WholeDialog, WholeTarget, Closed, Blank

LEMMA DialogStarts == DialogInit => DialogInv
<1> SUFFICES ASSUME DialogInit PROVE DialogInv
  OBVIOUS
<1>1. AnyTarget(tdServer) /\ ListShape
  <2>1. AnyTarget(tdServer)
    BY DEF DialogInit, AnyTarget, WholeTarget
  <2>2. tdList = tdServer
        /\ tdFetch = [f \in 1..MaxFetches |-> [pc |-> "idle", list |-> NewTarget]]
    BY DEF DialogInit
  <2> QED BY <2>1, <2>2 DEF ListShape, AnyTarget
<1>2. tdSave = [s \in Saves |-> tdSave[s]]
      /\ \A s \in Saves : WholeSave(tdSave[s]) /\ tdSave[s].next = 1 /\ tdSave[s].pc = "idle"
  BY DEF DialogInit, WholeSave
<1>3. /\ tdKept \in [Saves -> SUBSET TargetParts] /\ \A s \in Saves : tdKept[s] = {}
      /\ tdShown = [s \in Saves |-> tdShown[s]]
      /\ \A s \in Saves : DOMAIN tdShown[s] \subseteq TargetParts
  BY DEF DialogInit, NewTarget
<1>4. DialogShape
  <2>1. WholeDialog(tdDialog)
    BY ClosedIsWhole DEF DialogInit
  <2>2. \A s \in Saves : WholeSave(tdSave[s]) /\ tdSave[s].next \in Nat \ {0}
    BY <1>2
  <2> QED BY <1>1, <1>2, <1>3, <2>1, <2>2 DEF DialogShape
<1> QED BY <1>1, <1>2, <1>3, <1>4 DEF DialogInv, KeptBy

(* The dialog opens on the list: the form is what that shows, and what of  *)
(* it is up to date is so in the database.                                 *)
LEMMA OpensKeeps ==
  ASSUME DialogInv, ListShape', NEW s \in Saves, NEW mode, NEW form, Opens(s, mode, form),
         WholeTarget(form), tdList # NewTarget => form = Filled(tdList)
  PROVE  DialogInv'
<1> DEFINE c == tdSave[s]
           b == [c EXCEPT !.pc = "open"]
           e == [b EXCEPT !.mode = mode]
<1>1. /\ tdDialog.save = 0 /\ UNCHANGED tdServer
      /\ \E tasks : tdDialog' = [save |-> s, form |-> form, override |-> 0, tasks |-> tasks]
      /\ tdShown' = [tdShown EXCEPT ![s] = tdList]
      /\ tdKept' = [tdKept EXCEPT ![s] = IF NewTarget \in {tdList, tdServer} THEN {}
                                          ELSE {p \in TargetParts : tdList[p] = tdServer[p]}]
  BY DEF Opens
<1>2. tdSave' = [tdSave EXCEPT ![s] = e]
  BY DEF Opens, DialogInv, DialogShape
<1>3. /\ DialogShape /\ WholeSave(c) /\ c.next \in Nat \ {0}
      /\ tdKept \in [Saves -> SUBSET TargetParts] /\ tdShown = [r \in Saves |-> tdShown[r]]
      /\ AnyTarget(tdList)
  BY DEF DialogInv, DialogShape, ListShape
<1>4. WholeSave(b) /\ b.pc = "open" /\ b.data = c.data /\ b.next = c.next
  BY <1>3, PcChanged
<1> HIDE DEF b
<1>5. WholeSave(e) /\ e.pc = "open" /\ e.data = c.data /\ e.next = c.next
  BY <1>4, RestChanged
<1> HIDE DEF c, e
<1>6. /\ tdSave' = [r \in Saves |-> tdSave'[r]] /\ tdSave'[s] = e
      /\ \A r \in Saves : r # s => tdSave'[r] = tdSave[r]
  BY <1>2, <1>3, OneSaveChanged
<1>7. PICK tasks : tdDialog' = [save |-> s, form |-> form, override |-> 0, tasks |-> tasks]
  BY <1>1
<1>8. WholeDialog(tdDialog') /\ tdDialog'.save = s /\ tdDialog'.form = form
  BY <1>7 DEF WholeDialog
<1>9. /\ tdKept' \in [Saves -> SUBSET TargetParts]
      /\ \A r \in Saves : r # s => tdKept'[r] = tdKept[r]
      /\ \A p \in tdKept'[s] : NewTarget \notin {tdList, tdServer} /\ tdList[p] = tdServer[p]
  BY <1>1, <1>3
<1>16. /\ tdShown' = [r \in Saves |-> tdShown'[r]] /\ tdShown'[s] = tdList
       /\ \A r \in Saves : r # s => tdShown'[r] = tdShown[r]
  BY <1>1, <1>3, Zenon
<1>17. /\ DOMAIN tdList \subseteq TargetParts
       /\ \A p \in DOMAIN tdList : form = Filled(tdList)
  BY <1>3 DEF AnyTarget, WholeTarget, NewTarget
<1>10. DialogShape'
  <2>1. \A r \in Saves : DOMAIN tdShown'[r] \subseteq TargetParts
    BY <1>3, <1>16, <1>17 DEF DialogShape
  <2> QED BY <1>1, <1>3, <1>5, <1>6, <1>8, <1>9, <1>16, <2>1 DEF DialogShape, AnyTarget
<1>11. \A r \in Saves : tdSave[r].pc # "open"
  BY <1>1, DialogAssumption DEF DialogInv
<1>12. \A r \in Saves : tdSave'[r].pc = "open" => tdDialog'.save = r
  BY <1>6, <1>8, <1>11
<1>13. tdServer' = NewTarget => \A r \in Saves : tdKept'[r] = {}
  BY <1>1, <1>9 DEF DialogInv
<1>14. KeptBy(s)'
  <2>1. ASSUME NEW p \in TargetParts, form = Filled(tdList)
        PROVE  Agrees(p, form[p], tdList[p])
    <3>1. form[p] = IF p = "settings" /\ tdList[p] = WithColon THEN WithoutColon
                    ELSE IF p = "subdomains" /\ tdList[p] = 0 THEN 1 ELSE tdList[p]
      BY <2>1 DEF Filled
    <3> QED BY <3>1 DEF Agrees
  <2>2. \A p \in DOMAIN tdShown'[s] : Agrees(p, form[p], tdShown'[s][p])
    BY <1>16, <1>17, <2>1
  <2>3. \A p \in tdKept'[s] : Agrees(p, form[p], tdServer[p])
    <3>1. SUFFICES ASSUME NEW p \in tdKept'[s] PROVE Agrees(p, form[p], tdServer[p])
      OBVIOUS
    <3>2. p \in TargetParts /\ form = Filled(tdList) /\ tdList[p] = tdServer[p]
      BY <1>9
    <3>3. Agrees(p, form[p], tdList[p])
      BY <2>1, <3>2
    <3> QED BY <3>2, <3>3
  <2>4. tdSave'[s].pc = "open" /\ tdDialog'.form = form /\ tdServer' = tdServer
    BY <1>1, <1>5, <1>6, <1>8
  <2> QED BY <2>2, <2>3, <2>4 DEF KeptBy, SentOf, Agrees
<1>15. \A r \in Saves : r # s => KeptBy(r)'
  <2>1. SUFFICES ASSUME NEW r \in Saves, r # s PROVE KeptBy(r)'
    OBVIOUS
  <2>2. /\ KeptBy(r) /\ tdSave'[r] = tdSave[r] /\ tdSave'[r].pc # "open"
        /\ tdKept'[r] = tdKept[r] /\ tdShown'[r] = tdShown[r]
    BY <1>6, <1>9, <1>11, <1>16, <2>1 DEF DialogInv
  <2> QED BY <1>1, <2>2, Undisturbed
<1> QED BY <1>10, <1>12, <1>13, <1>14, <1>15 DEF DialogInv

(* A part the user touches is kept no longer.                              *)
LEMMA EditPartKeeps ==
  ASSUME DialogInv, ListShape', NEW p \in TargetParts, NEW v, EditPart(p, v)
  PROVE  DialogInv'
<1> DEFINE s == tdDialog.save
           form == [tdDialog.form EXCEPT ![p] = v]
<1>1. /\ UNCHANGED <<tdServer, tdSave>> /\ s # 0
      /\ tdKept' = [tdKept EXCEPT ![s] = tdKept[s] \ {p}]
      /\ tdShown' = [tdShown EXCEPT ![s] = [q \in DOMAIN tdShown[s] \ {p} |-> tdShown[s][q]]]
  BY DEF EditPart, Editing
<1>2. tdDialog' = [tdDialog EXCEPT !.form = form]
  BY DEF EditPart, DialogInv, DialogShape, WholeDialog
<1>3. /\ DialogShape /\ WholeDialog(tdDialog) /\ tdKept \in [Saves -> SUBSET TargetParts]
      /\ tdShown = [r \in Saves |-> tdShown[r]]
      /\ \A r \in Saves : DOMAIN tdShown[r] \subseteq TargetParts
  BY DEF DialogInv, DialogShape
<1>4. WholeTarget(form) /\ \A q \in TargetParts : q # p => form[q] = tdDialog.form[q]
  <2>1. form = [q \in TargetParts |-> IF q = p THEN v ELSE tdDialog.form[q]]
    BY <1>3 DEF WholeDialog, WholeTarget
  <2> HIDE DEF form
  <2> QED BY <2>1 DEF WholeTarget
<1> HIDE DEF form
<1>5. WholeDialog(tdDialog') /\ tdDialog'.save = s /\ tdDialog'.form = form
  BY <1>2, <1>3, <1>4 DEF WholeDialog
<1>6. /\ tdKept' \in [Saves -> SUBSET TargetParts]
      /\ \A r \in Saves : tdKept'[r] \subseteq tdKept[r]
      /\ s \in Saves => tdKept'[s] = tdKept[s] \ {p}
  BY <1>1, <1>3
<1>10. /\ tdShown' = [r \in Saves |-> tdShown'[r]]
       /\ \A r \in Saves : r # s => tdShown'[r] = tdShown[r]
       /\ s \in Saves => tdShown'[s] = [q \in DOMAIN tdShown[s] \ {p} |-> tdShown[s][q]]
  BY <1>1, <1>3, Zenon
<1>11. \A r \in Saves :
         /\ DOMAIN tdShown'[r] \subseteq DOMAIN tdShown[r] /\ (r = s => p \notin DOMAIN tdShown'[r])
         /\ \A q \in DOMAIN tdShown'[r] : tdShown'[r][q] = tdShown[r][q]
  <2>1. SUFFICES ASSUME NEW r \in Saves
                 PROVE  /\ DOMAIN tdShown'[r] \subseteq DOMAIN tdShown[r]
                        /\ r = s => p \notin DOMAIN tdShown'[r]
                        /\ \A q \in DOMAIN tdShown'[r] : tdShown'[r][q] = tdShown[r][q]
    OBVIOUS
  <2>2. CASE r = s
    <3>1. tdShown'[r] = [q \in DOMAIN tdShown[r] \ {p} |-> tdShown[r][q]]
      BY <1>10, <2>2
    <3> QED BY <3>1
  <2>3. CASE r # s
    BY <1>10, <2>3
  <2> QED BY <2>2, <2>3
<1>7. DialogShape'
  <2>1. \A r \in Saves : DOMAIN tdShown'[r] \subseteq TargetParts
    BY <1>3, <1>11
  <2> QED BY <1>1, <1>3, <1>5, <1>6, <1>10, <2>1 DEF DialogShape, AnyTarget
<1>8. \A r \in Saves : KeptBy(r)'
  <2>1. SUFFICES ASSUME NEW r \in Saves, tdSave[r].pc \in {"open", "saving"}
                 PROVE  /\ \A q \in DOMAIN tdShown'[r] : Agrees(q, SentOf(r, q)', tdShown'[r][q])
                        /\ \A q \in tdKept'[r] : Agrees(q, SentOf(r, q)', tdServer[q])
    BY <1>1 DEF KeptBy, Agrees
  <2>2. /\ \A q \in DOMAIN tdShown[r] : Agrees(q, SentOf(r, q), tdShown[r][q])
        /\ \A q \in tdKept[r] : Agrees(q, SentOf(r, q), tdServer[q])
    BY <2>1 DEF DialogInv, KeptBy
  <2>3. \A q \in DOMAIN tdShown'[r] \cup tdKept'[r] :
          q \in TargetParts /\ (tdSave[r].pc = "open" => q # p)
    BY <1>3, <1>6, <1>11 DEF DialogInv
  <2>4. \A q \in DOMAIN tdShown'[r] \cup tdKept'[r] : SentOf(r, q)' = SentOf(r, q)
    BY <1>1, <1>4, <1>5, <2>3 DEF SentOf
  <2>5. \A q \in DOMAIN tdShown'[r] : Agrees(q, SentOf(r, q)', tdShown'[r][q])
    <3>1. SUFFICES ASSUME NEW q \in DOMAIN tdShown'[r]
                   PROVE  Agrees(q, SentOf(r, q)', tdShown'[r][q])
      OBVIOUS
    <3>2. q \in DOMAIN tdShown[r] /\ tdShown'[r][q] = tdShown[r][q]
      BY <1>11
    <3> QED BY <2>2, <2>4, <3>2
  <2>6. \A q \in tdKept'[r] : Agrees(q, SentOf(r, q)', tdServer[q])
    BY <1>6, <2>2, <2>4
  <2> QED BY <2>5, <2>6
<1>9. tdServer' = NewTarget => \A r \in Saves : tdKept'[r] = {}
  BY <1>1, <1>6 DEF DialogInv
<1> QED BY <1>1, <1>5, <1>7, <1>8, <1>9 DEF DialogInv

LEMMA CloseDialogKeeps ==
  ASSUME DialogInv, ListShape', CloseDialog
  PROVE  DialogInv'
<1> DEFINE s == tdDialog.save
           pc == IF tdSave[s].pc = "open" THEN "dropped" ELSE tdSave[s].pc
           e == [tdSave[s] EXCEPT !.pc = pc]
<1>1. UNCHANGED <<tdServer, asShown>> /\ tdDialog' = Closed
  BY DEF CloseDialog
<1>2. tdSave' = [tdSave EXCEPT ![s] = e]
  BY DEF CloseDialog, DialogInv, DialogShape
<1>3. DialogShape /\ \A r \in Saves : tdSave[r].pc = "open" => r = s
  BY DEF DialogInv
<1>4. s \in Saves => WholeSave(e) /\ e.pc = pc /\ e.data = tdSave[s].data /\ e.next = tdSave[s].next
  <2>1. SUFFICES ASSUME s \in Saves
                 PROVE  /\ WholeSave(e) /\ e.pc = pc /\ e.data = tdSave[s].data
                        /\ e.next = tdSave[s].next
    OBVIOUS
  <2>2. WholeSave(tdSave[s])
    BY <1>3, <2>1 DEF DialogShape
  <2> HIDE DEF pc
  <2> QED BY <2>2, PcChanged
<1> HIDE DEF e
<1>5. /\ tdSave' = [r \in Saves |-> tdSave'[r]] /\ (s \in Saves => tdSave'[s] = e)
      /\ \A r \in Saves : r # s => tdSave'[r] = tdSave[r]
  BY <1>2, <1>3, Zenon DEF DialogShape
<1>6. \A r \in Saves : /\ WholeSave(tdSave'[r]) /\ tdSave'[r].next = tdSave[r].next
                       /\ tdSave'[r].data = tdSave[r].data /\ tdSave'[r].pc # "open"
                       /\ tdSave'[r].pc = "saving" => tdSave[r].pc = "saving"
  <2>1. SUFFICES ASSUME NEW r \in Saves
                 PROVE  /\ WholeSave(tdSave'[r]) /\ tdSave'[r].next = tdSave[r].next
                        /\ tdSave'[r].data = tdSave[r].data /\ tdSave'[r].pc # "open"
                        /\ tdSave'[r].pc = "saving" => tdSave[r].pc = "saving"
    OBVIOUS
  <2>2. CASE r = s
    BY <1>4, <1>5, <2>2
  <2>3. CASE r # s
    BY <1>3, <1>5, <2>3 DEF DialogShape
  <2> QED BY <2>2, <2>3
<1> QED BY <1>1, <1>5, <1>6, ClosedIsWhole, AllClosed

(* What was open and agrees still does when it is sent: no subdomain is    *)
(* sent as the wildcard of the domain.                                     *)
LEMMA SubmitKeeps ==
  ASSUME DialogInv, ListShape', SubmitTarget
  PROVE  DialogInv'
<1> DEFINE s == tdDialog.save
           form == tdDialog.form
           c == tdSave[s]
           a == [c EXCEPT !.pc = "saving"]
           b == [a EXCEPT !.data = Cleaned(form)]
           e == [b EXCEPT !.override = tdDialog.override]
<1>1. /\ UNCHANGED <<tdServer, tdDialog, asShown>> /\ c.pc = "open"
      /\ tdSave' = [tdSave EXCEPT ![s] = e]
  BY DEF SubmitTarget, Editing, DialogInv, DialogShape
<1>2. /\ DialogShape /\ tdKept \in [Saves -> SUBSET TargetParts]
      /\ \A r \in Saves : DOMAIN tdShown[r] \subseteq TargetParts
  BY DEF DialogInv, DialogShape
<1>3. CASE s \notin Saves
  <2>1. tdSave' = tdSave
    BY <1>1, <1>2, <1>3, Zenon DEF DialogShape
  <2> QED BY <1>1, <1>2, <2>1, DialogOnly DEF DialogShape
<1>4. CASE s \in Saves
  <2>1. WholeSave(c) /\ c.next \in Nat \ {0} /\ WholeTarget(form)
    BY <1>2, <1>4 DEF DialogShape, WholeDialog
  <2>2. WholeSave(a) /\ a.pc = "saving" /\ a.next = c.next
    BY <2>1, PcChanged
  <2> HIDE DEF a
  <2>3. WholeSave(b) /\ b.pc = "saving" /\ b.data = Cleaned(form) /\ b.next = c.next
    BY <2>2, DataChanged
  <2> HIDE DEF b
  <2>4. WholeSave(e) /\ e.pc = "saving" /\ e.data = Cleaned(form) /\ e.next = c.next
    BY <2>3, RestChanged
  <2> HIDE DEF e
  <2>5. /\ tdSave' = [r \in Saves |-> tdSave'[r]] /\ tdSave'[s] = e
        /\ \A r \in Saves : r # s => tdSave'[r] = tdSave[r]
    BY <1>1, <1>2, <1>4, OneSaveChanged
  <2>6. DialogShape'
    BY <1>1, <1>2, <2>1, <2>4, <2>5 DEF DialogShape, AnyTarget, asShown
  <2>7. KeptBy(s)'
    <3>1. ASSUME NEW p \in TargetParts, NEW value, Agrees(p, form[p], value)
          PROVE  Agrees(p, Cleaned(form)[p], value)
      <4>1. Cleaned(form)[p] = IF p = "subdomains" /\ form[p] = 0 THEN 1 ELSE form[p]
        <5>1. form = [q \in TargetParts |-> form[q]]
          BY <2>1 DEF WholeTarget
        <5> HIDE DEF form
        <5>2. CASE form["subdomains"] = 0
          <6>1. Cleaned(form) = [form EXCEPT !["subdomains"] = 1]
            BY <5>2 DEF Cleaned
          <6> QED BY <5>1, <5>2, <6>1, <3>1, Zenon
        <5>3. CASE form["subdomains"] # 0
          BY <5>3 DEF Cleaned
        <5> QED BY <5>2, <5>3
      <4> QED BY <3>1, <4>1 DEF Agrees
    <3>2. /\ \A p \in DOMAIN tdShown[s] : p \in TargetParts /\ Agrees(p, form[p], tdShown[s][p])
          /\ \A p \in tdKept[s] : p \in TargetParts /\ Agrees(p, form[p], tdServer[p])
      BY <1>1, <1>2, <1>4 DEF DialogInv, KeptBy, SentOf
    <3>3. /\ \A p \in DOMAIN tdShown[s] : Agrees(p, Cleaned(form)[p], tdShown[s][p])
          /\ \A p \in tdKept[s] : Agrees(p, Cleaned(form)[p], tdServer[p])
      BY <3>1, <3>2
    <3>4. tdSave'[s].pc = "saving" /\ tdSave'[s].data = Cleaned(form)
      BY <2>4, <2>5
    <3> QED BY <1>1, <3>3, <3>4 DEF KeptBy, SentOf, Agrees, asShown
  <2>8. \A r \in Saves : r # s => KeptBy(r)'
    <3>1. SUFFICES ASSUME NEW r \in Saves, r # s PROVE KeptBy(r)'
      OBVIOUS
    <3>2. KeptBy(r) /\ tdSave'[r] = tdSave[r]
      BY <2>5, <3>1 DEF DialogInv
    <3> QED BY <1>1, <3>2, Undisturbed DEF asShown
  <2>9. \A r \in Saves : tdSave'[r].pc = "open" => tdDialog'.save = r
    BY <1>1, <2>4, <2>5 DEF DialogInv
  <2> QED BY <1>1, <2>6, <2>7, <2>8, <2>9 DEF DialogInv, asShown
<1> QED BY <1>3, <1>4

(* The parts a save sends next.                                            *)
LEMMA NextParts ==
  ASSUME DialogInv, NEW s \in Saves, Saving(s)
  PROVE  Sent(s) \subseteq TargetParts /\ tdSave[s].next + 1 \in Nat \ {0}
<1>1. tdSave[s].next \in Nat \ {0} /\ tdSave[s].next <= 3
  BY TheParts DEF DialogInv, DialogShape, Saving
<1>2. tdSave[s].next \in 1..3 /\ tdSave[s].next + 1 \in Nat \ {0}
  BY <1>1
<1> QED BY <1>2, TheParts DEF Sent

(* Parts of the target that are written, by a save or by somebody else:    *)
(* all saves but the writer keep them no longer.                           *)
LEMMA WrittenKeeps ==
  ASSUME DialogInv, ListShape', NEW parts,
         AnyTarget(tdServer'),
         \A q \in TargetParts \ parts : tdServer # NewTarget => tdServer'[q] = tdServer[q],
         tdKept' \in [Saves -> SUBSET TargetParts],
         \A r \in Saves : tdKept'[r] \subseteq tdKept[r],
         tdServer' = NewTarget => \A r \in Saves : tdKept'[r] = {},
         UNCHANGED <<tdDialog, tdShown>>,
         tdSave' = [r \in Saves |-> tdSave'[r]],
         \A r \in Saves : /\ WholeSave(tdSave'[r]) /\ tdSave'[r].next \in Nat \ {0}
                          /\ tdSave'[r].data = tdSave[r].data /\ tdSave'[r].pc = tdSave[r].pc
                          /\ \A p \in tdKept'[r] \cap parts : /\ tdSave[r].pc = "saving"
                                                              /\ tdServer'[p] = tdSave[r].data[p]
  PROVE  DialogInv'
<1>1. DialogShape'
  BY DEF DialogInv, DialogShape, AnyTarget
<1>2. \A r \in Saves : KeptBy(r)'
  <2>1. SUFFICES ASSUME NEW r \in Saves, tdSave[r].pc \in {"open", "saving"}
                 PROVE  /\ \A q \in DOMAIN tdShown[r] : Agrees(q, SentOf(r, q), tdShown[r][q])
                        /\ \A q \in tdKept'[r] : Agrees(q, SentOf(r, q), tdServer'[q])
    BY DEF KeptBy, Agrees, SentOf
  <2>2. KeptBy(r)
    BY DEF DialogInv
  <2>3. \A q \in DOMAIN tdShown[r] : Agrees(q, SentOf(r, q), tdShown[r][q])
    BY <2>1, <2>2 DEF KeptBy
  <2>4. ASSUME NEW q \in tdKept'[r] PROVE Agrees(q, SentOf(r, q), tdServer'[q])
    <3>1. CASE q \in parts
      BY <3>1 DEF Agrees, SentOf
    <3>2. CASE q \notin parts
      <4>1. q \in tdKept[r] /\ q \in TargetParts
        BY <2>4
      <4>2. tdServer # NewTarget
        BY <4>1 DEF DialogInv
      <4>3. tdServer'[q] = tdServer[q]
        BY <3>2, <4>1, <4>2
      <4> QED BY <2>1, <2>2, <4>1, <4>3 DEF KeptBy
    <3> QED BY <3>1, <3>2
  <2> QED BY <2>3, <2>4
<1>3. \A r \in Saves : tdSave'[r].pc = "open" => tdDialog'.save = r
  BY DEF DialogInv
<1> QED BY <1>1, <1>2, <1>3 DEF DialogInv

LEMMA PartSavedKeeps ==
  ASSUME DialogInv, ListShape', NEW s \in Saves, PartSaved(s)
  PROVE  DialogInv'
<1> DEFINE parts == Sent(s)
           c == tdSave[s]
           e == [c EXCEPT !.next = c.next + 1]
<1>1. /\ Saving(s) /\ UNCHANGED <<tdDialog, tdShown>>
      /\ tdKept' = [r \in Saves |-> IF r = s THEN tdKept[r] ELSE tdKept[r] \ parts]
  BY DEF PartSaved, PartsWritten
<1>2. tdSave' = [tdSave EXCEPT ![s] = e]
  BY DEF PartSaved, DialogInv, DialogShape
<1>3. parts \in SUBSET TargetParts /\ c.next + 1 \in Nat \ {0} /\ c.pc = "saving"
  BY <1>1, NextParts DEF Saving
<1>4. DialogShape /\ WholeSave(c) /\ tdKept \in [Saves -> SUBSET TargetParts]
  BY DEF DialogInv, DialogShape
<1>5. WholeSave(e) /\ e.pc = c.pc /\ e.data = c.data /\ e.next = c.next + 1
  BY <1>4, NextChanged
<1> HIDE DEF e
<1>6. /\ tdSave' = [r \in Saves |-> tdSave'[r]] /\ tdSave'[s] = e
      /\ \A r \in Saves : r # s => tdSave'[r] = tdSave[r]
  BY <1>2, <1>4, OneSaveChanged
<1>7. /\ AnyTarget(tdServer') /\ tdServer' # NewTarget
      /\ \A q \in parts : tdServer'[q] = c.data[q]
      /\ \A q \in TargetParts \ parts : tdServer # NewTarget => tdServer'[q] = tdServer[q]
  <2>1. PICK old : tdServer' = With(old, parts, c.data) /\ (tdServer # NewTarget => old = tdServer)
    BY DEF PartSaved
  <2> HIDE DEF parts, c
  <2>2. /\ WholeTarget(tdServer') /\ tdServer' # NewTarget
        /\ \A q \in TargetParts : tdServer'[q] = IF q \in parts THEN c.data[q] ELSE old[q]
    BY <1>3, <2>1, WithFacts
  <2>3. \A q \in TargetParts \ parts : tdServer # NewTarget => tdServer'[q] = tdServer[q]
    BY <2>1, <2>2
  <2> QED BY <1>3, <2>2, <2>3 DEF AnyTarget
<1> HIDE DEF parts
<1>8. /\ tdKept' \in [Saves -> SUBSET TargetParts]
      /\ \A r \in Saves : tdKept'[r] \subseteq tdKept[r] /\ (r # s => tdKept'[r] \cap parts = {})
  BY <1>1, <1>4
<1>9. \A r \in Saves :
        /\ WholeSave(tdSave'[r]) /\ tdSave'[r].next \in Nat \ {0}
        /\ tdSave'[r].data = tdSave[r].data /\ tdSave'[r].pc = tdSave[r].pc
        /\ \A p \in tdKept'[r] \cap parts : /\ tdSave[r].pc = "saving"
                                            /\ tdServer'[p] = tdSave[r].data[p]
  <2>1. SUFFICES ASSUME NEW r \in Saves
                 PROVE  /\ WholeSave(tdSave'[r]) /\ tdSave'[r].next \in Nat \ {0}
                        /\ tdSave'[r].data = tdSave[r].data /\ tdSave'[r].pc = tdSave[r].pc
                        /\ \A p \in tdKept'[r] \cap parts : /\ tdSave[r].pc = "saving"
                                                            /\ tdServer'[p] = tdSave[r].data[p]
    OBVIOUS
  <2>2. CASE r = s
    BY <1>3, <1>5, <1>6, <1>7, <2>2
  <2>3. CASE r # s
    BY <1>4, <1>6, <1>8, <2>3 DEF DialogShape
  <2> QED BY <2>2, <2>3
<1> HIDE DEF c
<1> QED BY <1>1, <1>6, <1>7, <1>8, <1>9, WrittenKeeps

LEMMA PartFailsKeeps ==
  ASSUME DialogInv, ListShape', NEW s \in Saves, PartFails(s)
  PROVE  DialogInv'
<1> DEFINE parts == Sent(s)
           c == tdSave[s]
<1>1. /\ Saving(s) /\ UNCHANGED <<tdDialog, tdShown>> /\ tdSave' = AfterFailure(s)
      /\ tdKept' = [r \in Saves |-> tdKept[r] \ parts]
  BY DEF PartFails
<1>2. parts \in SUBSET TargetParts /\ c.next + 1 \in Nat \ {0} /\ c.pc = "saving"
  BY <1>1, NextParts DEF Saving
<1>3. DialogShape /\ WholeSave(c) /\ tdKept \in [Saves -> SUBSET TargetParts]
  BY DEF DialogInv, DialogShape
<1>4. PICK e : /\ WholeSave(e) /\ e.pc = c.pc /\ e.data = c.data /\ e.next \in Nat \ {0}
               /\ tdSave' = [tdSave EXCEPT ![s] = e]
  <2>1. PICK n, f : /\ n \in Nat \ {0}
                    /\ tdSave' = [tdSave EXCEPT ![s] = [[c EXCEPT !.next = n] EXCEPT !.failed = f]]
    <3>1. CASE tdSave[s].mode = "create" /\ TargetRow \in Sent(s)
      <4>1. tdSave' = [tdSave EXCEPT ![s] = [[c EXCEPT !.next = Len(Requests) + 1]
                                               EXCEPT !.failed = TargetParts]]
        BY <1>1, <1>3, <3>1 DEF AfterFailure, DialogShape
      <4>2. Len(Requests) + 1 \in Nat \ {0}
        BY TheParts
      <4> QED BY <4>1, <4>2
    <3>2. CASE ~(tdSave[s].mode = "create" /\ TargetRow \in Sent(s))
      <4>1. tdSave' = [tdSave EXCEPT ![s] = [[c EXCEPT !.next = c.next + 1]
                                               EXCEPT !.failed = [c EXCEPT !.next = c.next + 1].failed
                                                                   \cup parts]]
        BY <1>1, <1>3, <3>2 DEF AfterFailure, DialogShape
      <4> QED BY <1>2, <4>1
    <3> QED BY <3>1, <3>2
  <2> DEFINE b == [c EXCEPT !.next = n]
             e == [b EXCEPT !.failed = f]
  <2>2. WholeSave(b) /\ b.pc = c.pc /\ b.data = c.data /\ b.next = n
    BY <1>3, NextChanged
  <2>3. tdSave' = [tdSave EXCEPT ![s] = e]
    BY <2>1
  <2> HIDE DEF b
  <2>4. WholeSave(e) /\ e.pc = b.pc /\ e.data = b.data /\ e.next = b.next
    BY <2>2, RestChanged
  <2> HIDE DEF e
  <2> QED BY <2>1, <2>2, <2>3, <2>4
<1>5. /\ tdSave' = [r \in Saves |-> tdSave'[r]] /\ tdSave'[s] = e
      /\ \A r \in Saves : r # s => tdSave'[r] = tdSave[r]
  BY <1>3, <1>4, OneSaveChanged
<1>6. /\ AnyTarget(tdServer')
      /\ \A q \in TargetParts \ parts : tdServer # NewTarget => tdServer'[q] = tdServer[q]
      /\ tdServer' = NewTarget => tdServer = NewTarget
  <2>1. CASE tdServer' = tdServer
    BY <1>3, <2>1 DEF DialogShape
  <2>2. CASE tdServer' # tdServer
    <3>1. PICK lost : tdServer' = With(tdServer, parts, With(c.data, lost, Blank))
      BY <2>2 DEF PartFails
    <3> QED BY <1>2, <3>1, WithFacts DEF AnyTarget
  <2> QED BY <2>1, <2>2
<1> HIDE DEF parts
<1>7. /\ tdKept' \in [Saves -> SUBSET TargetParts]
      /\ \A r \in Saves : tdKept'[r] \subseteq tdKept[r] /\ tdKept'[r] \cap parts = {}
  BY <1>1, <1>3
<1>8. tdServer' = NewTarget => \A r \in Saves : tdKept'[r] = {}
  BY <1>6, <1>7 DEF DialogInv
<1>9. \A r \in Saves :
         /\ WholeSave(tdSave'[r]) /\ tdSave'[r].next \in Nat \ {0}
         /\ tdSave'[r].data = tdSave[r].data /\ tdSave'[r].pc = tdSave[r].pc
  <2>1. SUFFICES ASSUME NEW r \in Saves
                 PROVE  /\ WholeSave(tdSave'[r]) /\ tdSave'[r].next \in Nat \ {0}
                        /\ tdSave'[r].data = tdSave[r].data /\ tdSave'[r].pc = tdSave[r].pc
    OBVIOUS
  <2>2. CASE r = s
    BY <1>4, <1>5, <2>2
  <2>3. CASE r # s
    BY <1>3, <1>5, <2>3 DEF DialogShape
  <2> QED BY <2>2, <2>3
<1> QED BY <1>1, <1>5, <1>6, <1>7, <1>8, <1>9, WrittenKeeps

LEMMA OtherSessionKeeps ==
  ASSUME DialogInv, ListShape', NEW p \in TargetParts, NEW v, OtherSession(p, v)
  PROVE  DialogInv'
<1>1. /\ tdServer # NewTarget /\ tdServer' = [tdServer EXCEPT ![p] = v]
      /\ tdKept' = [r \in Saves |-> IF r = 0 THEN tdKept[r] ELSE tdKept[r] \ {p}]
      /\ UNCHANGED <<tdDialog, tdSave, tdShown>>
  BY DEF OtherSession, PartsWritten
<1>2. DialogShape /\ WholeTarget(tdServer)
  BY <1>1 DEF DialogInv, DialogShape, AnyTarget
<1>3. tdServer' = [q \in TargetParts |-> IF q = p THEN v ELSE tdServer[q]]
  BY <1>1, <1>2 DEF WholeTarget
<1>4. DOMAIN tdServer' = TargetParts /\ DOMAIN NewTarget = {} /\ "row" \in TargetParts
  BY <1>3, TheParts DEF NewTarget
<1>5. tdServer' # NewTarget /\ AnyTarget(tdServer')
      /\ \A q \in TargetParts \ {p} : tdServer'[q] = tdServer[q]
  BY <1>3, <1>4 DEF AnyTarget, WholeTarget
<1>6. /\ tdKept' \in [Saves -> SUBSET TargetParts]
      /\ \A r \in Saves : tdKept'[r] \subseteq tdKept[r] /\ p \notin tdKept'[r]
  BY <1>1, <1>2, DialogAssumption DEF DialogShape
<1>7. /\ tdSave' = [r \in Saves |-> tdSave'[r]]
      /\ \A r \in Saves : /\ WholeSave(tdSave'[r]) /\ tdSave'[r].next \in Nat \ {0}
                          /\ tdSave'[r].data = tdSave[r].data /\ tdSave'[r].pc = tdSave[r].pc
  BY <1>1, <1>2 DEF DialogShape
<1>8. \A r \in Saves : \A q \in tdKept'[r] \cap {p} : FALSE
  BY <1>6
<1> QED BY <1>1, <1>5, <1>6, <1>7, <1>8, WrittenKeeps

(* A save whose parts are done, and one that is over.                      *)
LEMMA ClosesAnyFacts ==
  ASSUME DialogShape, NEW s \in Saves, NEW e, WholeSave(e),
         e.pc # "open", e.data = tdSave[s].data, e.next = tdSave[s].next, e.pc # "saving",
         tdSave' = ClosesAny([tdSave EXCEPT ![s] = e])
  PROVE  /\ tdSave' = [r \in Saves |-> tdSave'[r]]
         /\ \A r \in Saves : /\ WholeSave(tdSave'[r]) /\ tdSave'[r].next = tdSave[r].next
                             /\ tdSave'[r].data = tdSave[r].data /\ tdSave'[r].pc # "open"
                             /\ tdSave'[r].pc = "saving" => tdSave[r].pc = "saving"
<1> DEFINE saves == [tdSave EXCEPT ![s] = e]
<1>1. saves[s] = e /\ \A r \in Saves : r # s => saves[r] = tdSave[r]
  BY Zenon DEF DialogShape
<1> HIDE DEF saves
<1>2. tdSave' = [r \in Saves |-> IF saves[r].pc = "open" THEN [saves[r] EXCEPT !.pc = "dropped"]
                                                         ELSE saves[r]]
  BY DEF ClosesAny, saves
<1>3. ASSUME NEW r \in Saves
      PROVE  /\ WholeSave(tdSave'[r]) /\ tdSave'[r].next = tdSave[r].next
             /\ tdSave'[r].data = tdSave[r].data /\ tdSave'[r].pc # "open"
             /\ tdSave'[r].pc = "saving" => tdSave[r].pc = "saving"
  <2>1. /\ WholeSave(saves[r]) /\ saves[r].next = tdSave[r].next /\ saves[r].data = tdSave[r].data
        /\ saves[r].pc = "saving" => tdSave[r].pc = "saving"
    BY <1>1 DEF DialogShape
  <2>2. CASE saves[r].pc = "open"
    <3>1. tdSave'[r] = [saves[r] EXCEPT !.pc = "dropped"]
      BY <1>2, <2>2
    <3> DEFINE c == saves[r]
               d == tdSave'[r]
    <3>2. d = [c EXCEPT !.pc = "dropped"] /\ WholeSave(c)
      BY <2>1, <3>1
    <3> HIDE DEF c, d
    <3>3. WholeSave(d) /\ d.pc = "dropped" /\ d.data = c.data /\ d.next = c.next
      BY <3>2, PcChanged
    <3>4. /\ WholeSave(tdSave'[r]) /\ tdSave'[r].pc = "dropped"
          /\ tdSave'[r].data = saves[r].data /\ tdSave'[r].next = saves[r].next
      BY <3>3 DEF c, d
    <3> QED BY <2>1, <3>4
  <2>3. CASE saves[r].pc # "open"
    BY <1>2, <2>1, <2>3
  <2> QED BY <2>2, <2>3
<1> QED BY <1>2, <1>3

LEMMA EndsKeeps ==
  ASSUME DialogInv, ListShape', NEW s \in Saves, PartsEnd(s) \/ SaveEnds(s)
  PROVE  DialogInv'
<1> DEFINE c == tdSave[s]
<1>1. DialogShape /\ WholeSave(c) /\ UNCHANGED <<tdServer, asShown>> /\ c.pc \in {"saving", "overrides"}
  BY DEF DialogInv, DialogShape, PartsEnd, SaveEnds
<1>2. ASSUME NEW pc \in {"overrides", "saved"}, tdDialog' = Closed,
             tdSave' = ClosesAny([tdSave EXCEPT ![s].pc = pc])
      PROVE DialogInv'
  <2> DEFINE e == [c EXCEPT !.pc = pc]
  <2>1. WholeSave(e) /\ e.pc = pc /\ e.data = c.data /\ e.next = c.next
    BY <1>1, PcChanged
  <2>2. tdSave' = ClosesAny([tdSave EXCEPT ![s] = e])
    BY <1>2
  <2> HIDE DEF e
  <2>3. e.pc # "open" /\ e.pc # "saving"
    BY <2>1
  <2>4. /\ tdSave' = [r \in Saves |-> tdSave'[r]]
        /\ \A r \in Saves : /\ WholeSave(tdSave'[r]) /\ tdSave'[r].next = tdSave[r].next
                            /\ tdSave'[r].data = tdSave[r].data /\ tdSave'[r].pc # "open"
                            /\ tdSave'[r].pc = "saving" => tdSave[r].pc = "saving"
    BY <1>1, <2>1, <2>2, <2>3, ClosesAnyFacts
  <2>5. WholeDialog(tdDialog') /\ UNCHANGED <<tdServer, asShown>>
    BY <1>1, <1>2, ClosedIsWhole
  <2> QED BY <2>4, <2>5, AllClosed
<1>3. CASE SaveEnds(s) \/ (PartsEnd(s) /\ c.mode = "edit")
  BY <1>2, <1>3 DEF SaveEnds, PartsEnd
<1>4. CASE PartsEnd(s) /\ c.mode # "edit"
  <2> DEFINE e == [c EXCEPT !.pc = "saved"]
  <2>1. /\ tdSave' = [tdSave EXCEPT ![s] = e]
        /\ tdDialog' = (IF tdDialog.save = s THEN Closed ELSE tdDialog)
    BY <1>1, <1>4 DEF PartsEnd, DialogShape
  <2>2. WholeSave(e) /\ e.pc = "saved" /\ e.data = c.data /\ e.next = c.next
    BY <1>1, PcChanged
  <2> HIDE DEF e
  <2>3. /\ tdSave' = [r \in Saves |-> tdSave'[r]] /\ tdSave'[s] = e
        /\ \A r \in Saves : r # s => tdSave'[r] = tdSave[r]
    BY <1>1, <2>1, OneSaveChanged
  <2>4. c.next \in Nat \ {0}
    BY <1>1 DEF DialogShape
  <2>5. DialogShape'
    <3>1. WholeDialog(tdDialog')
      BY <1>1, <2>1, ClosedIsWhole DEF DialogShape
    <3> QED BY <1>1, <2>2, <2>3, <2>4, <3>1 DEF DialogShape, AnyTarget, asShown
  <2>6. \A r \in Saves : tdSave[r].pc = "open" => tdDialog.save = r /\ r # s
    BY <1>1 DEF DialogInv
  <2>7. \A r \in Saves : tdSave'[r].pc = "open" => tdDialog' = tdDialog /\ tdDialog'.save = r
    BY <2>1, <2>2, <2>3, <2>6
  <2>8. \A r \in Saves : KeptBy(r)'
    <3>1. SUFFICES ASSUME NEW r \in Saves PROVE KeptBy(r)'
      OBVIOUS
    <3>2. CASE r = s
      BY <2>2, <2>3, <3>2 DEF KeptBy
    <3>3. CASE r # s
      <4>1. KeptBy(r) /\ tdSave'[r] = tdSave[r]
        BY <2>3, <3>3 DEF DialogInv
      <4> QED BY <1>1, <2>7, <4>1, Undisturbed DEF asShown
    <3> QED BY <3>2, <3>3
  <2> QED BY <1>1, <2>5, <2>7, <2>8 DEF DialogInv, asShown
<1> QED BY <1>3, <1>4

LEMMA DialogStep == DialogInv /\ [DialogNext]_tdVars => DialogInv'
<1> SUFFICES ASSUME DialogInv, [DialogNext]_tdVars PROVE DialogInv'
  OBVIOUS
<1>0. WholeDialog(tdDialog) /\ ListShape'
  <2>1. \/ \E f \in 1..MaxFetches : DbSelectList(f) \/ ListShown(f) \/ FetchFails(f)
        \/ UNCHANGED tdList /\ tdFetch' \in {tdFetch, FetchAsked}
    BY DEF DialogNext, OpenEdit, OpenCreate, Opens, SaveStep, PartSaved, PartFails, PartsEnd,
           SaveEnds, OverridesLoaded, OverridesFail, CloseDialog, SubmitTarget, DeleteShown,
           EditPart, OtherSession, ToggleTaskOverride, tdVars
  <2> QED BY <2>1, ListsShaped DEF DialogInv, DialogShape
<1>1. ASSUME NEW f, DbSelectList(f) \/ ListShown(f) \/ FetchFails(f) PROVE DialogInv'
  <2>1. UNCHANGED <<tdServer, tdDialog, tdSave, asShown>>
    BY <1>1 DEF DbSelectList, ListShown, FetchFails
  <2> QED BY <1>0, <2>1, DialogOnly
<1>2. ASSUME NEW s \in Saves, OpenEdit(s) PROVE DialogInv'
  <2>1. Opens(s, "edit", Filled(tdList)) /\ WholeTarget(Filled(tdList))
    BY <1>2 DEF OpenEdit, WholeTarget, Filled
  <2> QED BY <1>0, <2>1, OpensKeeps
<1>3. ASSUME NEW s \in Saves, OpenCreate(s) PROVE DialogInv'
  <2>1. Opens(s, "create", Blank) /\ WholeTarget(Blank) /\ tdList = NewTarget
    BY <1>3 DEF OpenCreate, WholeTarget, Blank
  <2> QED BY <1>0, <2>1, OpensKeeps
<1>4. ASSUME NEW v, OverridesLoaded \/ OverridesFail \/ ToggleTaskOverride(v) PROVE DialogInv'
  <2>1. /\ UNCHANGED <<tdServer, tdSave, asShown>>
        /\ \/ tdDialog' = [[tdDialog EXCEPT !.tasks = "loaded"] EXCEPT !.override = tdOverride]
           \/ tdDialog' = [tdDialog EXCEPT !.tasks = "none"]
           \/ tdDialog' = [tdDialog EXCEPT !.override = v]
    BY <1>4 DEF OverridesLoaded, OverridesFail, ToggleTaskOverride
  <2>2. PICK save, form, override, tasks :
          tdDialog = [save |-> save, form |-> form, override |-> override, tasks |-> tasks]
    BY <1>0 DEF WholeDialog
  <2>3. \/ tdDialog' = [save |-> save, form |-> form, override |-> tdOverride, tasks |-> "loaded"]
        \/ tdDialog' = [save |-> save, form |-> form, override |-> override, tasks |-> "none"]
        \/ tdDialog' = [save |-> save, form |-> form, override |-> v, tasks |-> tasks]
    BY <2>1, <2>2
  <2>4. tdDialog'.save = save /\ tdDialog'.form = form /\ WholeDialog(tdDialog')
    BY <1>0, <2>2, <2>3 DEF WholeDialog
  <2>5. UNCHANGED <<tdServer, tdSave, asShown>> /\ tdDialog'.save = tdDialog.save
        /\ tdDialog'.form = tdDialog.form
    BY <2>1, <2>2, <2>4
  <2> QED BY <1>0, <2>4, <2>5, DialogOnly
<1>5. ASSUME DeleteShown PROVE DialogInv'
  <2>1. /\ tdServer' = NewTarget /\ tdKept' = [s \in Saves |-> {}]
        /\ UNCHANGED <<tdDialog, tdSave, tdShown>>
    BY <1>5 DEF DeleteShown
  <2>2. tdKept' \in [Saves -> SUBSET TargetParts] /\ \A s \in Saves : tdKept'[s] = {}
    BY <2>1
  <2>3. DialogShape'
    BY <2>1, <2>2 DEF DialogInv, DialogShape, AnyTarget
  <2> QED BY <1>0, <2>1, <2>2, <2>3 DEF DialogInv, KeptBy, SentOf, Agrees
<1>6. CASE UNCHANGED tdVars
  <2>1. UNCHANGED <<tdServer, tdDialog, tdSave, asShown>>
    BY <1>6 DEF tdVars
  <2> QED BY <1>0, <2>1, DialogOnly
<1>7. ASSUME NEW s \in Saves, SaveStep(s) PROVE DialogInv'
  BY <1>0, <1>7, PartSavedKeeps, PartFailsKeeps, EndsKeeps DEF SaveStep
<1>8. CASE DialogNext
  BY <1>0, <1>1, <1>2, <1>3, <1>4, <1>5, <1>7, <1>8, CloseDialogKeeps, SubmitKeeps, EditPartKeeps,
     OtherSessionKeeps
  DEF DialogNext
<1> QED BY <1>6, <1>8

(* However the dialog, other saves, another session and failures overlap,  *)
(* what the user did not touch is sent back as the list showed it, and as  *)
(* it is stored if nobody changed it since the list was read.              *)
THEOREM UntouchedAlwaysKept == DialogSpec => []UntouchedKept
<1>1. DialogInv => UntouchedKept
  BY DEF DialogInv, UntouchedKept, KeptBy
<1> QED BY <1>1, DialogStarts, DialogStep, PTL DEF DialogSpec

-----------------------------------------------------------------------------
(***************************************************************************)
(* ModulesPage: a save that nothing overlaps stores all it does not report *)
(* as failed.                                                              *)
(***************************************************************************)

TemplateRow == [Fields -> {0, 1}]
TemplateState == TemplateRow \cup {Gone}
TemplateStates == [Templates -> TemplateState]
RequestSets == SUBSET (Templates \cup {SettingsRequest})

RowRequestType ==
  [kind : {"none", "patch", "run", "delete"}, pc : {"none", "asked", "done"},
   old : TemplateState, field : Fields, value : {0, 1}]

DialogSave ==
  [pc : {"idle", "settings", "patching", "saved"}, tasks : TemplateStates, set : {0, 1},
   sent : RequestSets, unanswered : RequestSets, failed : RequestSets]

ModulesType ==
  /\ mgDb \in TemplateStates /\ mgList \in TemplateStates
  /\ mgDbSet \in {0, 1} /\ mgListSet \in {0, 1}
  /\ mgRow \in [Templates -> RowRequestType]
  /\ mgDialog \in [open : BOOLEAN, saving : BOOLEAN, tasks : TemplateStates, set : {0, 1}]
  /\ mgSave \in [Dialogs -> DialogSave]
  /\ mgAlone \subseteq Dialogs

(* A row is asked to be deleted or changed while it is there; and what the *)
(* page does not show, or the open dialog does not hold, is deleted.       *)
RowsSound ==
  \A t \in Templates :
    /\ mgRow[t].kind = "none" => mgRow[t].pc = "none"
    /\ mgRow[t].kind # "none" => mgRow[t].old # Gone
    /\ mgRow[t].kind = "delete" /\ mgRow[t].pc = "done" => mgDb[t] = Gone
    /\ mgList[t] = Gone => mgDb[t] = Gone
    /\ mgDialog.open /\ mgDialog.tasks[t] = Gone => mgDb[t] = Gone

(* What a save has stored by the time it is sending settings, sending      *)
(* templates, done.                                                        *)
SettingsStored(s) ==
  /\ mgSave[s].pc = "settings" => SettingsRequest \in mgSave[s].sent \/ mgDbSet = mgSave[s].set
  /\ mgSave[s].pc \in {"patching", "saved"} =>
       SettingsRequest \in mgSave[s].failed \/ mgDbSet = mgSave[s].set

TemplatesStored(s) ==
  \A t \in Templates :
    /\ mgSave[s].tasks[t] = Gone => mgDb[t] = Gone
    /\ mgSave[s].pc = "patching" =>
         \/ mgSave[s].tasks[t] = Gone \/ t \in mgSave[s].unanswered \/ t \in mgSave[s].failed
         \/ mgDb[t] = mgSave[s].tasks[t]
    /\ mgSave[s].pc = "saved" => t \in mgSave[s].failed \/ mgDb[t] = mgSave[s].tasks[t]

(* A save that is alone has no row and no other save beside it.            *)
AloneSaves ==
  \A s \in mgAlone :
    /\ Busy = {} /\ InFlight \subseteq {s} /\ mgSave[s].pc # "idle"
    /\ mgSave[s].pc = "patching" => mgSave[s].sent = mgSave[s].unanswered
    /\ SettingsStored(s) /\ TemplatesStored(s)

ModulesInv == ModulesType /\ RowsSound /\ AloneSaves

LEMMA GoneFacts ==
  /\ Gone \notin TemplateRow /\ Gone \in TemplateState
  /\ [t \in Templates |-> Gone] \in TemplateStates
  /\ SettingsRequest \notin Templates
<1>1. Gone \notin TemplateRow
  <2>1. Gone["active"] = 2
    BY DEF Gone, Fields
  <2>2. \A r \in TemplateRow : r["active"] \in {0, 1}
    BY DEF TemplateRow, Fields
  <2> QED BY <2>1, <2>2
<1>2. SettingsRequest \notin Templates
  BY ModulesPageAssumption DEF SettingsRequest
<1> QED BY <1>1, <1>2 DEF TemplateState, TemplateStates

LEMMA NothingSentFacts == NoRequest \in RowRequestType /\ NoSave \in DialogSave
BY GoneFacts DEF NoRequest, RowRequestType, NoSave, DialogSave, Fields, RequestSets

LEMMA ModulesPageStarts == ModulesPageInit => ModulesInv
<1> SUFFICES ASSUME ModulesPageInit PROVE ModulesInv
  OBVIOUS
<1>1. mgDb \in TemplateStates /\ \A t \in Templates : mgDb[t] \in TemplateRow
  BY DEF ModulesPageInit, TemplateStates, TemplateState, TemplateRow
<1>2. mgDialog \in [open : BOOLEAN, saving : BOOLEAN, tasks : TemplateStates, set : {0, 1}]
      /\ mgDialog.open = FALSE
  BY GoneFacts DEF ModulesPageInit, ClosedDialog
<1>3. ModulesType
  BY <1>1, <1>2, NothingSentFacts DEF ModulesPageInit, ModulesType
<1>4. RowsSound
  BY <1>1, <1>2, GoneFacts DEF ModulesPageInit, RowsSound, NoRequest
<1>5. AloneSaves
  BY DEF ModulesPageInit, AloneSaves
<1> QED BY <1>3, <1>4, <1>5 DEF ModulesInv

(* Changing one field of a template leaves a template.                     *)
LEMMA FieldChanged ==
  ASSUME NEW r \in TemplateRow, NEW f \in Fields, NEW v \in {0, 1}
  PROVE  [r EXCEPT ![f] = v] \in TemplateRow
BY DEF TemplateRow

(* A row that asks; nothing is alone any more.                             *)
LEMMA RowRequestKeeps ==
  ASSUME ModulesInv, NEW t \in Templates, NEW kind \in {"patch", "run", "delete"},
         NEW field \in Fields, NEW value \in {0, 1}, RowRequest(t, kind, field, value)
  PROVE  ModulesInv'
<1> DEFINE r == [kind |-> kind, pc |-> "asked", old |-> mgList[t], field |-> field, value |-> value]
<1>1. /\ mgRow' = [mgRow EXCEPT ![t] = r] /\ mgAlone' = {} /\ mgList[t] # Gone
      /\ UNCHANGED <<mgDb, mgDbSet, mgList, mgListSet, mgDialog, mgSave>>
  BY DEF RowRequest
<1>2. mgList[t] \in TemplateState
  BY DEF ModulesInv, ModulesType, TemplateStates
<1>3. r \in RowRequestType
  BY <1>2 DEF RowRequestType
<1>4. r.kind = kind /\ r.pc = "asked" /\ r.old = mgList[t]
  OBVIOUS
<1> HIDE DEF r
<1>5. /\ mgRow' \in [Templates -> RowRequestType] /\ mgRow'[t] = r
      /\ \A u \in Templates : u # t => mgRow'[u] = mgRow[u]
  BY <1>1, <1>3, Zenon DEF ModulesInv, ModulesType
<1>6. ModulesType'
  BY <1>1, <1>5 DEF ModulesInv, ModulesType
<1>7. RowsSound'
  BY <1>1, <1>4, <1>5 DEF ModulesInv, RowsSound
<1> QED BY <1>1, <1>6, <1>7 DEF ModulesInv, AloneSaves

(* The row's value of a switch is one of the two.                          *)
LEMMA PatchTemplateKeeps ==
  ASSUME ModulesInv, NEW t \in Templates, NEW f \in Fields, PatchTemplate(t, f)
  PROVE  ModulesInv'
<1>1. mgList[t] \in TemplateRow
  BY DEF PatchTemplate, RowRequest, ModulesInv, ModulesType, TemplateStates, TemplateState
<1>2. mgList[t][f] \in {0, 1}
  BY <1>1 DEF TemplateRow
<1>3. 1 - mgList[t][f] \in {0, 1}
  BY <1>2
<1> QED BY <1>3, RowRequestKeeps DEF PatchTemplate

(* While a row waits nothing is alone.                                     *)
LEMMA BusyRow ==
  ASSUME ModulesInv, NEW t \in Templates, mgRow[t].kind # "none"
  PROVE  mgAlone = {}
BY DEF ModulesInv, AloneSaves, Busy

LEMMA RowExecutedKeeps ==
  ASSUME ModulesInv, NEW t \in Templates, RowExecuted(t)
  PROVE  ModulesInv'
<1> DEFINE r == [mgRow[t] EXCEPT !.pc = "done"]
<1>1. /\ mgRow' = [mgRow EXCEPT ![t] = r] /\ mgRow[t].pc = "asked"
      /\ UNCHANGED <<mgDbSet, mgList, mgListSet, mgDialog, mgSave, mgAlone>>
  BY DEF RowExecuted, ModulesInv, ModulesType
<1>2. mgRow[t] \in RowRequestType /\ mgRow[t].kind # "none" /\ mgAlone = {}
  BY <1>1, BusyRow DEF ModulesInv, ModulesType, RowsSound
<1>3. r \in RowRequestType /\ r.kind = mgRow[t].kind /\ r.old = mgRow[t].old /\ r.pc = "done"
  <2>1. r \in RowRequestType
    BY <1>2, Zenon DEF RowRequestType
  <2>2. r.kind = mgRow[t].kind /\ r.pc = "done"
    BY <1>2, SMT DEF RowRequestType
  <2>3. r.old = mgRow[t].old
    BY <1>2, SMT DEF RowRequestType
  <2> QED BY <2>1, <2>2, <2>3
<1> HIDE DEF r
<1>4. /\ mgRow' \in [Templates -> RowRequestType] /\ mgRow'[t] = r
      /\ \A u \in Templates : u # t => mgRow'[u] = mgRow[u]
  BY <1>1, <1>3, Zenon DEF ModulesInv, ModulesType
<1>5. /\ mgDb' \in TemplateStates
      /\ \A u \in Templates : mgDb[u] = Gone => mgDb'[u] = Gone
      /\ mgRow[t].kind = "delete" => mgDb'[t] = Gone
  <2>1. CASE mgDb[t] = Gone \/ mgRow[t].kind = "run"
    <3>1. mgDb' = mgDb
      BY <2>1 DEF RowExecuted
    <3> QED BY <2>1, <3>1 DEF ModulesInv, ModulesType
  <2>2. CASE mgDb[t] # Gone /\ mgRow[t].kind = "delete"
    <3>1. mgDb' = [mgDb EXCEPT ![t] = Gone]
      BY <2>2 DEF RowExecuted
    <3> QED BY <2>2, <3>1, GoneFacts DEF ModulesInv, ModulesType, TemplateStates
  <2>3. CASE mgDb[t] # Gone /\ mgRow[t].kind \notin {"run", "delete"}
    <3> DEFINE new == [mgDb[t] EXCEPT ![mgRow[t].field] = mgRow[t].value]
    <3>1. mgDb' = [mgDb EXCEPT ![t] = new]
      BY <2>3 DEF RowExecuted
    <3>2. mgDb[t] \in TemplateRow /\ mgRow[t].field \in Fields /\ mgRow[t].value \in {0, 1}
      BY <1>2, <2>3 DEF ModulesInv, ModulesType, TemplateStates, TemplateState, RowRequestType
    <3>3. new \in TemplateState
      BY <3>2, FieldChanged DEF TemplateState
    <3> HIDE DEF new
    <3> QED BY <2>3, <3>1, <3>3 DEF ModulesInv, ModulesType, TemplateStates
  <2> QED BY <2>1, <2>2, <2>3
<1>6. ModulesType'
  BY <1>1, <1>4, <1>5 DEF ModulesInv, ModulesType
<1>7. RowsSound'
  <2>1. SUFFICES ASSUME NEW u \in Templates
        PROVE  /\ mgRow'[u].kind = "none" => mgRow'[u].pc = "none"
               /\ mgRow'[u].kind # "none" => mgRow'[u].old # Gone
               /\ mgRow'[u].kind = "delete" /\ mgRow'[u].pc = "done" => mgDb'[u] = Gone
               /\ mgList'[u] = Gone => mgDb'[u] = Gone
               /\ mgDialog'.open /\ mgDialog'.tasks[u] = Gone => mgDb'[u] = Gone
    BY DEF RowsSound
  <2>2. CASE u = t
    BY <1>1, <1>2, <1>3, <1>4, <1>5, <2>2 DEF ModulesInv, RowsSound
  <2>3. CASE u # t
    BY <1>1, <1>4, <1>5, <2>3 DEF ModulesInv, RowsSound
  <2> QED BY <2>2, <2>3
<1> QED BY <1>1, <1>2, <1>6, <1>7 DEF ModulesInv, AloneSaves

DialogType == [open : BOOLEAN, saving : BOOLEAN, tasks : TemplateStates, set : {0, 1}]

(* A dialog that starts anew holds what the page shows.                    *)
LEMMA ResetFacts ==
  ASSUME mgDialog \in DialogType, NEW list \in TemplateStates, NEW set \in {0, 1},
         NEW new, new = Reset(list, set)
  PROVE  /\ new \in DialogType
         /\ new.open => new.tasks = list
BY DEF Reset, DialogType

LEMMA RowAnsweredKeeps ==
  ASSUME ModulesInv, NEW t \in Templates, RowAnswered(t)
  PROVE  ModulesInv'
<1>1. /\ mgRow[t].pc = "done" /\ mgList' = AfterRow(t) /\ mgRow' = [mgRow EXCEPT ![t] = NoRequest]
      /\ mgDialog' = (IF mgRow[t].kind = "run" THEN mgDialog ELSE Reset(mgList', mgListSet))
      /\ UNCHANGED <<mgDb, mgDbSet, mgListSet, mgSave, mgAlone>>
  BY DEF RowAnswered
<1>2. mgRow[t] \in RowRequestType /\ mgRow[t].kind # "none" /\ mgAlone = {}
  BY <1>1, BusyRow DEF ModulesInv, ModulesType, RowsSound
<1>3. /\ mgRow' \in [Templates -> RowRequestType] /\ mgRow'[t] = NoRequest
      /\ \A u \in Templates : u # t => mgRow'[u] = mgRow[u]
  BY <1>1, NothingSentFacts, Zenon DEF ModulesInv, ModulesType
<1>4. /\ mgList' \in TemplateStates
      /\ \A u \in Templates : mgList'[u] = Gone => mgDb[u] = Gone
      /\ mgRow[t].kind = "run" => mgList' = mgList
  <2>1. CASE mgList[t] = Gone \/ mgRow[t].kind = "run"
    <3>1. mgList' = mgList
      BY <1>1, <2>1 DEF AfterRow
    <3> QED BY <2>1, <3>1 DEF ModulesInv, ModulesType, RowsSound
  <2>2. CASE mgList[t] # Gone /\ mgRow[t].kind = "delete"
    <3>1. mgList' = [mgList EXCEPT ![t] = Gone] /\ mgDb[t] = Gone
      BY <1>1, <2>2 DEF AfterRow, ModulesInv, RowsSound
    <3> QED BY <2>2, <3>1, GoneFacts DEF ModulesInv, ModulesType, RowsSound, TemplateStates
  <2>3. CASE mgList[t] # Gone /\ mgRow[t].kind \notin {"run", "delete"}
    <3> DEFINE new == [mgRow[t].old EXCEPT ![mgRow[t].field] = mgRow[t].value]
    <3>1. mgList' = [mgList EXCEPT ![t] = new]
      BY <1>1, <2>3 DEF AfterRow
    <3>2. mgRow[t].old \in TemplateRow /\ mgRow[t].field \in Fields /\ mgRow[t].value \in {0, 1}
      BY <1>2 DEF ModulesInv, RowsSound, TemplateState, RowRequestType
    <3>3. new \in TemplateRow
      BY <3>2, FieldChanged
    <3> HIDE DEF new
    <3>4. new \in TemplateState /\ new # Gone
      BY <3>3, GoneFacts DEF TemplateState
    <3>5. mgList' \in TemplateStates
      BY <3>1, <3>4 DEF ModulesInv, ModulesType, TemplateStates
    <3>6. \A u \in Templates : mgList'[u] = Gone => mgDb[u] = Gone
      BY <3>1, <3>4 DEF ModulesInv, ModulesType, TemplateStates, RowsSound
    <3> QED BY <2>3, <3>5, <3>6
  <2> QED BY <2>1, <2>2, <2>3
<1>5. /\ mgDialog' \in DialogType
      /\ mgDialog'.open => \A u \in Templates : mgDialog'.tasks[u] = Gone => mgDb[u] = Gone
  <2>1. CASE mgRow[t].kind = "run"
    <3>1. mgDialog' = mgDialog
      BY <1>1, <2>1
    <3> QED BY <3>1 DEF ModulesInv, ModulesType, RowsSound, DialogType
  <2>2. CASE mgRow[t].kind # "run"
    <3>1. mgDialog \in DialogType /\ mgListSet \in {0, 1} /\ mgDialog' = Reset(mgList', mgListSet)
      BY <1>1, <2>2 DEF ModulesInv, ModulesType, DialogType
    <3>2. mgDialog' \in DialogType /\ (mgDialog'.open => mgDialog'.tasks = mgList')
      BY <3>1, <1>4, ResetFacts
    <3> QED BY <3>2, <1>4
  <2> QED BY <2>1, <2>2
<1>6. ModulesType'
  BY <1>1, <1>3, <1>4, <1>5 DEF ModulesInv, ModulesType, DialogType
<1>7. RowsSound'
  BY <1>1, <1>3, <1>4, <1>5 DEF ModulesInv, RowsSound, NoRequest
<1> QED BY <1>1, <1>2, <1>6, <1>7 DEF ModulesInv, AloneSaves

LEMMA RowFailsKeeps ==
  ASSUME ModulesInv, NEW t \in Templates, RowFails(t)
  PROVE  ModulesInv'
<1>1. /\ mgRow[t].kind # "none" /\ mgRow' = [mgRow EXCEPT ![t] = NoRequest]
      /\ UNCHANGED <<mgDb, mgDbSet, mgList, mgListSet, mgDialog, mgSave, mgAlone>>
  BY DEF RowFails
<1>2. mgAlone = {}
  BY <1>1, BusyRow
<1>3. /\ mgRow' \in [Templates -> RowRequestType] /\ mgRow'[t] = NoRequest
      /\ \A u \in Templates : u # t => mgRow'[u] = mgRow[u]
  BY <1>1, NothingSentFacts, Zenon DEF ModulesInv, ModulesType
<1>4. ModulesType' /\ RowsSound'
  BY <1>1, <1>3 DEF ModulesInv, ModulesType, RowsSound, NoRequest
<1> QED BY <1>1, <1>2, <1>4 DEF ModulesInv, AloneSaves

(* Steps of the dialog alone.                                              *)
LEMMA DialogStepKeeps ==
  ASSUME ModulesInv, mgDialog' \in DialogType,
         UNCHANGED <<mgDb, mgDbSet, mgList, mgListSet, mgRow, mgSave, mgAlone>>,
         mgDialog'.open => \A t \in Templates : mgDialog'.tasks[t] = Gone => mgDb[t] = Gone
  PROVE  ModulesInv'
<1>1. ModulesType' /\ RowsSound'
  BY DEF ModulesInv, ModulesType, RowsSound, DialogType
<1>2. AloneSaves'
  BY DEF ModulesInv, AloneSaves, SettingsStored, TemplatesStored, Busy, InFlight
<1> QED BY <1>1, <1>2 DEF ModulesInv

LEMMA OpenOrClosedKeeps ==
  ASSUME ModulesInv, OpenDialog \/ DialogClosed
  PROVE  ModulesInv'
<1>1. /\ UNCHANGED <<mgDb, mgDbSet, mgList, mgListSet, mgRow, mgSave, mgAlone>>
      /\ \/ mgDialog' = [open |-> TRUE, saving |-> FALSE, tasks |-> mgList, set |-> mgListSet]
         \/ mgDialog' = ClosedDialog
  BY DEF OpenDialog, DialogClosed
<1>2. ClosedDialog \in DialogType /\ ~ClosedDialog.open
  BY GoneFacts DEF ClosedDialog, DialogType
<1>3. /\ mgDialog' \in DialogType
      /\ mgDialog'.open => mgDialog'.tasks = mgList
  <2> DEFINE opened == [open |-> TRUE, saving |-> FALSE, tasks |-> mgList, set |-> mgListSet]
  <2>1. opened \in DialogType /\ opened.tasks = mgList
    BY DEF ModulesInv, ModulesType, DialogType
  <2> HIDE DEF opened
  <2>2. mgDialog' = opened \/ mgDialog' = ClosedDialog
    BY <1>1 DEF opened
  <2> QED BY <1>2, <2>1, <2>2
<1>4. \A t \in Templates : mgList[t] = Gone => mgDb[t] = Gone
  BY DEF ModulesInv, RowsSound
<1> QED BY <1>1, <1>3, <1>4, DialogStepKeeps

LEMMA UpdateSettingKeeps ==
  ASSUME ModulesInv, UpdateSetting
  PROVE  ModulesInv'
<1>1. /\ UNCHANGED <<mgDb, mgDbSet, mgList, mgListSet, mgRow, mgSave, mgAlone>>
      /\ mgDialog \in DialogType /\ mgDialog.open
      /\ mgDialog' = [mgDialog EXCEPT !.set = 1 - mgDialog.set]
  BY DEF UpdateSetting, Edits, ModulesInv, ModulesType, DialogType
<1>2. mgDialog.set \in {0, 1}
  BY <1>1 DEF DialogType
<1>3. 1 - mgDialog.set \in {0, 1}
  BY <1>2
<1>4. mgDialog' \in DialogType
  BY <1>1, <1>3, Zenon DEF DialogType
<1>5. mgDialog'.tasks = mgDialog.tasks
  BY <1>1, SMT DEF DialogType
<1>6. \A u \in Templates : mgDialog'.tasks[u] = Gone => mgDb[u] = Gone
  BY <1>1, <1>5 DEF ModulesInv, RowsSound
<1> QED BY <1>1, <1>4, <1>6, DialogStepKeeps

LEMMA EditKeeps ==
  ASSUME ModulesInv, NEW t \in Templates, NEW f \in Fields, EditTask(t, f)
  PROVE  ModulesInv'
<1> DEFINE old == mgDialog.tasks
           new == [old[t] EXCEPT ![f] = 1 - old[t][f]]
           tasks == [old EXCEPT ![t] = new]
<1>1. /\ UNCHANGED <<mgDb, mgDbSet, mgList, mgListSet, mgRow, mgSave, mgAlone>>
      /\ mgDialog \in DialogType /\ mgDialog.open /\ old \in TemplateStates /\ old[t] # Gone
  BY DEF EditTask, Edits, ModulesInv, ModulesType, DialogType
<1>2. mgDialog' = [mgDialog EXCEPT !.tasks = tasks]
  BY <1>1 DEF EditTask, DialogType, TemplateStates, TemplateState, TemplateRow
<1>3. old[t] \in TemplateRow
  BY <1>1 DEF TemplateStates, TemplateState
<1>4. 1 - old[t][f] \in {0, 1}
  <2>1. old[t][f] \in {0, 1}
    BY <1>3 DEF TemplateRow
  <2> QED BY <2>1
<1>5. new \in TemplateRow
  BY <1>3, <1>4, FieldChanged
<1>6. new \in TemplateState /\ new # Gone
  BY <1>5, GoneFacts DEF TemplateState
<1> HIDE DEF new, old
<1>7. /\ tasks \in TemplateStates /\ tasks[t] = new
      /\ \A u \in Templates : u # t => tasks[u] = old[u]
  BY <1>1, <1>6 DEF TemplateStates
<1> HIDE DEF tasks
<1>8. mgDialog' \in DialogType
  BY <1>1, <1>2, <1>7, Zenon DEF DialogType
<1>9. mgDialog'.tasks = tasks
  BY <1>1, <1>2, SMT DEF DialogType
<1>10. \A u \in Templates : mgDialog'.tasks[u] = Gone => mgDb[u] = Gone
  BY <1>1, <1>6, <1>7, <1>9 DEF ModulesInv, RowsSound, old
<1> QED BY <1>1, <1>8, <1>10, DialogStepKeeps

(* One save that changes.                                                  *)
LEMMA DialogSaveChanged ==
  ASSUME ModulesInv, NEW s \in Dialogs, NEW e \in DialogSave, mgSave' = [mgSave EXCEPT ![s] = e]
  PROVE  /\ mgSave' \in [Dialogs -> DialogSave] /\ mgSave'[s] = e
         /\ \A r \in Dialogs : r # s => mgSave'[r] = mgSave[r]
BY Zenon DEF ModulesInv, ModulesType

(* A save under way is the one that is alone, if any is.                   *)
LEMMA TheOneAlone ==
  ASSUME ModulesInv, NEW s \in Dialogs, mgSave[s].pc \in {"settings", "patching"}
  PROVE  /\ mgAlone \subseteq {s}
         /\ mgAlone # {} =>
              /\ Busy = {} /\ InFlight \subseteq {s}
              /\ mgSave[s].pc = "patching" => mgSave[s].sent = mgSave[s].unanswered
              /\ SettingsStored(s) /\ TemplatesStored(s)
<1>1. s \in InFlight
  BY DEF InFlight
<1>2. \A a \in mgAlone : InFlight \subseteq {a}
  BY DEF ModulesInv, AloneSaves
<1>3. \A a \in mgAlone : a = s
  BY <1>1, <1>2
<1> QED BY <1>3 DEF ModulesInv, AloneSaves

(* A step of a save under way: it stays alone if what it has stored is     *)
(* right.                                                                  *)
LEMMA AloneStays ==
  ASSUME ModulesInv, NEW s \in Dialogs, mgSave[s].pc \in {"settings", "patching"},
         UNCHANGED <<mgRow, mgAlone>>, mgSave'[s].pc # "idle",
         \A r \in Dialogs : r # s => mgSave'[r] = mgSave[r],
         mgAlone # {} => /\ mgSave'[s].pc = "patching" => mgSave'[s].sent = mgSave'[s].unanswered
                         /\ SettingsStored(s)' /\ TemplatesStored(s)'
  PROVE  AloneSaves'
<1>1. mgAlone \subseteq {s} /\ (mgAlone # {} => Busy = {} /\ InFlight \subseteq {s})
  BY TheOneAlone
<1>2. mgAlone # {} => Busy' = {}
  BY <1>1 DEF Busy
<1>3. mgAlone # {} => InFlight' \subseteq {s}
  BY <1>1 DEF InFlight
<1> QED BY <1>1, <1>2, <1>3 DEF AloneSaves

LEMMA SubmitDialogKeeps ==
  ASSUME ModulesInv, NEW s \in Dialogs, SubmitDialog(s)
  PROVE  ModulesInv'
<1> DEFINE e == [NoSave EXCEPT !.pc = "settings", !.tasks = mgDialog.tasks, !.set = mgDialog.set,
                               !.sent = {SettingsRequest}]
<1>1. /\ mgDialog.open /\ mgDialog' = [mgDialog EXCEPT !.saving = TRUE]
      /\ mgSave' = [mgSave EXCEPT ![s] = e]
      /\ mgAlone' = (IF InFlight = {} /\ Busy = {} THEN {s} ELSE {})
      /\ UNCHANGED <<mgDb, mgDbSet, mgList, mgListSet, mgRow>>
  BY DEF SubmitDialog
<1>2. mgDialog \in DialogType /\ mgDialog.tasks \in TemplateStates /\ mgDialog.set \in {0, 1}
  BY DEF ModulesInv, ModulesType, DialogType
<1>3. e \in DialogSave
  BY <1>2, NothingSentFacts, Zenon DEF DialogSave, RequestSets
<1>4. /\ e \in DialogSave /\ e.pc = "settings" /\ SettingsRequest \in e.sent
      /\ e.tasks = mgDialog.tasks
  <2>1. e.pc = "settings" /\ e.tasks = mgDialog.tasks
    BY NothingSentFacts, SMT DEF DialogSave
  <2>2. SettingsRequest \in e.sent
    BY NothingSentFacts, SMT DEF DialogSave
  <2> QED BY <1>3, <2>1, <2>2
<1> HIDE DEF e
<1>5. /\ mgSave' \in [Dialogs -> DialogSave] /\ mgSave'[s] = e
      /\ \A r \in Dialogs : r # s => mgSave'[r] = mgSave[r]
  BY <1>1, <1>4, DialogSaveChanged
<1>6. mgDialog' \in DialogType /\ mgDialog'.tasks = mgDialog.tasks
  <2>1. mgDialog' \in DialogType
    BY <1>1, <1>2, Zenon DEF DialogType
  <2>2. mgDialog'.tasks = mgDialog.tasks
    BY <1>1, <1>2, SMT DEF DialogType
  <2> QED BY <2>1, <2>2
<1>7. ModulesType'
  BY <1>1, <1>5, <1>6 DEF ModulesInv, ModulesType, DialogType
<1>8. RowsSound'
  BY <1>1, <1>6 DEF ModulesInv, RowsSound
<1>9. ASSUME InFlight = {}, Busy = {} PROVE AloneSaves'
  <2>1. Busy' = {} /\ InFlight' \subseteq {s} /\ mgAlone' = {s}
    BY <1>1, <1>5, <1>9 DEF Busy, InFlight
  <2>2. \A t \in Templates : e.tasks[t] = Gone => mgDb[t] = Gone
    BY <1>1, <1>4 DEF ModulesInv, RowsSound
  <2>3. SettingsStored(s)' /\ TemplatesStored(s)'
    BY <1>1, <1>4, <1>5, <2>2 DEF SettingsStored, TemplatesStored
  <2> QED BY <1>4, <1>5, <2>1, <2>3 DEF AloneSaves
<1>10. ASSUME ~(InFlight = {} /\ Busy = {}) PROVE AloneSaves'
  <2>1. mgAlone' = {}
    BY <1>1, <1>10
  <2> QED BY <2>1 DEF AloneSaves
<1> QED BY <1>7, <1>8, <1>9, <1>10 DEF ModulesInv

LEMMA SettingsExecutedKeeps ==
  ASSUME ModulesInv, NEW s \in Dialogs, SettingsExecuted(s)
  PROVE  ModulesInv'
<1> DEFINE c == mgSave[s]
           e == [c EXCEPT !.sent = {}]
<1>1. /\ c.pc = "settings" /\ mgDbSet' = c.set /\ mgSave' = [mgSave EXCEPT ![s] = e]
      /\ UNCHANGED <<mgDb, mgList, mgListSet, mgRow, mgDialog, mgAlone>>
  BY DEF SettingsExecuted, ModulesInv, ModulesType
<1>2. c \in DialogSave /\ c.set \in {0, 1}
  BY DEF ModulesInv, ModulesType, DialogSave
<1>3. e \in DialogSave
  BY <1>2, Zenon DEF DialogSave, RequestSets
<1>4. e.pc = c.pc /\ e.set = c.set /\ e.tasks = c.tasks
  BY <1>2, SMT DEF DialogSave
<1> HIDE DEF e
<1>5. /\ mgSave' \in [Dialogs -> DialogSave] /\ mgSave'[s] = e
      /\ \A r \in Dialogs : r # s => mgSave'[r] = mgSave[r]
  BY <1>1, <1>3, DialogSaveChanged
<1>6. ModulesType' /\ RowsSound'
  BY <1>1, <1>2, <1>5 DEF ModulesInv, ModulesType, RowsSound
<1>7. mgAlone # {} => SettingsStored(s)' /\ TemplatesStored(s)'
  <2>1. mgAlone # {} => TemplatesStored(s)
    BY <1>1, TheOneAlone
  <2> QED BY <1>1, <1>4, <1>5, <2>1 DEF SettingsStored, TemplatesStored
<1>8. AloneSaves'
  BY <1>1, <1>4, <1>5, <1>7, AloneStays
<1> QED BY <1>6, <1>8 DEF ModulesInv

(* A save that begins to send its templates.                               *)
LEMMA PatchingFacts ==
  ASSUME ModulesInv, NEW s \in Dialogs, NEW q, q = Patching(s)
  PROVE  /\ q \in [Dialogs -> DialogSave] /\ \A r \in Dialogs : r # s => q[r] = mgSave[r]
         /\ q[s].pc = "patching" /\ q[s].sent = q[s].unanswered
         /\ \A t \in Templates : mgSave[s].tasks[t] # Gone => t \in q[s].unanswered
         /\ q[s].tasks = mgSave[s].tasks /\ q[s].set = mgSave[s].set
         /\ q[s].failed = mgSave[s].failed
<1> DEFINE c == mgSave[s]
           all == {t \in Templates : c.tasks[t] # Gone}
           e == [c EXCEPT !.pc = "patching", !.sent = all, !.unanswered = all]
<1>1. mgSave \in [Dialogs -> DialogSave] /\ c \in DialogSave
  BY DEF ModulesInv, ModulesType
<1>2. q = [mgSave EXCEPT ![s] = e]
  BY <1>1 DEF Patching
<1>3. all \in RequestSets
  BY DEF RequestSets
<1>4. \A t \in Templates : c.tasks[t] # Gone => t \in all
  OBVIOUS
<1> HIDE DEF all
<1>5. e \in DialogSave
  BY <1>1, <1>3, Zenon DEF DialogSave
<1>6. e.pc = "patching" /\ e.sent = all
  BY <1>1, SMT DEF DialogSave
<1>7. e.unanswered = all /\ e.failed = c.failed
  BY <1>1, SMT DEF DialogSave
<1>8. e.tasks = c.tasks /\ e.set = c.set
  BY <1>1, SMT DEF DialogSave
<1> HIDE DEF e, c
<1>9. /\ q \in [Dialogs -> DialogSave] /\ q[s] = e
      /\ \A r \in Dialogs : r # s => q[r] = mgSave[r]
  BY <1>1, <1>2, <1>5, Zenon
<1> QED BY <1>4, <1>6, <1>7, <1>8, <1>9 DEF c

LEMMA SettingsAnsweredKeeps ==
  ASSUME ModulesInv, NEW s \in Dialogs, SettingsAnswered(s)
  PROVE  ModulesInv'
<1>1. /\ mgSave[s].pc = "settings" /\ SettingsRequest \notin mgSave[s].sent
      /\ mgListSet' = mgSave[s].set /\ mgDialog' = Reset(mgList, mgListSet')
      /\ mgSave' = Patching(s)
      /\ UNCHANGED <<mgDb, mgDbSet, mgList, mgRow, mgAlone>>
  BY DEF SettingsAnswered
<1>2. /\ mgSave' \in [Dialogs -> DialogSave]
      /\ \A r \in Dialogs : r # s => mgSave'[r] = mgSave[r]
      /\ mgSave'[s].pc = "patching" /\ mgSave'[s].sent = mgSave'[s].unanswered
      /\ \A t \in Templates : mgSave[s].tasks[t] # Gone => t \in mgSave'[s].unanswered
      /\ mgSave'[s].tasks = mgSave[s].tasks /\ mgSave'[s].set = mgSave[s].set
  BY <1>1, PatchingFacts
<1>3. mgListSet' \in {0, 1}
  BY <1>1 DEF ModulesInv, ModulesType, DialogSave
<1>4. mgDialog' \in DialogType /\ (mgDialog'.open => mgDialog'.tasks = mgList)
  <2>1. mgDialog \in DialogType /\ mgList \in TemplateStates
    BY DEF ModulesInv, ModulesType, DialogType
  <2> QED BY <1>1, <1>3, <2>1, ResetFacts
<1>5. ModulesType' /\ RowsSound'
  BY <1>1, <1>2, <1>3, <1>4 DEF ModulesInv, ModulesType, RowsSound, DialogType
<1>6. mgAlone # {} => SettingsStored(s)' /\ TemplatesStored(s)'
  <2>1. mgAlone # {} => SettingsStored(s) /\ TemplatesStored(s)
    BY <1>1, TheOneAlone
  <2>2. mgAlone # {} => SettingsStored(s)'
    BY <1>1, <1>2, <2>1 DEF SettingsStored
  <2>3. mgAlone # {} => TemplatesStored(s)'
    BY <1>1, <1>2, <2>1 DEF TemplatesStored
  <2> QED BY <2>2, <2>3
<1>7. AloneSaves'
  BY <1>1, <1>2, <1>6, AloneStays
<1> QED BY <1>5, <1>7 DEF ModulesInv

LEMMA SettingsFailKeeps ==
  ASSUME ModulesInv, NEW s \in Dialogs, SettingsFail(s)
  PROVE  ModulesInv'
<1> DEFINE p == Patching(s)
           e == [p[s] EXCEPT !.failed = {SettingsRequest}]
<1>1. /\ mgSave[s].pc = "settings" /\ mgSave' = PatchingAnyway(s)
      /\ UNCHANGED <<mgDb, mgDbSet, mgList, mgListSet, mgRow, mgDialog, mgAlone>>
  BY DEF SettingsFail
<1>2. /\ p \in [Dialogs -> DialogSave] /\ \A r \in Dialogs : r # s => p[r] = mgSave[r]
      /\ p[s].pc = "patching" /\ p[s].sent = p[s].unanswered
      /\ \A t \in Templates : mgSave[s].tasks[t] # Gone => t \in p[s].unanswered
      /\ p[s].tasks = mgSave[s].tasks /\ p[s].set = mgSave[s].set
  BY PatchingFacts
<1>3. mgSave' = [p EXCEPT ![s].failed = {SettingsRequest}]
  BY <1>1 DEF PatchingAnyway
<1> HIDE DEF p
<1>4. mgSave' = [p EXCEPT ![s] = e] /\ p[s] \in DialogSave
  BY <1>2, <1>3
<1>5. e \in DialogSave
  BY <1>4, Zenon DEF DialogSave, RequestSets
<1>6. e.pc = "patching" /\ e.sent = p[s].unanswered
  BY <1>2, <1>4, SMT DEF DialogSave
<1>7. e.unanswered = p[s].unanswered /\ e.tasks = mgSave[s].tasks
  BY <1>2, <1>4, SMT DEF DialogSave
<1>8. SettingsRequest \in e.failed
  BY <1>4, SMT DEF DialogSave
<1> HIDE DEF e
<1>9. /\ mgSave' \in [Dialogs -> DialogSave] /\ mgSave'[s] = e
      /\ \A r \in Dialogs : r # s => mgSave'[r] = mgSave[r]
  BY <1>2, <1>4, <1>5, Zenon
<1>10. ModulesType' /\ RowsSound'
  BY <1>1, <1>9 DEF ModulesInv, ModulesType, RowsSound
<1>11. mgAlone # {} => SettingsStored(s)' /\ TemplatesStored(s)'
  <2>1. mgAlone # {} => TemplatesStored(s)
    BY <1>1, TheOneAlone
  <2>2. SettingsStored(s)'
    BY <1>6, <1>8, <1>9 DEF SettingsStored
  <2>3. mgAlone # {} => TemplatesStored(s)'
    BY <1>1, <1>2, <1>6, <1>7, <1>9, <2>1 DEF TemplatesStored
  <2> QED BY <2>2, <2>3
<1>12. AloneSaves'
  BY <1>1, <1>6, <1>7, <1>9, <1>11, AloneStays
<1> QED BY <1>10, <1>12 DEF ModulesInv

(* A save whose sets of templates change; the rest of it stays.            *)
WithSets(c, sent, unanswered, failed) ==
  [c EXCEPT !.sent = sent, !.unanswered = unanswered, !.failed = failed]

SetsReplaced(c, sent, unanswered, failed, e) ==
  /\ e \in DialogSave /\ e.pc = c.pc /\ e.tasks = c.tasks /\ e.set = c.set
  /\ e.sent = sent /\ e.unanswered = unanswered /\ e.failed = failed

LEMMA DialogSaveSet ==
  ASSUME NEW c \in DialogSave, NEW sent \in RequestSets, NEW unanswered \in RequestSets,
         NEW failed \in RequestSets, NEW e, e = WithSets(c, sent, unanswered, failed)
  PROVE  SetsReplaced(c, sent, unanswered, failed, e)
<1>1. e \in DialogSave
  BY Zenon DEF DialogSave, WithSets
<1>2. e.pc = c.pc /\ e.tasks = c.tasks
  BY SMT DEF DialogSave, WithSets
<1>3. e.set = c.set /\ e.failed = failed
  BY SMT DEF DialogSave, WithSets
<1>4. e.sent = sent
  BY SMT DEF DialogSave, WithSets
<1>5. e.unanswered = unanswered
  BY SMT DEF DialogSave, WithSets
<1> QED BY <1>1, <1>2, <1>3, <1>4, <1>5 DEF SetsReplaced

(* A template that was sent is answered, and perhaps with an error.        *)
LEMMA OneLessUnanswered ==
  ASSUME NEW c \in DialogSave, NEW t \in Templates, NEW failed \in RequestSets, NEW e,
         e = WithSets(c, c.sent \ {t}, c.unanswered \ {t}, failed)
  PROVE  SetsReplaced(c, c.sent \ {t}, c.unanswered \ {t}, failed, e)
<1> c.sent \ {t} \in RequestSets /\ c.unanswered \ {t} \in RequestSets
  BY DEF DialogSave, RequestSets
<1> QED BY DialogSaveSet

LEMMA TaskExecutedKeeps ==
  ASSUME ModulesInv, NEW s \in Dialogs, NEW t \in Templates, TaskExecuted(s, t)
  PROVE  ModulesInv'
<1> DEFINE c == mgSave[s]
<1>1. c \in DialogSave /\ c.tasks[t] \in TemplateState /\ c.failed \in RequestSets
  BY DEF ModulesInv, ModulesType, DialogSave, TemplateStates
<1> PICK e : e = WithSets(c, c.sent \ {t}, c.unanswered \ {t}, c.failed)
  OBVIOUS
<1>2. /\ c.pc = "patching" /\ mgDb[t] # Gone /\ mgDb' = [mgDb EXCEPT ![t] = c.tasks[t]]
      /\ mgSave' = [mgSave EXCEPT ![s] = e]
      /\ UNCHANGED <<mgDbSet, mgList, mgListSet, mgRow, mgDialog, mgAlone>>
  BY <1>1 DEF TaskExecuted, ModulesInv, ModulesType, DialogSave, WithSets
<1>3. /\ e \in DialogSave /\ e.pc = c.pc /\ e.tasks = c.tasks /\ e.set = c.set
      /\ e.sent = c.sent \ {t} /\ e.unanswered = c.unanswered \ {t} /\ e.failed = c.failed
  <2> HIDE DEF c
  <2>1. SetsReplaced(c, c.sent \ {t}, c.unanswered \ {t}, c.failed, e)
    BY <1>1, OneLessUnanswered
  <2> QED BY <2>1 DEF SetsReplaced
<1>4. /\ mgSave' \in [Dialogs -> DialogSave] /\ mgSave'[s] = e
      /\ \A r \in Dialogs : r # s => mgSave'[r] = mgSave[r]
  BY <1>2, <1>3, DialogSaveChanged
<1>5. /\ mgDb' \in TemplateStates /\ mgDb'[t] = c.tasks[t]
      /\ \A u \in Templates : u # t => mgDb'[u] = mgDb[u]
  BY <1>2, <1>1 DEF ModulesInv, ModulesType, TemplateStates
<1>6. ModulesType' /\ RowsSound'
  BY <1>2, <1>4, <1>5 DEF ModulesInv, ModulesType, RowsSound
<1>7. mgAlone # {} => /\ c.sent = c.unanswered /\ SettingsStored(s) /\ TemplatesStored(s)
  BY <1>2, TheOneAlone
<1>8. mgAlone # {} => SettingsStored(s)'
  BY <1>2, <1>3, <1>4, <1>7 DEF SettingsStored
<1>9. mgAlone # {} => TemplatesStored(s)'
  BY <1>2, <1>3, <1>4, <1>5, <1>7 DEF TemplatesStored
<1>10. AloneSaves'
  BY <1>2, <1>3, <1>4, <1>7, <1>8, <1>9, AloneStays
<1> QED BY <1>6, <1>10 DEF ModulesInv

LEMMA TaskFailsKeeps ==
  ASSUME ModulesInv, NEW s \in Dialogs, NEW t \in Templates, TaskFails(s, t)
  PROVE  ModulesInv'
<1> DEFINE c == mgSave[s]
<1>1. c \in DialogSave /\ c.failed \cup {t} \in RequestSets
  BY DEF ModulesInv, ModulesType, DialogSave, RequestSets
<1> PICK e : e = WithSets(c, c.sent \ {t}, c.unanswered \ {t}, c.failed \cup {t})
  OBVIOUS
<1>2. /\ c.pc = "patching" /\ mgSave' = [mgSave EXCEPT ![s] = e]
      /\ UNCHANGED <<mgDb, mgDbSet, mgList, mgListSet, mgRow, mgDialog, mgAlone>>
  BY <1>1 DEF TaskFails, ModulesInv, ModulesType, DialogSave, WithSets
<1>3. /\ e \in DialogSave /\ e.pc = c.pc /\ e.tasks = c.tasks /\ e.set = c.set
      /\ e.sent = c.sent \ {t} /\ e.unanswered = c.unanswered \ {t}
      /\ e.failed = c.failed \cup {t}
  <2> HIDE DEF c
  <2>1. SetsReplaced(c, c.sent \ {t}, c.unanswered \ {t}, c.failed \cup {t}, e)
    BY <1>1, OneLessUnanswered
  <2> QED BY <2>1 DEF SetsReplaced
<1>4. /\ mgSave' \in [Dialogs -> DialogSave] /\ mgSave'[s] = e
      /\ \A r \in Dialogs : r # s => mgSave'[r] = mgSave[r]
  BY <1>2, <1>3, DialogSaveChanged
<1>5. ModulesType' /\ RowsSound'
  BY <1>2, <1>4 DEF ModulesInv, ModulesType, RowsSound
<1>6. mgAlone # {} => /\ c.sent = c.unanswered /\ SettingsStored(s) /\ TemplatesStored(s)
  BY <1>2, TheOneAlone
<1>7. mgAlone # {} => SettingsStored(s)'
  BY <1>2, <1>3, <1>4, <1>6 DEF SettingsStored
<1>8. mgAlone # {} => TemplatesStored(s)'
  BY <1>2, <1>3, <1>4, <1>6 DEF TemplatesStored
<1>9. AloneSaves'
  BY <1>2, <1>3, <1>4, <1>6, <1>7, <1>8, AloneStays
<1> QED BY <1>5, <1>9 DEF ModulesInv

(* The end of a save: the templates the page shows are those it showed.    *)
LEMMA DialogSavedKeeps ==
  ASSUME ModulesInv, NEW s \in Dialogs, DialogSaved(s)
  PROVE  ModulesInv'
<1> DEFINE c == mgSave[s]
           e == [c EXCEPT !.pc = "saved"]
<1>1. /\ c.pc = "patching" /\ c.unanswered = {} /\ mgList' = TasksChanged(s)
      /\ mgDialog' = ClosedDialog /\ mgSave' = [mgSave EXCEPT ![s] = e]
      /\ UNCHANGED <<mgDb, mgDbSet, mgListSet, mgRow, mgAlone>>
  BY DEF DialogSaved, ModulesInv, ModulesType
<1>2. c \in DialogSave /\ c.tasks \in TemplateStates /\ mgList \in TemplateStates
  BY DEF ModulesInv, ModulesType, DialogSave
<1>3. e \in DialogSave
  BY <1>2, Zenon DEF DialogSave
<1>4. e.pc = "saved" /\ e.tasks = c.tasks
  BY <1>2, SMT DEF DialogSave
<1>5. e.set = c.set /\ e.failed = c.failed
  BY <1>2, SMT DEF DialogSave
<1> HIDE DEF e
<1>6. /\ mgSave' \in [Dialogs -> DialogSave] /\ mgSave'[s] = e
      /\ \A r \in Dialogs : r # s => mgSave'[r] = mgSave[r]
  BY <1>1, <1>3, DialogSaveChanged
<1>7. /\ mgList' \in TemplateStates
      /\ \A t \in Templates : mgList'[t] = Gone => mgList[t] = Gone
  BY <1>1, <1>2 DEF TasksChanged, TemplateStates
<1>8. ClosedDialog \in DialogType /\ ~ClosedDialog.open
  BY GoneFacts DEF ClosedDialog, DialogType
<1>9. ModulesType' /\ RowsSound'
  BY <1>1, <1>6, <1>7, <1>8 DEF ModulesInv, ModulesType, RowsSound, DialogType
<1>10. mgAlone # {} => SettingsStored(s) /\ TemplatesStored(s)
  BY <1>1, TheOneAlone
<1>11. mgAlone # {} => SettingsStored(s)'
  BY <1>1, <1>4, <1>5, <1>6, <1>10 DEF SettingsStored
<1>12. mgAlone # {} => TemplatesStored(s)'
  BY <1>1, <1>4, <1>5, <1>6, <1>10 DEF TemplatesStored
<1>13. AloneSaves'
  BY <1>1, <1>4, <1>6, <1>11, <1>12, AloneStays
<1> QED BY <1>9, <1>13 DEF ModulesInv

LEMMA ModulesPageStutters ==
  ASSUME ModulesInv, UNCHANGED mgVars
  PROVE  ModulesInv'
BY DEF mgVars, ModulesInv, ModulesType, RowsSound, AloneSaves, SettingsStored, TemplatesStored, Busy,
       InFlight

LEMMA ModulesPageStep == ModulesInv /\ [ModulesPageNext]_mgVars => ModulesInv'
<1> SUFFICES ASSUME ModulesInv, [ModulesPageNext]_mgVars PROVE ModulesInv'
  OBVIOUS
<1>1. ASSUME NEW t \in Templates, RunTemplate(t) \/ DeleteTemplate(t) PROVE ModulesInv'
  <2>1. "active" \in Fields /\ 0 \in {0, 1}
    BY DEF Fields
  <2> QED BY <1>1, <2>1, RowRequestKeeps DEF RunTemplate, DeleteTemplate
<1>2. ASSUME NEW t \in Templates, RowStep(t) \/ RowFails(t) PROVE ModulesInv'
  BY <1>2, RowExecutedKeeps, RowAnsweredKeeps, RowFailsKeeps DEF RowStep
<1>3. ASSUME NEW t \in Templates, NEW f \in Fields, PatchTemplate(t, f) \/ EditTask(t, f)
      PROVE  ModulesInv'
  BY <1>3, PatchTemplateKeeps, EditKeeps
<1>4. CASE OpenDialog \/ DialogClosed
  BY <1>4, OpenOrClosedKeeps
<1>5. CASE UpdateSetting
  BY <1>5, UpdateSettingKeeps
<1>6. ASSUME NEW s \in Dialogs, SubmitDialog(s) \/ SettingsFail(s) \/ SaveStepOf(s) PROVE ModulesInv'
  BY <1>6, SubmitDialogKeeps, SettingsFailKeeps, SettingsExecutedKeeps, SettingsAnsweredKeeps,
     DialogSavedKeeps, TaskExecutedKeeps, TaskFailsKeeps DEF SaveStepOf
<1>7. CASE UNCHANGED mgVars
  BY <1>7, ModulesPageStutters
<1> QED BY <1>1, <1>2, <1>3, <1>4, <1>5, <1>6, <1>7 DEF ModulesPageNext

(* A save of the dialog that nothing overlaps has stored its settings and  *)
(* every template it does not report as failed, whichever of its requests  *)
(* failed (handleSubmit of ModuleDialog.tsx).                              *)
THEOREM SaveAloneStoresAll == ModulesPageSpec => []SavedUnlessTold
<1>1. ModulesInv => SavedUnlessTold
  BY DEF ModulesInv, AloneSaves, SettingsStored, TemplatesStored, SavedUnlessTold
<1> QED BY ModulesPageStarts, ModulesPageStep, <1>1, PTL DEF ModulesPageSpec

-----------------------------------------------------------------------------
(***************************************************************************)
(* AlertsPage: the alerts deleted together are the ones that were ticked.  *)
(***************************************************************************)

(* A deletion has all its fields.                                          *)
WholeDelete(c) ==
  c = [pc |-> c.pc, ids |-> c.ids, unanswered |-> c.unanswered, page |-> c.page,
       total |-> c.total, query |-> c.query, ticked |-> c.ticked]

AlertsShape ==
  /\ apShown = [rows |-> apShown.rows, page |-> apShown.page, pages |-> apShown.pages,
                total |-> apShown.total]
  /\ apDelete = [d \in Deletes |-> apDelete[d]]
  /\ \A d \in Deletes : WholeDelete(apDelete[d])

(* As long as no filter was changed over ticked rows, the positions ticked *)
(* are those of the alerts the user ticked, and so is what he was asked to *)
(* confirm and what he confirmed.                                          *)
AlertsInv ==
  /\ AlertsShape
  /\ ~apFiltered => /\ Selected = apUser
                    /\ apConfirm.ticked = TRUE
                    /\ \A d \in Deletes : apDelete[d].ticked

(* What the page shows depends on the rows and the filter alone.           *)
LEMMA RowsUnchanged ==
  ASSUME apShown'.rows = apShown.rows, UNCHANGED apNarrow
  PROVE  RowsShown' = RowsShown
BY DEF RowsShown

LEMMA SelectedUnchanged ==
  ASSUME apShown'.rows = apShown.rows, UNCHANGED apNarrow, UNCHANGED apTicked
  PROVE  Selected' = Selected
<1>1. RowsShown' = RowsShown
  BY RowsUnchanged
<1> QED BY <1>1 DEF Selected

(* With no position ticked there is nothing to delete.                     *)
LEMMA NothingSelected ==
  /\ apTicked = {} => Selected = {}
  /\ apTicked' = {} => Selected' = {}
BY DEF Selected

(* Changing some fields of a deletion keeps the others.                    *)
LEMMA DeletionChanged ==
  ASSUME NEW c, WholeDelete(c), NEW pc, NEW left
  PROVE  /\ WholeDelete([c EXCEPT !.unanswered = left])
         /\ [c EXCEPT !.unanswered = left].ticked = c.ticked
         /\ WholeDelete([c EXCEPT !.pc = pc]) /\ [c EXCEPT !.pc = pc].ticked = c.ticked
         /\ [c EXCEPT !.pc = pc].unanswered = c.unanswered
<1>1. PICK p, ids, un, page, total, query, ticked :
        c = [pc |-> p, ids |-> ids, unanswered |-> un, page |-> page, total |-> total,
             query |-> query, ticked |-> ticked]
  BY DEF WholeDelete
<1>2. [c EXCEPT !.unanswered = left] =
        [pc |-> p, ids |-> ids, unanswered |-> left, page |-> page, total |-> total,
             query |-> query, ticked |-> ticked]
  BY <1>1
<1>3. [c EXCEPT !.pc = pc] =
        [pc |-> pc, ids |-> ids, unanswered |-> un, page |-> page, total |-> total,
             query |-> query, ticked |-> ticked]
  BY <1>1
<1>4. WholeDelete([c EXCEPT !.unanswered = left])
      /\ [c EXCEPT !.unanswered = left].ticked = c.ticked
  BY <1>1, <1>2 DEF WholeDelete
<1>5. /\ WholeDelete([c EXCEPT !.pc = pc]) /\ [c EXCEPT !.pc = pc].ticked = c.ticked
      /\ [c EXCEPT !.pc = pc].unanswered = c.unanswered
  BY <1>1, <1>3 DEF WholeDelete
<1> QED BY <1>4, <1>5

LEMMA AlertsStarts == AlertsPageInit => AlertsInv
<1> SUFFICES ASSUME AlertsPageInit PROVE AlertsInv
  OBVIOUS
<1>1. AlertsShape
  BY DEF AlertsPageInit, AlertsShape, NoDelete, WholeDelete
<1>2. Selected = apUser
  BY NothingSelected DEF AlertsPageInit
<1>3. apConfirm.ticked = TRUE /\ \A d \in Deletes : apDelete[d].ticked
  BY DEF AlertsPageInit, NoDelete
<1> QED BY <1>1, <1>2, <1>3 DEF AlertsInv

(* A step that leaves the rows, the filter, the ticks and what is to be    *)
(* deleted alone.                                                          *)
LEMMA NothingTicked ==
  ASSUME AlertsInv, AlertsShape', UNCHANGED <<apNarrow, apTicked, apUser, apFiltered>>,
         apShown'.rows = apShown.rows,
         apConfirm'.ticked \/ apConfirm' = apConfirm,
         \A d \in Deletes : apDelete'[d].ticked = apDelete[d].ticked
  PROVE  AlertsInv'
<1>1. Selected' = Selected
  BY SelectedUnchanged
<1>2. apConfirm'.ticked = TRUE \/ apConfirm' = apConfirm
  OBVIOUS
<1> QED BY <1>1, <1>2 DEF AlertsInv

(* A step after which no row is ticked.                                    *)
LEMMA TicksCleared ==
  ASSUME AlertsInv, AlertsShape', apTicked' = {}, apUser' = {}, UNCHANGED <<apFiltered, apDelete>>,
         ~apFiltered => apConfirm'.ticked = TRUE
  PROVE  AlertsInv'
<1>1. Selected' = {}
  BY NothingSelected
<1> QED BY <1>1 DEF AlertsInv

LEMMA AlertsStep == AlertsInv /\ [AlertsPageNext]_apVars => AlertsInv'
<1> SUFFICES ASSUME AlertsInv, [AlertsPageNext]_apVars PROVE AlertsInv'
  OBVIOUS
<1>0. AlertsShape
  BY DEF AlertsInv
<1>1. ASSUME NEW f \in 1..MaxLoads, ReadRows(f) \/ CountRows(f) PROVE AlertsInv'
  <2>1. UNCHANGED <<apShown, apNarrow, apTicked, apConfirm, apDelete, apUser, apFiltered>>
    BY <1>1 DEF ReadRows, CountRows
  <2> QED BY <2>1, <1>0, NothingTicked DEF AlertsShape
<1>2. ASSUME NEW f \in 1..MaxLoads, Shown(f) \/ LoadFails(f) PROVE AlertsInv'
  <2>1. /\ apTicked' = {} /\ apUser' = {} /\ UNCHANGED <<apFiltered, apDelete>>
        /\ apConfirm' = ConfirmClosed(apLoad[f].after)
    BY <1>2 DEF Shown, LoadFails, AfterLoad
  <2>2. ~apFiltered => apConfirm'.ticked = TRUE
    BY <2>1 DEF ConfirmClosed, AlertsInv
  <2>3. AlertsShape'
    <3>1. CASE Shown(f)
      <4>1. PICK rows, page, pages, total :
              apShown' = [rows |-> rows, total |-> total, pages |-> pages, page |-> page]
        BY <3>1 DEF Shown
      <4> QED BY <4>1, <2>1, <1>0 DEF AlertsShape
    <3>2. CASE LoadFails(f)
      <4>1. apShown' = [apShown EXCEPT !.rows = <<>>, !.total = 0, !.pages = 1]
        BY <3>2 DEF LoadFails
      <4>2. apShown' = [rows |-> <<>>, page |-> apShown.page, pages |-> 1, total |-> 0]
        BY <4>1, <1>0 DEF AlertsShape
      <4> QED BY <4>2, <2>1, <1>0 DEF AlertsShape
    <3> QED BY <3>1, <3>2, <1>2
  <2> QED BY <2>1, <2>2, <2>3, TicksCleared
<1>3. ASSUME NEW page, NEW query,
             Search(query) \/ PageChange(page)
      PROVE AlertsInv'
  <2>1. /\ UNCHANGED <<apNarrow, apTicked, apConfirm, apDelete, apUser, apFiltered>>
        /\ \E p : apShown' = [apShown EXCEPT !.page = p]
    BY <1>3 DEF Search, PageChange
  <2>2. PICK p : apShown' = [apShown EXCEPT !.page = p]
    BY <2>1
  <2>3. apShown' = [rows |-> apShown.rows, page |-> p, pages |-> apShown.pages,
                    total |-> apShown.total]
    BY <2>2, <1>0 DEF AlertsShape
  <2>4. AlertsShape' /\ apShown'.rows = apShown.rows
    BY <2>1, <2>3, <1>0 DEF AlertsShape
  <2> QED BY <2>1, <2>4, NothingTicked
<1>4. ASSUME ChangeFilter PROVE AlertsInv'
  <2>1. /\ apFiltered' = (apFiltered \/ apTicked # {})
        /\ UNCHANGED <<apShown, apTicked, apConfirm, apDelete, apUser>>
    BY <1>4 DEF ChangeFilter
  <2>2. ASSUME ~apFiltered' PROVE Selected' = apUser'
    <3>1. apTicked = {} /\ apTicked' = {} /\ ~apFiltered
      BY <2>1, <2>2
    <3>2. Selected = {} /\ Selected' = {}
      BY <3>1, NothingSelected
    <3> QED BY <3>1, <3>2, <2>1 DEF AlertsInv
  <2> QED BY <2>1, <2>2, <1>0 DEF AlertsInv, AlertsShape
<1>5. ASSUME NEW i \in 1..PageRows, Tick(i) PROVE AlertsInv'
  <2>1. /\ apTicked' = apTicked \cup {i} /\ apUser' = apUser \cup {RowsShown[i]}
        /\ i \in DOMAIN RowsShown
        /\ UNCHANGED <<apShown, apNarrow, apConfirm, apDelete, apFiltered>>
    BY <1>5 DEF Tick
  <2>2. RowsShown' = RowsShown
    BY <2>1, RowsUnchanged
  <2>3. Selected' = {RowsShown[j] : j \in (apTicked \cup {i}) \cap DOMAIN RowsShown}
    BY <2>1, <2>2 DEF Selected
  <2>4. Selected' = Selected \cup {RowsShown[i]}
    BY <2>3, <2>1 DEF Selected
  <2> QED BY <2>1, <2>4, <1>0 DEF AlertsInv, AlertsShape
<1>6. ASSUME DeleteSelected PROVE AlertsInv'
  <2>1. /\ apTicked' = {} /\ apUser' = {} /\ UNCHANGED <<apShown, apFiltered, apDelete>>
        /\ apConfirm' = [ids |-> Selected, ticked |-> Selected = apUser]
    BY <1>6 DEF DeleteSelected
  <2>2. ~apFiltered => Selected = apUser
    BY DEF AlertsInv
  <2>3. ~apFiltered => apConfirm'.ticked = TRUE
    BY <2>1, <2>2
  <2> QED BY <2>1, <2>3, <1>0, TicksCleared DEF AlertsShape
<1>7. ASSUME NEW i, DeleteOne(i) \/ CancelDelete \/ AlertCreated PROVE AlertsInv'
  <2>1. /\ UNCHANGED <<apShown, apNarrow, apTicked, apDelete, apUser, apFiltered>>
        /\ apConfirm'.ticked \/ apConfirm' = apConfirm
    BY <1>7 DEF DeleteOne, CancelDelete, AlertCreated
  <2> QED BY <2>1, <1>0, NothingTicked DEF AlertsShape
<1>8. ASSUME NEW d \in Deletes, ConfirmDelete(d) PROVE AlertsInv'
  <2>1. PICK ids, page, total, query :
          apDelete' = [apDelete EXCEPT ![d] =
            [pc |-> "asked", ids |-> ids, unanswered |-> ids, page |-> page, total |-> total,
             query |-> query, ticked |-> apConfirm.ticked]]
    BY <1>8 DEF ConfirmDelete
  <2>2. /\ UNCHANGED <<apShown, apNarrow, apTicked, apUser, apFiltered>>
        /\ apConfirm'.ticked = TRUE
    BY <1>8 DEF ConfirmDelete
  <2>3. apDelete'[d] =
            [pc |-> "asked", ids |-> ids, unanswered |-> ids, page |-> page, total |-> total,
             query |-> query, ticked |-> apConfirm.ticked]
    BY <2>1, <1>0, Zenon DEF AlertsShape
  <2>4. apDelete' = [c \in Deletes |-> apDelete'[c]]
        /\ \A c \in Deletes : c # d => apDelete'[c] = apDelete[c]
    BY <2>1, <1>0, Zenon DEF AlertsShape
  <2>5. WholeDelete(apDelete'[d]) /\ apDelete'[d].ticked = apConfirm.ticked
    BY <2>3 DEF WholeDelete
  <2>6. AlertsShape'
    BY <2>2, <2>4, <2>5, <1>0 DEF AlertsShape, WholeDelete
  <2>7. Selected' = Selected
    BY <2>2, SelectedUnchanged
  <2> QED BY <2>2, <2>4, <2>5, <2>6, <2>7 DEF AlertsInv
<1>9. ASSUME NEW d \in Deletes, NEW a,
             DeleteExecuted(d, a) \/ DeleteFails(d, a) \/ LoadAfterDelete(d)
      PROVE AlertsInv'
  <2> DEFINE c == apDelete[d]
  <2>1. /\ UNCHANGED <<apShown, apNarrow, apTicked, apUser, apFiltered>>
        /\ apConfirm'.ticked \/ apConfirm' = apConfirm
    BY <1>9 DEF DeleteExecuted, DeleteFails, LoadAfterDelete, ConfirmClosed
  <2>2. WholeDelete(c)
    BY <1>0 DEF AlertsShape
  <2>3. \E e : WholeDelete(e) /\ e.ticked = c.ticked /\ apDelete' = [apDelete EXCEPT ![d] = e]
    <3>1. CASE DeleteExecuted(d, a)
      <4>1. apDelete' = [apDelete EXCEPT ![d] = [c EXCEPT !.unanswered = c.unanswered \ {a}]]
        BY <3>1 DEF DeleteExecuted
      <4> QED BY <4>1, <2>2, DeletionChanged
    <3>2. CASE DeleteFails(d, a)
      <4> DEFINE b == [c EXCEPT !.unanswered = c.unanswered \ {a}]
                 e == [b EXCEPT !.pc = "failed"]
      <4>1. apDelete' = [apDelete EXCEPT ![d] = e]
        BY <3>2, <1>0 DEF DeleteFails, AlertsShape
      <4>2. WholeDelete(b) /\ b.ticked = c.ticked
        BY <2>2, DeletionChanged
      <4> HIDE DEF b
      <4>3. WholeDelete(e) /\ e.ticked = b.ticked
        BY <4>2, DeletionChanged
      <4> HIDE DEF e
      <4> QED BY <4>1, <4>2, <4>3
    <3>3. CASE LoadAfterDelete(d)
      <4>1. apDelete' = [apDelete EXCEPT ![d] = [c EXCEPT !.pc = "done"]]
        BY <3>3 DEF LoadAfterDelete
      <4> QED BY <4>1, <2>2, DeletionChanged
    <3> QED BY <3>1, <3>2, <3>3, <1>9
  <2>4. PICK e : WholeDelete(e) /\ e.ticked = c.ticked /\ apDelete' = [apDelete EXCEPT ![d] = e]
    BY <2>3
  <2>5. /\ apDelete' = [b \in Deletes |-> apDelete'[b]] /\ apDelete'[d] = e
        /\ \A b \in Deletes : b # d => apDelete'[b] = apDelete[b]
    BY <2>4, <1>0, Zenon DEF AlertsShape
  <2>6. AlertsShape' /\ \A b \in Deletes : apDelete'[b].ticked = apDelete[b].ticked
    BY <2>1, <2>4, <2>5, <1>0 DEF AlertsShape, WholeDelete
  <2> QED BY <2>1, <2>6, NothingTicked
<1>10. CASE UNCHANGED apVars
  <2>1. UNCHANGED <<apShown, apNarrow, apTicked, apConfirm, apDelete, apUser, apFiltered>>
    BY <1>10 DEF apVars
  <2> QED BY <2>1, <1>0, NothingTicked DEF AlertsShape
<1> QED
  BY <1>1, <1>2, <1>3, <1>4, <1>5, <1>6, <1>7, <1>8, <1>9, <1>10
  DEF AlertsPageNext, LoadStep, DeleteStep

(* However rows are ticked, shown anew, searched, paged and filtered, the  *)
(* alerts deleted together are the ones that were ticked.                  *)
THEOREM TickedAreTheOnesDeleted == AlertsPageSpec => []TickedAreDeleted
<1>1. AlertsInv => TickedAreDeleted
  BY DEF AlertsInv, TickedAreDeleted
<1> QED BY <1>1, AlertsStarts, AlertsStep, PTL DEF AlertsPageSpec

-----------------------------------------------------------------------------
(***************************************************************************)
(* SettingsPage: the tab tells, and stores, the truth.                     *)
(***************************************************************************)

SettingsType == [url : Nat, swagger : BOOLEAN, key : Nat]

PageRequestType ==
  [id : Nat, kind : {"load", "url", "swagger", "key"}, value : SettingsType,
   state : {"sent", "ok", "failed"}, live : BOOLEAN]

SettingsPageType ==
  /\ seStored \in SettingsType /\ seShown \in SettingsType
  /\ seRequests \subseteq PageRequestType
  /\ seLoading \in BOOLEAN /\ seDialog \in BOOLEAN /\ sePending \in BOOLEAN
  /\ seRegen \in BOOLEAN /\ seClicks \in Nat

LoadFailed == <<"load", "failed">>

(* Until the page has loaded there is nothing but the request for what is  *)
(* stored.                                                                 *)
LoadingFirst ==
  /\ \A r, q \in seRequests : r.kind = "load" /\ q.kind = "load" => r = q
  /\ seLoading => ~seDialog /\ ~seRegen /\ \A r \in seRequests : r.kind = "load"
  /\ \A r \in seRequests : r.kind = "load" =>
       seLoading /\ r.live /\ (r.state = "ok" => r.value = seStored)

(* Whatever URL is stored, shown or on its way was typed.                  *)
UrlsTyped ==
  /\ seStored.url \in seTyped
  /\ ~seLoading => seShown.url \in seTyped
  /\ \A r \in seRequests : r.kind = "url" => r.value.url \in seTyped

(* One switch at a time: while it is confirmed, and until the server has   *)
(* it, the page shows what is stored.                                      *)
SwitchTrue ==
  /\ \A r, q \in seRequests : r.kind = "swagger" /\ q.kind = "swagger" => r = q
  /\ seDialog => ~OnItsWay("swagger") /\ sePending = ~seShown.swagger
  /\ \A r \in seRequests : r.kind = "swagger" =>
       seStored.swagger = IF r.state = "ok" THEN r.value.swagger ELSE seShown.swagger
  /\ ~OnItsWay("swagger") => seShown.swagger = seStored.swagger

(* One key at a time, and the tab that asked for it is still there.        *)
KeyTrue ==
  /\ \A r, q \in seRequests : r.kind = "key" /\ q.kind = "key" => r = q
  /\ \A r \in seRequests : r.kind = "key" =>
       seRegen /\ seStored.key = IF r.state = "ok" THEN r.value.key ELSE seShown.key
  /\ ~OnItsWay("key") => seShown.key = seStored.key

SwitchFlaws ==
  {LoadFailed, <<"swagger", "rushed">>, <<"swagger", "lost">>, <<"swagger", "unwritten">>}
KeyFlaws == {LoadFailed, <<"key", "left">>, <<"key", "lost">>, <<"key", "unwritten">>}

SettingsPageInv ==
  /\ SettingsPageType /\ LoadingFirst
  /\ LoadFailed \notin seFlaws => UrlsTyped
  /\ ~seLoading /\ seFlaws \cap SwitchFlaws = {} => SwitchTrue
  /\ ~seLoading /\ seFlaws \cap KeyFlaws = {} => KeyTrue

LEMMA SettingsPageStarts == SettingsPageInit => SettingsPageInv
<1> SUFFICES ASSUME SettingsPageInit PROVE SettingsPageInv
  OBVIOUS
<1>1. /\ seStored \in SettingsType /\ seStored.url = 1 /\ seShown \in SettingsType
  BY DEF SettingsPageInit, ServerSettings, SettingsType
<1>2. PICK r : /\ r = [id |-> 0, kind |-> "load", value |-> seShown, state |-> "sent", live |-> TRUE]
               /\ seRequests = {r}
  BY DEF SettingsPageInit
<1>3. r \in PageRequestType /\ r.kind = "load" /\ r.state = "sent" /\ r.live
  BY <1>1, <1>2 DEF PageRequestType
<1>4. /\ seLoading = TRUE /\ seDialog = FALSE /\ sePending = FALSE /\ seRegen = FALSE
      /\ seClicks = 0
  BY DEF SettingsPageInit
<1>5. SettingsPageType
  BY <1>1, <1>2, <1>3, <1>4 DEF SettingsPageType
<1>6. LoadingFirst
  BY <1>2, <1>3, <1>4 DEF LoadingFirst
<1>7. UrlsTyped
  BY <1>1, <1>2, <1>3, <1>4 DEF SettingsPageInit, UrlsTyped
<1> QED BY <1>4, <1>5, <1>6, <1>7 DEF SettingsPageInv

(* A request answered by the server, or lost.                              *)
NowIs(r, state, value) == [r EXCEPT !.state = state, !.value = value]

LEMMA SettingsNowFacts ==
  ASSUME NEW r \in PageRequestType, NEW state \in {"sent", "ok", "failed"},
         NEW v \in SettingsType, NEW q, q = NowIs(r, state, v)
  PROVE  /\ q \in PageRequestType /\ q.kind = r.kind /\ q.value = v
         /\ q.state = state /\ q.live = r.live
<1>1. q \in PageRequestType
  BY Zenon DEF PageRequestType, NowIs
<1>2. q.kind = r.kind
  BY SMT DEF PageRequestType, NowIs
<1>3. q.value = v /\ q.state = state
  BY SMT DEF PageRequestType, NowIs
<1>4. q.live = r.live
  BY SMT DEF PageRequestType, NowIs
<1> QED BY <1>1, <1>2, <1>3, <1>4

LEMMA PageRequestFacts ==
  ASSUME NEW kind \in {"url", "swagger", "key"}, NEW v \in SettingsType, seClicks \in Nat,
         NEW q, q = PageRequest(kind, v)
  PROVE  /\ q \in PageRequestType /\ q.kind = kind /\ q.value = v
         /\ q.state = "sent" /\ q.live
BY DEF PageRequest, PageRequestType

(* Changing one setting keeps the others.                                  *)
LEMMA UrlChanged ==
  ASSUME NEW c \in SettingsType, NEW u \in Nat, NEW n, n = [c EXCEPT !.url = u]
  PROVE  n \in SettingsType /\ n.url = u /\ n.swagger = c.swagger /\ n.key = c.key
<1>1. n \in SettingsType /\ n.url = u /\ n.key = c.key
  BY SMT DEF SettingsType
<1>2. n.swagger = c.swagger
  BY Zenon DEF SettingsType
<1> QED BY <1>1, <1>2

LEMMA SwitchChanged ==
  ASSUME NEW c \in SettingsType, NEW b \in BOOLEAN, NEW n, n = [c EXCEPT !.swagger = b]
  PROVE  n \in SettingsType /\ n.url = c.url /\ n.swagger = b /\ n.key = c.key
<1>1. n \in SettingsType
  BY Zenon DEF SettingsType
<1>2. n.url = c.url /\ n.key = c.key
  BY SMT DEF SettingsType
<1>3. n.swagger = b
  BY Zenon DEF SettingsType
<1> QED BY <1>1, <1>2, <1>3

LEMMA KeyChanged ==
  ASSUME NEW c \in SettingsType, NEW u \in Nat, NEW n, n = [c EXCEPT !.key = u]
  PROVE  n \in SettingsType /\ n.url = c.url /\ n.swagger = c.swagger /\ n.key = u
<1>1. n \in SettingsType /\ n.url = c.url /\ n.key = u
  BY SMT DEF SettingsType
<1>2. n.swagger = c.swagger
  BY Zenon DEF SettingsType
<1> QED BY <1>1, <1>2

(* What the server makes of each kind of request, and answers.             *)
LEMMA AfterFacts ==
  ASSUME SettingsPageType, NEW r \in seRequests, NEW new, new = After(r)
  PROVE  /\ new \in SettingsType /\ Reply(r) \in SettingsType
         /\ r.kind = "load" => new = seStored /\ Reply(r) = seStored
         /\ r.kind # "load" => r.kind \in {"url", "swagger", "key"}
         /\ r.kind = "url" => new.url = r.value.url
         /\ r.kind # "url" => new.url = seStored.url
         /\ r.kind = "swagger" => new.swagger = r.value.swagger /\ Reply(r) = r.value
         /\ r.kind # "swagger" => new.swagger = seStored.swagger
         /\ r.kind = "key" => Reply(r).key = new.key
         /\ r.kind # "key" => new.key = seStored.key
<1>1. /\ r \in PageRequestType /\ seStored \in SettingsType /\ r.value \in SettingsType
      /\ r.kind \in {"load", "url", "swagger", "key"}
  BY DEF SettingsPageType, PageRequestType
<1>2. r.value.url \in Nat /\ r.value.swagger \in BOOLEAN /\ seStored.key + 1 \in Nat
  <2>1. r.value.url \in Nat /\ seStored.key \in Nat
    BY <1>1, SMT DEF SettingsType
  <2>2. r.value.swagger \in BOOLEAN
    BY <1>1, Zenon DEF SettingsType
  <2> QED BY <2>1, <2>2
<1>3. CASE r.kind = "load"
  <2>1. new = seStored /\ Reply(r) = new
    BY <1>3 DEF After, Reply
  <2> QED BY <2>1, <1>1, <1>3
<1>4. CASE r.kind = "url"
  <2>1. new = [seStored EXCEPT !.url = r.value.url] /\ Reply(r) = r.value
    BY <1>4 DEF After, Reply
  <2> QED BY <2>1, <1>1, <1>2, <1>4, UrlChanged
<1>5. CASE r.kind = "swagger"
  <2>1. new = [seStored EXCEPT !.swagger = r.value.swagger] /\ Reply(r) = r.value
    BY <1>5 DEF After, Reply
  <2> QED BY <2>1, <1>1, <1>2, <1>5, SwitchChanged
<1>6. CASE r.kind = "key"
  <2>1. new = [seStored EXCEPT !.key = seStored.key + 1] /\ Reply(r) = new
    BY <1>6 DEF After, Reply
  <2> QED BY <2>1, <1>1, <1>2, <1>6, KeyChanged
<1> QED BY <1>1, <1>3, <1>4, <1>5, <1>6

(* A request that takes another's place disturbs no type.                  *)
LEMMA TypeReplaced ==
  ASSUME SettingsPageType, NEW r \in seRequests, NEW q \in PageRequestType,
         seRequests' = (seRequests \ {r}) \cup {q}, seStored' \in SettingsType,
         UNCHANGED <<seShown, seLoading, seDialog, sePending, seRegen, seClicks>>
  PROVE  SettingsPageType'
BY DEF SettingsPageType

LEMMA ProcessKeeps ==
  ASSUME SettingsPageInv, NEW r \in seRequests, Process(r)
  PROVE  SettingsPageInv'
<1> DEFINE q == NowIs(r, "ok", Reply(r))
<1>0. q = NowIs(r, "ok", Reply(r))
  OBVIOUS
<1> HIDE DEF q
<1>1. /\ seStored' = After(r) /\ seRequests' = (seRequests \ {r}) \cup {q}
      /\ UNCHANGED <<seShown, seLoading, seDialog, sePending, seRegen, seClicks, seTyped, seFlaws>>
      /\ r.state = "sent"
  BY <1>0 DEF Process, SettingsNow, NowIs
<1>2. SettingsPageType /\ LoadingFirst /\ r \in PageRequestType
  BY DEF SettingsPageInv, SettingsPageType
<1>3. /\ seStored' \in SettingsType /\ Reply(r) \in SettingsType
      /\ r.kind = "load" => seStored' = seStored /\ Reply(r) = seStored
      /\ r.kind # "load" => r.kind \in {"url", "swagger", "key"}
      /\ r.kind = "url" => seStored'.url = r.value.url
      /\ r.kind # "url" => seStored'.url = seStored.url
      /\ r.kind = "swagger" => seStored'.swagger = r.value.swagger /\ Reply(r) = r.value
      /\ r.kind # "swagger" => seStored'.swagger = seStored.swagger
      /\ r.kind = "key" => Reply(r).key = seStored'.key
      /\ r.kind # "key" => seStored'.key = seStored.key
  BY <1>1, <1>2, AfterFacts
<1>4. /\ q \in PageRequestType /\ q.kind = r.kind /\ q.value = Reply(r)
      /\ q.state = "ok" /\ q.live = r.live
  <2>1. Reply(r) \in SettingsType /\ r \in PageRequestType
    BY <1>2, <1>3
  <2> QED BY <1>0, <2>1, SettingsNowFacts
<1>5. SettingsPageType'
  BY <1>1, <1>2, <1>3, <1>4, TypeReplaced
<1>6. LoadingFirst'
  BY <1>1, <1>2, <1>3, <1>4 DEF LoadingFirst
<1>7. ASSUME LoadFailed \notin seFlaws' PROVE UrlsTyped'
  <2>1. UrlsTyped
    BY <1>1, <1>7 DEF SettingsPageInv
  <2>2. r.kind = "url" => Reply(r) = r.value
    BY DEF Reply
  <2> QED BY <2>1, <2>2, <1>1, <1>3, <1>4 DEF UrlsTyped
<1>8. \A kind : OnItsWay(kind)' <=> OnItsWay(kind)
  BY <1>1, <1>4 DEF OnItsWay
<1>9. ASSUME ~seLoading', seFlaws' \cap SwitchFlaws = {} PROVE SwitchTrue'
  <2>1. SwitchTrue
    BY <1>1, <1>9 DEF SettingsPageInv
  <2>2. CASE r.kind = "swagger"
    <3>1. \A p \in seRequests' : p.kind = "swagger" => p = q
      BY <2>1, <2>2, <1>1, <1>4 DEF SwitchTrue
    <3>2. OnItsWay("swagger") /\ ~seDialog
      BY <2>1, <2>2 DEF OnItsWay, SwitchTrue
    <3> QED BY <3>1, <3>2, <1>1, <1>3, <1>4, <1>8, <2>2 DEF SwitchTrue
  <2>3. CASE r.kind # "swagger"
    BY <2>1, <2>3, <1>1, <1>3, <1>4, <1>8 DEF SwitchTrue
  <2> QED BY <2>2, <2>3
<1>10. ASSUME ~seLoading', seFlaws' \cap KeyFlaws = {} PROVE KeyTrue'
  <2>1. KeyTrue
    BY <1>1, <1>10 DEF SettingsPageInv
  <2>2. CASE r.kind = "key"
    <3>1. \A p \in seRequests' : p.kind = "key" => p = q
      BY <2>1, <2>2, <1>1, <1>4 DEF KeyTrue
    <3>2. OnItsWay("key") /\ seRegen
      BY <2>1, <2>2 DEF OnItsWay, KeyTrue
    <3> QED BY <3>1, <3>2, <1>1, <1>3, <1>4, <1>8, <2>2 DEF KeyTrue
  <2>3. CASE r.kind # "key"
    BY <2>1, <2>3, <1>1, <1>3, <1>4, <1>8 DEF KeyTrue
  <2> QED BY <2>2, <2>3
<1> QED BY <1>5, <1>6, <1>7, <1>9, <1>10 DEF SettingsPageInv

LEMMA FailKeeps ==
  ASSUME SettingsPageInv, NEW r \in seRequests, Fail(r)
  PROVE  SettingsPageInv'
<1> DEFINE q == NowIs(r, "failed", r.value)
<1>0. q = NowIs(r, "failed", r.value)
  OBVIOUS
<1> HIDE DEF q
<1>1. /\ seRequests' = (seRequests \ {r}) \cup {q}
      /\ UNCHANGED <<seShown, seLoading, seDialog, sePending, seRegen, seClicks, seTyped>>
      /\ r.state # "failed" /\ seFlaws \subseteq seFlaws'
      /\ r.state = "ok" => <<r.kind, "lost">> \in seFlaws'
      /\ \/ UNCHANGED seStored
         \/ /\ r.state = "sent" /\ r.kind # "load" /\ seStored' = After(r)
            /\ <<r.kind, "unwritten">> \in seFlaws'
  BY <1>0 DEF Fail, SettingsNow, NowIs
<1>2. SettingsPageType /\ LoadingFirst /\ r \in PageRequestType /\ r.value \in SettingsType
      /\ r.state \in {"sent", "ok"}
  BY <1>1 DEF SettingsPageInv, SettingsPageType, PageRequestType
<1>3. /\ seStored' \in SettingsType
      /\ r.kind = "load" => seStored' = seStored
      /\ seStored'.url = seStored.url \/ (r.kind = "url" /\ seStored'.url = r.value.url)
      /\ r.kind # "swagger" => seStored'.swagger = seStored.swagger
      /\ r.kind # "key" => seStored'.key = seStored.key
  <2>1. CASE UNCHANGED seStored
    BY <1>2, <2>1 DEF SettingsPageType
  <2>2. CASE r.kind # "load" /\ seStored' = After(r)
    BY <1>2, <2>2, AfterFacts
  <2> QED BY <1>1, <2>1, <2>2
<1>4. /\ q \in PageRequestType /\ q.kind = r.kind /\ q.value = r.value
      /\ q.state = "failed" /\ q.live = r.live
  BY <1>0, <1>2, SettingsNowFacts
<1>5. SettingsPageType'
  BY <1>1, <1>2, <1>3, <1>4, TypeReplaced
<1>6. LoadingFirst'
  BY <1>1, <1>2, <1>3, <1>4 DEF LoadingFirst
<1>7. ASSUME LoadFailed \notin seFlaws' PROVE UrlsTyped'
  <2>1. UrlsTyped
    BY <1>1, <1>7 DEF SettingsPageInv
  <2> QED BY <2>1, <1>1, <1>3, <1>4 DEF UrlsTyped
<1>8. \A kind : OnItsWay(kind)' <=> OnItsWay(kind)
  BY <1>1, <1>4 DEF OnItsWay
<1>9. ASSUME ~seLoading', seFlaws' \cap SwitchFlaws = {} PROVE SwitchTrue'
  <2>1. SwitchTrue
    BY <1>1, <1>9 DEF SettingsPageInv
  <2>2. CASE r.kind = "swagger"
    <3>1. \A p \in seRequests' : p.kind = "swagger" => p = q
      BY <2>1, <2>2, <1>1, <1>4 DEF SwitchTrue
    <3>2. r.state = "sent" /\ seStored' = seStored
      BY <1>1, <1>2, <1>9, <2>2 DEF SwitchFlaws
    <3>3. OnItsWay("swagger") /\ ~seDialog /\ seStored.swagger = seShown.swagger
      BY <2>1, <2>2, <3>2 DEF OnItsWay, SwitchTrue
    <3> QED BY <3>1, <3>2, <3>3, <1>1, <1>4, <1>8, <2>2 DEF SwitchTrue
  <2>3. CASE r.kind # "swagger"
    BY <2>1, <2>3, <1>1, <1>3, <1>4, <1>8 DEF SwitchTrue
  <2> QED BY <2>2, <2>3
<1>10. ASSUME ~seLoading', seFlaws' \cap KeyFlaws = {} PROVE KeyTrue'
  <2>1. KeyTrue
    BY <1>1, <1>10 DEF SettingsPageInv
  <2>2. CASE r.kind = "key"
    <3>1. \A p \in seRequests' : p.kind = "key" => p = q
      BY <2>1, <2>2, <1>1, <1>4 DEF KeyTrue
    <3>2. r.state = "sent" /\ seStored' = seStored
      BY <1>1, <1>2, <1>10, <2>2 DEF KeyFlaws
    <3>3. OnItsWay("key") /\ seRegen /\ seStored.key = seShown.key
      BY <2>1, <2>2, <3>2 DEF OnItsWay, KeyTrue
    <3> QED BY <3>1, <3>2, <3>3, <1>1, <1>4, <1>8, <2>2 DEF KeyTrue
  <2>3. CASE r.kind # "key"
    BY <2>1, <2>3, <1>1, <1>3, <1>4, <1>8 DEF KeyTrue
  <2> QED BY <2>2, <2>3
<1> QED BY <1>1, <1>5, <1>6, <1>7, <1>9, <1>10 DEF SettingsPageInv

(* The answers.                                                            *)
LEMMA FetchedKeeps ==
  ASSUME SettingsPageInv, NEW r \in seRequests, SettingsFetched(r)
  PROVE  SettingsPageInv'
<1>1. /\ r.kind = "load" /\ r.state # "sent" /\ seRequests' = seRequests \ {r}
      /\ seShown' = (IF r.state = "ok" THEN r.value ELSE seShown) /\ seLoading' = FALSE
      /\ seFlaws' = (IF r.state = "ok" THEN seFlaws ELSE seFlaws \cup {LoadFailed})
      /\ UNCHANGED <<seStored, seDialog, sePending, seRegen, seClicks, seTyped>>
  BY DEF SettingsFetched, LoadFailed
<1>2. SettingsPageType /\ LoadingFirst /\ r.value \in SettingsType
  BY DEF SettingsPageInv, SettingsPageType, PageRequestType
<1>3. /\ seLoading /\ ~seDialog /\ ~seRegen /\ seRequests' = {}
      /\ r.state = "ok" => r.value = seStored
  <2>1. seLoading
    BY <1>1, <1>2 DEF LoadingFirst
  <2>2. \A q \in seRequests : q = r
    BY <1>1, <1>2, <2>1 DEF LoadingFirst
  <2> QED BY <1>1, <1>2, <2>1, <2>2 DEF LoadingFirst
<1>4. SettingsPageType'
  BY <1>1, <1>2, <1>3 DEF SettingsPageType
<1>5. LoadingFirst'
  BY <1>1, <1>3 DEF LoadingFirst
<1>6. ASSUME r.state = "ok" PROVE seShown' = seStored' /\ ~OnItsWay("swagger")' /\ ~OnItsWay("key")'
  BY <1>1, <1>3, <1>6 DEF OnItsWay
<1>7. r.state # "ok" => LoadFailed \in seFlaws'
  BY <1>1
<1>8. LoadFailed \notin seFlaws' => UrlsTyped'
  BY <1>1, <1>3, <1>6, <1>7 DEF SettingsPageInv, UrlsTyped
<1>9. seFlaws' \cap SwitchFlaws = {} => SwitchTrue'
  BY <1>1, <1>3, <1>6, <1>7 DEF SwitchTrue, SwitchFlaws
<1>10. seFlaws' \cap KeyFlaws = {} => KeyTrue'
  BY <1>1, <1>3, <1>6, <1>7 DEF KeyTrue, KeyFlaws
<1> QED BY <1>4, <1>5, <1>8, <1>9, <1>10 DEF SettingsPageInv

LEMMA UrlAnsweredKeeps ==
  ASSUME SettingsPageInv, NEW r \in seRequests, UrlAnswered(r)
  PROVE  SettingsPageInv'
<1>1. /\ r.kind = "url" /\ seRequests' = seRequests \ {r}
      /\ UNCHANGED <<seStored, seShown, seLoading, seDialog, sePending, seRegen, seClicks, seTyped,
                     seFlaws>>
  BY DEF UrlAnswered
<1>2. SettingsPageType' /\ LoadingFirst'
  BY <1>1 DEF SettingsPageInv, SettingsPageType, LoadingFirst
<1>3. UrlsTyped => UrlsTyped'
  BY <1>1 DEF UrlsTyped
<1>4. \A kind \in {"swagger", "key"} : OnItsWay(kind)' <=> OnItsWay(kind)
  BY <1>1 DEF OnItsWay
<1>5. SwitchTrue => SwitchTrue'
  BY <1>1, <1>4 DEF SwitchTrue
<1>6. KeyTrue => KeyTrue'
  BY <1>1, <1>4 DEF KeyTrue
<1> QED BY <1>1, <1>2, <1>3, <1>5, <1>6 DEF SettingsPageInv

LEMMA SwaggerAnsweredKeeps ==
  ASSUME SettingsPageInv, NEW r \in seRequests, SwaggerAnswered(r)
  PROVE  SettingsPageInv'
<1> DEFINE new == [seShown EXCEPT !.swagger = r.value.swagger]
<1>0. new = [seShown EXCEPT !.swagger = r.value.swagger]
  OBVIOUS
<1> HIDE DEF new
<1>1. /\ r.kind = "swagger" /\ r.state # "sent" /\ seRequests' = seRequests \ {r}
      /\ seShown' = (IF r.state = "ok" THEN new ELSE seShown) /\ seDialog' = (seDialog /\ ~r.live)
      /\ UNCHANGED <<seStored, seLoading, sePending, seRegen, seClicks, seTyped, seFlaws>>
  BY <1>0 DEF SwaggerAnswered
<1>2. SettingsPageType /\ LoadingFirst /\ r.value.swagger \in BOOLEAN /\ ~seLoading
  <2>1. r.value \in SettingsType
    BY DEF SettingsPageInv, SettingsPageType, PageRequestType
  <2>2. r.value.swagger \in BOOLEAN
    BY <2>1, Zenon DEF SettingsType
  <2>3. ~seLoading
    BY <1>1 DEF SettingsPageInv, LoadingFirst
  <2> QED BY <2>2, <2>3 DEF SettingsPageInv
<1>3. /\ new \in SettingsType /\ new.url = seShown.url /\ new.swagger = r.value.swagger
      /\ new.key = seShown.key
  BY <1>0, <1>2, SwitchChanged DEF SettingsPageType
<1>4. /\ seShown' \in SettingsType /\ seShown'.url = seShown.url /\ seShown'.key = seShown.key
      /\ r.state = "ok" => seShown'.swagger = r.value.swagger
      /\ r.state # "ok" => seShown' = seShown
  BY <1>1, <1>2, <1>3 DEF SettingsPageType
<1>5. SettingsPageType'
  BY <1>1, <1>2, <1>4 DEF SettingsPageType
<1>6. LoadingFirst'
  BY <1>1, <1>2 DEF LoadingFirst
<1>7. UrlsTyped => UrlsTyped'
  BY <1>1, <1>4 DEF UrlsTyped
<1>8. OnItsWay("key")' <=> OnItsWay("key")
  BY <1>1 DEF OnItsWay
<1>9. ASSUME SwitchTrue PROVE SwitchTrue'
  <2>1. \A q \in seRequests' : q.kind # "swagger"
    BY <1>1, <1>9 DEF SwitchTrue
  <2>2. OnItsWay("swagger")
    BY <1>1 DEF OnItsWay
  <2>3. ~OnItsWay("swagger")' /\ ~seDialog /\ ~seDialog'
    BY <1>1, <1>9, <2>1, <2>2 DEF OnItsWay, SwitchTrue
  <2>4. seShown'.swagger = seStored'.swagger
    BY <1>1, <1>4, <1>9 DEF SwitchTrue
  <2> QED BY <2>1, <2>3, <2>4 DEF SwitchTrue
<1>10. KeyTrue => KeyTrue'
  BY <1>1, <1>4, <1>8 DEF KeyTrue
<1> QED BY <1>1, <1>5, <1>6, <1>7, <1>9, <1>10 DEF SettingsPageInv

LEMMA KeyAnsweredKeeps ==
  ASSUME SettingsPageInv, NEW r \in seRequests, KeyAnswered(r)
  PROVE  SettingsPageInv'
<1> DEFINE new == [seShown EXCEPT !.key = r.value.key]
<1>0. new = [seShown EXCEPT !.key = r.value.key]
  OBVIOUS
<1> HIDE DEF new
<1>1. /\ r.kind = "key" /\ r.state # "sent" /\ seRequests' = seRequests \ {r}
      /\ seShown' = (IF r.state = "ok" THEN new ELSE seShown) /\ seRegen' = (seRegen /\ ~r.live)
      /\ UNCHANGED <<seStored, seLoading, seDialog, sePending, seClicks, seTyped, seFlaws>>
  BY <1>0 DEF KeyAnswered
<1>2. SettingsPageType /\ LoadingFirst /\ r.value.key \in Nat /\ ~seLoading
  <2>1. r.value \in SettingsType
    BY DEF SettingsPageInv, SettingsPageType, PageRequestType
  <2>2. r.value.key \in Nat
    BY <2>1, SMT DEF SettingsType
  <2>3. ~seLoading
    BY <1>1 DEF SettingsPageInv, LoadingFirst
  <2> QED BY <2>2, <2>3 DEF SettingsPageInv
<1>3. /\ new \in SettingsType /\ new.url = seShown.url /\ new.swagger = seShown.swagger
      /\ new.key = r.value.key
  BY <1>0, <1>2, KeyChanged DEF SettingsPageType
<1>4. /\ seShown' \in SettingsType /\ seShown'.url = seShown.url
      /\ seShown'.swagger = seShown.swagger
      /\ r.state = "ok" => seShown'.key = r.value.key
      /\ r.state # "ok" => seShown' = seShown
  BY <1>1, <1>2, <1>3 DEF SettingsPageType
<1>5. SettingsPageType'
  BY <1>1, <1>2, <1>4 DEF SettingsPageType
<1>6. LoadingFirst'
  BY <1>1, <1>2 DEF LoadingFirst
<1>7. UrlsTyped => UrlsTyped'
  BY <1>1, <1>4 DEF UrlsTyped
<1>8. OnItsWay("swagger")' <=> OnItsWay("swagger")
  BY <1>1 DEF OnItsWay
<1>9. ASSUME KeyTrue PROVE KeyTrue'
  <2>1. \A q \in seRequests' : q.kind # "key"
    BY <1>1, <1>9 DEF KeyTrue
  <2>2. seShown'.key = seStored'.key
    BY <1>1, <1>4, <1>9 DEF KeyTrue
  <2> QED BY <2>1, <2>2 DEF KeyTrue
<1>10. SwitchTrue => SwitchTrue'
  BY <1>1, <1>4, <1>8 DEF SwitchTrue
<1> QED BY <1>1, <1>5, <1>6, <1>7, <1>9, <1>10 DEF SettingsPageInv

(* What the user does.                                                     *)
LEMMA TypeKeeps ==
  ASSUME SettingsPageInv, NEW u \in Typable, Type(u)
  PROVE  SettingsPageInv'
<1>1. /\ seShown' = [seShown EXCEPT !.url = u] /\ seTyped' = seTyped \cup {u} /\ ~seLoading
      /\ UNCHANGED <<seStored, seLoading, seDialog, sePending, seRegen, seRequests, seClicks, seFlaws>>
  BY DEF Type
<1>2. u \in Nat /\ seShown \in SettingsType
  BY SettingsPageAssumption DEF SettingsPageInv, SettingsPageType
<1>3. /\ seShown' \in SettingsType /\ seShown'.url = u /\ seShown'.swagger = seShown.swagger
      /\ seShown'.key = seShown.key
  BY <1>1, <1>2, UrlChanged
<1>4. SettingsPageType' /\ LoadingFirst'
  BY <1>1, <1>3 DEF SettingsPageInv, SettingsPageType, LoadingFirst
<1>5. UrlsTyped => UrlsTyped'
  BY <1>1, <1>3 DEF UrlsTyped
<1>6. SwitchTrue => SwitchTrue'
  BY <1>1, <1>3 DEF SwitchTrue, OnItsWay
<1>7. KeyTrue => KeyTrue'
  BY <1>1, <1>3 DEF KeyTrue, OnItsWay
<1> QED BY <1>1, <1>4, <1>5, <1>6, <1>7 DEF SettingsPageInv

LEMMA BlurKeeps ==
  ASSUME SettingsPageInv, Blur
  PROVE  SettingsPageInv'
<1> DEFINE q == PageRequest("url", seShown)
<1>0. q = PageRequest("url", seShown)
  OBVIOUS
<1> HIDE DEF q
<1>1. /\ ~seLoading /\ seRequests' = seRequests \cup {q} /\ seClicks' = seClicks + 1
      /\ UNCHANGED <<seStored, seShown, seLoading, seDialog, sePending, seRegen, seTyped, seFlaws>>
  BY <1>0 DEF Blur, SettingsClick
<1>2. seShown \in SettingsType /\ seClicks \in Nat
  BY DEF SettingsPageInv, SettingsPageType
<1>3. q \in PageRequestType /\ q.kind = "url" /\ q.value = seShown
  BY <1>0, <1>2, PageRequestFacts
<1>4. SettingsPageType' /\ LoadingFirst'
  BY <1>1, <1>2, <1>3 DEF SettingsPageInv, SettingsPageType, LoadingFirst
<1>5. UrlsTyped => UrlsTyped'
  BY <1>1, <1>3 DEF UrlsTyped
<1>6. \A kind \in {"swagger", "key"} : OnItsWay(kind)' <=> OnItsWay(kind)
  BY <1>1, <1>3 DEF OnItsWay
<1>7. SwitchTrue => SwitchTrue'
  BY <1>1, <1>3, <1>6 DEF SwitchTrue
<1>8. KeyTrue => KeyTrue'
  BY <1>1, <1>3, <1>6 DEF KeyTrue
<1> QED BY <1>1, <1>4, <1>5, <1>7, <1>8 DEF SettingsPageInv

LEMMA ToggleKeeps ==
  ASSUME SettingsPageInv, Toggle
  PROVE  SettingsPageInv'
<1>1. /\ ~seLoading /\ sePending' = ~seShown.swagger /\ seDialog' = TRUE
      /\ seFlaws' = (IF OnItsWay("swagger") THEN seFlaws \cup {<<"swagger", "rushed">>} ELSE seFlaws)
      /\ UNCHANGED <<seStored, seShown, seLoading, seRegen, seRequests, seClicks, seTyped>>
  BY DEF Toggle
<1>2. SettingsPageType'
  <2>1. sePending' \in BOOLEAN /\ seDialog' \in BOOLEAN
    BY <1>1
  <2> QED BY <1>1, <2>1 DEF SettingsPageInv, SettingsPageType
<1>3. LoadingFirst'
  BY <1>1 DEF SettingsPageInv, LoadingFirst
<1>4. UrlsTyped => UrlsTyped'
  BY <1>1 DEF UrlsTyped
<1>5. ASSUME seFlaws' \cap SwitchFlaws = {} PROVE SwitchTrue'
  <2>1. ~OnItsWay("swagger") /\ seFlaws' = seFlaws
    BY <1>1, <1>5 DEF SwitchFlaws
  <2>2. SwitchTrue
    BY <1>1, <1>5, <2>1 DEF SettingsPageInv
  <2> QED BY <1>1, <2>1, <2>2 DEF SwitchTrue, OnItsWay
<1>6. KeyTrue => KeyTrue'
  BY <1>1 DEF KeyTrue, OnItsWay
<1>7. seFlaws \subseteq seFlaws'
  BY <1>1
<1> QED BY <1>1, <1>2, <1>3, <1>4, <1>5, <1>6, <1>7 DEF SettingsPageInv

LEMMA SwitchBackKeeps ==
  ASSUME SettingsPageInv, RestartNowOrLater \/ Escape
  PROVE  SettingsPageInv'
<1> DEFINE asked == [seShown EXCEPT !.swagger = sePending]
           q == PageRequest("swagger", asked)
<1>0. asked = [seShown EXCEPT !.swagger = sePending] /\ q = PageRequest("swagger", asked)
  OBVIOUS
<1> HIDE DEF asked, q
<1>1. /\ seDialog /\ seDialog' = FALSE
      /\ seShown' = [seShown EXCEPT !.swagger = ~sePending]
      /\ UNCHANGED <<seStored, seLoading, sePending, seRegen, seTyped, seFlaws>>
      /\ seClicks' \in {seClicks, seClicks + 1}
      /\ seRequests' = seRequests \/ seRequests' = seRequests \cup {q}
  BY <1>0 DEF RestartNowOrLater, Escape, SettingsClick
<1>2. /\ seShown \in SettingsType /\ sePending \in BOOLEAN
      /\ seClicks \in Nat /\ ~seLoading
  <2>1. seShown \in SettingsType /\ sePending \in BOOLEAN /\ seClicks \in Nat
    BY DEF SettingsPageInv, SettingsPageType
  <2>2. ~seLoading
    BY <1>1 DEF SettingsPageInv, LoadingFirst
  <2> QED BY <2>1, <2>2
<1>3. /\ asked \in SettingsType /\ asked.swagger = sePending
  BY <1>0, <1>2, SwitchChanged
<1>4. q \in PageRequestType /\ q.kind = "swagger" /\ q.value = asked /\ q.state = "sent"
  BY <1>0, <1>2, <1>3, PageRequestFacts
<1>5. /\ seShown' \in SettingsType /\ seShown'.url = seShown.url
      /\ seShown'.swagger = ~sePending /\ seShown'.key = seShown.key
  <2>1. CASE sePending = TRUE
    <3>1. seShown' = [seShown EXCEPT !.swagger = FALSE]
      BY <1>1, <2>1
    <3> QED BY <1>2, <2>1, <3>1, SwitchChanged
  <2>2. CASE sePending = FALSE
    <3>1. seShown' = [seShown EXCEPT !.swagger = TRUE]
      BY <1>1, <2>2
    <3> QED BY <1>2, <2>2, <3>1, SwitchChanged
  <2> QED BY <1>2, <2>1, <2>2
<1>6. SettingsPageType'
  <2>1. seClicks' \in Nat
    BY <1>1, <1>2
  <2> QED BY <1>1, <1>4, <1>5, <2>1 DEF SettingsPageInv, SettingsPageType
<1>7. LoadingFirst'
  BY <1>1, <1>2, <1>4 DEF SettingsPageInv, LoadingFirst
<1>8. UrlsTyped => UrlsTyped'
  BY <1>1, <1>2, <1>4, <1>5 DEF UrlsTyped
<1>9. OnItsWay("key")' <=> OnItsWay("key")
  BY <1>1, <1>4 DEF OnItsWay
<1>10. ASSUME SwitchTrue PROVE SwitchTrue'
  <2>1. /\ \A r \in seRequests : r.kind # "swagger"
        /\ sePending = ~seShown.swagger /\ seShown.swagger = seStored.swagger
    BY <1>1, <1>10 DEF SwitchTrue, OnItsWay
  <2>2. seShown.swagger \in BOOLEAN
    BY <1>2, Zenon DEF SettingsType
  <2>3. seShown'.swagger = seStored'.swagger
    BY <1>1, <1>5, <2>1, <2>2
  <2>4. \A r \in seRequests' : r.kind = "swagger" => r = q
    BY <1>1, <2>1
  <2> QED BY <1>1, <1>4, <2>3, <2>4 DEF SwitchTrue
<1>11. KeyTrue => KeyTrue'
  BY <1>1, <1>4, <1>5, <1>9 DEF KeyTrue
<1> QED BY <1>1, <1>6, <1>7, <1>8, <1>10, <1>11 DEF SettingsPageInv

LEMMA RegenerateKeeps ==
  ASSUME SettingsPageInv, Regenerate
  PROVE  SettingsPageInv'
<1> DEFINE q == PageRequest("key", seShown)
<1>0. q = PageRequest("key", seShown)
  OBVIOUS
<1> HIDE DEF q
<1>1. /\ ~seLoading /\ ~seRegen /\ seRegen' = TRUE /\ seRequests' = seRequests \cup {q}
      /\ seClicks' = seClicks + 1
      /\ UNCHANGED <<seStored, seShown, seLoading, seDialog, sePending, seTyped, seFlaws>>
  BY <1>0 DEF Regenerate, MayRegenerate, SettingsClick
<1>2. seShown \in SettingsType /\ seClicks \in Nat
  BY DEF SettingsPageInv, SettingsPageType
<1>3. q \in PageRequestType /\ q.kind = "key" /\ q.state = "sent"
  BY <1>0, <1>2, PageRequestFacts
<1>4. SettingsPageType' /\ LoadingFirst'
  <2>1. seClicks' \in Nat
    BY <1>1, <1>2
  <2> QED BY <1>1, <1>3, <2>1 DEF SettingsPageInv, SettingsPageType, LoadingFirst
<1>5. UrlsTyped => UrlsTyped'
  BY <1>1, <1>3 DEF UrlsTyped
<1>6. OnItsWay("swagger")' <=> OnItsWay("swagger")
  BY <1>1, <1>3 DEF OnItsWay
<1>7. SwitchTrue => SwitchTrue'
  BY <1>1, <1>3, <1>6 DEF SwitchTrue
<1>8. ASSUME KeyTrue PROVE KeyTrue'
  <2>1. \A r \in seRequests : r.kind # "key"
    BY <1>1, <1>8 DEF KeyTrue
  <2>2. seShown.key = seStored.key
    BY <1>8, <2>1 DEF KeyTrue, OnItsWay
  <2> QED BY <1>1, <1>3, <2>1, <2>2 DEF KeyTrue
<1> QED BY <1>1, <1>4, <1>5, <1>7, <1>8 DEF SettingsPageInv

LEMMA ChangeTabKeeps ==
  ASSUME SettingsPageInv, ChangeTab
  PROVE  SettingsPageInv'
<1>1. /\ ~seDialog /\ seRegen' = FALSE /\ sePending' = FALSE /\ seClicks' = seClicks + 1
      /\ seRequests' = {[r EXCEPT !.live = r.kind = "load"] : r \in seRequests}
      /\ seFlaws' = (IF seRegen THEN seFlaws \cup {<<"key", "left">>} ELSE seFlaws)
      /\ UNCHANGED <<seStored, seShown, seLoading, seDialog, seTyped>>
  BY DEF ChangeTab, SettingsClick
<1>2. SettingsPageType /\ LoadingFirst
  BY DEF SettingsPageInv
<1>3. \A s \in seRequests' : \E r \in seRequests : s = [r EXCEPT !.live = r.kind = "load"]
  BY <1>1
<1>4. \A r \in seRequests : \A s : s = [r EXCEPT !.live = r.kind = "load"] =>
        /\ s \in PageRequestType /\ s.kind = r.kind /\ s.state = r.state /\ s.value = r.value
        /\ r.kind = "load" => s.live
  <2>1. SUFFICES ASSUME NEW r \in PageRequestType, NEW s, s = [r EXCEPT !.live = r.kind = "load"]
                 PROVE  /\ s \in PageRequestType /\ s.kind = r.kind /\ s.state = r.state
                        /\ s.value = r.value
                        /\ r.kind = "load" => s.live
    BY <1>2 DEF SettingsPageType
  <2>2. s \in PageRequestType
    BY <2>1, Zenon DEF PageRequestType
  <2>3. s.kind = r.kind /\ s.state = r.state
    BY <2>1, SMT DEF PageRequestType
  <2>4. s.value = r.value
    BY <2>1, SMT DEF PageRequestType
  <2>5. s.live = (r.kind = "load")
    BY <2>1, Zenon DEF PageRequestType
  <2> QED BY <2>2, <2>3, <2>4, <2>5
<1>5. \A s \in seRequests' : \E r \in seRequests :
        /\ s = [r EXCEPT !.live = r.kind = "load"]
        /\ s \in PageRequestType /\ s.kind = r.kind /\ s.state = r.state /\ s.value = r.value
        /\ r.kind = "load" => s.live
  BY <1>3, <1>4
<1>6. SettingsPageType'
  <2>1. seRequests' \subseteq PageRequestType
    BY <1>5
  <2>2. seClicks' = seClicks + 1 /\ seClicks \in Nat
    BY <1>1, <1>2 DEF SettingsPageType
  <2>3. seClicks' \in Nat
    BY <2>2
  <2> QED BY <1>1, <1>2, <2>1, <2>3 DEF SettingsPageType
<1>7. LoadingFirst'
  <2>1. \A s, t \in seRequests' : s.kind = "load" /\ t.kind = "load" => s = t
    BY <1>2, <1>5 DEF LoadingFirst
  <2>2. \A s \in seRequests' : s.kind = "load" =>
          seLoading' /\ s.live /\ (s.state = "ok" => s.value = seStored')
    BY <1>1, <1>2, <1>5 DEF LoadingFirst
  <2>3. seLoading' => ~seDialog' /\ ~seRegen' /\ \A s \in seRequests' : s.kind = "load"
    BY <1>1, <1>2, <1>5 DEF LoadingFirst
  <2> QED BY <2>1, <2>2, <2>3 DEF LoadingFirst
<1>8. UrlsTyped => UrlsTyped'
  BY <1>1, <1>5 DEF UrlsTyped
<1>9. OnItsWay("swagger")' <=> OnItsWay("swagger")
  <2>1. \A r \in seRequests : \E s \in seRequests' : s.kind = r.kind
    BY <1>1, <1>4
  <2> QED BY <1>5, <2>1 DEF OnItsWay
<1>10. ASSUME SwitchTrue PROVE SwitchTrue'
  <2>1. \A s, t \in seRequests' : s.kind = "swagger" /\ t.kind = "swagger" => s = t
    BY <1>5, <1>10 DEF SwitchTrue
  <2>2. \A s \in seRequests' : s.kind = "swagger" =>
          seStored'.swagger = IF s.state = "ok" THEN s.value.swagger ELSE seShown'.swagger
    BY <1>1, <1>5, <1>10 DEF SwitchTrue
  <2>3. ~OnItsWay("swagger")' => seShown'.swagger = seStored'.swagger
    BY <1>1, <1>9, <1>10 DEF SwitchTrue
  <2> QED BY <1>1, <2>1, <2>2, <2>3 DEF SwitchTrue
<1>11. ASSUME ~seLoading, seFlaws' \cap KeyFlaws = {} PROVE KeyTrue'
  <2>1. ~seRegen /\ seFlaws' = seFlaws
    BY <1>1, <1>11 DEF KeyFlaws
  <2>2. KeyTrue
    BY <1>11, <2>1 DEF SettingsPageInv
  <2>3. /\ \A r \in seRequests : r.kind # "key"
        /\ seShown.key = seStored.key
    BY <2>1, <2>2 DEF KeyTrue, OnItsWay
  <2>4. \A s \in seRequests' : s.kind # "key"
    BY <1>5, <2>3
  <2> QED BY <1>1, <2>3, <2>4 DEF KeyTrue
<1>12. seFlaws \subseteq seFlaws'
  BY <1>1
<1> QED BY <1>1, <1>6, <1>7, <1>8, <1>10, <1>11, <1>12 DEF SettingsPageInv

LEMMA SettingsPageStep == SettingsPageInv /\ [SettingsPageNext]_seVars => SettingsPageInv'
<1> SUFFICES ASSUME SettingsPageInv, [SettingsPageNext]_seVars PROVE SettingsPageInv'
  OBVIOUS
<1>1. CASE UNCHANGED seVars
  BY <1>1 DEF seVars, SettingsPageInv, SettingsPageType, LoadingFirst, UrlsTyped, SwitchTrue, KeyTrue,
              OnItsWay
<1>2. CASE SettingsPageNext
  BY <1>2, ProcessKeeps, FailKeeps, FetchedKeeps, UrlAnsweredKeeps, SwaggerAnsweredKeeps,
     KeyAnsweredKeeps, TypeKeeps, BlurKeeps, ToggleKeeps, SwitchBackKeeps, RegenerateKeeps,
     ChangeTabKeeps
  DEF SettingsPageNext
<1> QED BY <1>1, <1>2

(* However loads, saves, toggles, new keys and changes of the tab overlap, *)
(* and whatever the network loses, the URL stored was typed by somebody,   *)
(* and switch and key are those of the server - save for the flaws named.  *)
THEOREM TabAlwaysTellsTruth == SettingsPageSpec => []TabTellsTruth
<1>1. SettingsPageInv => UrlWasEntered
  BY DEF SettingsPageInv, UrlsTyped, UrlWasEntered, LoadFailed
<1>2. SettingsPageInv => SwitchTellsTruth
  BY DEF SettingsPageInv, SwitchTrue, SwitchTellsTruth, SwitchFlaws, LoadFailed
<1>3. SettingsPageInv => KeyShownIsValid
  BY DEF SettingsPageInv, KeyTrue, KeyShownIsValid, KeyFlaws, LoadFailed
<1>4. SettingsPageInv => TabTellsTruth
  BY <1>1, <1>2, <1>3 DEF TabTellsTruth
<1> QED BY <1>4, SettingsPageStarts, SettingsPageStep, PTL DEF SettingsPageSpec

-----------------------------------------------------------------------------
(***************************************************************************)
(* Notifications: what the tab shows unedited is what the server has.      *)
(***************************************************************************)

FormRequestType ==
  [id : Nat, kind : {"load", "save", "test"}, provider : Providers,
   value : [Providers -> Service], state : {"sent", "trying", "ok", "failed"}, live : BOOLEAN]

FormType ==
  /\ noStored \in [Providers -> Service] /\ noForm \in [Providers -> Service]
  /\ noRequests \subseteq FormRequestType
  /\ noTab \in {"loading", "loaded", "empty"} /\ noChosen \in Providers
  /\ noSaving \in BOOLEAN /\ noClicks \in Nat
  /\ \A r \in noRequests : r.state = "trying" => r.kind = "test"

IsSave(r) == r \in noRequests /\ r.kind = "save"
IsLoad(r) == r \in noRequests /\ r.kind = "load" /\ r.live

(* The tab that is mounted loads at most once, and saves only once it has  *)
(* loaded.                                                                 *)
LoadsOnce ==
  /\ \A r, q \in noRequests : IsLoad(r) /\ IsLoad(q) => r = q
  /\ \A r \in noRequests : IsLoad(r) => noTab = "loading"
  /\ noSaving => noTab = "loaded"

(* As long as no save was left or lost: one save at a time, of which the   *)
(* tab knows; what it loads is what is stored; and what nobody edited is   *)
(* what is stored and what is being saved.                                 *)
SavesTruly ==
  /\ \A r, q \in noRequests : IsSave(r) /\ IsSave(q) => r = q
  /\ \A r \in noRequests : IsSave(r) =>
       /\ noSaving
       /\ \A p \in Providers \ noEdited : noForm[p] = r.value[p]
       /\ r.state = "ok" => noStored[r.provider] = r.value[r.provider]
  /\ \A r \in noRequests : IsLoad(r) /\ r.state = "ok" => r.value = noStored
  /\ noTab = "loaded" => \A p \in Providers \ noEdited : noForm[p] = noStored[p]

FormInv == FormType /\ LoadsOnce /\ (~noLeft => SavesTruly)

(* A request that is sent; one whose state and value change; one that is   *)
(* left behind.                                                            *)
LEMMA FormRequestFacts ==
  ASSUME NEW kind \in {"load", "save", "test"}, NEW p \in Providers,
         NEW v \in [Providers -> Service], noClicks \in Nat, NEW q, q = FormRequest(kind, p, v)
  PROVE  /\ q \in FormRequestType /\ q.kind = kind /\ q.provider = p /\ q.value = v
         /\ q.state = "sent" /\ q.live
BY DEF FormRequest, FormRequestType

FormNowIs(r, state, value) == [r EXCEPT !.state = state, !.value = value]

LEMMA FormNowFacts ==
  ASSUME NEW r \in FormRequestType, NEW state \in {"sent", "trying", "ok", "failed"},
         NEW v \in [Providers -> Service],
         NEW q, q = FormNowIs(r, state, v)
  PROVE  /\ q \in FormRequestType /\ q.kind = r.kind /\ q.provider = r.provider /\ q.value = v
         /\ q.state = state /\ q.live = r.live
<1>1. q \in FormRequestType
  BY Zenon DEF FormRequestType, FormNowIs
<1>2. q.kind = r.kind /\ q.provider = r.provider
  BY SMT DEF FormRequestType, FormNowIs
<1>3. q.value = v /\ q.state = state
  BY SMT DEF FormRequestType, FormNowIs
<1>4. q.live = r.live
  BY SMT DEF FormRequestType, FormNowIs
<1> QED BY <1>1, <1>2, <1>3, <1>4

LEMMA LeftBehindFacts ==
  ASSUME NEW r \in FormRequestType, NEW q, q = [r EXCEPT !.live = FALSE]
  PROVE  /\ q \in FormRequestType /\ q.kind = r.kind /\ q.provider = r.provider
         /\ q.value = r.value /\ q.state = r.state /\ q.live = FALSE
<1>1. q \in FormRequestType
  BY Zenon DEF FormRequestType
<1>2. q.kind = r.kind /\ q.provider = r.provider
  BY SMT DEF FormRequestType
<1>3. q.value = r.value /\ q.state = r.state
  BY SMT DEF FormRequestType
<1>4. q.live = FALSE
  BY SMT DEF FormRequestType
<1> QED BY <1>1, <1>2, <1>3, <1>4

LEMMA UnsetIsService == Unset \in Service /\ Working \in Service /\ SomeProvider \in Providers
BY NotificationsAssumption DEF Unset, Working, Service, SomeProvider

LEMMA FormStarts == NotificationsInit => FormInv
<1> SUFFICES ASSUME NotificationsInit PROVE FormInv
  OBVIOUS
<1> DEFINE first == FormRequest("load", SomeProvider, noForm)
<1>1. /\ noStored \in [Providers -> Service] /\ noForm \in [Providers -> Service]
      /\ noClicks \in Nat
  BY UnsetIsService DEF NotificationsInit
<1>2. /\ first \in FormRequestType /\ first.kind = "load" /\ first.state = "sent" /\ first.live
  BY <1>1, UnsetIsService, FormRequestFacts
<1>3. noRequests = {first} /\ noTab = "loading" /\ noSaving = FALSE /\ noChosen = SomeProvider
  BY DEF NotificationsInit
<1> HIDE DEF first
<1>4. FormType
  BY <1>1, <1>2, <1>3, UnsetIsService DEF FormType
<1>5. LoadsOnce /\ SavesTruly
  BY <1>2, <1>3 DEF LoadsOnce, SavesTruly, IsLoad, IsSave
<1> QED BY <1>4, <1>5 DEF FormInv

(* A request replaced by one of its kind disturbs no load and no type.     *)
LEMMA OneReplaced ==
  ASSUME FormInv, NEW r \in noRequests, NEW q \in FormRequestType,
         q.kind = r.kind, q.live = r.live, q.state = "trying" => q.kind = "test",
         noStored' \in [Providers -> Service],
         noRequests' = (noRequests \ {r}) \cup {q},
         UNCHANGED <<noForm, noTab, noChosen, noSaving, noClicks>>
  PROVE  FormType' /\ LoadsOnce'
<1>1. FormType'
  BY DEF FormInv, FormType
<1>2. LoadsOnce'
  BY DEF FormInv, LoadsOnce, IsLoad
<1> QED BY <1>1, <1>2

(* A request that is answered and gone.                                    *)
LEMMA OneGone ==
  ASSUME FormInv, NEW r \in noRequests, noRequests' = noRequests \ {r},
         noSaving' \in BOOLEAN, noSaving' => noSaving,
         UNCHANGED <<noStored, noForm, noTab, noChosen, noClicks>>
  PROVE  FormType' /\ LoadsOnce'
<1>1. FormType'
  BY DEF FormInv, FormType
<1>2. LoadsOnce'
  BY DEF FormInv, LoadsOnce, IsLoad
<1> QED BY <1>1, <1>2

LEMMA FormStep == FormInv /\ [NotificationsNext]_noVars => FormInv'
<1> SUFFICES ASSUME FormInv, [NotificationsNext]_noVars PROVE FormInv'
  OBVIOUS
<1>0. FormType /\ LoadsOnce /\ noRequests \subseteq FormRequestType /\ noClicks \in Nat
  BY DEF FormInv, FormType
<1>1. ASSUME UNCHANGED <<noStored, noForm, noRequests, noTab, noSaving, noClicks, noEdited, noLeft>>,
             noChosen' \in Providers
      PROVE FormInv'
  BY <1>1 DEF FormInv, FormType, LoadsOnce, SavesTruly, IsSave, IsLoad
<1>2. ASSUME NEW r \in noRequests, GetServices(r) PROVE FormInv'
  <2> DEFINE q == FormNowIs(r, "ok", noStored)
  <2>0. q = FormNowIs(r, "ok", noStored)
    OBVIOUS
  <2> HIDE DEF q
  <2>1. /\ r.kind = "load" /\ noRequests' = (noRequests \ {r}) \cup {q}
        /\ UNCHANGED <<noStored, noForm, noTab, noChosen, noSaving, noClicks, noEdited, noLeft>>
    BY <2>0, <1>2 DEF GetServices, FormNow, FormNowIs, Tab
  <2>2. /\ q \in FormRequestType /\ q.kind = "load" /\ q.value = noStored /\ q.state = "ok"
        /\ q.live = r.live
    BY <2>0, <1>0, <2>1, FormNowFacts DEF FormType
  <2>3. FormType' /\ LoadsOnce'
    BY <1>0, <2>1, <2>2, OneReplaced DEF FormType
  <2>4. ~noLeft' => SavesTruly'
    BY <2>1, <2>2 DEF FormInv, SavesTruly, IsSave, IsLoad
  <2> QED BY <2>3, <2>4 DEF FormInv
<1>3. ASSUME NEW r \in noRequests, UpdateService(r) PROVE FormInv'
  <2> DEFINE q == FormNowIs(r, "ok", r.value)
  <2>0. q = FormNowIs(r, "ok", r.value)
    OBVIOUS
  <2> HIDE DEF q
  <2>1. /\ r.kind = "save" /\ noRequests' = (noRequests \ {r}) \cup {q}
        /\ noStored' = [noStored EXCEPT ![r.provider] = r.value[r.provider]]
        /\ UNCHANGED <<noForm, noTab, noChosen, noSaving, noClicks, noEdited, noLeft>>
    BY <2>0, <1>3 DEF UpdateService, Updated, FormNow, FormNowIs, Tab
  <2>2. /\ r.provider \in Providers /\ r.value \in [Providers -> Service]
        /\ r \in FormRequestType
    BY <1>0 DEF FormRequestType
  <2>3. /\ q \in FormRequestType /\ q.kind = "save" /\ q.value = r.value /\ q.state = "ok"
        /\ q.live = r.live /\ q.provider = r.provider
    BY <2>0, <2>1, <2>2, FormNowFacts
  <2>4. /\ noStored' \in [Providers -> Service]
        /\ noStored'[r.provider] = r.value[r.provider]
        /\ \A p \in Providers : p # r.provider => noStored'[p] = noStored[p]
    BY <1>0, <2>1, <2>2 DEF FormType
  <2>5. FormType' /\ LoadsOnce'
    BY <1>0, <2>1, <2>3, <2>4, OneReplaced
  <2>6. ASSUME ~noLeft' PROVE SavesTruly'
    <3>1. SavesTruly /\ IsSave(r)
      BY <2>1, <2>6 DEF FormInv, IsSave
    <3>2. noSaving /\ noTab = "loaded"
      BY <3>1, <1>0 DEF SavesTruly, LoadsOnce
    <3>3. \A s \in noRequests' : IsSave(s)' => s = q
      BY <2>1, <3>1 DEF SavesTruly, IsSave
    <3>4. \A s \in noRequests' : ~IsLoad(s)'
      BY <2>1, <2>3, <3>2, <1>0 DEF LoadsOnce, IsLoad
    <3>5. \A p \in Providers \ noEdited : noForm[p] = noStored[p] /\ noForm[p] = r.value[p]
      BY <3>1, <3>2 DEF SavesTruly
    <3>6. \A p \in Providers \ noEdited' : noForm'[p] = noStored'[p]
      BY <3>5, <2>1, <2>4
    <3> QED BY <3>2, <3>3, <3>4, <3>5, <3>6, <2>1, <2>3, <2>4 DEF SavesTruly
  <2> QED BY <2>5, <2>6 DEF FormInv
<1>4. ASSUME NEW r \in noRequests, StartTest(r) \/ EndTest(r) PROVE FormInv'
  <2>1. PICK state \in {"trying", "ok", "failed"}, v \in [Providers -> Service] :
          noRequests' = FormNow(r, state, v)
    <3>1. r.value \in [Providers -> Service] /\ noStored \in [Providers -> Service]
      BY <1>0 DEF FormRequestType, FormType
    <3> QED BY <1>4, <3>1 DEF StartTest, EndTest
  <2> DEFINE q == FormNowIs(r, state, v)
  <2>0. q = FormNowIs(r, state, v)
    OBVIOUS
  <2> HIDE DEF q
  <2>2. /\ r.kind = "test" /\ noRequests' = (noRequests \ {r}) \cup {q}
        /\ UNCHANGED <<noStored, noForm, noTab, noChosen, noSaving, noClicks, noEdited, noLeft>>
    BY <2>0, <1>0, <1>4, <2>1 DEF StartTest, EndTest, FormNow, FormNowIs, Tab, FormType
  <2>3. q \in FormRequestType /\ q.kind = "test" /\ q.live = r.live
    <3>1. r \in FormRequestType /\ state \in {"sent", "trying", "ok", "failed"}
      BY <1>0
    <3> QED BY <2>0, <2>2, <3>1, FormNowFacts
  <2>4. FormType' /\ LoadsOnce'
    BY <1>0, <2>2, <2>3, OneReplaced DEF FormType
  <2>5. ~noLeft' => SavesTruly'
    BY <2>2, <2>3 DEF FormInv, SavesTruly, IsSave, IsLoad
  <2> QED BY <2>4, <2>5 DEF FormInv
<1>5. ASSUME NEW r \in noRequests, Lost(r), UNCHANGED noStored PROVE FormInv'
  <2> DEFINE q == FormNowIs(r, "failed", r.value)
  <2>0. q = FormNowIs(r, "failed", r.value)
    OBVIOUS
  <2> HIDE DEF q
  <2>1. /\ noRequests' = (noRequests \ {r}) \cup {q}
        /\ noLeft' = (noLeft \/ (r.kind = "save" /\ r.state = "ok"))
        /\ UNCHANGED <<noStored, noForm, noTab, noChosen, noSaving, noClicks, noEdited>>
    BY <2>0, <1>5 DEF Lost, FormNow, FormNowIs
  <2>2. r.value \in [Providers -> Service]
    BY <1>0 DEF FormRequestType
  <2>3. /\ q \in FormRequestType /\ q.kind = r.kind /\ q.value = r.value /\ q.state = "failed"
        /\ q.live = r.live /\ q.provider = r.provider
    BY <2>0, <1>0, <2>2, FormNowFacts
  <2>4. FormType' /\ LoadsOnce'
    BY <1>0, <2>1, <2>3, OneReplaced DEF FormType
  <2>5. ASSUME ~noLeft' PROVE SavesTruly'
    <3>1. SavesTruly /\ ~(r.kind = "save" /\ r.state = "ok")
      BY <2>1, <2>5 DEF FormInv
    <3>2. \A s \in noRequests' : s = q \/ s \in noRequests \ {r}
      BY <2>1
    <3>3. \A s, t \in noRequests' : IsSave(s)' /\ IsSave(t)' => s = t
      BY <2>1, <2>3, <3>1, <3>2 DEF SavesTruly, IsSave
    <3>4. \A s \in noRequests' : IsSave(s)' =>
            /\ noSaving'
            /\ \A p \in Providers \ noEdited' : noForm'[p] = s.value[p]
            /\ s.state = "ok" => noStored'[s.provider] = s.value[s.provider]
      BY <2>1, <2>3, <3>1, <3>2 DEF SavesTruly, IsSave
    <3>5. \A s \in noRequests' : IsLoad(s)' /\ s.state = "ok" => s.value = noStored'
      BY <2>1, <2>3, <3>1, <3>2 DEF SavesTruly, IsLoad
    <3> QED BY <2>1, <3>1, <3>3, <3>4, <3>5 DEF SavesTruly
  <2> QED BY <2>4, <2>5 DEF FormInv
<1>15. ASSUME NEW r \in noRequests, Lost(r), ~UNCHANGED noStored PROVE FormInv'
  <2> DEFINE q == FormNowIs(r, "failed", r.value)
  <2>0. q = FormNowIs(r, "failed", r.value)
    OBVIOUS
  <2> HIDE DEF q
  <2>1. /\ r.kind = "save" /\ r.state = "sent" /\ noRequests' = (noRequests \ {r}) \cup {q}
        /\ noStored' = [noStored EXCEPT ![r.provider] = r.value[r.provider]]
        /\ noLeft' <=> noLeft
        /\ UNCHANGED <<noForm, noTab, noChosen, noSaving, noClicks, noEdited>>
    <3>1. r.kind = "save" /\ r.state = "sent" /\ noStored' = Updated(r)
      BY <1>15 DEF Lost
    <3>2. noRequests' = FormNow(r, "failed", r.value)
      BY <1>15 DEF Lost
    <3>3. noLeft' <=> noLeft
      BY <1>15, <3>1 DEF Lost
    <3> QED BY <2>0, <1>15, <3>1, <3>2, <3>3 DEF Lost, Updated, FormNow, FormNowIs
  <2>2. /\ r.provider \in Providers /\ r.value \in [Providers -> Service]
        /\ r \in FormRequestType
    BY <1>0 DEF FormRequestType
  <2>3. /\ q \in FormRequestType /\ q.kind = "save" /\ q.value = r.value /\ q.state = "failed"
        /\ q.live = r.live /\ q.provider = r.provider
    BY <2>0, <2>1, <2>2, FormNowFacts
  <2>4. /\ noStored' \in [Providers -> Service]
        /\ noStored'[r.provider] = r.value[r.provider]
        /\ \A p \in Providers : p # r.provider => noStored'[p] = noStored[p]
    BY <1>0, <2>1, <2>2 DEF FormType
  <2>5. FormType' /\ LoadsOnce'
    BY <1>0, <2>1, <2>3, <2>4, OneReplaced
  <2>6. ASSUME ~noLeft' PROVE SavesTruly'
    <3>1. SavesTruly /\ IsSave(r)
      BY <2>1, <2>6 DEF FormInv, IsSave
    <3>2. noSaving /\ noTab = "loaded"
      BY <3>1, <1>0 DEF SavesTruly, LoadsOnce
    <3>3. \A s \in noRequests' : IsSave(s)' => s = q
      BY <2>1, <3>1 DEF SavesTruly, IsSave
    <3>4. \A s \in noRequests' : ~IsLoad(s)'
      BY <2>1, <2>3, <3>2, <1>0 DEF LoadsOnce, IsLoad
    <3>5. \A p \in Providers \ noEdited : noForm[p] = noStored[p] /\ noForm[p] = r.value[p]
      BY <3>1, <3>2 DEF SavesTruly
    <3>6. \A p \in Providers \ noEdited' : noForm'[p] = noStored'[p]
      BY <3>5, <2>1, <2>4
    <3> QED BY <3>2, <3>3, <3>4, <3>5, <3>6, <2>1, <2>3, <2>4 DEF SavesTruly
  <2> QED BY <2>5, <2>6 DEF FormInv
<1>6. ASSUME NEW r \in noRequests, FormAnswered(r), r.live PROVE FormInv'
  <2>1. /\ r.kind = "load" /\ r.state \in {"ok", "failed"} /\ noRequests' = noRequests \ {r}
        /\ noForm' = (IF r.state = "ok" THEN r.value ELSE noForm)
        /\ noTab' = (IF r.state = "ok" THEN "loaded" ELSE "empty")
        /\ noChosen' = SomeProvider /\ noEdited' = {}
        /\ UNCHANGED <<noStored, noSaving, noClicks, noLeft>>
    BY <1>6 DEF FormAnswered, TestEnded
  <2>2. IsLoad(r) /\ noTab = "loading" /\ ~noSaving
    BY <2>1, <1>0, <1>6 DEF IsLoad, LoadsOnce
  <2>3. r.value \in [Providers -> Service]
    BY <1>0 DEF FormRequestType
  <2>4. FormType'
    BY <2>1, <2>3, <1>0, UnsetIsService DEF FormType
  <2>5. \A q \in noRequests' : ~IsLoad(q)'
    BY <2>1, <2>2, <1>0 DEF LoadsOnce, IsLoad
  <2>6. LoadsOnce'
    BY <2>1, <2>2, <2>5 DEF LoadsOnce
  <2>7. ASSUME ~noLeft' PROVE SavesTruly'
    <3>1. SavesTruly
      BY <2>1, <2>7 DEF FormInv
    <3>2. \A q \in noRequests' : ~IsSave(q)'
      BY <2>1, <2>2, <3>1 DEF SavesTruly, IsSave
    <3>3. r.state = "ok" => r.value = noStored
      BY <2>2, <3>1 DEF SavesTruly
    <3> QED BY <2>1, <2>5, <3>2, <3>3 DEF SavesTruly
  <2> QED BY <2>4, <2>6, <2>7 DEF FormInv
<1>7. ASSUME NEW r \in noRequests, TestAnswered(r) \/ (FormAnswered(r) /\ ~r.live) PROVE FormInv'
  <2>1. /\ r.kind # "save" /\ noRequests' = noRequests \ {r}
        /\ UNCHANGED <<noStored, noForm, noTab, noChosen, noSaving, noClicks, noEdited, noLeft>>
    BY <1>7 DEF FormAnswered, TestAnswered
  <2>2. FormType' /\ LoadsOnce'
    BY <2>1, <1>0, OneGone DEF FormType
  <2>3. ~noLeft' => SavesTruly'
    BY <2>1 DEF FormInv, SavesTruly, IsSave, IsLoad
  <2> QED BY <2>2, <2>3 DEF FormInv
<1>8. ASSUME NEW r \in noRequests, SaveAnswered(r) PROVE FormInv'
  <2>1. /\ r.kind = "save" /\ r.state \in {"ok", "failed"} /\ noRequests' = noRequests \ {r}
        /\ noSaving' = (noSaving /\ ~r.live)
        /\ noEdited' = (IF r.live /\ r.state = "ok" /\ r.value[r.provider] = noForm[r.provider]
                          THEN noEdited \ {r.provider} ELSE noEdited)
        /\ UNCHANGED <<noStored, noForm, noTab, noChosen, noClicks, noLeft>>
    BY <1>8 DEF SaveAnswered, TestEnded
  <2>2. FormType' /\ LoadsOnce'
    BY <2>1, <1>0, OneGone DEF FormType
  <2>3. ASSUME ~noLeft' PROVE SavesTruly'
    <3>1. SavesTruly /\ IsSave(r)
      BY <2>1, <2>3 DEF FormInv, IsSave
    <3>2. \A q \in noRequests' : ~IsSave(q)'
      BY <2>1, <3>1 DEF SavesTruly, IsSave
    <3>3. noSaving /\ noTab = "loaded"
      BY <3>1, <1>0 DEF SavesTruly, LoadsOnce
    <3>4. r.state = "ok" => noStored[r.provider] = r.value[r.provider]
      BY <3>1 DEF SavesTruly
    <3>5. \A p \in Providers \ noEdited : noForm[p] = noStored[p]
      BY <3>1, <3>3 DEF SavesTruly
    <3>6. \A p \in Providers \ noEdited' : noForm'[p] = noStored'[p]
      BY <2>1, <3>4, <3>5
    <3>7. \A q \in noRequests' : IsLoad(q)' /\ q.state = "ok" => q.value = noStored'
      BY <2>1, <3>1 DEF SavesTruly, IsLoad
    <3> QED BY <3>2, <3>6, <3>7 DEF SavesTruly
  <2> QED BY <2>2, <2>3 DEF FormInv
<1>9. ASSUME NEW s \in Service, Edit(s) PROVE FormInv'
  <2>1. /\ noForm' = [noForm EXCEPT ![noChosen] = s] /\ noEdited' = noEdited \cup {noChosen}
        /\ noClicks' = noClicks + 1
        /\ UNCHANGED <<noStored, noTab, noChosen, noSaving, noRequests, noLeft>>
    BY <1>9 DEF Edit, FormClick
  <2>2. /\ noForm' \in [Providers -> Service]
        /\ \A p \in Providers \ noEdited' : noForm'[p] = noForm[p]
    BY <2>1, <1>0 DEF FormType
  <2>3. FormType' /\ LoadsOnce'
    BY <2>1, <2>2, <1>0 DEF FormType, LoadsOnce, IsLoad
  <2>4. ~noLeft' => SavesTruly'
    BY <2>1, <2>2 DEF FormInv, SavesTruly, IsSave, IsLoad
  <2> QED BY <2>3, <2>4 DEF FormInv
<1>10. ASSUME Save \/ Test PROVE FormInv'
  <2>1. PICK kind \in {"save", "test"} :
          /\ noRequests' = noRequests \cup {FormRequest(kind, noChosen, noForm)}
          /\ kind = "save" => noSaving' = TRUE
          /\ kind = "test" => noSaving' = noSaving
    BY <1>10 DEF Save, Test
  <2>2. /\ noTab = "loaded" /\ ~noSaving /\ noClicks' = noClicks + 1
        /\ UNCHANGED <<noStored, noForm, noTab, noChosen, noEdited, noLeft>>
    BY <1>10 DEF Save, Test, Buttons, FormClick
  <2> DEFINE q == FormRequest(kind, noChosen, noForm)
  <2>3. /\ q \in FormRequestType /\ q.kind = kind /\ q.value = noForm /\ q.state = "sent"
    BY <1>0, FormRequestFacts DEF FormType
  <2> HIDE DEF q
  <2>4. noRequests' = noRequests \cup {q} /\ noSaving' \in BOOLEAN
    BY <2>1, <1>0 DEF q, FormType
  <2>5. FormType' /\ LoadsOnce'
    BY <2>2, <2>3, <2>4, <1>0 DEF FormType, LoadsOnce, IsLoad
  <2>6. ASSUME ~noLeft' PROVE SavesTruly'
    <3>1. SavesTruly
      BY <2>2, <2>6 DEF FormInv
    <3>2. \A r \in noRequests : ~IsSave(r)
      BY <2>2, <3>1 DEF SavesTruly
    <3>3. \A r \in noRequests' : IsSave(r)' => r = q /\ kind = "save"
      BY <2>3, <2>4, <3>2 DEF IsSave
    <3>4. \A r \in noRequests' : ~IsLoad(r)'
      BY <2>2, <2>3, <2>4, <1>0 DEF LoadsOnce, IsLoad
    <3> QED BY <2>1, <2>2, <2>3, <3>1, <3>3, <3>4 DEF SavesTruly
  <2> QED BY <2>5, <2>6 DEF FormInv
<1>11. ASSUME ReturnToForm PROVE FormInv'
  <2>1. /\ noForm' = [p \in Providers |-> Unset] /\ noTab' = "loading"
        /\ noChosen' = SomeProvider /\ noSaving' = FALSE /\ noClicks' = noClicks + 1
        /\ noRequests' = {[r EXCEPT !.live = FALSE] : r \in noRequests}
                            \cup {FormRequest("load", SomeProvider, noForm')}
        /\ noLeft' = (noLeft \/ noSaving) /\ UNCHANGED noStored
    BY <1>11 DEF ReturnToForm, FormClick
  <2>2. noForm' \in [Providers -> Service]
    BY <2>1, UnsetIsService
  <2> DEFINE q == FormRequest("load", SomeProvider, noForm')
  <2>3. /\ q \in FormRequestType /\ q.kind = "load" /\ q.state = "sent"
    BY <1>0, <2>2, UnsetIsService, FormRequestFacts
  <2> HIDE DEF q
  <2>4. \A s \in noRequests' : s = q \/ \E r \in noRequests : s = [r EXCEPT !.live = FALSE]
    BY <2>1 DEF q
  <2>5. \A s \in noRequests' : s = q \/ \E r \in noRequests :
          /\ s \in FormRequestType /\ s.kind = r.kind /\ s.state = r.state /\ s.live = FALSE
    <3>1. SUFFICES ASSUME NEW s, NEW r \in noRequests, s = [r EXCEPT !.live = FALSE]
                   PROVE  /\ s \in FormRequestType /\ s.kind = r.kind /\ s.state = r.state
                          /\ s.live = FALSE
      BY <2>4
    <3> QED BY <3>1, <1>0, LeftBehindFacts
  <2>6. FormType'
    <3>1. \A s \in noRequests' : s \in FormRequestType /\ (s.state = "trying" => s.kind = "test")
      BY <2>3, <2>5, <1>0 DEF FormType
    <3>2. noClicks' = noClicks + 1 /\ noSaving' = FALSE
      BY <2>1
    <3>3. noClicks' \in Nat
      BY <3>2, <1>0
    <3> QED BY <2>1, <2>2, <3>1, <3>2, <3>3, <1>0, UnsetIsService DEF FormType
  <2>7. LoadsOnce'
    BY <2>1, <2>5 DEF LoadsOnce, IsLoad
  <2>8. ASSUME ~noLeft' PROVE SavesTruly'
    <3>1. \A r \in noRequests : ~IsSave(r)
      BY <2>1, <2>8 DEF FormInv, SavesTruly
    <3>2. \A s \in noRequests' : ~IsSave(s)'
      BY <2>3, <2>5, <3>1 DEF IsSave
    <3>3. \A s \in noRequests' : IsLoad(s)' => s.state = "sent"
      BY <2>3, <2>5 DEF IsLoad
    <3> QED BY <2>1, <3>2, <3>3 DEF SavesTruly
  <2> QED BY <2>6, <2>7, <2>8 DEF FormInv
<1>12. ASSUME Alert \/ \E m \in noSent : Delivered(m) \/ Undelivered(m) PROVE FormInv'
  BY <1>0, <1>1, <1>12 DEF Alert, Delivered, Undelivered, Tab, FormType
<1>13. ASSUME NEW p \in Providers, ChooseService(p) PROVE FormInv'
  BY <1>1, <1>13 DEF ChooseService
<1>14. CASE UNCHANGED noVars
  BY <1>0, <1>1, <1>14 DEF noVars, FormType
<1> QED
  BY <1>2, <1>3, <1>4, <1>5, <1>6, <1>7, <1>8, <1>9, <1>10, <1>11, <1>12, <1>13, <1>14, <1>15
  DEF NotificationsNext

(* However edits, saves, tests, loads and changes of the tab overlap, and  *)
(* whatever the network loses, what the tab shows and nobody edited is     *)
(* what the server has.                                                    *)
THEOREM FormIsAlwaysStored == NotificationsSpec => []FormIsStored
<1>1. FormInv => FormIsStored
  BY DEF FormInv, SavesTruly, FormIsStored
<1> QED BY <1>1, FormStarts, FormStep, PTL DEF NotificationsSpec
=============================================================================
