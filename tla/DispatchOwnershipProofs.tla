------------------------ MODULE DispatchOwnershipProofs ------------------------
(***************************************************************************)
(* Who holds an execution, proved for every instance of TaskDispatch: an   *)
(* aggressive one is only ever given to a worker that accepts them, unless *)
(* its template was deleted meanwhile; without failing lookups a pending   *)
(* one is always queued or in hand; without the administrator's            *)
(* disconnect a running one belongs to a registered worker; currentTasks   *)
(* lists what runs; no worker is given more than its slots; what runs on   *)
(* an open connection is somewhere on it; and two executions that run on   *)
(* one worker never install the same tool.                                 *)
(***************************************************************************)
EXTENDS TaskDispatchProofs

(***************************************************************************)
(* Aggressive executions.  The compatibility test is made two suspensions  *)
(* before the send: the worker it chose must still be the one sent to.     *)
(***************************************************************************)
AggressiveInv ==
  /\ TypeInv
  /\ AggressiveConfined
  /\ pc = "prepare" => (hand \in AggrExecs \ gone => chosen \in AggrWorkers)

LEMMA AggressiveUntouched ==
  ASSUME AggressiveInv, TypeInv', owner' = owner, gone \subseteq gone',
         \/ pc' \in {"idle", "pick", "template"}
         \/ UNCHANGED <<pc, hand, chosen>>
  PROVE  AggressiveInv'
BY DEF AggressiveInv, AggressiveConfined

LEMMA AssignPc ==
  ASSUME NEW q, AssignNextTask(q)
  PROVE  pc' = "pick" \/ UNCHANGED <<pc, hand, chosen>>
<1>1. CASE pc = "idle"
  BY <1>1 DEF AssignNextTask
<1>2. CASE pc # "idle"
  BY <1>2 DEF AssignNextTask
<1>3. QED
  BY <1>1, <1>2

LEMMA NextAggressive ==
  ASSUME AggressiveInv, [Next]_vars
  PROVE  AggressiveInv'
<1>0. TypeInv'
  BY NextType DEF AggressiveInv
<1>1. CASE UNCHANGED vars \/ \E e \in Execs : UnregisterTaskTemplate(e)
  BY <1>0, <1>1, AggressiveUntouched DEF vars, serverVars, execVars, assignVars,
       UnregisterTaskTemplate
<1>2. CASE CreateExecution
  BY <1>0, <1>2, AggressiveUntouched, AssignPc DEF CreateExecution
<1>3. CASE EndPass \/ TakeNext \/ NoEligibleWorker \/ SendRefused \/ LookupFails
  <2>1. owner' = owner /\ gone' = gone
    BY <1>3 DEF EndPass, TakeNext, NoEligibleWorker, SendRefused, LookupFails, execVars
  <2>2. pc' \in {"idle", "pick", "template"} \/ UNCHANGED <<pc, hand, chosen>>
    BY <1>3 DEF EndPass, TakeNext, NoEligibleWorker, SendRefused, LookupFails, PushBack
  <2>3. QED
    BY <1>0, <2>1, <2>2, AggressiveUntouched
<1>4. ASSUME NEW w \in Workers, ChooseWorker(w) PROVE AggressiveInv'
  <2>1. /\ \E found \in TemplateFound : w \in Compatible(found)
        /\ chosen' = w /\ hand' = hand /\ owner' = owner /\ gone' = gone
    BY <1>4 DEF ChooseWorker, Eligible, execVars
  <2>2. hand \in AggrExecs \ gone => w \in AggrWorkers
    BY <2>1 DEF Compatible, TemplateFound
  <2>3. QED
    BY <1>0, <2>1, <2>2 DEF AggressiveInv, AggressiveConfined
<1>5. CASE SendTask
  <2>1. /\ hand \in Execs /\ chosen \in Workers /\ pc = "prepare" /\ pc' = "pick"
        /\ owner' = [owner EXCEPT ![hand] = chosen] /\ gone' = gone
    BY <1>5 DEF SendTask, AggressiveInv, TypeInv, AssignerShape
  <2>2. owner \in [Execs -> Workers \cup {NoWorker}]
    BY DEF AggressiveInv, TypeInv, TypeOK, DispatchTypeOK
  <2>3. AggressiveConfined'
    BY <2>1, <2>2, DispatchAssumption DEF AggressiveInv, AggressiveConfined
  <2>4. QED
    BY <1>0, <2>1, <2>3 DEF AggressiveInv
<1>6. ASSUME NEW w \in Workers, AddWorker(w) \/ DisconnectWorker(w) \/ DisconnectTimer(w)
      PROVE  AggressiveInv'
  BY <1>0, <1>6, AggressiveUntouched DEF AddWorker, DisconnectWorker, DisconnectTimer,
       execVars, assignVars
<1>7. ASSUME NEW w \in Workers, HandleWorkerClose(w) PROVE AggressiveInv'
  <2>1. pc' = "pick" \/ UNCHANGED <<pc, hand, chosen>>
    BY <1>7, AssignPc DEF HandleWorkerClose, HandleWorkerDisconnect, assignVars
  <2>2. \A e \in Execs : owner'[e] \in {owner[e], NoWorker}
    <3>1. CASE registered[w]
      BY <1>7, <3>1 DEF HandleWorkerClose, HandleWorkerDisconnect
    <3>2. CASE ~registered[w]
      BY <1>7, <3>2 DEF HandleWorkerClose
    <3>3. QED
      BY <3>1, <3>2
  <2>3. AggressiveConfined'
    BY <1>7, <2>2, DispatchAssumption DEF AggressiveInv, AggressiveConfined, HandleWorkerClose
  <2>4. QED
    BY <1>0, <1>7, <2>1, <2>3 DEF AggressiveInv, HandleWorkerClose
<1>8. ASSUME NEW w \in Workers, MessageHandler(w) PROVE AggressiveInv'
  <2>1. owner' = owner /\ gone' = gone
    BY <1>8 DEF MessageHandler, HandleFlowControl, HandleToolsList, HandleResult,
         ApplyResult, DeferLargeResult, execVars
  <2>2. pc' = "pick" \/ UNCHANGED <<pc, hand, chosen>>
    BY <1>8, AssignPc DEF MessageHandler, HandleFlowControl, HandleToolsList,
         HandleResult, ApplyResult, DeferLargeResult, assignVars
  <2>3. QED
    BY <1>0, <2>1, <2>2, AggressiveUntouched
<1>9. ASSUME UNCHANGED serverVars PROVE AggressiveInv'
  BY <1>0, <1>9, AggressiveUntouched DEF serverVars, execVars, assignVars
<1>10. ASSUME NEW r \in deferred, HandleDeferred(r) PROVE AggressiveInv'
  BY <1>0, <1>10, AggressiveUntouched DEF HandleDeferred, ApplyResult, assignVars
<1>11. QED
  BY <1>1, <1>2, <1>3, <1>4, <1>5, <1>6, <1>7, <1>8, <1>9, <1>10 DEF Next, Assigner

(* Unless its template was deleted while it waited, an aggressive          *)
(* execution is never given to a worker that refused them, although other  *)
(* handlers run between the choice and the send.                           *)
THEOREM AggressiveIsConfined == Spec => []AggressiveConfined
<1>1. Init => AggressiveInv
  <2> SUFFICES ASSUME Init PROVE AggressiveInv
    OBVIOUS
  <2>1. AggressiveConfined
    BY DispatchAssumption DEF Init, AggressiveConfined
  <2>2. pc # "prepare"
    BY DEF Init
  <2>3. QED
    BY <2>1, <2>2, InitType DEF AggressiveInv
<1>2. AggressiveInv /\ [Next]_vars => AggressiveInv'
  BY NextAggressive
<1>3. AggressiveInv => AggressiveConfined
  BY DEF AggressiveInv
<1>4. QED
  BY <1>1, <1>2, <1>3, PTL DEF Spec

(***************************************************************************)
(* Pending executions.  Between "pick" and "pick" the hand is empty, so    *)
(* shifting the queue overwrites nothing.                                  *)
(***************************************************************************)
HandInv == hand # NoExec => pc \in {"template", "prepare"}

PendingInv == QueueInv /\ HandInv /\ NoneForgotten

(* Nobody but assignNextTask empties the hand.                             *)
LEMMA HandUntouched ==
  ASSUME HandInv, UNCHANGED <<pc, hand>> \/ \E q : AssignNextTask(q)
  PROVE  HandInv' /\ hand' = hand
<1>1. CASE UNCHANGED <<pc, hand>>
  BY <1>1 DEF HandInv
<1>2. ASSUME NEW q, AssignNextTask(q) PROVE HandInv' /\ hand' = hand
  <2>1. CASE pc = "idle"
    BY <1>2, <2>1 DEF AssignNextTask, HandInv
  <2>2. CASE pc # "idle"
    BY <1>2, <2>2 DEF AssignNextTask, HandInv
  <2>3. QED
    BY <2>1, <2>2
<1>3. QED
  BY <1>1, <1>2

(* NoneForgotten survives when the queue and the hand only grow, and       *)
(* whatever becomes pending enters one of them.                            *)
LEMMA PendingKept ==
  ASSUME NoneForgotten,
         \A e \in Execs : e \in QueueSet \cup {hand} /\ status'[e] = "pending"
                          => e \in QueueSet' \cup {hand'},
         \A e \in Execs : status'[e] = "pending" /\ status[e] # "pending"
                          => e \in QueueSet' \cup {hand'}
  PROVE  NoneForgotten'
BY DEF NoneForgotten

LEMMA PendingUntouched ==
  ASSUME PendingInv, QueueInv', UNCHANGED <<status, queue>>,
         UNCHANGED <<pc, hand>> \/ \E q : AssignNextTask(q)
  PROVE  PendingInv'
<1>1. HandInv' /\ hand' = hand
  BY HandUntouched DEF PendingInv
<1>2. NoneForgotten'
  BY <1>1 DEF PendingInv, NoneForgotten, QueueSet
<1>3. QED
  BY <1>1, <1>2 DEF PendingInv

LEMMA PendingPushBack ==
  ASSUME PendingInv, QueueInv', PushBack, pc \in {"template", "prepare"}, status' = status
  PROVE  PendingInv'
<1> USE DEF PendingInv
<1>1. hand \in Execs
  BY DEF QueueInv, TypeInv, AssignerShape
<1>2. queue' = Append(queue, hand) /\ hand' = NoExec
  BY DEF PushBack
<1>3. ElemsOf(queue') = ElemsOf(queue) \cup {hand}
  BY <1>1, <1>2, AppendElems, QueueElems DEF QueueInv
<1>4. QueueSet' = QueueSet \cup {hand}
  BY <1>3 DEF QueueSet, ElemsOf
<1>5. NoneForgotten'
  BY <1>4 DEF NoneForgotten
<1>6. QED
  BY <1>2, <1>5 DEF HandInv

LEMMA NextPending ==
  ASSUME PendingInv, [Next]_vars, "lookup" \notin Faults
  PROVE  PendingInv'
<1> USE DEF PendingInv
<1>0. QueueInv'
  BY NextQueue
<1>1. CASE UNCHANGED vars \/ \E e \in Execs : UnregisterTaskTemplate(e)
  BY <1>0, <1>1, PendingUntouched DEF vars, serverVars, execVars, assignVars,
       UnregisterTaskTemplate
<1>2. CASE CreateExecution
  <2>1. HandInv' /\ hand' = hand
    BY <1>2, HandUntouched DEF CreateExecution
  <2>2. /\ queue' = Append(queue, nextId) /\ nextId \in Execs
        /\ status' = [status EXCEPT ![nextId] = "pending"]
    BY <1>2 DEF CreateExecution, Execs, QueueInv, TypeInv, TypeOK, DispatchTypeOK
  <2>3. ElemsOf(queue') = ElemsOf(queue) \cup {nextId}
    BY <2>2, AppendElems, QueueElems DEF QueueInv
  <2>4. QueueSet' = QueueSet \cup {nextId}
    BY <2>3 DEF QueueSet, ElemsOf
  <2>5. \A e \in Execs : e # nextId => status'[e] = status[e]
    BY <2>2 DEF QueueInv, TypeInv, TypeOK, DispatchTypeOK
  <2>6. NoneForgotten'
    BY <2>1, <2>4, <2>5 DEF NoneForgotten
  <2>7. QED
    BY <1>0, <2>1, <2>6
<1>3. CASE EndPass
  <2>1. hand = NoExec
    BY <1>3 DEF EndPass, HandInv
  <2>2. UNCHANGED <<status, queue, hand>>
    BY <1>3 DEF EndPass, execVars
  <2>3. QED
    BY <1>0, <2>1, <2>2 DEF HandInv, NoneForgotten, QueueSet
<1>4. CASE TakeNext
  <2>1. /\ hand = NoExec /\ queue # <<>> /\ queue' = Tail(queue) /\ status' = status
        /\ hand' = (IF status[Head(queue)] = "pending" THEN Head(queue) ELSE hand)
        /\ pc' = (IF status[Head(queue)] = "pending" THEN "template" ELSE pc)
    BY <1>4 DEF TakeNext, HandInv, execVars
  <2>2. ElemsOf(queue) = {Head(queue)} \cup ElemsOf(queue')
    BY <2>1, TailElems, QueueElems DEF QueueInv
  <2>3. QueueSet = {Head(queue)} \cup QueueSet'
    BY <2>2 DEF QueueSet, ElemsOf
  <2>4. HandInv'
    BY <2>1 DEF HandInv
  <2>5. Head(queue) \in Execs /\ NoExec \notin Execs
    BY <2>1, QueueElems DEF QueueInv
  <2>6. NoneForgotten'
    BY <2>1, <2>3, <2>5 DEF NoneForgotten
  <2>7. QED
    BY <1>0, <2>4, <2>6
<1>5. CASE NoEligibleWorker \/ SendRefused
  BY <1>0, <1>5, PendingPushBack DEF NoEligibleWorker, SendRefused, execVars
<1>6. ASSUME NEW w \in Workers, ChooseWorker(w) PROVE PendingInv'
  <2>1. UNCHANGED <<status, queue, hand>> /\ pc' = "prepare"
    BY <1>6 DEF ChooseWorker, execVars
  <2>2. QED
    BY <1>0, <2>1 DEF HandInv, NoneForgotten, QueueSet
<1>7. CASE SendTask
  <2>1. /\ hand \in Execs /\ hand' = NoExec /\ queue' = queue
        /\ status' = [status EXCEPT ![hand] = "running"]
    BY <1>7 DEF SendTask, QueueInv, TypeInv, AssignerShape
  <2>2. \A e \in Execs : status'[e] = IF e = hand THEN "running" ELSE status[e]
    BY <2>1 DEF QueueInv, TypeInv, TypeOK, DispatchTypeOK
  <2>3. NoneForgotten'
    BY <2>1, <2>2 DEF NoneForgotten, QueueSet
  <2>4. QED
    BY <1>0, <2>1, <2>3 DEF HandInv
<1>8. CASE LookupFails
  BY <1>8 DEF LookupFails
<1>9. ASSUME NEW w \in Workers, AddWorker(w) \/ DisconnectWorker(w) \/ DisconnectTimer(w)
      PROVE  PendingInv'
  BY <1>0, <1>9, PendingUntouched DEF AddWorker, DisconnectWorker, DisconnectTimer,
       execVars, assignVars
<1>10. ASSUME NEW w \in Workers, HandleWorkerClose(w) PROVE PendingInv'
  <2>1. CASE ~registered[w]
    BY <1>0, <1>10, <2>1, PendingUntouched DEF HandleWorkerClose, assignVars
  <2>2. CASE registered[w]
    <3> DEFINE lost == RunningOn(w)
    <3>1. HandleWorkerDisconnect(w)
      BY <1>10, <2>2 DEF HandleWorkerClose
    <3>2. HandInv' /\ hand' = hand
      BY <3>1, HandUntouched DEF HandleWorkerDisconnect, assignVars
    <3>3. PICK front \in NewestFirst(lost \ QueueSet) : queue' = front \o queue
      BY <3>1 DEF HandleWorkerDisconnect
    <3>4. lost \ QueueSet \subseteq Execs
      BY DEF RunningOn
    <3>5. front \in Seq(Execs) /\ ElemsOf(front) = lost \ QueueSet
      BY <3>3, <3>4, NewestFirstType, NewestFirstElems
    <3>6. ElemsOf(queue') = (lost \ QueueSet) \cup ElemsOf(queue)
      BY <3>3, <3>5, ConcatElems, QueueElems DEF QueueInv
    <3>7. QueueSet' = lost \cup QueueSet
      BY <3>6 DEF QueueSet, ElemsOf
    <3>8. \A e \in Execs : e \notin lost => status'[e] = status[e]
      BY <3>1 DEF HandleWorkerDisconnect
    <3>9. NoneForgotten'
      BY <3>2, <3>7, <3>8 DEF NoneForgotten
    <3>10. QED
      BY <1>0, <3>2, <3>9
  <2>3. QED
    BY <2>1, <2>2
<1>11. ASSUME NEW w \in Workers, NEW e \in Execs, NEW ok \in BOOLEAN, ApplyResult(w, e, ok)
       PROVE  PendingInv'
  <2>1. UNCHANGED <<queue, pc, hand>>
    BY <1>11 DEF ApplyResult, assignVars
  <2>2. \A f \in Execs : status'[f] = "pending" => status[f] = "pending"
    <3>1. CASE Accepted(w, e)
      BY <1>11, <3>1 DEF ApplyResult, QueueInv, TypeInv, TypeOK, DispatchTypeOK
    <3>2. CASE ~Accepted(w, e)
      BY <1>11, <3>2 DEF ApplyResult
    <3>3. QED
      BY <3>1, <3>2
  <2>3. HandInv'
    BY <2>1 DEF HandInv
  <2>4. NoneForgotten'
    BY <2>1, <2>2 DEF NoneForgotten, QueueSet
  <2>5. QED
    BY <1>0, <2>3, <2>4
<1>12. ASSUME NEW w \in Workers, MessageHandler(w) PROVE PendingInv'
  <2> DEFINE m == Head(toServer[w])
  <2>1. CASE HandleFlowControl(w)
    BY <1>0, <2>1, PendingUntouched DEF HandleFlowControl, execVars, assignVars
  <2>2. CASE HandleToolsList(w) \/ DeferLargeResult(w)
    BY <1>0, <2>2, PendingUntouched DEF HandleToolsList, DeferLargeResult, execVars, assignVars
  <2>3. CASE HandleResult(w)
    <3>1. m \in Msgs /\ m.type = "result"
      BY <2>3, ConsumeType DEF HandleResult, Consume, QueueInv, TypeInv, TypeOK, WorkerTypeOK
    <3>2. m.exec \in Execs /\ m.ok \in BOOLEAN
      BY <3>1, ResultFields
    <3>3. QED
      BY <1>11, <2>3, <3>2 DEF HandleResult
  <2>4. QED
    BY <1>12, <2>1, <2>2, <2>3 DEF MessageHandler
<1>13. ASSUME UNCHANGED serverVars PROVE PendingInv'
  BY <1>0, <1>13, PendingUntouched DEF serverVars, execVars, assignVars
<1>14. ASSUME NEW r \in deferred, HandleDeferred(r) PROVE PendingInv'
  <2>1. r \in [worker : Workers, exec : Execs, ok : BOOLEAN]
    BY DEF QueueInv, TypeInv, TypeOK, DispatchTypeOK
  <2>2. QED
    BY <1>11, <1>14, <2>1 DEF HandleDeferred
<1>15. QED
  BY <1>1, <1>2, <1>3, <1>4, <1>5, <1>6, <1>7, <1>8, <1>9, <1>10, <1>12, <1>13, <1>14
  DEF Next, Assigner

(* As long as no lookup of assignNextTask rejects, a pending execution is  *)
(* always in pendingQueue or in hand.  The run dispatch_lookup shows that  *)
(* the assumption is needed.                                               *)
THEOREM NothingForgotten ==
  ASSUME "lookup" \notin Faults
  PROVE  Spec => []NoneForgotten
<1>1. Init => PendingInv
  <2> SUFFICES ASSUME Init PROVE PendingInv
    OBVIOUS
  <2>1. HandInv /\ NoneForgotten
    BY DEF Init, HandInv, NoneForgotten
  <2>2. QED
    BY <2>1, InitQueue DEF PendingInv
<1>2. PendingInv /\ [Next]_vars => PendingInv'
  BY NextPending
<1>3. PendingInv => NoneForgotten
  BY DEF PendingInv
<1>4. QED
  BY <1>1, <1>2, <1>3, PTL DEF Spec

(***************************************************************************)
(* Running executions.                                                     *)
(***************************************************************************)
OrphanInv == TypeInv /\ NoOrphan /\ \A w \in Workers : ~closing[w]

LEMMA OrphanUntouched ==
  ASSUME OrphanInv, TypeInv', UNCHANGED <<owner, closing>>,
         \A e \in Execs : status'[e] = "running" => status[e] = "running",
         \A w \in Workers : registered[w] => registered'[w]
  PROVE  OrphanInv'
BY DEF OrphanInv, NoOrphan

LEMMA NextOrphan ==
  ASSUME OrphanInv, [Next]_vars, "admin" \notin Faults
  PROVE  OrphanInv'
<1> USE DEF OrphanInv
<1>0. TypeInv'
  BY NextType
<1>1. CASE UNCHANGED vars \/ \E e \in Execs : UnregisterTaskTemplate(e)
  BY <1>0, <1>1, OrphanUntouched DEF vars, serverVars, connVars, execVars,
       UnregisterTaskTemplate
<1>2. CASE CreateExecution
  <2>1. \A e \in Execs : status'[e] = "running" => status[e] = "running"
    BY <1>2 DEF CreateExecution, TypeInv, TypeOK, DispatchTypeOK
  <2>2. QED
    BY <1>0, <1>2, <2>1, OrphanUntouched DEF CreateExecution, connVars
<1>3. CASE EndPass \/ TakeNext \/ NoEligibleWorker \/ SendRefused \/ LookupFails
  BY <1>0, <1>3, OrphanUntouched DEF EndPass, TakeNext, NoEligibleWorker, SendRefused,
       LookupFails, connVars, execVars
<1>4. ASSUME NEW w \in Workers, ChooseWorker(w) PROVE OrphanInv'
  BY <1>0, <1>4, OrphanUntouched DEF ChooseWorker, connVars, execVars
<1>5. CASE SendTask
  <2>1. /\ hand \in Execs /\ chosen \in Workers /\ registered[chosen]
        /\ status' = [status EXCEPT ![hand] = "running"]
        /\ owner' = [owner EXCEPT ![hand] = chosen]
        /\ UNCHANGED <<registered, closing>>
    BY <1>5 DEF SendTask, TypeInv, AssignerShape, connVars
  <2>2. \A e \in Execs : e # hand => status'[e] = status[e] /\ owner'[e] = owner[e]
    BY <2>1 DEF TypeInv, TypeOK, DispatchTypeOK
  <2>3. owner'[hand] = chosen
    BY <2>1 DEF TypeInv, TypeOK, DispatchTypeOK
  <2>4. NoOrphan'
    BY <2>1, <2>2, <2>3 DEF NoOrphan
  <2>5. QED
    BY <1>0, <2>1, <2>4
<1>6. ASSUME NEW w \in Workers, AddWorker(w) PROVE OrphanInv'
  <2>1. \A v \in Workers : registered[v] => registered'[v]
    BY <1>6 DEF AddWorker, TypeInv, TypeOK, DispatchTypeOK
  <2>2. QED
    BY <1>0, <1>6, <2>1, OrphanUntouched DEF AddWorker, execVars
<1>7. ASSUME NEW w \in Workers, HandleWorkerClose(w) PROVE OrphanInv'
  <2>1. CASE ~registered[w]
    BY <1>0, <1>7, <2>1, OrphanUntouched DEF HandleWorkerClose
  <2>2. CASE registered[w]
    <3>1. /\ registered' = [registered EXCEPT ![w] = FALSE] /\ closing' = closing
          /\ status' = [e \in Execs |-> IF e \in RunningOn(w) THEN "pending" ELSE status[e]]
          /\ owner' = [e \in Execs |-> IF e \in RunningOn(w) THEN NoWorker ELSE owner[e]]
      BY <1>7, <2>2 DEF HandleWorkerClose, RemoveWorker, HandleWorkerDisconnect
    <3>2. ASSUME NEW e \in Execs, status'[e] = "running"
          PROVE  owner'[e] \in Workers /\ registered'[owner'[e]]
      <4>1. e \notin RunningOn(w) /\ status[e] = "running" /\ owner'[e] = owner[e]
        BY <3>1, <3>2
      <4>2. owner[e] \in Workers /\ registered[owner[e]] /\ owner[e] # w
        BY <4>1 DEF RunningOn, NoOrphan
      <4>3. QED
        BY <3>1, <4>1, <4>2 DEF TypeInv, TypeOK, DispatchTypeOK
    <3>3. QED
      BY <1>0, <3>1, <3>2 DEF NoOrphan
  <2>3. QED
    BY <2>1, <2>2
<1>8. ASSUME NEW w \in Workers, DisconnectWorker(w) \/ DisconnectTimer(w) PROVE FALSE
  BY <1>8 DEF DisconnectWorker, DisconnectTimer
<1>9. ASSUME NEW w \in Workers, NEW e \in Execs, NEW ok \in BOOLEAN, ApplyResult(w, e, ok)
      PROVE  OrphanInv'
  <2>1. \A f \in Execs : status'[f] = "running" => status[f] = "running"
    <3>1. CASE Accepted(w, e)
      BY <1>9, <3>1 DEF ApplyResult, TypeInv, TypeOK, DispatchTypeOK
    <3>2. CASE ~Accepted(w, e)
      BY <1>9, <3>2 DEF ApplyResult
    <3>3. QED
      BY <3>1, <3>2
  <2>2. QED
    BY <1>0, <1>9, <2>1, OrphanUntouched DEF ApplyResult, connVars
<1>10. ASSUME NEW w \in Workers, MessageHandler(w) PROVE OrphanInv'
  <2> DEFINE m == Head(toServer[w])
  <2>1. CASE HandleFlowControl(w) \/ HandleToolsList(w) \/ DeferLargeResult(w)
    BY <1>0, <2>1, OrphanUntouched DEF HandleFlowControl, HandleToolsList,
         DeferLargeResult, connVars, execVars
  <2>2. CASE HandleResult(w)
    <3>1. m \in Msgs /\ m.type = "result"
      BY <2>2, ConsumeType DEF HandleResult, Consume, TypeInv, TypeOK, WorkerTypeOK
    <3>2. m.exec \in Execs /\ m.ok \in BOOLEAN
      BY <3>1, ResultFields
    <3>3. QED
      BY <1>9, <2>2, <3>2 DEF HandleResult
  <2>3. QED
    BY <1>10, <2>1, <2>2 DEF MessageHandler
<1>11. ASSUME UNCHANGED serverVars PROVE OrphanInv'
  BY <1>0, <1>11, OrphanUntouched DEF serverVars, connVars, execVars
<1>12. ASSUME NEW r \in deferred, HandleDeferred(r) PROVE OrphanInv'
  <2>1. r \in [worker : Workers, exec : Execs, ok : BOOLEAN]
    BY DEF TypeInv, TypeOK, DispatchTypeOK
  <2>2. QED
    BY <1>9, <1>12, <2>1 DEF HandleDeferred
<1>13. QED
  BY <1>1, <1>2, <1>3, <1>4, <1>5, <1>6, <1>7, <1>8, <1>10, <1>11, <1>12
  DEF Next, Assigner

(* As long as no administrator disconnects a worker, a running execution   *)
(* belongs to a registered worker, whose close event would requeue it.     *)
(* disconnectWorker breaks it without the assumption (see README).         *)
THEOREM NoRunningOrphan ==
  ASSUME "admin" \notin Faults
  PROVE  Spec => []NoOrphan
<1>1. Init => OrphanInv
  <2> SUFFICES ASSUME Init PROVE OrphanInv
    OBVIOUS
  <2>1. NoOrphan /\ \A w \in Workers : ~closing[w]
    BY DEF Init, NoOrphan
  <2>2. QED
    BY <2>1, InitType DEF OrphanInv
<1>2. OrphanInv /\ [Next]_vars => OrphanInv'
  BY NextOrphan
<1>3. OrphanInv => NoOrphan
  BY DEF OrphanInv
<1>4. QED
  BY <1>1, <1>2, <1>3, PTL DEF Spec

(***************************************************************************)
(* currentTasks.  A result is dropped from the list of the worker it came  *)
(* from whether it is accepted or not, so it rests on SentInv that both    *)
(* happen together.                                                        *)
(***************************************************************************)
CurrentOf(w) ==
  /\ registered[w] => conn[w] # "new" /\ current[w] = RunningOn(w)
  /\ conn[w] = "new" => current[w] = {} /\ RunningOn(w) = {}

CurrentInv == RefinementInv /\ \A w \in Workers : CurrentOf(w)

(* A connection whose list and executions a step leaves alone.             *)
LEMMA CurrentUntouched ==
  ASSUME NEW w \in Workers, CurrentOf(w), current'[w] = current[w],
         registered'[w] => registered[w], conn'[w] = "new" <=> conn[w] = "new",
         RunningOn(w)' = RunningOn(w)
  PROVE  CurrentOf(w)'
BY DEF CurrentOf

(* Steps that touch no list and neither a status nor an owner.             *)
LEMMA CurrentKept ==
  ASSUME CurrentInv, RefinementInv', UNCHANGED <<current, status, owner>>,
         \A w \in Workers : registered'[w] => registered[w],
         \A w \in Workers : conn'[w] = "new" <=> conn[w] = "new"
  PROVE  CurrentInv'
BY CurrentUntouched DEF CurrentInv, RunningOn

(* handleWorkerResult and what its caller does to the list.                *)
LEMMA ApplyCurrent ==
  ASSUME CurrentInv, RefinementInv', NEW w \in Workers, NEW e \in Sent(w), NEW ok \in BOOLEAN,
         ApplyResult(w, e, ok)
  PROVE  CurrentInv'
<1>1. /\ e \in Execs /\ UNCHANGED <<conn, registered, owner>> /\ current' = CurrentAfter(w, e, ok)
  BY SentType DEF ApplyResult, CurrentInv, RefinementInv, QueueInv, connVars
<1>2. TypeInv /\ conn[w] # "new" /\ (registered[w] => owner[e] = w)
  BY DEF CurrentInv, RefinementInv, QueueInv, SentInv, SentRuns
<1>3. current \in [Workers -> SUBSET Execs]
  BY <1>2 DEF TypeInv, TypeOK, DispatchTypeOK
<1>4. \A f \in Execs : f # e \/ owner[e] # w => status'[f] = status[f]
  BY <1>2, ChannelTypes DEF ApplyResult, Accepted
<1>5. owner[e] = w => status'[e] # "running"
  BY <1>1, <1>2, ChannelTypes DEF ApplyResult, Accepted
<1>6. ASSUME NEW v \in Workers PROVE CurrentOf(v)'
  <2>1. CurrentOf(v)
    BY DEF CurrentInv
  <2>2. CASE v # w
    <3>1. RunningOn(v)' = RunningOn(v)
      BY <1>1, <1>4, <2>2 DEF RunningOn
    <3>2. current'[v] = current[v]
      BY <1>1, <1>3, <2>2 DEF CurrentAfter
    <3>3. QED
      BY <1>1, <2>1, <3>1, <3>2, CurrentUntouched
  <2>3. CASE v = w /\ registered[w]
    <3>1. RunningOn(w)' = RunningOn(w) \ {e}
      BY <1>1, <1>2, <1>4, <1>5, <2>3 DEF RunningOn
    <3>2. current'[w] = current[w] \ {e}
      BY <1>1, <1>3, <2>3 DEF CurrentAfter
    <3>3. QED
      BY <1>1, <1>2, <2>1, <2>3, <3>1, <3>2 DEF CurrentOf
  <2>4. CASE v = w /\ ~registered[w]
    BY <1>1, <1>2, <2>4 DEF CurrentOf
  <2>5. QED
    BY <2>2, <2>3, <2>4
<1>7. QED
  BY <1>6 DEF CurrentInv

(* Every step keeps the lists.                                             *)
LEMMA NextCurrent ==
  ASSUME CurrentInv, [Next]_vars
  PROVE  CurrentInv'
<1>0. RefinementInv' /\ RefinementInv /\ TypeInv /\ \A w \in Workers : CurrentOf(w)
  BY NextQueue, NextSent DEF CurrentInv, RefinementInv, QueueInv
<1>1. current \in [Workers -> SUBSET Execs]
  BY <1>0 DEF TypeInv, TypeOK, DispatchTypeOK
<1>2. CASE UNCHANGED vars \/ \E e \in Execs : UnregisterTaskTemplate(e)
  BY <1>0, <1>2, CurrentKept DEF vars, workerVars, channelVars, serverVars, connVars, bookVars,
       execVars, UnregisterTaskTemplate
<1>3. CASE CreateExecution
  <2>1. /\ nextId \in Execs /\ status[nextId] = "absent"
        /\ UNCHANGED <<conn, registered, current, owner>>
        /\ status' = [status EXCEPT ![nextId] = "pending"]
    BY <1>0, <1>3 DEF CreateExecution, RefinementInv, QueueInv, FreshIds, Execs, TypeInv, TypeOK,
         DispatchTypeOK, workerVars, channelVars, connVars, bookVars
  <2>2. \A w \in Workers : RunningOn(w)' = RunningOn(w)
    BY <1>0, <2>1, ChannelTypes DEF RunningOn
  <2>3. QED
    BY <1>0, <2>1, <2>2, CurrentUntouched DEF CurrentInv
<1>4. CASE EndPass \/ TakeNext \/ NoEligibleWorker \/ SendRefused \/ LookupFails
  BY <1>0, <1>4, CurrentKept DEF EndPass, TakeNext, NoEligibleWorker, SendRefused, LookupFails,
       workerVars, channelVars, connVars, bookVars, execVars
<1>5. ASSUME NEW w \in Workers, ChooseWorker(w) \/ DisconnectWorker(w) PROVE CurrentInv'
  BY <1>0, <1>5, CurrentKept DEF ChooseWorker, DisconnectWorker, channelVars, connVars,
       bookVars, execVars
<1>6. ASSUME NEW w \in Workers, DisconnectTimer(w) PROVE CurrentInv'
  <2>1. \A v \in Workers : registered'[v] => registered[v]
    BY <1>0, <1>6, ChannelTypes DEF DisconnectTimer, RemoveWorker
  <2>2. QED
    BY <1>0, <1>6, <2>1, CurrentKept DEF DisconnectTimer, workerVars, channelVars, execVars
<1>7. CASE SendTask
  <2>1. /\ hand \in Execs /\ chosen \in Workers /\ hand # NoExec
        /\ registered[chosen] /\ UNCHANGED <<conn, registered>>
        /\ current' = [current EXCEPT ![chosen] = @ \cup {hand}]
        /\ status' = [status EXCEPT ![hand] = "running"]
        /\ owner' = [owner EXCEPT ![hand] = chosen]
    BY <1>0, <1>7, QueueElems DEF SendTask, TypeInv, AssignerShape, connVars
  <2>2. status[hand] = "pending" /\ chosen # NoWorker
    BY <1>0, <2>1, QueueSoundParts, DispatchAssumption DEF RefinementInv, QueueInv
  <2>3. /\ status'[hand] = "running" /\ owner'[hand] = chosen
        /\ \A f \in Execs : f # hand => status'[f] = status[f] /\ owner'[f] = owner[f]
    BY <1>0, <2>1, ChannelTypes
  <2>4. \A v \in Workers : v = chosen => RunningOn(v)' = RunningOn(v) \cup {hand}
    BY <2>1, <2>3 DEF RunningOn
  <2>5. ASSUME NEW v \in Workers, v # chosen PROVE RunningOn(v)' = RunningOn(v)
    <3>1. \A f \in Execs : /\ owner'[f] = v /\ status'[f] = "running"
                             <=> owner[f] = v /\ status[f] = "running"
      BY <2>2, <2>3, <2>5
    <3>2. QED
      BY <3>1 DEF RunningOn
  <2>6. ASSUME NEW v \in Workers PROVE CurrentOf(v)'
    <3>1. CASE v = chosen
      <4>1. current'[v] = current[v] \cup {hand}
        BY <1>1, <2>1, <3>1
      <4>2. QED
        BY <1>0, <2>1, <2>4, <3>1, <4>1 DEF CurrentOf
    <3>2. CASE v # chosen
      <4>1. current'[v] = current[v]
        BY <1>1, <2>1, <3>2
      <4>2. RunningOn(v)' = RunningOn(v)
        BY <2>5, <3>2
      <4>3. QED
        BY <1>0, <2>1, <4>1, <4>2, CurrentUntouched
    <3>3. QED
      BY <3>1, <3>2
  <2>7. QED
    BY <1>0, <2>6 DEF CurrentInv
<1>8. ASSUME NEW w \in Workers, AddWorker(w) PROVE CurrentInv'
  <2>1. /\ conn[w] = "new" /\ conn' = [conn EXCEPT ![w] = "open"]
        /\ registered' = [registered EXCEPT ![w] = TRUE]
        /\ UNCHANGED <<current, status, owner>>
    BY <1>8 DEF AddWorker, Connect, bookVars, execVars
  <2>2. \A v \in Workers : RunningOn(v)' = RunningOn(v)
    BY <2>1 DEF RunningOn
  <2>3. ASSUME NEW v \in Workers PROVE CurrentOf(v)'
    <3>1. CASE v = w
      BY <1>0, <2>1, <2>2, <3>1, ChannelTypes DEF CurrentOf
    <3>2. CASE v # w
      BY <1>0, <2>1, <2>2, <3>2, ChannelTypes, CurrentUntouched
    <3>3. QED
      BY <3>1, <3>2
  <2>4. QED
    BY <1>0, <2>3 DEF CurrentInv
<1>9. ASSUME NEW w \in Workers, HandleWorkerClose(w) PROVE CurrentInv'
  <2>1. conn' = [conn EXCEPT ![w] = "gone"] /\ conn[w] = "broken" /\ current' = current
    BY <1>9 DEF HandleWorkerClose
  <2>2. CASE ~registered[w]
    BY <1>0, <1>9, <2>1, <2>2, ChannelTypes, CurrentKept DEF HandleWorkerClose
  <2>3. CASE registered[w]
    <3>1. /\ registered' = [registered EXCEPT ![w] = FALSE]
          /\ status' = [e \in Execs |-> IF e \in RunningOn(w) THEN "pending" ELSE status[e]]
          /\ owner' = [e \in Execs |-> IF e \in RunningOn(w) THEN NoWorker ELSE owner[e]]
      BY <1>9, <2>3 DEF HandleWorkerClose, RemoveWorker, HandleWorkerDisconnect
    <3>2. \A v \in Workers : v # w => RunningOn(v)' = RunningOn(v)
      BY <3>1, DispatchAssumption DEF RunningOn
    <3>3. ASSUME NEW v \in Workers PROVE CurrentOf(v)'
      <4>1. CASE v = w
        BY <1>0, <2>1, <3>1, <4>1, ChannelTypes DEF CurrentOf
      <4>2. CASE v # w
        BY <1>0, <2>1, <3>1, <3>2, <4>2, ChannelTypes, CurrentUntouched
      <4>3. QED
        BY <4>1, <4>2
    <3>4. QED
      BY <1>0, <3>3 DEF CurrentInv
  <2>4. QED
    BY <2>2, <2>3
<1>10. ASSUME NEW w \in Workers, MessageHandler(w) PROVE CurrentInv'
  <2> DEFINE m == Head(toServer[w])
  <2>1. CASE HandleFlowControl(w) \/ HandleToolsList(w) \/ DeferLargeResult(w)
    BY <1>0, <2>1, CurrentKept DEF HandleFlowControl, HandleToolsList, DeferLargeResult,
         connVars, bookVars, execVars
  <2>2. CASE HandleResult(w)
    <3>1. /\ toServer[w] # <<>> /\ toServer[w] \in Seq(Msgs) /\ m.type = "result" /\ m \in Msgs
      BY <1>0, <2>2, ConsumeShape, ConsumeType, ChannelTypes DEF HandleResult, Consume
    <3>2. m.exec \in Sent(w) /\ m.ok \in BOOLEAN
      BY <3>1, TailResults, ResultFields DEF Sent, Reported
    <3>3. QED
      BY <1>0, <2>2, <3>2, ApplyCurrent DEF HandleResult
  <2>3. QED
    BY <1>10, <2>1, <2>2 DEF MessageHandler
<1>11. ASSUME NEW r \in deferred, HandleDeferred(r) PROVE CurrentInv'
  <2>1. r.worker \in Workers /\ r.ok \in BOOLEAN /\ r.exec \in DeferredAt(r.worker)
    BY <1>0, ChannelTypes DEF DeferredAt
  <2>2. r.exec \in Sent(r.worker) /\ ApplyResult(r.worker, r.exec, r.ok)
    BY <1>11, <2>1 DEF HandleDeferred, Sent, Reported
  <2> DEFINE w == r.worker
             e == r.exec
             ok == r.ok
  <2>3. w \in Workers /\ e \in Sent(w) /\ ok \in BOOLEAN /\ ApplyResult(w, e, ok)
    BY <2>1, <2>2
  <2> HIDE DEF w, e, ok
  <2>4. QED
    BY <1>0, <2>3, ApplyCurrent
<1>12. ASSUME NEW w \in Workers, WorkerStep(w), UNCHANGED serverVars PROVE CurrentInv'
  <2>1. conn' = conn \/ (conn[w] = "open" /\ conn' = [conn EXCEPT ![w] = "broken"])
    BY <1>12 DEF WorkerStep, Announce, ReceiveStart, FinishSome, Finish, ReceiveShutdown, Crash,
         Break, Exit
  <2>2. \A v \in Workers : conn'[v] = "new" <=> conn[v] = "new"
    BY <1>0, <2>1, ChannelTypes
  <2>3. QED
    BY <1>0, <1>12, <2>2, CurrentKept DEF serverVars, connVars, bookVars, execVars
<1>13. QED
  BY <1>2, <1>3, <1>4, <1>5, <1>6, <1>7, <1>8, <1>9, <1>10, <1>11, <1>12 DEF Next, Assigner

(* What the load balancing of assignNextTask reads is the truth, even with *)
(* large results that are parsed late and administrator disconnects.       *)
THEOREM CurrentTasksAlwaysAgree == Spec => []CurrentTasksAgree
<1>1. Init => CurrentInv
  <2> SUFFICES ASSUME Init PROVE CurrentInv
    OBVIOUS
  <2>1. ASSUME NEW w \in Workers PROVE CurrentOf(w)
    BY DEF Init, CurrentOf, RunningOn
  <2>2. QED
    BY <2>1, InitQueue, InitSent DEF CurrentInv, RefinementInv
<1>2. CurrentInv /\ [Next]_vars => CurrentInv'
  BY NextCurrent
<1>3. CurrentInv => CurrentTasksAgree
  BY DEF CurrentInv, CurrentOf, CurrentTasksAgree
<1>4. QED
  BY <1>1, <1>2, <1>3, PTL DEF Spec

(***************************************************************************)
(* Flow control.  A connection is announced once, when nothing is at work  *)
(* on it; from then on every credit stands for a slot that is free or will *)
(* be.                                                                     *)
(***************************************************************************)
Readies(q) == {i \in DOMAIN q : q[i].type = "ready"}
Announces(q) == {i \in DOMAIN q : q[i].type = "announce"}
AnnouncedOnce(q) == \A i, j \in Announces(q) : i = j

FlowOf(w) ==
  /\ Commitment(w) <= SmallerOf(ServerMax, WorkerMax) /\ backlog[w] = <<>>
  /\ AnnouncedOnce(toServer[w])
  /\ Announces(toServer[w]) # {} => announced[w] /\ Commitment(w) = 0
  /\ ~announced[w] => Commitment(w) = 0

FlowInv == TypeInv /\ \A w \in Workers : FlowOf(w)

(* Counting the readies of a channel.                                      *)
LEMMA ReadiesFinite ==
  ASSUME NEW q \in Seq(Msgs)
  PROVE  IsFiniteSet(Readies(q)) /\ Cardinality(Readies(q)) \in Nat
<1>1. IsFiniteSet(1..Len(q))
  BY FS_Interval
<1>2. Readies(q) \in SUBSET (1..Len(q))
  BY DEF Readies
<1>3. IsFiniteSet(Readies(q))
  BY <1>1, <1>2, FS_Subset
<1>4. QED
  BY <1>3, FS_CardinalityType

LEMMA TailKinds ==
  ASSUME NEW q \in Seq(Msgs), q # <<>>
  PROVE  /\ Cardinality(Readies(Tail(q))) <= Cardinality(Readies(q))
         /\ Head(q).type = "ready" =>
              Cardinality(Readies(Tail(q))) + 1 <= Cardinality(Readies(q))
         /\ Announces(Tail(q)) # {} => Announces(q) # {}
         /\ AnnouncedOnce(q) => AnnouncedOnce(Tail(q))
         /\ Head(q).type = "announce" =>
              /\ Announces(q) # {}
              /\ AnnouncedOnce(q) => Announces(Tail(q)) = {}
<1> DEFINE t == Tail(q)
           R == Readies(q) \ {1}
           f == [i \in Readies(t) |-> i + 1]
<1>1. /\ DOMAIN q = 1..Len(q) /\ Len(q) \in Nat /\ Len(q) > 0
      /\ DOMAIN t = 1..(Len(q) - 1)
      /\ Head(q) = q[1]
      /\ \A i \in 1..(Len(q) - 1) : t[i] = q[i + 1]
  OBVIOUS
<1>2. /\ \A i \in DOMAIN t : i \in Nat /\ i + 1 \in DOMAIN q /\ i + 1 # 1 /\ t[i] = q[i + 1]
      /\ 1 \in DOMAIN q
  BY <1>1
<1>3. /\ Cardinality(Readies(t)) <= Cardinality(R) /\ IsFiniteSet(R)
      /\ Cardinality(R) = IF 1 \in Readies(q) THEN Cardinality(Readies(q)) - 1
                                              ELSE Cardinality(Readies(q))
  <2>1. IsFiniteSet(Readies(q))
    BY ReadiesFinite
  <2>2. /\ IsFiniteSet(R)
        /\ Cardinality(R) = IF 1 \in Readies(q) THEN Cardinality(Readies(q)) - 1
                                                ELSE Cardinality(Readies(q))
    BY <2>1, FS_RemoveElement
  <2>3. f \in [Readies(t) -> R]
    BY <1>2 DEF Readies
  <2>4. \A i, j \in Readies(t) : f[i] = f[j] => i = j
    BY <1>2 DEF Readies
  <2>5. f \in Injection(Readies(t), R)
    BY <2>3, <2>4, Zenon DEF Injection, IsInjective
  <2> HIDE DEF f, R
  <2>6. Cardinality(Readies(t)) <= Cardinality(R)
    BY <2>2, <2>5, FS_Injection
  <2>7. QED
    BY <2>2, <2>6 DEF R
<1>4. Cardinality(Readies(q)) \in Nat /\ Cardinality(Readies(t)) \in Nat
  <2>1. t \in Seq(Msgs)
    OBVIOUS
  <2>2. QED
    BY <2>1, ReadiesFinite
<1>5. Head(q).type = "ready" => 1 \in Readies(q)
  BY <1>1, <1>2 DEF Readies
<1>6. \A i \in Announces(t) : i + 1 \in Announces(q) /\ i + 1 # 1 /\ i \in Nat
  BY <1>2 DEF Announces
<1>7. AnnouncedOnce(q) => AnnouncedOnce(t)
  BY <1>6 DEF AnnouncedOnce
<1>8. Head(q).type = "announce" => 1 \in Announces(q)
  BY <1>1, <1>2 DEF Announces
<1>9. Head(q).type = "announce" /\ AnnouncedOnce(q) => Announces(t) = {}
  BY <1>6, <1>8 DEF AnnouncedOnce
<1> HIDE DEF t, R
<1>10. QED
  BY <1>3, <1>4, <1>5, <1>6, <1>7, <1>8, <1>9 DEF t, R

(* One more element.                                                       *)
LEMMA OneMore ==
  ASSUME NEW S, IsFiniteSet(S), NEW x
  PROVE  Cardinality(S \cup {x}) \in Nat /\ Cardinality(S \cup {x}) <= Cardinality(S) + 1
<1>1. Cardinality(S) \in Nat
  BY FS_CardinalityType
<1>2. CASE x \in S
  <2>1. S \cup {x} = S
    BY <1>2
  <2>2. QED
    BY <1>1, <2>1
<1>3. CASE x \notin S
  <2>1. Cardinality(S \cup {x}) = Cardinality(S) + 1
    BY <1>3, FS_AddElement, Zenon
  <2>2. QED
    BY <1>1, <2>1
<1>4. QED
  BY <1>2, <1>3

(* Appending one message.                                                  *)
LEMMA AppendKinds ==
  ASSUME NEW q \in Seq(Msgs), NEW m \in Msgs
  PROVE  /\ Cardinality(Readies(q \o <<m>>)) <= Cardinality(Readies(q)) + 1
         /\ m.type # "ready" => Readies(q \o <<m>>) = Readies(q)
         /\ m.type # "announce" => Announces(q \o <<m>>) = Announces(q)
         /\ Announces(q) = {} => AnnouncedOnce(q \o <<m>>)
<1> DEFINE c == q \o <<m>>
           n == Len(q) + 1
<1>1. /\ DOMAIN c = DOMAIN q \cup {n} /\ n \notin DOMAIN q
      /\ c[n] = m /\ \A i \in DOMAIN q : c[i] = q[i]
  OBVIOUS
<1> HIDE DEF c, n
<1>2. /\ Readies(c) = Readies(q) \/ Readies(c) = Readies(q) \cup {n}
      /\ m.type # "ready" => Readies(c) = Readies(q)
  BY <1>1 DEF Readies
<1>3. /\ Announces(c) \subseteq Announces(q) \cup {n}
      /\ m.type # "announce" => Announces(c) = Announces(q)
  BY <1>1 DEF Announces
<1>4. Cardinality(Readies(c)) <= Cardinality(Readies(q)) + 1
  <2>1. IsFiniteSet(Readies(q)) /\ Cardinality(Readies(q)) \in Nat
    BY ReadiesFinite
  <2>2. Cardinality(Readies(q) \cup {n}) <= Cardinality(Readies(q)) + 1
    BY <2>1, OneMore
  <2>3. CASE Readies(c) = Readies(q)
    BY <2>1, <2>3
  <2>4. CASE Readies(c) = Readies(q) \cup {n}
    BY <2>2, <2>4
  <2>5. QED
    BY <1>2, <2>3, <2>4
<1>5. Announces(q) = {} => AnnouncedOnce(c)
  BY <1>3 DEF AnnouncedOnce
<1>6. QED
  BY <1>2, <1>3, <1>4, <1>5 DEF c

(* Appending two messages is appending one after the other.                *)
LEMMA AppendBoth ==
  ASSUME NEW q \in Seq(Msgs), NEW m \in Msgs, NEW n \in Msgs
  PROVE  q \o <<m>> \in Seq(Msgs) /\ q \o <<m, n>> = (q \o <<m>>) \o <<n>>
<1> DEFINE a == q \o <<m, n>>
           r == q \o <<m>>
           b == r \o <<n>>
<1>1. r \in Seq(Msgs) /\ a \in Seq(Msgs) /\ b \in Seq(Msgs)
  OBVIOUS
<1>2. Len(q) \in Nat /\ Len(r) = Len(q) + 1 /\ Len(a) = Len(q) + 2 /\ Len(b) = Len(q) + 2
  OBVIOUS
<1>3. \A i \in 1..(Len(q) + 2) : a[i] = b[i]
  <2>1. \A i \in 1..(Len(q) + 2) : i \in 1..Len(q) \/ i = Len(q) + 1 \/ i = Len(q) + 2
    BY <1>2
  <2>2. \A i \in 1..Len(q) : a[i] = q[i] /\ b[i] = q[i]
    OBVIOUS
  <2>3. a[Len(q) + 1] = m /\ a[Len(q) + 2] = n
    BY <1>2
  <2>4. b[Len(q) + 1] = m /\ b[Len(q) + 2] = n
    BY <1>2
  <2>5. QED
    BY <2>1, <2>2, <2>3, <2>4
<1>4. a = [i \in 1..(Len(q) + 2) |-> a[i]] /\ b = [i \in 1..(Len(q) + 2) |-> b[i]]
  BY <1>1, <1>2
<1> HIDE DEF a, b, r
<1>5. a = b
  BY <1>3, <1>4
<1>6. QED
  BY <1>1, <1>5 DEF a, b, r

(* A channel without readies and announcements.                            *)
LEMMA EmptyKinds ==
  /\ Cardinality(Readies(<<>>)) = 0 /\ Announces(<<>>) = {}
  /\ \A m : m.type \notin {"ready", "announce"} =>
       Cardinality(Readies(<<m>>)) = 0 /\ Announces(<<m>>) = {}
<1>1. Readies(<<>>) = {} /\ Announces(<<>>) = {}
  BY DEF Readies, Announces
<1>2. ASSUME NEW m, m.type \notin {"ready", "announce"}
      PROVE  Readies(<<m>>) = {} /\ Announces(<<m>>) = {}
  BY <1>2 DEF Readies, Announces
<1>3. QED
  BY <1>1, <1>2, FS_EmptySet

(* The summands of Commitment.                                             *)
LEMMA CommitmentType ==
  ASSUME TypeInv, NEW w \in Workers
  PROVE  /\ credits[w] \in Nat /\ Cardinality(active[w]) \in Nat
         /\ Cardinality(toWorker[w]) \in Nat /\ Len(backlog[w]) \in Nat
         /\ Cardinality(Readies(toServer[w])) \in Nat
         /\ ReadyCount(w) = Cardinality(Readies(toServer[w]))
<1>1. active[w] \subseteq Execs /\ toWorker[w] \subseteq Execs
  BY ChannelTypes
<1>2. credits[w] \in Nat /\ backlog[w] \in Seq(Execs) /\ toServer[w] \in Seq(Msgs)
  BY DEF TypeInv, TypeOK, DispatchTypeOK, WorkerTypeOK
<1>3. ReadyCount(w) = Cardinality(Readies(toServer[w]))
  BY DEF ReadyCount, Readies
<1>4. QED
  BY <1>1, <1>2, <1>3, ExecsFinite, ReadiesFinite

(* A step after which no more is at work and no announcement is added.     *)
LEMMA FlowKept ==
  ASSUME TypeInv, TypeInv', NEW w \in Workers, FlowOf(w),
         Commitment(w)' <= Commitment(w), backlog'[w] = <<>>, announced'[w] = announced[w],
         AnnouncedOnce(toServer'[w]), Announces(toServer'[w]) # {} => Announces(toServer[w]) # {}
  PROVE  FlowOf(w)'
<1>1. Commitment(w) \in Nat /\ Commitment(w)' \in Nat
  <2>1. Commitment(w) \in Nat
    BY CommitmentType DEF Commitment, Load
  <2>2. /\ credits'[w] \in Nat /\ Cardinality(active'[w]) \in Nat
        /\ Cardinality(toWorker'[w]) \in Nat /\ Len(backlog'[w]) \in Nat
        /\ ReadyCount(w)' \in Nat
    <3>1. active'[w] \subseteq Execs /\ toWorker'[w] \subseteq Execs
      BY DEF TypeInv, TypeOK, WorkerTypeOK
    <3>2. credits'[w] \in Nat /\ backlog'[w] \in Seq(Execs) /\ toServer'[w] \in Seq(Msgs)
      BY DEF TypeInv, TypeOK, DispatchTypeOK, WorkerTypeOK
    <3>3. ReadyCount(w)' = Cardinality(Readies(toServer'[w]))
      BY DEF ReadyCount, Readies
    <3>4. QED
      BY <3>1, <3>2, <3>3, ExecsFinite, ReadiesFinite
  <2>3. QED
    BY <2>1, <2>2 DEF Commitment, Load
<1>2. SmallerOf(ServerMax, WorkerMax) \in Nat
  BY WorkerAssumption, DispatchAssumption DEF SmallerOf
<1>3. Commitment(w) <= SmallerOf(ServerMax, WorkerMax) =>
        Commitment(w)' <= SmallerOf(ServerMax, WorkerMax)
  BY <1>1, <1>2
<1>4. Commitment(w) = 0 => Commitment(w)' = 0
  BY <1>1
<1>5. QED
  BY <1>3, <1>4 DEF FlowOf

(* A connection on which nothing is added.                                 *)
LEMMA FlowShrinks ==
  ASSUME TypeInv, TypeInv', NEW w \in Workers, FlowOf(w),
         credits'[w] <= credits[w], active'[w] \subseteq active[w],
         toWorker'[w] \subseteq toWorker[w], backlog'[w] = <<>> \/ backlog'[w] = backlog[w],
         announced'[w] = announced[w],
         Cardinality(Readies(toServer'[w])) <= Cardinality(Readies(toServer[w])),
         AnnouncedOnce(toServer'[w]), Announces(toServer'[w]) # {} => Announces(toServer[w]) # {}
  PROVE  FlowOf(w)'
<1>1. backlog'[w] = <<>> /\ backlog[w] = <<>>
  BY DEF FlowOf
<1>2. /\ Cardinality(active'[w]) <= Cardinality(active[w]) /\ Cardinality(active'[w]) \in Nat
      /\ Cardinality(toWorker'[w]) <= Cardinality(toWorker[w])
      /\ Cardinality(toWorker'[w]) \in Nat
  <2>1. active[w] \subseteq Execs /\ toWorker[w] \subseteq Execs
    BY ChannelTypes
  <2>2. /\ IsFiniteSet(active[w]) /\ IsFiniteSet(toWorker[w])
        /\ Cardinality(active'[w]) \in Nat /\ Cardinality(toWorker'[w]) \in Nat
    BY <2>1, ExecsFinite
  <2>3. QED
    BY <2>2, FS_Subset
<1>3. credits'[w] \in Nat /\ Cardinality(Readies(toServer'[w])) \in Nat
  <2>1. credits'[w] \in Nat /\ toServer'[w] \in Seq(Msgs)
    BY DEF TypeInv, TypeOK, DispatchTypeOK, WorkerTypeOK
  <2>2. QED
    BY <2>1, ReadiesFinite
<1>4. ReadyCount(w)' = Cardinality(Readies(toServer'[w]))
  BY DEF ReadyCount, Readies
<1>5. Commitment(w)' <= Commitment(w)
  BY <1>1, <1>2, <1>3, <1>4, CommitmentType DEF Commitment, Load
<1>6. QED
  BY <1>1, <1>5, FlowKept

(* A connection whose variables a step leaves alone.                       *)
LEMMA FlowUntouched ==
  ASSUME TypeInv, TypeInv', NEW w \in Workers, FlowOf(w), credits'[w] = credits[w],
         active'[w] = active[w], toWorker'[w] = toWorker[w], backlog'[w] = backlog[w],
         announced'[w] = announced[w], toServer'[w] = toServer[w]
  PROVE  FlowOf(w)'
<1>1. credits'[w] <= credits[w]
  BY DEF TypeInv, TypeOK, DispatchTypeOK
<1>2. Cardinality(Readies(toServer'[w])) <= Cardinality(Readies(toServer[w]))
  BY CommitmentType
<1>3. AnnouncedOnce(toServer'[w]) /\ (Announces(toServer'[w]) # {} => Announces(toServer[w]) # {})
  BY DEF FlowOf
<1>4. QED
  BY <1>1, <1>2, <1>3, FlowShrinks

(* worker:ready is announced when nothing is at work on the connection.    *)
LEMMA AnnounceFlow ==
  ASSUME FlowInv, TypeInv', NEW w \in Workers, Announce(w), UNCHANGED serverVars
  PROVE  FlowInv'
<1>1. /\ conn[w] = "open" /\ ~announced[w] /\ SendMessages(w, <<AnnounceMsg>>)
      /\ announced' = [announced EXCEPT ![w] = TRUE]
      /\ UNCHANGED <<credits, active, toWorker, backlog>> /\ TypeInv
  BY DEF Announce, serverVars, bookVars, FlowInv
<1>2. announced \in [Workers -> BOOLEAN] /\ toServer[w] \in Seq(Msgs)
  BY <1>1 DEF TypeInv, TypeOK, WorkerTypeOK
<1>3. /\ toServer'[w] = toServer[w] \o <<AnnounceMsg>>
      /\ \A v \in Workers : v # w => toServer'[v] = toServer[v] /\ announced'[v] = announced[v]
      /\ announced'[w]
  BY <1>1, <1>2, ChannelTypes DEF SendMessages
<1>4. FlowOf(w)'
  <2>1. FlowOf(w)
    BY DEF FlowInv
  <2>2. Announces(toServer[w]) = {} /\ Commitment(w) = 0
    BY <1>1, <2>1 DEF FlowOf
  <2>3. AnnounceMsg \in Msgs /\ AnnounceMsg.type # "ready"
    BY DEF Msgs, AnnounceMsg
  <2>4. Readies(toServer'[w]) = Readies(toServer[w]) /\ AnnouncedOnce(toServer'[w])
    BY <1>2, <1>3, <2>2, <2>3, AppendKinds
  <2>5. ReadyCount(w)' = ReadyCount(w)
    BY <2>4 DEF ReadyCount, Readies
  <2>6. Commitment(w)' = Commitment(w)
    BY <1>1, <2>5 DEF Commitment, Load
  <2>7. QED
    BY <1>1, <1>3, <2>1, <2>2, <2>4, <2>6 DEF FlowOf
<1>5. ASSUME NEW v \in Workers, v # w PROVE FlowOf(v)'
  BY <1>1, <1>3, <1>5, FlowUntouched DEF FlowInv
<1>6. QED
  BY <1>4, <1>5 DEF FlowInv

(* A start finds a free slot: its credit stood for one.                    *)
LEMMA ReceiveStartFlow ==
  ASSUME FlowInv, TypeInv', NEW w \in Workers, NEW e \in Execs, ReceiveStart(w, e),
         UNCHANGED serverVars
  PROVE  FlowInv'
<1>1. /\ TypeInv /\ FlowOf(w) /\ e \in toWorker[w] /\ toWorker' = [toWorker EXCEPT ![w] = @ \ {e}]
      /\ UNCHANGED <<credits, announced>>
  BY DEF ReceiveStart, serverVars, bookVars, FlowInv
<1>2. /\ IsFiniteSet(active[w]) /\ IsFiniteSet(toWorker[w])
      /\ Cardinality(active[w]) \in Nat /\ Cardinality(toWorker[w]) \in Nat
  BY <1>1, ChannelTypes, ExecsFinite
<1>3. toWorker'[w] = toWorker[w] \ {e} /\ Cardinality(toWorker'[w]) = Cardinality(toWorker[w]) - 1
  <2>1. toWorker'[w] = toWorker[w] \ {e}
    BY <1>1, ChannelTypes
  <2>2. Cardinality(toWorker[w] \ {e}) = Cardinality(toWorker[w]) - 1
    BY <1>1, <1>2, FS_RemoveElement, Zenon
  <2>3. QED
    BY <2>1, <2>2
<1>4. Cardinality(toWorker'[w]) \in Nat
  <2>1. toWorker'[w] \subseteq Execs
    BY DEF TypeInv, TypeOK, WorkerTypeOK
  <2>2. QED
    BY <2>1, ExecsFinite
<1>5. ~(Cardinality(active[w]) >= WorkerMax)
  <2>1. Commitment(w) <= WorkerMax
    BY <1>1, CommitmentType, WorkerAssumption, DispatchAssumption
    DEF FlowOf, Commitment, Load, SmallerOf
  <2>2. QED
    BY <1>1, <1>2, <1>3, <1>4, <2>1, CommitmentType, WorkerAssumption DEF Commitment, Load
<1>6. UNCHANGED <<backlog, toServer>> /\ active' = [active EXCEPT ![w] = @ \cup {e}]
  BY <1>5 DEF ReceiveStart
<1>7. FlowOf(w)'
  <2>1. active'[w] = active[w] \cup {e}
    BY <1>1, <1>6, ChannelTypes
  <2>2. /\ Cardinality(active'[w]) <= Cardinality(active[w]) + 1
        /\ Cardinality(active'[w]) \in Nat
    BY <1>2, <2>1, OneMore
  <2>3. ReadyCount(w)' = ReadyCount(w)
    BY <1>6 DEF ReadyCount
  <2>4. Commitment(w)' <= Commitment(w)
    BY <1>1, <1>2, <1>3, <1>4, <1>6, <2>2, <2>3, CommitmentType DEF Commitment, Load
  <2>5. QED
    BY <1>1, <1>6, <2>4, FlowKept DEF FlowOf
<1>8. ASSUME NEW v \in Workers, v # w PROVE FlowOf(v)'
  <2>1. toWorker'[v] = toWorker[v] /\ active'[v] = active[v]
    BY <1>1, <1>6, <1>8, ChannelTypes
  <2>2. QED
    BY <1>1, <1>6, <2>1, FlowUntouched DEF FlowInv
<1>9. QED
  BY <1>7, <1>8 DEF FlowInv

(* A script that ends frees its slot and sends at most one ready.          *)
LEMMA FinishFlow ==
  ASSUME FlowInv, TypeInv', NEW w \in Workers, NEW e \in Execs, FinishSome(w, e),
         UNCHANGED serverVars
  PROVE  FlowInv'
<1>0. PICK ok \in BOOLEAN, large \in BOOLEAN, got \in SUBSET install[e] :
        Finish(w, e, ok, large, got)
  BY DEF FinishSome
<1>1. TypeInv /\ FlowOf(w) /\ backlog[w] = <<>> /\ UNCHANGED <<credits, announced, toWorker>>
  BY <1>0 DEF Finish, serverVars, bookVars, FlowInv, FlowOf
<1> DEFINE result == [type |-> "result", exec |-> e, ok |-> ok, large |-> large]
           running == (active[w] \ {e}) \cup {}
           msgs == IF Cardinality(running) < WorkerMax
                   THEN <<result, ReadyMsg>> ELSE <<result>>
<1>2. /\ e \in active[w] /\ active' = [active EXCEPT ![w] = running]
      /\ backlog' = [backlog EXCEPT ![w] = <<>>] /\ SendMessages(w, msgs)
  BY <1>0, <1>1 DEF Finish
<1>3. active'[w] = active[w] \ {e} /\ backlog'[w] = <<>>
  BY <1>1, <1>2, ChannelTypes
<1>4. /\ Cardinality(active'[w]) = Cardinality(active[w]) - 1
      /\ Cardinality(active[w]) \in Nat /\ Cardinality(active'[w]) \in Nat
  <2>1. IsFiniteSet(active[w]) /\ Cardinality(active[w]) \in Nat
    BY <1>1, ChannelTypes, ExecsFinite
  <2>2. Cardinality(active[w] \ {e}) = Cardinality(active[w]) - 1
    BY <1>2, <2>1, FS_RemoveElement, Zenon
  <2>3. active'[w] \subseteq Execs
    BY DEF TypeInv, TypeOK, WorkerTypeOK
  <2>4. QED
    BY <1>3, <2>1, <2>2, <2>3, ExecsFinite
<1>5. /\ Cardinality(Readies(toServer'[w])) <= Cardinality(Readies(toServer[w])) + 1
      /\ Announces(toServer'[w]) = Announces(toServer[w])
  <2> DEFINE q == toServer[w]
             r == q \o <<result>>
  <2>1. result \in Msgs /\ ReadyMsg \in Msgs /\ q \in Seq(Msgs)
    BY <1>1, ChannelTypes DEF Msgs, ResultMsgs
  <2>2. /\ result.type # "ready" /\ result.type # "announce"
        /\ ReadyMsg.type # "announce"
    BY DEF ReadyMsg
  <2>3. Cardinality(Readies(q)) \in Nat
    BY <2>1, ReadiesFinite
  <2> HIDE DEF result
  <2>4. r \in Seq(Msgs) /\ q \o <<result, ReadyMsg>> = r \o <<ReadyMsg>>
    BY <2>1, AppendBoth
  <2> HIDE DEF q
  <2>5. Readies(r) = Readies(q) /\ Announces(r) = Announces(q)
    BY <2>1, <2>2, AppendKinds
  <2> HIDE DEF r
  <2>6. /\ Cardinality(Readies(r \o <<ReadyMsg>>)) <= Cardinality(Readies(r)) + 1
        /\ Announces(r \o <<ReadyMsg>>) = Announces(r)
    BY <2>1, <2>2, <2>4, AppendKinds
  <2>7. toServer'[w] = q \/ toServer'[w] = r \/ toServer'[w] = r \o <<ReadyMsg>>
    <3>1. toServer'[w] = q \/ toServer'[w] = q \o msgs
      BY <1>1, <1>2, SendShape DEF q
    <3>2. q \o msgs = r \/ q \o msgs = r \o <<ReadyMsg>>
      BY <2>4 DEF r
    <3>3. QED
      BY <3>1, <3>2
  <2>8. QED
    <3>1. CASE toServer'[w] = q
      BY <2>3, <3>1 DEF q
    <3>2. CASE toServer'[w] = r
      BY <2>3, <2>5, <3>2 DEF q
    <3>3. CASE toServer'[w] = r \o <<ReadyMsg>>
      BY <2>3, <2>5, <2>6, <3>3 DEF q
    <3>4. QED
      BY <2>7, <3>1, <3>2, <3>3
<1>6. FlowOf(w)'
  <2>1. toServer'[w] \in Seq(Msgs)
    BY DEF TypeInv, TypeOK, WorkerTypeOK
  <2>2. /\ ReadyCount(w)' = Cardinality(Readies(toServer'[w]))
        /\ Cardinality(Readies(toServer'[w])) \in Nat
    BY <2>1, ReadiesFinite DEF ReadyCount, Readies
  <2>3. Commitment(w)' <= Commitment(w)
    BY <1>1, <1>3, <1>4, <1>5, <2>2, CommitmentType DEF Commitment, Load
  <2>4. AnnouncedOnce(toServer'[w])
    BY <1>1, <1>5 DEF FlowOf, AnnouncedOnce
  <2>5. QED
    BY <1>1, <1>3, <1>5, <2>3, <2>4, FlowKept
<1>7. ASSUME NEW v \in Workers, v # w PROVE FlowOf(v)'
  <2>1. active'[v] = active[v] /\ backlog'[v] = backlog[v] /\ toServer'[v] = toServer[v]
    BY <1>1, <1>2, <1>7, SendShape, ChannelTypes
  <2>2. QED
    BY <1>1, <2>1, FlowUntouched DEF FlowInv
<1>8. QED
  BY <1>6, <1>7 DEF FlowInv

(* A process that dies, or a connection that breaks, leaves less behind.   *)
LEMMA ConnectionLostFlow ==
  ASSUME FlowInv, TypeInv', NEW w \in Workers, Exit(w) \/ Break(w), UNCHANGED serverVars
  PROVE  FlowInv'
<1>1. ASSUME NEW v \in Workers PROVE FlowOf(v)'
  <2>1. TypeInv /\ FlowOf(v) /\ credits[v] \in Nat
    BY DEF FlowInv, TypeInv, TypeOK, DispatchTypeOK
  <2>2. /\ credits'[v] <= credits[v] /\ announced'[v] = announced[v]
        /\ toServer'[v] = toServer[v]
    BY <2>1 DEF Exit, Break, serverVars, bookVars, handlerVars
  <2>3. active'[v] \subseteq active[v] /\ toWorker'[v] \subseteq toWorker[v]
    BY <2>1, ChannelTypes DEF Exit, Break, handlerVars
  <2>4. backlog'[v] = backlog[v] \/ backlog'[v] = <<>>
    BY <2>1, ChannelTypes DEF Exit, Break, handlerVars
  <2>5. /\ Cardinality(Readies(toServer'[v])) <= Cardinality(Readies(toServer[v]))
        /\ AnnouncedOnce(toServer'[v])
    BY <2>1, <2>2, CommitmentType DEF FlowOf
  <2>6. QED
    BY <2>1, <2>2, <2>3, <2>4, <2>5, FlowShrinks
<1>2. QED
  BY <1>1 DEF FlowInv

(* sendTask spends a credit for the execution it puts on the wire.         *)
LEMMA SendTaskFlow ==
  ASSUME FlowInv, TypeInv', SendTask
  PROVE  FlowInv'
<1>1. /\ TypeInv /\ chosen \in Workers /\ credits[chosen] > 0
      /\ credits' = [credits EXCEPT ![chosen] = @ - 1]
      /\ UNCHANGED <<active, backlog, announced, toServer>>
  BY DEF SendTask, FlowInv, TypeInv, AssignerShape, handlerVars
<1>2. credits \in [Workers -> Nat]
  BY <1>1 DEF TypeInv, TypeOK, DispatchTypeOK
<1>3. ASSUME NEW v \in Workers, v # chosen PROVE FlowOf(v)'
  <2>1. credits'[v] = credits[v] /\ toWorker'[v] = toWorker[v]
    BY <1>1, <1>2, <1>3, ChannelTypes DEF SendTask
  <2>2. QED
    BY <1>1, <2>1, FlowUntouched DEF FlowInv
<1>4. ASSUME NEW v \in Workers, v = chosen PROVE FlowOf(v)'
  <2>1. /\ FlowOf(v) /\ credits'[v] = credits[v] - 1
        /\ credits[v] \in Nat /\ credits[v] > 0 /\ TypeInv
    BY <1>1, <1>2, <1>4 DEF FlowInv
  <2>2. toWorker'[v] = toWorker[v] \/ toWorker'[v] = toWorker[v] \cup {hand}
    BY <1>1, <1>4, ChannelTypes DEF SendTask
  <2>3. IsFiniteSet(toWorker[v]) /\ Cardinality(toWorker[v]) \in Nat
    BY <1>1, ChannelTypes, ExecsFinite
  <2>4. /\ Cardinality(toWorker'[v]) <= Cardinality(toWorker[v]) + 1
        /\ Cardinality(toWorker'[v]) \in Nat
    <3>1. /\ Cardinality(toWorker[v] \cup {hand}) <= Cardinality(toWorker[v]) + 1
          /\ Cardinality(toWorker[v] \cup {hand}) \in Nat
      BY <2>3, OneMore
    <3>2. CASE toWorker'[v] = toWorker[v]
      BY <2>3, <3>2
    <3>3. CASE toWorker'[v] = toWorker[v] \cup {hand}
      BY <3>1, <3>3
    <3>4. QED
      BY <2>2, <3>2, <3>3
  <2>5. ReadyCount(v)' = ReadyCount(v)
    BY <1>1 DEF ReadyCount
  <2>6. Commitment(v)' <= Commitment(v)
    BY <1>1, <2>1, <2>3, <2>4, <2>5, CommitmentType DEF Commitment, Load
  <2>7. QED
    BY <1>1, <2>1, <2>6, FlowKept DEF FlowOf
<1>5. QED
  BY <1>3, <1>4 DEF FlowInv

(* Taking the head of a channel: a ready becomes a credit, the one         *)
(* announcement becomes all of them.                                       *)
LEMMA ConsumeFlow ==
  ASSUME FlowInv, TypeInv', NEW w \in Workers, NEW type, Consume(w, type),
         UNCHANGED <<active, backlog, announced, toWorker>>,
         \A v \in Workers : v # w => credits'[v] = credits[v],
         credits'[w] = credits[w] \/ HandleFlowControl(w)
  PROVE  FlowInv'
<1> DEFINE q == toServer[w]
<1>0. TypeInv /\ FlowOf(w) /\ credits \in [Workers -> Nat]
  BY DEF FlowInv, TypeInv, TypeOK, DispatchTypeOK
<1>1. /\ \A v \in Workers : v # w => toServer'[v] = toServer[v]
      /\ toServer'[w] = Tail(q) /\ q # <<>> /\ q \in Seq(Msgs)
  BY <1>0, ConsumeShape
<1>2. Cardinality(Readies(q)) \in Nat /\ Cardinality(Readies(Tail(q))) \in Nat
  <2>1. Tail(q) \in Seq(Msgs)
    BY <1>1
  <2>2. QED
    BY <1>1, <2>1, ReadiesFinite
<1>3. credits[w] \in Nat /\ credits'[w] \in Nat
  BY <1>0 DEF TypeInv, TypeOK, DispatchTypeOK
<1>4. ReadyCount(w)' = Cardinality(Readies(Tail(q)))
  BY <1>1 DEF ReadyCount, Readies
<1> HIDE DEF q
<1>5. /\ AnnouncedOnce(toServer'[w])
      /\ Announces(toServer'[w]) # {} => Announces(toServer[w]) # {}
  BY <1>0, <1>1, TailResults, TailKinds DEF FlowOf, q
<1>6. ASSUME credits'[w] + Cardinality(Readies(Tail(q))) <= credits[w] + Cardinality(Readies(q))
      PROVE  FlowOf(w)'
  <2>1. Commitment(w)' <= Commitment(w)
    BY <1>0, <1>2, <1>3, <1>4, <1>6, CommitmentType DEF Commitment, Load, q
  <2>2. QED
    BY <1>0, <1>5, <2>1, FlowKept DEF FlowOf
<1>7. CASE credits'[w] = credits[w]
  <2>1. Cardinality(Readies(Tail(q))) <= Cardinality(Readies(q))
    BY <1>1, TailKinds
  <2>2. FlowOf(w)'
    BY <1>2, <1>3, <1>6, <1>7, <2>1
  <2>3. QED
    BY <1>0, <1>1, <2>2, FlowUntouched DEF FlowInv
<1>8. CASE HandleFlowControl(w)
  <2>1. /\ credits'[w] = CreditsAfter(w, Head(q))
        /\ Head(q).type \in {"announce", "ready", "busy"}
    BY <1>0, <1>8 DEF HandleFlowControl, Consume, q
  <2>2. ServerMax \in Nat /\ WorkerMax \in Nat
    BY WorkerAssumption, DispatchAssumption
  <2>3. ASSUME Head(q).type = "announce" PROVE FlowOf(w)'
    <3>1. Commitment(w) = 0 /\ announced[w] /\ Announces(Tail(q)) = {}
      BY <1>0, <1>1, <2>3, TailKinds DEF FlowOf, q
    <3>2. credits[w] = 0 /\ Load(w) = 0 /\ Cardinality(Readies(q)) = 0
      <4>1. Load(w) \in Nat /\ ReadyCount(w) \in Nat
            /\ ReadyCount(w) = Cardinality(Readies(q))
        BY <1>0, CommitmentType DEF Load, q
      <4>2. credits[w] + Load(w) + ReadyCount(w) = 0
        BY <3>1 DEF Commitment
      <4>3. QED
        BY <1>3, <4>1, <4>2
    <3>3. credits'[w] <= SmallerOf(ServerMax, WorkerMax)
      BY <1>3, <2>1, <2>2, <2>3, <3>2 DEF CreditsAfter, SmallerOf
    <3>4. Cardinality(Readies(Tail(q))) = 0
      BY <1>1, <1>2, <3>2, TailKinds
    <3>5. Load(w)' = 0
      BY <3>2 DEF Load
    <3>6. Commitment(w)' = credits'[w]
      BY <1>3, <1>4, <3>4, <3>5 DEF Commitment
    <3>7. backlog'[w] = <<>> /\ announced'[w] = announced[w] /\ Announces(toServer'[w]) = {}
      BY <1>0, <1>1, <3>1 DEF FlowOf
    <3>8. QED
      BY <1>5, <3>1, <3>3, <3>6, <3>7 DEF FlowOf
  <2>4. ASSUME Head(q).type = "ready" PROVE FlowOf(w)'
    <3>1. credits'[w] <= credits[w] + 1
      BY <1>3, <2>1, <2>2, <2>4 DEF CreditsAfter, SmallerOf
    <3>2. Cardinality(Readies(Tail(q))) + 1 <= Cardinality(Readies(q))
      BY <1>1, <2>4, TailKinds
    <3>3. QED
      BY <1>2, <1>3, <1>6, <3>1, <3>2
  <2>5. ASSUME Head(q).type = "busy" PROVE FlowOf(w)'
    <3>1. credits'[w] = 0
      BY <2>1, <2>5 DEF CreditsAfter
    <3>2. Cardinality(Readies(Tail(q))) <= Cardinality(Readies(q))
      BY <1>1, TailKinds
    <3>3. QED
      BY <1>2, <1>3, <1>6, <3>1, <3>2
  <2>6. FlowOf(w)'
    BY <2>1, <2>3, <2>4, <2>5
  <2>7. QED
    BY <1>0, <1>1, <2>6, FlowUntouched DEF FlowInv
<1>9. QED
  BY <1>7, <1>8

(* Everything that happens on the server's side of one connection.         *)
LEMMA ServerSideFlow ==
  ASSUME FlowInv, TypeInv', NEW w \in Workers,
         AddWorker(w) \/ HandleWorkerClose(w) \/ DisconnectTimer(w)
  PROVE  FlowInv'
<1>1. /\ TypeInv /\ FlowOf(w) /\ credits \in [Workers -> Nat]
      /\ UNCHANGED <<active, toWorker, backlog, announced>>
  BY DEF FlowInv, TypeInv, TypeOK, DispatchTypeOK, AddWorker, Connect, HandleWorkerClose,
     DisconnectTimer, handlerVars, workerVars, channelVars
<1>2. /\ credits'[w] = credits[w] \/ credits'[w] = 0
      /\ \A v \in Workers : v # w => credits'[v] = credits[v]
  BY <1>1 DEF AddWorker, HandleWorkerClose, DisconnectTimer, RemoveWorker, bookVars
<1>3. \A v \in Workers : v # w => toServer'[v] = toServer[v]
  BY <1>1, ChannelTypes DEF AddWorker, Connect, HandleWorkerClose, DisconnectTimer, workerVars,
     channelVars
<1>4. \/ toServer'[w] = toServer[w] \/ toServer'[w] = <<>>
      \/ \E m \in ToolsMsgs : toServer'[w] = <<m>>
  <2>1. CASE AddWorker(w)
    <3>1. installed[Host[w]] \in SUBSET Tools
      BY <1>1, WorkerAssumption DEF TypeInv, TypeOK, WorkerTypeOK
    <3>2. [type |-> "tools", installed |-> installed[Host[w]]] \in ToolsMsgs
      BY <3>1 DEF ToolsMsgs
    <3>3. QED
      BY <1>1, <2>1, <3>2, ChannelTypes DEF AddWorker, Connect
  <2>2. CASE HandleWorkerClose(w)
    BY <1>1, <2>2, ChannelTypes DEF HandleWorkerClose
  <2>3. CASE DisconnectTimer(w)
    BY <2>3 DEF DisconnectTimer, workerVars, channelVars
  <2>4. QED
    BY <2>1, <2>2, <2>3
<1>5. /\ Cardinality(Readies(toServer'[w])) <= Cardinality(Readies(toServer[w]))
      /\ AnnouncedOnce(toServer'[w])
      /\ Announces(toServer'[w]) # {} => Announces(toServer[w]) # {}
  <2>1. Cardinality(Readies(toServer[w])) \in Nat
    BY <1>1, CommitmentType
  <2>2. CASE toServer'[w] = toServer[w]
    BY <1>1, <2>1, <2>2 DEF FlowOf
  <2>3. CASE toServer'[w] = <<>>
    BY <2>1, <2>3, EmptyKinds DEF AnnouncedOnce
  <2>4. ASSUME NEW m \in ToolsMsgs, toServer'[w] = <<m>>
        PROVE  /\ Cardinality(Readies(toServer'[w])) = 0 /\ Announces(toServer'[w]) = {}
    <3>1. m.type = "tools"
      BY DEF ToolsMsgs
    <3>2. QED
      BY <2>4, <3>1, EmptyKinds
  <2>5. QED
    BY <1>4, <2>1, <2>2, <2>3, <2>4 DEF AnnouncedOnce
<1>6. FlowOf(w)'
  <2>1. credits'[w] <= credits[w]
    BY <1>1, <1>2
  <2>2. QED
    BY <1>1, <1>5, <2>1, FlowShrinks
<1>7. ASSUME NEW v \in Workers, v # w PROVE FlowOf(v)'
  BY <1>1, <1>2, <1>3, <1>7, FlowUntouched DEF FlowInv
<1>8. QED
  BY <1>6, <1>7 DEF FlowInv

(* Steps that leave flow control alone.                                    *)
LEMMA FlowAllUntouched ==
  ASSUME FlowInv, TypeInv',
         UNCHANGED <<credits, active, toWorker, backlog, announced, toServer>>
  PROVE  FlowInv'
BY FlowUntouched DEF FlowInv

LEMMA NextFlow ==
  ASSUME FlowInv, [Next]_vars
  PROVE  FlowInv'
<1>0. TypeInv /\ TypeInv'
  BY NextType DEF FlowInv
<1>1. CASE UNCHANGED vars \/ \E e \in Execs : UnregisterTaskTemplate(e)
  BY <1>0, <1>1, FlowAllUntouched DEF vars, workerVars, channelVars, handlerVars, serverVars,
       bookVars, UnregisterTaskTemplate
<1>2. CASE CreateExecution \/ EndPass \/ TakeNext \/ NoEligibleWorker \/ SendRefused \/ LookupFails
  BY <1>0, <1>2, FlowAllUntouched DEF CreateExecution, EndPass, TakeNext, NoEligibleWorker,
       SendRefused, LookupFails, workerVars, channelVars, handlerVars, bookVars
<1>3. ASSUME NEW w \in Workers, ChooseWorker(w) \/ DisconnectWorker(w) PROVE FlowInv'
  BY <1>0, <1>3, FlowAllUntouched DEF ChooseWorker, DisconnectWorker, channelVars, handlerVars,
       bookVars
<1>4. CASE SendTask
  BY <1>0, <1>4, SendTaskFlow
<1>5. ASSUME NEW w \in Workers, AddWorker(w) \/ HandleWorkerClose(w) \/ DisconnectTimer(w)
      PROVE FlowInv'
  BY <1>0, <1>5, ServerSideFlow
<1>6. ASSUME NEW w \in Workers, MessageHandler(w) PROVE FlowInv'
  <2>1. CASE HandleFlowControl(w)
    <3>1. PICK type \in {"announce", "ready", "busy"} : Consume(w, type)
      BY <2>1 DEF HandleFlowControl
    <3>2. /\ UNCHANGED <<active, backlog, announced, toWorker>>
          /\ \A v \in Workers : v # w => credits'[v] = credits[v]
      BY <1>0, <2>1 DEF HandleFlowControl, handlerVars, TypeInv, TypeOK, DispatchTypeOK
    <3>3. QED
      BY <1>0, <2>1, <3>1, <3>2, ConsumeFlow
  <2>2. CASE HandleToolsList(w) \/ HandleResult(w) \/ DeferLargeResult(w)
    <3>1. \E type \in {"tools", "result"} : Consume(w, type)
      BY <2>2 DEF HandleToolsList, HandleResult, DeferLargeResult
    <3>2. UNCHANGED <<active, backlog, announced, toWorker, credits>>
      BY <2>2 DEF HandleToolsList, HandleResult, DeferLargeResult, ApplyResult, handlerVars,
         bookVars
    <3>3. QED
      BY <1>0, <3>1, <3>2, ConsumeFlow
  <2>3. QED
    BY <1>6, <2>1, <2>2 DEF MessageHandler
<1>7. ASSUME NEW r \in deferred, HandleDeferred(r) PROVE FlowInv'
  BY <1>0, <1>7, FlowAllUntouched DEF HandleDeferred, ApplyResult, handlerVars
<1>8. ASSUME NEW w \in Workers, WorkerStep(w), UNCHANGED serverVars PROVE FlowInv'
  BY <1>0, <1>8, AnnounceFlow, ReceiveStartFlow, FinishFlow, ConnectionLostFlow
  DEF WorkerStep, ReceiveShutdown, Crash
<1>9. QED
  BY <1>1, <1>2, <1>3, <1>4, <1>5, <1>6, <1>7, <1>8 DEF Next, Assigner

(* A start never finds the worker full, whatever breaks, reconnects or is  *)
(* disconnected: worker:busy and the local backlog are never needed.       *)
THEOREM CapacityAlwaysRespected == Spec => []CapacityRespected
<1>1. Init => FlowInv
  <2> SUFFICES ASSUME Init PROVE FlowInv
    OBVIOUS
  <2>1. ASSUME NEW w \in Workers PROVE FlowOf(w)
    <3>1. /\ credits[w] = 0 /\ active[w] = {} /\ toWorker[w] = {} /\ backlog[w] = <<>>
          /\ toServer[w] = <<>> /\ ~announced[w]
      BY DEF Init, WorkerInit
    <3>2. ReadyCount(w) = 0 /\ Announces(toServer[w]) = {}
      <4>1. ReadyCount(w) = Cardinality(Readies(toServer[w]))
        BY DEF ReadyCount, Readies
      <4>2. QED
        BY <3>1, <4>1, EmptyKinds
    <3>3. Commitment(w) = 0
      <4>1. Cardinality({}) = 0 /\ Len(<<>>) = 0
        BY FS_EmptySet
      <4>2. QED
        BY <3>1, <3>2, <4>1 DEF Commitment, Load
    <3>4. 0 <= SmallerOf(ServerMax, WorkerMax)
      BY WorkerAssumption, DispatchAssumption DEF SmallerOf
    <3>5. QED
      BY <3>1, <3>2, <3>3, <3>4 DEF FlowOf, AnnouncedOnce
  <2>2. QED
    BY <2>1, InitType DEF FlowInv
<1>2. FlowInv /\ [Next]_vars => FlowInv'
  BY NextFlow
<1>3. FlowInv => CapacityRespected
  BY DEF FlowInv, FlowOf, CapacityRespected
<1>4. QED
  BY <1>1, <1>2, <1>3, PTL DEF Spec

(***************************************************************************)
(* Nothing is lost silently: what runs on an open connection by the        *)
(* registry is somewhere on that connection.  A process that dies takes    *)
(* the scripts of all its connections along, but only one of them is open. *)
(***************************************************************************)
OneOpen ==
  \A v, w \in Workers :
    conn[v] = "open" /\ conn[w] = "open" /\ Host[v] = Host[w] => v = w

Lossless(w) == conn[w] = "open" => RunningOn(w) \subseteq Sent(w)

LossInv == CurrentInv /\ OneOpen /\ \A w \in Workers : Lossless(w)

(* A step that takes nothing away from a connection.                       *)
LEMMA LosslessKept ==
  ASSUME NEW v \in Workers, Lossless(v), conn'[v] = "open" => conn[v] = "open",
         conn'[v] = "open" => RunningOn(v)' \subseteq RunningOn(v) /\ Sent(v) \subseteq Sent(v)'
  PROVE  Lossless(v)'
BY DEF Lossless

(* The places a step can move an execution between.                        *)
LEMMA SentGrows ==
  ASSUME NEW v \in Workers,
         toWorker[v] \subseteq toWorker'[v], active[v] \subseteq active'[v],
         backlog'[v] = backlog[v],
         ResultsIn(toServer[v]) \subseteq ResultsIn(toServer'[v]),
         DeferredAt(v) \subseteq DeferredAt(v)'
  PROVE  Sent(v) \subseteq Sent(v)'
BY DEF Sent, Held, Reported

LEMMA SentSame ==
  ASSUME NEW v \in Workers, toWorker'[v] = toWorker[v], active'[v] = active[v],
         backlog'[v] = backlog[v], toServer'[v] = toServer[v],
         DeferredAt(v)' = DeferredAt(v)
  PROVE  Sent(v) \subseteq Sent(v)'
BY DEF Sent, Held, Reported

(* Taking the first message loses no other result.                         *)
LEMMA TailKeepsResults ==
  ASSUME NEW q \in Seq(Msgs), q # <<>>
  PROVE  \A e \in ResultsIn(q) :
           e \in ResultsIn(Tail(q)) \/ (Head(q).type = "result" /\ Head(q).exec = e)
<1> DEFINE t == Tail(q)
<1>1. /\ DOMAIN q = 1..Len(q) /\ Len(q) \in Nat /\ Len(q) > 0
      /\ DOMAIN t = 1..(Len(q) - 1)
      /\ Head(q) = q[1]
      /\ \A i \in 1..(Len(q) - 1) : t[i] = q[i + 1]
  OBVIOUS
<1>2. \A i \in DOMAIN q : i = 1 \/ (i - 1 \in DOMAIN t /\ t[i - 1] = q[i])
  BY <1>1
<1> HIDE DEF t
<1>3. ASSUME NEW e \in ResultsIn(q)
      PROVE  e \in ResultsIn(t) \/ (Head(q).type = "result" /\ Head(q).exec = e)
  <2>1. PICK i \in DOMAIN q : q[i].type = "result" /\ q[i].exec = e
    BY <1>3, Zenon DEF ResultsIn
  <2>2. CASE i = 1
    BY <1>1, <2>1, <2>2
  <2>3. CASE i - 1 \in DOMAIN t /\ t[i - 1] = q[i]
    BY <2>1, <2>3, Zenon DEF ResultsIn
  <2>4. QED
    BY <1>2, <2>2, <2>3
<1>4. QED
  BY <1>3 DEF t

(* Appending loses none either.                                            *)
LEMMA AppendKeepsResults ==
  ASSUME NEW q \in Seq(Msgs), NEW p \in Seq(Msgs), NEW r, r = q \/ r = q \o p
  PROVE  ResultsIn(q) \subseteq ResultsIn(r)
<1>1. ResultsIn(q \o p) = ResultsIn(q) \cup ResultsIn(p)
  BY ConcatResults
<1>2. CASE r = q
  BY <1>2
<1>3. CASE r = q \o p
  BY <1>1, <1>3
<1>4. QED
  BY <1>2, <1>3

(* The worker's steps.                                                     *)
LEMMA WorkerStepLoss ==
  ASSUME LossInv, CurrentInv', NEW w \in Workers, WorkerStep(w), UNCHANGED serverVars
  PROVE  LossInv'
<1>0. /\ UNCHANGED <<status, owner, deferred>> /\ TypeInv /\ OneOpen
      /\ \A v \in Workers : Lossless(v) /\ backlog[v] \in Seq(Execs) /\ toServer[v] \in Seq(Msgs)
  BY ChannelTypes DEF serverVars, execVars, LossInv, CurrentInv, RefinementInv, QueueInv
<1>1. \A v \in Workers : RunningOn(v)' = RunningOn(v) /\ DeferredAt(v)' = DeferredAt(v)
  BY <1>0 DEF RunningOn, DeferredAt
<1>2. OneOpen'
  <2>1. \A v \in Workers : conn'[v] = "open" => conn[v] = "open"
    BY <1>0, ChannelTypes DEF WorkerStep, Announce, ReceiveStart, FinishSome, Finish,
       ReceiveShutdown, Crash, Break, Exit
  <2>2. QED
    BY <1>0, <2>1 DEF OneOpen
<1>3. CASE Announce(w)
  <2>1. UNCHANGED <<conn, toWorker, active, backlog>> /\ SendMessages(w, <<AnnounceMsg>>)
    BY <1>3 DEF Announce
  <2>2. <<AnnounceMsg>> \in Seq(Msgs)
    BY DEF Msgs
  <2>3. ASSUME NEW v \in Workers PROVE Lossless(v)'
    <3>1. toServer'[v] = toServer[v] \/ toServer'[v] = toServer[v] \o <<AnnounceMsg>>
      BY <1>0, <2>1, SendShape
    <3>2. ResultsIn(toServer[v]) \subseteq ResultsIn(toServer'[v])
      BY <1>0, <2>2, <3>1, AppendKeepsResults
    <3>3. Sent(v) \subseteq Sent(v)'
      BY <1>1, <2>1, <3>2, SentGrows
    <3>4. QED
      BY <1>0, <1>1, <2>1, <3>3, LosslessKept
  <2>4. QED
    BY <1>2, <2>3 DEF LossInv
<1>4. ASSUME NEW e \in Execs, ReceiveStart(w, e) PROVE LossInv'
  <2>1. /\ conn' = conn /\ e \in toWorker[w]
        /\ \A v \in Workers : v # w => /\ toWorker'[v] = toWorker[v] /\ active'[v] = active[v]
                                       /\ backlog'[v] = backlog[v]
        /\ toWorker'[w] = toWorker[w] \ {e}
    BY <1>0, <1>4, ChannelTypes DEF ReceiveStart
  <2>2. \A v \in Workers : \/ toServer'[v] = toServer[v]
                           \/ toServer'[v] = toServer[v] \o <<BusyMsg>>
    BY <1>0, <1>4, SendShape DEF ReceiveStart
  <2>3. <<BusyMsg>> \in Seq(Msgs)
    BY DEF Msgs
  <2>4. \A v \in Workers : ResultsIn(toServer[v]) \subseteq ResultsIn(toServer'[v])
    BY <1>0, <2>2, <2>3, AppendKeepsResults
  <2>5. Held(w) \subseteq Held(w)'
    <3>1. CASE Cardinality(active[w]) >= WorkerMax
      <4>1. active'[w] = active[w] /\ backlog'[w] = Append(backlog[w], e)
        BY <1>0, <1>4, <3>1, ChannelTypes DEF ReceiveStart
      <4>2. ElemsOf(backlog'[w]) = ElemsOf(backlog[w]) \cup {e}
        BY <1>0, <4>1, AppendElems
      <4>3. QED
        BY <2>1, <4>1, <4>2 DEF Held
    <3>2. CASE ~(Cardinality(active[w]) >= WorkerMax)
      <4>1. active'[w] = active[w] \cup {e} /\ backlog'[w] = backlog[w]
        BY <1>0, <1>4, <3>2, ChannelTypes DEF ReceiveStart
      <4>2. QED
        BY <2>1, <4>1 DEF Held
    <3>3. QED
      BY <3>1, <3>2
  <2>6. ASSUME NEW v \in Workers PROVE Sent(v) \subseteq Sent(v)'
    <3>1. CASE v = w
      BY <1>1, <2>4, <2>5, <3>1 DEF Sent, Reported
    <3>2. CASE v # w
      BY <1>1, <2>1, <2>4, <3>2, SentGrows
    <3>3. QED
      BY <3>1, <3>2
  <2>7. QED
    BY <1>0, <1>1, <1>2, <2>1, <2>6, LosslessKept DEF LossInv
<1>5. ASSUME NEW e \in Execs, FinishSome(w, e) PROVE LossInv'
  <2>0. PICK ok \in BOOLEAN, large \in BOOLEAN, got \in SUBSET install[e] :
          Finish(w, e, ok, large, got)
    BY <1>5 DEF FinishSome
  <2> DEFINE q == backlog[w]
             rest == IF q = <<>> THEN <<>> ELSE Tail(q)
             drained == IF q = <<>> THEN {} ELSE {Head(q)}
             running == (active[w] \ {e}) \cup drained
             result == [type |-> "result", exec |-> e, ok |-> ok, large |-> large]
             msgs == IF rest = <<>> /\ Cardinality(running) < WorkerMax
                     THEN <<result, ReadyMsg>> ELSE <<result>>
  <2>1. /\ active' = [active EXCEPT ![w] = running] /\ UNCHANGED <<conn, toWorker>>
        /\ backlog' = [backlog EXCEPT ![w] = rest] /\ SendMessages(w, msgs)
    BY <2>0 DEF Finish
  <2>2. ElemsOf(q) = drained \cup ElemsOf(rest)
    <3>1. CASE q = <<>>
      BY <3>1 DEF ElemsOf
    <3>2. CASE q # <<>>
      <4>1. OnePlace(w)
        BY DEF LossInv, CurrentInv, RefinementInv, SentInv
      <4>2. QED
        BY <1>0, <3>2, <4>1, TailElems DEF OnePlace
    <3>3. QED
      BY <3>1, <3>2
  <2>3. active'[w] = running /\ backlog'[w] = rest
    BY <1>0, <2>1, ChannelTypes
  <2>4. msgs \in Seq(Msgs) /\ ResultsIn(msgs) = {e}
    <3>1. result \in Msgs /\ ReadyMsg \in Msgs
      BY DEF Msgs, ResultMsgs
    <3>2. result.type = "result" /\ result.exec = e /\ ReadyMsg.type # "result"
      BY DEF ReadyMsg
    <3>3. <<result>> \in Seq(Msgs) /\ <<result, ReadyMsg>> \in Seq(Msgs)
      BY <3>1
    <3> HIDE DEF result, rest, running
    <3>4. QED
      BY <3>2, <3>3, ShortResults
  <2> HIDE DEF q, rest, drained, msgs
  <2>5. ASSUME conn[w] = "open" PROVE Sent(w) \subseteq Sent(w)'
    <3>1. toServer'[w] = toServer[w] \o msgs
      BY <1>0, <2>1, <2>5, ChannelTypes DEF SendMessages
    <3>2. ResultsIn(toServer'[w]) = ResultsIn(toServer[w]) \cup {e}
      BY <1>0, <2>4, <3>1, ConcatResults
    <3>3. toWorker'[w] = toWorker[w] /\ ElemsOf(backlog[w]) = drained \cup ElemsOf(backlog'[w])
      BY <2>1, <2>2, <2>3 DEF q
    <3>4. active'[w] = (active[w] \ {e}) \cup drained
      BY <2>3
    <3>5. QED
      BY <1>1, <3>2, <3>3, <3>4 DEF Sent, Held, Reported
  <2>6. ASSUME NEW v \in Workers, v # w PROVE Sent(v) \subseteq Sent(v)'
    <3>1. active'[v] = active[v] /\ backlog'[v] = backlog[v] /\ toServer'[v] = toServer[v]
      BY <1>0, <2>1, <2>6, SendShape, ChannelTypes
    <3>2. QED
      BY <1>1, <2>1, <3>1, SentSame
  <2>7. QED
    BY <1>0, <1>1, <1>2, <2>1, <2>5, <2>6, LosslessKept DEF LossInv
<1>6. CASE Exit(w) \/ Break(w)
  <2>1. ASSUME NEW v \in Workers, v # w, conn'[v] = "open" PROVE Lossless(v)'
    <3>1. conn[w] = "open" /\ conn[v] = "open"
      BY <1>0, <1>6, <2>1, ChannelTypes DEF Exit, Break
    <3>2. Host[v] # Host[w]
      BY <1>0, <2>1, <3>1 DEF OneOpen
    <3>3. /\ toWorker'[v] = toWorker[v] /\ active'[v] = active[v]
          /\ backlog'[v] = backlog[v] /\ toServer'[v] = toServer[v]
      BY <1>0, <1>6, <2>1, <3>2, ChannelTypes DEF Exit, Break, handlerVars
    <3>4. QED
      BY <1>0, <1>1, <3>1, <3>3, SentSame, LosslessKept
  <2>2. conn'[w] = "broken"
    BY <1>0, <1>6, ChannelTypes DEF Exit, Break
  <2>3. QED
    BY <1>2, <2>1, <2>2 DEF LossInv, Lossless
<1>7. QED
  BY <1>3, <1>4, <1>5, <1>6 DEF WorkerStep, ReceiveShutdown, Crash

(* The server's messages: a result taken ends its execution, or comes from *)
(* a worker that does not run it.                                          *)
LEMMA ApplyLoss ==
  ASSUME LossInv, CurrentInv', NEW w \in Workers, NEW e \in Execs, NEW ok \in BOOLEAN,
         ApplyResult(w, e, ok),
         \A v \in Workers : Sent(v) \ (IF v = w THEN {e} ELSE {}) \subseteq Sent(v)'
  PROVE  LossInv'
<1>1. /\ UNCHANGED <<conn, owner>> /\ TypeInv /\ OneOpen
      /\ \A v \in Workers : Lossless(v)
  BY DEF ApplyResult, LossInv, CurrentInv, RefinementInv, QueueInv
<1>2. \A f \in Execs : f # e \/ owner[e] # w => status'[f] = status[f]
  BY <1>1, ChannelTypes DEF ApplyResult, Accepted
<1>3. owner[e] = w => status'[e] # "running"
  BY <1>1, ChannelTypes DEF ApplyResult, Accepted
<1>4. ASSUME NEW v \in Workers
      PROVE  RunningOn(v)' \subseteq RunningOn(v) \ (IF v = w THEN {e} ELSE {})
  BY <1>1, <1>2, <1>3 DEF RunningOn
<1>5. ASSUME NEW v \in Workers PROVE Lossless(v)'
  BY <1>1, <1>4 DEF Lossless
<1>6. QED
  BY <1>1, <1>5 DEF LossInv, OneOpen

(* Taking the head of a channel.                                           *)
LEMMA ConsumeLoss ==
  ASSUME TypeInv, NEW w \in Workers, NEW type, Consume(w, type),
         UNCHANGED <<toWorker, active, backlog>>,
         \A v \in Workers : DeferredAt(v) \subseteq DeferredAt(v)'
  PROVE  /\ \A v \in Workers : v # w => Sent(v) \subseteq Sent(v)'
         /\ \A e \in Sent(w) : \/ e \in Sent(w)'
                               \/ type = "result" /\ e = Head(toServer[w]).exec
<1>1. /\ \A v \in Workers : v # w => toServer'[v] = toServer[v]
      /\ toServer'[w] = Tail(toServer[w]) /\ toServer[w] # <<>> /\ toServer[w] \in Seq(Msgs)
      /\ Head(toServer[w]).type = type
  BY ConsumeShape DEF Consume
<1>2. \A v \in Workers : v # w => Sent(v) \subseteq Sent(v)'
  BY <1>1, SentGrows
<1>3. \A e \in ResultsIn(toServer[w]) :
        e \in ResultsIn(toServer'[w]) \/ (type = "result" /\ e = Head(toServer[w]).exec)
  BY <1>1, TailKeepsResults
<1>4. QED
  BY <1>2, <1>3 DEF Sent, Held, Reported

(* A step of the server that changes no channel, no worker and no socket,  *)
(* and starts nothing.                                                     *)
LEMMA LossUntouched ==
  ASSUME LossInv, CurrentInv',
         UNCHANGED <<conn, toWorker, active, backlog, toServer, deferred>>,
         \A v \in Workers : RunningOn(v)' \subseteq RunningOn(v)
  PROVE  LossInv'
<1>1. \A v \in Workers : DeferredAt(v)' = DeferredAt(v)
  BY DEF DeferredAt
<1>2. ASSUME NEW v \in Workers PROVE Lossless(v)'
  BY <1>1, SentSame, LosslessKept DEF LossInv
<1>3. QED
  BY <1>2 DEF LossInv, OneOpen

(* Every step keeps it.                                                    *)
LEMMA NextLoss ==
  ASSUME LossInv, [Next]_vars
  PROVE  LossInv'
<1>0. /\ CurrentInv /\ CurrentInv' /\ TypeInv /\ TypeInv' /\ OneOpen
      /\ \A v \in Workers : Lossless(v) /\ CurrentOf(v)
  BY NextCurrent DEF LossInv, CurrentInv, RefinementInv, QueueInv
<1>1. CASE UNCHANGED vars \/ \E e \in Execs : UnregisterTaskTemplate(e)
  <2>1. \A v \in Workers : RunningOn(v)' = RunningOn(v)
    BY <1>1 DEF RunningOn, vars, serverVars, execVars, UnregisterTaskTemplate
  <2>2. QED
    BY <1>0, <1>1, <2>1, LossUntouched DEF vars, workerVars, channelVars, handlerVars, serverVars,
       execVars, UnregisterTaskTemplate
<1>2. CASE CreateExecution
  <2>1. /\ status' = [status EXCEPT ![nextId] = "pending"] /\ owner' = owner
        /\ UNCHANGED <<conn, toWorker, active, backlog, toServer, deferred>>
    BY <1>2 DEF CreateExecution, workerVars, channelVars, handlerVars
  <2>2. \A v \in Workers : RunningOn(v)' \subseteq RunningOn(v)
    BY <1>0, <2>1, ChannelTypes DEF RunningOn
  <2>3. QED
    BY <1>0, <2>1, <2>2, LossUntouched
<1>3. CASE EndPass \/ TakeNext \/ NoEligibleWorker \/ SendRefused \/ LookupFails
  <2>1. UNCHANGED <<conn, toWorker, active, backlog, toServer, deferred, status, owner>>
    BY <1>3 DEF EndPass, TakeNext, NoEligibleWorker, SendRefused, LookupFails, workerVars,
       channelVars, handlerVars, execVars
  <2>2. \A v \in Workers : RunningOn(v)' = RunningOn(v)
    BY <2>1 DEF RunningOn
  <2>3. QED
    BY <1>0, <2>1, <2>2, LossUntouched
<1>4. ASSUME NEW w \in Workers, ChooseWorker(w) \/ DisconnectWorker(w) \/ DisconnectTimer(w)
      PROVE  LossInv'
  <2>1. UNCHANGED <<conn, toWorker, active, backlog, toServer, deferred, status, owner>>
    BY <1>4 DEF ChooseWorker, DisconnectWorker, DisconnectTimer, workerVars, channelVars,
       handlerVars, execVars
  <2>2. \A v \in Workers : RunningOn(v)' = RunningOn(v)
    BY <2>1 DEF RunningOn
  <2>3. QED
    BY <1>0, <2>1, <2>2, LossUntouched
<1>5. CASE SendTask
  <2>1. /\ hand \in Execs /\ chosen \in Workers
        /\ UNCHANGED <<conn, active, backlog, toServer, deferred>>
        /\ toWorker' = IF conn[chosen] = "open"
                       THEN [toWorker EXCEPT ![chosen] = @ \cup {hand}] ELSE toWorker
        /\ status' = [status EXCEPT ![hand] = "running"]
        /\ owner' = [owner EXCEPT ![hand] = chosen]
    BY <1>0, <1>5 DEF SendTask, TypeInv, AssignerShape, handlerVars
  <2>2. /\ status'[hand] = "running" /\ owner'[hand] = chosen
        /\ \A f \in Execs : f # hand => status'[f] = status[f] /\ owner'[f] = owner[f]
    BY <1>0, <2>1, ChannelTypes
  <2>3. \A v \in Workers : DeferredAt(v)' = DeferredAt(v)
    BY <2>1 DEF DeferredAt
  <2>4. \A v \in Workers : toWorker[v] \subseteq toWorker'[v]
    BY <1>0, <2>1, ChannelTypes
  <2>5. \A v \in Workers : Sent(v) \subseteq Sent(v)'
    BY <2>1, <2>3, <2>4, SentGrows
  <2>6. ASSUME NEW v \in Workers PROVE Lossless(v)'
    <3>1. CASE v = chosen /\ conn[v] = "open"
      <4>1. hand \in toWorker'[v]
        BY <1>0, <2>1, <3>1, ChannelTypes
      <4>2. hand \in Sent(v)'
        BY <4>1 DEF Sent, Held
      <4>3. RunningOn(v)' \subseteq RunningOn(v) \cup {hand}
        BY <2>2 DEF RunningOn
      <4>4. QED
        BY <1>0, <2>1, <2>5, <4>2, <4>3 DEF Lossless
    <3>2. CASE v # chosen
      <4>1. RunningOn(v)' \subseteq RunningOn(v)
        BY <2>2, <3>2 DEF RunningOn
      <4>2. QED
        BY <1>0, <2>1, <2>5, <4>1, LosslessKept
    <3>3. CASE conn[v] # "open"
      BY <2>1, <3>3 DEF Lossless
    <3>4. QED
      BY <3>1, <3>2, <3>3
  <2>7. QED
    BY <1>0, <2>1, <2>6 DEF LossInv, OneOpen
<1>6. ASSUME NEW w \in Workers, AddWorker(w) PROVE LossInv'
  <2>1. /\ conn[w] = "new" /\ conn' = [conn EXCEPT ![w] = "open"]
        /\ \A v \in Workers : Host[v] = Host[w] => conn[v] # "open"
        /\ UNCHANGED <<toWorker, active, backlog, deferred, status, owner>>
        /\ \A v \in Workers : v # w => toServer'[v] = toServer[v]
    BY <1>0, <1>6, ChannelTypes DEF AddWorker, Connect, execVars, handlerVars
  <2>2. \A v \in Workers : v # w => conn'[v] = conn[v]
    BY <1>0, <2>1, ChannelTypes
  <2>3. OneOpen'
    BY <1>0, <2>1, <2>2 DEF OneOpen
  <2>4. \A v \in Workers : RunningOn(v)' = RunningOn(v) /\ DeferredAt(v)' = DeferredAt(v)
    BY <2>1 DEF RunningOn, DeferredAt
  <2>5. RunningOn(w) = {}
    BY <1>0, <2>1 DEF CurrentOf
  <2>6. ASSUME NEW v \in Workers, v # w PROVE Lossless(v)'
    BY <1>0, <2>1, <2>2, <2>4, <2>6, SentSame, LosslessKept
  <2>7. Lossless(w)'
    BY <2>4, <2>5 DEF Lossless
  <2>8. QED
    BY <1>0, <2>3, <2>6, <2>7 DEF LossInv
<1>7. ASSUME NEW w \in Workers, HandleWorkerClose(w) PROVE LossInv'
  <2>1. /\ conn' = [conn EXCEPT ![w] = "gone"]
        /\ UNCHANGED <<toWorker, active, backlog, deferred>>
        /\ \A v \in Workers : v # w => toServer'[v] = toServer[v]
    BY <1>0, <1>7, ChannelTypes DEF HandleWorkerClose, handlerVars
  <2>2. conn'[w] = "gone" /\ \A v \in Workers : v # w => conn'[v] = conn[v]
    BY <1>0, <2>1, ChannelTypes
  <2>3. \A v \in Workers : DeferredAt(v)' = DeferredAt(v)
    BY <2>1 DEF DeferredAt
  <2>4. \A v \in Workers : RunningOn(v)' \subseteq RunningOn(v)
    <3>1. CASE registered[w]
      <4>1. /\ status' = [e \in Execs |-> IF e \in RunningOn(w) THEN "pending" ELSE status[e]]
            /\ owner' = [e \in Execs |-> IF e \in RunningOn(w) THEN NoWorker ELSE owner[e]]
        BY <1>7, <3>1 DEF HandleWorkerClose, HandleWorkerDisconnect
      <4>2. QED
        BY <4>1 DEF RunningOn
    <3>2. CASE ~registered[w]
      <4>1. UNCHANGED <<status, owner>>
        BY <1>7, <3>2 DEF HandleWorkerClose
      <4>2. QED
        BY <4>1 DEF RunningOn
    <3>3. QED
      BY <3>1, <3>2
  <2>5. ASSUME NEW v \in Workers, v # w PROVE Lossless(v)'
    BY <1>0, <2>1, <2>2, <2>3, <2>4, <2>5, SentSame, LosslessKept
  <2>6. Lossless(w)' /\ OneOpen'
    BY <1>0, <2>2 DEF Lossless, OneOpen
  <2>7. QED
    BY <1>0, <2>5, <2>6 DEF LossInv
<1>8. ASSUME NEW w \in Workers, MessageHandler(w) PROVE LossInv'
  <2> DEFINE m == Head(toServer[w])
  <2>1. CASE HandleFlowControl(w) \/ HandleToolsList(w)
    <3>1. PICK type \in {"announce", "ready", "busy", "tools"} : Consume(w, type)
      BY <2>1 DEF HandleFlowControl, HandleToolsList
    <3>2. UNCHANGED <<conn, toWorker, active, backlog, deferred, status, owner>>
      BY <2>1 DEF HandleFlowControl, HandleToolsList, handlerVars, execVars
    <3>3. \A v \in Workers : RunningOn(v)' = RunningOn(v) /\ DeferredAt(v)' = DeferredAt(v)
      BY <3>2 DEF RunningOn, DeferredAt
    <3>4. \A v \in Workers : Sent(v) \subseteq Sent(v)'
      BY <1>0, <3>1, <3>2, <3>3, ConsumeLoss
    <3>5. QED
      BY <1>0, <3>2, <3>3, <3>4, LosslessKept DEF LossInv, OneOpen
  <2>2. CASE HandleResult(w)
    <3>1. /\ toServer[w] # <<>> /\ toServer[w] \in Seq(Msgs) /\ m.type = "result" /\ m \in Msgs
          /\ Consume(w, "result") /\ ApplyResult(w, m.exec, m.ok)
          /\ UNCHANGED <<toWorker, active, backlog, deferred>>
      BY <1>0, <2>2, ConsumeShape, ConsumeType, ChannelTypes
      DEF HandleResult, Consume, ApplyResult, handlerVars
    <3>2. m.exec \in Execs /\ m.ok \in BOOLEAN
      BY <3>1, ResultFields
    <3>3. \A v \in Workers : DeferredAt(v) \subseteq DeferredAt(v)'
      BY <3>1 DEF DeferredAt
    <3> DEFINE e == m.exec
               ok == m.ok
    <3>4. \A v \in Workers : Sent(v) \ (IF v = w THEN {e} ELSE {}) \subseteq Sent(v)'
      BY <1>0, <3>1, <3>3, ConsumeLoss
    <3>5. e \in Execs /\ ok \in BOOLEAN /\ ApplyResult(w, e, ok)
      BY <3>1, <3>2
    <3> HIDE DEF e, ok
    <3>6. QED
      BY <1>0, <3>4, <3>5, ApplyLoss
  <2>3. CASE DeferLargeResult(w)
    <3>1. /\ Consume(w, "result")
          /\ deferred' = deferred \cup {[worker |-> w, exec |-> m.exec, ok |-> m.ok]}
          /\ UNCHANGED <<conn, toWorker, active, backlog, status, owner>>
      BY <2>3 DEF DeferLargeResult, handlerVars, execVars
    <3>2. \A v \in Workers : RunningOn(v)' = RunningOn(v) /\ DeferredAt(v) \subseteq DeferredAt(v)'
      BY <3>1 DEF RunningOn, DeferredAt
    <3> DEFINE d == [worker |-> w, exec |-> m.exec, ok |-> m.ok]
    <3>3. d.worker = w /\ d.exec = m.exec
      OBVIOUS
    <3>4. d \in deferred'
      BY <3>1
    <3> HIDE DEF d
    <3>5. m.exec \in DeferredAt(w)'
      BY <3>3, <3>4 DEF DeferredAt
    <3>6. m.exec \in Sent(w)'
      BY <3>5 DEF Sent, Reported
    <3>7. \A v \in Workers : Sent(v) \subseteq Sent(v)'
      BY <1>0, <3>1, <3>2, <3>6, ConsumeLoss
    <3>8. QED
      BY <1>0, <3>1, <3>2, <3>7, LosslessKept DEF LossInv, OneOpen
  <2>4. QED
    BY <1>8, <2>1, <2>2, <2>3 DEF MessageHandler
<1>9. ASSUME NEW r \in deferred, HandleDeferred(r) PROVE LossInv'
  <2> DEFINE w == r.worker
             e == r.exec
             ok == r.ok
  <2>1. /\ w \in Workers /\ e \in Execs /\ ok \in BOOLEAN /\ ApplyResult(w, e, ok)
        /\ deferred' = deferred \ {r} /\ UNCHANGED <<toServer, toWorker, active, backlog>>
    BY <1>0, <1>9, ChannelTypes DEF HandleDeferred, ApplyResult, handlerVars
  <2>2. \A v \in Workers : DeferredAt(v) \ (IF v = w THEN {e} ELSE {}) \subseteq DeferredAt(v)'
    BY <2>1 DEF DeferredAt
  <2> HIDE DEF w, e, ok
  <2>3. \A v \in Workers : Sent(v) \ (IF v = w THEN {e} ELSE {}) \subseteq Sent(v)'
    BY <2>1, <2>2 DEF Sent, Held, Reported
  <2>4. QED
    BY <1>0, <2>1, <2>3, ApplyLoss
<1>10. ASSUME NEW w \in Workers, WorkerStep(w), UNCHANGED serverVars PROVE LossInv'
  BY <1>0, <1>10, WorkerStepLoss
<1>11. QED
  BY <1>1, <1>2, <1>3, <1>4, <1>5, <1>6, <1>7, <1>8, <1>9, <1>10 DEF Next, Assigner

(* While its connection is open, a running execution is on the wire, in a  *)
(* slot, or its result is on the way: nothing waits in the local queue,    *)
(* for flow control never fills it.                                        *)
THEOREM NothingLostSilently == Spec => []NoSilentLoss
<1>1. Init => LossInv
  <2> SUFFICES ASSUME Init PROVE LossInv
    OBVIOUS
  <2>1. CurrentInv
    <3>1. ASSUME NEW w \in Workers PROVE CurrentOf(w)
      BY DEF Init, CurrentOf, RunningOn
    <3>2. QED
      BY <3>1, InitQueue, InitSent DEF CurrentInv, RefinementInv
  <2>2. OneOpen /\ \A w \in Workers : Lossless(w)
    BY DEF Init, WorkerInit, OneOpen, Lossless
  <2>3. QED
    BY <2>1, <2>2 DEF LossInv
<1>2. LossInv /\ [Next]_vars => LossInv'
  BY NextLoss
<1>3. LossInv /\ CapacityRespected => NoSilentLoss
  <2> SUFFICES ASSUME LossInv, CapacityRespected, NEW e \in Execs, NEW w \in Workers,
                      status[e] = "running", owner[e] = w, conn[w] = "open"
               PROVE  e \in toWorker[w] \cup active[w] \cup ResultsInTransit(w)
    BY DEF NoSilentLoss
  <2>1. e \in Sent(w)
    BY DEF LossInv, Lossless, RunningOn
  <2>2. ElemsOf(backlog[w]) = {}
    BY DEF CapacityRespected, ElemsOf
  <2>3. ResultsInTransit(w) = Reported(w)
    BY DEF ResultsInTransit, Reported, ResultsIn, DeferredAt
  <2>4. QED
    BY <2>1, <2>2, <2>3 DEF Sent, Held
<1>4. Spec => []CapacityRespected
  BY CapacityAlwaysRespected
<1>5. QED
  BY <1>1, <1>2, <1>3, <1>4, PTL DEF Spec

(***************************************************************************)
(* Installations.  The choice of a worker asks which tools it has and      *)
(* which are being installed, in two places that change apart: a result    *)
(* moves tools from one to the other, a tools:list replaces one of them.   *)
(* The list is the first message of its connection, and before it is read  *)
(* nothing is given to the connection.                                     *)
(***************************************************************************)
HasTools(q) == \E i \in DOMAIN q : q[i].type = "tools"
ToolsFirst(q) == \A i \in DOMAIN q : q[i].type = "tools" => i = 1

Unread(w) == conn[w] = "new" \/ HasTools(toServer[w])
Unused(w) == credits[w] = 0 /\ w \notin DOMAIN snap /\ chosen # w /\ RunningOn(w) = {}

UnreadOf(w) ==
  /\ ToolsFirst(toServer[w])
  /\ conn[w] = "new" => toServer[w] = <<>>
  /\ Unread(w) => Unused(w)

UnreadInv == CurrentInv /\ \A w \in Workers : UnreadOf(w)

(* The tools an execution installs on w are known to be on their way, or   *)
(* there.                                                                  *)
Accounted(w, e) == install[e] \subseteq pendingInst[w] \cup tools[w]

InstallOf(w) ==
  /\ \A e, f \in RunningOn(w) : e # f => install[e] \cap install[f] = {}
  /\ registered[w] => \A e \in RunningOn(w) : Accounted(w, e)
  /\ registered[w] /\ pc = "prepare" /\ chosen = w =>
       Accounted(w, hand) /\ \A e \in RunningOn(w) : install[e] \cap install[hand] = {}

InstallInv == UnreadInv /\ \A w \in Workers : InstallOf(w)

(* A list of tools stays the first message of its channel.                 *)
LEMMA TailTools ==
  ASSUME NEW q \in Seq(Msgs), q # <<>>, ToolsFirst(q)
  PROVE  /\ ~HasTools(Tail(q)) /\ ToolsFirst(Tail(q))
         /\ HasTools(q) => Head(q).type = "tools"
         /\ Head(q).type = "tools" => HasTools(q)
<1> DEFINE t == Tail(q)
<1>1. /\ DOMAIN q = 1..Len(q) /\ Len(q) \in Nat /\ Len(q) > 0
      /\ DOMAIN t = 1..(Len(q) - 1) /\ Head(q) = q[1]
      /\ \A i \in 1..(Len(q) - 1) : t[i] = q[i + 1]
  OBVIOUS
<1>2. /\ \A i \in DOMAIN t : i + 1 \in DOMAIN q /\ i + 1 # 1 /\ t[i] = q[i + 1]
      /\ 1 \in DOMAIN q
  BY <1>1
<1> HIDE DEF t
<1>3. ~HasTools(t)
  BY <1>2 DEF HasTools, ToolsFirst
<1>4. ToolsFirst(t)
  BY <1>3 DEF HasTools, ToolsFirst
<1> QED BY <1>1, <1>2, <1>3, <1>4 DEF t, HasTools, ToolsFirst

LEMMA ConcatTools ==
  ASSUME NEW q \in Seq(Msgs), NEW r \in Seq(Msgs), ~HasTools(r), ToolsFirst(q)
  PROVE  ToolsFirst(q \o r) /\ (HasTools(q \o r) => HasTools(q))
<1> DEFINE c == q \o r
<1>1. /\ DOMAIN c = 1..(Len(q) + Len(r)) /\ DOMAIN q = 1..Len(q) /\ DOMAIN r = 1..Len(r)
      /\ Len(q) \in Nat /\ Len(r) \in Nat
      /\ \A i \in 1..(Len(q) + Len(r)) : c[i] = IF i <= Len(q) THEN q[i] ELSE r[i - Len(q)]
  OBVIOUS
<1> HIDE DEF c
<1>2. ASSUME NEW i \in DOMAIN c, c[i].type = "tools" PROVE i \in DOMAIN q /\ q[i].type = "tools"
  <2>1. CASE i <= Len(q)
    BY <1>1, <1>2, <2>1
  <2>2. CASE ~(i <= Len(q))
    <3>1. i - Len(q) \in DOMAIN r /\ c[i] = r[i - Len(q)]
      BY <1>1, <2>2
    <3> QED BY <1>2, <3>1 DEF HasTools
  <2> QED BY <2>1, <2>2
<1>3. ToolsFirst(c) /\ (HasTools(c) => HasTools(q))
  BY <1>2 DEF ToolsFirst, HasTools
<1> QED BY <1>3 DEF c

(* What a worker sends after it is open is no list of tools.               *)
LEMMA NoToolsSent ==
  /\ \A q \in {<<AnnounceMsg>>, <<BusyMsg>>, <<ReadyMsg>>} : q \in Seq(Msgs) /\ ~HasTools(q)
  /\ \A m \in ResultMsgs : /\ <<m>> \in Seq(Msgs) /\ ~HasTools(<<m>>)
                           /\ <<m, ReadyMsg>> \in Seq(Msgs) /\ ~HasTools(<<m, ReadyMsg>>)
<1>1. /\ AnnounceMsg.type # "tools" /\ BusyMsg.type # "tools" /\ ReadyMsg.type # "tools"
      /\ AnnounceMsg \in Msgs /\ BusyMsg \in Msgs /\ ReadyMsg \in Msgs
  BY DEF AnnounceMsg, BusyMsg, ReadyMsg, Msgs
<1>2. \A m \in ResultMsgs : m \in Msgs /\ m.type # "tools"
  BY DEF ResultMsgs, Msgs
<1>3. ASSUME NEW m, m \in Msgs, m.type # "tools" PROVE <<m>> \in Seq(Msgs) /\ ~HasTools(<<m>>)
  BY <1>3 DEF HasTools
<1>4. ASSUME NEW m, m \in Msgs, m.type # "tools", NEW n, n \in Msgs, n.type # "tools"
      PROVE <<m, n>> \in Seq(Msgs) /\ ~HasTools(<<m, n>>)
  <2>1. DOMAIN <<m, n>> = {1, 2} /\ <<m, n>>[1] = m /\ <<m, n>>[2] = n
    OBVIOUS
  <2> QED BY <1>4, <2>1 DEF HasTools
<1> QED BY <1>1, <1>2, <1>3, <1>4

(* A connection whose channel, credits and executions a step leaves alone, *)
(* or takes something from.                                                *)
LEMMA UnreadKept ==
  ASSUME NEW w \in Workers, UnreadOf(w),
         toServer'[w] = toServer[w], conn'[w] = "new" => conn[w] = "new",
         credits'[w] \in {credits[w], 0},
         w \in DOMAIN snap' => w \in DOMAIN snap \/ credits[w] # 0,
         chosen' = w => chosen = w \/ w \in DOMAIN snap,
         RunningOn(w)' \subseteq RunningOn(w)
  PROVE  UnreadOf(w)'
BY DEF UnreadOf, Unread, Unused

(* A connection that only its own steps change.                            *)
LEMMA UnreadAllKept ==
  ASSUME UnreadInv, CurrentInv', UNCHANGED <<toServer, credits>>,
         \A w \in Workers : conn'[w] = "new" => conn[w] = "new",
         \A w \in Workers : w \in DOMAIN snap' => w \in DOMAIN snap \/ credits[w] # 0,
         \A w \in Workers : chosen' = w => chosen = w \/ w \in DOMAIN snap,
         \A w \in Workers : RunningOn(w)' \subseteq RunningOn(w)
  PROVE  UnreadInv'
<1>1. ASSUME NEW w \in Workers PROVE UnreadOf(w)'
  BY UnreadKept DEF UnreadInv
<1> QED BY <1>1 DEF UnreadInv

LEMMA AssignKeepsChoice ==
  ASSUME NEW q, AssignNextTask(q)
  PROVE  UNCHANGED <<hand, snap, chosen>>
BY DEF AssignNextTask

(* handleWorkerResult ends at most the execution it is about.              *)
LEMMA ApplyRuns ==
  ASSUME TypeInv, NEW w \in Workers, NEW e \in Execs, NEW ok \in BOOLEAN, ApplyResult(w, e, ok)
  PROVE  \A v \in Workers : RunningOn(v)' \subseteq RunningOn(v)
<1>1. owner' = owner /\ \A f \in Execs : status'[f] = "running" => status[f] = "running"
  BY ChannelTypes DEF ApplyResult
<1> QED BY <1>1 DEF RunningOn

LEMMA NextUnread ==
  ASSUME UnreadInv, [Next]_vars
  PROVE  UnreadInv'
<1>0. /\ CurrentInv' /\ CurrentInv /\ TypeInv
      /\ \A w \in Workers : CurrentOf(w) /\ UnreadOf(w)
  BY NextCurrent DEF UnreadInv, CurrentInv, RefinementInv, QueueInv
<1>1. /\ toServer \in [Workers -> Seq(Msgs)] /\ conn \in [Workers -> {"new", "open", "broken", "gone"}]
      /\ credits \in [Workers -> Nat] /\ registered \in [Workers -> BOOLEAN]
      /\ status \in [Execs -> Statuses] /\ owner \in [Execs -> Workers \cup {NoWorker}]
      /\ NoWorker \notin Workers
  BY <1>0, DispatchAssumption DEF TypeInv, TypeOK, WorkerTypeOK, DispatchTypeOK
<1>2. CASE UNCHANGED vars \/ \E e \in Execs : UnregisterTaskTemplate(e)
  BY <1>0, <1>2, UnreadAllKept DEF vars, workerVars, channelVars, serverVars, connVars, bookVars,
       execVars, assignVars, RunningOn, UnregisterTaskTemplate
<1>3. CASE CreateExecution
  <2>1. /\ UNCHANGED <<conn, toServer, credits, owner, snap, chosen>>
        /\ status' = [status EXCEPT ![nextId] = "pending"]
    BY <1>3, AssignKeepsChoice DEF CreateExecution, workerVars, channelVars, bookVars
  <2>2. \A w \in Workers : RunningOn(w)' \subseteq RunningOn(w)
    BY <1>1, <2>1 DEF RunningOn
  <2> QED BY <1>0, <2>1, <2>2, UnreadAllKept
<1>4. CASE EndPass \/ NoEligibleWorker \/ SendRefused \/ LookupFails
  <2>1. /\ UNCHANGED <<conn, toServer, credits, owner, status>>
        /\ snap' \in {snap, NoSnap} /\ chosen' \in {chosen, NoWorker}
    BY <1>4 DEF EndPass, NoEligibleWorker, SendRefused, LookupFails, PushBack, workerVars,
         channelVars, bookVars, execVars
  <2>2. \A w \in Workers : w \in DOMAIN snap' => w \in DOMAIN snap
    BY <2>1 DEF NoSnap
  <2>3. \A w \in Workers : RunningOn(w)' \subseteq RunningOn(w)
    BY <2>1 DEF RunningOn
  <2> QED BY <1>0, <1>1, <2>1, <2>2, <2>3, UnreadAllKept
<1>5. CASE TakeNext
  <2>1. UNCHANGED <<conn, toServer, credits, owner, status, chosen>>
    BY <1>5 DEF TakeNext, workerVars, channelVars, bookVars, execVars
  <2>2. \A w \in Workers : w \in DOMAIN snap' => w \in DOMAIN snap \/ credits[w] # 0
    BY <1>1, <1>5 DEF TakeNext, WorkersWithCredit
  <2>3. \A w \in Workers : RunningOn(w)' \subseteq RunningOn(w)
    BY <2>1 DEF RunningOn
  <2> QED BY <1>0, <2>1, <2>2, <2>3, UnreadAllKept
<1>6. ASSUME NEW w \in Workers, ChooseWorker(w) PROVE UnreadInv'
  <2>1. /\ UNCHANGED <<conn, toServer, credits, owner, status>>
        /\ chosen' = w /\ w \in DOMAIN snap /\ snap' = NoSnap
    BY <1>6 DEF ChooseWorker, Eligible, Compatible, TemplateFound, channelVars, execVars
  <2>2. \A v \in Workers : v \notin DOMAIN snap'
    BY <2>1 DEF NoSnap
  <2>3. \A v \in Workers : RunningOn(v)' \subseteq RunningOn(v)
    BY <2>1 DEF RunningOn
  <2> QED BY <1>0, <2>1, <2>2, <2>3, UnreadAllKept
<1>7. CASE SendTask
  <2>1. /\ hand \in Execs /\ chosen \in Workers
        /\ UNCHANGED <<conn, toServer, snap>> /\ chosen' = NoWorker
        /\ credits' = [credits EXCEPT ![chosen] = @ - 1]
        /\ status' = [status EXCEPT ![hand] = "running"]
        /\ owner' = [owner EXCEPT ![hand] = chosen]
    BY <1>0, <1>7 DEF SendTask, TypeInv, AssignerShape
  <2>2. ASSUME NEW v \in Workers PROVE UnreadOf(v)'
    <3>1. CASE v # chosen
      <4>1. RunningOn(v)' \subseteq RunningOn(v)
        BY <1>1, <2>1, <3>1 DEF RunningOn
      <4>2. credits'[v] = credits[v]
        BY <1>1, <2>1, <3>1
      <4> QED BY <1>0, <1>1, <2>1, <4>1, <4>2, UnreadKept
    <3>2. CASE v = chosen
      <4>1. ~Unread(v)
        BY <1>0, <3>2 DEF UnreadOf, Unused
      <4>2. ~Unread(v)'
        BY <2>1, <4>1 DEF Unread
      <4> QED BY <1>0, <2>1, <4>2 DEF UnreadOf, Unread
    <3> QED BY <3>1, <3>2
  <2> QED BY <1>0, <2>2 DEF UnreadInv
<1>8. ASSUME NEW w \in Workers, AddWorker(w) PROVE UnreadInv'
  <2>1. /\ conn[w] = "new" /\ conn' = [conn EXCEPT ![w] = "open"]
        /\ \A v \in Workers : v # w => toServer'[v] = toServer[v]
        /\ UNCHANGED <<credits, status, owner, snap, chosen>>
    BY <1>1, <1>8 DEF AddWorker, Connect, bookVars, execVars, assignVars
  <2>2. \A v \in Workers : RunningOn(v)' \subseteq RunningOn(v)
    BY <2>1 DEF RunningOn
  <2>3. ASSUME NEW v \in Workers PROVE UnreadOf(v)'
    <3>1. CASE v # w
      BY <1>0, <1>1, <2>1, <2>2, <3>1, UnreadKept
    <3>2. CASE v = w
      <4>1. Unused(w)'
        BY <1>0, <2>1, <2>2 DEF UnreadOf, Unread, Unused
      <4>2. \E m : toServer'[w] \in {<<>>, <<m>>}
        BY <1>1, <1>8 DEF AddWorker, Connect
      <4>3. ToolsFirst(toServer'[w])
        BY <4>2 DEF ToolsFirst
      <4>4. conn'[w] # "new"
        BY <1>1, <2>1
      <4> QED BY <3>2, <4>1, <4>3, <4>4 DEF UnreadOf
    <3> QED BY <3>1, <3>2
  <2> QED BY <1>0, <2>3 DEF UnreadInv
<1>9. ASSUME NEW w \in Workers, HandleWorkerClose(w) PROVE UnreadInv'
  <2>1. /\ conn' = [conn EXCEPT ![w] = "gone"]
        /\ toServer' = [toServer EXCEPT ![w] = <<>>]
        /\ credits' = [credits EXCEPT ![w] = 0] \/ credits' = credits
        /\ UNCHANGED <<snap, chosen>>
    BY <1>9, AssignKeepsChoice DEF HandleWorkerClose, RemoveWorker, HandleWorkerDisconnect, assignVars
  <2>2. \A v \in Workers : RunningOn(v)' \subseteq RunningOn(v)
    <3>1. CASE registered[w]
      <4>1. /\ status' = [e \in Execs |-> IF e \in RunningOn(w) THEN "pending" ELSE status[e]]
            /\ owner' = [e \in Execs |-> IF e \in RunningOn(w) THEN NoWorker ELSE owner[e]]
        BY <1>9, <3>1 DEF HandleWorkerClose, HandleWorkerDisconnect
      <4> QED BY <1>1, <4>1 DEF RunningOn
    <3>2. CASE ~registered[w]
      BY <1>9, <3>2 DEF HandleWorkerClose, RunningOn
    <3> QED BY <1>1, <3>1, <3>2
  <2>3. ASSUME NEW v \in Workers PROVE UnreadOf(v)'
    <3>1. CASE v # w
      BY <1>0, <1>1, <2>1, <2>2, <3>1, UnreadKept
    <3>2. CASE v = w
      <4>1. toServer'[w] = <<>> /\ conn'[w] = "gone"
        BY <1>1, <2>1
      <4> QED BY <3>2, <4>1 DEF UnreadOf, Unread, HasTools, ToolsFirst
    <3> QED BY <3>1, <3>2
  <2> QED BY <1>0, <2>3 DEF UnreadInv
<1>10. ASSUME NEW w \in Workers, DisconnectWorker(w) PROVE UnreadInv'
  BY <1>0, <1>10, UnreadAllKept DEF DisconnectWorker, bookVars, execVars, assignVars, RunningOn
<1>11. ASSUME NEW w \in Workers, DisconnectTimer(w) PROVE UnreadInv'
  <2>1. /\ UNCHANGED <<conn, toServer, snap, chosen, status, owner>>
        /\ credits' = [credits EXCEPT ![w] = 0]
    BY <1>11 DEF DisconnectTimer, RemoveWorker, workerVars, channelVars, execVars, assignVars
  <2>2. ASSUME NEW v \in Workers PROVE UnreadOf(v)'
    <3>1. credits'[v] \in {credits[v], 0} /\ RunningOn(v)' \subseteq RunningOn(v)
      BY <1>1, <2>1 DEF RunningOn
    <3> QED BY <1>0, <2>1, <3>1, UnreadKept
  <2> QED BY <1>0, <2>2 DEF UnreadInv
<1>12. ASSUME NEW w \in Workers, NEW type, Consume(w, type), conn' = conn,
              UNCHANGED <<snap, chosen>>,
              \A v \in Workers : RunningOn(v)' \subseteq RunningOn(v),
              \A v \in Workers : v # w => credits'[v] = credits[v]
       PROVE  UnreadInv'
  <2>1. /\ \A v \in Workers : v # w => toServer'[v] = toServer[v]
        /\ toServer'[w] = Tail(toServer[w]) /\ toServer[w] # <<>>
    BY <1>0, <1>12, ConsumeShape
  <2>2. ASSUME NEW v \in Workers PROVE UnreadOf(v)'
    <3>1. CASE v # w
      BY <1>0, <1>12, <2>1, <3>1, UnreadKept
    <3>2. CASE v = w
      <4>1. ~HasTools(toServer'[w]) /\ ToolsFirst(toServer'[w])
        BY <1>0, <1>1, <2>1, TailTools DEF UnreadOf
      <4>2. conn'[w] # "new"
        BY <1>0, <1>12, <2>1 DEF UnreadOf
      <4> QED BY <3>2, <4>1, <4>2 DEF UnreadOf, Unread
    <3> QED BY <3>1, <3>2
  <2> QED BY <1>0, <2>2 DEF UnreadInv
<1>13. ASSUME NEW w \in Workers, MessageHandler(w) PROVE UnreadInv'
  <2>1. CASE HandleFlowControl(w)
    <3>1. PICK type : Consume(w, type)
      BY <2>1 DEF HandleFlowControl
    <3>2. /\ UNCHANGED <<conn, snap, chosen, status, owner>>
          /\ \A v \in Workers : v # w => credits'[v] = credits[v]
      BY <1>1, <2>1, AssignKeepsChoice DEF HandleFlowControl, execVars, assignVars
    <3> QED BY <1>12, <3>1, <3>2 DEF RunningOn
  <2>2. CASE HandleToolsList(w) \/ DeferLargeResult(w)
    <3>1. PICK type : Consume(w, type)
      BY <2>2 DEF HandleToolsList, DeferLargeResult
    <3>2. UNCHANGED <<conn, snap, chosen, status, owner, credits>>
      BY <2>2 DEF HandleToolsList, DeferLargeResult, execVars, assignVars, bookVars
    <3> QED BY <1>12, <3>1, <3>2 DEF RunningOn
  <2>3. CASE HandleResult(w)
    <3> DEFINE m == Head(toServer[w])
    <3>1. /\ Consume(w, "result") /\ ApplyResult(w, m.exec, m.ok)
          /\ UNCHANGED <<conn, snap, chosen, credits>>
      BY <2>3 DEF HandleResult, ApplyResult, assignVars
    <3>2. m.exec \in Execs /\ m.ok \in BOOLEAN
      BY <1>1, <3>1, ConsumeType, ResultFields DEF Consume
    <3>3. \A v \in Workers : RunningOn(v)' \subseteq RunningOn(v)
      BY <1>0, <3>1, <3>2, ApplyRuns
    <3> QED BY <1>12, <3>1, <3>3
  <2> QED BY <1>13, <2>1, <2>2, <2>3 DEF MessageHandler
<1>14. ASSUME NEW r \in deferred, HandleDeferred(r) PROVE UnreadInv'
  <2>1. r.worker \in Workers /\ r.exec \in Execs /\ r.ok \in BOOLEAN
    BY <1>0, ChannelTypes
  <2>2. /\ ApplyResult(r.worker, r.exec, r.ok)
        /\ UNCHANGED <<toServer, conn, snap, chosen, credits>>
    BY <1>14 DEF HandleDeferred, ApplyResult, assignVars
  <2>3. \A v \in Workers : RunningOn(v)' \subseteq RunningOn(v)
    BY <1>0, <2>1, <2>2, ApplyRuns
  <2> QED BY <1>0, <2>2, <2>3, UnreadAllKept
<1>15. ASSUME NEW w \in Workers, WorkerStep(w), UNCHANGED serverVars PROVE UnreadInv'
  <2>1. /\ UNCHANGED <<credits, snap, chosen, status, owner>>
        /\ \A v \in Workers : RunningOn(v)' = RunningOn(v)
    BY <1>15 DEF serverVars, bookVars, assignVars, execVars, RunningOn
  <2>2. /\ conn' = conn \/ (conn[w] = "open" /\ conn' = [conn EXCEPT ![w] = "broken"])
    BY <1>15 DEF WorkerStep, Announce, ReceiveStart, FinishSome, Finish, ReceiveShutdown, Crash,
         Break, Exit
  <2>3. \A v \in Workers : conn'[v] = "new" <=> conn[v] = "new"
    BY <1>1, <2>2
  <2>4. \/ toServer' = toServer
        \/ \E msgs \in Seq(Msgs) : ~HasTools(msgs) /\ SendMessages(w, msgs)
    <3>1. CASE Announce(w)
      BY <3>1, NoToolsSent DEF Announce
    <3>2. CASE \E e \in Execs : ReceiveStart(w, e)
      BY <3>2, NoToolsSent DEF ReceiveStart
    <3>3. ASSUME NEW e \in Execs, FinishSome(w, e)
          PROVE  \E msgs \in Seq(Msgs) : ~HasTools(msgs) /\ SendMessages(w, msgs)
      <4>1. PICK ok \in BOOLEAN, large \in BOOLEAN, got \in SUBSET install[e] : Finish(w, e, ok, large, got)
        BY <3>3 DEF FinishSome
      <4>2. PICK m, msgs : /\ m = [type |-> "result", exec |-> e, ok |-> ok, large |-> large]
                           /\ msgs \in {<<m>>, <<m, ReadyMsg>>} /\ SendMessages(w, msgs)
        BY <4>1 DEF Finish
      <4>3. m \in ResultMsgs
        BY <4>2 DEF ResultMsgs
      <4> QED BY <4>2, <4>3, NoToolsSent
    <3>4. CASE ReceiveShutdown(w) \/ Crash(w) \/ Break(w)
      BY <3>4 DEF ReceiveShutdown, Crash, Break, Exit
    <3> QED BY <1>15, <3>1, <3>2, <3>3, <3>4 DEF WorkerStep
  <2>5. CASE toServer' = toServer
    BY <1>0, <2>1, <2>3, <2>5, UnreadAllKept
  <2>6. ASSUME NEW msgs \in Seq(Msgs), ~HasTools(msgs), SendMessages(w, msgs) PROVE UnreadInv'
    <3>1. /\ \A v \in Workers : v # w => toServer'[v] = toServer[v]
          /\ toServer'[w] = toServer[w] \/ (conn[w] = "open" /\ toServer'[w] = toServer[w] \o msgs)
      BY <1>1, <2>6 DEF SendMessages
    <3>2. ASSUME NEW v \in Workers PROVE UnreadOf(v)'
      <4>1. CASE toServer'[v] = toServer[v]
        BY <1>0, <2>1, <2>3, <4>1, UnreadKept
      <4>2. CASE v = w /\ conn[w] = "open" /\ toServer'[w] = toServer[w] \o msgs
        <5>1. ToolsFirst(toServer'[w]) /\ (HasTools(toServer'[w]) => HasTools(toServer[w]))
          BY <1>0, <1>1, <2>6, <4>2, ConcatTools DEF UnreadOf
        <5>2. conn'[w] # "new"
          BY <2>3, <4>2
        <5>3. HasTools(toServer'[w]) => Unused(w)'
          BY <1>0, <2>1, <5>1 DEF UnreadOf, Unread, Unused
        <5> QED BY <4>2, <5>1, <5>2, <5>3 DEF UnreadOf, Unread
      <4> QED BY <3>1, <4>1, <4>2
    <3> QED BY <1>0, <3>2 DEF UnreadInv
  <2> QED BY <2>4, <2>5, <2>6
<1> QED BY <1>2, <1>3, <1>4, <1>5, <1>6, <1>7, <1>8, <1>9, <1>10, <1>11, <1>13, <1>14, <1>15
        DEF Next, Assigner

(* What is accounted for on w stays so when w's books lose nothing.        *)
LEMMA InstallKept ==
  ASSUME NEW w \in Workers, InstallOf(w), install' = install,
         RunningOn(w)' \subseteq RunningOn(w),
         registered'[w] =>
           /\ registered[w]
           /\ pendingInst[w] \cup tools[w] \subseteq pendingInst'[w] \cup tools'[w]
           /\ pc' = "prepare" /\ chosen' = w => pc = "prepare" /\ chosen = w /\ hand' = hand
  PROVE  InstallOf(w)'
BY DEF InstallOf, Accounted

LEMMA InstallAllKept ==
  ASSUME InstallInv, UnreadInv', UNCHANGED <<install, pendingInst, tools>>,
         \A w \in Workers : RunningOn(w)' \subseteq RunningOn(w),
         \A w \in Workers : registered'[w] => registered[w],
         pc' = "prepare" => UNCHANGED <<pc, hand, chosen>>
  PROVE  InstallInv'
<1>1. ASSUME NEW w \in Workers PROVE InstallOf(w)'
  BY InstallKept DEF InstallInv
<1> QED BY <1>1 DEF InstallInv

LEMMA ApplyInstall ==
  ASSUME InstallInv, UnreadInv', NEW w \in Workers, NEW e \in Execs, NEW ok \in BOOLEAN,
         ApplyResult(w, e, ok)
  PROVE  InstallInv'
<1>1. /\ TypeInv /\ pendingInst \in [Workers -> SUBSET Tools] /\ tools \in [Workers -> SUBSET Tools]
  BY DEF InstallInv, UnreadInv, CurrentInv, RefinementInv, QueueInv, TypeInv, TypeOK, DispatchTypeOK
<1>2. \A v \in Workers : RunningOn(v)' \subseteq RunningOn(v)
  BY <1>1, ApplyRuns
<1>3. UNCHANGED <<install, registered, pc, hand, chosen>>
  BY DEF ApplyResult, connVars, assignVars
<1>4. \A v \in Workers : registered[v] => pendingInst[v] \cup tools[v] \subseteq pendingInst'[v] \cup tools'[v]
  <2>1. CASE owner[e] = w
    <3>1. /\ pendingInst' = [pendingInst EXCEPT ![w] = pendingInst[w] \ Requires[e]]
          /\ tools' = IF registered[w] THEN [tools EXCEPT ![w] = @ \cup Requires[e]] ELSE tools
      BY <2>1 DEF ApplyResult, Accepted, StillInstalling
    <3> QED BY <1>1, <3>1
  <2>2. CASE owner[e] # w
    BY <2>2 DEF ApplyResult, Accepted
  <2> QED BY <2>1, <2>2
<1>5. ASSUME NEW v \in Workers PROVE InstallOf(v)'
  BY <1>2, <1>3, <1>4, InstallKept DEF InstallInv
<1> QED BY <1>5 DEF InstallInv

LEMMA NextInstall ==
  ASSUME InstallInv, [Next]_vars
  PROVE  InstallInv'
<1>0. /\ UnreadInv' /\ UnreadInv /\ CurrentInv /\ QueueInv /\ TypeInv
      /\ \A w \in Workers : CurrentOf(w) /\ UnreadOf(w) /\ InstallOf(w)
  BY NextUnread DEF InstallInv, UnreadInv, CurrentInv, RefinementInv, QueueInv
<1>1. /\ toServer \in [Workers -> Seq(Msgs)] /\ install \in [Execs -> SUBSET Tools]
      /\ pendingInst \in [Workers -> SUBSET Tools] /\ tools \in [Workers -> SUBSET Tools]
      /\ registered \in [Workers -> BOOLEAN] /\ pc \in {"idle", "pick", "template", "prepare"}
      /\ status \in [Execs -> Statuses] /\ owner \in [Execs -> Workers \cup {NoWorker}]
      /\ NoWorker \notin Workers
  BY <1>0, DispatchAssumption DEF TypeInv, TypeOK, WorkerTypeOK, DispatchTypeOK
<1>2. CASE UNCHANGED vars \/ \E e \in Execs : UnregisterTaskTemplate(e)
  BY <1>0, <1>2, InstallAllKept DEF vars, workerVars, serverVars, connVars, bookVars,
       execVars, assignVars, RunningOn, UnregisterTaskTemplate
<1>3. CASE CreateExecution
  <2>1. /\ UNCHANGED <<install, pendingInst, tools, registered, owner>>
        /\ status' = [status EXCEPT ![nextId] = "pending"]
        /\ pc' = "pick" \/ UNCHANGED <<pc, hand, chosen>>
    BY <1>3, AssignPc DEF CreateExecution, workerVars, connVars, bookVars
  <2>2. \A w \in Workers : RunningOn(w)' \subseteq RunningOn(w)
    BY <1>1, <2>1 DEF RunningOn
  <2> QED BY <1>0, <2>1, <2>2, InstallAllKept
<1>4. CASE EndPass \/ TakeNext \/ NoEligibleWorker \/ SendRefused \/ LookupFails
  <2>1. UNCHANGED <<install, pendingInst, tools, registered, owner, status>>
    BY <1>4 DEF EndPass, TakeNext, NoEligibleWorker, SendRefused, LookupFails, workerVars,
         connVars, bookVars, execVars
  <2>2. pc' # "prepare" \/ UNCHANGED <<pc, hand, chosen>>
    BY <1>4 DEF EndPass, TakeNext, NoEligibleWorker, SendRefused, LookupFails, PushBack
  <2> QED BY <1>0, <2>1, <2>2, InstallAllKept DEF RunningOn
<1>5. ASSUME NEW w \in Workers, ChooseWorker(w) PROVE InstallInv'
  <2> DEFINE missing == Missing(w, hand)
  <2>1. /\ hand \in Execs /\ missing \cap pendingInst[w] = {} /\ missing \cap tools[w] = {}
        /\ install' = [install EXCEPT ![hand] = missing]
        /\ pendingInst' = [pendingInst EXCEPT ![w] = @ \cup missing]
        /\ UNCHANGED <<tools, registered, owner, status, hand>> /\ chosen' = w
    BY <1>0, <1>5 DEF ChooseWorker, Eligible, Missing, TypeInv, AssignerShape, connVars, execVars
  <2>2. status[hand] # "running"
    <3>1. hand # NoExec
      BY <2>1 DEF NoExec, Execs
    <3>2. status[hand] = "pending"
      BY <1>0, <2>1, <3>1, QueueSoundParts DEF QueueInv
    <3> QED BY <3>2
  <2> HIDE DEF missing
  <2>3. \A v \in Workers : /\ RunningOn(v)' = RunningOn(v)
                           /\ \A e \in RunningOn(v) : e # hand /\ install'[e] = install[e]
    BY <1>1, <2>1, <2>2 DEF RunningOn
  <2>4. install'[hand] = missing /\ pendingInst'[w] = pendingInst[w] \cup missing
    BY <1>1, <2>1
  <2>5. ASSUME NEW v \in Workers PROVE InstallOf(v)'
    <3>1. \A e, f \in RunningOn(v)' : e # f => install'[e] \cap install'[f] = {}
      BY <1>0, <2>3 DEF InstallOf
    <3>2. pendingInst[v] \subseteq pendingInst'[v]
      BY <1>1, <2>1
    <3>3. registered'[v] => \A e \in RunningOn(v)' : install'[e] \subseteq pendingInst'[v] \cup tools'[v]
      BY <1>0, <2>1, <2>3, <3>2 DEF InstallOf, Accounted
    <3>4. registered'[v] /\ chosen' = v =>
             /\ install'[hand'] \subseteq pendingInst'[v] \cup tools'[v]
             /\ \A e \in RunningOn(v)' : install'[e] \cap install'[hand'] = {}
      <4> SUFFICES ASSUME registered[v], v = w
                   PROVE  /\ install'[hand] \subseteq pendingInst'[v] \cup tools'[v]
                          /\ \A e \in RunningOn(v)' : install'[e] \cap install'[hand] = {}
        BY <2>1
      <4>1. \A e \in RunningOn(v) : install[e] \subseteq pendingInst[w] \cup tools[w]
        BY <1>0 DEF InstallOf, Accounted
      <4> QED BY <2>1, <2>3, <2>4, <4>1
    <3> QED BY <3>1, <3>3, <3>4 DEF InstallOf, Accounted
  <2> QED BY <1>0, <2>5 DEF InstallInv
<1>6. CASE SendTask
  <2>1. /\ hand \in Execs /\ chosen \in Workers /\ registered[chosen] /\ pc = "prepare" /\ pc' = "pick"
        /\ UNCHANGED <<install, pendingInst, tools, registered>>
        /\ status' = [status EXCEPT ![hand] = "running"]
        /\ owner' = [owner EXCEPT ![hand] = chosen]
    BY <1>0, <1>6 DEF SendTask, TypeInv, AssignerShape, connVars
  <2>2. ASSUME NEW v \in Workers PROVE InstallOf(v)'
    <3>1. CASE v # chosen
      <4>1. RunningOn(v)' \subseteq RunningOn(v)
        BY <1>1, <2>1, <3>1 DEF RunningOn
      <4> QED BY <1>0, <2>1, <4>1, InstallKept
    <3>2. CASE v = chosen
      <4>1. RunningOn(v)' \subseteq RunningOn(v) \cup {hand}
        BY <1>1, <2>1, <3>2 DEF RunningOn
      <4>2. /\ Accounted(v, hand) /\ \A e \in RunningOn(v) : install[e] \cap install[hand] = {}
            /\ \A e \in RunningOn(v) : Accounted(v, e)
            /\ \A e, f \in RunningOn(v) : e # f => install[e] \cap install[f] = {}
        BY <1>0, <2>1, <3>2 DEF InstallOf
      <4>3. \A e, f \in RunningOn(v)' : e # f => install[e] \cap install[f] = {}
        BY <4>1, <4>2
      <4>4. \A e \in RunningOn(v)' : Accounted(v, e)'
        BY <2>1, <4>1, <4>2 DEF Accounted
      <4> QED BY <2>1, <4>3, <4>4 DEF InstallOf
    <3> QED BY <3>1, <3>2
  <2> QED BY <1>0, <2>2 DEF InstallInv
<1>7. ASSUME NEW w \in Workers, AddWorker(w) PROVE InstallInv'
  <2>1. /\ conn[w] = "new" /\ registered' = [registered EXCEPT ![w] = TRUE]
        /\ UNCHANGED <<install, pendingInst, tools, owner, status, pc, hand, chosen>>
    BY <1>7 DEF AddWorker, Connect, bookVars, execVars, assignVars
  <2>2. \A v \in Workers : RunningOn(v)' = RunningOn(v)
    BY <2>1 DEF RunningOn
  <2>3. ASSUME NEW v \in Workers PROVE InstallOf(v)'
    <3>1. CASE v # w
      BY <1>0, <1>1, <2>1, <2>2, <3>1, InstallKept
    <3>2. CASE v = w
      <4>1. RunningOn(v)' = {} /\ chosen' # v
        BY <1>0, <2>1, <2>2, <3>2 DEF UnreadOf, Unread, Unused
      <4> QED BY <4>1 DEF InstallOf
    <3> QED BY <3>1, <3>2
  <2> QED BY <1>0, <2>3 DEF InstallInv
<1>8. ASSUME NEW w \in Workers, HandleWorkerClose(w) PROVE InstallInv'
  <2>1. /\ UNCHANGED <<install, tools>> /\ (pc' = "pick" \/ UNCHANGED <<pc, hand, chosen>>)
    BY <1>8, AssignPc DEF HandleWorkerClose, HandleWorkerDisconnect, assignVars
  <2>2. CASE ~registered[w]
    BY <1>0, <1>8, <2>1, <2>2, InstallAllKept DEF HandleWorkerClose, RunningOn
  <2>3. CASE registered[w]
    <3>1. /\ registered' = [registered EXCEPT ![w] = FALSE]
          /\ pendingInst' = [pendingInst EXCEPT ![w] = {}]
          /\ status' = [e \in Execs |-> IF e \in RunningOn(w) THEN "pending" ELSE status[e]]
          /\ owner' = [e \in Execs |-> IF e \in RunningOn(w) THEN NoWorker ELSE owner[e]]
      BY <1>8, <2>3 DEF HandleWorkerClose, RemoveWorker, HandleWorkerDisconnect
    <3>2. ASSUME NEW v \in Workers PROVE InstallOf(v)'
      <4>1. RunningOn(v)' \subseteq RunningOn(v)
        BY <1>1, <3>1 DEF RunningOn
      <4>2. registered'[v] => registered[v] /\ pendingInst'[v] = pendingInst[v]
        BY <1>1, <3>1
      <4> QED BY <1>0, <2>1, <4>1, <4>2, InstallKept
    <3> QED BY <1>0, <3>2 DEF InstallInv
  <2> QED BY <1>1, <2>2, <2>3
<1>9. ASSUME NEW w \in Workers, DisconnectWorker(w) \/ DisconnectTimer(w) PROVE InstallInv'
  <2>1. UNCHANGED <<install, pendingInst, tools, status, owner, pc, hand, chosen>>
    BY <1>9 DEF DisconnectWorker, DisconnectTimer, workerVars, bookVars, execVars, assignVars
  <2>2. \A v \in Workers : registered'[v] => registered[v]
    BY <1>1, <1>9 DEF DisconnectWorker, DisconnectTimer, RemoveWorker
  <2> QED BY <1>0, <2>1, <2>2, InstallAllKept DEF RunningOn
<1>10. ASSUME NEW w \in Workers, MessageHandler(w) PROVE InstallInv'
  <2>1. CASE HandleFlowControl(w)
    <3>1. /\ UNCHANGED <<install, pendingInst, tools, registered, status, owner>>
          /\ pc' = "pick" \/ UNCHANGED <<pc, hand, chosen>>
      BY <2>1, AssignPc DEF HandleFlowControl, connVars, execVars, assignVars
    <3> QED BY <1>0, <3>1, InstallAllKept DEF RunningOn
  <2>2. CASE DeferLargeResult(w)
    <3>1. UNCHANGED <<install, pendingInst, tools, registered, status, owner, pc, hand, chosen>>
      BY <2>2 DEF DeferLargeResult, connVars, bookVars, execVars, assignVars
    <3> QED BY <1>0, <3>1, InstallAllKept DEF RunningOn
  <2>3. CASE HandleToolsList(w)
    <3>1. /\ UNCHANGED <<install, pendingInst, registered, status, owner, pc, hand, chosen>>
          /\ \A v \in Workers : v # w => tools'[v] = tools[v]
      BY <1>1, <2>3 DEF HandleToolsList, connVars, execVars, assignVars
    <3>2. \A v \in Workers : RunningOn(v)' = RunningOn(v)
      BY <3>1 DEF RunningOn
    <3>3. Unread(w)
      <4>1. toServer[w] # <<>> /\ Head(toServer[w]).type = "tools" /\ toServer[w] \in Seq(Msgs)
        BY <1>1, <2>3 DEF HandleToolsList, Consume
      <4> QED BY <1>0, <4>1, TailTools DEF UnreadOf, Unread
    <3>4. ASSUME NEW v \in Workers PROVE InstallOf(v)'
      <4>1. CASE v # w
        BY <1>0, <3>1, <3>2, <4>1, InstallKept
      <4>2. CASE v = w
        <5>1. RunningOn(v)' = {} /\ chosen' # v
          BY <1>0, <3>1, <3>2, <3>3, <4>2 DEF UnreadOf, Unused
        <5> QED BY <5>1 DEF InstallOf
      <4> QED BY <4>1, <4>2
    <3> QED BY <1>0, <3>4 DEF InstallInv
  <2>4. CASE HandleResult(w)
    <3> DEFINE m == Head(toServer[w])
    <3>1. Consume(w, "result") /\ ApplyResult(w, m.exec, m.ok)
      BY <2>4 DEF HandleResult
    <3>2. m.exec \in Execs /\ m.ok \in BOOLEAN
      BY <1>1, <3>1, ConsumeType, ResultFields DEF Consume
    <3> QED BY <1>0, <3>1, <3>2, ApplyInstall
  <2> QED BY <1>10, <2>1, <2>2, <2>3, <2>4 DEF MessageHandler
<1>11. ASSUME NEW r \in deferred, HandleDeferred(r) PROVE InstallInv'
  <2>1. r.worker \in Workers /\ r.exec \in Execs /\ r.ok \in BOOLEAN
    BY <1>0, ChannelTypes
  <2>2. ApplyResult(r.worker, r.exec, r.ok)
    BY <1>11 DEF HandleDeferred
  <2> QED BY <1>0, <2>1, <2>2, ApplyInstall
<1>12. ASSUME NEW w \in Workers, WorkerStep(w), UNCHANGED serverVars PROVE InstallInv'
  <2>1. install' = install
    BY <1>12 DEF WorkerStep, Announce, ReceiveStart, FinishSome, Finish, ReceiveShutdown, Crash,
         Break, Exit
  <2> QED BY <1>0, <1>12, <2>1, InstallAllKept DEF serverVars, connVars, bookVars, execVars,
            assignVars, RunningOn
<1> QED BY <1>2, <1>3, <1>4, <1>5, <1>6, <1>7, <1>8, <1>9, <1>10, <1>11, <1>12 DEF Next, Assigner

(* In every behaviour: two executions that run on one worker never both    *)
(* install a tool (NoDuplicateInstall), whatever results, lists of tools   *)
(* and disconnections come between the choice of a worker and the send.    *)
THEOREM NothingInstalledTwice == Spec => []NoDuplicateInstall
<1>1. Init => InstallInv
  <2> SUFFICES ASSUME Init PROVE InstallInv
    OBVIOUS
  <2>1. /\ \A w \in Workers : toServer[w] = <<>> /\ credits[w] = 0 /\ RunningOn(w) = {}
        /\ chosen = NoWorker /\ snap = NoSnap /\ pc = "idle"
    BY DEF Init, WorkerInit, RunningOn
  <2>2. ASSUME NEW w \in Workers PROVE CurrentOf(w) /\ UnreadOf(w) /\ InstallOf(w)
    <3>1. CurrentOf(w)
      BY <2>1 DEF Init, CurrentOf
    <3>2. UnreadOf(w)
      BY <2>1, DispatchAssumption DEF UnreadOf, Unread, Unused, HasTools, ToolsFirst, NoSnap
    <3>3. InstallOf(w)
      BY <2>1 DEF InstallOf
    <3> QED BY <3>1, <3>2, <3>3
  <2> QED BY <2>2, InitQueue, InitSent DEF InstallInv, UnreadInv, CurrentInv, RefinementInv
<1>2. InstallInv => NoDuplicateInstall
  BY DEF InstallInv, InstallOf, NoDuplicateInstall
<1> QED BY <1>1, <1>2, NextInstall, PTL DEF Spec
=============================================================================
