------------------------- MODULE TaskDispatchProofs -------------------------
(***************************************************************************)
(* Theorems about TaskDispatch for every number of executions, workers,    *)
(* hosts, tools and slots, and every set of faults: types and deadlock,    *)
(* the pending queue, and the refinement of ExecutionLifecycle.            *)
(***************************************************************************)
EXTENDS TaskDispatch, FiniteSetTheorems, TLAPS

-----------------------------------------------------------------------------
(***************************************************************************)
(* Data.                                                                   *)
(***************************************************************************)

(* Sets of executions are finite.                                          *)
LEMMA ExecsFinite ==
  ASSUME NEW S, S \subseteq Execs
  PROVE  IsFiniteSet(S) /\ Cardinality(S) \in Nat
<1>1. IsFiniteSet(Execs)
  BY FS_Interval, WorkerAssumption DEF Execs
<1>2. IsFiniteSet(S)
  BY <1>1, FS_Subset
<1>3. QED
  BY <1>2, FS_CardinalityType

(* Every list that NewestFirst allows is a sequence of executions.         *)
LEMMA NewestFirstType ==
  ASSUME NEW S, S \subseteq Execs, NEW s \in NewestFirst(S)
  PROVE  s \in Seq(Execs)
<1>1. Cardinality(S) \in Nat
  BY ExecsFinite
<1>2. s \in [1..Cardinality(S) -> Execs]
  BY DEF NewestFirst
<1>3. QED
  BY <1>1, <1>2

(* What a worker sends stays a sequence of messages.                       *)
LEMMA SendType ==
  ASSUME NEW w \in Workers, NEW msgs \in Seq(Msgs),
         toServer \in [Workers -> Seq(Msgs)], SendMessages(w, msgs)
  PROVE  toServer' \in [Workers -> Seq(Msgs)]
<1>1. toServer[w] \o msgs \in Seq(Msgs)
  OBVIOUS
<1>2. QED
  BY <1>1 DEF SendMessages

(* Consuming the head of a channel leaves sequences of messages.           *)
LEMMA ConsumeType ==
  ASSUME NEW w \in Workers, NEW type,
         toServer \in [Workers -> Seq(Msgs)], Consume(w, type)
  PROVE  /\ toServer' \in [Workers -> Seq(Msgs)]
         /\ Head(toServer[w]) \in Msgs
<1>1. /\ Tail(toServer[w]) \in Seq(Msgs)
      /\ Head(toServer[w]) \in Msgs
  BY DEF Consume
<1>2. QED
  BY <1>1 DEF Consume

(* The fields of a result message.                                         *)
LEMMA ResultFields ==
  ASSUME NEW m \in Msgs, m.type = "result"
  PROVE  m.exec \in Execs /\ m.ok \in BOOLEAN
<1>1. m \in ResultMsgs
  BY DEF Msgs, AnnounceMsg, ReadyMsg, BusyMsg, ToolsMsgs
<1>2. QED
  BY <1>1 DEF ResultMsgs

LEMMA ToolsFields ==
  ASSUME NEW m \in Msgs, m.type = "tools"
  PROVE  m.installed \subseteq Tools
<1>1. m \in ToolsMsgs
  BY DEF Msgs, AnnounceMsg, ReadyMsg, BusyMsg, ResultMsgs
<1>2. QED
  BY <1>1 DEF ToolsMsgs

(* Claiming the lock keeps the type of the assigner's variables.           *)
LEMMA AssignType ==
  ASSUME NEW q \in Seq(Execs), DispatchTypeOK, AssignNextTask(q)
  PROVE  /\ pc' \in {"idle", "pick", "template", "prepare"}
         /\ hasPending' \in BOOLEAN
         /\ todo' \in Nat
         /\ hand' \in Execs \cup {NoExec}
         /\ DOMAIN snap' \subseteq Workers
         /\ chosen' \in Workers \cup {NoWorker}
<1>1. Len(q) \in Nat
  OBVIOUS
<1>2. UNCHANGED <<hand, snap, chosen>>
  BY DEF AssignNextTask
<1>3. CASE pc = "idle"
  BY <1>1, <1>2, <1>3 DEF AssignNextTask, DispatchTypeOK
<1>4. CASE pc # "idle"
  BY <1>2, <1>4 DEF AssignNextTask, DispatchTypeOK
<1>5. QED
  BY <1>3, <1>4

(***************************************************************************)
(* Type correctness.  PushBack and SendTask put hand in the queue and      *)
(* chosen in owner, so the types hold only together with the shape of the  *)
(* assigner's variables.                                                   *)
(***************************************************************************)
AssignerShape ==
  /\ pc \in {"template", "prepare"} => hand \in Execs
  /\ pc = "prepare" => chosen \in Workers

TypeInv == TypeOK /\ AssignerShape

LEMMA AssignShape ==
  ASSUME AssignerShape, NEW q, AssignNextTask(q)
  PROVE  AssignerShape'
<1>1. CASE pc = "idle"
  BY <1>1 DEF AssignNextTask, AssignerShape
<1>2. CASE pc # "idle"
  BY <1>2 DEF AssignNextTask, AssignerShape
<1>3. QED
  BY <1>1, <1>2

LEMMA InitType == Init => TypeInv
<1> SUFFICES ASSUME Init PROVE TypeInv
  OBVIOUS
<1>1. WorkerTypeOK
  BY WorkerAssumption DEF Init, WorkerInit, WorkerTypeOK
<1>2. nextId \in 1..(MaxExecs + 1)
  BY WorkerAssumption DEF Init
<1>3. queue \in Seq(Execs) /\ deferred \subseteq [worker : Workers, exec : Execs, ok : BOOLEAN]
  BY DEF Init
<1>4. DOMAIN snap \subseteq Workers
  BY DEF Init, NoSnap
<1>5. DispatchTypeOK
  BY <1>2, <1>3, <1>4 DEF Init, DispatchTypeOK, Statuses
<1>6. AssignerShape
  BY DEF Init, AssignerShape
<1>7. QED
  BY <1>1, <1>5, <1>6 DEF TypeInv, TypeOK

(* Steps of a worker.                                                      *)
LEMMA WorkerStepType ==
  ASSUME TypeInv, NEW w \in Workers, WorkerStep(w), UNCHANGED serverVars
  PROVE  TypeInv'
<1> USE WorkerAssumption DEF TypeInv, TypeOK, WorkerTypeOK
<1>0. DispatchTypeOK' /\ AssignerShape'
  BY DEF DispatchTypeOK, AssignerShape, serverVars, connVars, bookVars, execVars,
       assignVars
<1>1. CASE Announce(w)
  <2>1. <<AnnounceMsg>> \in Seq(Msgs)
    BY DEF Msgs
  <2>2. toServer' \in [Workers -> Seq(Msgs)]
    BY <1>1, <2>1, SendType DEF Announce
  <2>3. QED
    BY <1>0, <1>1, <2>2 DEF Announce
<1>2. ASSUME NEW e \in Execs, ReceiveStart(w, e) PROVE TypeInv'
  <2>1. <<BusyMsg>> \in Seq(Msgs)
    BY DEF Msgs
  <2>2. toServer' \in [Workers -> Seq(Msgs)]
    BY <1>2, <2>1, SendType DEF ReceiveStart
  <2>3. active' \in [Workers -> SUBSET Execs]
    <3>0. Cardinality(active[w]) \in Nat
      BY ExecsFinite
    <3>1. CASE Cardinality(active[w]) >= WorkerMax
      BY <1>2, <3>0, <3>1 DEF ReceiveStart
    <3>2. CASE ~(Cardinality(active[w]) >= WorkerMax)
      <4>1. active' = [active EXCEPT ![w] = @ \cup {e}]
        BY <1>2, <3>2 DEF ReceiveStart
      <4>2. active[w] \cup {e} \in SUBSET Execs
        OBVIOUS
      <4>3. QED
        BY <4>1, <4>2
    <3>3. QED
      BY <3>1, <3>2
  <2>4. backlog' \in [Workers -> Seq(Execs)]
    <3>1. Append(backlog[w], e) \in Seq(Execs)
      OBVIOUS
    <3>2. QED
      BY <1>2, <3>1 DEF ReceiveStart
  <2>5. toWorker' \in [Workers -> SUBSET Execs]
    BY <1>2 DEF ReceiveStart
  <2>6. QED
    BY <1>0, <1>2, <2>2, <2>3, <2>4, <2>5 DEF ReceiveStart
<1>3. ASSUME NEW e \in Execs, FinishSome(w, e) PROVE TypeInv'
  <2>1. PICK ok \in BOOLEAN, large \in BOOLEAN, got \in SUBSET install[e] :
          Finish(w, e, ok, large, got)
    BY <1>3 DEF FinishSome
  <2> DEFINE rest == IF backlog[w] = <<>> THEN <<>> ELSE Tail(backlog[w])
             drained == IF backlog[w] = <<>> THEN {} ELSE {Head(backlog[w])}
             result == [type |-> "result", exec |-> e, ok |-> ok, large |-> large]
  <2>2. rest \in Seq(Execs) /\ drained \subseteq Execs
    OBVIOUS
  <2>3. result \in Msgs
    BY DEF Msgs, ResultMsgs
  <2>4. <<result, ReadyMsg>> \in Seq(Msgs) /\ <<result>> \in Seq(Msgs)
    BY <2>3 DEF Msgs
  <2>5. toServer' \in [Workers -> Seq(Msgs)]
    BY <2>1, <2>4, SendType DEF Finish
  <2>6. active' \in [Workers -> SUBSET Execs] /\ backlog' \in [Workers -> Seq(Execs)]
    BY <2>1, <2>2 DEF Finish
  <2>7. installed' \in [Hosts -> SUBSET Tools]
    BY <2>1, WorkerAssumption DEF Finish
  <2>8. QED
    BY <1>0, <2>1, <2>5, <2>6, <2>7 DEF Finish
<1>4. CASE Exit(w)
  BY <1>0, <1>4 DEF Exit
<1>5. CASE Break(w)
  BY <1>0, <1>5 DEF Break, handlerVars
<1>6. QED
  BY <1>1, <1>2, <1>3, <1>4, <1>5 DEF WorkerStep, ReceiveShutdown, Crash

(* Steps of assignNextTask.                                                *)
LEMMA AssignerType ==
  ASSUME TypeInv,
         \/ CreateExecution \/ Assigner \/ LookupFails
         \/ \E e \in Execs : UnregisterTaskTemplate(e)
  PROVE  TypeInv'
<1> USE WorkerAssumption, DispatchAssumption DEF TypeInv, TypeOK
<1>1. CASE CreateExecution
  <2>1. nextId \in Execs
    BY <1>1 DEF CreateExecution, DispatchTypeOK, Execs
  <2>2. queue' \in Seq(Execs)
    BY <1>1, <2>1 DEF CreateExecution, DispatchTypeOK
  <2>3. AssignNextTask(queue')
    BY <1>1 DEF CreateExecution
  <2>4. WorkerTypeOK'
    BY <1>1 DEF CreateExecution, WorkerTypeOK, workerVars, channelVars, handlerVars
  <2>5. /\ nextId' \in 1..(MaxExecs + 1)
        /\ status' \in [Execs -> Statuses]
    BY <1>1, <2>1 DEF CreateExecution, DispatchTypeOK, Statuses
  <2>6. UNCHANGED <<connVars, bookVars, deferred, owner, gone>>
    BY <1>1 DEF CreateExecution
  <2>7. DispatchTypeOK'
    BY <2>2, <2>3, <2>5, <2>6, AssignType DEF DispatchTypeOK, connVars, bookVars
  <2>8. AssignerShape'
    BY <2>3, AssignShape
  <2>9. QED
    BY <2>4, <2>7, <2>8
<1>2. CASE EndPass
  <2>1. Len(queue) \in Nat
    BY DEF DispatchTypeOK
  <2>2. pc' \in {"idle", "pick"} /\ todo' \in Nat /\ hasPending' \in BOOLEAN
    BY <1>2, <2>1 DEF EndPass
  <2>3. WorkerTypeOK'
    BY <1>2 DEF EndPass, WorkerTypeOK, workerVars, channelVars, handlerVars
  <2>4. QED
    BY <1>2, <2>2, <2>3 DEF EndPass, DispatchTypeOK, AssignerShape, connVars,
         bookVars, execVars
<1>3. CASE TakeNext
  <2>1. Head(queue) \in Execs /\ Tail(queue) \in Seq(Execs) /\ todo - 1 \in Nat
    BY <1>3 DEF TakeNext, DispatchTypeOK
  <2>2. DOMAIN [w \in WorkersWithCredit |-> current[w]] \subseteq Workers
    BY DEF WorkersWithCredit
  <2>3. QED
    BY <1>3, <2>1, <2>2 DEF TakeNext, DispatchTypeOK, AssignerShape, WorkerTypeOK,
         workerVars, channelVars, handlerVars, connVars, bookVars, execVars
<1>4. ASSUME PushBack, pc \in {"template", "prepare"},
             UNCHANGED <<workerVars, connVars, bookVars, deferred, execVars, hasPending, todo>>
      PROVE  TypeInv'
  <2>1. queue' \in Seq(Execs)
    BY <1>4 DEF PushBack, AssignerShape, DispatchTypeOK
  <2>2. QED
    BY <1>4, <2>1 DEF PushBack, DispatchTypeOK, AssignerShape, WorkerTypeOK,
         workerVars, channelVars, handlerVars, connVars, bookVars, execVars, NoSnap
<1>5. ASSUME NEW w \in Workers, ChooseWorker(w) PROVE TypeInv'
  <2>1. hand \in Execs /\ Missing(w, hand) \subseteq Tools
    BY <1>5 DEF ChooseWorker, AssignerShape, Missing
  <2>2. WorkerTypeOK'
    BY <1>5, <2>1 DEF ChooseWorker, WorkerTypeOK, channelVars, handlerVars
  <2>3. pendingInst' \in [Workers -> SUBSET Tools]
    BY <1>5, <2>1 DEF ChooseWorker, DispatchTypeOK
  <2>4. QED
    BY <1>5, <2>1, <2>2, <2>3 DEF ChooseWorker, DispatchTypeOK, AssignerShape,
         connVars, execVars, NoSnap
<1>6. CASE SendTask
  <2>1. hand \in Execs /\ chosen \in Workers
    BY <1>6 DEF SendTask, AssignerShape
  <2>2. WorkerTypeOK'
    BY <1>6, <2>1 DEF SendTask, WorkerTypeOK, handlerVars
  <2>3. /\ current' \in [Workers -> SUBSET Execs]
        /\ credits' \in [Workers -> Nat]
        /\ status' \in [Execs -> Statuses]
        /\ owner' \in [Execs -> Workers \cup {NoWorker}]
    BY <1>6, <2>1 DEF SendTask, DispatchTypeOK, Statuses
  <2>4. QED
    BY <1>6, <2>2, <2>3 DEF SendTask, DispatchTypeOK, AssignerShape, connVars
<1>7. CASE LookupFails
  BY <1>7 DEF LookupFails, DispatchTypeOK, AssignerShape, WorkerTypeOK,
       workerVars, channelVars, handlerVars, connVars, bookVars, execVars, NoSnap
<1>8. ASSUME NEW e \in Execs, UnregisterTaskTemplate(e) PROVE TypeInv'
  BY <1>8 DEF UnregisterTaskTemplate, DispatchTypeOK, AssignerShape, WorkerTypeOK,
       workerVars, channelVars, handlerVars, connVars, bookVars, assignVars
<1>9. QED
  BY <1>1, <1>2, <1>3, <1>4, <1>5, <1>6, <1>7, <1>8 DEF Assigner, NoEligibleWorker, SendRefused

(* Steps of WebSocketHandler: connections.                                 *)
LEMMA ConnectionType ==
  ASSUME TypeInv, NEW w \in Workers,
         AddWorker(w) \/ HandleWorkerClose(w) \/ DisconnectWorker(w) \/ DisconnectTimer(w)
  PROVE  TypeInv'
<1> USE WorkerAssumption, DispatchAssumption DEF TypeInv, TypeOK
<1>1. CASE AddWorker(w)
  <2>1. ASSUME NEW S \in SUBSET Tools
        PROVE  <<[type |-> "tools", installed |-> S]>> \in Seq(Msgs)
    BY DEF Msgs, ToolsMsgs
  <2>2. installed[Host[w]] \in SUBSET Tools
    BY DEF WorkerTypeOK
  <2>3. toServer' \in [Workers -> Seq(Msgs)]
    BY <1>1, <2>1, <2>2 DEF AddWorker, Connect, WorkerTypeOK
  <2>4. WorkerTypeOK'
    BY <1>1, <2>3 DEF AddWorker, Connect, WorkerTypeOK, handlerVars
  <2>5. QED
    BY <1>1, <2>4 DEF AddWorker, DispatchTypeOK, AssignerShape, bookVars, execVars,
         assignVars
<1>2. CASE HandleWorkerClose(w)
  <2>1. WorkerTypeOK'
    BY <1>2 DEF HandleWorkerClose, WorkerTypeOK, handlerVars
  <2>2. CASE registered[w]
    <3>1. RemoveWorker(w) /\ HandleWorkerDisconnect(w)
      BY <1>2, <2>2 DEF HandleWorkerClose
    <3>2. UNCHANGED <<closing, current, tools, deferred, nextId, gone>>
      BY <1>2 DEF HandleWorkerClose
    <3>3. RunningOn(w) \subseteq Execs
      BY DEF RunningOn
    <3>4. PICK front \in NewestFirst(RunningOn(w) \ QueueSet) : queue' = front \o queue
      BY <3>1 DEF HandleWorkerDisconnect
    <3>5. queue' \in Seq(Execs)
      <4>1. front \in Seq(Execs)
        BY <3>3, <3>4, NewestFirstType
      <4>2. QED
        BY <3>4, <4>1 DEF DispatchTypeOK
    <3>6. /\ registered' \in [Workers -> BOOLEAN]
          /\ credits' \in [Workers -> Nat]
          /\ pendingInst' \in [Workers -> SUBSET Tools]
          /\ status' \in [Execs -> Statuses]
          /\ owner' \in [Execs -> Workers \cup {NoWorker}]
      BY <3>1 DEF RemoveWorker, HandleWorkerDisconnect, DispatchTypeOK, Statuses
    <3>7. CASE RunningOn(w) = {}
      BY <2>1, <3>1, <3>2, <3>5, <3>6, <3>7 DEF HandleWorkerDisconnect,
           DispatchTypeOK, AssignerShape, assignVars
    <3>8. CASE RunningOn(w) # {}
      <4>1. AssignNextTask(queue')
        BY <3>1, <3>8 DEF HandleWorkerDisconnect
      <4>2. DispatchTypeOK'
        BY <3>2, <3>5, <3>6, <4>1, AssignType DEF DispatchTypeOK
      <4>3. QED
        BY <2>1, <4>1, <4>2, AssignShape
    <3>9. QED
      BY <3>7, <3>8
  <2>3. CASE ~registered[w]
    BY <1>2, <2>1, <2>3 DEF HandleWorkerClose, DispatchTypeOK, AssignerShape, assignVars
  <2>4. QED
    BY <2>2, <2>3
<1>3. CASE DisconnectWorker(w)
  <2>1. WorkerTypeOK'
    BY <1>3 DEF DisconnectWorker, WorkerTypeOK, handlerVars
  <2>2. QED
    BY <1>3, <2>1 DEF DisconnectWorker, DispatchTypeOK, AssignerShape, bookVars,
         execVars, assignVars
<1>4. CASE DisconnectTimer(w)
  <2>1. WorkerTypeOK'
    BY <1>4 DEF DisconnectTimer, WorkerTypeOK, workerVars, channelVars, handlerVars
  <2>2. QED
    BY <1>4, <2>1 DEF DisconnectTimer, RemoveWorker, DispatchTypeOK, AssignerShape,
         execVars, assignVars
<1>5. QED
  BY <1>1, <1>2, <1>3, <1>4

(* Steps of WebSocketHandler: messages.                                    *)
LEMMA ApplyResultType ==
  ASSUME TypeInv, NEW w \in Workers, NEW e \in Execs, NEW ok \in BOOLEAN,
         ApplyResult(w, e, ok), toServer' \in [Workers -> Seq(Msgs)],
         deferred' \subseteq [worker : Workers, exec : Execs, ok : BOOLEAN]
  PROVE  TypeInv'
<1> USE DispatchAssumption DEF TypeInv, TypeOK
<1>1. WorkerTypeOK'
  BY DEF ApplyResult, WorkerTypeOK, handlerVars
<1>2. current' \in [Workers -> SUBSET Execs]
  BY DEF ApplyResult, CurrentAfter, DispatchTypeOK
<1>3. /\ status' \in [Execs -> Statuses]
      /\ pendingInst' \in [Workers -> SUBSET Tools]
      /\ tools' \in [Workers -> SUBSET Tools]
  <2>1. CASE Accepted(w, e)
    <3>1. Requires[e] \subseteq Tools
      OBVIOUS
    <3>2. status' \in [Execs -> Statuses]
      BY <2>1 DEF ApplyResult, DispatchTypeOK, Statuses
    <3>3. pendingInst' \in [Workers -> SUBSET Tools]
      <4>1. pendingInst[w] \ Requires[e] \in SUBSET Tools
        BY DEF DispatchTypeOK
      <4>2. pendingInst' = [pendingInst EXCEPT ![w] = pendingInst[w] \ Requires[e]]
        BY <2>1 DEF ApplyResult, StillInstalling
      <4>3. QED
        BY <4>1, <4>2 DEF DispatchTypeOK
    <3>4. tools' \in [Workers -> SUBSET Tools]
      <4>1. tools[w] \cup Requires[e] \in SUBSET Tools
        BY <3>1 DEF DispatchTypeOK
      <4>2. tools' = [tools EXCEPT ![w] = tools[w] \cup Requires[e]] \/ tools' = tools
        BY <2>1 DEF ApplyResult
      <4>3. QED
        BY <4>1, <4>2 DEF DispatchTypeOK
    <3>5. QED
      BY <3>2, <3>3, <3>4
  <2>2. CASE ~Accepted(w, e)
    BY <2>2 DEF ApplyResult, DispatchTypeOK
  <2>3. QED
    BY <2>1, <2>2
<1>4. QED
  BY <1>1, <1>2, <1>3 DEF ApplyResult, DispatchTypeOK, AssignerShape, connVars, assignVars

LEMMA MessageType ==
  ASSUME TypeInv, NEW w \in Workers, MessageHandler(w)
  PROVE  TypeInv'
<1> USE WorkerAssumption, DispatchAssumption DEF TypeInv, TypeOK
<1> DEFINE m == Head(toServer[w])
<1>0. toServer \in [Workers -> Seq(Msgs)]
  BY DEF WorkerTypeOK
<1>1. CASE HandleFlowControl(w)
  <2>1. PICK type \in {"announce", "ready", "busy"} : Consume(w, type)
    BY <1>1 DEF HandleFlowControl
  <2>2. toServer' \in [Workers -> Seq(Msgs)]
    BY <1>0, <2>1, ConsumeType
  <2>3. WorkerTypeOK'
    BY <1>1, <2>2 DEF HandleFlowControl, WorkerTypeOK, handlerVars
  <2>4. CreditsAfter(w, m) \in Nat
    <3>1. credits[w] \in Nat /\ ServerMax \in Nat /\ WorkerMax \in Nat
      BY DEF DispatchTypeOK
    <3>2. m.type \in {"announce", "ready", "busy"}
      BY <2>1 DEF Consume
    <3>3. QED
      BY <3>1, <3>2 DEF CreditsAfter, SmallerOf
  <2>5. credits' \in [Workers -> Nat]
    BY <1>1, <2>4 DEF HandleFlowControl, DispatchTypeOK
  <2>6. CASE m = BusyMsg
    BY <1>1, <2>3, <2>5, <2>6 DEF HandleFlowControl, DispatchTypeOK, AssignerShape,
         connVars, execVars, assignVars
  <2>7. CASE m # BusyMsg
    <3>1. AssignNextTask(queue)
      BY <1>1, <2>7 DEF HandleFlowControl
    <3>2. queue \in Seq(Execs)
      BY DEF DispatchTypeOK
    <3>3. DispatchTypeOK'
      BY <1>1, <2>5, <3>1, <3>2, AssignType DEF HandleFlowControl, DispatchTypeOK,
           connVars, execVars
    <3>4. QED
      BY <2>3, <3>1, <3>3, AssignShape
  <2>8. QED
    BY <2>6, <2>7
<1>2. CASE HandleToolsList(w)
  <2>1. toServer' \in [Workers -> Seq(Msgs)] /\ m \in Msgs
    BY <1>0, <1>2, ConsumeType DEF HandleToolsList
  <2>2. m.type = "tools"
    BY <1>2 DEF HandleToolsList, Consume
  <2>3. m.installed \subseteq Tools
    BY <2>1, <2>2, ToolsFields
  <2>4. tools' \in [Workers -> SUBSET Tools]
    BY <1>2, <2>3 DEF HandleToolsList, DispatchTypeOK
  <2>5. WorkerTypeOK'
    BY <1>2, <2>1 DEF HandleToolsList, WorkerTypeOK, handlerVars
  <2>6. QED
    BY <1>2, <2>4, <2>5 DEF HandleToolsList, DispatchTypeOK, AssignerShape, connVars,
         execVars, assignVars
<1>3. ASSUME Consume(w, "result")
      PROVE  toServer' \in [Workers -> Seq(Msgs)] /\ m.exec \in Execs /\ m.ok \in BOOLEAN
  <2>1. toServer' \in [Workers -> Seq(Msgs)] /\ m \in Msgs
    BY <1>0, <1>3, ConsumeType
  <2>2. m.type = "result"
    BY <1>3 DEF Consume
  <2>3. QED
    BY <2>1, <2>2, ResultFields
<1>4. CASE HandleResult(w)
  <2>1. toServer' \in [Workers -> Seq(Msgs)] /\ m.exec \in Execs /\ m.ok \in BOOLEAN
    BY <1>3, <1>4 DEF HandleResult
  <2>2. ApplyResult(w, m.exec, m.ok) /\ UNCHANGED deferred
    BY <1>4 DEF HandleResult
  <2>3. deferred' \subseteq [worker : Workers, exec : Execs, ok : BOOLEAN]
    BY <2>2 DEF DispatchTypeOK
  <2>4. QED
    BY <2>1, <2>2, <2>3, ApplyResultType
<1>5. CASE DeferLargeResult(w)
  <2>1. toServer' \in [Workers -> Seq(Msgs)] /\ m.exec \in Execs /\ m.ok \in BOOLEAN
    BY <1>3, <1>5 DEF DeferLargeResult
  <2>2. deferred' \subseteq [worker : Workers, exec : Execs, ok : BOOLEAN]
    BY <1>5, <2>1 DEF DeferLargeResult, DispatchTypeOK
  <2>3. WorkerTypeOK'
    BY <1>5, <2>1 DEF DeferLargeResult, WorkerTypeOK, handlerVars
  <2>4. QED
    BY <1>5, <2>2, <2>3 DEF DeferLargeResult, DispatchTypeOK, AssignerShape, connVars,
         bookVars, execVars, assignVars
<1>6. QED
  BY <1>1, <1>2, <1>4, <1>5 DEF MessageHandler

LEMMA DeferredType ==
  ASSUME TypeInv, NEW r \in deferred, HandleDeferred(r)
  PROVE  TypeInv'
<1>1. r \in [worker : Workers, exec : Execs, ok : BOOLEAN]
  BY DEF TypeInv, TypeOK, DispatchTypeOK
<1>2. toServer' \in [Workers -> Seq(Msgs)]
  BY DEF HandleDeferred, TypeInv, TypeOK, WorkerTypeOK
<1>3. deferred' \subseteq [worker : Workers, exec : Execs, ok : BOOLEAN]
  BY DEF HandleDeferred, TypeInv, TypeOK, DispatchTypeOK
<1>4. ApplyResult(r.worker, r.exec, r.ok)
  BY DEF HandleDeferred
<1>5. QED
  BY <1>1, <1>2, <1>3, <1>4, ApplyResultType

(* Every step keeps TypeInv.                                               *)
LEMMA NextType ==
  ASSUME TypeInv, [Next]_vars
  PROVE  TypeInv'
<1>1. CASE UNCHANGED vars
  BY <1>1 DEF TypeInv, TypeOK, WorkerTypeOK, DispatchTypeOK, AssignerShape, vars,
       workerVars, channelVars, handlerVars, serverVars, connVars, bookVars,
       execVars, assignVars
<1>2. CASE Next
  BY <1>2, AssignerType, ConnectionType, MessageType, WorkerStepType, DeferredType DEF Next
<1>3. QED
  BY <1>1, <1>2

(* Whatever the workers, the network and the administrator do, every       *)
(* variable of the dispatcher and of the workers keeps its type, and a     *)
(* suspended assignNextTask has an execution, after the choice also a      *)
(* worker, in hand.                                                        *)
THEOREM TypeCorrect == Spec => [](TypeOK /\ AssignerShape)
<1>1. Init => TypeInv
  BY InitType
<1>2. TypeInv /\ [Next]_vars => TypeInv'
  BY NextType
<1>3. TypeInv => TypeOK /\ AssignerShape
  BY DEF TypeInv
<1>4. QED
  BY <1>1, <1>2, <1>3, PTL DEF Spec

-----------------------------------------------------------------------------
(***************************************************************************)
(* The pending queue of TaskManager, proved for every instance of          *)
(* TaskDispatch: no execution is queued twice or while it runs, so none is *)
(* ever started twice at once.                                             *)
(***************************************************************************)

(***************************************************************************)
(* Sequences without repetition.                                           *)
(***************************************************************************)
ElemsOf(q) == {q[i] : i \in DOMAIN q}
NoRepeat(q) == \A i, j \in DOMAIN q : q[i] = q[j] => i = j

LEMMA AppendElems ==
  ASSUME NEW S, NEW q \in Seq(S), NEW x \in S
  PROVE  /\ ElemsOf(Append(q, x)) = ElemsOf(q) \cup {x}
         /\ NoRepeat(q) /\ x \notin ElemsOf(q) => NoRepeat(Append(q, x))
<1> DEFINE a == Append(q, x)
<1>1. /\ DOMAIN q = 1..Len(q) /\ Len(q) \in Nat
      /\ DOMAIN a = 1..(Len(q) + 1)
      /\ a[Len(q) + 1] = x
      /\ \A i \in 1..Len(q) : a[i] = q[i]
  OBVIOUS
<1>2. QED
  BY <1>1 DEF ElemsOf, NoRepeat

LEMMA TailElems ==
  ASSUME NEW S, NEW q \in Seq(S), q # <<>>
  PROVE  /\ ElemsOf(q) = {Head(q)} \cup ElemsOf(Tail(q))
         /\ NoRepeat(q) => NoRepeat(Tail(q)) /\ Head(q) \notin ElemsOf(Tail(q))
<1> DEFINE t == Tail(q)
<1>1. /\ DOMAIN q = 1..Len(q) /\ Len(q) \in Nat /\ Len(q) > 0
      /\ DOMAIN t = 1..(Len(q) - 1)
      /\ Head(q) = q[1]
      /\ \A i \in 1..(Len(q) - 1) : t[i] = q[i + 1]
  OBVIOUS
<1>2. \A i \in 1..Len(q) : i = 1 \/ (i - 1 \in 1..(Len(q) - 1) /\ t[i - 1] = q[i])
  BY <1>1
<1>3. ElemsOf(q) \subseteq {Head(q)} \cup ElemsOf(t)
  <2>1. ASSUME NEW i \in DOMAIN q, i # 1 PROVE q[i] \in ElemsOf(t)
    <3>1. i - 1 \in DOMAIN t /\ t[i - 1] = q[i]
      BY <1>1, <1>2, <2>1
    <3>2. QED
      BY <3>1 DEF ElemsOf
  <2>2. QED
    BY <1>1, <2>1 DEF ElemsOf
<1>4. {Head(q)} \cup ElemsOf(t) \subseteq ElemsOf(q)
  BY <1>1 DEF ElemsOf
<1>5. NoRepeat(q) => NoRepeat(t) /\ Head(q) \notin ElemsOf(t)
  BY <1>1 DEF ElemsOf, NoRepeat
<1>6. QED
  BY <1>3, <1>4, <1>5

LEMMA ConcatElems ==
  ASSUME NEW S, NEW f \in Seq(S), NEW q \in Seq(S)
  PROVE  /\ ElemsOf(f \o q) = ElemsOf(f) \cup ElemsOf(q)
         /\ NoRepeat(f) /\ NoRepeat(q) /\ ElemsOf(f) \cap ElemsOf(q) = {}
              => NoRepeat(f \o q)
<1> DEFINE c == f \o q
<1>1. /\ DOMAIN f = 1..Len(f) /\ Len(f) \in Nat
      /\ DOMAIN q = 1..Len(q) /\ Len(q) \in Nat
      /\ DOMAIN c = 1..(Len(f) + Len(q))
      /\ \A i \in 1..(Len(f) + Len(q)) :
           c[i] = IF i <= Len(f) THEN f[i] ELSE q[i - Len(f)]
  OBVIOUS
<1>2. \A i \in DOMAIN c : \/ i \in DOMAIN f /\ c[i] = f[i]
                          \/ i - Len(f) \in DOMAIN q /\ c[i] = q[i - Len(f)]
  BY <1>1
<1>3. \A i \in DOMAIN f : i \in DOMAIN c /\ c[i] = f[i]
  BY <1>1
<1>4. \A i \in DOMAIN q : i + Len(f) \in DOMAIN c /\ c[i + Len(f)] = q[i]
  BY <1>1
<1>5. ElemsOf(c) = ElemsOf(f) \cup ElemsOf(q)
  <2>1. ElemsOf(c) \subseteq ElemsOf(f) \cup ElemsOf(q)
    BY <1>2 DEF ElemsOf
  <2>2. ElemsOf(f) \subseteq ElemsOf(c)
    BY <1>3 DEF ElemsOf
  <2>3. ElemsOf(q) \subseteq ElemsOf(c)
    BY <1>4 DEF ElemsOf
  <2>4. QED
    BY <2>1, <2>2, <2>3
<1>6. ASSUME NoRepeat(f), NoRepeat(q), ElemsOf(f) \cap ElemsOf(q) = {},
             NEW i \in DOMAIN c, NEW j \in DOMAIN c, c[i] = c[j]
      PROVE  i = j
  <2>1. CASE i \in DOMAIN f /\ c[i] = f[i] /\ j \in DOMAIN f /\ c[j] = f[j]
    BY <1>6, <2>1 DEF NoRepeat
  <2>2. CASE /\ i - Len(f) \in DOMAIN q /\ c[i] = q[i - Len(f)]
             /\ j - Len(f) \in DOMAIN q /\ c[j] = q[j - Len(f)]
    <3>1. i - Len(f) = j - Len(f)
      BY <1>6, <2>2 DEF NoRepeat
    <3>2. QED
      BY <1>1, <3>1
  <2>3. CASE i \in DOMAIN f /\ c[i] = f[i] /\ j - Len(f) \in DOMAIN q /\ c[j] = q[j - Len(f)]
    BY <1>6, <2>3 DEF ElemsOf
  <2>4. CASE j \in DOMAIN f /\ c[j] = f[j] /\ i - Len(f) \in DOMAIN q /\ c[i] = q[i - Len(f)]
    BY <1>6, <2>4 DEF ElemsOf
  <2>5. QED
    BY <1>2, <2>1, <2>2, <2>3, <2>4
<1>7. QED
  BY <1>5, <1>6 DEF NoRepeat

LEMMA NewestFirstElems ==
  ASSUME NEW S, S \subseteq Execs, NEW f \in NewestFirst(S)
  PROVE  ElemsOf(f) = S /\ NoRepeat(f)
<1>1. Cardinality(S) \in Nat
  BY ExecsFinite
<1>2. /\ f \in [1..Cardinality(S) -> S]
      /\ \A i, j \in 1..Cardinality(S) : i < j => f[i] > f[j]
      /\ \A e \in S : \E i \in 1..Cardinality(S) : f[i] = e
  BY DEF NewestFirst
<1>3. ElemsOf(f) = S
  BY <1>2 DEF ElemsOf
<1>4. ASSUME NEW i \in DOMAIN f, NEW j \in DOMAIN f, f[i] = f[j] PROVE i = j
  <2>1. i \in 1..Cardinality(S) /\ j \in 1..Cardinality(S)
    BY <1>2, <1>4
  <2>2. f[i] \in Nat /\ f[j] \in Nat
    <3>1. f[i] \in S /\ f[j] \in S
      BY <1>2, <2>1
    <3>2. \A x \in Execs : x \in Nat
      BY WorkerAssumption DEF Execs
    <3>3. QED
      BY <3>1, <3>2
  <2>3. ~(f[i] > f[j]) /\ ~(f[j] > f[i])
    BY <1>4, <2>2
  <2>4. ~(i < j) /\ ~(j < i)
    BY <1>2, <2>1, <2>3
  <2>5. QED
    BY <1>1, <2>1, <2>4
<1>5. QED
  BY <1>3, <1>4 DEF NoRepeat

(***************************************************************************)
(* The queue.  QueueSound alone is not inductive: a worker that closes     *)
(* puts what ran there back, a result ends an execution, and a new id      *)
(* enters the queue, so the registry must agree with the queue about who   *)
(* has an owner and which ids are used.                                    *)
(***************************************************************************)
OwnerFollowsStatus ==
  \A e \in Execs : status[e] \in {"absent", "pending"} => owner[e] = NoWorker

FreshIds == \A e \in Execs : e >= nextId => status[e] = "absent"

QueueInv == TypeInv /\ QueueSound /\ OwnerFollowsStatus /\ FreshIds

(* The queue conjuncts, over ElemsOf and NoRepeat.                         *)
LEMMA QueueSoundParts ==
  QueueSound <=> /\ NoRepeat(queue)
                 /\ hand \notin ElemsOf(queue)
                 /\ \A e \in ElemsOf(queue) : status[e] = "pending"
                 /\ hand # NoExec => status[hand] = "pending"
BY DEF QueueSound, QueueSet, NoRepeat, ElemsOf

LEMMA QueueElems ==
  ASSUME TypeInv
  PROVE  queue \in Seq(Execs) /\ ElemsOf(queue) \subseteq Execs /\ NoExec \notin Execs
<1>1. queue \in Seq(Execs)
  BY DEF TypeInv, TypeOK, DispatchTypeOK
<1>2. ElemsOf(queue) \subseteq Execs
  BY <1>1 DEF ElemsOf
<1>3. NoExec \notin Execs
  BY WorkerAssumption DEF NoExec, Execs
<1>4. QED
  BY <1>1, <1>2, <1>3

LEMMA InitQueue == Init => QueueInv
<1> SUFFICES ASSUME Init PROVE QueueInv
  OBVIOUS
<1>1. QueueSound
  BY DEF Init, QueueSound, QueueSet, NoExec
<1>2. OwnerFollowsStatus /\ FreshIds
  BY DEF Init, OwnerFollowsStatus, FreshIds
<1>3. QED
  BY <1>1, <1>2, InitType DEF QueueInv

(* Steps that leave the queue, the registry and the hand alone.            *)
LEMMA QueueUntouched ==
  ASSUME QueueInv, TypeInv', UNCHANGED <<queue, hand, nextId, status, owner>>
  PROVE  QueueInv'
BY DEF QueueInv, QueueSound, QueueSet, OwnerFollowsStatus, FreshIds

(* createExecution: the new id is in use nowhere.                          *)
LEMMA CreateQueue ==
  ASSUME QueueInv, TypeInv', CreateExecution
  PROVE  QueueInv'
<1> USE DEF QueueInv
<1>1. nextId \in Execs /\ status[nextId] = "absent"
  BY DEF CreateExecution, FreshIds, Execs, TypeInv, TypeOK, DispatchTypeOK
<1>2. /\ queue' = Append(queue, nextId)
      /\ status' = [status EXCEPT ![nextId] = "pending"]
      /\ nextId' = nextId + 1
      /\ owner' = owner /\ hand' = hand
  BY DEF CreateExecution, AssignNextTask
<1>3. status \in [Execs -> Statuses] /\ nextId \in Nat
  BY WorkerAssumption DEF TypeInv, TypeOK, DispatchTypeOK
<1>4. nextId \notin ElemsOf(queue) /\ nextId # hand
  BY <1>1, QueueSoundParts, QueueElems
<1>5. ElemsOf(queue') = ElemsOf(queue) \cup {nextId} /\ NoRepeat(queue')
  BY <1>1, <1>2, <1>4, AppendElems, QueueElems, QueueSoundParts
<1>6. QueueSound'
  <2>1. \A e \in ElemsOf(queue') : status'[e] = "pending"
    BY <1>1, <1>2, <1>3, <1>5, QueueSoundParts, QueueElems
  <2>2. hand' # NoExec => status'[hand'] = "pending"
    BY <1>2, <1>3, <1>4, QueueSoundParts DEF TypeInv, TypeOK, DispatchTypeOK
  <2>3. hand' \notin ElemsOf(queue')
    BY <1>2, <1>4, <1>5, QueueSoundParts
  <2>4. QED
    BY <1>5, <2>1, <2>2, <2>3 DEF QueueSound, QueueSet, NoRepeat, ElemsOf
<1>7. OwnerFollowsStatus'
  BY <1>1, <1>2, <1>3 DEF OwnerFollowsStatus
<1>8. FreshIds'
  BY <1>1, <1>2, <1>3, WorkerAssumption DEF FreshIds, Execs
<1>9. QED
  BY <1>6, <1>7, <1>8

(* assignNextTask: what leaves the queue is in hand until it is put back,  *)
(* sent, or dropped by a failing lookup.                                   *)
LEMMA PushBackQueue ==
  ASSUME QueueInv, TypeInv', PushBack, pc \in {"template", "prepare"},
         UNCHANGED <<nextId, status, owner>>
  PROVE  QueueInv'
<1> USE DEF QueueInv
<1>1. hand \in Execs /\ hand # NoExec
  BY QueueElems DEF TypeInv, AssignerShape
<1>2. queue' = Append(queue, hand) /\ hand' = NoExec
  BY DEF PushBack
<1>3. ElemsOf(queue') = ElemsOf(queue) \cup {hand} /\ NoRepeat(queue')
  BY <1>1, <1>2, AppendElems, QueueElems, QueueSoundParts
<1>4. QueueSound'
  <2>1. \A e \in ElemsOf(queue') : status'[e] = "pending"
    BY <1>1, <1>3, QueueSoundParts
  <2>2. hand' \notin ElemsOf(queue')
    BY <1>1, <1>2, <1>3, QueueElems
  <2>3. QED
    BY <1>2, <1>3, <2>1, <2>2 DEF QueueSound, QueueSet, NoRepeat, ElemsOf
<1>5. QED
  BY <1>4 DEF OwnerFollowsStatus, FreshIds

LEMMA AssignerQueue ==
  ASSUME QueueInv, TypeInv', Assigner \/ LookupFails
  PROVE  QueueInv'
<1> USE DEF QueueInv
<1>1. CASE EndPass
  BY <1>1, QueueUntouched DEF EndPass, execVars
<1>2. CASE TakeNext
  <2>1. queue # <<>> /\ queue' = Tail(queue) /\ UNCHANGED <<nextId, status, owner>>
    BY <1>2 DEF TakeNext, execVars
  <2>2. /\ ElemsOf(queue) = {Head(queue)} \cup ElemsOf(queue')
        /\ NoRepeat(queue') /\ Head(queue) \notin ElemsOf(queue')
    BY <2>1, TailElems, QueueElems, QueueSoundParts
  <2>3. hand' = Head(queue) \/ hand' = hand
    BY <1>2 DEF TakeNext
  <2>4. hand' \notin ElemsOf(queue') /\ (hand' # NoExec => status[hand'] = "pending")
    BY <2>2, <2>3, QueueSoundParts
  <2>5. QueueSound'
    <3>1. \A e \in ElemsOf(queue') : status'[e] = "pending"
      BY <2>1, <2>2, QueueSoundParts
    <3>2. QED
      BY <2>1, <2>2, <2>4, <3>1 DEF QueueSound, QueueSet, NoRepeat, ElemsOf
  <2>6. QED
    BY <2>1, <2>5 DEF OwnerFollowsStatus, FreshIds
<1>3. CASE NoEligibleWorker
  BY <1>3, PushBackQueue DEF NoEligibleWorker, execVars
<1>4. ASSUME NEW w \in Workers, ChooseWorker(w) PROVE QueueInv'
  BY <1>4, QueueUntouched DEF ChooseWorker, execVars
<1>5. CASE SendTask
  <2>1. hand \in Execs /\ hand # NoExec /\ status[hand] = "pending" /\ hand \notin ElemsOf(queue)
    BY <1>5, QueueElems, QueueSoundParts DEF SendTask, TypeInv, AssignerShape
  <2>2. /\ status' = [status EXCEPT ![hand] = "running"]
        /\ owner' = [owner EXCEPT ![hand] = chosen]
        /\ queue' = queue /\ nextId' = nextId /\ hand' = NoExec
    BY <1>5 DEF SendTask
  <2>3. status \in [Execs -> Statuses] /\ owner \in [Execs -> Workers \cup {NoWorker}]
    BY DEF TypeInv, TypeOK, DispatchTypeOK
  <2>4. QueueSound'
    <3>1. \A e \in ElemsOf(queue) : status'[e] = "pending"
      BY <2>1, <2>2, <2>3, QueueElems, QueueSoundParts
    <3>2. NoExec \notin ElemsOf(queue) /\ NoRepeat(queue)
      BY QueueElems, QueueSoundParts
    <3>3. QED
      BY <2>2, <3>1, <3>2 DEF QueueSound, QueueSet, NoRepeat, ElemsOf
  <2>5. OwnerFollowsStatus'
    BY <2>1, <2>2, <2>3 DEF OwnerFollowsStatus
  <2>6. FreshIds'
    BY <2>1, <2>2, <2>3 DEF FreshIds
  <2>7. QED
    BY <2>4, <2>5, <2>6
<1>6. CASE SendRefused
  BY <1>6, PushBackQueue DEF SendRefused, execVars
<1>7. CASE LookupFails
  <2>1. hand' = NoExec /\ UNCHANGED <<queue, nextId, status, owner>>
    BY <1>7 DEF LookupFails, execVars
  <2>2. NoExec \notin ElemsOf(queue)
    BY QueueElems
  <2>3. QueueSound'
    BY <2>1, <2>2 DEF QueueSound, QueueSet, ElemsOf
  <2>4. QED
    BY <2>1, <2>3 DEF OwnerFollowsStatus, FreshIds
<1>8. QED
  BY <1>1, <1>2, <1>3, <1>4, <1>5, <1>6, <1>7 DEF Assigner

(* The close event: what ran on the worker was neither queued nor in hand. *)
LEMMA CloseQueue ==
  ASSUME QueueInv, TypeInv', NEW w \in Workers, HandleWorkerClose(w)
  PROVE  QueueInv'
<1> USE DEF QueueInv
<1> DEFINE lost == RunningOn(w)
<1>1. CASE ~registered[w]
  BY <1>1, QueueUntouched DEF HandleWorkerClose, assignVars
<1>2. CASE registered[w]
  <2>1. HandleWorkerDisconnect(w) /\ nextId' = nextId
    BY <1>2 DEF HandleWorkerClose
  <2>2. /\ status' = [e \in Execs |-> IF e \in lost THEN "pending" ELSE status[e]]
        /\ owner' = [e \in Execs |-> IF e \in lost THEN NoWorker ELSE owner[e]]
    BY <2>1 DEF HandleWorkerDisconnect
  <2>3. hand' = hand
    BY <2>1 DEF HandleWorkerDisconnect, AssignNextTask, assignVars
  <2>4. lost \subseteq Execs /\ \A e \in lost : status[e] = "running"
    BY DEF RunningOn
  <2>5. lost \cap ElemsOf(queue) = {} /\ (hand # NoExec => hand \notin lost) /\ NoExec \notin lost
    BY <2>4, QueueSoundParts, QueueElems
  <2>6. PICK front \in NewestFirst(lost \ QueueSet) : queue' = front \o queue
    BY <2>1 DEF HandleWorkerDisconnect
  <2>7. lost \ QueueSet = lost
    BY <2>5 DEF QueueSet, ElemsOf
  <2>8. front \in Seq(Execs) /\ ElemsOf(front) = lost /\ NoRepeat(front)
    BY <2>4, <2>6, <2>7, NewestFirstType, NewestFirstElems
  <2>9. ElemsOf(queue') = lost \cup ElemsOf(queue) /\ NoRepeat(queue')
    BY <2>5, <2>6, <2>8, ConcatElems, QueueElems, QueueSoundParts
  <2>10. QueueSound'
    <3>1. \A e \in ElemsOf(queue') : status'[e] = "pending"
      BY <2>2, <2>4, <2>9, QueueElems, QueueSoundParts
    <3>2. hand' \notin ElemsOf(queue')
      BY <2>3, <2>5, <2>9, QueueSoundParts
    <3>3. hand' # NoExec => status'[hand'] = "pending"
      BY <2>2, <2>3, <2>5, QueueSoundParts DEF TypeInv, TypeOK, DispatchTypeOK
    <3>4. QED
      BY <2>9, <3>1, <3>2, <3>3 DEF QueueSound, QueueSet, NoRepeat, ElemsOf
  <2>11. OwnerFollowsStatus'
    BY <2>2 DEF OwnerFollowsStatus
  <2>12. FreshIds'
    BY <2>1, <2>2, <2>4 DEF FreshIds
  <2>13. QED
    BY <2>10, <2>11, <2>12
<1>3. QED
  BY <1>1, <1>2

(* A result is accepted for an execution that has an owner, so for none    *)
(* that is queued or in hand.                                              *)
LEMMA ResultQueue ==
  ASSUME QueueInv, TypeInv', NEW w \in Workers, NEW e \in Execs, NEW ok \in BOOLEAN,
         ApplyResult(w, e, ok)
  PROVE  QueueInv'
<1> USE DEF QueueInv
<1>1. UNCHANGED <<queue, hand, nextId, owner>>
  BY DEF ApplyResult, assignVars
<1>2. CASE ~Accepted(w, e)
  BY <1>1, <1>2, QueueUntouched DEF ApplyResult
<1>3. CASE Accepted(w, e)
  <2>1. owner[e] = w /\ owner[e] # NoWorker
    BY <1>3, DispatchAssumption DEF Accepted
  <2>2. status[e] \notin {"absent", "pending"}
    BY <2>1 DEF OwnerFollowsStatus
  <2>3. status' = [status EXCEPT ![e] = IF ok THEN "completed" ELSE "failed"]
    BY <1>3 DEF ApplyResult
  <2>4. status \in [Execs -> Statuses]
    BY DEF TypeInv, TypeOK, DispatchTypeOK
  <2>5. \A f \in Execs : f # e => status'[f] = status[f]
    BY <2>3, <2>4
  <2>6. \A f \in Execs : status[f] = "pending" => status'[f] = "pending"
    BY <2>2, <2>5
  <2>7. QueueSound'
    <3>1. \A f \in ElemsOf(queue) : status'[f] = "pending"
      BY <2>6, QueueElems, QueueSoundParts
    <3>2. hand # NoExec => status'[hand] = "pending"
      BY <2>6, QueueSoundParts DEF TypeInv, TypeOK, DispatchTypeOK
    <3>3. QED
      BY <1>1, <3>1, <3>2, QueueSoundParts DEF QueueSound, QueueSet, NoRepeat, ElemsOf
  <2>8. status'[e] \in {"completed", "failed"}
    BY <2>3, <2>4
  <2>9. OwnerFollowsStatus'
    BY <1>1, <2>5, <2>8 DEF OwnerFollowsStatus
  <2>10. FreshIds'
    BY <1>1, <2>2, <2>5 DEF FreshIds
  <2>11. QED
    BY <2>7, <2>9, <2>10
<1>4. QED
  BY <1>2, <1>3

LEMMA MessageQueue ==
  ASSUME QueueInv, TypeInv', NEW w \in Workers, MessageHandler(w)
  PROVE  QueueInv'
<1> DEFINE m == Head(toServer[w])
<1>1. CASE HandleFlowControl(w)
  BY <1>1, QueueUntouched DEF HandleFlowControl, AssignNextTask, execVars, assignVars
<1>2. CASE HandleToolsList(w)
  BY <1>2, QueueUntouched DEF HandleToolsList, execVars, assignVars
<1>3. CASE HandleResult(w)
  <2>1. m \in Msgs /\ m.type = "result"
    BY <1>3, ConsumeType DEF HandleResult, Consume, QueueInv, TypeInv, TypeOK, WorkerTypeOK
  <2>2. m.exec \in Execs /\ m.ok \in BOOLEAN
    BY <2>1, ResultFields
  <2>3. QED
    BY <1>3, <2>2, ResultQueue DEF HandleResult
<1>4. CASE DeferLargeResult(w)
  BY <1>4, QueueUntouched DEF DeferLargeResult, execVars, assignVars
<1>5. QED
  BY <1>1, <1>2, <1>3, <1>4 DEF MessageHandler

LEMMA NextQueue ==
  ASSUME QueueInv, [Next]_vars
  PROVE  QueueInv'
<1>0. TypeInv'
  BY NextType DEF QueueInv
<1>1. CASE UNCHANGED vars \/ \E e \in Execs : UnregisterTaskTemplate(e)
  BY <1>0, <1>1, QueueUntouched DEF vars, serverVars, execVars, assignVars,
       UnregisterTaskTemplate
<1>2. CASE Next
  <2>1. ASSUME NEW w \in Workers, AddWorker(w) \/ DisconnectWorker(w) \/ DisconnectTimer(w)
        PROVE  QueueInv'
    BY <1>0, <2>1, QueueUntouched DEF AddWorker, DisconnectWorker, DisconnectTimer,
         execVars, assignVars
  <2>2. ASSUME NEW w \in Workers, UNCHANGED serverVars PROVE QueueInv'
    BY <1>0, <2>2, QueueUntouched DEF serverVars, execVars, assignVars
  <2>3. ASSUME NEW r \in deferred, HandleDeferred(r) PROVE QueueInv'
    <3>1. r \in [worker : Workers, exec : Execs, ok : BOOLEAN]
      BY DEF QueueInv, TypeInv, TypeOK, DispatchTypeOK
    <3>2. QED
      BY <1>0, <2>3, <3>1, ResultQueue DEF HandleDeferred
  <2>4. QED
    BY <1>0, <1>1, <1>2, <2>1, <2>2, <2>3, CreateQueue, AssignerQueue, CloseQueue, MessageQueue
    DEF Next
<1>3. QED
  BY <1>1, <1>2

(* pendingQueue and the execution in hand hold no id twice and only        *)
(* pending executions, for every instance and every set of faults: what    *)
(* assignNextTask sends runs nowhere else at that time.                    *)
THEOREM QueueIsSound == Spec => []QueueSound
<1>1. Init => QueueInv
  BY InitQueue
<1>2. QueueInv /\ [Next]_vars => QueueInv'
  BY NextQueue
<1>3. QueueInv => QueueSound
  BY DEF QueueInv
<1>4. QED
  BY <1>1, <1>2, <1>3, PTL DEF Spec

-----------------------------------------------------------------------------
(***************************************************************************)
(* The dispatcher implements ExecutionLifecycle, proved for every instance *)
(* of TaskDispatch.  Only one step is hard to match: an accepted result    *)
(* must find its execution running.  handleWorkerResult does not look at   *)
(* the status, so it rests on where results can come from.                 *)
(***************************************************************************)

(* The executions whose results a channel carries, each at most once.      *)
ResultsIn(q) == {q[i].exec : i \in {j \in DOMAIN q : q[j].type = "result"}}

ResultsOnce(q) ==
  \A i, j \in DOMAIN q :
    q[i].type = "result" /\ q[j].type = "result" /\ q[i].exec = q[j].exec => i = j

DeferredAt(w) == {r.exec : r \in {d \in deferred : d.worker = w}}

(* The executions connection w has not answered for yet, and the others.   *)
Held(w) == toWorker[w] \cup active[w] \cup ElemsOf(backlog[w])
Reported(w) == ResultsIn(toServer[w]) \cup DeferredAt(w)

(* What was sent over a connection is in one place: on the wire, running,  *)
(* queued locally, reported, or reported and waiting for setImmediate.     *)
OnePlace(w) ==
  /\ toWorker[w] \cap active[w] = {}
  /\ (toWorker[w] \cup active[w]) \cap ElemsOf(backlog[w]) = {}
  /\ NoRepeat(backlog[w])
  /\ Held(w) \cap Reported(w) = {}
  /\ ResultsIn(toServer[w]) \cap DeferredAt(w) = {}
  /\ ResultsOnce(toServer[w])

DeferredOnce ==
  \A r, s \in deferred : r.worker = s.worker /\ r.exec = s.exec => r = s

(* An execution that is still somewhere on w runs there by the registry,   *)
(* or w is gone for the server and has lost it.                            *)
Sent(w) == Held(w) \cup Reported(w)

SentRuns(w) ==
  \A e \in Sent(w) :
    /\ conn[w] # "new"
    /\ registered[w] => owner[e] = w
    /\ owner[e] = w => status[e] = "running"

SentInv == DeferredOnce /\ \A w \in Workers : OnePlace(w) /\ SentRuns(w)

(***************************************************************************)
(* Channels.                                                               *)
(***************************************************************************)

(* Taking the first message: a result taken is not reported a second time. *)
LEMMA TailResults ==
  ASSUME NEW q \in Seq(Msgs), q # <<>>
  PROVE  /\ ResultsIn(Tail(q)) \subseteq ResultsIn(q)
         /\ ResultsOnce(q) => ResultsOnce(Tail(q))
         /\ Head(q).type = "result" =>
              /\ Head(q).exec \in ResultsIn(q)
              /\ ResultsOnce(q) => Head(q).exec \notin ResultsIn(Tail(q))
<1> DEFINE t == Tail(q)
<1>1. /\ DOMAIN q = 1..Len(q) /\ Len(q) \in Nat /\ Len(q) > 0
      /\ DOMAIN t = 1..(Len(q) - 1)
      /\ Head(q) = q[1]
      /\ \A i \in 1..(Len(q) - 1) : t[i] = q[i + 1]
  OBVIOUS
<1>2. \A i \in DOMAIN t : i + 1 \in DOMAIN q /\ i + 1 # 1 /\ t[i] = q[i + 1]
  BY <1>1
<1>3. 1 \in DOMAIN q
  BY <1>1
<1>4. ResultsIn(t) \subseteq ResultsIn(q)
  BY <1>2, Zenon DEF ResultsIn
<1>5. ASSUME ResultsOnce(q) PROVE ResultsOnce(t)
  <2>1. ASSUME NEW i \in DOMAIN t, NEW j \in DOMAIN t,
               t[i].type = "result", t[j].type = "result", t[i].exec = t[j].exec
        PROVE  i = j
    <3>1. i + 1 = j + 1
      BY <1>2, <1>5, <2>1, Zenon DEF ResultsOnce
    <3>2. QED
      BY <1>1, <3>1
  <2>2. QED
    BY <2>1, Zenon DEF ResultsOnce
<1>6. Head(q).type = "result" => Head(q).exec \in ResultsIn(q)
  BY <1>1, <1>3, Zenon DEF ResultsIn
<1>7. ASSUME Head(q).type = "result", ResultsOnce(q), Head(q).exec \in ResultsIn(t)
      PROVE  FALSE
  <2>1. PICK i \in DOMAIN t : t[i].type = "result" /\ t[i].exec = Head(q).exec
    BY <1>7, Zenon DEF ResultsIn
  <2>2. i + 1 = 1
    BY <1>1, <1>2, <1>3, <1>7, <2>1, Zenon DEF ResultsOnce
  <2>3. QED
    BY <1>2, <2>1, <2>2
<1>8. QED
  BY <1>4, <1>5, <1>6, <1>7

(* Appending messages.                                                     *)
LEMMA ConcatResults ==
  ASSUME NEW q \in Seq(Msgs), NEW p \in Seq(Msgs)
  PROVE  /\ ResultsIn(q \o p) = ResultsIn(q) \cup ResultsIn(p)
         /\ ResultsOnce(q) /\ ResultsOnce(p) /\ ResultsIn(q) \cap ResultsIn(p) = {}
              => ResultsOnce(q \o p)
<1> DEFINE c == q \o p
<1>1. /\ DOMAIN q = 1..Len(q) /\ Len(q) \in Nat
      /\ DOMAIN p = 1..Len(p) /\ Len(p) \in Nat
      /\ DOMAIN c = 1..(Len(q) + Len(p))
      /\ \A i \in 1..(Len(q) + Len(p)) :
           c[i] = IF i <= Len(q) THEN q[i] ELSE p[i - Len(q)]
  OBVIOUS
<1>2. \A i \in DOMAIN c : \/ i \in DOMAIN q /\ c[i] = q[i]
                          \/ i - Len(q) \in DOMAIN p /\ c[i] = p[i - Len(q)]
  BY <1>1
<1>3. \A i \in DOMAIN q : i \in DOMAIN c /\ c[i] = q[i]
  BY <1>1
<1>4. \A i \in DOMAIN p : i + Len(q) \in DOMAIN c /\ c[i + Len(q)] = p[i]
  BY <1>1
<1> HIDE DEF c
<1>5. ResultsIn(c) = ResultsIn(q) \cup ResultsIn(p)
  <2>1. ResultsIn(c) \subseteq ResultsIn(q) \cup ResultsIn(p)
    BY <1>2, Zenon DEF ResultsIn
  <2>2. ResultsIn(q) \subseteq ResultsIn(c)
    BY <1>3, Zenon DEF ResultsIn
  <2>3. ResultsIn(p) \subseteq ResultsIn(c)
    BY <1>4, Zenon DEF ResultsIn
  <2>4. QED
    BY <2>1, <2>2, <2>3
<1>6. ASSUME ResultsOnce(q), ResultsOnce(p), ResultsIn(q) \cap ResultsIn(p) = {},
             NEW i \in DOMAIN c, NEW j \in DOMAIN c,
             c[i].type = "result", c[j].type = "result", c[i].exec = c[j].exec
      PROVE  i = j
  <2>1. CASE i \in DOMAIN q /\ c[i] = q[i] /\ j \in DOMAIN q /\ c[j] = q[j]
    BY <1>6, <2>1, Zenon DEF ResultsOnce
  <2>2. CASE /\ i - Len(q) \in DOMAIN p /\ c[i] = p[i - Len(q)]
             /\ j - Len(q) \in DOMAIN p /\ c[j] = p[j - Len(q)]
    <3>1. i - Len(q) = j - Len(q)
      BY <1>6, <2>2, Zenon DEF ResultsOnce
    <3>2. i \in Nat /\ j \in Nat
      BY <1>1
    <3>3. QED
      BY <1>1, <3>1, <3>2
  <2>3. CASE i \in DOMAIN q /\ c[i] = q[i] /\ j - Len(q) \in DOMAIN p /\ c[j] = p[j - Len(q)]
    <3>1. c[i].exec \in ResultsIn(q) /\ c[j].exec \in ResultsIn(p)
      BY <1>6, <2>3, Zenon DEF ResultsIn
    <3>2. QED
      BY <1>6, <3>1
  <2>4. CASE j \in DOMAIN q /\ c[j] = q[j] /\ i - Len(q) \in DOMAIN p /\ c[i] = p[i - Len(q)]
    <3>1. c[j].exec \in ResultsIn(q) /\ c[i].exec \in ResultsIn(p)
      BY <1>6, <2>4, Zenon DEF ResultsIn
    <3>2. QED
      BY <1>6, <3>1
  <2>5. QED
    BY <1>2, <2>1, <2>2, <2>3, <2>4
<1>7. QED
  BY <1>5, <1>6 DEF ResultsOnce, c

(* What a worker sends at once, and a channel that was just opened.        *)
LEMMA ShortResults ==
  /\ ResultsIn(<<>>) = {} /\ ResultsOnce(<<>>)
  /\ \A m : m.type # "result" => ResultsIn(<<m>>) = {} /\ ResultsOnce(<<m>>)
  /\ \A m, n : m.type = "result" /\ n.type # "result" =>
       /\ ResultsIn(<<m>>) = {m.exec} /\ ResultsOnce(<<m>>)
       /\ ResultsIn(<<m, n>>) = {m.exec} /\ ResultsOnce(<<m, n>>)
<1>1. ResultsIn(<<>>) = {} /\ ResultsOnce(<<>>)
  BY DEF ResultsIn, ResultsOnce
<1>2. ASSUME NEW m PROVE DOMAIN <<m>> = {1} /\ <<m>>[1] = m
  OBVIOUS
<1>3. ASSUME NEW m, NEW n PROVE DOMAIN <<m, n>> = {1, 2} /\ <<m, n>>[1] = m /\ <<m, n>>[2] = n
  OBVIOUS
<1>4. ASSUME NEW m, m.type # "result" PROVE ResultsIn(<<m>>) = {} /\ ResultsOnce(<<m>>)
  BY <1>2, <1>4 DEF ResultsIn, ResultsOnce
<1>5. ASSUME NEW m, m.type = "result" PROVE ResultsIn(<<m>>) = {m.exec} /\ ResultsOnce(<<m>>)
  BY <1>2, <1>5 DEF ResultsIn, ResultsOnce
<1>6. ASSUME NEW m, NEW n, m.type = "result", n.type # "result"
      PROVE  ResultsIn(<<m, n>>) = {m.exec} /\ ResultsOnce(<<m, n>>)
  BY <1>3, <1>6 DEF ResultsIn, ResultsOnce
<1>7. QED
  BY <1>1, <1>4, <1>5, <1>6

(* A message that is not a result leaves the results as they are.          *)
LEMMA OtherMessage ==
  ASSUME NEW q \in Seq(Msgs), NEW m \in Msgs, m.type # "result", ResultsOnce(q),
         NEW r, r = q \/ r = q \o <<m>>
  PROVE  ResultsIn(r) = ResultsIn(q) /\ ResultsOnce(r)
<1>1. CASE r = q
  BY <1>1
<1>2. CASE r = q \o <<m>>
  <2>1. <<m>> \in Seq(Msgs)
    OBVIOUS
  <2>2. ResultsIn(<<m>>) = {} /\ ResultsOnce(<<m>>)
    BY ShortResults
  <2>3. ResultsIn(q) \cap ResultsIn(<<m>>) = {} /\ ResultsIn(q) \cup ResultsIn(<<m>>) = ResultsIn(q)
    BY <2>2
  <2>4. QED
    BY <1>2, <2>1, <2>2, <2>3, ConcatResults, Zenon
<1>3. QED
  BY <1>1, <1>2

(***************************************************************************)
(* One connection.                                                         *)
(***************************************************************************)

(* The types the proofs below use.                                         *)
LEMMA ChannelTypes ==
  ASSUME TypeInv
  PROVE  /\ toServer \in [Workers -> Seq(Msgs)] /\ toWorker \in [Workers -> SUBSET Execs]
         /\ active \in [Workers -> SUBSET Execs] /\ backlog \in [Workers -> Seq(Execs)]
         /\ conn \in [Workers -> {"new", "open", "broken", "gone"}]
         /\ registered \in [Workers -> BOOLEAN]
         /\ status \in [Execs -> Statuses] /\ owner \in [Execs -> Workers \cup {NoWorker}]
         /\ deferred \subseteq [worker : Workers, exec : Execs, ok : BOOLEAN]
BY DEF TypeInv, TypeOK, WorkerTypeOK, DispatchTypeOK

(* What is somewhere on a connection is an execution.                      *)
LEMMA SentType ==
  ASSUME TypeInv, NEW w \in Workers
  PROVE  Sent(w) \subseteq Execs
<1>1. ElemsOf(backlog[w]) \subseteq Execs
  BY ChannelTypes DEF ElemsOf
<1>2. ResultsIn(toServer[w]) \subseteq Execs
  <2>1. ASSUME NEW i \in DOMAIN toServer[w], toServer[w][i].type = "result"
        PROVE  toServer[w][i].exec \in Execs
    <3>1. toServer[w][i] \in Msgs
      BY ChannelTypes
    <3>2. QED
      BY <2>1, <3>1, ResultFields
  <2>2. QED
    BY <2>1 DEF ResultsIn
<1>3. DeferredAt(w) \subseteq Execs
  BY ChannelTypes DEF DeferredAt
<1>4. QED
  BY <1>1, <1>2, <1>3, ChannelTypes DEF Sent, Held, Reported

(* Nothing is in two places when things only disappear.                    *)
LEMMA PlacesShrink ==
  ASSUME NEW v \in Workers, OnePlace(v),
         toWorker'[v] \subseteq toWorker[v], active'[v] \subseteq active[v],
         ElemsOf(backlog'[v]) \subseteq ElemsOf(backlog[v]), NoRepeat(backlog'[v]),
         ResultsIn(toServer'[v]) \subseteq ResultsIn(toServer[v]), ResultsOnce(toServer'[v]),
         DeferredAt(v)' \subseteq DeferredAt(v)
  PROVE  OnePlace(v)' /\ Sent(v)' \subseteq Sent(v)
BY DEF OnePlace, Sent, Held, Reported

(* A connection that a step leaves alone.                                  *)
LEMMA PlacesUntouched ==
  ASSUME NEW v \in Workers, OnePlace(v), toWorker'[v] = toWorker[v], active'[v] = active[v],
         backlog'[v] = backlog[v], toServer'[v] = toServer[v], DeferredAt(v)' = DeferredAt(v)
  PROVE  OnePlace(v)' /\ Sent(v)' \subseteq Sent(v)
BY PlacesShrink DEF OnePlace

(* What the registry says of it still holds when it is told no less, or is *)
(* not told any more.                                                      *)
LEMMA RunsKept ==
  ASSUME NEW v \in Workers, SentRuns(v), Sent(v)' \subseteq Sent(v),
         conn'[v] = "new" => conn[v] = "new",
         registered'[v] => registered[v],
         \A e \in Sent(v)' :
           /\ registered[v] /\ owner[e] = v => owner'[e] = v
           /\ owner'[e] = v => owner[e] = v
           /\ owner[e] = v /\ status[e] = "running" => status'[e] = "running"
  PROVE  SentRuns(v)'
BY DEF SentRuns

(* A step that changes no status and no owner.                             *)
LEMMA RunsUntouched ==
  ASSUME NEW v \in Workers, SentRuns(v), Sent(v)' \subseteq Sent(v),
         conn'[v] = "new" => conn[v] = "new", registered'[v] => registered[v],
         UNCHANGED <<status, owner>>
  PROVE  SentRuns(v)'
BY RunsKept

(* Steps that touch neither channels nor workers nor owners.               *)
LEMMA SentUntouched ==
  ASSUME SentInv, UNCHANGED <<toWorker, active, backlog, toServer, deferred, status, owner>>,
         \A v \in Workers : conn'[v] = "new" => conn[v] = "new",
         \A v \in Workers : registered'[v] => registered[v]
  PROVE  SentInv'
<1>1. DeferredOnce' /\ \A v \in Workers : DeferredAt(v)' = DeferredAt(v)
  BY DEF SentInv, DeferredOnce, DeferredAt
<1>2. ASSUME NEW v \in Workers PROVE OnePlace(v)' /\ SentRuns(v)'
  <2>1. OnePlace(v) /\ SentRuns(v)
    BY DEF SentInv
  <2>2. OnePlace(v)' /\ Sent(v)' \subseteq Sent(v)
    BY <1>1, <2>1, PlacesUntouched
  <2>3. QED
    BY <2>1, <2>2, RunsUntouched
<1>3. QED
  BY <1>1, <1>2 DEF SentInv

(* Sending touches the channel of one connection, at its end or not at all.*)
LEMMA SendShape ==
  ASSUME TypeInv, NEW w \in Workers, NEW msgs, SendMessages(w, msgs)
  PROVE  /\ \A v \in Workers : v # w => toServer'[v] = toServer[v]
         /\ toServer'[w] = toServer[w] \/ toServer'[w] = toServer[w] \o msgs
BY ChannelTypes DEF SendMessages

(* Consuming touches the channel of one connection.                        *)
LEMMA ConsumeShape ==
  ASSUME TypeInv, NEW w \in Workers, NEW type, Consume(w, type)
  PROVE  /\ \A v \in Workers : v # w => toServer'[v] = toServer[v]
         /\ toServer'[w] = Tail(toServer[w]) /\ toServer[w] # <<>>
         /\ toServer[w] \in Seq(Msgs)
BY ChannelTypes DEF Consume

(* Nothing has been sent yet.                                              *)
LEMMA InitSent == Init => SentInv
<1> SUFFICES ASSUME Init PROVE SentInv
  OBVIOUS
<1>1. ASSUME NEW w \in Workers PROVE OnePlace(w) /\ Sent(w) = {}
  <2>1. /\ toWorker[w] = {} /\ active[w] = {} /\ backlog[w] = <<>> /\ toServer[w] = <<>>
        /\ deferred = {}
    BY DEF Init, WorkerInit
  <2>2. ElemsOf(<<>>) = {} /\ NoRepeat(<<>>)
    BY DEF ElemsOf, NoRepeat
  <2>3. DeferredAt(w) = {}
    BY <2>1 DEF DeferredAt
  <2>4. QED
    BY <2>1, <2>2, <2>3, ShortResults DEF OnePlace, Sent, Held, Reported
<1>2. DeferredOnce
  BY DEF Init, DeferredOnce
<1>3. QED
  BY <1>1, <1>2 DEF SentInv, SentRuns

(***************************************************************************)
(* The worker: a started execution moves from place to place.              *)
(***************************************************************************)

(* task:start: from the wire into a slot or the local queue.               *)
LEMMA ReceiveStartSent ==
  ASSUME SentInv, TypeInv, NEW w \in Workers, NEW e \in Execs,
         ReceiveStart(w, e), UNCHANGED serverVars
  PROVE  SentInv'
<1>1. /\ e \in toWorker[w] /\ toWorker' = [toWorker EXCEPT ![w] = @ \ {e}]
      /\ UNCHANGED <<conn, registered, status, owner, deferred>>
  BY DEF ReceiveStart, serverVars, connVars, execVars
<1>2. DeferredOnce' /\ \A v \in Workers : DeferredAt(v)' = DeferredAt(v)
  BY <1>1 DEF SentInv, DeferredOnce, DeferredAt
<1>3. /\ toWorker'[w] = toWorker[w] \ {e}
      /\ \A v \in Workers : v # w => toWorker'[v] = toWorker[v]
  BY <1>1, ChannelTypes
<1>4. OnePlace(w) /\ backlog[w] \in Seq(Execs) /\ toServer[w] \in Seq(Msgs)
  BY ChannelTypes DEF SentInv
<1>5. e \notin active[w] /\ e \notin ElemsOf(backlog[w]) /\ e \notin Reported(w)
  BY <1>1, <1>4 DEF OnePlace, Held
<1>6. OnePlace(w)' /\ Sent(w)' \subseteq Sent(w)
  <2>1. CASE Cardinality(active[w]) >= WorkerMax
    <3>1. /\ active' = active /\ SendMessages(w, <<BusyMsg>>)
          /\ backlog' = [backlog EXCEPT ![w] = Append(@, e)]
      BY <2>1 DEF ReceiveStart
    <3>2. backlog'[w] = Append(backlog[w], e)
      BY <3>1, ChannelTypes
    <3>3. ElemsOf(backlog'[w]) = ElemsOf(backlog[w]) \cup {e} /\ NoRepeat(backlog'[w])
      BY <1>4, <1>5, <3>2, AppendElems DEF OnePlace
    <3>4. ResultsIn(toServer'[w]) = ResultsIn(toServer[w]) /\ ResultsOnce(toServer'[w])
      <4>1. BusyMsg \in Msgs /\ BusyMsg.type # "result"
        BY DEF Msgs, BusyMsg
      <4>2. toServer'[w] = toServer[w] \/ toServer'[w] = toServer[w] \o <<BusyMsg>>
        BY <3>1, SendShape
      <4>3. ResultsOnce(toServer[w])
        BY <1>4 DEF OnePlace
      <4>4. QED
        BY <1>4, <4>1, <4>2, <4>3, OtherMessage
    <3>5. QED
      BY <1>1, <1>2, <1>3, <1>4, <1>5, <3>1, <3>3, <3>4 DEF OnePlace, Sent, Held, Reported
  <2>2. CASE ~(Cardinality(active[w]) >= WorkerMax)
    <3>1. active'[w] = active[w] \cup {e} /\ UNCHANGED <<backlog, toServer>>
      BY <2>2, ChannelTypes DEF ReceiveStart
    <3>2. QED
      BY <1>1, <1>2, <1>3, <1>4, <1>5, <3>1 DEF OnePlace, Sent, Held, Reported
  <2>3. QED
    BY <2>1, <2>2
<1>7. ASSUME NEW v \in Workers, v # w PROVE OnePlace(v)' /\ Sent(v)' \subseteq Sent(v)
  <2>1. active'[v] = active[v] /\ backlog'[v] = backlog[v] /\ toServer'[v] = toServer[v]
    <3>1. CASE Cardinality(active[w]) >= WorkerMax
      BY <1>7, <3>1, SendShape, ChannelTypes DEF ReceiveStart
    <3>2. CASE ~(Cardinality(active[w]) >= WorkerMax)
      BY <1>7, <3>2, ChannelTypes DEF ReceiveStart
    <3>3. QED
      BY <3>1, <3>2
  <2>2. QED
    BY <1>2, <1>3, <1>7, <2>1, PlacesUntouched DEF SentInv
<1>8. ASSUME NEW v \in Workers PROVE OnePlace(v)' /\ SentRuns(v)'
  BY <1>1, <1>6, <1>7, RunsUntouched DEF SentInv
<1>9. QED
  BY <1>2, <1>8 DEF SentInv

(* The end of a script: from its slot into the channel, if that is open,   *)
(* while the head of the local queue takes a slot.                         *)
LEMMA FinishSent ==
  ASSUME SentInv, TypeInv, NEW w \in Workers, NEW e \in Execs,
         FinishSome(w, e), UNCHANGED serverVars
  PROVE  SentInv'
<1>0. PICK ok \in BOOLEAN, large \in BOOLEAN, got \in SUBSET install[e] :
        Finish(w, e, ok, large, got)
  BY DEF FinishSome
<1> DEFINE q == backlog[w]
           rest == IF q = <<>> THEN <<>> ELSE Tail(q)
           drained == IF q = <<>> THEN {} ELSE {Head(q)}
           running == (active[w] \ {e}) \cup drained
           result == [type |-> "result", exec |-> e, ok |-> ok, large |-> large]
           msgs == IF rest = <<>> /\ Cardinality(running) < WorkerMax
                   THEN <<result, ReadyMsg>> ELSE <<result>>
<1>1. /\ e \in active[w] /\ active' = [active EXCEPT ![w] = running]
      /\ backlog' = [backlog EXCEPT ![w] = rest] /\ SendMessages(w, msgs)
      /\ UNCHANGED <<conn, toWorker, registered, status, owner, deferred>>
  BY <1>0 DEF Finish, serverVars, connVars, execVars
<1>2. DeferredOnce' /\ \A v \in Workers : DeferredAt(v)' = DeferredAt(v)
  BY <1>1 DEF SentInv, DeferredOnce, DeferredAt
<1>3. OnePlace(w) /\ q \in Seq(Execs) /\ toServer[w] \in Seq(Msgs)
  BY ChannelTypes DEF SentInv
<1>4. /\ ElemsOf(q) = drained \cup ElemsOf(rest) /\ drained \cap ElemsOf(rest) = {}
      /\ NoRepeat(rest)
  <2>1. CASE q = <<>>
    BY <1>3, <2>1 DEF ElemsOf, NoRepeat
  <2>2. CASE q # <<>>
    BY <1>3, <2>2, TailElems DEF OnePlace
  <2>3. QED
    BY <2>1, <2>2
<1>5. active'[w] = running /\ backlog'[w] = rest
  BY <1>1, ChannelTypes
<1>6. msgs \in Seq(Msgs) /\ ResultsIn(msgs) = {e} /\ ResultsOnce(msgs)
  <2>1. result \in Msgs /\ ReadyMsg \in Msgs
    BY DEF Msgs, ResultMsgs
  <2>2. result.type = "result" /\ result.exec = e /\ ReadyMsg.type # "result"
    BY DEF ReadyMsg
  <2>3. <<result>> \in Seq(Msgs) /\ <<result, ReadyMsg>> \in Seq(Msgs)
    BY <2>1
  <2> HIDE DEF result, rest, running
  <2>4. QED
    BY <2>2, <2>3, ShortResults
<1> HIDE DEF q, rest, drained, msgs
<1>7. e \notin Reported(w)
  BY <1>1, <1>3 DEF OnePlace, Held
<1>8. /\ ResultsOnce(toServer'[w])
      /\ \/ ResultsIn(toServer'[w]) = ResultsIn(toServer[w])
         \/ ResultsIn(toServer'[w]) = ResultsIn(toServer[w]) \cup {e}
  <2>1. toServer'[w] = toServer[w] \/ toServer'[w] = toServer[w] \o msgs
    BY <1>1, SendShape
  <2>2. ResultsOnce(toServer[w]) /\ ResultsIn(toServer[w]) \cap {e} = {}
    BY <1>3, <1>7 DEF OnePlace, Reported
  <2>3. QED
    BY <1>3, <1>6, <2>1, <2>2, ConcatResults
<1>9. OnePlace(w)' /\ Sent(w)' \subseteq Sent(w)
  <2>1. /\ toWorker[w] \cap active[w] = {} /\ NoRepeat(backlog'[w])
        /\ (toWorker[w] \cup active[w]) \cap ElemsOf(q) = {}
        /\ (toWorker[w] \cup active[w] \cup ElemsOf(q))
             \cap (ResultsIn(toServer[w]) \cup DeferredAt(w)) = {}
        /\ ResultsIn(toServer[w]) \cap DeferredAt(w) = {}
    BY <1>3, <1>4, <1>5 DEF OnePlace, Held, Reported, q
  <2>2. /\ toWorker'[w] = toWorker[w] /\ DeferredAt(w)' = DeferredAt(w)
        /\ active'[w] = (active[w] \ {e}) \cup drained /\ backlog'[w] = rest
    BY <1>1, <1>2, <1>5
  <2>3. QED
    BY <1>1, <1>4, <1>8, <2>1, <2>2 DEF OnePlace, Sent, Held, Reported, q
<1>10. ASSUME NEW v \in Workers, v # w PROVE OnePlace(v)' /\ Sent(v)' \subseteq Sent(v)
  <2>1. active'[v] = active[v] /\ backlog'[v] = backlog[v] /\ toServer'[v] = toServer[v]
    BY <1>1, <1>10, SendShape, ChannelTypes
  <2>2. QED
    BY <1>1, <1>2, <1>10, <2>1, PlacesUntouched DEF SentInv
<1>11. ASSUME NEW v \in Workers PROVE OnePlace(v)' /\ SentRuns(v)'
  BY <1>1, <1>9, <1>10, RunsUntouched DEF SentInv
<1>12. QED
  BY <1>2, <1>11 DEF SentInv

(* The announcement, and the ways a connection ends.                       *)
LEMMA WorkerStepSent ==
  ASSUME SentInv, TypeInv, NEW w \in Workers, WorkerStep(w), UNCHANGED serverVars
  PROVE  SentInv'
<1>0. UNCHANGED <<registered, status, owner, deferred>>
  BY DEF serverVars, connVars, execVars
<1>1. DeferredOnce' /\ \A v \in Workers : DeferredAt(v)' = DeferredAt(v)
  BY <1>0 DEF SentInv, DeferredOnce, DeferredAt
<1>2. CASE Announce(w)
  <2>1. UNCHANGED <<conn, toWorker, active, backlog>> /\ SendMessages(w, <<AnnounceMsg>>)
    BY <1>2 DEF Announce
  <2>2. AnnounceMsg \in Msgs /\ AnnounceMsg.type # "result"
    BY DEF Msgs, AnnounceMsg
  <2>3. ASSUME NEW v \in Workers PROVE OnePlace(v)' /\ SentRuns(v)'
    <3>1. OnePlace(v) /\ SentRuns(v) /\ toServer[v] \in Seq(Msgs)
      BY ChannelTypes DEF SentInv
    <3>2. ResultsIn(toServer'[v]) = ResultsIn(toServer[v]) /\ ResultsOnce(toServer'[v])
      <4>1. toServer'[v] = toServer[v] \/ toServer'[v] = toServer[v] \o <<AnnounceMsg>>
        BY <2>1, SendShape
      <4>2. ResultsOnce(toServer[v])
        BY <3>1 DEF OnePlace
      <4>3. QED
        BY <2>2, <3>1, <4>1, <4>2, OtherMessage
    <3>3. OnePlace(v)' /\ Sent(v)' \subseteq Sent(v)
      BY <1>1, <2>1, <3>1, <3>2, PlacesShrink DEF OnePlace
    <3>4. QED
      BY <1>0, <2>1, <3>1, <3>3, RunsUntouched
  <2>4. QED
    BY <1>1, <2>3 DEF SentInv
<1>3. CASE Exit(w) \/ Break(w)
  <2>1. ASSUME NEW v \in Workers PROVE OnePlace(v)' /\ SentRuns(v)'
    <3>1. OnePlace(v) /\ SentRuns(v)
      BY DEF SentInv
    <3>2. toServer'[v] = toServer[v] /\ (conn'[v] = "new" => conn[v] = "new")
      BY <1>3, ChannelTypes DEF Exit, Break
    <3>3. toWorker'[v] \subseteq toWorker[v] /\ active'[v] \subseteq active[v]
      BY <1>3, ChannelTypes DEF Exit, Break, handlerVars
    <3>4. backlog'[v] = backlog[v] \/ backlog'[v] = <<>>
      BY <1>3, ChannelTypes DEF Exit, Break, handlerVars
    <3>5. ElemsOf(backlog'[v]) \subseteq ElemsOf(backlog[v]) /\ NoRepeat(backlog'[v])
      <4>1. ElemsOf(<<>>) = {} /\ NoRepeat(<<>>)
        BY DEF ElemsOf, NoRepeat
      <4>2. QED
        BY <3>1, <3>4, <4>1 DEF OnePlace
    <3>6. OnePlace(v)' /\ Sent(v)' \subseteq Sent(v)
      BY <1>1, <3>1, <3>2, <3>3, <3>5, PlacesShrink DEF OnePlace
    <3>7. QED
      BY <1>0, <3>1, <3>2, <3>6, RunsUntouched
  <2>2. QED
    BY <1>1, <2>1 DEF SentInv
<1>4. QED
  BY <1>2, <1>3, ReceiveStartSent, FinishSent DEF WorkerStep, ReceiveShutdown, Crash

(***************************************************************************)
(* The server.                                                             *)
(***************************************************************************)

(* A result that is handled was reported once, and by the worker that runs *)
(* the execution if it is accepted: nothing else of it is left there.      *)
LEMMA ApplySent ==
  ASSUME SentInv, TypeInv, NEW w \in Workers, NEW e \in Sent(w), NEW ok, ApplyResult(w, e, ok),
         DeferredOnce',
         \A v \in Workers : OnePlace(v)' /\ Sent(v)' \subseteq Sent(v),
         e \notin Sent(w)'
  PROVE  SentInv'
<1>1. e \in Execs /\ UNCHANGED <<conn, registered, owner>>
  BY SentType DEF ApplyResult, connVars
<1>2. \A f \in Execs : f # e \/ owner[e] # w => status'[f] = status[f]
  BY ChannelTypes DEF ApplyResult, Accepted
<1>3. ASSUME NEW v \in Workers PROVE SentRuns(v)'
  <2>1. \A f \in Sent(v)' : owner[f] = v => f # e \/ owner[e] # w
    OBVIOUS
  <2>2. \A f \in Sent(v)' : f \in Execs
    BY SentType
  <2>3. \A f \in Sent(v)' : owner[f] = v /\ status[f] = "running" => status'[f] = "running"
    BY <1>2, <2>1, <2>2
  <2>4. SentRuns(v) /\ Sent(v)' \subseteq Sent(v)
    BY DEF SentInv
  <2>5. QED
    BY <1>1, <2>3, <2>4, RunsKept
<1>4. QED
  BY <1>3 DEF SentInv

(* Taking the head of a channel.                                           *)
LEMMA ConsumeSent ==
  ASSUME SentInv, TypeInv, NEW w \in Workers, NEW type, Consume(w, type),
         UNCHANGED <<toWorker, active, backlog>>
  PROVE  /\ ResultsIn(toServer'[w]) \subseteq ResultsIn(toServer[w]) /\ ResultsOnce(toServer'[w])
         /\ \A v \in Workers : DeferredAt(v)' \subseteq DeferredAt(v) =>
              OnePlace(v)' /\ Sent(v)' \subseteq Sent(v)
<1>1. /\ \A v \in Workers : v # w => toServer'[v] = toServer[v]
      /\ toServer'[w] = Tail(toServer[w]) /\ toServer[w] # <<>> /\ toServer[w] \in Seq(Msgs)
  BY ConsumeShape
<1>2. \A v \in Workers : OnePlace(v)
  BY DEF SentInv
<1>3. ResultsIn(toServer'[w]) \subseteq ResultsIn(toServer[w]) /\ ResultsOnce(toServer'[w])
  BY <1>1, <1>2, TailResults DEF OnePlace
<1>4. ASSUME NEW v \in Workers, DeferredAt(v)' \subseteq DeferredAt(v)
      PROVE  OnePlace(v)' /\ Sent(v)' \subseteq Sent(v)
  <2>1. ResultsIn(toServer'[v]) \subseteq ResultsIn(toServer[v]) /\ ResultsOnce(toServer'[v])
    BY <1>1, <1>2, <1>3 DEF OnePlace
  <2>2. QED
    BY <1>2, <1>4, <2>1, PlacesShrink DEF OnePlace
<1>5. QED
  BY <1>3, <1>4

(* handleWorkerMessage: a large result goes from the channel to deferred.  *)
LEMMA MessageSent ==
  ASSUME SentInv, TypeInv, NEW w \in Workers, MessageHandler(w)
  PROVE  SentInv'
<1> DEFINE m == Head(toServer[w])
<1>0. OnePlace(w) /\ SentRuns(w)
  BY DEF SentInv
<1>1. CASE HandleFlowControl(w) \/ HandleToolsList(w)
  <2>1. PICK type : Consume(w, type)
    BY <1>1 DEF HandleFlowControl, HandleToolsList
  <2>2. UNCHANGED <<toWorker, active, backlog, conn, registered, deferred, status, owner>>
    BY <1>1 DEF HandleFlowControl, HandleToolsList, handlerVars, connVars, execVars
  <2>3. DeferredOnce' /\ \A v \in Workers : DeferredAt(v)' = DeferredAt(v)
    BY <2>2 DEF SentInv, DeferredOnce, DeferredAt
  <2>4. ASSUME NEW v \in Workers PROVE OnePlace(v)' /\ SentRuns(v)'
    <3>1. OnePlace(v)' /\ Sent(v)' \subseteq Sent(v)
      BY <2>1, <2>2, <2>3, ConsumeSent
    <3>2. QED
      BY <2>2, <3>1, RunsUntouched DEF SentInv
  <2>5. QED
    BY <2>3, <2>4 DEF SentInv
<1>2. ASSUME Consume(w, "result")
      PROVE  /\ m.exec \in ResultsIn(toServer[w]) /\ m.exec \notin ResultsIn(toServer'[w])
             /\ m.exec \notin Held(w) /\ m.exec \notin DeferredAt(w)
             /\ m.exec \in Sent(w)
  <2>1. toServer'[w] = Tail(toServer[w]) /\ toServer[w] # <<>> /\ toServer[w] \in Seq(Msgs)
    BY <1>2, ConsumeShape
  <2>2. m.type = "result"
    BY <1>2 DEF Consume
  <2>3. m.exec \in ResultsIn(toServer[w]) /\ m.exec \notin ResultsIn(toServer'[w])
    BY <1>0, <2>1, <2>2, TailResults DEF OnePlace
  <2>4. QED
    BY <1>0, <2>3 DEF OnePlace, Sent, Reported
<1>3. CASE HandleResult(w)
  <2>1. /\ Consume(w, "result") /\ ApplyResult(w, m.exec, m.ok) /\ deferred' = deferred
        /\ UNCHANGED <<toWorker, active, backlog>>
    BY <1>3 DEF HandleResult, ApplyResult, handlerVars
  <2>2. DeferredOnce' /\ \A v \in Workers : DeferredAt(v)' = DeferredAt(v)
    BY <2>1 DEF SentInv, DeferredOnce, DeferredAt
  <2>3. \A v \in Workers : OnePlace(v)' /\ Sent(v)' \subseteq Sent(v)
    BY <2>1, <2>2, ConsumeSent
  <2>4. m.exec \notin Sent(w)'
    <3>1. Held(w)' = Held(w)
      BY <2>1 DEF Held
    <3>2. QED
      BY <1>2, <2>1, <2>2, <3>1 DEF Sent, Reported
  <2> HIDE DEF m
  <2>5. QED
    BY <1>2, <2>1, <2>2, <2>3, <2>4, ApplySent
<1>4. CASE DeferLargeResult(w)
  <2> DEFINE r == [worker |-> w, exec |-> m.exec, ok |-> m.ok]
  <2>1. /\ Consume(w, "result") /\ deferred' = deferred \cup {r}
        /\ UNCHANGED <<toWorker, active, backlog, conn, registered, status, owner>>
    BY <1>4 DEF DeferLargeResult, handlerVars, connVars, execVars
  <2>2. r.worker = w /\ r.exec = m.exec
    OBVIOUS
  <2> HIDE DEF r, m
  <2>3. DeferredAt(w)' = DeferredAt(w) \cup {m.exec}
    BY <2>1, <2>2 DEF DeferredAt
  <2>4. \A v \in Workers : v # w => DeferredAt(v)' = DeferredAt(v)
    BY <2>1, <2>2 DEF DeferredAt
  <2>5. DeferredOnce'
    <3>1. \A d \in deferred : ~(d.worker = w /\ d.exec = m.exec)
      BY <1>2, <2>1 DEF DeferredAt
    <3>2. QED
      BY <2>1, <2>2, <3>1 DEF SentInv, DeferredOnce
  <2>6. OnePlace(w)' /\ Sent(w)' \subseteq Sent(w)
    <3>1. ResultsIn(toServer'[w]) \subseteq ResultsIn(toServer[w]) /\ ResultsOnce(toServer'[w])
      BY <2>1, ConsumeSent
    <3>2. Held(w)' = Held(w)
      BY <2>1 DEF Held
    <3>3. QED
      BY <1>0, <1>2, <2>1, <2>3, <3>1, <3>2 DEF OnePlace, Sent, Reported
  <2>7. ASSUME NEW v \in Workers PROVE OnePlace(v)' /\ SentRuns(v)'
    <3>1. CASE v = w
      BY <1>0, <2>1, <2>6, <3>1, RunsUntouched
    <3>2. CASE v # w
      <4>1. OnePlace(v)' /\ Sent(v)' \subseteq Sent(v)
        BY <2>1, <2>4, <3>2, ConsumeSent
      <4>2. QED
        BY <2>1, <4>1, RunsUntouched DEF SentInv
    <3>3. QED
      BY <3>1, <3>2
  <2>8. QED
    BY <2>5, <2>7 DEF SentInv
<1>5. QED
  BY <1>1, <1>3, <1>4 DEF MessageHandler

(* setImmediate parses a large result, and nothing of it is left.          *)
LEMMA DeferredSent ==
  ASSUME SentInv, TypeInv, NEW r \in deferred, HandleDeferred(r)
  PROVE  SentInv'
<1> DEFINE w == r.worker
<1>1. /\ w \in Workers /\ deferred' = deferred \ {r} /\ ApplyResult(w, r.exec, r.ok)
      /\ UNCHANGED <<toWorker, active, backlog, toServer>>
  BY ChannelTypes DEF HandleDeferred, ApplyResult, handlerVars
<1>2. DeferredOnce' /\ \A v \in Workers : DeferredAt(v)' \subseteq DeferredAt(v)
  BY <1>1 DEF SentInv, DeferredOnce, DeferredAt
<1>3. r.exec \in DeferredAt(w) /\ r.exec \notin DeferredAt(w)'
  <2>1. \A d \in deferred : d.worker = w /\ d.exec = r.exec => d = r
    BY DEF SentInv, DeferredOnce
  <2>2. QED
    BY <1>1, <2>1 DEF DeferredAt
<1> HIDE DEF w
<1>4. \A v \in Workers : OnePlace(v)' /\ Sent(v)' \subseteq Sent(v)
  <2>1. ASSUME NEW v \in Workers PROVE OnePlace(v)' /\ Sent(v)' \subseteq Sent(v)
    <3>1. OnePlace(v)
      BY DEF SentInv
    <3>2. QED
      BY <1>1, <1>2, <3>1, PlacesShrink DEF OnePlace
  <2>2. QED
    BY <2>1
<1>5. r.exec \in Sent(w) /\ r.exec \notin Sent(w)'
  <2>1. OnePlace(w) /\ Held(w)' = Held(w)
    BY <1>1 DEF SentInv, Held
  <2>2. r.exec \notin Held(w) /\ r.exec \notin ResultsIn(toServer[w])
    BY <1>3, <2>1 DEF OnePlace, Reported
  <2>3. QED
    BY <1>1, <1>3, <2>1, <2>2 DEF Sent, Reported
<1>6. QED
  BY <1>1, <1>2, <1>4, <1>5, ApplySent

(* sendTask: the execution was pending, so nothing of an earlier attempt   *)
(* is left on a worker that is still registered.                           *)
LEMMA SendTaskSent ==
  ASSUME SentInv, QueueInv, SendTask
  PROVE  SentInv'
<1>1. TypeInv /\ hand \in Execs /\ chosen \in Workers
  BY DEF QueueInv, TypeInv, AssignerShape, SendTask
<1>2. registered[chosen] /\ UNCHANGED <<conn, active, backlog, toServer, registered, deferred>>
  BY DEF SendTask, handlerVars, connVars
<1>3. status[hand] = "pending" /\ owner[hand] = NoWorker /\ chosen # NoWorker
  <2>1. hand # NoExec
    BY <1>1, QueueElems
  <2>2. status[hand] = "pending"
    BY <2>1, QueueSoundParts DEF QueueInv
  <2>3. QED
    BY <1>1, <2>2, DispatchAssumption DEF QueueInv, OwnerFollowsStatus
<1>4. /\ status' = [status EXCEPT ![hand] = "running"]
      /\ owner' = [owner EXCEPT ![hand] = chosen]
  BY DEF SendTask
<1>5. /\ status'[hand] = "running" /\ owner'[hand] = chosen
      /\ \A f \in Execs : f # hand => status'[f] = status[f] /\ owner'[f] = owner[f]
  BY <1>1, <1>4, ChannelTypes
<1>6. DeferredOnce' /\ \A v \in Workers : DeferredAt(v)' = DeferredAt(v)
  BY <1>2 DEF SentInv, DeferredOnce, DeferredAt
<1>7. hand \notin Sent(chosen)
  BY <1>1, <1>2, <1>3 DEF SentInv, SentRuns
<1>8. ASSUME NEW v \in Workers PROVE OnePlace(v)' /\ SentRuns(v)'
  <2>1. OnePlace(v) /\ SentRuns(v)
    BY DEF SentInv
  <2>2. \A f \in Sent(v) : f \in Execs
    BY <1>1, SentType
  <2>3. CASE toWorker'[v] = toWorker[v]
    <3>1. OnePlace(v)' /\ Sent(v)' \subseteq Sent(v)
      BY <1>2, <1>6, <2>1, <2>3, PlacesUntouched
    <3>2. hand \in Sent(v)' => v # chosen /\ ~registered[v]
      BY <1>1, <1>3, <1>7, <2>1, <3>1, DispatchAssumption DEF SentRuns
    <3>3. QED
      BY <1>2, <1>5, <2>1, <2>2, <3>1, <3>2 DEF SentRuns
  <2>4. CASE toWorker'[v] # toWorker[v]
    <3>1. v = chosen /\ conn[v] = "open" /\ toWorker'[v] = toWorker[v] \cup {hand}
      BY <1>1, <2>4, ChannelTypes DEF SendTask
    <3>2. OnePlace(v)' /\ Sent(v)' = Sent(v) \cup {hand}
      BY <1>2, <1>6, <1>7, <2>1, <3>1 DEF OnePlace, Sent, Held, Reported
    <3>3. QED
      BY <1>2, <1>5, <2>1, <2>2, <3>1, <3>2 DEF SentRuns
  <2>5. QED
    BY <2>3, <2>4
<1>9. QED
  BY <1>6, <1>8 DEF SentInv

(* createExecution: the new id was never sent.                             *)
LEMMA CreateSent ==
  ASSUME SentInv, QueueInv, CreateExecution
  PROVE  SentInv'
<1>1. /\ nextId \in Execs /\ status[nextId] = "absent" /\ TypeInv
      /\ UNCHANGED <<conn, toWorker, active, backlog, toServer, registered, deferred, owner>>
  BY DEF CreateExecution, QueueInv, FreshIds, Execs, TypeInv, TypeOK, DispatchTypeOK, connVars,
         workerVars, channelVars, handlerVars
<1>2. \A f \in Execs : f # nextId => status'[f] = status[f]
  BY <1>1, ChannelTypes DEF CreateExecution
<1>3. DeferredOnce' /\ \A v \in Workers : DeferredAt(v)' = DeferredAt(v)
  BY <1>1 DEF SentInv, DeferredOnce, DeferredAt
<1>4. ASSUME NEW v \in Workers PROVE OnePlace(v)' /\ SentRuns(v)'
  <2>1. OnePlace(v) /\ SentRuns(v)
    BY DEF SentInv
  <2>2. OnePlace(v)' /\ Sent(v)' \subseteq Sent(v)
    BY <1>1, <1>3, <2>1, PlacesUntouched
  <2>3. \A f \in Sent(v)' : owner[f] = v /\ status[f] = "running" => status'[f] = "running"
    BY <1>1, <1>2, <2>2, SentType
  <2>4. QED
    BY <1>1, <2>1, <2>2, <2>3, RunsKept
<1>5. QED
  BY <1>3, <1>4 DEF SentInv

(* A new connection: nothing was ever sent over it.                        *)
LEMMA AddWorkerSent ==
  ASSUME SentInv, TypeInv, NEW w \in Workers, AddWorker(w)
  PROVE  SentInv'
<1>1. /\ conn[w] = "new" /\ conn' = [conn EXCEPT ![w] = "open"]
      /\ registered' = [registered EXCEPT ![w] = TRUE]
      /\ UNCHANGED <<toWorker, active, backlog, deferred, status, owner>>
  BY DEF AddWorker, Connect, handlerVars, execVars
<1>2. DeferredOnce' /\ \A v \in Workers : DeferredAt(v)' = DeferredAt(v)
  BY <1>1 DEF SentInv, DeferredOnce, DeferredAt
<1>3. Sent(w) = {}
  BY <1>1 DEF SentInv, SentRuns
<1>4. ResultsIn(toServer'[w]) = {} /\ ResultsOnce(toServer'[w])
  <2>1. \/ toServer'[w] = <<>>
        \/ toServer'[w] = <<[type |-> "tools", installed |-> installed[Host[w]]]>>
    BY ChannelTypes DEF AddWorker, Connect
  <2>2. [type |-> "tools", installed |-> installed[Host[w]]].type # "result"
    OBVIOUS
  <2>3. QED
    BY <2>1, <2>2, ShortResults
<1>5. ASSUME NEW v \in Workers PROVE OnePlace(v)' /\ Sent(v)' \subseteq Sent(v)
  <2>1. OnePlace(v)
    BY DEF SentInv
  <2>2. CASE v = w
    BY <1>1, <1>2, <1>4, <2>1, <2>2, PlacesShrink DEF OnePlace
  <2>3. CASE v # w
    <3>1. toServer'[v] = toServer[v]
      BY <2>3, ChannelTypes DEF AddWorker, Connect
    <3>2. QED
      BY <1>1, <1>2, <2>1, <3>1, PlacesUntouched
  <2>4. QED
    BY <2>2, <2>3
<1>6. ASSUME NEW v \in Workers PROVE SentRuns(v)'
  <2>1. CASE v = w
    BY <1>3, <1>5, <2>1 DEF SentRuns
  <2>2. CASE v # w
    <3>1. conn'[v] = conn[v] /\ registered'[v] = registered[v]
      BY <1>1, <2>2, ChannelTypes
    <3>2. QED
      BY <1>1, <1>5, <3>1, RunsUntouched DEF SentInv
  <2>3. QED
    BY <2>1, <2>2
<1>7. QED
  BY <1>2, <1>5, <1>6 DEF SentInv

(* The close event: what ran on the worker is no longer its own.           *)
LEMMA CloseSent ==
  ASSUME SentInv, TypeInv, NEW w \in Workers, HandleWorkerClose(w)
  PROVE  SentInv'
<1>1. /\ toServer' = [toServer EXCEPT ![w] = <<>>] /\ conn' = [conn EXCEPT ![w] = "gone"]
      /\ UNCHANGED <<toWorker, active, backlog, deferred>>
  BY DEF HandleWorkerClose, handlerVars
<1>2. DeferredOnce' /\ \A v \in Workers : DeferredAt(v)' = DeferredAt(v)
  BY <1>1 DEF SentInv, DeferredOnce, DeferredAt
<1>3. ASSUME NEW v \in Workers
      PROVE  /\ OnePlace(v)' /\ Sent(v)' \subseteq Sent(v)
             /\ conn'[v] = "new" => conn[v] = "new"
  <2>1. OnePlace(v)
    BY DEF SentInv
  <2>2. toServer'[v] = toServer[v] \/ toServer'[v] = <<>>
    BY <1>1, ChannelTypes
  <2>3. ResultsIn(toServer'[v]) \subseteq ResultsIn(toServer[v]) /\ ResultsOnce(toServer'[v])
    BY <2>1, <2>2, ShortResults DEF OnePlace
  <2>4. OnePlace(v)' /\ Sent(v)' \subseteq Sent(v)
    BY <1>1, <1>2, <2>1, <2>3, PlacesShrink DEF OnePlace
  <2>5. QED
    BY <1>1, <2>4, ChannelTypes
<1>4. CASE ~registered[w]
  <2>1. UNCHANGED <<registered, status, owner>>
    BY <1>4 DEF HandleWorkerClose
  <2>2. QED
    BY <1>2, <1>3, <2>1, RunsUntouched DEF SentInv
<1>5. CASE registered[w]
  <2>1. /\ registered' = [registered EXCEPT ![w] = FALSE]
        /\ status' = [e \in Execs |-> IF e \in RunningOn(w) THEN "pending" ELSE status[e]]
        /\ owner' = [e \in Execs |-> IF e \in RunningOn(w) THEN NoWorker ELSE owner[e]]
    BY <1>5 DEF HandleWorkerClose, RemoveWorker, HandleWorkerDisconnect
  <2>2. ASSUME NEW v \in Workers PROVE SentRuns(v)'
    <3>1. registered'[v] => registered[v] /\ v # w
      BY <2>1, ChannelTypes
    <3>2. ASSUME NEW e \in Sent(v)'
          PROVE  /\ registered'[v] /\ owner[e] = v => owner'[e] = v
                 /\ owner'[e] = v => owner[e] = v /\ (status[e] = "running" => status'[e] = "running")
      <4>1. e \in Execs
        BY <1>3, SentType
      <4>2. e \in RunningOn(w) => owner[e] = w /\ owner'[e] = NoWorker
        BY <2>1, <4>1 DEF RunningOn
      <4>3. e \notin RunningOn(w) => owner'[e] = owner[e] /\ status'[e] = status[e]
        BY <2>1, <4>1
      <4>4. QED
        BY <3>1, <4>2, <4>3, DispatchAssumption
    <3>3. SentRuns(v) /\ Sent(v)' \subseteq Sent(v) /\ (conn'[v] = "new" => conn[v] = "new")
      BY <1>3 DEF SentInv
    <3>4. QED
      BY <3>1, <3>2, <3>3 DEF SentRuns
  <2>3. QED
    BY <1>2, <1>3, <2>2 DEF SentInv
<1>6. QED
  BY <1>4, <1>5

(* Every step keeps SentInv.                                               *)
LEMMA NextSent ==
  ASSUME SentInv, QueueInv, [Next]_vars
  PROVE  SentInv'
<1>0. TypeInv
  BY DEF QueueInv
<1>1. CASE UNCHANGED vars \/ \E e \in Execs : UnregisterTaskTemplate(e)
  BY <1>1, SentUntouched DEF vars, workerVars, channelVars, handlerVars, serverVars, connVars,
       execVars, UnregisterTaskTemplate
<1>2. CASE EndPass \/ TakeNext \/ NoEligibleWorker \/ SendRefused \/ LookupFails
  BY <1>2, SentUntouched DEF EndPass, TakeNext, NoEligibleWorker, SendRefused, LookupFails,
       workerVars, channelVars, handlerVars, connVars, execVars
<1>3. ASSUME NEW w \in Workers, ChooseWorker(w) PROVE SentInv'
  BY <1>3, SentUntouched DEF ChooseWorker, channelVars, handlerVars, connVars, execVars
<1>4. ASSUME NEW w \in Workers, DisconnectWorker(w) PROVE SentInv'
  BY <1>4, SentUntouched DEF DisconnectWorker, handlerVars, execVars
<1>5. ASSUME NEW w \in Workers, DisconnectTimer(w) PROVE SentInv'
  <2>1. \A v \in Workers : registered'[v] => registered[v]
    BY <1>0, <1>5, ChannelTypes DEF DisconnectTimer, RemoveWorker
  <2>2. QED
    BY <1>5, <2>1, SentUntouched DEF DisconnectTimer, workerVars, channelVars, handlerVars,
         execVars
<1>6. QED
  BY <1>0, <1>1, <1>2, <1>3, <1>4, <1>5, SendTaskSent, CreateSent, AddWorkerSent, CloseSent,
     MessageSent, DeferredSent, WorkerStepSent DEF Next, Assigner

(***************************************************************************)
(* The refinement.  The abstract variables are the registry's status and   *)
(* workerId; every other step of the system leaves both alone.             *)
(***************************************************************************)
RefinementInv == QueueInv /\ SentInv

(* handleWorkerResult: an accepted result ends a running execution.        *)
LEMMA ResultCompletes ==
  ASSUME RefinementInv, NEW w \in Workers, NEW e \in Sent(w), NEW ok \in BOOLEAN,
         ApplyResult(w, e, ok)
  PROVE  [Lifecycle!Next]_(Lifecycle!lifecycleVars)
<1>1. owner' = owner /\ e \in Execs
  BY SentType DEF ApplyResult, RefinementInv, QueueInv
<1>2. CASE Accepted(w, e)
  <2>1. status[e] = "running"
    BY <1>2 DEF Accepted, RefinementInv, SentInv, SentRuns
  <2>2. PICK outcome \in {"completed", "failed"} : status' = [status EXCEPT ![e] = outcome]
    BY <1>2 DEF ApplyResult
  <2>3. Lifecycle!Complete(e, outcome)
    BY <1>1, <2>1, <2>2 DEF Lifecycle!Complete
  <2>4. QED
    BY <1>1, <2>2, <2>3 DEF Lifecycle!Next
<1>3. CASE ~Accepted(w, e)
  BY <1>1, <1>3 DEF ApplyResult, Lifecycle!lifecycleVars
<1>4. QED
  BY <1>2, <1>3

(* Every step is a step of the life cycle or changes nothing of it.        *)
LEMMA StepRefines ==
  ASSUME RefinementInv, [Next]_vars
  PROVE  [Lifecycle!Next]_(Lifecycle!lifecycleVars)
<1> USE DEF RefinementInv
<1>0. TypeInv
  BY DEF QueueInv
<1>1. ASSUME UNCHANGED <<status, owner>> PROVE [Lifecycle!Next]_(Lifecycle!lifecycleVars)
  BY <1>1 DEF Lifecycle!lifecycleVars
<1>2. CASE CreateExecution
  <2>1. nextId \in Execs /\ status[nextId] = "absent"
    BY <1>2 DEF CreateExecution, QueueInv, FreshIds, Execs, TypeInv, TypeOK, DispatchTypeOK
  <2>2. Lifecycle!Create(nextId)
    BY <1>2, <2>1 DEF CreateExecution, Lifecycle!Create
  <2>3. QED
    BY <2>1, <2>2 DEF Lifecycle!Next
<1>3. CASE SendTask
  <2>1. hand \in Execs /\ hand # NoExec /\ chosen \in Workers
    BY <1>0, <1>3, QueueElems DEF SendTask, TypeInv, AssignerShape
  <2>2. status[hand] = "pending"
    BY <2>1, QueueSoundParts DEF QueueInv
  <2>3. Lifecycle!Dispatch(hand, chosen)
    BY <1>3, <2>2 DEF SendTask, Lifecycle!Dispatch
  <2>4. QED
    BY <2>1, <2>3 DEF Lifecycle!Next
<1>4. ASSUME NEW w \in Workers, HandleWorkerClose(w)
      PROVE  [Lifecycle!Next]_(Lifecycle!lifecycleVars)
  <2>1. CASE registered[w]
    <3>1. RunningOn(w) = {e \in Execs : status[e] = "running" /\ owner[e] = w}
      BY DEF RunningOn
    <3>2. Lifecycle!Requeue(w)
      BY <1>4, <2>1, <3>1 DEF HandleWorkerClose, HandleWorkerDisconnect, Lifecycle!Requeue
    <3>3. QED
      BY <3>2 DEF Lifecycle!Next
  <2>2. CASE ~registered[w]
    BY <1>1, <1>4, <2>2 DEF HandleWorkerClose
  <2>3. QED
    BY <2>1, <2>2
<1>5. ASSUME NEW w \in Workers, MessageHandler(w)
      PROVE  [Lifecycle!Next]_(Lifecycle!lifecycleVars)
  <2> DEFINE m == Head(toServer[w])
  <2>1. CASE HandleFlowControl(w) \/ HandleToolsList(w) \/ DeferLargeResult(w)
    BY <1>1, <2>1 DEF HandleFlowControl, HandleToolsList, DeferLargeResult, execVars
  <2>2. CASE HandleResult(w)
    <3>1. /\ toServer[w] # <<>> /\ toServer[w] \in Seq(Msgs) /\ m.type = "result" /\ m \in Msgs
      BY <1>0, <2>2, ConsumeShape, ConsumeType, ChannelTypes DEF HandleResult, Consume
    <3>2. m.exec \in Sent(w) /\ m.ok \in BOOLEAN
      BY <3>1, TailResults, ResultFields DEF Sent, Reported
    <3>3. QED
      BY <2>2, <3>2, ResultCompletes DEF HandleResult
  <2>3. QED
    BY <1>5, <2>1, <2>2 DEF MessageHandler
<1>6. ASSUME NEW r \in deferred, HandleDeferred(r)
      PROVE  [Lifecycle!Next]_(Lifecycle!lifecycleVars)
  <2>1. r.worker \in Workers /\ r.ok \in BOOLEAN /\ r.exec \in DeferredAt(r.worker)
    BY <1>0, ChannelTypes DEF DeferredAt
  <2>2. QED
    BY <1>6, <2>1, ResultCompletes DEF HandleDeferred, Sent, Reported
<1>7. CASE EndPass \/ TakeNext \/ NoEligibleWorker \/ SendRefused \/ LookupFails
  BY <1>1, <1>7 DEF EndPass, TakeNext, NoEligibleWorker, SendRefused, LookupFails, execVars
<1>8. ASSUME NEW w \in Workers,
             ChooseWorker(w) \/ AddWorker(w) \/ DisconnectWorker(w) \/ DisconnectTimer(w)
      PROVE  [Lifecycle!Next]_(Lifecycle!lifecycleVars)
  BY <1>1, <1>8 DEF ChooseWorker, AddWorker, DisconnectWorker, DisconnectTimer, execVars
<1>9. CASE UNCHANGED serverVars \/ UNCHANGED vars \/ \E e \in Execs : UnregisterTaskTemplate(e)
  BY <1>1, <1>9 DEF serverVars, execVars, vars, UnregisterTaskTemplate
<1>10. QED
  BY <1>2, <1>3, <1>4, <1>5, <1>6, <1>7, <1>8, <1>9 DEF Next, Assigner

(* Whatever workers, network and administrator do, an execution goes from  *)
(* pending to running by one assignment at a time, only a result of that   *)
(* assignment ends it, and an ended one stays as it ended.                 *)
THEOREM DispatcherImplementsLifecycle == Spec => ImplementsLifecycle
<1>1. Init => RefinementInv
  BY InitQueue, InitSent DEF RefinementInv
<1>2. RefinementInv /\ [Next]_vars => RefinementInv'
  BY NextQueue, NextSent DEF RefinementInv
<1>3. Init => Lifecycle!Init
  BY DEF Init, Lifecycle!Init
<1>4. RefinementInv /\ [Next]_vars => [Lifecycle!Next]_(Lifecycle!lifecycleVars)
  BY StepRefines
<1>5. QED
  BY <1>1, <1>2, <1>3, <1>4, PTL DEF Spec, ImplementsLifecycle, Lifecycle!Spec
=============================================================================
