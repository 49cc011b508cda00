----------------------------- MODULE TaskDispatch -----------------------------
(***************************************************************************)
(* Dispatch of task executions to workers: WebSocketHandler                *)
(* (src/server/src/websocket.ts) and the assignment half of TaskManager    *)
(* (src/server/src/tasks/taskManager.ts), composed with WorkerHandler.     *)
(*                                                                         *)
(* The server is one event loop.  assignNextTask is the only handler that  *)
(* suspends while it holds state: at the template lookup (pc "template")   *)
(* and at the placeholder lookups (pc "prepare").  Between two suspensions *)
(* (pc "pick") nothing else runs on the server; workers are not bound by   *)
(* that.                                                                   *)
(***************************************************************************)
EXTENDS WorkerHandler

CONSTANTS
  ServerMax,     \* WORKER_MAX_CONCURRENCY of the server
  Requires,      \* Requires[e]: the tools of an execution's template
  AggrExecs,     \* executions of aggressive templates
  AggrWorkers,   \* connections that accept aggressive tasks
  NoWorker       \* an execution's undefined workerId

ASSUME DispatchAssumption ==
  /\ ServerMax \in Nat \ {0}
  /\ Requires \in [Execs -> SUBSET Tools]
  /\ AggrExecs \subseteq Execs
  /\ AggrWorkers \subseteq Workers
  /\ NoWorker \notin Workers

NoExec == 0
Statuses == {"absent", "pending", "running", "completed", "failed"}
Terminal == {"completed", "failed"}

VARIABLES
  registered,  \* WebSocketHandler.workers has this id
  closing,     \* the 100 ms timer of disconnectWorker is armed
  credits,     \* WebSocketHandler.workerCredits
  current,     \* currentTasks of a worker
  tools,       \* availableTools of a worker
  pendingInst, \* TaskManager.pendingInstallations
  deferred,    \* large results whose parsing waits for setImmediate
  nextId,      \* the registry's next execution id
  status,      \* status of each execution in the registry
  owner,       \* its workerId
  gone,        \* aggressive executions whose template was deleted
  queue,       \* TaskManager.pendingQueue
  pc,          \* where assignNextTask is; "idle" when the lock is free
  hasPending,  \* _hasPendingRequest
  todo,        \* tasksToCheck of the current pass
  hand,        \* the execution shifted off the queue
  snap,        \* listWorkers() of this iteration: id -> its currentTasks
  chosen       \* the worker chosen for hand

connVars    == <<registered, closing>>
bookVars    == <<credits, current, tools, pendingInst>>
execVars    == <<nextId, status, owner, gone>>
assignVars  == <<pc, hasPending, todo, hand, snap, chosen>>
serverVars  == <<connVars, bookVars, deferred, execVars, queue, assignVars>>
vars        == <<workerVars, serverVars>>

NoSnap == [w \in {} |-> {}]

DispatchTypeOK ==
  /\ registered \in [Workers -> BOOLEAN]
  /\ closing \in [Workers -> BOOLEAN]
  /\ credits \in [Workers -> Nat]
  /\ current \in [Workers -> SUBSET Execs]
  /\ tools \in [Workers -> SUBSET Tools]
  /\ pendingInst \in [Workers -> SUBSET Tools]
  /\ deferred \subseteq [worker : Workers, exec : Execs, ok : BOOLEAN]
  /\ nextId \in 1..(MaxExecs + 1)
  /\ status \in [Execs -> Statuses]
  /\ owner \in [Execs -> Workers \cup {NoWorker}]
  /\ gone \subseteq AggrExecs
  /\ queue \in Seq(Execs)
  /\ pc \in {"idle", "pick", "template", "prepare"}
  /\ hasPending \in BOOLEAN
  /\ todo \in Nat
  /\ hand \in Execs \cup {NoExec}
  /\ DOMAIN snap \subseteq Workers
  /\ chosen \in Workers \cup {NoWorker}

(* Every variable has its type.                                            *)
TypeOK == WorkerTypeOK /\ DispatchTypeOK

Init ==
  /\ WorkerInit
  /\ registered = [w \in Workers |-> FALSE]
  /\ closing = [w \in Workers |-> FALSE]
  /\ credits = [w \in Workers |-> 0]
  /\ current = [w \in Workers |-> {}]
  /\ tools = [w \in Workers |-> {}]
  /\ pendingInst = [w \in Workers |-> {}]
  /\ deferred = {}
  /\ nextId = 1
  /\ status = [e \in Execs |-> "absent"]
  /\ owner = [e \in Execs |-> NoWorker]
  /\ gone = {}
  /\ queue = <<>>
  /\ pc = "idle"
  /\ hasPending = FALSE
  /\ todo = 0
  /\ hand = NoExec
  /\ snap = NoSnap
  /\ chosen = NoWorker

-----------------------------------------------------------------------------
(* Other handlers run only while assignNextTask is idle or suspended.      *)
Suspended == pc # "pick"

QueueSet == {queue[i] : i \in DOMAIN queue}

(* Mutant: a request that finds the lock taken is simply dropped.          *)
AssignNextTaskNoNote(q) ==
  /\ IF pc = "idle"
     THEN pc' = "pick" /\ todo' = Len(q) /\ hasPending' = FALSE
     ELSE UNCHANGED <<hasPending, pc, todo>>
  /\ UNCHANGED <<hand, snap, chosen>>

(* The entry of assignNextTask: take the lock and start a pass over the    *)
(* queue q, or leave a note for the call that holds it.                    *)
AssignNextTask(q) ==
  /\ IF pc = "idle"
     THEN pc' = "pick" /\ todo' = Len(q) /\ hasPending' = FALSE
     ELSE hasPending' = TRUE /\ UNCHANGED <<pc, todo>>
  /\ UNCHANGED <<hand, snap, chosen>>

(* createExecution, called when a scheduled task is due or run by hand.    *)
CreateExecution ==
  /\ Suspended
  /\ nextId <= MaxExecs
  /\ nextId' = nextId + 1
  /\ status' = [status EXCEPT ![nextId] = "pending"]
  /\ queue' = Append(queue, nextId)
  /\ AssignNextTask(queue')
  /\ UNCHANGED <<workerVars, connVars, bookVars, deferred, owner, gone>>

(* unregisterTaskTemplate, the administrator's DELETE of a template: its   *)
(* scheduled tasks and its row go, the executions queued for it stay.      *)
UnregisterTaskTemplate(e) ==
  /\ "delete" \in Faults
  /\ Suspended
  /\ e \in AggrExecs \ gone
  /\ status[e] \in {"pending", "running"}
  /\ gone' = gone \cup {e}
  /\ UNCHANGED <<workerVars, connVars, bookVars, deferred, nextId, status, owner,
                 queue, assignVars>>

-----------------------------------------------------------------------------
(* assignNextTask.                                                         *)

(* listWorkers: registered workers that still have a ready credit.         *)
WorkersWithCredit == {w \in Workers : registered[w] /\ credits[w] > 0}

Missing(w, e) == Requires[e] \ tools[w]

(* The end of a pass: start another one if a request came in meanwhile,    *)
(* release the lock otherwise.                                             *)
EndPass ==
  /\ pc = "pick"
  /\ todo = 0 \/ WorkersWithCredit = {} \/ queue = <<>>
  /\ pc' = IF hasPending THEN "pick" ELSE "idle"
  /\ todo' = IF hasPending THEN Len(queue) ELSE 0
  /\ hasPending' = FALSE
  /\ UNCHANGED <<workerVars, connVars, bookVars, deferred, execVars, queue,
                 hand, snap, chosen>>

(* Shift the queue; an execution that is no longer pending is skipped, for *)
(* the others the template is looked up.                                   *)
TakeNext ==
  /\ pc = "pick"
  /\ todo > 0 /\ WorkersWithCredit # {} /\ queue # <<>>
  /\ todo' = todo - 1
  /\ queue' = Tail(queue)
  /\ IF status[Head(queue)] = "pending"
     THEN /\ pc' = "template"
          /\ hand' = Head(queue)
          /\ snap' = [w \in WorkersWithCredit |-> current[w]]
     ELSE UNCHANGED <<pc, hand, snap>>
  /\ UNCHANGED <<workerVars, connVars, bookVars, deferred, execVars, hasPending,
                 chosen>>

(* The sort order of the candidates: fewer tasks first, and among equals   *)
(* the workers that refuse aggressive tasks.                               *)
Before(v, w) ==
  LET load(x) == Cardinality(snap[x])
  IN \/ load(v) < load(w)
     \/ load(v) = load(w) /\ v \notin AggrWorkers /\ w \in AggrWorkers

(* Mutant: the worker's aggressive flag is not looked at.                  *)
CompatibleIgnoringFlag(found) == DOMAIN snap

(* Aggressive executions need a worker that accepts them, as long as their *)
(* template is found.                                                      *)
Compatible(found) == IF found /\ hand \in AggrExecs THEN DOMAIN snap \cap AggrWorkers
                                                    ELSE DOMAIN snap

(* getTemplateCached.  A template deleted since the execution was created  *)
(* is found only if this pass or the service's cache still has it.         *)
TemplateFound == IF hand \in gone THEN BOOLEAN ELSE {TRUE}

(* Mutant: installations under way are not looked at.                      *)
EligibleDespiteInstalls(found) == Compatible(found)

(* Workers that are not installing a tool this execution misses.           *)
Eligible(found) == {w \in Compatible(found) : Missing(w, hand) \cap pendingInst[w] = {}}

(* Mutants: the execution is not put back; what is put back is the         *)
(* variable after it was cleared.                                          *)
PushBackForgotten ==
  /\ hand' = NoExec
  /\ snap' = NoSnap
  /\ chosen' = NoWorker
  /\ pc' = "pick"
  /\ UNCHANGED queue

PushBackCleared ==
  /\ queue' = Append(queue, NoExec)
  /\ hand' = NoExec
  /\ snap' = NoSnap
  /\ chosen' = NoWorker
  /\ pc' = "pick"

(* Back to the end of the queue, to be checked again in a later pass.      *)
PushBack ==
  /\ queue' = Append(queue, hand)
  /\ hand' = NoExec
  /\ snap' = NoSnap
  /\ chosen' = NoWorker
  /\ pc' = "pick"

(* The template lookup returned, but no worker in the snapshot will do.    *)
NoEligibleWorker ==
  /\ pc = "template"
  /\ \E found \in TemplateFound : Eligible(found) = {}
  /\ PushBack
  /\ UNCHANGED <<workerVars, connVars, bookVars, deferred, execVars,
                 hasPending, todo>>

(* It returned and a worker is chosen; tools it misses are now being       *)
(* installed there.  The placeholder lookups start.                        *)
ChooseWorker(w) ==
  /\ pc = "template"
  /\ \E found \in TemplateFound :
       w \in Eligible(found) /\ \A v \in Eligible(found) : ~Before(v, w)
  /\ chosen' = w
  /\ snap' = NoSnap
  /\ install' = [install EXCEPT ![hand] = Missing(w, hand)]
  /\ pendingInst' = [pendingInst EXCEPT ![w] = @ \cup Missing(w, hand)]
  /\ pc' = "prepare"
  /\ UNCHANGED <<channelVars, handlerVars, installed, connVars, credits,
                 current, tools, deferred, execVars, queue, hasPending, todo,
                 hand>>

(* The placeholder lookups returned: sendTask, and the execution runs if   *)
(* the worker is still there with a credit.  A send on a connection that   *)
(* broke unnoticed is lost.                                                *)
SendTask ==
  /\ pc = "prepare"
  /\ registered[chosen] /\ credits[chosen] > 0
  /\ toWorker' = IF conn[chosen] = "open"
                 THEN [toWorker EXCEPT ![chosen] = @ \cup {hand}]
                 ELSE toWorker
  /\ current' = [current EXCEPT ![chosen] = @ \cup {hand}]
  /\ credits' = [credits EXCEPT ![chosen] = @ - 1]
  /\ status' = [status EXCEPT ![hand] = "running"]
  /\ owner' = [owner EXCEPT ![hand] = chosen]
  /\ hand' = NoExec
  /\ chosen' = NoWorker
  /\ pc' = "pick"
  /\ UNCHANGED <<conn, stopping, toServer, handlerVars, install, installed,
                 connVars, tools, pendingInst, deferred, nextId, gone, queue,
                 hasPending, todo, snap>>

(* sendTask returned false.                                                *)
SendRefused ==
  /\ pc = "prepare"
  /\ ~(registered[chosen] /\ credits[chosen] > 0)
  /\ PushBack
  /\ UNCHANGED <<workerVars, connVars, bookVars, deferred, execVars,
                 hasPending, todo>>

(* A database lookup rejects after its retries: the catch block logs it    *)
(* and the finally block releases the lock.                                *)
LookupFails ==
  /\ "lookup" \in Faults
  /\ pc \in {"template", "prepare"}
  /\ pc' = "idle"
  /\ hasPending' = FALSE
  /\ todo' = 0
  /\ hand' = NoExec
  /\ snap' = NoSnap
  /\ chosen' = NoWorker
  /\ UNCHANGED <<workerVars, connVars, bookVars, deferred, execVars, queue>>

-----------------------------------------------------------------------------
(* WebSocketHandler: connections.                                          *)

(* handleConnection / addWorker, with the worker's own "open".             *)
AddWorker(w) ==
  /\ Suspended
  /\ Connect(w)
  /\ registered' = [registered EXCEPT ![w] = TRUE]
  /\ UNCHANGED <<closing, bookVars, deferred, execVars, queue, assignVars>>

(* The sequences that list S once each, highest id first: what unshifting  *)
(* the members of S in id order puts in front of the queue.                *)
NewestFirst(S) ==
  {s \in [1..Cardinality(S) -> S] :
     /\ \A i, j \in 1..Cardinality(S) : i < j => s[i] > s[j]
     /\ \A e \in S : \E i \in 1..Cardinality(S) : s[i] = e}

(* Mutant: an execution about to be sent there counts as running there.    *)
RunningOrChosen(w) ==
  {e \in Execs : \/ owner[e] = w /\ status[e] = "running"
                 \/ hand = e /\ chosen = w}

(* The executions that run on w, by the registry.                          *)
RunningOn(w) == {e \in Execs : owner[e] = w /\ status[e] = "running"}

(* removeWorker: no map has the id any more.                               *)
RemoveWorker(w) ==
  /\ registered' = [registered EXCEPT ![w] = FALSE]
  /\ credits' = [credits EXCEPT ![w] = 0]

(* Mutant: only the installations are forgotten.                           *)
HandleWorkerDisconnectNoRequeue(w) ==
  /\ pendingInst' = [pendingInst EXCEPT ![w] = {}]
  /\ UNCHANGED <<status, owner, queue, assignVars>>

(* handleWorkerDisconnect: what ran there is pending again, at the head of *)
(* the queue.                                                              *)
HandleWorkerDisconnect(w) ==
  LET lost == RunningOn(w)
  IN /\ pendingInst' = [pendingInst EXCEPT ![w] = {}]
     /\ status' = [e \in Execs |-> IF e \in lost THEN "pending" ELSE status[e]]
     /\ owner' = [e \in Execs |-> IF e \in lost THEN NoWorker ELSE owner[e]]
     /\ \E front \in NewestFirst(lost \ QueueSet) : queue' = front \o queue
     /\ IF lost # {} THEN AssignNextTask(queue') ELSE UNCHANGED assignVars

(* The socket's "close" event.  A worker already removed is ignored.       *)
HandleWorkerClose(w) ==
  /\ Suspended
  /\ conn[w] = "broken"
  /\ conn' = [conn EXCEPT ![w] = "gone"]
  /\ toServer' = [toServer EXCEPT ![w] = <<>>]
  /\ IF registered[w]
     THEN RemoveWorker(w) /\ HandleWorkerDisconnect(w)
     ELSE UNCHANGED <<registered, credits, pendingInst, status, owner, queue,
                      assignVars>>
  /\ UNCHANGED <<toWorker, stopping, handlerVars, install, installed, closing,
                 current, tools, deferred, nextId, gone>>

(* disconnectWorker, the administrator's button: system:shutdown now, the  *)
(* rest when the timer fires.                                              *)
DisconnectWorker(w) ==
  /\ "admin" \in Faults
  /\ Suspended
  /\ registered[w] /\ ~closing[w]
  /\ closing' = [closing EXCEPT ![w] = TRUE]
  /\ stopping' = [stopping EXCEPT ![w] = conn[w] = "open"]
  /\ UNCHANGED <<conn, toWorker, toServer, handlerVars, install, installed,
                 registered, bookVars, deferred, execVars, queue, assignVars>>

(* The timer of disconnectWorker.  The close frame follows the shutdown    *)
(* message, so the process exits before it sees the close.                 *)
DisconnectTimer(w) ==
  /\ Suspended
  /\ closing[w]
  /\ closing' = [closing EXCEPT ![w] = FALSE]
  /\ RemoveWorker(w)
  /\ UNCHANGED <<workerVars, current, tools, pendingInst, deferred, execVars,
                 queue, assignVars>>

-----------------------------------------------------------------------------
(* WebSocketHandler.handleWorkerMessage.                                   *)

(* The head of w's channel is a message of this type and is consumed.      *)
Consume(w, type) ==
  /\ Suspended
  /\ toServer[w] # <<>>
  /\ Head(toServer[w]).type = type
  /\ toServer' = [toServer EXCEPT ![w] = Tail(@)]

SmallerOf(a, b) == IF a < b THEN a ELSE b

(* Mutant: the announced capacity is taken as it is.                       *)
CreditsAfterUncapped(w, m) ==
  CASE m.type = "announce" -> credits[w] + WorkerMax
    [] m.type = "ready"    -> SmallerOf(ServerMax, credits[w] + 1)
    [] m.type = "busy"     -> 0

(* "worker:ready" and "worker:busy".  A ready adds its count of credits, up *)
(* to the server's cap, and tries to assign; a busy takes all credits away. *)
(* Either is obeyed even for an id already removed.                         *)
CreditsAfter(w, m) ==
  CASE m.type = "announce" -> SmallerOf(ServerMax, credits[w] + WorkerMax)
    [] m.type = "ready"    -> SmallerOf(ServerMax, credits[w] + 1)
    [] m.type = "busy"     -> 0

HandleFlowControl(w) ==
  /\ \E type \in {"announce", "ready", "busy"} : Consume(w, type)
  /\ credits' = [credits EXCEPT ![w] = CreditsAfter(w, Head(toServer[w]))]
  /\ IF Head(toServer[w]) = BusyMsg THEN UNCHANGED assignVars
                                   ELSE AssignNextTask(queue)
  /\ UNCHANGED <<conn, toWorker, stopping, handlerVars, install, installed,
                 connVars, current, tools, pendingInst, deferred, execVars,
                 queue>>

(* "tools:list".                                                           *)
HandleToolsList(w) ==
  /\ Consume(w, "tools")
  /\ tools' = IF registered[w]
              THEN [tools EXCEPT ![w] = Head(toServer[w]).installed]
              ELSE tools
  /\ UNCHANGED <<conn, toWorker, stopping, handlerVars, install, installed,
                 connVars, credits, current, pendingInst, deferred, execVars,
                 queue, assignVars>>

(* Mutant: any known execution accepts the result.                         *)
AcceptedFromAnyone(w, e) == status[e] # "absent"

(* Only the worker an execution was last given to may end it.              *)
Accepted(w, e) == owner[e] = w

(* Whatever the outcome, the required tools are no longer being installed. *)
StillInstalling(w, e, ok) == pendingInst[w] \ Requires[e]

(* Mutant: currentTasks keeps an execution that failed.                    *)
CurrentAfterUnlessFailed(w, e, ok) ==
  IF registered[w] /\ ok THEN [current EXCEPT ![w] = @ \ {e}] ELSE current

(* The caller of handleWorkerResult drops the execution from currentTasks. *)
CurrentAfter(w, e, ok) ==
  IF registered[w] THEN [current EXCEPT ![w] = @ \ {e}] ELSE current

(* handleWorkerResult.  The required tools count as available afterwards.  *)
ApplyResult(w, e, ok) ==
  /\ IF Accepted(w, e)
     THEN /\ status' = [status EXCEPT ![e] = IF ok THEN "completed" ELSE "failed"]
          /\ pendingInst' = [pendingInst EXCEPT ![w] = StillInstalling(w, e, ok)]
          /\ tools' = IF registered[w]
                      THEN [tools EXCEPT ![w] = @ \cup Requires[e]]
                      ELSE tools
     ELSE UNCHANGED <<status, pendingInst, tools>>
  /\ current' = CurrentAfter(w, e, ok)
  /\ UNCHANGED <<conn, toWorker, stopping, handlerVars, install, installed,
                 connVars, credits, nextId, owner, gone, queue, assignVars>>

(* "task:result".                                                          *)
HandleResult(w) ==
  LET m == Head(toServer[w])
  IN /\ Consume(w, "result")
     /\ ~m.large
     /\ ApplyResult(w, m.exec, m.ok)
     /\ UNCHANGED deferred

(* Mutant: a message over the limit is dropped.                            *)
DropLargeResult(w) ==
  /\ Consume(w, "result")
  /\ Head(toServer[w]).large
  /\ UNCHANGED <<conn, toWorker, stopping, handlerVars, install, installed,
                 connVars, bookVars, deferred, execVars, queue, assignVars>>

(* A message over LARGE_MESSAGE_BYTES yields before it is parsed; later    *)
(* messages and the close event may be handled first.                      *)
DeferLargeResult(w) ==
  LET m == Head(toServer[w])
  IN /\ Consume(w, "result")
     /\ m.large
     /\ deferred' = deferred \cup {[worker |-> w, exec |-> m.exec, ok |-> m.ok]}
     /\ UNCHANGED <<conn, toWorker, stopping, handlerVars, install, installed,
                    connVars, bookVars, execVars, queue, assignVars>>

HandleDeferred(r) ==
  /\ Suspended
  /\ r \in deferred
  /\ deferred' = deferred \ {r}
  /\ ApplyResult(r.worker, r.exec, r.ok)
  /\ UNCHANGED toServer

-----------------------------------------------------------------------------
Assigner ==
  \/ EndPass
  \/ TakeNext
  \/ NoEligibleWorker
  \/ \E w \in Workers : ChooseWorker(w)
  \/ SendTask
  \/ SendRefused

MessageHandler(w) ==
  \/ HandleFlowControl(w)
  \/ HandleToolsList(w)
  \/ HandleResult(w)
  \/ DeferLargeResult(w)

Next ==
  \/ CreateExecution
  \/ \E e \in Execs : UnregisterTaskTemplate(e)
  \/ Assigner
  \/ LookupFails
  \/ \E w \in Workers :
       \/ AddWorker(w)
       \/ HandleWorkerClose(w)
       \/ DisconnectWorker(w)
       \/ DisconnectTimer(w)
       \/ MessageHandler(w)
       \/ WorkerStep(w) /\ UNCHANGED serverVars
  \/ \E r \in deferred : HandleDeferred(r)

(* The event loops of the server and of every worker process run; sockets  *)
(* deliver; scripts end (nothing bounds them, see README).  Nobody owes a  *)
(* fault or a new execution.                                               *)
Fairness ==
  /\ WF_vars(Assigner)
  /\ \A w \in Workers :
       /\ WF_vars(AddWorker(w))
       /\ WF_vars(HandleWorkerClose(w))
       /\ WF_vars(DisconnectTimer(w))
       /\ WF_vars(MessageHandler(w))
       /\ WF_vars((Announce(w) \/ ReceiveShutdown(w)) /\ UNCHANGED serverVars)
       /\ \A e \in Execs :
            /\ WF_vars(ReceiveStart(w, e) /\ UNCHANGED serverVars)
            /\ WF_vars(FinishSome(w, e) /\ UNCHANGED serverVars)
  /\ WF_vars(\E r \in deferred : HandleDeferred(r))

Spec == Init /\ [][Next]_vars

FairSpec == Spec /\ Fairness
-----------------------------------------------------------------------------
(* Properties.                                                             *)

(* What is or may yet come to be at work on a connection: slots in use,    *)
(* starts on the wire, credits, and readies on the wire.                   *)
ReadyCount(w) ==
  Cardinality({i \in DOMAIN toServer[w] : toServer[w][i].type = "ready"})

Load(w) == Cardinality(active[w]) + Cardinality(toWorker[w]) + Len(backlog[w])

Commitment(w) == credits[w] + Load(w) + ReadyCount(w)

(* Flow control (websocket.ts workerCredits, taskHandler.ts activeCount):  *)
(* credits, starts and readies in flight and running scripts of one        *)
(* connection never exceed what both sides allow, so a start never finds   *)
(* the worker full and nothing is ever queued locally.                     *)
CapacityRespected ==
  \A w \in Workers :
    /\ Commitment(w) <= SmallerOf(ServerMax, WorkerMax)
    /\ backlog[w] = <<>>

(* pendingQueue and the execution in hand: no id twice, and only pending   *)
(* executions; so assignNextTask can never start one execution twice.      *)
QueueSound ==
  /\ \A i, j \in DOMAIN queue : queue[i] = queue[j] => i = j
  /\ hand \notin QueueSet
  /\ \A e \in QueueSet \cup ({hand} \ {NoExec}) : status[e] = "pending"

(* No pending execution is forgotten: it is in pendingQueue or in the      *)
(* hand of assignNextTask.                                                 *)
NoneForgotten ==
  \A e \in Execs : status[e] = "pending" => e \in QueueSet \cup {hand}

(* A running execution belongs to a worker the server still knows, whose   *)
(* close event would requeue it.                                           *)
NoOrphan ==
  \A e \in Execs : status[e] = "running" => owner[e] \in Workers /\ registered[owner[e]]

(* currentTasks, which decides load balancing, lists exactly what the      *)
(* registry says is running on the worker.                                 *)
CurrentTasksAgree ==
  \A w \in Workers : registered[w] => current[w] = RunningOn(w)

(* While its connection is open a running execution is somewhere on the    *)
(* way: started, running, or its result not yet handled.                   *)
ResultsInTransit(w) ==
  {toServer[w][i].exec : i \in {j \in DOMAIN toServer[w] : toServer[w][j].type = "result"}}
    \cup {r.exec : r \in {d \in deferred : d.worker = w}}

NoSilentLoss ==
  \A e \in Execs, w \in Workers :
    status[e] = "running" /\ owner[e] = w /\ conn[w] = "open" =>
      e \in toWorker[w] \cup active[w] \cup ResultsInTransit(w)

(* "to avoid duplicate installs" (taskManager.ts:66): two executions that  *)
(* run on one worker never both carry the install commands of a tool.      *)
NoDuplicateInstall ==
  \A w \in Workers : \A e, f \in RunningOn(w) :
    e # f => install[e] \cap install[f] = {}

(* An aggressive execution is given to a worker that refused them only     *)
(* when its template was deleted while it waited: taskManager.ts asks for  *)
(* the template's flag when its turn comes, and two awaits lie between     *)
(* that question and the send.                                             *)
AggressiveConfined ==
  \A e \in AggrExecs \ gone : owner[e] # NoWorker => owner[e] \in AggrWorkers

(* The dispatcher implements the life cycle of each execution.             *)
Lifecycle == INSTANCE ExecutionLifecycle WITH status <- status, owner <- owner
ImplementsLifecycle == Lifecycle!Spec

(* With no fault to excuse it, every pending execution ends.               *)
EventuallyEnds ==
  \A e \in Execs : status[e] = "pending" ~> status[e] \in Terminal
=============================================================================
