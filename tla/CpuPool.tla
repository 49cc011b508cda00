------------------------------- MODULE CpuPool -------------------------------
(***************************************************************************)
(* The worker-thread pool of src/server/src/cpu: CpuPool (pool.ts) on the  *)
(* main event loop and the threads it starts (worker.ts).  A thread is     *)
(* named by the order of its creation and stands for its PoolWorker too.   *)
(***************************************************************************)
EXTENDS Naturals, Sequences, FiniteSets

CONSTANTS
  MaxTasks,    \* bound: tasks 1..MaxTasks are submitted, in this order
  PoolSize,    \* threads the constructor starts
  MaxThreads,  \* bound: threads 1..MaxThreads may be started
  Uncloneable, \* tasks whose input structured cloning refuses
  Faults       \* how a thread may die

(* "crash": an uncaught error, which emits "error" and then "exit";        *)
(* "kill": "exit" alone with a code other than 0; "quit": "exit" with 0;   *)
(* "stop": the server shuts the pool down.                                 *)
FaultKinds == {"crash", "kill", "quit", "stop"}

Tasks == 1..MaxTasks
Threads == 1..MaxThreads
NoTask == 0

ASSUME PoolAssumption ==
  /\ MaxTasks \in Nat
  /\ PoolSize \in Nat \ {0}
  /\ MaxThreads \in Nat /\ PoolSize <= MaxThreads
  /\ Uncloneable \subseteq Tasks
  /\ Faults \subseteq FaultKinds

VARIABLES
  workers,    \* CpuPool.workers
  queue,      \* CpuPool.queue
  busy,       \* busy of each PoolWorker
  current,    \* current of each PoolWorker
  spawned,    \* threads created so far
  terminated, \* CpuPool.terminated
  life,       \* whether a thread was started, and how it died
  running,    \* the task a thread runs
  events,     \* events of a thread on their way to the main loop
  promise     \* the promise of each task

poolVars == <<workers, queue, busy, current, spawned>>
threadVars == <<life, running>>
cpuVars == <<poolVars, terminated, threadVars, events, promise>>

Results == [type : {"result"}, task : Tasks, ok : BOOLEAN]
Events  == Results \cup [type : {"error", "exit0", "exit1"}]

(* The pool is built on first use, with PoolSize idle threads.             *)
PoolInit ==
  /\ workers = [i \in 1..PoolSize |-> i]
  /\ queue = <<>>
  /\ busy = [t \in Threads |-> FALSE]
  /\ current = [t \in Threads |-> NoTask]
  /\ spawned = PoolSize
  /\ terminated = FALSE
  /\ life = [t \in Threads |-> IF t <= PoolSize THEN "alive" ELSE "unborn"]
  /\ running = [t \in Threads |-> NoTask]
  /\ events = [t \in Threads |-> <<>>]
  /\ promise = [k \in Tasks |-> "none"]

-----------------------------------------------------------------------------
(* The first n of the idle workers that get a task: as many as there are   *)
(* tasks, and none behind one whose postMessage throws, which ends the     *)
(* loop after that worker was marked busy.                                 *)
Takers(idle, q) ==
  LET n == IF Len(idle) < Len(q) THEN Len(idle) ELSE Len(q)
      throwing == {i \in 1..n : q[i] \in Uncloneable}
  IN SubSeq(idle, 1, IF throwing = {} THEN n
                     ELSE CHOOSE i \in throwing : \A j \in throwing : i <= j)

Idle(ws, isBusy) == SelectSeq(ws, LAMBDA t : ~isBusy[t])

(* dispatch: the idle workers, in pool order, take the head of the queue.  *)
Dispatch(ws, isBusy, cur, q) ==
  LET taking == IF terminated THEN <<>> ELSE Takers(Idle(ws, isBusy), q)
      Task(t) == q[CHOOSE i \in DOMAIN taking : taking[i] = t]
      takers == {taking[i] : i \in DOMAIN taking}
  IN /\ workers' = ws
     /\ queue' = SubSeq(q, Len(taking) + 1, Len(q))
     /\ busy' = [t \in Threads |-> isBusy[t] \/ t \in takers]
     /\ current' = [t \in Threads |-> IF t \in takers THEN Task(t) ELSE cur[t]]
     /\ running' = [t \in Threads |->
          IF t \in takers /\ life[t] \notin FaultKinds /\ Task(t) \notin Uncloneable
          THEN Task(t) ELSE running[t]]

(* runCpuTask.  If dispatch throws here, the executor of the new promise   *)
(* rejects it.                                                             *)
RunCpuTask(k) ==
  /\ promise[k] = "none"
  /\ \A j \in Tasks : j < k => promise[j] # "none"
  /\ IF terminated
     THEN /\ promise' = [promise EXCEPT ![k] = "rejected"]
          /\ UNCHANGED <<workers, queue, busy, current, running>>
     ELSE /\ Dispatch(workers, busy, current, Append(queue, k))
          /\ promise' = [promise EXCEPT ![k] =
               IF \E t \in Threads : current'[t] # current[t] /\ current'[t] \in Uncloneable
               THEN "rejected" ELSE "pending"]
  /\ UNCHANGED <<spawned, terminated, life, events>>

-----------------------------------------------------------------------------
(* Threads (worker.ts).                                                    *)

(* The function returned or threw: reply.                                  *)
Reply(t) ==
  /\ running[t] # NoTask
  /\ \E ok \in BOOLEAN :
       events' = [events EXCEPT ![t] =
                    Append(@, [type |-> "result", task |-> running[t], ok |-> ok])]
  /\ running' = [running EXCEPT ![t] = NoTask]
  /\ UNCHANGED <<poolVars, terminated, life, promise>>

(* A thread dies, running a task or not.  Only so many replacements as the *)
(* bound on threads leaves room for.                                       *)
Die(t) ==
  /\ life[t] = "alive"
  /\ running' = [running EXCEPT ![t] = NoTask]
  /\ \E fault \in Faults \ {"stop"} :
       /\ life' = [life EXCEPT ![t] = fault]
       /\ events' = [events EXCEPT ![t] = @ \o
            CASE fault = "crash" -> <<[type |-> "error"], [type |-> "exit1"]>>
              [] fault = "kill"  -> <<[type |-> "exit1"]>>
              [] fault = "quit"  -> <<[type |-> "exit0"]>>]
  /\ spawned + 2 * Cardinality({v \in Threads : life'[v] \in FaultKinds /\ events'[v] # <<>>})
       <= MaxThreads
  /\ UNCHANGED <<poolVars, terminated, promise>>

-----------------------------------------------------------------------------
(* The main loop.                                                          *)

Consume(t, type) ==
  /\ events[t] # <<>>
  /\ Head(events[t]).type = type
  /\ events' = [events EXCEPT ![t] = Tail(@)]

Settles(k, m) == k # NoTask /\ k = m.task

(* Mutant: the worker is not freed.                                        *)
FreedNot(t) == busy

Freed(t) == [busy EXCEPT ![t] = FALSE]

(* onResult.                                                               *)
OnResult(t) ==
  LET m == Head(events[t])
      k == current[t]
  IN /\ Consume(t, "result")
     /\ promise' = IF Settles(k, m)
                   THEN [promise EXCEPT ![k] = IF m.ok THEN "resolved" ELSE "rejected"]
                   ELSE promise
     /\ Dispatch(workers, Freed(t), [current EXCEPT ![t] = NoTask], queue)
     /\ UNCHANGED <<spawned, terminated, life>>

(* What becomes of the promise a dead worker was to settle.                *)
Rejected(t) ==
  [k \in Tasks |-> IF k = current[t] /\ promise[k] = "pending" THEN "rejected" ELSE promise[k]]

(* The pool without t and with one more thread.                            *)
Replaced(t) == Append(SelectSeq(workers, LAMBDA v : v # t), spawned + 1)

(* recoverWorker, by the "error" event and by an "exit" with a code that   *)
(* is not 0, unless the pool was terminated.                               *)
Recover(t) ==
  /\ promise' = Rejected(t)
  /\ IF terminated
     THEN /\ busy' = Freed(t)
          /\ current' = [current EXCEPT ![t] = NoTask]
          /\ workers' = SelectSeq(workers, LAMBDA v : v # t)
          /\ UNCHANGED <<spawned, queue, threadVars>>
     ELSE /\ spawned' = spawned + 1
          /\ life' = [life EXCEPT ![spawned + 1] = "alive"]
          /\ Dispatch(Replaced(t), Freed(t), [current EXCEPT ![t] = NoTask], queue)
  /\ UNCHANGED terminated

OnError(t) ==
  /\ Consume(t, "error")
  /\ terminated \/ spawned < MaxThreads
  /\ Recover(t)

OnExit(t) ==
  /\ Consume(t, "exit1")
  /\ terminated \/ spawned < MaxThreads
  /\ IF terminated THEN UNCHANGED <<poolVars, threadVars, promise, terminated>>
                   ELSE Recover(t)

(* An exit with code 0 is taken as wanted.                                 *)
OnQuit(t) ==
  /\ Consume(t, "exit0")
  /\ UNCHANGED <<poolVars, terminated, threadVars, promise>>

(* terminate, at server shutdown: every thread is stopped.                 *)
Terminate ==
  /\ "stop" \in Faults
  /\ ~terminated
  /\ terminated' = TRUE
  /\ workers' = <<>>
  /\ life' = [t \in Threads |-> IF life[t] = "alive" THEN "stop" ELSE life[t]]
  /\ running' = [t \in Threads |-> NoTask]
  /\ UNCHANGED <<queue, busy, current, spawned, events, promise>>

-----------------------------------------------------------------------------
MainLoop(t) == OnResult(t) \/ OnError(t) \/ OnExit(t) \/ OnQuit(t)

PoolNext ==
  \/ \E k \in Tasks : RunCpuTask(k)
  \/ \E t \in Threads : Reply(t) \/ Die(t) \/ MainLoop(t)
  \/ Terminate

(* The functions of modules end, and the main loop handles every event.    *)
PoolFairness == \A t \in Threads : WF_cpuVars(Reply(t)) /\ WF_cpuVars(MainLoop(t))

PoolSpec == PoolInit /\ [][PoolNext]_cpuVars /\ PoolFairness
-----------------------------------------------------------------------------
(* Properties.                                                             *)

(* A worker that answers nothing any more and is not replaced: its thread  *)
(* quit with code 0, or its postMessage threw.                             *)
Stuck(t) == current[t] # NoTask /\ (life[t] = "quit" \/ current[t] \in Uncloneable)

(* In the end no task is pending, unless the pool is terminated, a stuck   *)
(* worker has the task, or all workers are stuck.                          *)
EventuallySettled ==
  <>[]\A k \in Tasks :
        \/ promise[k] # "pending" \/ terminated
        \/ \E i \in DOMAIN workers : current[workers[i]] = k /\ Stuck(workers[i])
        \/ \A i \in DOMAIN workers : Stuck(workers[i])
=============================================================================
