------------------------------- MODULE Scheduler -------------------------------
(***************************************************************************)
(* When scheduled tasks run: the sweep over due tasks, manual runs, task   *)
(* instances, the new due time after an edit, and the retention sweeps     *)
(* (tasks/taskManager.ts, utils/registry.ts).  Workers are reduced to what *)
(* the registry sees of them; TaskDispatch has the rest.                   *)
(*                                                                         *)
(* Time is relative: a tick is the 5 s of the sweep, due times count down  *)
(* and ages count up to a cap.  One event loop; everything between two     *)
(* awaits is one action, so a whole sweep is.                              *)
(***************************************************************************)
EXTENDS Integers, FiniteSets

CONSTANTS
  Recurring,   \* the scheduled tasks of a TARGET_BASED template
  Instances,   \* names for instances of a CUSTOM template
  Timer,       \* the task that calls onSchedule of the CUSTOM template
  Intervals,   \* intervals a template may be given, in ticks
  CustomIntervals, \* those the CUSTOM template may be given
  Retention,   \* TASK_EXECUTION_RETENTION_MS, in ticks
  MaxRuns,     \* bound: executions of one task in the registry
  Absent, Year \* no such task or execution; a due time that is never reached

Tasks == Recurring \cup Instances \cup {Timer}
Places == 1..MaxRuns
Run == [status : {"pending", "running", "ended"}, age : Nat]

ASSUME SchedulerAssumption ==
  /\ Recurring \cap Instances = {} /\ Timer \notin Recurring \cup Instances
  /\ Intervals \subseteq Nat \ {0} /\ Intervals # {}
  /\ IsFiniteSet(Intervals)
  /\ CustomIntervals \subseteq Intervals /\ CustomIntervals # {}
  /\ Retention \in Nat /\ MaxRuns \in Nat
  /\ Year \notin Nat /\ Absent \notin Run

VARIABLES
  task,      \* scheduledTasks of the registry
  runs,      \* taskExecutions of the registry: by task, in no order
  template,  \* the CUSTOM template: its row, "present" or "deleted"
  callback,  \* scheduleCallbacks has an onSchedule for it
  known,     \* taskInstanceTemplateCache has the template
  call,      \* createTaskInstance calls, by the instance they will create
  unreg,     \* where unregisterTaskTemplate is: "no", "delete", "done"
  \* For the properties only.
  starts,    \* executions an instance was given since it was registered,
             \* but for those of manual runs; 2 is more
  owed       \* executions created for a task and not yet reported

vars == <<task, runs, template, callback, known, call, unreg, starts, owed>>
instanceVars == <<template, callback, known, call, unreg>>

Longest == CHOOSE i \in Intervals : \A j \in Intervals : j <= i
Cap == IF Longest > Retention THEN Longest ELSE Retention + 1

Fresh(i) == [next |-> i, since |-> Absent, active |-> TRUE, interval |-> i]

(* Both templates were registered and synchronized.                        *)
Init ==
  /\ \E i \in Intervals, c \in CustomIntervals :
       task = [t \in Tasks |-> CASE t \in Recurring -> Fresh(i)
                                [] t = Timer -> Fresh(c)
                                [] OTHER -> Absent]
  /\ runs = [t \in Tasks |-> [k \in Places |-> Absent]]
  /\ template = "present" /\ callback \in BOOLEAN /\ known = FALSE
  /\ call = [i \in Instances |-> "idle"]
  /\ unreg = "no"
  /\ starts = [i \in Instances |-> 0]
  /\ owed = [t \in Tasks |-> 0]

-----------------------------------------------------------------------------
Live(t) == {k \in Places : runs[t][k] # Absent}
Free(t) == Places \ Live(t)

(* createExecution for every task of ts.                                   *)
Execute(ts) ==
  /\ \A t \in ts : Free(t) # {}
  /\ runs' = [t \in Tasks |->
       IF t \in ts THEN [runs[t] EXCEPT ![CHOOSE k \in Free(t) : TRUE] =
                            [status |-> "pending", age |-> 0]]
                   ELSE runs[t]]
  /\ owed' = [t \in Tasks |-> IF t \in ts THEN owed[t] + 1 ELSE owed[t]]

(* Time passes.                                                            *)
Older(n, cap) == IF n = Absent \/ n = cap THEN n ELSE n + 1

Tick ==
  /\ task' = [t \in Tasks |->
       IF task[t] = Absent THEN Absent
       ELSE [task[t] EXCEPT !.next = IF @ = Year \/ @ = 0 THEN @ ELSE @ - 1,
                            !.since = Older(@, Cap)]]
  /\ runs' = [t \in Tasks |->
       [k \in Places |-> IF k \in Live(t) THEN [runs[t][k] EXCEPT !.age = Older(@, Retention + 1)] ELSE Absent]]
  /\ UNCHANGED <<instanceVars, starts, owed>>

-----------------------------------------------------------------------------
(* A module's createTaskInstance.  Nobody else has the name i.             *)
Unused(i) == task[i] = Absent /\ Live(i) = {} /\ call[i] = "idle"

(* The call begins; with a cached template it goes on to the detection of  *)
(* the target.                                                             *)
CreationBegins(i) ==
  call' = [call EXCEPT ![i] = IF known THEN "detect" ELSE "fetch"]

NoCreation == UNCHANGED call

CreateTaskInstance(i) ==
  /\ Unused(i)
  /\ CreationBegins(i)
  /\ UNCHANGED <<task, runs, template, callback, known, unreg, starts, owed>>

(* getTemplate's SELECT.                                                   *)
SelectTemplateInDb(i) ==
  /\ call[i] = "fetch"
  /\ call' = [call EXCEPT ![i] = IF template = "present" THEN "fetched" ELSE "empty"]
  /\ UNCHANGED <<task, runs, template, callback, known, unreg, starts, owed>>

(* The template is put into the cache, whatever happened since the SELECT. *)
TemplateSelected(i) ==
  /\ call[i] = "fetched"
  /\ known' = TRUE
  /\ call' = [call EXCEPT ![i] = "detect"]
  /\ UNCHANGED <<task, runs, template, callback, unreg, starts, owed>>

(* No row: undefined is cached too, and the call rejects.  Ids are never   *)
(* given again, so nobody will ask for it with success.                    *)
TemplateMissing(i) ==
  /\ call[i] = "empty"
  /\ call' = [call EXCEPT ![i] = "idle"]
  /\ UNCHANGED <<task, runs, template, callback, known, unreg, starts, owed>>

(* Mutant: the due time of the instance is left at now.                    *)
InstanceTaskDue == [next |-> 0, since |-> 0, active |-> TRUE, interval |-> Longest]

(* What is left once the execution was created.                            *)
InstanceTask == [next |-> Year, since |-> 0, active |-> TRUE, interval |-> Longest]

(* The target is known: register, execute and postpone at once.            *)
RegisterInstance(i) ==
  /\ call[i] = "detect"
  /\ Execute({i})
  /\ starts' = [starts EXCEPT ![i] = 1]
  /\ task' = [task EXCEPT ![i] = InstanceTask]
  /\ call' = [call EXCEPT ![i] = "idle"]
  /\ UNCHANGED <<template, callback, known, unreg>>

-----------------------------------------------------------------------------
(* checkDueTasks.                                                          *)

Due == {t \in Tasks : task[t] # Absent /\ task[t].next = 0}

(* Due tasks that get an execution.                                        *)
DueToRun == {t \in Due \ {Timer} : task[t].active}

(* Mutant: only tasks that ran are postponed by their interval, the others *)
(* stay due.                                                               *)
PostponedActive(t) ==
  IF task[t].active THEN [task[t] EXCEPT !.next = task[t].interval, !.since = 0]
  ELSE task[t]

(* nextExecutionAt and lastExecutedAt after the sweep; inactive tasks too. *)
Postponed(t) == [task[t] EXCEPT !.next = task[t].interval, !.since = 0]

(* onSchedule creates an instance, if a name is free.                      *)
OnSchedule ==
  IF \E i \in Instances : Unused(i)
  THEN \E i \in Instances : Unused(i) /\ CreationBegins(i)
  ELSE NoCreation

(* One sweep: one-time tasks go, recurring ones are postponed.             *)
CheckDueTasks ==
  /\ Due # {}
  /\ Execute(DueToRun)
  /\ starts' = [i \in Instances |-> IF i \in DueToRun THEN 2 ELSE starts[i]]
  /\ IF Timer \in Due /\ task[Timer].active /\ callback THEN OnSchedule ELSE NoCreation
  /\ task' = [t \in Tasks |->
       IF t \notin Due THEN task[t]
       ELSE IF t \in Instances THEN Absent ELSE Postponed(t)]
  /\ UNCHANGED <<template, callback, known, unreg>>

-----------------------------------------------------------------------------
(* Manual runs and edits.                                                  *)

(* runTemplateNow without a callback enqueues the scheduled tasks that     *)
(* exist, active or not, but for the one that is marked as a scheduler.    *)
RunExisting(ts) ==
  LET found == {t \in ts : task[t] # Absent}
  IN /\ found # {}
     /\ Execute(found)
     /\ UNCHANGED <<task, instanceVars, starts>>

RunTemplateNow == RunExisting(Recurring)

(* The CUSTOM template: its module is called, or its instances run again.  *)
(* The lookup may have found the template before it was deleted.           *)
RunCustomTemplateNow ==
  \/ /\ callback
     /\ OnSchedule
     /\ UNCHANGED <<task, runs, template, callback, known, unreg, starts, owed>>
  \/ /\ ~callback
     /\ RunExisting(Instances)

(* For a CUSTOM template the module's own callback makes an instance.      *)
RunTemplateForTarget(t) ==
  /\ task[t] # Absent
  /\ Execute({t})
  /\ UNCHANGED <<task, instanceVars, starts>>

(* syncTasksForTemplate: the due time of a task whose interval becomes i.  *)
NextAfter(r, i) ==
  LET passed == IF r.since = Absent THEN 0 ELSE r.since
  IN IF i = r.interval THEN r.next
     ELSE IF passed >= i THEN 1 ELSE i - passed

Resynced(r, i, on) == [r EXCEPT !.next = NextAfter(r, i), !.interval = i, !.active = on]

(* The interval or the switch of t's template changed.                     *)
Resync(t, i, on) ==
  /\ task[t] # Absent
  /\ \/ task[t].interval # i
     \/ task[t].active # on
  /\ task' = [task EXCEPT ![t] = Resynced(@, i, on)]
  /\ UNCHANGED <<runs, instanceVars, starts, owed>>

(* A sync of the CUSTOM template, whose timer goes on as any other task    *)
(* does, takes its instances out of the registry.                          *)
ResyncCustom(i, on) ==
  /\ task[Timer] # Absent
  /\ task' = [t \in Tasks |->
       CASE t = Timer -> Resynced(task[t], i, on)
         [] t \in Instances -> Absent
         [] OTHER -> task[t]]
  /\ UNCHANGED <<runs, instanceVars, starts, owed>>

(* The target of t is no longer scanned, or is scanned again.              *)
DropTask(t) ==
  /\ task[t] # Absent
  /\ task' = [task EXCEPT ![t] = Absent]
  /\ UNCHANGED <<runs, instanceVars, starts, owed>>

AddTask(t, i) ==
  /\ task[t] = Absent
  /\ task' = [task EXCEPT ![t] = Fresh(i)]
  /\ UNCHANGED <<runs, instanceVars, starts, owed>>

(* taskInstanceTemplateCache after unregisterTaskTemplate.                 *)
KnownAfter == FALSE

(* unregisterTaskTemplate of the CUSTOM template: tasks, callback and the  *)
(* cached entry go at once, the row when the DELETE was executed.          *)
Unregister ==
  /\ unreg = "no"
  /\ unreg' = "delete"
  /\ known' = KnownAfter /\ callback' = FALSE
  /\ task' = [t \in Tasks |-> IF t \in Recurring THEN task[t] ELSE Absent]
  /\ UNCHANGED <<runs, template, call, starts, owed>>

DeleteTemplateInDb ==
  /\ unreg = "delete"
  /\ unreg' = "done"
  /\ template' = "deleted"
  /\ UNCHANGED <<task, runs, callback, known, call, starts, owed>>

-----------------------------------------------------------------------------
(* What the dispatcher does with execution k of t.                         *)

Moves(t, k, from, to) ==
  /\ runs[t][k].status = from
  /\ runs' = [runs EXCEPT ![t][k].status = to]

Dispatch(t, k) ==
  /\ Moves(t, k, "pending", "running")
  /\ UNCHANGED <<task, instanceVars, starts, owed>>

(* The worker is gone.                                                     *)
Requeue(t, k) ==
  /\ Moves(t, k, "running", "pending")
  /\ UNCHANGED <<task, instanceVars, starts, owed>>

(* handleWorkerResult: the listeners are told, and a one-time task goes.   *)
Result(t, k) ==
  /\ Moves(t, k, "running", "ended")
  /\ owed' = [owed EXCEPT ![t] = @ - 1]
  /\ task' = IF t \in Instances THEN [task EXCEPT ![t] = Absent] ELSE task
  /\ UNCHANGED <<instanceVars, starts>>

(* Mutant: whatever is old goes.                                           *)
PrunableByAge(run) == run.age > Retention

(* clearOldExecutions.                                                     *)
Prunable(run) == run.status = "ended" /\ run.age > Retention

(* clearOldOneTimeTasks.                                                   *)
Orphaned(t) ==
  /\ t \in Instances /\ task[t] # Absent
  /\ task[t].since # Absent /\ task[t].since > Retention

(* The pruner's timer.                                                     *)
Prune ==
  /\ runs' = [t \in Tasks |->
       [k \in Places |-> IF k \in Live(t) /\ ~Prunable(runs[t][k]) THEN runs[t][k] ELSE Absent]]
  /\ task' = [t \in Tasks |-> IF Orphaned(t) THEN Absent ELSE task[t]]
  /\ UNCHANGED <<instanceVars, starts, owed>>

-----------------------------------------------------------------------------
Edit(t) ==
  \/ DropTask(t)
  \/ \E i \in Intervals :
       \/ AddTask(t, i)
       \/ \E on \in BOOLEAN : Resync(t, i, on)

Next ==
  \/ Tick
  \/ CheckDueTasks
  \/ RunTemplateNow \/ RunCustomTemplateNow
  \/ \E t \in Recurring : RunTemplateForTarget(t) \/ Edit(t)
  \/ \E i \in Instances :
       \/ CreateTaskInstance(i)
       \/ SelectTemplateInDb(i) \/ TemplateSelected(i) \/ TemplateMissing(i)
       \/ RegisterInstance(i)
  \/ \E i \in CustomIntervals, on \in BOOLEAN : ResyncCustom(i, on)
  \/ Unregister \/ DeleteTemplateInDb
  \/ \E t \in Tasks : \E k \in Live(t) : Dispatch(t, k) \/ Requeue(t, k) \/ Result(t, k)
  \/ Prune

(* The timers of the sweeps fire.  Nothing is assumed of the workers.  The *)
(* fairness of the sweep is strong because the bound MaxRuns, which the    *)
(* code does not have, may disable it for a while.                         *)
Fairness == WF_vars(Tick) /\ SF_vars(CheckDueTasks) /\ WF_vars(Prune)

Spec == Init /\ [][Next]_vars

FairSpec == Spec /\ Fairness
-----------------------------------------------------------------------------
(* Properties.                                                             *)

(* "Mark as executed to prevent the scheduler from creating a duplicate    *)
(* execution" (taskManager.ts:599): whatever the sweeps, syncs, results    *)
(* and the pruner do, an instance in the registry was executed for its     *)
(* registration and never again, unless somebody asked for it with a       *)
(* manual run of a CUSTOM template that has no onSchedule.                 *)
InstanceRunsOnce ==
  \A i \in Instances : starts[i] <= 1 /\ (task[i] # Absent => starts[i] = 1)

(* "in-flight result processing is never affected" (taskManager.ts:86):    *)
(* every execution whose listeners were not told yet is in the registry,   *)
(* however long it waits or runs, even when its task was pruned.           *)
NothingForgotten ==
  \A t \in Tasks :
    owed[t] = Cardinality({k \in Live(t) : runs[t][k].status # "ended"})

(* A recurring task comes round again and again, unless it is edited again *)
(* and again: no sequence of edits, switches and manual runs leaves it     *)
(* with a due time that is never reached.  (The last case is the bound on  *)
(* executions: the model, not the code, stops the sweep there.)            *)
ComesRound ==
  \A t \in Recurring :
    \/ []<>(task[t] # Absent /\ task[t].since = 0)
    \/ []<><<Edit(t)>>_vars
    \/ <>[](task[t] = Absent)
    \/ <>[](Free(t) = {})
=============================================================================
