---------------------------- MODULE TaskCommands -----------------------------
(***************************************************************************)
(* How the commands of an execution are made (tasks/taskBuilder.ts, called *)
(* by assignNextTask of tasks/taskManager.ts): createExecution copies them *)
(* from the template, an assignment prepends the installation of the tools *)
(* its worker lacks and replaces the placeholders, first the tools, then   *)
(* after an await the target, then the custom data.  An assignment without *)
(* missing tools works on the execution's own commands, which a requeued   *)
(* execution brings along to its next worker.  The target is looked up in  *)
(* the snapshot of all targets that services/targets.ts caches.            *)
(*                                                                         *)
(* A command is what one placeholder in it stands for: <<kind, name,       *)
(* version>>, the version that of the settings it comes from.  Every step  *)
(* maps the commands one by one and none looks at its neighbours, so that  *)
(* an array of them is a set.  Arrays are references, so they live in a    *)
(* heap: 0 is the template's, e the execution's, Clone the copy made for   *)
(* an installation.                                                        *)
(***************************************************************************)
EXTENDS Integers

CONSTANTS
  Commands,      \* the template's commands, with placeholders, as written
  RequiredTools, \* the names of its requiredTools
  CustomValue,   \* what stands for {{key}}, by key of the custom data
  Targets, Untargeted,
  ToolsOf,       \* the tools each worker has at first, by worker
  MaxExecutions, \* bound: executions
  MaxTries,      \* bound: assignments begun
  MaxSettings    \* bound: targets added, changed or deleted

Workers == DOMAIN ToolsOf
Clone == MaxExecutions + 1

ASSUME TaskCommandsAssumption ==
  /\ MaxExecutions \in Nat /\ MaxTries \in Nat /\ MaxSettings \in Nat /\ Untargeted \notin Targets
  /\ \A c \in Commands : c[1] \notin {"agent", "domain"}

VARIABLES
  tcHeap,     \* arrays of commands
  tcState,    \* of an execution: "none", "pending", "running", "ended", or
              \* "dropped": pending, and in no queue
  tcTarget,   \* its targetId
  tcWorker,   \* whom it was sent to last
  tcJob,      \* the assignment under way
  tcTools,    \* availableTools
  tcSettings, \* the version of each target: 0 before it is added, -1 once
              \* it is deleted
  tcSnapshot, \* the versions in the cached snapshot
  tcTries, tcChanges,
  tcSent,     \* for the properties: what each execution's worker last got
  tcSeen      \* for the properties: the target its commands were last made
              \* for, Untargeted if the snapshot did not have it

settingVars == <<tcSettings, tcSnapshot, tcChanges>>
commandVars ==
  <<tcHeap, tcState, tcTarget, tcWorker, tcJob, tcTools, settingVars, tcTries, tcSent, tcSeen>>

Executions == 1..MaxExecutions
NoJob == [execution |-> 0, worker |-> "", object |-> 0, step |-> ""]

TaskCommandsInit ==
  /\ tcHeap = [o \in 0..Clone |-> IF o = 0 THEN Commands ELSE {}]
  /\ tcState = [e \in Executions |-> "none"]
  /\ tcTarget = [e \in Executions |-> Untargeted]
  /\ tcWorker = [e \in Executions |-> ""]
  /\ tcJob = NoJob
  /\ tcTools = ToolsOf
  /\ tcSettings \in [Targets -> {0, 1}] /\ tcSnapshot = tcSettings
  /\ tcTries = 0 /\ tcChanges = 0
  /\ tcSent = [e \in Executions |-> {}]
  /\ tcSeen = [e \in Executions |-> Untargeted]

-----------------------------------------------------------------------------
(* taskBuilder.ts.                                                         *)

(* Mutant: only the tools being installed are replaced.                    *)
KnownToolsMissing(missing) == missing
KnownTools(missing) == RequiredTools

(* replaceToolPlaceholders.                                                *)
ToolReplaced(c, missing) ==
  IF c[1] = "{tool}" /\ c[2] \in KnownTools(missing) THEN <<"tool", c[2], 0>> ELSE c

Known(t) == t # Untargeted /\ tcSnapshot[t] > 0

(* replaceTargetPlaceholders: the settings of the snapshot, or defaults.   *)
TargetReplaced(c, t) ==
  CASE c[1] = "{agent}" -> IF Known(t) THEN <<"agent", t, tcSnapshot[t]>> ELSE <<"agent", Untargeted, 0>>
    [] c[1] = "{domain}" /\ Known(t) -> <<"domain", t, 0>>
    [] OTHER -> c

(* replaceCustomDataPlaceholders: of what a value brings along only the    *)
(* user agent is replaced, by the default.                                 *)
CustomReplaced(c) ==
  LET d == IF c[1] = "{custom}" /\ c[2] \in DOMAIN CustomValue THEN CustomValue[c[2]] ELSE c
  IN IF d[1] = "{agent}" THEN <<"agent", Untargeted, 0>> ELSE d

(* installToolsTask.                                                       *)
WithInstalls(missing, commands) == {<<"install", tool, 0>> : tool \in missing} \cup commands

-----------------------------------------------------------------------------
(* taskManager.ts.                                                         *)

(* createExecution, for a target that was added at some time.              *)
Create(e, t) ==
  /\ t # Untargeted => tcSettings[t] # 0
  /\ tcState[e] = "none" /\ \A d \in Executions : d < e => tcState[d] # "none"
  /\ tcState' = [tcState EXCEPT ![e] = "pending"]
  /\ tcTarget' = [tcTarget EXCEPT ![e] = t]
  /\ tcHeap' = [tcHeap EXCEPT ![e] = tcHeap[0]]
  /\ UNCHANGED <<tcWorker, tcJob, tcTools, settingVars, tcTries, tcSent, tcSeen>>

MissingTools(w) == RequiredTools \ tcTools[w]

(* One assignment at a time: a worker is chosen, then everything up to the *)
(* first await.                                                            *)
Prepare(e, w) ==
  /\ tcJob = NoJob /\ tcState[e] = "pending"
  /\ tcTries < MaxTries /\ tcTries' = tcTries + 1
  /\ LET missing == MissingTools(w)
         object == IF missing = {} THEN e ELSE Clone
     IN /\ tcHeap' = [tcHeap EXCEPT ![object] =
                        {ToolReplaced(c, missing) : c \in WithInstalls(missing, tcHeap[e])}]
        /\ tcJob' = [execution |-> e, worker |-> w, object |-> object, step |-> "target"]
  /\ UNCHANGED <<tcState, tcTarget, tcWorker, tcTools, settingVars, tcSent, tcSeen>>

ReplaceTarget ==
  /\ tcJob.step = "target" /\ tcJob' = [tcJob EXCEPT !.step = "custom"]
  /\ tcHeap' = [tcHeap EXCEPT ![tcJob.object] =
                  {TargetReplaced(c, tcTarget[tcJob.execution]) : c \in @}]
  /\ tcSeen' = [tcSeen EXCEPT ![tcJob.execution] =
                  IF Known(tcTarget[tcJob.execution]) THEN tcTarget[tcJob.execution] ELSE Untargeted]
  /\ UNCHANGED <<tcState, tcTarget, tcWorker, tcTools, settingVars, tcTries, tcSent>>

(* getTargetsWithDetails rejects: assignNextTask ends in its catch, and    *)
(* the execution it had taken from the queue is not put back.              *)
TargetFails ==
  /\ tcJob.step = "target" /\ tcTarget[tcJob.execution] # Untargeted
  /\ tcState' = [tcState EXCEPT ![tcJob.execution] = "dropped"]
  /\ tcJob' = NoJob
  /\ UNCHANGED <<tcHeap, tcTarget, tcWorker, tcTools, settingVars, tcTries, tcSent, tcSeen>>

ReplaceCustomData ==
  /\ tcJob.step = "custom" /\ tcJob' = [tcJob EXCEPT !.step = "send"]
  /\ tcHeap' = [tcHeap EXCEPT ![tcJob.object] = {CustomReplaced(c) : c \in @}]
  /\ UNCHANGED <<tcState, tcTarget, tcWorker, tcTools, settingVars, tcTries, tcSent, tcSeen>>

Send ==
  /\ tcJob.step = "send" /\ tcJob.worker # "" /\ tcJob' = NoJob
  /\ tcState' = [tcState EXCEPT ![tcJob.execution] = "running"]
  /\ tcWorker' = [tcWorker EXCEPT ![tcJob.execution] = tcJob.worker]
  /\ tcSent' = [tcSent EXCEPT ![tcJob.execution] = tcHeap[tcJob.object]]
  /\ UNCHANGED <<tcHeap, tcTarget, tcTools, settingVars, tcTries, tcSeen>>

(* The worker is gone: the execution stays pending, as changed as it is.   *)
SendFails ==
  /\ tcJob.step = "send" /\ tcJob' = NoJob
  /\ UNCHANGED <<tcHeap, tcState, tcTarget, tcWorker, tcTools, settingVars, tcTries, tcSent, tcSeen>>

(* handleWorkerResult: the worker is taken to have all required tools.     *)
Finish(e) ==
  /\ tcState[e] = "running" /\ tcState' = [tcState EXCEPT ![e] = "ended"]
  /\ tcTools' = [tcTools EXCEPT ![tcWorker[e]] = @ \cup RequiredTools]
  /\ UNCHANGED <<tcHeap, tcTarget, tcWorker, tcJob, settingVars, tcTries, tcSent, tcSeen>>

(* handleWorkerDisconnect: a new worker without the tools takes its place. *)
WorkerLost(w) ==
  /\ \E e \in Executions : tcState[e] = "running" /\ tcWorker[e] = w
  /\ tcState' = [e \in Executions |->
                   IF tcState[e] = "running" /\ tcWorker[e] = w THEN "pending" ELSE tcState[e]]
  /\ tcTools' = [tcTools EXCEPT ![w] = ToolsOf[w]]
  /\ tcJob' = [tcJob EXCEPT !.worker = IF @ = w THEN "" ELSE @]
  /\ UNCHANGED <<tcHeap, tcTarget, tcWorker, settingVars, tcTries, tcSent, tcSeen>>

(* A target is added, changed or deleted; its id is never used again.      *)
ChangeTarget(t) ==
  /\ tcSettings[t] >= 0 /\ tcChanges < MaxSettings /\ tcChanges' = tcChanges + 1
  /\ \E version \in {tcSettings[t] + 1, -1} :
       /\ version = -1 => tcSettings[t] > 0
       /\ tcSettings' = [tcSettings EXCEPT ![t] = version]
  /\ UNCHANGED <<tcHeap, tcState, tcTarget, tcWorker, tcJob, tcTools, tcSnapshot, tcTries, tcSent, tcSeen>>

(* The snapshot is fetched anew, at some time after the change: the entry  *)
(* expires, or it is invalidated (TargetsCache).                           *)
Refetch ==
  /\ tcSnapshot # tcSettings /\ tcSnapshot' = tcSettings
  /\ UNCHANGED <<tcHeap, tcState, tcTarget, tcWorker, tcJob, tcTools, tcSettings, tcTries, tcChanges, tcSent, tcSeen>>

TaskCommandsNext ==
  \/ \E e \in Executions :
       \/ \E t \in Targets \cup {Untargeted} : Create(e, t)
       \/ \E w \in Workers : Prepare(e, w)
       \/ Finish(e)
  \/ ReplaceTarget \/ TargetFails \/ ReplaceCustomData \/ Send \/ SendFails
  \/ \E w \in Workers : WorkerLost(w)
  \/ (\E t \in Targets : ChangeTarget(t)) \/ Refetch

TaskCommandsSpec == TaskCommandsInit /\ [][TaskCommandsNext]_commandVars
-----------------------------------------------------------------------------
(* Properties.                                                             *)

(* Nothing the builder knows is sent unreplaced, and nothing of another    *)
(* target - except for what custom data brings along, and for the domain   *)
(* of an execution without a target, or whose target the snapshot did not  *)
(* have in the assignment that sent it: it was deleted, or just added.     *)
SentIsReplaced ==
  \A e \in Executions : tcState[e] = "running" =>
    \A c \in tcSent[e] :
      \/ c[1] \in {"agent", "domain"} /\ c[2] \in {tcTarget[e], Untargeted}
      \/ c[1] \notin {"agent", "domain", "{tool}", "{agent}", "{domain}", "{custom}"}
      \/ c[1] = "{tool}" /\ c[2] \notin RequiredTools
      \/ c[1] = "{custom}" /\ c[2] \notin DOMAIN CustomValue
      \/ c[1] = "{domain}" /\ tcSeen[e] = Untargeted
      \/ \E k \in DOMAIN CustomValue : c = CustomValue[k]
=============================================================================
