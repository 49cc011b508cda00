------------------------------- MODULE TaskSync -------------------------------
(***************************************************************************)
(* How scheduled tasks follow the targets, the overrides and their         *)
(* template: syncTasksForTemplate and syncAllTasks (tasks/taskManager.ts), *)
(* the requests that call them (controllers/targets.ts and tasks.ts), the  *)
(* template service with its cache (tasks/taskTemplateService.ts) and the  *)
(* scheduled tasks of the registry (utils/registry.ts), for one template.  *)
(*                                                                         *)
(* One event loop; everything between two awaits is one action.  A step    *)
(* named ...InDb is the database executing a statement, the step after it  *)
(* is the event loop handling the answer.                                  *)
(***************************************************************************)
EXTENDS Integers, FiniteSets

CONSTANTS
  Targets,      \* targets that may be in the table
  NoTarget,     \* the targetId of a task that has none
  NoTemplate,   \* no row, or no entry of the cache
  Intervals,    \* intervals the template may have
  Types,        \* scheduling types of the template
  Kinds,        \* requests that may come
  MaxRequests,  \* bound: requests 1..MaxRequests come
  MaxOpen,      \* bound: requests and lookups that may be in progress at once
  Lookups,      \* others that may look the template up at once: the dispatcher,
                \* manual runs, modules that create an instance
  MaxInstances  \* bound: modules create an instance for a target only while
                \* fewer tasks than this were created for it

RequestKinds == {"addTarget", "editTarget", "deleteTarget", "updateTemplate",
                 "registerTemplate", "deleteTemplate", "setOverride", "removeOverride"}

Requests == 1..MaxRequests
Template == [active : BOOLEAN, interval : Intervals]
AnInterval == CHOOSE i \in Intervals : TRUE

ASSUME SyncAssumption ==
  /\ NoTarget \notin Targets
  /\ NoTemplate \notin Template
  /\ Intervals \subseteq Int /\ Intervals # {}
  /\ Types \subseteq {"TARGET_BASED", "GLOBAL", "CUSTOM"}
  /\ Kinds \subseteq RequestKinds
  /\ MaxRequests \in Nat /\ MaxOpen \in Nat /\ MaxInstances \in Nat

VARIABLES
  type,      \* schedulingType of the template
  template,  \* its row in task_templates
  scan,      \* rows of targets, with activeScan; ids of deleted targets are
             \* never given again
  override,  \* rows of target_task_overrides, with active
  cache,     \* templateCache
  tasks,     \* scheduledTasks of the registry
  created,   \* tasks created so far for each target, and without target
  pc,        \* where a request is
  job,       \* what it asks for, and the local variables of its sync
  holds,     \* setOverride requests that found a row which is still there
  asking,    \* lookups that missed the cache and sent their SELECT
  fetched,   \* the row that came back to a lookup, not cached yet
  overlapped \* for the properties: requests were in progress at once, or a
             \* lookup met a request that writes the template

dbVars == <<template, scan, override>>
taskVars == <<tasks, created>>
lookVars == <<asking, fetched>>
past == <<type, asking, fetched, overlapped>>
vars == <<past, dbVars, cache, taskVars, pc, job, holds>>

Owners == Targets \cup {NoTarget}
Most == 1 + MaxRequests + MaxInstances

(* A task is named by its target and the number of tasks created for that  *)
(* target up to it: names are never used twice, older tasks have smaller   *)
(* numbers.                                                                *)
Names == Owners \X (1..Most)
Task == [target : Owners, n : 1..Most, active : BOOLEAN, interval : Intervals,
         kind : {"plain", "scheduler", "instance"}]

-----------------------------------------------------------------------------
(* What syncTasksForTemplate does to the tasks ts of the registry, once    *)
(* its awaits are behind it.                                               *)

Name(t) == <<t.target, t.n>>

(* A new task is active, even if the template is not.                      *)
NewTask(o, kind, tm) ==
  [target |-> o, n |-> created[o] + 1, active |-> TRUE, interval |-> tm.interval,
   kind |-> kind]

Follow(t, tm) == [t EXCEPT !.active = tm.active, !.interval = tm.interval]

(* Mutant: tasks of targets that are no longer valid stay.                 *)
SyncTargetsKeeping(ts, tm, names, valid) ==
  {t \in ts : Name(t) \notin names}
    \cup {Follow(t, tm) : t \in {u \in ts : Name(u) \in names}}
    \cup {NewTask(o, "plain", tm) : o \in valid \ {x[1] : x \in names}}

(* Mutant: every valid target gets a task.                                 *)
SyncTargetsAnew(ts, tm, names, valid) ==
  {t \in ts : Name(t) \notin names}
    \cup {Follow(t, tm) : t \in {u \in ts : Name(u) \in names /\ u.target \in valid}}
    \cup {NewTask(o, "plain", tm) : o \in valid}

(* TARGET_BASED: names are the existing tasks, as listed before the await. *)
SyncTargets(ts, tm, names, valid) ==
  {t \in ts : Name(t) \notin names}
    \cup {Follow(t, tm) : t \in {u \in ts : Name(u) \in names /\ u.target \in valid}}
    \cup {NewTask(o, "plain", tm) : o \in valid \ {x[1] : x \in names}}

Oldest(ts) == CHOOSE t \in ts : \A u \in ts : t.n <= u.n

(* GLOBAL: one task without target.                                        *)
SyncGlobal(ts, tm) ==
  IF ts = {} THEN {NewTask(NoTarget, "plain", tm)} ELSE {Follow(Oldest(ts), tm)}

(* CUSTOM: one scheduler, none when the interval is not positive.  An      *)
(* instance without target may be taken for it.  In the end everything     *)
(* that is not marked as a scheduler goes.                                 *)
SyncCustom(ts, tm) ==
  LET free == {t \in ts : t.target = NoTarget}
  IN IF tm.interval <= 0 THEN {}
     ELSE IF free = {} THEN {NewTask(NoTarget, "scheduler", tm)}
     ELSE {t \in {Follow(Oldest(free), tm)} : t.kind = "scheduler"}

Synced(ts, tm, names, valid) ==
  CASE type = "TARGET_BASED" -> SyncTargets(ts, tm, names, valid)
    [] type = "GLOBAL"       -> SyncGlobal(ts, tm)
    [] type = "CUSTOM"       -> SyncCustom(ts, tm)

NamesOf(ts) == {Name(t) : t \in ts}

Exists(t) == scan[t] \in {"off", "on"}

Applicable == {t \in Targets : scan[t] = "on" /\ override[t] # "off"}

-----------------------------------------------------------------------------
(* The server has started, on any database, and the module has registered  *)
(* its template: createTemplate, getTemplate and the first sync are over.  *)
Init ==
  /\ type \in Types
  /\ template \in Template
  /\ scan \in [Targets -> {"absent", "off", "on"}]
  /\ override \in {f \in [Targets -> {"none", "off", "on"}] :
                     \A t \in Targets : scan[t] = "absent" => f[t] = "none"}
  /\ cache = template
  /\ LET first == [o \in Owners |-> 0]
         valid == IF template.active THEN Applicable ELSE {}
         one(kind) == [target |-> NoTarget, n |-> 1, active |-> TRUE,
                       interval |-> template.interval, kind |-> kind]
     IN /\ tasks = CASE type = "TARGET_BASED" ->
                          {[one("plain") EXCEPT !.target = t] : t \in valid}
                     [] type = "GLOBAL" -> {one("plain")}
                     [] type = "CUSTOM" ->
                          IF template.interval > 0 THEN {one("scheduler")} ELSE {}
        /\ created = [o \in Owners |-> IF \E t \in tasks : t.target = o THEN 1 ELSE 0]
  /\ pc = [r \in Requests |-> "new"]
  /\ job = [r \in Requests |-> NoTemplate]
  /\ asking = {} /\ fetched = [l \in Lookups |-> NoTemplate]
  /\ holds = {} /\ overlapped = FALSE

-----------------------------------------------------------------------------
Goto(r, label) == pc' = [pc EXCEPT ![r] = label] /\ UNCHANGED job

Ends(r) ==
  /\ pc' = [pc EXCEPT ![r] = "done"]
  /\ job' = [job EXCEPT ![r] = NoTemplate]

(* The synchronous end of a sync: update, create, delete.                  *)
Synchronize(r, tm, names, valid) ==
  /\ tasks' = Synced(tasks, tm, names, valid)
  /\ created' = [o \in Owners |->
       IF \E t \in tasks' : t.target = o /\ t.n > created[o] THEN created[o] + 1
                                                             ELSE created[o]]
  /\ Ends(r)

(* syncTasksForTemplate has its template: it lists the existing tasks, and *)
(* only TARGET_BASED with an active template awaits the targets.           *)
ListTasks(r, tm) ==
  IF type = "TARGET_BASED" /\ tm.active
  THEN /\ job' = [job EXCEPT ![r].seen = tm, ![r].known = NamesOf(tasks)]
       /\ pc' = [pc EXCEPT ![r] = "targets"]
       /\ UNCHANGED taskVars
  ELSE Synchronize(r, tm, NamesOf(tasks), {})

(* getTemplate with the cache c.                                           *)
GetTemplate(r, c) ==
  /\ cache' = c
  /\ IF c # NoTemplate THEN ListTasks(r, c)
     ELSE Goto(r, "template") /\ UNCHANGED taskVars

-----------------------------------------------------------------------------
(* updateTemplate invalidates the cache before its UPDATE.                 *)
CacheBefore(kind) == IF kind = "updateTemplate" THEN NoTemplate ELSE cache

InProgress == {r \in Requests : pc[r] \notin {"new", "done"}}

Writes(kind) == kind \in {"updateTemplate", "deleteTemplate"}

LookingUp == asking \cup {l \in Lookups : fetched[l] # NoTemplate}

Open == Cardinality(InProgress) + Cardinality(LookingUp)

(* A request comes.  deleteTemplate deletes the scheduled tasks before its *)
(* DELETE; setOverride looks for the row first.                            *)
Request(r) ==
  /\ pc[r] = "new"
  /\ \A q \in Requests : q < r => pc[q] # "new"
  /\ Open < MaxOpen
  /\ \E kind \in Kinds, t \in Owners, on \in BOOLEAN, i \in Intervals :
       /\ kind \in {"deleteTarget", "registerTemplate", "deleteTemplate", "removeOverride"} => on
       /\ kind # "updateTemplate" => i = AnInterval
       /\ kind \in {"updateTemplate", "registerTemplate", "deleteTemplate"} <=> t = NoTarget
       /\ job' = [job EXCEPT ![r] = [kind |-> kind, target |-> t, on |-> on, interval |-> i,
                                     seen |-> NoTemplate, known |-> {}, view |-> {}]]
       /\ pc' = [pc EXCEPT ![r] = IF kind = "setOverride" THEN "select" ELSE "write"]
       /\ cache' = CacheBefore(kind)
       /\ tasks' = IF kind = "deleteTemplate" THEN {} ELSE tasks
       /\ overlapped' = \/ overlapped
                        \/ InProgress # {}
                        \/ Writes(kind) /\ LookingUp # {}
  /\ UNCHANGED <<type, lookVars, dbVars, created, holds>>

-----------------------------------------------------------------------------
(* The statement of a request.  One that finds no row, or breaks a         *)
(* constraint, ends the request with an error.                             *)

At(r, label, kind) == pc[r] = label /\ job[r].kind = kind

Replied(r, ok) == IF ok THEN Goto(r, "written") ELSE Ends(r)

Scanning(r) == IF job[r].on THEN "on" ELSE "off"

NothingElse == UNCHANGED <<past, cache, taskVars>>

AddTargetInDb(r) ==
  LET t == job[r].target IN
  /\ At(r, "write", "addTarget")
  /\ Replied(r, scan[t] = "absent")
  /\ scan' = [scan EXCEPT ![t] = IF @ = "absent" THEN Scanning(r) ELSE @]
  /\ UNCHANGED <<template, override, holds>> /\ NothingElse

EditTargetInDb(r) ==
  LET t == job[r].target IN
  /\ At(r, "write", "editTarget")
  /\ Replied(r, Exists(t))
  /\ scan' = [scan EXCEPT ![t] = IF Exists(t) THEN Scanning(r) ELSE @]
  /\ UNCHANGED <<template, override, holds>> /\ NothingElse

(* The overrides of a target, or of the template, go with it.              *)
DeleteOverrides(ts) ==
  /\ override' = [t \in Targets |-> IF t \in ts THEN "none" ELSE override[t]]
  /\ holds' = {q \in holds : job[q].target \notin ts}

DeleteTargetInDb(r) ==
  LET t == job[r].target IN
  /\ At(r, "write", "deleteTarget")
  /\ Replied(r, Exists(t))
  /\ scan' = [scan EXCEPT ![t] = IF Exists(t) THEN "deleted" ELSE @]
  /\ DeleteOverrides({t})
  /\ UNCHANGED template /\ NothingElse

UpdateTemplateInDb(r) ==
  /\ At(r, "write", "updateTemplate")
  /\ Replied(r, template # NoTemplate)
  /\ template' = IF template = NoTemplate THEN NoTemplate
                 ELSE [active |-> job[r].on, interval |-> job[r].interval]
  /\ UNCHANGED <<scan, override, holds>> /\ NothingElse

(* createTemplate finds the row and keeps active and interval.  Its SELECT *)
(* and its UPDATE are one step.                                            *)
RegisterTemplateInDb(r) ==
  /\ At(r, "write", "registerTemplate")
  /\ Replied(r, template # NoTemplate)
  /\ UNCHANGED <<dbVars, holds>> /\ NothingElse

DeleteTemplateInDb(r) ==
  /\ At(r, "write", "deleteTemplate")
  /\ Replied(r, TRUE)
  /\ template' = NoTemplate
  /\ DeleteOverrides(Targets)
  /\ UNCHANGED scan /\ NothingElse

(* setTargetOverride: SELECT, then UPDATE by the id of the row or INSERT.  *)
SelectOverrideInDb(r) ==
  LET found == override[job[r].target] # "none" IN
  /\ pc[r] = "select"
  /\ Goto(r, IF found THEN "update" ELSE "insert")
  /\ holds' = IF found THEN holds \cup {r} ELSE holds
  /\ UNCHANGED dbVars /\ NothingElse

UpdateOverrideInDb(r) ==
  /\ pc[r] = "update"
  /\ Replied(r, TRUE)
  /\ override' = IF r \in holds THEN [override EXCEPT ![job[r].target] = Scanning(r)]
                 ELSE override
  /\ holds' = holds \ {r}
  /\ UNCHANGED <<template, scan>> /\ NothingElse

(* Refused when the row, the only one for its target and template, exists, *)
(* or when one of these does not.                                          *)
InsertOverrideInDb(r) ==
  LET t == job[r].target
      accepted == override[t] = "none" /\ Exists(t) /\ template # NoTemplate
  IN
  /\ pc[r] = "insert"
  /\ Replied(r, accepted)
  /\ override' = IF accepted THEN [override EXCEPT ![t] = Scanning(r)] ELSE override
  /\ UNCHANGED <<template, scan, holds>> /\ NothingElse

RemoveOverrideInDb(r) ==
  /\ At(r, "write", "removeOverride")
  /\ Replied(r, TRUE)
  /\ DeleteOverrides({job[r].target})
  /\ UNCHANGED <<template, scan>> /\ NothingElse

Statement(r) ==
  \/ AddTargetInDb(r) \/ EditTargetInDb(r) \/ DeleteTargetInDb(r)
  \/ UpdateTemplateInDb(r) \/ RegisterTemplateInDb(r) \/ DeleteTemplateInDb(r)
  \/ SelectOverrideInDb(r) \/ UpdateOverrideInDb(r) \/ InsertOverrideInDb(r)
  \/ RemoveOverrideInDb(r)

-----------------------------------------------------------------------------
(* The event loop goes on with a request whose statement succeeded.        *)

(* Target requests call syncAllTasks, editTarget only when the target is   *)
(* to be scanned.                                                          *)
TargetChanged(r) ==
  /\ pc[r] = "written"
  /\ job[r].kind \in {"addTarget", "editTarget", "deleteTarget"}
  /\ IF job[r].kind = "editTarget" /\ ~job[r].on THEN Ends(r) ELSE Goto(r, "templates")
  /\ UNCHANGED <<past, dbVars, cache, taskVars, holds>>

(* createTemplate drops the cached entry; updateTemplate did so before.    *)
Invalidated(r) == IF job[r].kind = "registerTemplate" THEN NoTemplate ELSE cache

TemplateChanged(r) ==
  /\ pc[r] = "written"
  /\ job[r].kind \in {"updateTemplate", "registerTemplate", "setOverride"}
  /\ GetTemplate(r, Invalidated(r))
  /\ UNCHANGED <<past, dbVars, holds>>

TemplateDeleted(r) ==
  /\ pc[r] = "written"
  /\ job[r].kind = "deleteTemplate"
  /\ cache' = NoTemplate
  /\ Ends(r)
  /\ UNCHANGED <<past, dbVars, taskVars, holds>>

(* removeOverrides does nothing more.                                      *)
OverrideRemoved(r) ==
  /\ pc[r] = "written"
  /\ job[r].kind = "removeOverride"
  /\ Ends(r)
  /\ UNCHANGED <<past, dbVars, cache, taskVars, holds>>

-----------------------------------------------------------------------------
(* The awaits of syncTasksForTemplate.                                     *)

ReadTemplateInDb(r) ==
  /\ pc[r] = "template"
  /\ job' = [job EXCEPT ![r].seen = template]
  /\ pc' = [pc EXCEPT ![r] = "fetched"]
  /\ UNCHANGED <<past, dbVars, cache, taskVars, holds>>

(* The row is cached, whatever happened to the cache since the SELECT.     *)
TemplateFetched(r) ==
  /\ pc[r] = "fetched"
  /\ IF job[r].seen = NoTemplate
     THEN Ends(r) /\ UNCHANGED <<cache, taskVars>>
     ELSE cache' = job[r].seen /\ ListTasks(r, job[r].seen)
  /\ UNCHANGED <<past, dbVars, holds>>

ReadTargetsInDb(r, from, to) ==
  /\ pc[r] = from
  /\ job' = [job EXCEPT ![r].view = {t \in Targets : scan[t] = "on"}]
  /\ pc' = [pc EXCEPT ![r] = to]
  /\ UNCHANGED <<past, dbVars, cache, taskVars, holds>>

ReadOverridesInDb(r, from, to) ==
  /\ pc[r] = from
  /\ job' = [job EXCEPT ![r].view = {t \in @ : override[t] # "off"}]
  /\ pc' = [pc EXCEPT ![r] = to]
  /\ UNCHANGED <<past, dbVars, cache, taskVars, holds>>

(* getTargetsForTask returned: the tasks listed before are synchronized.   *)
TargetsFetched(r) ==
  /\ pc[r] = "apply"
  /\ Synchronize(r, job[r].seen, job[r].known, job[r].view)
  /\ UNCHANGED <<past, dbVars, cache, holds>>

(* syncAllTasks: templates, targets and overrides are read one after the   *)
(* other; then the tasks are listed and synchronized at once.              *)
ReadTemplatesInDb(r) ==
  /\ pc[r] = "templates"
  /\ IF template = NoTemplate THEN Ends(r)
     ELSE /\ job' = [job EXCEPT ![r].seen = template]
          /\ pc' = [pc EXCEPT ![r] = "allTargets"]
  /\ UNCHANGED <<past, dbVars, cache, taskVars, holds>>

AllFetched(r) ==
  /\ pc[r] = "applyAll"
  /\ Synchronize(r, job[r].seen, NamesOf(tasks), job[r].view)
  /\ UNCHANGED <<past, dbVars, cache, holds>>

Sync(r) ==
  \/ ReadTemplateInDb(r) \/ TemplateFetched(r)
  \/ ReadTargetsInDb(r, "targets", "overrides")
  \/ ReadOverridesInDb(r, "overrides", "apply")
  \/ TargetsFetched(r)
  \/ ReadTemplatesInDb(r)
  \/ ReadTargetsInDb(r, "allTargets", "allOverrides")
  \/ ReadOverridesInDb(r, "allOverrides", "applyAll")
  \/ AllFetched(r)

-----------------------------------------------------------------------------
(* Outside the requests assignNextTask, runTemplateForTarget,              *)
(* runTemplateNow and createTaskInstance call getTemplate as well.  What   *)
(* misses the cache caches the row its SELECT finds, whatever happened to  *)
(* the cache or to the row since.                                          *)

AskTemplate(l) ==
  /\ l \notin LookingUp
  /\ Open < MaxOpen
  /\ cache = NoTemplate
  /\ asking' = asking \cup {l}
  /\ overlapped' = (overlapped \/ \E r \in InProgress : Writes(job[r].kind))
  /\ UNCHANGED <<type, fetched, dbVars, cache, taskVars, pc, job, holds>>

LookupInDb(l) ==
  /\ l \in asking
  /\ asking' = asking \ {l}
  /\ fetched' = [fetched EXCEPT ![l] = template]
  /\ UNCHANGED <<type, overlapped, dbVars, cache, taskVars, pc, job, holds>>

LookupFills(l) ==
  /\ fetched[l] # NoTemplate
  /\ cache' = fetched[l]
  /\ fetched' = [fetched EXCEPT ![l] = NoTemplate]
  /\ UNCHANGED <<type, asking, overlapped, dbVars, taskVars, pc, job, holds>>

Lookup(l) == AskTemplate(l) \/ LookupInDb(l) \/ LookupFills(l)

-----------------------------------------------------------------------------
(* Instances of a CUSTOM template, which its module creates at any time    *)
(* and which go when their result arrives.  A module may name a target     *)
(* that was deleted meanwhile, and createTaskInstance, which has a cache   *)
(* of its own, may still know a template that was.  Nobody uses the        *)
(* interval of an instance.                                                *)

Instances == {t \in tasks : t.kind = "instance"}

CreateTaskInstance(o) ==
  /\ type = "CUSTOM"
  /\ o \in Targets => scan[o] # "absent"
  /\ created[o] < MaxInstances
  /\ tasks' = tasks \cup {NewTask(o, "instance", [active |-> TRUE, interval |-> AnInterval])}
  /\ created' = [created EXCEPT ![o] = @ + 1]
  /\ UNCHANGED <<past, dbVars, cache, pc, job, holds>>

InstanceDone(t) ==
  /\ tasks' = tasks \ {t}
  /\ UNCHANGED <<past, dbVars, cache, created, pc, job, holds>>

-----------------------------------------------------------------------------
Next ==
  \/ \E r \in Requests :
       \/ Request(r)
       \/ Statement(r)
       \/ TargetChanged(r) \/ TemplateChanged(r) \/ TemplateDeleted(r) \/ OverrideRemoved(r)
       \/ Sync(r)
  \/ \E l \in Lookups : Lookup(l)
  \/ \E o \in Owners : CreateTaskInstance(o)
  \/ \E t \in Instances : InstanceDone(t)

Spec == Init /\ [][Next]_vars
-----------------------------------------------------------------------------
(* Properties.                                                             *)

Quiet == InProgress = {}

Follows(t) == t.active = template.active /\ t.interval = template.interval

(* The registry holds what the database asks for, but for duplicates: the  *)
(* targets that have tasks are those that are due.                         *)
Exact ==
  /\ \A t \in tasks : Follows(t)
  /\ CASE type = "TARGET_BASED" -> {t.target : t \in tasks} = Applicable
       [] type = "GLOBAL" -> Cardinality(tasks) = 1
       [] type = "CUSTOM" ->
            IF template.interval <= 0 THEN tasks = {}
            ELSE \E t \in tasks : tasks = {t} /\ t.kind = "scheduler"

(* A sync gives a new task only to a target that has none, and deletes     *)
(* none of a target that is due: whoever has a handle of it keeps it.      *)
AddsWhatIsMissing ==
  type = "TARGET_BASED" =>
    /\ \A t \in tasks : t.target \in Applicable => Name(t) \in NamesOf(tasks')
    /\ \A t \in tasks', u \in tasks : t.target = u.target => Name(t) \in NamesOf(tasks)

(* The sync of r ends in this step, and what it works with is up to date.  *)
EndsFresh(r) ==
  /\ template # NoTemplate /\ template.active
  /\ \A t \in Instances : t.target # NoTarget
  /\ pc'[r] = "done"
  /\ CASE pc[r] = "written"  -> job[r].kind \in {"updateTemplate", "registerTemplate", "setOverride"}
                                  /\ cache = template
       [] pc[r] = "fetched"  -> job[r].seen = template
       [] pc[r] = "apply"    -> job[r].seen = template /\ job[r].view = Applicable
                                  /\ job[r].known = NamesOf(tasks)
       [] pc[r] = "applyAll" -> job[r].seen = template
                                  /\ (type = "TARGET_BASED" => job[r].view = Applicable)
       [] OTHER -> FALSE

(* "Creates tasks for new targets, removes tasks for inactive targets, and *)
(* updates interval for existing tasks" (taskManager.ts:283): whatever     *)
(* other requests left in the registry, a sync that works with fresh data  *)
(* of an active template ends with tasks for exactly the targets that are  *)
(* due, all as the template says; it makes no second task for a target,    *)
(* and the duplicates that overlapping syncs made before stay.             *)
FreshSyncRepairs ==
  [][\A r \in Requests : EndsFresh(r) => Exact' /\ AddsWhatIsMissing]_vars

(* However requests interleave there is at most one global task, and one   *)
(* scheduler.                                                              *)
SchedulerUnique ==
  Cardinality({t \in tasks : t.target = NoTarget /\ t.kind # "instance"}) <= 1

(* Requests that do not overlap never give a target two tasks of the       *)
(* template.                                                               *)
OneTaskPerTarget ==
  ~overlapped => \A t, u \in tasks \ Instances : t.target = u.target => t = u

(* "Every write below invalidates the affected entry" (taskTemplateService *)
(* .ts:7): when requests do not overlap, and no lookup of the dispatcher   *)
(* meets one that writes the template, the cache is never stale at rest.   *)
CacheCoherent == ~overlapped /\ Quiet => cache \in {template, NoTemplate}

(* When requests do not overlap, nothing is scheduled for a target or a    *)
(* template that was deleted.                                              *)
NothingForDeleted ==
  ~overlapped /\ Quiet =>
    \A t \in tasks \ Instances :
      template # NoTemplate /\ (t.target \in Targets => Exists(t.target))

(* Requests never make a second global or scheduler task; and when they    *)
(* overlap neither with each other nor, where they write the template,     *)
(* with a lookup, they leave nothing twice, stale or for what was deleted. *)
RegistrySound == SchedulerUnique /\ OneTaskPerTarget /\ CacheCoherent /\ NothingForDeleted

(* "Ensures all templates have scheduled tasks for all applicable targets" *)
(* (taskManager.ts:623).                                                   *)
EveryTargetScheduled ==
  Quiet /\ type = "TARGET_BASED" /\ template # NoTemplate /\ template.active =>
    Applicable \subseteq {t.target : t \in tasks}
=============================================================================
