----------------------------- MODULE TargetsCache -----------------------------
(***************************************************************************)
(* The two caches of services/targets.ts - all targets, and the targets of *)
(* one task template - with the requests in flight that fill them, against *)
(* the writes of controllers/targets.ts that invalidate them.              *)
(*                                                                         *)
(* What a table holds is its version: every statement that changes it      *)
(* makes the next one.  A step named Db... is the database executing a     *)
(* statement; the others are the event loop.                               *)
(***************************************************************************)
EXTENDS Naturals, FiniteSets

CONSTANTS
  TargetWrites,   \* addTarget, editTarget, deleteTarget: one statement
  DetailWrites,   \* setTargetSubdomains, -Packages, -Settings: DELETE, then INSERTs
  OverrideWrites, \* changes of the overrides or of the template's row
  MaxInserts,     \* bound: INSERTs of one details write
  NoEntry         \* no cache entry, or no request in flight

TableWrites == TargetWrites \cup DetailWrites \cup OverrideWrites

VARIABLES
  tbTargets,   \* version of targets
  tbDetails,   \* version of targets_subdomains, -packages and -settings
  tbOverrides, \* version of target_task_overrides and task_templates
  twPc,        \* where each write is
  allCache,    \* allTargetsCache
  allFlight,   \* allTargetsInFlight
  taskCache,   \* targetsForTaskCache of the template
  taskFlight,  \* targetsForTaskInFlight of the template
  twLeft       \* INSERTs of a details write that are still under way

tbVars == <<tbTargets, tbDetails, tbOverrides>>
tcVars == <<allCache, allFlight, taskCache, taskFlight>>
targetsVars == <<tbVars, twPc, twLeft, tcVars>>

(* A value being fetched or cached holds the versions it was read at, and, *)
(* for the properties, crossed: an invalidation came while it was fetched, *)
(* or a write that changed a table ended without one since the fetch began.*)

ASSUME TargetsAssumption ==
  /\ TargetWrites \cap DetailWrites = {} /\ TargetWrites \cap OverrideWrites = {}
  /\ DetailWrites \cap OverrideWrites = {}
  /\ MaxInserts \in Nat

TargetsInit ==
  /\ tbTargets = 0 /\ tbDetails = 0 /\ tbOverrides = 0
  /\ twPc = [w \in TableWrites |-> "idle"]
  /\ allCache = NoEntry /\ allFlight = NoEntry
  /\ taskCache = NoEntry /\ taskFlight = NoEntry
  /\ twLeft = [w \in DetailWrites |-> 0]

-----------------------------------------------------------------------------
(* Writes.  A statement is sent up to READ_MAX_RETRIES times (database.ts, *)
(* withRetry: the controllers do not ask for the retries of a write), also *)
(* one that was executed and whose answer was lost; here it is lost once.  *)

Advance(w, to) == twPc' = [twPc EXCEPT ![w] = to]

WriteRequest(w) ==
  /\ twPc[w] = "idle"
  /\ Advance(w, "sent")
  /\ UNCHANGED <<tbVars, twLeft, tcVars>>

(* The statement is executed and its answer lost: it is sent again.        *)
AnswerLost(w) ==
  /\ twPc[w] = "sent" /\ w \notin OverrideWrites
  /\ tbTargets' = IF w \in TargetWrites THEN tbTargets + 1 ELSE tbTargets
  /\ tbDetails' = IF w \in DetailWrites THEN tbDetails + 1 ELSE tbDetails
  /\ Advance(w, "again")
  /\ UNCHANGED <<tbOverrides, twLeft, tcVars>>

(* The statement returns a row; an INSERT or an UPDATE does so when it is  *)
(* executed a second time as well.                                         *)
DbWriteTarget(w) ==
  /\ w \in TargetWrites /\ twPc[w] \in {"sent", "again"}
  /\ tbTargets' = tbTargets + 1
  /\ Advance(w, "written")
  /\ UNCHANGED <<tbDetails, tbOverrides, twLeft, tcVars>>

(* The DELETE, and the INSERTs that Promise.all sends after it.            *)
DbDeleteDetails(w) ==
  /\ w \in DetailWrites /\ twPc[w] \in {"sent", "again"}
  /\ tbDetails' = tbDetails + 1
  /\ \E n \in 0..MaxInserts :
       /\ twLeft' = [twLeft EXCEPT ![w] = n]
       /\ Advance(w, IF n = 0 THEN "written" ELSE "deleted")
  /\ UNCHANGED <<tbTargets, tbOverrides, tcVars>>

(* The overrides and the template's row are changed without a word to this *)
(* cache (tasks/taskTemplateService.ts).                                   *)
DbWriteOverride(w) ==
  /\ w \in OverrideWrites /\ twPc[w] = "sent"
  /\ tbOverrides' = tbOverrides + 1
  /\ Advance(w, "answered")
  /\ UNCHANGED <<tbTargets, tbDetails, twLeft, tcVars>>

Crossed(v) == [v EXCEPT !.crossed = TRUE]
CrossedFlight(f) == IF f = NoEntry THEN NoEntry ELSE [f EXCEPT !.value = Crossed(@)]
CrossedEntry(e) == IF e = NoEntry THEN NoEntry ELSE Crossed(e)

FlightsCrossed == allFlight' = CrossedFlight(allFlight) /\ taskFlight' = CrossedFlight(taskFlight)

(* A change that no invalidation follows: every entry and every request in *)
(* flight may be older than it.                                            *)
Unannounced ==
  /\ allCache' = CrossedEntry(allCache) /\ taskCache' = CrossedEntry(taskCache)
  /\ FlightsCrossed

(* One of the INSERTs; the last one of a request that goes on ends it.     *)
DbInsertDetails(w) ==
  /\ w \in DetailWrites /\ twPc[w] = "deleted" /\ twLeft[w] > 0
  /\ tbDetails' = tbDetails + 1
  /\ twLeft' = [twLeft EXCEPT ![w] = @ - 1]
  /\ Advance(w, IF twLeft[w] = 1 THEN "written" ELSE "deleted")
  /\ UNCHANGED <<tbTargets, tbOverrides, tcVars>>

(* Mutant: only the first cache is dropped.                                *)
InvalidatedAllOnly == allCache' = NoEntry /\ UNCHANGED taskCache

(* What invalidateTargetsCache does to the caches.                         *)
Invalidated == allCache' = NoEntry /\ taskCache' = NoEntry

(* The write was answered: invalidateTargetsCache.  The requests in flight *)
(* stay.                                                                   *)
WriteAnswered(w) ==
  /\ twPc[w] = "written"
  /\ Invalidated /\ FlightsCrossed
  /\ Advance(w, "answered")
  /\ UNCHANGED <<tbVars, twLeft>>

(* A DELETE executed a second time finds no row: deleteTarget answers 404  *)
(* and leaves the caches alone.                                            *)
DeletedNotFound(w) ==
  /\ w \in TargetWrites /\ twPc[w] = "again"
  /\ Unannounced
  /\ Advance(w, "answered")
  /\ UNCHANGED <<tbVars, twLeft>>

(* The first statement fails for good, after it was executed or before.    *)
WriteFails(w) ==
  /\ twPc[w] \in {"sent", "again"}
  /\ IF twPc[w] = "again" THEN Unannounced ELSE UNCHANGED tcVars
  /\ Advance(w, "failed")
  /\ UNCHANGED <<tbVars, twLeft>>

(* One of the INSERTs fails, executed or not: the request is answered with *)
(* an error and nothing is invalidated.                                    *)
DetailInsertFails(w) ==
  /\ w \in DetailWrites /\ twPc[w] = "deleted" /\ twLeft[w] > 0
  /\ tbDetails' \in {tbDetails, tbDetails + 1}
  /\ twLeft' = [twLeft EXCEPT ![w] = @ - 1]
  /\ Unannounced
  /\ Advance(w, "failed")
  /\ UNCHANGED <<tbTargets, tbOverrides>>

(* Promise.all does not wait for the other INSERTs of such a request: they *)
(* are executed after its answer.                                          *)
DbInsertLate(w) ==
  /\ w \in DetailWrites /\ twPc[w] = "failed" /\ twLeft[w] > 0
  /\ tbDetails' = tbDetails + 1
  /\ twLeft' = [twLeft EXCEPT ![w] = @ - 1]
  /\ Unannounced
  /\ UNCHANGED <<tbTargets, tbOverrides, twPc>>

-----------------------------------------------------------------------------
(* getTargetsWithDetails.                                                  *)

NewAll == [step |-> "targets", value |-> [targets |-> 0, details |-> 0, crossed |-> FALSE]]

(* A call that neither finds an entry nor a request in flight sends one.   *)
FetchAll == allFlight' = IF allCache = NoEntry /\ allFlight = NoEntry THEN NewAll ELSE allFlight

GetTargetsWithDetails ==
  /\ allCache = NoEntry /\ allFlight = NoEntry
  /\ FetchAll
  /\ UNCHANGED <<tbVars, twPc, twLeft, allCache, taskCache, taskFlight>>

AllAt(step) == allFlight # NoEntry /\ allFlight.step = step

DbSelectTargets ==
  /\ AllAt("targets")
  /\ allFlight' = [allFlight EXCEPT !.step = "details", !.value.targets = tbTargets]
  /\ UNCHANGED <<tbVars, twPc, twLeft, allCache, taskCache, taskFlight>>

DbSelectDetails ==
  /\ AllAt("details")
  /\ allFlight' = [allFlight EXCEPT !.step = "fill", !.value.details = tbDetails]
  /\ UNCHANGED <<tbVars, twPc, twLeft, allCache, taskCache, taskFlight>>

(* The request for the template goes on with the targets v.                *)
Base(flight, v) ==
  [step |-> "overrides",
   value |-> [flight.value EXCEPT !.base = v, !.crossed = @ \/ v.crossed]]

TaskAt(step) == taskFlight # NoEntry /\ taskFlight.step = step

AllFilled ==
  /\ AllAt("fill")
  /\ allCache' = allFlight.value
  /\ allFlight' = NoEntry
  /\ taskFlight' = IF TaskAt("all") THEN Base(taskFlight, allFlight.value) ELSE taskFlight
  /\ UNCHANGED <<tbVars, twPc, twLeft, taskCache>>

(* The request for the template that waits for the targets fails with them *)
(* and is removed in its own finally.                                      *)
WaiterRejected == IF TaskAt("all") THEN NoEntry ELSE taskFlight

(* A SELECT fails: everybody who waits for the request sees the error.     *)
AllFails ==
  /\ AllAt("targets") \/ AllAt("details")
  /\ allFlight' = NoEntry /\ taskFlight' = WaiterRejected
  /\ UNCHANGED <<tbVars, twPc, twLeft, allCache, taskCache>>

-----------------------------------------------------------------------------
(* getTargetsForTask.                                                      *)

NewTask ==
  [step |-> "all", value |-> [base |-> NewAll.value, overrides |-> 0, crossed |-> FALSE]]

(* Neither entry nor request: the targets come from the other cache, from  *)
(* its request in flight or from a new one.                                *)
GetTargetsForTask ==
  /\ taskCache = NoEntry /\ taskFlight = NoEntry
  /\ taskFlight' = IF allCache # NoEntry THEN Base(NewTask, allCache) ELSE NewTask
  /\ FetchAll
  /\ UNCHANGED <<tbVars, twPc, twLeft, allCache, taskCache>>

(* The template's row and its overrides.                                   *)
DbSelectOverrides ==
  /\ TaskAt("overrides")
  /\ taskFlight' = [taskFlight EXCEPT !.step = "fill", !.value.overrides = tbOverrides]
  /\ UNCHANGED <<tbVars, twPc, twLeft, allCache, allFlight, taskCache>>

TaskFilled ==
  /\ TaskAt("fill")
  /\ taskCache' = taskFlight.value
  /\ taskFlight' = NoEntry
  /\ UNCHANGED <<tbVars, twPc, twLeft, allCache, allFlight>>

TaskRequestFails ==
  /\ TaskAt("overrides")
  /\ taskFlight' = NoEntry
  /\ UNCHANGED <<tbVars, twPc, twLeft, allCache, allFlight, taskCache>>

-----------------------------------------------------------------------------
(* TARGETS_CACHE_TTL_MS is over.                                           *)
AllExpires ==
  /\ allCache # NoEntry /\ allCache' = NoEntry
  /\ UNCHANGED <<tbVars, twPc, twLeft, allFlight, taskCache, taskFlight>>

TaskOld == taskCache # NoEntry

TaskExpires ==
  /\ TaskOld /\ taskCache' = NoEntry
  /\ UNCHANGED <<tbVars, twPc, twLeft, allCache, allFlight, taskFlight>>

WriteStep(w) ==
  \/ WriteRequest(w) \/ AnswerLost(w) \/ DbWriteTarget(w) \/ DbDeleteDetails(w)
  \/ DbInsertDetails(w) \/ DbInsertLate(w) \/ DbWriteOverride(w)
  \/ WriteAnswered(w) \/ DeletedNotFound(w) \/ WriteFails(w) \/ DetailInsertFails(w)

AllStep == DbSelectTargets \/ DbSelectDetails \/ AllFilled \/ AllFails
TaskStep == DbSelectOverrides \/ TaskFilled \/ TaskRequestFails

TargetsNext ==
  \/ \E w \in TableWrites : WriteStep(w)
  \/ GetTargetsWithDetails \/ GetTargetsForTask
  \/ AllStep \/ TaskStep
  \/ AllExpires \/ TaskExpires

TargetsSpec == TargetsInit /\ [][TargetsNext]_targetsVars
-----------------------------------------------------------------------------
(* Properties.                                                             *)

(* A write has changed a table and has not been answered yet.              *)
Writing == \E w \in TableWrites : twPc[w] \in {"again", "deleted", "written"}

Current(v) == v.targets = tbTargets /\ v.details = tbDetails

(* "so the next read reflects the change immediately" (targets.ts:16): an  *)
(* entry of either cache is older than the targets only while a write is   *)
(* not yet answered, when it was fetched across an invalidation, or when   *)
(* since its fetch began a write that changed a table ended without one: a *)
(* failure after a statement that was executed, INSERTs that go on after   *)
(* it, or a DELETE that was sent again and found no row.  Whatever is      *)
(* fetched after such a write is up to date.                               *)
CachesCurrent ==
  ~Writing =>
    /\ allCache # NoEntry => allCache.crossed \/ Current(allCache)
    /\ taskCache # NoEntry => taskCache.crossed \/ Current(taskCache.base)
=============================================================================
