---------------------------- MODULE TaskSyncProofs ----------------------------
(***************************************************************************)
(* Proofs about TaskSync: however requests interleave, the registry stays  *)
(* sound (RegistrySound), and a sync that works with fresh data repairs    *)
(* what the others left (FreshSyncRepairs).                                *)
(***************************************************************************)
EXTENDS TaskSync, ChoiceLemmas, TLAPS

(* Where a request is, once its statement was sent.                        *)
Listed == {"targets", "overrides", "apply"}
ListedAll == {"allTargets", "allOverrides", "applyAll"}
Viewed == {"overrides", "apply", "allOverrides", "applyAll"}
Labels == {"new", "select", "write", "update", "insert", "written", "template", "fetched",
           "templates", "done"} \cup Listed \cup ListedAll

Job == [kind : RequestKinds, target : Owners, on : BOOLEAN, interval : Intervals,
        seen : Template \cup {NoTemplate}, known : SUBSET Names, view : SUBSET Targets]

TypeOK ==
  /\ type \in {"TARGET_BASED", "GLOBAL", "CUSTOM"}
  /\ template \in Template \cup {NoTemplate}
  /\ scan \in [Targets -> {"absent", "off", "on", "deleted"}]
  /\ override \in [Targets -> {"none", "off", "on"}]
  /\ cache \in Template \cup {NoTemplate}
  /\ tasks \in SUBSET Task
  /\ created \in [Owners -> 0..Most]
  /\ pc \in [Requests -> Labels]
  /\ job \in [Requests -> Job \cup {NoTemplate}]
  /\ \A r \in InProgress : job[r] \in Job
  /\ holds \in SUBSET Requests
  /\ overlapped \in BOOLEAN

(* Every task but the instances was created at startup or by a request     *)
(* that is over.                                                           *)
Done == {r \in Requests : pc[r] = "done"}
NamesSuffice == \A o \in Owners : created[o] <= 1 + MaxInstances + Cardinality(Done)

(* What the type of the template says of its tasks.                        *)
KindsByType ==
  \A t \in tasks :
    /\ type = "TARGET_BASED" => t.kind = "plain" /\ t.target \in Targets
    /\ type = "GLOBAL" => t.kind = "plain" /\ t.target = NoTarget
    /\ type = "CUSTOM" => t.kind # "plain" /\ (t.kind = "scheduler" => t.target = NoTarget)

OneScheduler ==
  \A t, u \in tasks :
    t.target = NoTarget /\ t.kind # "instance" /\ u.target = NoTarget /\ u.kind # "instance"
      => t = u

(* The awaits of a sync: what it has read when it is there.                *)
SyncsKnow ==
  \A r \in Requests :
    /\ pc[r] \in Listed => type = "TARGET_BASED"
    /\ pc[r] \in Listed \cup ListedAll => job[r].seen \in Template
    /\ pc[r] \in {"select", "update", "insert"} => job[r].kind = "setOverride"

(* While requests do not overlap, nothing changes under the one that is in *)
(* progress.                                                               *)
Deleting(r) ==
  /\ pc[r] \in {"written", "templates"} \cup ListedAll
  /\ job[r].kind = "deleteTarget"

Due(t) ==
  /\ template # NoTemplate
  /\ t.target \in Targets => Exists(t.target) \/ \E r \in Requests : Deleting(r)

Undisturbed(r) ==
  /\ pc[r] \in {"write", "written"} /\ job[r].kind = "updateTemplate" => cache = NoTemplate
  /\ pc[r] \in {"write", "written"} /\ job[r].kind = "deleteTemplate" => tasks \ Instances = {}
  /\ pc[r] \in {"fetched"} \cup Listed \cup ListedAll => job[r].seen = template
  /\ pc[r] \in Listed => job[r].known = NamesOf(tasks)
  /\ pc[r] \in Viewed => \A t \in job[r].view : scan[t] = "on"

Serial ==
  ~overlapped =>
    /\ \A q, r \in InProgress : q = r
    /\ \A r \in InProgress : Undisturbed(r)
    /\ \A t, u \in tasks \ Instances : t.target = u.target => t = u
    /\ \/ cache \in {template, NoTemplate}
       \/ \E r \in Requests : pc[r] = "written" /\ job[r].kind = "deleteTemplate"
    /\ \A t \in tasks \ Instances : Due(t)

(* Lookups from outside the requests: as long as none met a request that   *)
(* writes the template, none is in progress together with one, and what a  *)
(* lookup is about to cache is what the database holds.                    *)
LookupsTyped ==
  asking \in SUBSET Lookups /\ fetched \in [Lookups -> Template \cup {NoTemplate}]

LookupsFresh ==
  ~overlapped =>
    /\ \A l \in Lookups : fetched[l] \in {template, NoTemplate}
    /\ \A r \in InProgress : Writes(job[r].kind) => LookingUp = {}

SyncInv == TypeOK /\ NamesSuffice /\ KindsByType /\ OneScheduler /\ SyncsKnow /\ Serial
LookInv == LookupsTyped /\ LookupsFresh

-----------------------------------------------------------------------------
(* Facts about the operators.                                              *)

LEMMA CountDone ==
  ASSUME TypeOK
  PROVE  /\ IsFiniteSet(Requests) /\ Cardinality(Requests) = MaxRequests
         /\ IsFiniteSet(Done) /\ Cardinality(Done) \in Nat
         /\ \A r \in Requests \ Done : Cardinality(Done \cup {r}) = Cardinality(Done) + 1
         /\ \A r \in Requests \ Done : Cardinality(Done) + 1 <= MaxRequests
<1>1. IsFiniteSet(Requests) /\ Cardinality(Requests) = MaxRequests
  BY FS_Interval, SyncAssumption DEF Requests
<1>2. Done \subseteq Requests
  BY DEF Done
<1>3. IsFiniteSet(Done) /\ Cardinality(Done) \in Nat
  BY <1>1, <1>2, FS_Subset, FS_CardinalityType
<1>4. ASSUME NEW r \in Requests \ Done
      PROVE  /\ Cardinality(Done \cup {r}) = Cardinality(Done) + 1
             /\ Cardinality(Done) + 1 <= MaxRequests
  <2>1. Cardinality(Done \cup {r}) = Cardinality(Done) + 1
    BY <1>3, <1>4, FS_AddElement
  <2>2. Cardinality(Done \cup {r}) <= Cardinality(Requests)
    <3>1. Done \cup {r} \subseteq Requests
      BY <1>2, <1>4
    <3> QED BY <1>1, <3>1, FS_Subset
  <2> QED BY <1>1, <2>1, <2>2
<1> QED BY <1>1, <1>3, <1>4

(* A nonempty set of tasks has an oldest one.                              *)
LEMMA OldestExists ==
  ASSUME NEW ts \in SUBSET Task, ts # {}
  PROVE  Oldest(ts) \in ts
<1> DEFINE N == {t.n : t \in ts}
<1>1. N \subseteq Nat /\ N # {}
  BY SyncAssumption, SMT DEF Task, Most
<1>2. PICK n \in N : \A m \in N : n <= m
  <2> HIDE DEF N
  <2> QED BY <1>1, SmallestExists
<1>3. \E t \in ts : \A u \in ts : t.n <= u.n
  BY <1>2
<1> QED BY <1>3 DEF Oldest

LEMMA NewTaskFacts ==
  ASSUME TypeOK, NEW o \in Owners, NEW kind \in {"plain", "scheduler", "instance"},
         NEW tm \in Template, created[o] + 1 <= Most
  PROVE  /\ NewTask(o, kind, tm) \in Task
         /\ NewTask(o, kind, tm).target = o
         /\ NewTask(o, kind, tm).kind = kind
         /\ NewTask(o, kind, tm).n = created[o] + 1
         /\ NewTask(o, kind, tm).interval = tm.interval
<1>1. created[o] + 1 \in 1..Most
  BY SyncAssumption DEF TypeOK, Most
<1>2. tm.interval \in Intervals
  BY DEF Template
<1> QED BY <1>1, <1>2, SMT DEF NewTask, Task

LEMMA FollowFacts ==
  ASSUME NEW t \in Task, NEW tm \in Template
  PROVE  LET f == Follow(t, tm)
         IN /\ f \in Task /\ f.target = t.target /\ f.kind = t.kind /\ f.n = t.n
            /\ f.active = tm.active /\ f.interval = tm.interval
<1>1. tm.interval \in Intervals /\ tm.active \in BOOLEAN
  BY DEF Template
<1>2. Follow(t, tm) \in Task
  BY <1>1, Zenon DEF Follow, Task
<1>3. /\ Follow(t, tm).target = t.target /\ Follow(t, tm).kind = t.kind /\ Follow(t, tm).n = t.n
      /\ Follow(t, tm).active = tm.active /\ Follow(t, tm).interval = tm.interval
  BY SMT DEF Follow, Task
<1> QED BY <1>2, <1>3

(* Where the tasks of a finished sync come from.                           *)
Room == \A o \in Owners : created[o] + 1 <= Most

LEMMA SyncedMembers ==
  ASSUME TypeOK, NEW tm \in Template, NEW names, NEW valid \in SUBSET Targets
  PROVE  /\ \A t \in Synced(tasks, tm, names, valid) :
              \/ type = "TARGET_BASED" /\ t \in tasks /\ Name(t) \notin names
              \/ \E u \in tasks :
                   /\ t = Follow(u, tm)
                   /\ type = "TARGET_BASED" => Name(u) \in names /\ u.target \in valid
                   /\ type = "CUSTOM" => t.kind = "scheduler"
              \/ /\ type = "TARGET_BASED"
                 /\ \E o \in valid : /\ t = NewTask(o, "plain", tm)
                                     /\ \A x \in names : x[1] # o
              \/ type = "GLOBAL" /\ t = NewTask(NoTarget, "plain", tm)
              \/ type = "CUSTOM" /\ t = NewTask(NoTarget, "scheduler", tm)
         /\ type # "TARGET_BASED" => \A t, u \in Synced(tasks, tm, names, valid) : t = u
<1> DEFINE S == Synced(tasks, tm, names, valid)
<1>1. CASE type = "TARGET_BASED"
  <2>1. S = SyncTargets(tasks, tm, names, valid)
    BY <1>1 DEF Synced
  <2> QED BY <1>1, <2>1 DEF SyncTargets
<1>2. CASE type = "GLOBAL"
  <2>1. S = SyncGlobal(tasks, tm)
    BY <1>2 DEF Synced
  <2>2. tasks # {} => Oldest(tasks) \in tasks
    BY OldestExists DEF TypeOK
  <2> QED BY <1>2, <2>1, <2>2 DEF SyncGlobal
<1>3. CASE type = "CUSTOM"
  <2> DEFINE free == {t \in tasks : t.target = NoTarget}
  <2>1. S = SyncCustom(tasks, tm)
    BY <1>3 DEF Synced
  <2>2. free # {} => Oldest(free) \in free
    BY OldestExists DEF TypeOK
  <2>3. \/ S = {}
        \/ S = {NewTask(NoTarget, "scheduler", tm)}
        \/ Oldest(free) \in tasks /\ S = {t \in {Follow(Oldest(free), tm)} : t.kind = "scheduler"}
    BY <2>1, <2>2 DEF SyncCustom
  <2> HIDE DEF free, S
  <2>4. \A t, u \in S : t = u
    BY <2>3
  <2>5. \A t \in S : \/ t = NewTask(NoTarget, "scheduler", tm)
                     \/ \E u \in tasks : t = Follow(u, tm) /\ t.kind = "scheduler"
    BY <2>3
  <2> QED BY <1>3, <2>4, <2>5 DEF S
<1> QED BY <1>1, <1>2, <1>3 DEF TypeOK

LEMMA SyncedTyped ==
  ASSUME TypeOK, KindsByType, Room, NEW tm \in Template, NEW names, NEW valid \in SUBSET Targets,
         NEW t \in Synced(tasks, tm, names, valid)
  PROVE  /\ t \in Task
         /\ type = "TARGET_BASED" => t.kind = "plain" /\ t.target \in Targets
         /\ type = "GLOBAL" => t.kind = "plain" /\ t.target = NoTarget
         /\ type = "CUSTOM" => t.kind = "scheduler" /\ t.target = NoTarget
<1>0. tasks \subseteq Task /\ type \in {"TARGET_BASED", "GLOBAL", "CUSTOM"}
  BY DEF TypeOK
<1>1. CASE t \in tasks /\ type = "TARGET_BASED"
  BY <1>0, <1>1 DEF KindsByType
<1>2. ASSUME NEW u \in tasks, t = Follow(u, tm), type = "CUSTOM" => t.kind = "scheduler" PROVE
         /\ t \in Task
         /\ type = "TARGET_BASED" => t.kind = "plain" /\ t.target \in Targets
         /\ type = "GLOBAL" => t.kind = "plain" /\ t.target = NoTarget
         /\ type = "CUSTOM" => t.kind = "scheduler" /\ t.target = NoTarget
  <2>1. t \in Task /\ t.target = u.target /\ t.kind = u.kind
    BY <1>0, <1>2, FollowFacts
  <2> QED BY <1>2, <2>1 DEF KindsByType
<1>3. ASSUME NEW o \in Owners, NEW kind \in {"plain", "scheduler"}, t = NewTask(o, kind, tm)
      PROVE  t \in Task /\ t.kind = kind /\ t.target = o
  <2>1. kind \in {"plain", "scheduler", "instance"} /\ created[o] + 1 <= Most
    BY DEF Room
  <2> QED BY <1>3, <2>1, NewTaskFacts, SMT
<1>4. NoTarget \in Owners /\ valid \subseteq Owners /\ NoTarget \notin Targets
  BY SyncAssumption DEF Owners
<1>5. CASE \E u \in tasks : t = Follow(u, tm) /\ (type = "CUSTOM" => t.kind = "scheduler")
  BY <1>2, <1>5
<1>6. CASE \/ type = "TARGET_BASED" /\ \E o \in valid : t = NewTask(o, "plain", tm)
           \/ type = "GLOBAL" /\ t = NewTask(NoTarget, "plain", tm)
           \/ type = "CUSTOM" /\ t = NewTask(NoTarget, "scheduler", tm)
  BY <1>3, <1>4, <1>6
<1> QED BY <1>1, <1>5, <1>6, SyncedMembers

(* A request is over: what that does to the number of those that are.      *)
LEMMA EndsFacts ==
  ASSUME TypeOK, NEW r \in InProgress, Ends(r)
  PROVE  /\ pc' \in [Requests -> Labels] /\ job' \in [Requests -> Job \cup {NoTemplate}]
         /\ InProgress' = InProgress \ {r} /\ \A q \in InProgress' : pc'[q] = pc[q] /\ job'[q] = job[q]
         /\ \A q \in Requests : q # r => pc'[q] = pc[q] /\ job'[q] = job[q]
         /\ pc'[r] = "done"
         /\ Cardinality(Done') = Cardinality(Done) + 1
         /\ Cardinality(Done) + 1 <= MaxRequests
<1>1. r \in Requests /\ pc[r] # "done"
  BY DEF InProgress
<1>2. pc' = [pc EXCEPT ![r] = "done"] /\ job' = [job EXCEPT ![r] = NoTemplate]
  BY DEF Ends
<1>3. pc' \in [Requests -> Labels] /\ job' \in [Requests -> Job \cup {NoTemplate}]
  BY <1>2 DEF TypeOK, Labels
<1>4. Done' = Done \cup {r} /\ r \notin Done
  BY <1>1, <1>2 DEF Done, TypeOK
<1>5. Cardinality(Done') = Cardinality(Done) + 1 /\ Cardinality(Done) + 1 <= MaxRequests
  BY <1>1, <1>4, CountDone
<1>6. InProgress' = InProgress \ {r}
  BY <1>1, <1>2 DEF InProgress, TypeOK
<1>7. \A q \in Requests : q # r => pc'[q] = pc[q] /\ job'[q] = job[q]
  BY <1>1, <1>2 DEF TypeOK
<1> QED BY <1>1, <1>2, <1>3, <1>5, <1>6, <1>7 DEF TypeOK, InProgress

(* There is always a name left for a new task.                             *)
LEMMA RoomLeft ==
  ASSUME TypeOK, NamesSuffice, NEW r \in InProgress
  PROVE  Room
<1>1. Cardinality(Done) + 1 <= MaxRequests /\ Cardinality(Done) \in Nat
  BY CountDone DEF InProgress, Done
<1> QED BY <1>1, SyncAssumption DEF Room, Most, NamesSuffice, TypeOK

(* A sync ends with tasks that suit the template's type, and tells apart   *)
(* the tasks it makes.                                                     *)
LEMMA SynchronizeTyped ==
  ASSUME TypeOK, NamesSuffice, KindsByType, OneScheduler, NEW r \in InProgress,
         NEW tm \in Template, NEW names, NEW valid \in SUBSET Targets,
         Synchronize(r, tm, names, valid), type' = type
  PROVE  /\ tasks' \in SUBSET Task /\ created' \in [Owners -> 0..Most]
         /\ NamesSuffice' /\ KindsByType' /\ OneScheduler'
<1>0. Room
  BY RoomLeft
<1>1. tasks' = Synced(tasks, tm, names, valid) /\ Ends(r)
  BY DEF Synchronize
<1>2. tasks' \in SUBSET Task /\ KindsByType'
  BY <1>0, <1>1, SyncedTyped DEF KindsByType
<1>3. Cardinality(Done') = Cardinality(Done) + 1 /\ Cardinality(Done) \in Nat
  BY <1>1, EndsFacts, CountDone
<1>4. created' \in [Owners -> 0..Most] /\ NamesSuffice'
  <2>1. \A o \in Owners : created[o] \in Int /\ created[o] >= 0 /\ created[o] + 1 <= Most
                          /\ created[o] <= 1 + MaxInstances + Cardinality(Done)
    BY <1>0 DEF Room, TypeOK, NamesSuffice
  <2>2. \A o \in Owners : created'[o] \in {created[o], created[o] + 1}
    BY DEF Synchronize
  <2>3. created' = [o \in Owners |-> created'[o]]
    BY DEF Synchronize
  <2>4. Most \in Nat /\ MaxInstances \in Nat
    BY SyncAssumption DEF Most
  <2>5. \A o \in Owners : created'[o] \in 0..Most
    BY <2>1, <2>2, <2>4
  <2>6. created' \in [Owners -> 0..Most]
    BY <2>3, <2>5
  <2>7. NamesSuffice'
    BY <1>3, <2>1, <2>2, <2>4 DEF NamesSuffice
  <2> QED BY <2>6, <2>7
<1>5. OneScheduler'
  <2>1. CASE type = "TARGET_BASED"
    BY <1>2, <2>1, SyncAssumption DEF OneScheduler, KindsByType
  <2>2. CASE type # "TARGET_BASED"
    BY <1>1, <2>2, SyncedMembers DEF OneScheduler
  <2> QED BY <2>1, <2>2
<1> QED BY <1>2, <1>4, <1>5

(* Without overlap a sync leaves one task for each target that is due.     *)
LEMMA SynchronizeSerial ==
  ASSUME TypeOK, KindsByType, OneScheduler, Room, NEW tm \in Template, tm = template,
         NEW names, NEW valid \in SUBSET Targets,
         tasks' = Synced(tasks, tm, names, valid), type' = type,
         type = "TARGET_BASED" => names = NamesOf(tasks),
         \A o \in valid : scan[o] = "on",
         \A t, u \in tasks \ Instances : t.target = u.target => t = u
  PROVE  /\ \A t, u \in tasks' \ Instances' : t.target = u.target => t = u
         /\ \A t \in tasks' \ Instances' :
              template # NoTemplate /\ (t.target \in Targets => Exists(t.target))
<1>1. template # NoTemplate
  BY SyncAssumption
<1>2. CASE type # "TARGET_BASED"
  <2>2. \A t \in tasks' : t.target = NoTarget
    BY <1>2, SyncedTyped DEF TypeOK
  <2>3. \A t, u \in tasks' : t = u
    BY <1>2, SyncedMembers
  <2> QED BY <1>1, <2>2, <2>3, SyncAssumption
<1>3. CASE type = "TARGET_BASED"
  <2>1. ASSUME NEW t \in tasks'
        PROVE  \/ \E u \in tasks : t = Follow(u, tm) /\ t.target = u.target /\ u.target \in valid
               \/ \E o \in valid : /\ t = NewTask(o, "plain", tm) /\ t.target = o
                                   /\ \A u \in tasks : u.target # o
    <3>1. \A u \in tasks : Name(u) \in names /\ Name(u)[1] = u.target
      BY <1>3 DEF NamesOf, Name
    <3>2. \A u \in tasks : Follow(u, tm).target = u.target
      BY FollowFacts DEF TypeOK
    <3>3. \A o \in valid : NewTask(o, "plain", tm).target = o
      <4>1. \A o \in valid : o \in Owners /\ created[o] + 1 <= Most
        BY DEF Room, Owners
      <4>2. "plain" \in {"plain", "scheduler", "instance"}
        OBVIOUS
      <4> QED BY <4>1, <4>2, NewTaskFacts, SMT
    <3>4. \/ t \in tasks /\ Name(t) \notin names
          \/ \E u \in tasks : t = Follow(u, tm) /\ u.target \in valid
          \/ \E o \in valid : t = NewTask(o, "plain", tm) /\ \A x \in names : x[1] # o
      BY <1>3, SyncedMembers
    <3> QED BY <3>1, <3>2, <3>3, <3>4
  <2>2. \A t \in tasks : t \in tasks \ Instances
    BY <1>3 DEF KindsByType, Instances
  <2>3. ASSUME NEW t \in tasks', NEW u \in tasks', t.target = u.target
        PROVE  t = u
    BY <2>1, <2>2, <2>3
  <2>4. \A t \in tasks' : t.target \in valid
    BY <2>1
  <2> QED BY <1>1, <2>3, <2>4 DEF Exists
<1> QED BY <1>2, <1>3

(* The last step of a sync that may end.                                   *)
LEMMA SyncEnds ==
  ASSUME SyncInv, NEW r \in InProgress, NEW tm \in Template, NEW names,
         NEW valid \in SUBSET Targets, Synchronize(r, tm, names, valid),
         UNCHANGED <<past, dbVars, holds>>, cache' \in Template \cup {NoTemplate},
         ~overlapped => /\ tm = template
                        /\ type = "TARGET_BASED" => names = NamesOf(tasks)
                        /\ \A o \in valid : scan[o] = "on"
                        /\ cache' \in {template, NoTemplate}
  PROVE  SyncInv'
<1> USE DEF SyncInv
<1>0. UNCHANGED <<type, overlapped, template, scan, override, holds>>
  BY DEF past, dbVars
<1>1. /\ Room /\ Ends(r)
      /\ tasks' = Synced(tasks, tm, names, valid)
  BY RoomLeft DEF Synchronize
<1>2. /\ tasks' \in SUBSET Task /\ created' \in [Owners -> 0..Most]
      /\ NamesSuffice' /\ KindsByType' /\ OneScheduler'
  BY <1>0, SynchronizeTyped
<1>3. TypeOK'
  BY <1>0, <1>1, <1>2, EndsFacts DEF TypeOK
<1>4. SyncsKnow'
  <2>1. \A q \in Requests : q # r => pc'[q] = pc[q] /\ job'[q] = job[q]
    BY <1>1, EndsFacts
  <2>2. pc'[r] = "done"
    BY <1>1, EndsFacts
  <2> QED BY <1>0, <2>1, <2>2 DEF SyncsKnow, Listed, ListedAll
<1>5. Serial'
  <2> SUFFICES ASSUME ~overlapped PROVE Serial'
    BY <1>0 DEF Serial
  <2>1. InProgress' = {}
    BY <1>1, EndsFacts DEF Serial
  <2>2. /\ \A t, u \in tasks' \ Instances' : t.target = u.target => t = u
        /\ \A t \in tasks' \ Instances' :
              template # NoTemplate /\ (t.target \in Targets => Exists(t.target))
    BY <1>0, <1>1, SynchronizeSerial DEF Serial
  <2>3. \A t \in tasks' \ Instances' : Due(t)'
    BY <1>0, <2>2 DEF Due, Exists
  <2> QED BY <1>0, <2>1, <2>2, <2>3 DEF Serial
<1> QED BY <1>2, <1>3, <1>4, <1>5

(* A request goes on from one await to the next.                           *)
LEMMA GoesOn ==
  ASSUME TypeOK, NEW r \in InProgress, NEW label \in Labels \ {"new", "done"}, NEW j \in Job,
         pc' = [pc EXCEPT ![r] = label], job' = [job EXCEPT ![r] = j]
  PROVE  /\ pc' \in [Requests -> Labels] /\ job' \in [Requests -> Job \cup {NoTemplate}]
         /\ InProgress' = InProgress /\ Done' = Done
         /\ \A q \in InProgress : job'[q] \in Job
         /\ \A q \in Requests : q # r => pc'[q] = pc[q] /\ job'[q] = job[q]
         /\ pc'[r] = label /\ job'[r] = j
<1>1. r \in Requests /\ pc[r] \notin {"new", "done"}
  BY DEF InProgress
<1>2. /\ pc' \in [Requests -> Labels] /\ job' \in [Requests -> Job \cup {NoTemplate}]
      /\ \A q \in Requests : q # r => pc'[q] = pc[q] /\ job'[q] = job[q]
      /\ pc'[r] = label /\ job'[r] = j
  BY <1>1 DEF TypeOK
<1> QED BY <1>1, <1>2 DEF TypeOK, InProgress, Done

(* What is left of the invariant when only one request moves and the tasks *)
(* and their template stay.                                                *)
LEMMA SerialStays ==
  ASSUME SyncInv, NEW r \in InProgress, UNCHANGED <<past, template, taskVars>>,
         InProgress' = InProgress,
         \A q \in Requests : q # r => pc'[q] = pc[q] /\ job'[q] = job[q],
         ~overlapped => /\ Undisturbed(r)'
                        /\ \/ cache' \in {template, NoTemplate}
                           \/ \E q \in Requests : pc'[q] = "written" /\ job'[q].kind = "deleteTemplate"
                        /\ \A t \in tasks \ Instances : Due(t)'
  PROVE  Serial'
<1>1. UNCHANGED <<type, overlapped, template, tasks, created>>
  BY DEF past, taskVars
<1>2. UNCHANGED Instances
  BY <1>1 DEF Instances
<1> QED BY <1>1, <1>2 DEF SyncInv, Serial

LEMMA NamesTyped ==
  ASSUME TypeOK
  PROVE  NamesOf(tasks) \in SUBSET Names
BY SMT DEF TypeOK, NamesOf, Name, Names, Task

(* syncTasksForTemplate has its template.                                  *)
LEMMA ListTasksStep ==
  ASSUME SyncInv, NEW r \in InProgress, NEW tm \in Template, ListTasks(r, tm),
         UNCHANGED <<past, dbVars, holds>>, cache' \in Template \cup {NoTemplate},
         ~overlapped => tm = template /\ cache' \in {template, NoTemplate},
         pc[r] = "fetched" \/ job[r].kind # "deleteTarget"
  PROVE  SyncInv'
<1>0. /\ UNCHANGED <<type, overlapped, template, scan, override, holds>>
      /\ r \in Requests /\ job[r] \in Job
  BY DEF past, dbVars, SyncInv, TypeOK, InProgress
<1>1. CASE ~(type = "TARGET_BASED" /\ tm.active)
  <2>1. Synchronize(r, tm, NamesOf(tasks), {})
    BY <1>1 DEF ListTasks
  <2> QED BY <2>1, SyncEnds
<1>2. CASE type = "TARGET_BASED" /\ tm.active
  <2> DEFINE j == [job[r] EXCEPT !.seen = tm, !.known = NamesOf(tasks)]
  <2>1. j \in Job /\ j.seen = tm /\ j.known = NamesOf(tasks) /\ j.kind = job[r].kind
    <3>1. tm \in Template \cup {NoTemplate} /\ NamesOf(tasks) \in SUBSET Names
      BY NamesTyped DEF SyncInv
    <3>2. j \in Job
      BY <1>0, <3>1, Zenon DEF Job
    <3>3. j.seen = tm /\ j.known = NamesOf(tasks) /\ j.kind = job[r].kind
      BY <1>0, SMT DEF Job
    <3> QED BY <3>2, <3>3
  <2>2. job' = [job EXCEPT ![r] = j] /\ pc' = [pc EXCEPT ![r] = "targets"] /\ UNCHANGED taskVars
    BY <1>2 DEF ListTasks
  <2> HIDE DEF j
  <2>3. /\ pc' \in [Requests -> Labels] /\ job' \in [Requests -> Job \cup {NoTemplate}]
        /\ InProgress' = InProgress /\ Done' = Done
        /\ \A q \in InProgress : job'[q] \in Job
        /\ \A q \in Requests : q # r => pc'[q] = pc[q] /\ job'[q] = job[q]
        /\ pc'[r] = "targets" /\ job'[r] = j
    <3>1. "targets" \in Labels \ {"new", "done"}
      BY DEF Labels, Listed
    <3> QED BY <2>1, <2>2, <3>1, GoesOn DEF SyncInv
  <2>4. UNCHANGED <<tasks, created>>
    BY <2>2 DEF taskVars
  <2>5. TypeOK'
    BY <1>0, <2>3, <2>4 DEF SyncInv, TypeOK
  <2>6. NamesSuffice' /\ KindsByType' /\ OneScheduler'
    BY <1>0, <2>3, <2>4 DEF SyncInv, NamesSuffice, KindsByType, OneScheduler
  <2>7. SyncsKnow'
    BY <1>0, <1>2, <2>1, <2>3 DEF SyncInv, SyncsKnow, Listed, ListedAll
  <2>8. Serial'
    <3>1. ASSUME ~overlapped
          PROVE  /\ Undisturbed(r)' /\ cache' \in {template, NoTemplate}
                 /\ \A t \in tasks \ Instances : Due(t)'
      <4>1. Undisturbed(r)'
        <5>1. NamesOf(tasks)' = NamesOf(tasks)
          BY <2>4 DEF NamesOf
        <5> QED BY <1>0, <2>1, <2>3, <3>1, <5>1 DEF Undisturbed, Listed, ListedAll, Viewed
      <4>2. ASSUME NEW q \in Requests PROVE ~Deleting(q)
        <5>1. q \in InProgress \/ ~Deleting(q)
          BY DEF Deleting, InProgress, ListedAll
        <5>2. q = r \/ ~Deleting(q)
          BY <3>1, <5>1 DEF SyncInv, Serial
        <5> QED BY <5>2 DEF Deleting, ListedAll
      <4>3. \A t \in tasks \ Instances : Due(t)'
        BY <1>0, <3>1, <4>2 DEF SyncInv, Serial, Due, Exists
      <4> QED BY <3>1, <4>1, <4>3
    <3> QED BY <1>0, <2>2, <2>3, <3>1, SerialStays
  <2> QED BY <2>5, <2>6, <2>7, <2>8 DEF SyncInv
<1> QED BY <1>1, <1>2

LEMMA GetTemplateStep ==
  ASSUME SyncInv, NEW r \in InProgress, NEW c \in Template \cup {NoTemplate}, GetTemplate(r, c),
         UNCHANGED <<past, dbVars, holds>>,
         ~overlapped => c \in {template, NoTemplate},
         job[r].kind # "deleteTarget"
  PROVE  SyncInv'
<1>0. /\ UNCHANGED <<type, overlapped, template, scan, override, holds>>
      /\ r \in Requests /\ job[r] \in Job /\ cache' = c
  BY DEF past, dbVars, SyncInv, TypeOK, InProgress, GetTemplate
<1>1. CASE c # NoTemplate
  <2>1. c \in Template /\ ListTasks(r, c)
    BY <1>1 DEF GetTemplate
  <2> QED BY <1>0, <1>1, <2>1, ListTasksStep
<1>2. CASE c = NoTemplate
  <2>1. pc' = [pc EXCEPT ![r] = "template"] /\ job' = job /\ UNCHANGED <<tasks, created>>
    BY <1>2 DEF GetTemplate, Goto, taskVars
  <2>2. job' = [job EXCEPT ![r] = job[r]]
    BY <2>1 DEF SyncInv, TypeOK
  <2>3. /\ pc' \in [Requests -> Labels] /\ job' \in [Requests -> Job \cup {NoTemplate}]
        /\ InProgress' = InProgress /\ Done' = Done
        /\ \A q \in InProgress : job'[q] \in Job
        /\ \A q \in Requests : q # r => pc'[q] = pc[q] /\ job'[q] = job[q]
        /\ pc'[r] = "template" /\ job'[r] = job[r]
    <3>1. "template" \in Labels \ {"new", "done"}
      BY DEF Labels
    <3> QED BY <1>0, <2>1, <2>2, <3>1, GoesOn DEF SyncInv
  <2>4. TypeOK'
    BY <1>0, <2>1, <2>3 DEF SyncInv, TypeOK
  <2>5. NamesSuffice' /\ KindsByType' /\ OneScheduler'
    BY <1>0, <2>1, <2>3 DEF SyncInv, NamesSuffice, KindsByType, OneScheduler
  <2>6. SyncsKnow'
    BY <1>0, <2>3 DEF SyncInv, SyncsKnow, Listed, ListedAll
  <2>7. Serial'
    <3>1. ASSUME ~overlapped
          PROVE  /\ Undisturbed(r)' /\ cache' \in {template, NoTemplate}
                 /\ \A t \in tasks \ Instances : Due(t)'
      <4>1. Undisturbed(r)'
        BY <2>3 DEF Undisturbed, Listed, ListedAll, Viewed
      <4>2. ASSUME NEW q \in Requests PROVE ~Deleting(q)
        <5>1. q \in InProgress \/ ~Deleting(q)
          BY DEF Deleting, InProgress, ListedAll
        <5>2. q = r \/ ~Deleting(q)
          BY <3>1, <5>1 DEF SyncInv, Serial
        <5> QED BY <5>2 DEF Deleting, ListedAll
      <4>3. \A t \in tasks \ Instances : Due(t)'
        BY <1>0, <3>1, <4>2 DEF SyncInv, Serial, Due, Exists
      <4> QED BY <1>0, <3>1, <4>1, <4>3
    <3>2. UNCHANGED taskVars
      BY <2>1 DEF taskVars
    <3> QED BY <1>0, <2>3, <3>1, <3>2, SerialStays
  <2> QED BY <2>4, <2>5, <2>6, <2>7 DEF SyncInv
<1> QED BY <1>1, <1>2

(* Without overlap nobody else is in progress.                             *)
LEMMA AloneFacts ==
  ASSUME SyncInv, ~overlapped, NEW r \in InProgress
  PROVE  /\ InProgress = {r} /\ Undisturbed(r)
         /\ \A q \in Requests : q # r => ~Deleting(q) /\ pc[q] # "written"
         /\ pc[r] # "written" \/ job[r].kind # "deleteTemplate" => cache \in {template, NoTemplate}
         /\ ~Deleting(r) => \A t \in tasks \ Instances :
                              template # NoTemplate /\ (t.target \in Targets => Exists(t.target))
<1>1. InProgress = {r} /\ Undisturbed(r)
  BY DEF SyncInv, Serial
<1>2. ASSUME NEW q \in Requests, q # r PROVE ~Deleting(q) /\ pc[q] # "written"
  BY <1>1, <1>2 DEF InProgress, Deleting, ListedAll
<1>3. r \in Requests
  BY DEF InProgress
<1> QED BY <1>1, <1>2, <1>3 DEF SyncInv, Serial, Due

(* A request ends, or goes on with the same job.                           *)
Proceeds(r, labels) ==
  \/ Ends(r)
  \/ \E label \in labels : Goto(r, label)

LEMMA ProceedsTyped ==
  ASSUME SyncInv, NEW r \in InProgress, NEW labels \in SUBSET (Labels \ {"new", "done"}),
         Proceeds(r, labels), UNCHANGED <<past, taskVars>>,
         template' \in Template \cup {NoTemplate},
         scan' \in [Targets -> {"absent", "off", "on", "deleted"}],
         override' \in [Targets -> {"none", "off", "on"}],
         cache' \in Template \cup {NoTemplate}, holds' \in SUBSET Requests
  PROVE  /\ TypeOK' /\ NamesSuffice' /\ KindsByType' /\ OneScheduler'
         /\ UNCHANGED <<type, overlapped, tasks, created, Instances>>
         /\ \A q \in Requests : q # r => pc'[q] = pc[q] /\ job'[q] = job[q]
         /\ \/ pc'[r] = "done" /\ InProgress' = InProgress \ {r}
            \/ pc'[r] \in labels /\ job'[r] = job[r] /\ InProgress' = InProgress
<1>0. UNCHANGED <<type, overlapped, tasks, created, Instances>>
  BY DEF past, taskVars, Instances
<1>1. CASE Ends(r)
  <2>1. /\ pc' \in [Requests -> Labels] /\ job' \in [Requests -> Job \cup {NoTemplate}]
        /\ InProgress' = InProgress \ {r} /\ \A q \in InProgress' : pc'[q] = pc[q] /\ job'[q] = job[q]
        /\ \A q \in Requests : q # r => pc'[q] = pc[q] /\ job'[q] = job[q]
        /\ pc'[r] = "done"
        /\ Cardinality(Done') = Cardinality(Done) + 1 /\ Cardinality(Done) \in Nat
    BY <1>1, EndsFacts, CountDone DEF SyncInv
  <2>2. TypeOK'
    BY <1>0, <2>1 DEF SyncInv, TypeOK
  <2>3. NamesSuffice'
    BY <1>0, <2>1, SyncAssumption DEF SyncInv, NamesSuffice, TypeOK
  <2> QED BY <1>0, <2>1, <2>2, <2>3 DEF SyncInv, KindsByType, OneScheduler
<1>2. ASSUME NEW label \in labels, Goto(r, label)
      PROVE  /\ TypeOK' /\ NamesSuffice' /\ KindsByType' /\ OneScheduler'
             /\ \A q \in Requests : q # r => pc'[q] = pc[q] /\ job'[q] = job[q]
             /\ pc'[r] \in labels /\ job'[r] = job[r] /\ InProgress' = InProgress
  <2>1. /\ job[r] \in Job /\ pc' = [pc EXCEPT ![r] = label]
        /\ job' = job /\ job' = [job EXCEPT ![r] = job[r]]
    BY <1>2 DEF Goto, SyncInv, TypeOK
  <2>2. /\ pc' \in [Requests -> Labels] /\ job' \in [Requests -> Job \cup {NoTemplate}]
        /\ InProgress' = InProgress /\ Done' = Done
        /\ \A q \in InProgress : job'[q] \in Job
        /\ \A q \in Requests : q # r => pc'[q] = pc[q] /\ job'[q] = job[q]
        /\ pc'[r] = label /\ job'[r] = job[r]
    BY <2>1, GoesOn DEF SyncInv
  <2>3. TypeOK'
    BY <1>0, <2>2 DEF SyncInv, TypeOK
  <2> QED BY <1>0, <2>2, <2>3 DEF SyncInv, NamesSuffice, KindsByType, OneScheduler
<1> QED BY <1>0, <1>1, <1>2 DEF Proceeds

(* A statement has been executed.  Without overlap it must keep what the   *)
(* tasks and the cache say, or be the one that the request's next steps    *)
(* make good.                                                              *)
LEMMA StatementStep ==
  ASSUME SyncInv, NEW r \in InProgress,
         pc[r] \in {"write", "update", "insert", "select"},
         Proceeds(r, {"written", "update", "insert"}),
         pc'[r] \in {"update", "insert"} => pc[r] = "select",
         UNCHANGED <<past, cache, taskVars>>,
         template' \in Template \cup {NoTemplate},
         scan' \in [Targets -> {"absent", "off", "on", "deleted"}],
         override' \in [Targets -> {"none", "off", "on"}], holds' \in SUBSET Requests,
         ~overlapped =>
           /\ cache \in {template', NoTemplate} \/ (pc'[r] = "written" /\ job[r].kind = "deleteTemplate")
           /\ \A t \in tasks \ Instances :
                /\ template' # NoTemplate
                /\ t.target \in Targets =>
                     Exists(t.target)' \/ (pc'[r] = "written" /\ job[r].kind = "deleteTarget")
  PROVE  SyncInv'
<1> DEFINE labels == {"written", "update", "insert"}
<1>1. labels \in SUBSET (Labels \ {"new", "done"})
  BY DEF Labels
<1>2. cache' \in Template \cup {NoTemplate} /\ r \in Requests /\ cache' = cache
  BY DEF SyncInv, TypeOK, InProgress
<1>3. /\ TypeOK' /\ NamesSuffice' /\ KindsByType' /\ OneScheduler'
      /\ UNCHANGED <<type, overlapped, tasks, created, Instances>>
      /\ \A q \in Requests : q # r => pc'[q] = pc[q] /\ job'[q] = job[q]
      /\ \/ pc'[r] = "done" /\ InProgress' = InProgress \ {r}
         \/ pc'[r] \in labels /\ job'[r] = job[r] /\ InProgress' = InProgress
  BY <1>1, <1>2, ProceedsTyped
<1>4. SyncsKnow'
  BY <1>2, <1>3 DEF SyncInv, SyncsKnow, Listed, ListedAll
<1>5. Serial'
  <2> SUFFICES ASSUME ~overlapped PROVE Serial'
    BY <1>3 DEF Serial
  <2>1. InProgress = {r} /\ Undisturbed(r)
    BY AloneFacts
  <2>2. \A q, s \in InProgress' : q = s
    BY <1>3, <2>1
  <2>3. ASSUME NEW q \in InProgress' PROVE Undisturbed(q)'
    <3>1. q = r /\ pc'[r] \in labels /\ job'[r] = job[r]
      BY <1>3, <2>1
    <3>2. pc[r] = "write" \/ job[r].kind = "setOverride"
      BY <1>2 DEF SyncInv, SyncsKnow
    <3> QED BY <1>2, <1>3, <2>1, <3>1, <3>2 DEF Undisturbed, Listed, ListedAll, Viewed
  <2>4. \A t, u \in tasks' \ Instances' : t.target = u.target => t = u
    BY <1>3 DEF SyncInv, Serial
  <2>5. \/ cache' \in {template', NoTemplate}
        \/ \E q \in Requests : pc'[q] = "written" /\ job'[q].kind = "deleteTemplate"
    BY <1>2, <1>3
  <2>6. ASSUME NEW t \in tasks' \ Instances' PROVE Due(t)'
    <3>1. pc'[r] = "written" /\ job[r].kind = "deleteTarget" => Deleting(r)'
      BY <1>3 DEF Deleting
    <3> QED BY <1>2, <1>3, <2>6, <3>1 DEF Due
  <2> QED BY <2>2, <2>3, <2>4, <2>5, <2>6 DEF Serial
<1> QED BY <1>3, <1>4, <1>5 DEF SyncInv

LEMMA StatementKeepsInv ==
  ASSUME SyncInv, NEW r \in Requests, Statement(r)
  PROVE  SyncInv'
<1> DEFINE labels == {"written", "update", "insert"}
<1> USE DEF NothingElse
<1>0. /\ template \in Template \cup {NoTemplate} /\ NoTemplate \notin Template
      /\ scan \in [Targets -> {"absent", "off", "on", "deleted"}]
      /\ override \in [Targets -> {"none", "off", "on"}]
      /\ holds \in SUBSET Requests
      /\ cache \in Template \cup {NoTemplate}
      /\ \A s \in InProgress : job[s] \in Job
  BY SyncAssumption DEF SyncInv, TypeOK
<1>1. \A ok \in BOOLEAN : Replied(r, ok) => Proceeds(r, labels)
  BY DEF Replied, Proceeds
<1>2. pc[r] \in {"write", "update", "insert", "select"} =>
        /\ r \in InProgress
        /\ ~overlapped =>
             /\ cache \in {template, NoTemplate}
             /\ Undisturbed(r)
             /\ \A t \in tasks \ Instances :
                  template # NoTemplate /\ (t.target \in Targets => Exists(t.target))
  <2> SUFFICES ASSUME pc[r] \in {"write", "update", "insert", "select"}
               PROVE  /\ r \in InProgress
                      /\ ~overlapped =>
                           /\ cache \in {template, NoTemplate}
                           /\ Undisturbed(r)
                           /\ \A t \in tasks \ Instances :
                                template # NoTemplate /\ (t.target \in Targets => Exists(t.target))
    OBVIOUS
  <2>1. r \in InProgress /\ ~Deleting(r)
    BY DEF InProgress, Deleting, ListedAll
  <2> QED BY <2>1, AloneFacts
<1>3. \A ok \in BOOLEAN : Replied(r, ok) => pc'[r] \in {"written", "done"} /\ (pc'[r] = "written" <=> ok)
  BY DEF Replied, Goto, Ends, SyncInv, TypeOK
<1>4. ASSUME UNCHANGED scan PROVE \A t \in Targets : Exists(t)' = Exists(t)
  BY <1>4 DEF Exists
<1>5. Exists(job[r].target) \in BOOLEAN
  BY DEF Exists
<1>6. CASE AddTargetInDb(r)
  <2>1. /\ pc[r] = "write" /\ UNCHANGED <<past, cache, taskVars, template, override, holds>>
        /\ Proceeds(r, labels) /\ pc'[r] \in {"written", "done"}
    BY <1>0, <1>1, <1>3, <1>6, Zenon DEF AddTargetInDb, At
  <2>2. scan' \in [Targets -> {"absent", "off", "on", "deleted"}]
    BY <1>0, <1>6 DEF AddTargetInDb, Scanning
  <2>3. \A t \in Targets : Exists(t) => Exists(t)'
    BY <1>0, <1>6 DEF AddTargetInDb, Exists
  <2> QED BY <1>0, <1>2, <2>1, <2>2, <2>3, StatementStep
<1>7. CASE EditTargetInDb(r)
  <2>1. /\ pc[r] = "write" /\ UNCHANGED <<past, cache, taskVars, template, override, holds>>
        /\ Proceeds(r, labels) /\ pc'[r] \in {"written", "done"}
    BY <1>1, <1>3, <1>5, <1>7 DEF EditTargetInDb, At
  <2>2. scan' \in [Targets -> {"absent", "off", "on", "deleted"}]
    BY <1>0, <1>7 DEF EditTargetInDb, Scanning, Exists
  <2>3. \A t \in Targets : Exists(t) => Exists(t)'
    BY <1>0, <1>7 DEF EditTargetInDb, Exists, Scanning
  <2> QED BY <1>0, <1>2, <2>1, <2>2, <2>3, StatementStep
<1>8. CASE DeleteTargetInDb(r)
  <2>1. /\ pc[r] = "write" /\ UNCHANGED <<past, cache, taskVars, template>>
        /\ job[r].kind = "deleteTarget"
        /\ Proceeds(r, labels) /\ pc'[r] \in {"written", "done"}
    BY <1>1, <1>3, <1>5, <1>8 DEF DeleteTargetInDb, At
  <2>4. scan' \in [Targets -> {"absent", "off", "on", "deleted"}]
    BY <1>0, <1>8 DEF DeleteTargetInDb
  <2>2. \A t \in Targets : Exists(t) => Exists(t)' \/ pc'[r] = "written"
    BY <1>0, <1>3, <1>8 DEF DeleteTargetInDb, Exists
  <2>3. override' \in [Targets -> {"none", "off", "on"}] /\ holds' \in SUBSET Requests
    BY <1>0, <1>8 DEF DeleteTargetInDb, DeleteOverrides
  <2> QED BY <1>0, <1>2, <2>1, <2>2, <2>3, <2>4, StatementStep
<1>9. CASE UpdateTemplateInDb(r)
  <2>1. /\ pc[r] = "write" /\ job[r].kind = "updateTemplate"
        /\ UNCHANGED <<past, cache, taskVars, scan, override, holds>>
        /\ Proceeds(r, labels) /\ pc'[r] \in {"written", "done"}
        /\ template' = IF template = NoTemplate THEN NoTemplate
                       ELSE [active |-> job[r].on, interval |-> job[r].interval]
    BY <1>0, <1>1, <1>3, <1>9, Zenon DEF UpdateTemplateInDb, At
  <2>2. job[r].on \in BOOLEAN /\ job[r].interval \in Intervals
    BY <1>0, <1>2, <2>1, SMT DEF Job
  <2>3. [active |-> job[r].on, interval |-> job[r].interval] \in Template
    BY <2>2 DEF Template
  <2>4. /\ template' \in Template \cup {NoTemplate} /\ (template # NoTemplate => template' # NoTemplate)
        /\ ~overlapped => cache \in {template', NoTemplate}
    BY <1>0, <1>2, <2>1, <2>3 DEF Undisturbed
  <2> QED BY <1>0, <1>2, <1>4, <2>1, <2>4, StatementStep
<1>10. CASE RegisterTemplateInDb(r)
  <2>1. /\ pc[r] = "write" /\ UNCHANGED <<past, cache, taskVars, template, scan, override, holds>>
        /\ Proceeds(r, labels) /\ pc'[r] \in {"written", "done"}
    BY <1>0, <1>1, <1>3, <1>10, Zenon DEF RegisterTemplateInDb, At, dbVars
  <2> QED BY <1>0, <1>2, <1>4, <2>1, StatementStep
<1>11. CASE DeleteTemplateInDb(r)
  <2>1. /\ pc[r] = "write" /\ job[r].kind = "deleteTemplate" /\ template' = NoTemplate
        /\ UNCHANGED <<past, cache, taskVars, scan>>
        /\ Proceeds(r, labels) /\ pc'[r] = "written"
    BY <1>0, <1>1, <1>3, <1>11, Zenon DEF DeleteTemplateInDb, At
  <2>2. override' \in [Targets -> {"none", "off", "on"}] /\ holds' \in SUBSET Requests
    BY <1>0, <1>11 DEF DeleteTemplateInDb, DeleteOverrides
  <2>3. ~overlapped => tasks \ Instances = {}
    BY <1>2, <2>1 DEF Undisturbed
  <2> QED BY <1>0, <1>2, <2>1, <2>2, <2>3, StatementStep
<1>12. CASE SelectOverrideInDb(r)
  <2>1. /\ pc[r] = "select" /\ UNCHANGED <<past, cache, taskVars, template, scan, override>>
        /\ Proceeds(r, labels) /\ pc'[r] \in {"update", "insert"}
        /\ holds' \in SUBSET Requests
    BY <1>0, <1>12 DEF SelectOverrideInDb, Proceeds, Goto, dbVars, SyncInv, TypeOK
  <2> QED BY <1>0, <1>2, <1>4, <2>1, StatementStep
<1>13. CASE UpdateOverrideInDb(r)
  <2>1. /\ pc[r] = "update" /\ UNCHANGED <<past, cache, taskVars, template, scan>>
        /\ Proceeds(r, labels) /\ pc'[r] \in {"written", "done"}
        /\ holds' \in SUBSET Requests
        /\ override' \in [Targets -> {"none", "off", "on"}]
    BY <1>0, <1>1, <1>3, <1>13, Zenon DEF UpdateOverrideInDb, Scanning
  <2> QED BY <1>0, <1>2, <1>4, <2>1, StatementStep
<1>14. CASE InsertOverrideInDb(r)
  <2>1. /\ pc[r] = "insert" /\ UNCHANGED <<past, cache, taskVars, template, scan, holds>>
        /\ Proceeds(r, labels) /\ pc'[r] \in {"written", "done"}
        /\ override' \in [Targets -> {"none", "off", "on"}]
    BY <1>0, <1>1, <1>3, <1>14, Zenon DEF InsertOverrideInDb, Scanning
  <2> QED BY <1>0, <1>2, <1>4, <2>1, StatementStep
<1>15. CASE RemoveOverrideInDb(r)
  <2>1. /\ pc[r] = "write" /\ UNCHANGED <<past, cache, taskVars, template, scan>>
        /\ Proceeds(r, labels) /\ pc'[r] = "written"
    BY <1>0, <1>1, <1>3, <1>15, Zenon DEF RemoveOverrideInDb, At
  <2>2. override' \in [Targets -> {"none", "off", "on"}] /\ holds' \in SUBSET Requests
    BY <1>0, <1>15 DEF RemoveOverrideInDb, DeleteOverrides
  <2> QED BY <1>0, <1>2, <1>4, <2>1, <2>2, StatementStep
<1> QED BY <1>6, <1>7, <1>8, <1>9, <1>10, <1>11, <1>12, <1>13, <1>14, <1>15 DEF Statement

(* A request comes when nobody is in progress, or requests overlap.        *)
LEMMA RequestKeepsInv ==
  ASSUME SyncInv, LookInv, NEW r \in Requests, Request(r)
  PROVE  SyncInv' /\ LookInv'
<1>1. PICK kind \in Kinds, t \in Owners, on \in BOOLEAN, i \in Intervals :
        /\ job' = [job EXCEPT ![r] = [kind |-> kind, target |-> t, on |-> on, interval |-> i,
                                      seen |-> NoTemplate, known |-> {}, view |-> {}]]
        /\ pc' = [pc EXCEPT ![r] = IF kind = "setOverride" THEN "select" ELSE "write"]
        /\ cache' = CacheBefore(kind)
        /\ tasks' = IF kind = "deleteTemplate" THEN {} ELSE tasks
        /\ overlapped' = (overlapped \/ InProgress # {} \/ (Writes(kind) /\ LookingUp # {}))
  BY DEF Request
<1> DEFINE j == [kind |-> kind, target |-> t, on |-> on, interval |-> i,
                 seen |-> NoTemplate, known |-> {}, view |-> {}]
           label == IF kind = "setOverride" THEN "select" ELSE "write"
<1>2. j \in Job /\ j.kind = kind /\ j.target = t
  BY SyncAssumption, SMT DEF Job
<1>3. job' = [job EXCEPT ![r] = j] /\ pc' = [pc EXCEPT ![r] = label]
  BY <1>1
<1> HIDE DEF j
<1>4. /\ pc[r] = "new" /\ UNCHANGED <<type, template, scan, override, created, holds, asking, fetched>>
      /\ overlapped' = (overlapped \/ InProgress # {} \/ (Writes(kind) /\ LookingUp # {}))
  BY <1>1 DEF Request, dbVars, lookVars
<1>5. label \in {"select", "write"} /\ label \in Labels
  BY DEF Labels
<1>6. /\ pc' \in [Requests -> Labels] /\ job' \in [Requests -> Job \cup {NoTemplate}]
      /\ InProgress' = InProgress \cup {r} /\ Done' = Done
      /\ \A q \in InProgress' : job'[q] \in Job
      /\ \A q \in Requests : q # r => pc'[q] = pc[q] /\ job'[q] = job[q]
      /\ pc'[r] = label /\ job'[r] = j
  <2>1. /\ pc' \in [Requests -> Labels] /\ job' \in [Requests -> Job \cup {NoTemplate}]
        /\ \A q \in Requests : q # r => pc'[q] = pc[q] /\ job'[q] = job[q]
        /\ pc'[r] = label /\ job'[r] = j
    BY <1>2, <1>3, <1>5 DEF SyncInv, TypeOK
  <2> QED BY <1>2, <1>4, <1>5, <2>1 DEF SyncInv, TypeOK, InProgress, Done
<1>7. cache' \in Template \cup {NoTemplate} /\ tasks' \subseteq tasks
      /\ cache' \in {cache, NoTemplate}
      /\ (kind = "updateTemplate" => cache' = NoTemplate)
      /\ (kind = "deleteTemplate" => tasks' = {})
  BY <1>1 DEF CacheBefore, SyncInv, TypeOK
<1>8. TypeOK'
  BY <1>4, <1>6, <1>7 DEF SyncInv, TypeOK
<1>9. NamesSuffice' /\ KindsByType' /\ OneScheduler'
  BY <1>4, <1>6, <1>7 DEF SyncInv, NamesSuffice, KindsByType, OneScheduler
<1>10. SyncsKnow'
  BY <1>2, <1>4, <1>5, <1>6 DEF SyncInv, SyncsKnow, Listed, ListedAll
<1>11. Serial'
  <2> SUFFICES ASSUME ~overlapped' PROVE Serial'
    BY DEF Serial
  <2>1. ~overlapped /\ InProgress' = {r}
    BY <1>4, <1>6
  <2>2. \A q \in Requests : pc[q] \notin {"written", "templates"} \cup ListedAll
    BY <1>4, <2>1 DEF InProgress, ListedAll
  <2>3. /\ cache \in {template, NoTemplate}
        /\ \A u \in tasks \ Instances : template # NoTemplate /\ (u.target \in Targets => Exists(u.target))
        /\ \A u, v \in tasks \ Instances : u.target = v.target => u = v
    BY <2>1, <2>2 DEF SyncInv, Serial, Due, Deleting
  <2>4. tasks' \ Instances' \subseteq tasks \ Instances
    BY <1>7 DEF Instances
  <2>5. Undisturbed(r)'
    BY <1>2, <1>5, <1>6, <1>7 DEF Undisturbed, Listed, ListedAll, Viewed
  <2>6. \A u \in tasks' \ Instances' : Due(u)'
    BY <1>4, <2>3, <2>4 DEF Due, Exists
  <2> QED BY <1>4, <1>7, <2>1, <2>3, <2>4, <2>5, <2>6 DEF Serial
<1>12. LookInv'
  <2>1. LookingUp' = LookingUp
    BY <1>4 DEF LookingUp
  <2>2. ASSUME ~overlapped' PROVE InProgress' = {r} /\ (Writes(kind) => LookingUp = {}) /\ ~overlapped
    BY <1>4, <1>6, <2>2
  <2> QED BY <1>2, <1>4, <1>6, <2>1, <2>2 DEF LookInv, LookupsTyped, LookupsFresh
<1> QED BY <1>8, <1>9, <1>10, <1>11, <1>12 DEF SyncInv

(* After the statement: the event loop's next step.                        *)
LEMMA AfterStatement ==
  ASSUME SyncInv, NEW r \in Requests,
         \/ TargetChanged(r) \/ TemplateChanged(r) \/ TemplateDeleted(r) \/ OverrideRemoved(r)
  PROVE  SyncInv'
<1>0. r \in InProgress /\ pc[r] = "written" /\ job[r] \in Job
  BY DEF TargetChanged, TemplateChanged, TemplateDeleted, OverrideRemoved, InProgress, SyncInv, TypeOK
<1>1. ~overlapped => /\ InProgress = {r} /\ Undisturbed(r)
                     /\ job[r].kind # "deleteTemplate" => cache \in {template, NoTemplate}
  BY <1>0, AloneFacts
<1>2. CASE TemplateChanged(r)
  <2>1. Invalidated(r) \in {cache, NoTemplate} /\ Invalidated(r) \in Template \cup {NoTemplate}
    BY DEF Invalidated, SyncInv, TypeOK
  <2>2. job[r].kind \notin {"deleteTarget", "deleteTemplate"}
    BY <1>2 DEF TemplateChanged
  <2> QED BY <1>0, <1>1, <1>2, <2>1, <2>2, GetTemplateStep DEF TemplateChanged
<1>3. CASE \/ TargetChanged(r) \/ TemplateDeleted(r) \/ OverrideRemoved(r)
  <2> DEFINE labels == {"templates"}
  <2>1. labels \in SUBSET (Labels \ {"new", "done"})
    BY DEF Labels
  <2>2. /\ Proceeds(r, labels)
        /\ UNCHANGED <<past, taskVars, template, scan, override, holds>>
        /\ \/ cache' = cache /\ job[r].kind # "deleteTemplate"
           \/ cache' = NoTemplate /\ job[r].kind = "deleteTemplate"
        /\ job[r].kind = "deleteTarget" => Goto(r, "templates")
    BY <1>3 DEF TargetChanged, TemplateDeleted, OverrideRemoved, Proceeds, dbVars
  <2>3. /\ TypeOK' /\ NamesSuffice' /\ KindsByType' /\ OneScheduler'
        /\ UNCHANGED <<type, overlapped, tasks, created, Instances>>
        /\ \A q \in Requests : q # r => pc'[q] = pc[q] /\ job'[q] = job[q]
        /\ \/ pc'[r] = "done" /\ InProgress' = InProgress \ {r}
           \/ pc'[r] \in labels /\ job'[r] = job[r] /\ InProgress' = InProgress
    <3>1. /\ template' \in Template \cup {NoTemplate}
          /\ scan' \in [Targets -> {"absent", "off", "on", "deleted"}]
          /\ override' \in [Targets -> {"none", "off", "on"}]
          /\ cache' \in Template \cup {NoTemplate} /\ holds' \in SUBSET Requests
      BY <2>2 DEF SyncInv, TypeOK
    <3> QED BY <1>0, <2>1, <2>2, <3>1, ProceedsTyped
  <2>4. SyncsKnow'
    BY <1>0, <2>3 DEF SyncInv, SyncsKnow, Listed, ListedAll
  <2>5. Serial'
    <3> SUFFICES ASSUME ~overlapped PROVE Serial'
      BY <2>3 DEF Serial
    <3>1. \A q, s \in InProgress' : q = s
      BY <1>1, <2>3
    <3>2. ASSUME NEW q \in InProgress' PROVE Undisturbed(q)'
      BY <1>1, <2>3 DEF Undisturbed, Listed, ListedAll, Viewed
    <3>3. cache' \in {template', NoTemplate}
      BY <1>1, <2>2
    <3>4. ASSUME NEW t \in tasks' \ Instances' PROVE Due(t)'
      <4>1. Due(t) /\ Exists(t.target)' = Exists(t.target)
        BY <2>2, <2>3 DEF SyncInv, Serial, Exists
      <4>2. ASSUME NEW q \in Requests, Deleting(q) PROVE Deleting(r)'
        <5>1. q = r
          BY <1>1, <4>2 DEF InProgress, Deleting, ListedAll
        <5>2. pc'[r] = "templates" /\ job'[r] = job[r]
          BY <1>0, <2>2, <4>2, <5>1 DEF Deleting, Goto, SyncInv, TypeOK
        <5> QED BY <4>2, <5>1, <5>2 DEF Deleting
      <4> QED BY <2>2, <4>1, <4>2 DEF Due
    <3> QED BY <2>3, <3>1, <3>2, <3>3, <3>4 DEF SyncInv, Serial
  <2> QED BY <2>3, <2>4, <2>5 DEF SyncInv
<1> QED BY <1>2, <1>3

(* A read of the database: only the request that waits for it changes.     *)
LEMMA ReadStep ==
  ASSUME SyncInv, NEW r \in InProgress, NEW label \in Labels \ {"new", "done"}, NEW j \in Job,
         pc' = [pc EXCEPT ![r] = label], job' = [job EXCEPT ![r] = j],
         UNCHANGED <<past, dbVars, cache, taskVars, holds>>,
         label \notin {"new", "done", "select", "write", "update", "insert", "written"},
         pc[r] # "written",
         label \in Listed => type = "TARGET_BASED",
         label \in Listed \cup ListedAll => j.seen \in Template,
         Deleting(r) => label \in ListedAll /\ j.kind = "deleteTarget",
         ~overlapped =>
           /\ label \in {"fetched"} \cup Listed \cup ListedAll => j.seen = template
           /\ label \in Listed => j.known = NamesOf(tasks)
           /\ label \in Viewed => \A t \in j.view : scan[t] = "on"
  PROVE  SyncInv'
<1>1. UNCHANGED <<type, overlapped, template, scan, override, cache, tasks, created, holds>>
  BY DEF past, dbVars, taskVars
<1>2. /\ pc' \in [Requests -> Labels] /\ job' \in [Requests -> Job \cup {NoTemplate}]
      /\ InProgress' = InProgress /\ Done' = Done
      /\ \A q \in InProgress : job'[q] \in Job
      /\ \A q \in Requests : q # r => pc'[q] = pc[q] /\ job'[q] = job[q]
      /\ pc'[r] = label /\ job'[r] = j
  <2>1. /\ pc' \in [Requests -> Labels] /\ job' \in [Requests -> Job \cup {NoTemplate}]
        /\ \A q \in Requests : q # r => pc'[q] = pc[q] /\ job'[q] = job[q]
        /\ pc'[r] = label /\ job'[r] = j
    BY DEF SyncInv, TypeOK, InProgress
  <2> QED BY <2>1 DEF SyncInv, TypeOK, InProgress, Done
<1>3. TypeOK'
  BY <1>1, <1>2 DEF SyncInv, TypeOK
<1>4. NamesSuffice' /\ KindsByType' /\ OneScheduler'
  BY <1>1, <1>2 DEF SyncInv, NamesSuffice, KindsByType, OneScheduler
<1>5. SyncsKnow'
  BY <1>1, <1>2 DEF SyncInv, SyncsKnow, Listed, ListedAll
<1>6. Serial'
  <2> SUFFICES ASSUME ~overlapped
               PROVE  /\ Undisturbed(r)' /\ cache' \in {template, NoTemplate}
                      /\ \A t \in tasks \ Instances : Due(t)'
    BY <1>1, <1>2, SerialStays
  <2>1. NamesOf(tasks)' = NamesOf(tasks)
    BY <1>1 DEF NamesOf
  <2>2. Undisturbed(r)'
    BY <1>1, <1>2, <2>1 DEF Undisturbed
  <2>3. cache' \in {template, NoTemplate}
    BY <1>1, AloneFacts
  <2>4. ASSUME NEW t \in tasks \ Instances PROVE Due(t)'
    <3>1. Due(t) /\ Exists(t.target)' = Exists(t.target)
      BY <1>1 DEF SyncInv, Serial, Exists
    <3>2. Deleting(r) => Deleting(r)'
      BY <1>2 DEF Deleting
    <3>3. \A q \in Requests : Deleting(q) => q = r
      BY AloneFacts
    <3> QED BY <1>1, <3>1, <3>2, <3>3 DEF Due
  <2> QED BY <2>2, <2>3, <2>4
<1> QED BY <1>3, <1>4, <1>5, <1>6 DEF SyncInv

LEMMA SyncKeepsInv ==
  ASSUME SyncInv, NEW r \in Requests, Sync(r)
  PROVE  SyncInv'
<1>0. /\ template \in Template \cup {NoTemplate} /\ NoTemplate \notin Template
      /\ cache \in Template \cup {NoTemplate}
      /\ \A q \in InProgress : job[q] \in Job /\ job[q].seen \in Template \cup {NoTemplate}
                               /\ job[q].view \in SUBSET Targets
  <2>1. \A q \in InProgress : job[q] \in Job
    BY DEF SyncInv, TypeOK
  <2>2. \A j \in Job : j.seen \in Template \cup {NoTemplate} /\ j.view \in SUBSET Targets
    BY SMT DEF Job
  <2> QED BY <2>1, <2>2, SyncAssumption DEF SyncInv, TypeOK
<1>1. ASSUME NEW labels, pc[r] \in labels, "new" \notin labels, "done" \notin labels
      PROVE  r \in InProgress /\ job[r] \in Job
  BY <1>0, <1>1 DEF InProgress
<1>2. r \in InProgress /\ ~overlapped => /\ Undisturbed(r)
                                         /\ cache \in {template, NoTemplate} \/ pc[r] = "written"
  BY AloneFacts
<1>3. CASE ReadTemplateInDb(r)
  <2> DEFINE j == [job[r] EXCEPT !.seen = template]
  <2>1. /\ pc[r] = "template" /\ r \in InProgress /\ job[r] \in Job
        /\ job' = [job EXCEPT ![r] = j] /\ pc' = [pc EXCEPT ![r] = "fetched"]
        /\ UNCHANGED <<past, dbVars, cache, taskVars, holds>>
    BY <1>0, <1>3 DEF ReadTemplateInDb, InProgress
  <2>2. j \in Job
    BY <1>0, <2>1, Zenon DEF Job
  <2>3. j.seen = template
    BY <2>1, SMT DEF Job
  <2> HIDE DEF j
  <2> QED BY <2>1, <2>2, <2>3, ReadStep DEF Labels, Listed, ListedAll, Viewed, Deleting
<1>4. CASE TemplateFetched(r)
  <2>1. pc[r] = "fetched" /\ r \in InProgress /\ UNCHANGED <<past, dbVars, holds>>
    BY <1>4 DEF TemplateFetched, InProgress
  <2>2. CASE job[r].seen = NoTemplate
    <3>1. Proceeds(r, {}) /\ UNCHANGED <<cache, taskVars, template, scan, override>>
      BY <1>4, <2>1, <2>2 DEF TemplateFetched, Proceeds, dbVars
    <3>2. /\ TypeOK' /\ NamesSuffice' /\ KindsByType' /\ OneScheduler'
          /\ UNCHANGED <<type, overlapped, tasks, created, Instances>>
          /\ \A q \in Requests : q # r => pc'[q] = pc[q] /\ job'[q] = job[q]
          /\ pc'[r] = "done" /\ InProgress' = InProgress \ {r}
      BY <2>1, <3>1, ProceedsTyped DEF SyncInv, TypeOK
    <3>3. SyncsKnow'
      BY <3>2 DEF SyncInv, SyncsKnow, Listed, ListedAll
    <3>4. Serial'
      <4> SUFFICES ASSUME ~overlapped PROVE Serial'
        BY <3>2 DEF Serial
      <4>1. InProgress' = {} /\ cache' \in {template', NoTemplate}
        BY <2>1, <3>1, <3>2, AloneFacts
      <4>2. \A t \in tasks \ Instances : template # NoTemplate /\ (t.target \in Targets => Exists(t.target))
        BY <2>1, AloneFacts DEF Deleting, ListedAll
      <4>3. \A t \in tasks' \ Instances' : Due(t)'
        BY <3>1, <3>2, <4>2 DEF Due, Exists
      <4> QED BY <3>2, <4>1, <4>3 DEF SyncInv, Serial
    <3> QED BY <3>2, <3>3, <3>4 DEF SyncInv
  <2>3. CASE job[r].seen # NoTemplate
    <3>1. /\ job[r].seen \in Template /\ cache' = job[r].seen /\ ListTasks(r, job[r].seen)
          /\ ~overlapped => job[r].seen = template
      BY <1>0, <1>2, <1>4, <2>1, <2>3 DEF TemplateFetched, Undisturbed
    <3> QED BY <2>1, <3>1, ListTasksStep
  <2> QED BY <2>2, <2>3
<1>5. ASSUME NEW from, NEW to, ReadTargetsInDb(r, from, to),
             <<from, to>> \in {<<"targets", "overrides">>, <<"allTargets", "allOverrides">>}
      PROVE  SyncInv'
  <2> DEFINE view == {t \in Targets : scan[t] = "on"}
             j == [job[r] EXCEPT !.view = view]
  <2>1. /\ pc[r] = from /\ r \in InProgress /\ job[r] \in Job
        /\ job' = [job EXCEPT ![r] = j] /\ pc' = [pc EXCEPT ![r] = to]
        /\ UNCHANGED <<past, dbVars, cache, taskVars, holds>>
        /\ \/ from = "targets" /\ to = "overrides"
           \/ from = "allTargets" /\ to = "allOverrides"
    BY <1>0, <1>5 DEF ReadTargetsInDb, InProgress
  <2>2. view \in SUBSET Targets /\ \A t \in view : scan[t] = "on"
    OBVIOUS
  <2> HIDE DEF view
  <2>3. j \in Job
    BY <2>1, <2>2, Zenon DEF Job
  <2>4. j.seen = job[r].seen /\ j.known = job[r].known /\ j.kind = job[r].kind /\ j.view = view
    BY <2>1, SMT DEF Job
  <2> HIDE DEF j
  <2>5. /\ from \in Listed => type = "TARGET_BASED"
        /\ job[r].seen \in Template
        /\ ~overlapped => /\ job[r].seen = template
                          /\ from \in Listed => job[r].known = NamesOf(tasks)
    BY <1>2, <2>1 DEF SyncInv, SyncsKnow, Undisturbed, Listed, ListedAll, InProgress
  <2> QED BY <2>1, <2>2, <2>3, <2>4, <2>5, ReadStep DEF Labels, Listed, ListedAll, Viewed, Deleting
<1>6. ASSUME NEW from, NEW to, ReadOverridesInDb(r, from, to),
             <<from, to>> \in {<<"overrides", "apply">>, <<"allOverrides", "applyAll">>}
      PROVE  SyncInv'
  <2> DEFINE view == {t \in job[r].view : override[t] # "off"}
             j == [job[r] EXCEPT !.view = view]
  <2>1. /\ pc[r] = from /\ r \in InProgress /\ job[r] \in Job
        /\ pc' = [pc EXCEPT ![r] = to]
        /\ UNCHANGED <<past, dbVars, cache, taskVars, holds>>
        /\ \/ from = "overrides" /\ to = "apply"
           \/ from = "allOverrides" /\ to = "applyAll"
    BY <1>0, <1>6 DEF ReadOverridesInDb, InProgress
  <2>2. job' = [job EXCEPT ![r] = j]
    BY <1>6, <2>1 DEF ReadOverridesInDb, Job, SyncInv, TypeOK
  <2>3. view \in SUBSET Targets /\ view \subseteq job[r].view
    BY <1>0, <2>1
  <2> HIDE DEF view
  <2>4. j \in Job
    BY <2>1, <2>3, Zenon DEF Job
  <2>5. j.seen = job[r].seen /\ j.known = job[r].known /\ j.kind = job[r].kind /\ j.view = view
    BY <2>1, SMT DEF Job
  <2> HIDE DEF j
  <2>6. /\ from \in Listed => type = "TARGET_BASED"
        /\ job[r].seen \in Template
        /\ ~overlapped => /\ job[r].seen = template
                          /\ from \in Listed => job[r].known = NamesOf(tasks)
                          /\ \A t \in view : scan[t] = "on"
    BY <1>2, <2>1, <2>3 DEF SyncInv, SyncsKnow, Undisturbed, Listed, ListedAll, Viewed, InProgress
  <2> QED BY <2>1, <2>2, <2>4, <2>5, <2>6, ReadStep DEF Labels, Listed, ListedAll, Viewed, Deleting
<1>7. CASE ReadTemplatesInDb(r)
  <2>1. pc[r] = "templates" /\ r \in InProgress /\ job[r] \in Job
        /\ UNCHANGED <<past, dbVars, cache, taskVars, holds>>
    BY <1>0, <1>7 DEF ReadTemplatesInDb, InProgress
  <2>2. CASE template # NoTemplate
    <3> DEFINE j == [job[r] EXCEPT !.seen = template]
    <3>1. job' = [job EXCEPT ![r] = j] /\ pc' = [pc EXCEPT ![r] = "allTargets"]
      BY <1>7, <2>2 DEF ReadTemplatesInDb
    <3>2. j \in Job
      BY <1>0, <2>1, Zenon DEF Job
    <3>3. j.seen = template /\ j.kind = job[r].kind
      BY <2>1, SMT DEF Job
    <3> HIDE DEF j
    <3> QED BY <1>0, <2>1, <2>2, <3>1, <3>2, <3>3, ReadStep
            DEF Labels, Listed, ListedAll, Viewed, Deleting
  <2>3. CASE template = NoTemplate
    <3>1. Proceeds(r, {}) /\ UNCHANGED <<template, scan, override, cache, holds>>
      BY <1>7, <2>1, <2>3 DEF ReadTemplatesInDb, Proceeds, dbVars
    <3>2. /\ TypeOK' /\ NamesSuffice' /\ KindsByType' /\ OneScheduler'
          /\ UNCHANGED <<type, overlapped, tasks, created, Instances>>
          /\ \A q \in Requests : q # r => pc'[q] = pc[q] /\ job'[q] = job[q]
          /\ pc'[r] = "done" /\ InProgress' = InProgress \ {r}
      BY <2>1, <3>1, ProceedsTyped DEF SyncInv, TypeOK
    <3>3. SyncsKnow'
      BY <3>2 DEF SyncInv, SyncsKnow, Listed, ListedAll
    <3>4. Serial'
      <4> SUFFICES ASSUME ~overlapped PROVE Serial'
        BY <3>2 DEF Serial
      <4>1. InProgress' = {} /\ cache' \in {template', NoTemplate}
        BY <2>1, <3>1, <3>2, AloneFacts
      <4>2. tasks' \ Instances' = {}
        BY <2>3, <3>2 DEF SyncInv, Serial, Due
      <4> QED BY <3>2, <4>1, <4>2 DEF SyncInv, Serial
    <3> QED BY <3>2, <3>3, <3>4 DEF SyncInv
  <2> QED BY <2>2, <2>3
<1>8. CASE TargetsFetched(r)
  <2>1. /\ pc[r] = "apply" /\ r \in InProgress /\ UNCHANGED <<past, dbVars, cache, holds>>
        /\ Synchronize(r, job[r].seen, job[r].known, job[r].view)
    BY <1>8 DEF TargetsFetched, InProgress
  <2>2. /\ job[r].seen \in Template /\ job[r].view \in SUBSET Targets
        /\ ~overlapped => /\ job[r].seen = template /\ job[r].known = NamesOf(tasks)
                          /\ \A t \in job[r].view : scan[t] = "on"
                          /\ cache \in {template, NoTemplate}
    BY <1>0, <1>2, <2>1 DEF SyncInv, SyncsKnow, Undisturbed, Listed, ListedAll, Viewed
  <2> QED BY <1>0, <2>1, <2>2, SyncEnds
<1>9. CASE AllFetched(r)
  <2>1. /\ pc[r] = "applyAll" /\ r \in InProgress /\ UNCHANGED <<past, dbVars, cache, holds>>
        /\ Synchronize(r, job[r].seen, NamesOf(tasks), job[r].view)
    BY <1>9 DEF AllFetched, InProgress
  <2>2. /\ job[r].seen \in Template /\ job[r].view \in SUBSET Targets
        /\ ~overlapped => /\ job[r].seen = template
                          /\ \A t \in job[r].view : scan[t] = "on"
                          /\ cache \in {template, NoTemplate}
    BY <1>0, <1>2, <2>1 DEF SyncInv, SyncsKnow, Undisturbed, Listed, ListedAll, Viewed
  <2> QED BY <1>0, <2>1, <2>2, SyncEnds
<1> QED BY <1>3, <1>4, <1>5, <1>6, <1>7, <1>8, <1>9 DEF Sync

(* Instances belong to CUSTOM templates only.                              *)
LEMMA InstanceKeepsInv ==
  ASSUME SyncInv,
         \/ \E o \in Owners : CreateTaskInstance(o)
         \/ \E t \in Instances : InstanceDone(t)
  PROVE  SyncInv'
<1>0. UNCHANGED <<type, overlapped, template, scan, override, cache, pc, job, holds, InProgress, Done>>
  BY DEF CreateTaskInstance, InstanceDone, past, dbVars, InProgress, Done
<1>1. /\ type = "CUSTOM" /\ tasks' \in SUBSET Task /\ created' \in [Owners -> 0..Most]
      /\ NamesSuffice' /\ tasks' \ Instances' = tasks \ Instances
      /\ \A t \in tasks' : t \in tasks \/ t.kind = "instance"
  <2>1. CASE \E o \in Owners : CreateTaskInstance(o)
    <3>1. PICK o \in Owners : CreateTaskInstance(o)
      BY <2>1
    <3> DEFINE tm == [active |-> TRUE, interval |-> AnInterval]
               t == NewTask(o, "instance", tm)
    <3>2. /\ type = "CUSTOM" /\ tm \in Template /\ created[o] < MaxInstances
          /\ tasks' = tasks \cup {t} /\ created' = [created EXCEPT ![o] = @ + 1]
      BY <3>1, SyncAssumption DEF CreateTaskInstance, Template, AnInterval
    <3> HIDE DEF tm
    <3>3. created[o] \in Nat /\ created[o] + 1 <= MaxInstances /\ created[o] + 1 <= Most
      BY <3>2, SyncAssumption DEF SyncInv, TypeOK, Most
    <3>4. t \in Task /\ t.kind = "instance"
      <4>1. TypeOK /\ "instance" \in {"plain", "scheduler", "instance"}
        BY DEF SyncInv
      <4> QED BY <3>2, <3>3, <4>1, NewTaskFacts, Zenon
    <3> HIDE DEF t
    <3>5. created' \in [Owners -> 0..Most]
      BY <3>2, <3>3, SyncAssumption DEF SyncInv, TypeOK, Most
    <3>6. NamesSuffice'
      <4>1. Cardinality(Done) \in Nat
        BY CountDone DEF SyncInv
      <4>2. ASSUME NEW p \in Owners PROVE created'[p] <= 1 + MaxInstances + Cardinality(Done)
        BY <3>2, <3>3, <4>1, SyncAssumption DEF SyncInv, TypeOK, NamesSuffice
      <4> QED BY <1>0, <4>2 DEF NamesSuffice
    <3>7. tasks' \ Instances' = tasks \ Instances
      BY <3>2, <3>4 DEF Instances
    <3>8. tasks' \in SUBSET Task
      BY <3>2, <3>4 DEF SyncInv, TypeOK
    <3> QED BY <3>2, <3>4, <3>5, <3>6, <3>7, <3>8
  <2>2. CASE \E t \in Instances : InstanceDone(t)
    <3>1. PICK t \in Instances : InstanceDone(t)
      BY <2>2
    <3>2. t \in tasks /\ t.kind = "instance" /\ tasks' = tasks \ {t} /\ created' = created
      BY <3>1 DEF Instances, InstanceDone
    <3>3. type = "CUSTOM"
      BY <3>2 DEF SyncInv, KindsByType, TypeOK
    <3>4. tasks' \ Instances' = tasks \ Instances
      BY <3>2 DEF Instances
    <3> QED BY <1>0, <3>2, <3>3, <3>4 DEF SyncInv, TypeOK, NamesSuffice
  <2> QED BY <2>1, <2>2
<1>2. TypeOK'
  BY <1>0, <1>1 DEF SyncInv, TypeOK
<1>3. KindsByType' /\ OneScheduler'
  BY <1>0, <1>1 DEF SyncInv, KindsByType, OneScheduler
<1>4. SyncsKnow'
  BY <1>0 DEF SyncInv, SyncsKnow
<1>5. Serial'
  <2> SUFFICES ASSUME ~overlapped PROVE Serial'
    BY <1>0 DEF Serial
  <2>1. ASSUME NEW r \in InProgress PROVE Undisturbed(r)'
    <3>1. pc[r] \notin Listed
      BY <1>1 DEF SyncInv, SyncsKnow, InProgress
    <3> QED BY <1>0, <1>1, <3>1 DEF SyncInv, Serial, Undisturbed
  <2>2. \A t \in tasks \ Instances : Due(t)'
    BY <1>0 DEF SyncInv, Serial, Due, Exists, Deleting
  <2> QED BY <1>0, <1>1, <2>1, <2>2 DEF SyncInv, Serial
<1> QED BY <1>1, <1>2, <1>3, <1>4, <1>5 DEF SyncInv

-----------------------------------------------------------------------------
(* Lookups of the template from outside the requests.                      *)

(* A request that goes on keeps its kind.                                  *)
LEMMA KindStays ==
  ASSUME SyncInv, NEW r \in Requests,
         \/ Statement(r) \/ TargetChanged(r) \/ TemplateChanged(r) \/ TemplateDeleted(r)
         \/ OverrideRemoved(r) \/ Sync(r)
  PROVE  /\ r \in InProgress
         /\ \A q \in InProgress' : q \in InProgress /\ job'[q].kind = job[q].kind
<1>1. r \in InProgress
  BY DEF InProgress, Statement, AddTargetInDb, EditTargetInDb, DeleteTargetInDb, UpdateTemplateInDb,
         RegisterTemplateInDb, DeleteTemplateInDb, SelectOverrideInDb, UpdateOverrideInDb,
         InsertOverrideInDb, RemoveOverrideInDb, At, TargetChanged, TemplateChanged, TemplateDeleted,
         OverrideRemoved, Sync, ReadTemplateInDb, TemplateFetched, ReadTargetsInDb,
         ReadOverridesInDb, TargetsFetched, ReadTemplatesInDb, AllFetched
<1>2. job[r] \in Job /\ pc \in [Requests -> Labels] /\ job \in [Requests -> Job \cup {NoTemplate}]
  BY <1>1 DEF SyncInv, TypeOK
<1>3. /\ \E label : pc' = [pc EXCEPT ![r] = label]
      /\ \/ job' = job
         \/ pc' = [pc EXCEPT ![r] = "done"] /\ job' = [job EXCEPT ![r] = NoTemplate]
         \/ \E tm, names : job' = [job EXCEPT ![r].seen = tm, ![r].known = names]
         \/ \E tm : job' = [job EXCEPT ![r].seen = tm]
         \/ \E view : job' = [job EXCEPT ![r].view = view]
  <2>1. CASE Statement(r)
    BY <2>1 DEF Statement, AddTargetInDb, EditTargetInDb, DeleteTargetInDb, UpdateTemplateInDb,
         RegisterTemplateInDb, DeleteTemplateInDb, SelectOverrideInDb, UpdateOverrideInDb,
         InsertOverrideInDb, RemoveOverrideInDb, Goto, Ends, Replied
  <2>2. CASE TargetChanged(r) \/ TemplateDeleted(r) \/ OverrideRemoved(r)
    BY <2>2 DEF TargetChanged, TemplateDeleted, OverrideRemoved, Goto, Ends
  <2>3. CASE TemplateChanged(r)
    BY <2>3 DEF TemplateChanged, Goto, Ends, GetTemplate, ListTasks, Synchronize
  <2>4. CASE Sync(r)
    <3>1. CASE ReadTemplateInDb(r)
      BY <3>1 DEF ReadTemplateInDb
    <3>2. CASE TemplateFetched(r)
      BY <3>2 DEF TemplateFetched, Ends, ListTasks, Synchronize
    <3>3. ASSUME NEW from, NEW to, ReadTargetsInDb(r, from, to)
          PROVE  /\ \E label : pc' = [pc EXCEPT ![r] = label]
                 /\ \E view : job' = [job EXCEPT ![r].view = view]
      BY <3>3 DEF ReadTargetsInDb
    <3>4. ASSUME NEW from, NEW to, ReadOverridesInDb(r, from, to)
          PROVE  /\ \E label : pc' = [pc EXCEPT ![r] = label]
                 /\ \E view : job' = [job EXCEPT ![r].view = view]
      <4> DEFINE view == {t \in job[r].view : override[t] # "off"}
      <4>1. job' = [job EXCEPT ![r].view = view] /\ pc' = [pc EXCEPT ![r] = to]
        BY <3>4 DEF ReadOverridesInDb
      <4> HIDE DEF view
      <4> QED BY <4>1
    <3>5. CASE TargetsFetched(r) \/ AllFetched(r)
      BY <3>5 DEF TargetsFetched, AllFetched, Synchronize, Ends
    <3>6. CASE ReadTemplatesInDb(r)
      BY <3>6 DEF ReadTemplatesInDb, Ends
    <3> QED BY <2>4, <3>1, <3>2, <3>3, <3>4, <3>5, <3>6 DEF Sync
  <2> QED BY <2>1, <2>2, <2>3, <2>4
<1>4. \A q \in InProgress' : q \in InProgress
  BY <1>1, <1>2, <1>3 DEF InProgress
<1>5. ASSUME NEW q \in InProgress' PROVE job'[q].kind = job[q].kind
  <2>1. CASE q # r
    BY <1>2, <1>3, <2>1 DEF InProgress
  <2>2. CASE q = r
    <3>1. pc'[r] # "done"
      BY <2>2 DEF InProgress
    <3>2. ASSUME NEW tm, NEW names, job' = [job EXCEPT ![r].seen = tm, ![r].known = names]
          PROVE  job'[r].kind = job[r].kind
      BY <1>2, <3>2, SMT DEF Job
    <3>3. ASSUME NEW tm, job' = [job EXCEPT ![r].seen = tm] PROVE job'[r].kind = job[r].kind
      BY <1>2, <3>3, SMT DEF Job
    <3>4. ASSUME NEW view, job' = [job EXCEPT ![r].view = view] PROVE job'[r].kind = job[r].kind
      BY <1>2, <3>4, SMT DEF Job
    <3>5. pc' # [pc EXCEPT ![r] = "done"]
      BY <1>2, <3>1
    <3> QED BY <1>3, <2>2, <3>2, <3>3, <3>4, <3>5, Zenon
  <2> QED BY <2>1, <2>2
<1> QED BY <1>1, <1>4, <1>5

(* Only the statement of a request that writes the template changes it.    *)
LEMMA WriterOnly ==
  ASSUME NEW r \in Requests,
         \/ Statement(r) \/ TargetChanged(r) \/ TemplateChanged(r) \/ TemplateDeleted(r)
         \/ OverrideRemoved(r) \/ Sync(r)
  PROVE  /\ UNCHANGED <<asking, fetched, overlapped>>
         /\ template' = template \/ Writes(job[r].kind)
<1>1. CASE Statement(r)
  BY <1>1 DEF Statement, AddTargetInDb, EditTargetInDb, DeleteTargetInDb, UpdateTemplateInDb,
       RegisterTemplateInDb, DeleteTemplateInDb, SelectOverrideInDb, UpdateOverrideInDb,
       InsertOverrideInDb, RemoveOverrideInDb, NothingElse, past, dbVars, At, Writes
<1>2. CASE TargetChanged(r) \/ TemplateChanged(r) \/ TemplateDeleted(r) \/ OverrideRemoved(r)
  BY <1>2 DEF TargetChanged, TemplateChanged, TemplateDeleted, OverrideRemoved, past, dbVars
<1>3. CASE Sync(r)
  BY <1>3 DEF Sync, ReadTemplateInDb, TemplateFetched, ReadTargetsInDb, ReadOverridesInDb,
       TargetsFetched, ReadTemplatesInDb, AllFetched, past, dbVars
<1> QED BY <1>1, <1>2, <1>3

LEMMA LookupsStayFresh ==
  ASSUME SyncInv, LookInv, NEW r \in Requests,
         \/ Statement(r) \/ TargetChanged(r) \/ TemplateChanged(r) \/ TemplateDeleted(r)
         \/ OverrideRemoved(r) \/ Sync(r)
  PROVE  LookInv'
<1>1. /\ UNCHANGED <<asking, fetched, overlapped>>
      /\ template' = template \/ Writes(job[r].kind)
      /\ r \in InProgress
      /\ \A q \in InProgress' : q \in InProgress /\ job'[q].kind = job[q].kind
  BY WriterOnly, KindStays
<1>2. LookingUp' = LookingUp
  BY <1>1 DEF LookingUp
<1>3. Writes(job[r].kind) /\ ~overlapped => \A l \in Lookups : fetched[l] = NoTemplate
  BY <1>1 DEF LookInv, LookupsFresh, LookingUp
<1>4. \A q \in InProgress' : Writes(job'[q].kind) = Writes(job[q].kind)
  BY <1>1 DEF Writes
<1> QED BY <1>1, <1>2, <1>3, <1>4 DEF LookInv, LookupsTyped, LookupsFresh

(* What a lookup does to the cache.                                        *)
LEMMA LookupKeepsInv ==
  ASSUME SyncInv, LookInv, NEW l \in Lookups, Lookup(l)
  PROVE  SyncInv' /\ LookInv'
<1>1. /\ UNCHANGED <<type, template, scan, override, tasks, created, pc, job, holds>>
      /\ UNCHANGED <<InProgress, Done, Instances>>
      /\ overlapped' \in BOOLEAN /\ (overlapped => overlapped')
      /\ cache' = cache \/ (cache' = fetched[l] /\ fetched[l] # NoTemplate)
  BY DEF Lookup, AskTemplate, LookupInDb, LookupFills, dbVars, taskVars, InProgress, Done, Instances,
         SyncInv, TypeOK
<1>2. cache' \in Template \cup {NoTemplate}
  BY <1>1 DEF LookInv, LookupsTyped, SyncInv, TypeOK
<1>3. TypeOK' /\ NamesSuffice' /\ KindsByType' /\ OneScheduler' /\ SyncsKnow'
  BY <1>1, <1>2 DEF SyncInv, TypeOK, NamesSuffice, KindsByType, OneScheduler, SyncsKnow
<1>4. Serial'
  <2> SUFFICES ASSUME ~overlapped' PROVE Serial'
    BY DEF Serial
  <2>1. ~overlapped
    BY <1>1
  <2>2. cache' = cache \/ (cache' = template /\ LookingUp # {})
    BY <1>1, <2>1 DEF LookInv, LookupsFresh, LookingUp
  <2>3. ASSUME NEW r \in InProgress PROVE Undisturbed(r)'
    <3>1. Undisturbed(r) /\ (Writes(job[r].kind) => LookingUp = {})
      BY <2>1 DEF SyncInv, Serial, LookInv, LookupsFresh
    <3>2. NamesOf(tasks)' = NamesOf(tasks)
      BY <1>1 DEF NamesOf
    <3> QED BY <1>1, <2>2, <3>1, <3>2 DEF Undisturbed, Writes
  <2>4. \A t \in tasks \ Instances : Due(t)'
    BY <1>1, <2>1 DEF SyncInv, Serial, Due, Exists, Deleting
  <2> QED BY <1>1, <2>1, <2>2, <2>3, <2>4 DEF SyncInv, Serial
<1>5. LookInv'
  <2>1. CASE AskTemplate(l)
    <3>1. /\ asking' = asking \cup {l} /\ fetched' = fetched
          /\ overlapped' = (overlapped \/ \E r \in InProgress : Writes(job[r].kind))
      BY <2>1 DEF AskTemplate
    <3> QED BY <1>1, <3>1 DEF LookInv, LookupsTyped, LookupsFresh
  <2>2. CASE LookupInDb(l)
    <3>1. /\ l \in asking /\ asking' = asking \ {l} /\ overlapped' = overlapped
          /\ fetched' = [fetched EXCEPT ![l] = template]
      BY <2>2 DEF LookupInDb
    <3>2. LookupsTyped'
      BY <3>1 DEF LookInv, LookupsTyped, SyncInv, TypeOK
    <3>3. LookingUp # {}
      BY <3>1 DEF LookingUp
    <3> QED BY <1>1, <3>1, <3>2, <3>3 DEF LookInv, LookupsTyped, LookupsFresh
  <2>3. CASE LookupFills(l)
    <3>1. /\ fetched[l] # NoTemplate /\ UNCHANGED <<asking, overlapped>>
          /\ fetched' = [fetched EXCEPT ![l] = NoTemplate]
      BY <2>3 DEF LookupFills
    <3>2. LookingUp # {}
      BY <3>1 DEF LookingUp
    <3> QED BY <1>1, <3>1, <3>2 DEF LookInv, LookupsTyped, LookupsFresh
  <2> QED BY <2>1, <2>2, <2>3 DEF Lookup
<1> QED BY <1>3, <1>4, <1>5 DEF SyncInv

-----------------------------------------------------------------------------
LEMMA SyncInvInit == Init => SyncInv /\ LookInv
<1> SUFFICES ASSUME Init PROVE SyncInv /\ LookInv
  OBVIOUS
<1> DEFINE valid == IF template.active THEN Applicable ELSE {}
           one(kind) == [target |-> NoTarget, n |-> 1, active |-> TRUE,
                         interval |-> template.interval, kind |-> kind]
<1>0. /\ type \in {"TARGET_BASED", "GLOBAL", "CUSTOM"} /\ template \in Template
      /\ template.interval \in Intervals /\ template # NoTemplate
      /\ scan \in [Targets -> {"absent", "off", "on", "deleted"}]
      /\ override \in [Targets -> {"none", "off", "on"}]
      /\ cache = template /\ holds = {} /\ overlapped = FALSE
      /\ pc = [r \in Requests |-> "new"] /\ job = [r \in Requests |-> NoTemplate]
      /\ valid \subseteq Applicable
      /\ created = [o \in Owners |-> IF \E t \in tasks : t.target = o THEN 1 ELSE 0]
      /\ tasks = CASE type = "TARGET_BASED" -> {[one("plain") EXCEPT !.target = t] : t \in valid}
                   [] type = "GLOBAL" -> {one("plain")}
                   [] type = "CUSTOM" ->
                        IF template.interval > 0 THEN {one("scheduler")} ELSE {}
  BY SyncAssumption DEF Init, Template
<1>1. Most \in Nat /\ Most >= 1 /\ 1 \in 1..Most /\ Applicable \subseteq Targets
  BY SyncAssumption DEF Most, Applicable
<1>2. ASSUME NEW kind \in {"plain", "scheduler"}
      PROVE  one(kind) \in Task /\ one(kind).target = NoTarget /\ one(kind).kind = kind
  BY <1>0, <1>1, SMT DEF Task, Owners
<1>3. ASSUME NEW t \in Targets
      PROVE  LET f == [one("plain") EXCEPT !.target = t]
             IN f \in Task /\ f.target = t /\ f.kind = "plain"
  <2>1. one("plain") \in Task /\ one("plain").kind = "plain" /\ t \in Owners
    BY <1>2 DEF Owners
  <2> HIDE DEF one
  <2>2. [one("plain") EXCEPT !.target = t] \in Task
    BY <2>1, Zenon DEF Task
  <2> QED BY <2>1, <2>2, SMT DEF Task
<1> HIDE DEF one, valid
<1>4. /\ tasks \in SUBSET Task /\ KindsByType
      /\ \A t, u \in tasks : t.target = u.target => t = u
      /\ \A t \in tasks : t.target \in Targets => t.target \in Applicable
  <2>1. CASE type = "TARGET_BASED"
    <3>1. tasks = {[one("plain") EXCEPT !.target = t] : t \in valid}
      BY <1>0, <2>1
    <3>2. \A t \in tasks : t \in Task /\ t.kind = "plain" /\ t.target \in valid
                            /\ t = [one("plain") EXCEPT !.target = t.target]
      <4>1. ASSUME NEW t \in tasks, NEW o \in valid, t = [one("plain") EXCEPT !.target = o]
            PROVE  t \in Task /\ t.kind = "plain" /\ t.target = o
        <5>1. o \in Targets
          BY <1>0, <1>1
        <5> QED BY <1>3, <4>1, <5>1
      <4> QED BY <3>1, <4>1
    <3> QED BY <1>0, <1>1, <2>1, <3>2 DEF KindsByType
  <2>2. CASE type = "GLOBAL"
    <3>1. tasks = {one("plain")}
      BY <1>0, <2>2
    <3> QED BY <1>0, <1>2, <2>2, <3>1, SyncAssumption DEF KindsByType
  <2>3. CASE type = "CUSTOM"
    <3>1. tasks \subseteq {one("scheduler")}
      BY <1>0, <2>3
    <3> QED BY <1>0, <1>2, <2>3, <3>1, SyncAssumption DEF KindsByType
  <2> QED BY <1>0, <2>1, <2>2, <2>3
<1>5. created \in [Owners -> 0..Most] /\ \A o \in Owners : created[o] <= 1
  BY <1>0, <1>1
<1>6. InProgress = {} /\ \A r \in Requests : pc[r] = "new"
  BY <1>0 DEF InProgress
<1>7. TypeOK
  BY <1>0, <1>4, <1>5, <1>6 DEF TypeOK, Labels
<1>8. NamesSuffice
  BY <1>5, <1>7, CountDone, SyncAssumption DEF NamesSuffice
<1>9. OneScheduler
  BY <1>4 DEF OneScheduler
<1>10. SyncsKnow
  BY <1>6 DEF SyncsKnow, Listed, ListedAll
<1>11. Serial
  BY <1>0, <1>4, <1>6 DEF Serial, Due, Exists, Applicable
<1>12. LookInv
  BY <1>0, <1>6 DEF Init, LookInv, LookupsTyped, LookupsFresh
<1> QED BY <1>4, <1>7, <1>8, <1>9, <1>10, <1>11, <1>12 DEF SyncInv

LEMMA SyncInvNext == SyncInv /\ LookInv /\ [Next]_vars => SyncInv' /\ LookInv'
<1> SUFFICES ASSUME SyncInv, LookInv, [Next]_vars PROVE SyncInv' /\ LookInv'
  OBVIOUS
<1>1. CASE UNCHANGED vars
  <2>1. UNCHANGED <<type, overlapped, template, scan, override, cache, tasks, created, pc, job, holds>>
    BY <1>1 DEF vars, past, dbVars, taskVars
  <2>2. UNCHANGED <<InProgress, Done, Instances>>
    BY <2>1 DEF InProgress, Done, Instances
  <2>3. SyncInv'
    BY <2>1, <2>2 DEF SyncInv, TypeOK, NamesSuffice, KindsByType, OneScheduler, SyncsKnow,
                      Serial, Undisturbed, Due, Deleting, Exists, NamesOf
  <2>4. UNCHANGED <<asking, fetched, LookingUp>>
    BY <1>1 DEF vars, past, LookingUp
  <2>5. LookInv'
    BY <2>1, <2>2, <2>4 DEF LookInv, LookupsTyped, LookupsFresh
  <2> QED BY <2>3, <2>5
<1>2. ASSUME NEW r \in Requests, Request(r) PROVE SyncInv' /\ LookInv'
  BY <1>2, RequestKeepsInv
<1>3. ASSUME NEW r \in Requests, Statement(r) PROVE SyncInv' /\ LookInv'
  BY <1>3, StatementKeepsInv, LookupsStayFresh
<1>4. ASSUME NEW r \in Requests,
             \/ TargetChanged(r) \/ TemplateChanged(r) \/ TemplateDeleted(r) \/ OverrideRemoved(r)
      PROVE  SyncInv' /\ LookInv'
  BY <1>4, AfterStatement, LookupsStayFresh
<1>5. ASSUME NEW r \in Requests, Sync(r) PROVE SyncInv' /\ LookInv'
  BY <1>5, SyncKeepsInv, LookupsStayFresh
<1>6. CASE \/ \E o \in Owners : CreateTaskInstance(o)
           \/ \E t \in Instances : InstanceDone(t)
  <2>1. UNCHANGED <<template, overlapped, asking, fetched, InProgress, LookingUp, job>>
    BY <1>6 DEF CreateTaskInstance, InstanceDone, past, dbVars, InProgress, LookingUp
  <2>2. LookInv'
    BY <2>1 DEF LookInv, LookupsTyped, LookupsFresh
  <2> QED BY <1>6, <2>2, InstanceKeepsInv
<1>7. ASSUME NEW l \in Lookups, Lookup(l) PROVE SyncInv' /\ LookInv'
  BY <1>7, LookupKeepsInv
<1> QED BY <1>1, <1>2, <1>3, <1>4, <1>5, <1>6, <1>7 DEF Next

-----------------------------------------------------------------------------
(* A sync with fresh data repairs the registry.                            *)

LEMMA FollowsFacts ==
  ASSUME template \in Template, template.active, NEW t
  PROVE  /\ \A u \in Task : t = Follow(u, template) => Follows(t)
         /\ \A o, kind : t = NewTask(o, kind, template) => Follows(t)
<1>1. template.active = TRUE
  BY DEF Template
<1>2. ASSUME NEW o, NEW kind, t = NewTask(o, kind, template)
      PROVE  t.active = TRUE /\ t.interval = template.interval
  BY <1>2 DEF NewTask
<1>3. \A u \in Task : t = Follow(u, template) => Follows(t)
  BY FollowFacts DEF Follows
<1>4. \A o, kind : t = NewTask(o, kind, template) => Follows(t)
  BY <1>1, <1>2, Zenon DEF Follows
<1> QED BY <1>3, <1>4

LEMMA SynchronizeExact ==
  ASSUME TypeOK, KindsByType, Room, template \in Template, template.active,
         \A t \in Instances : t.target # NoTarget,
         NEW names, NEW valid \in SUBSET Targets,
         type = "TARGET_BASED" => names = NamesOf(tasks) /\ valid = Applicable,
         tasks' = Synced(tasks, template, names, valid),
         UNCHANGED <<type, template, scan, override>>
  PROVE  Exact' /\ AddsWhatIsMissing
<1>1. /\ tasks \subseteq Task /\ NoTarget \in Owners /\ Targets \subseteq Owners
      /\ \A o \in Owners : created[o] + 1 <= Most
  BY DEF TypeOK, Owners, Room
<1>2. \A t \in tasks' : Follows(t)'
  <2>1. \A t : Follows(t)' <=> Follows(t)
    BY DEF Follows
  <2>2. ASSUME NEW t \in tasks'
        PROVE  \/ t \in tasks /\ type = "TARGET_BASED" /\ Name(t) \notin names
               \/ \E u \in tasks : t = Follow(u, template)
               \/ \E o, kind : t = NewTask(o, kind, template)
    BY SyncedMembers
  <2>3. \A t \in tasks : type = "TARGET_BASED" => Name(t) \in names
    BY DEF NamesOf
  <2> QED BY <1>1, <2>1, <2>2, <2>3, FollowsFacts
<1>3. CASE type = "TARGET_BASED"
  <2>1. tasks' = SyncTargets(tasks, template, names, Applicable)
    BY <1>3 DEF Synced
  <2>2. {t.target : t \in tasks'} \subseteq Applicable
    <3>1. ASSUME NEW t \in tasks' PROVE t.target \in Applicable
      <4>1. \/ t \in tasks /\ Name(t) \notin names
            \/ \E u \in tasks : t = Follow(u, template) /\ u.target \in Applicable
            \/ \E o \in Applicable : t = NewTask(o, "plain", template)
        BY <1>3, SyncedMembers
      <4>2. \A u \in tasks : Name(u) \in names
        BY <1>3 DEF NamesOf
      <4>3. \A u \in tasks : Follow(u, template).target = u.target
        BY <1>1, FollowFacts
      <4>4. \A o \in Applicable : NewTask(o, "plain", template).target = o
        <5>1. "plain" \in {"plain", "scheduler", "instance"} /\ Applicable \subseteq Owners
          BY <1>1 DEF Applicable
        <5> QED BY <1>1, <5>1, NewTaskFacts, SMT
      <4> QED BY <4>1, <4>2, <4>3, <4>4
    <3> QED BY <3>1
  <2>3. ASSUME NEW o \in Applicable PROVE \E t \in tasks' : t.target = o
    <3>1. CASE \E u \in tasks : u.target = o
      <4>1. PICK u \in tasks : u.target = o
        BY <3>1
      <4>2. Name(u) \in names
        BY <1>3 DEF NamesOf
      <4>3. Follow(u, template) \in tasks'
        BY <2>1, <4>1, <4>2 DEF SyncTargets
      <4> QED BY <1>1, <4>1, <4>3, FollowFacts
    <3>2. CASE \A u \in tasks : u.target # o
      <4>1. \A x \in names : x[1] # o
        BY <1>3, <3>2 DEF NamesOf, Name
      <4>2. NewTask(o, "plain", template) \in tasks'
        BY <2>1, <4>1 DEF SyncTargets
      <4>3. NewTask(o, "plain", template).target = o
        <5>1. "plain" \in {"plain", "scheduler", "instance"} /\ o \in Owners
          BY <1>1 DEF Applicable
        <5> QED BY <1>1, <5>1, NewTaskFacts, SMT
      <4> QED BY <4>2, <4>3
    <3> QED BY <3>1, <3>2
  <2>4. Applicable' = Applicable
    BY DEF Applicable
  <2>5. {t.target : t \in tasks'} = Applicable'
    BY <2>2, <2>3, <2>4
  <2>6. ASSUME NEW t \in tasks, t.target \in Applicable'
        PROVE  Name(t) \in NamesOf(tasks')
    <3>1. Name(t) \in names
      BY <1>3 DEF NamesOf
    <3>2. Follow(t, template) \in tasks'
      BY <2>1, <2>4, <2>6, <3>1 DEF SyncTargets
    <3>3. Name(Follow(t, template)) = Name(t)
      BY <1>1, FollowFacts DEF Name
    <3> QED BY <3>2, <3>3 DEF NamesOf
  <2>7. ASSUME NEW t \in tasks', NEW u \in tasks, t.target = u.target
        PROVE  Name(t) \in NamesOf(tasks)
    <3>1. \/ t \in tasks
          \/ \E w \in tasks : t = Follow(w, template)
          \/ \E o \in Applicable : t = NewTask(o, "plain", template) /\ \A x \in names : x[1] # o
      BY <1>3, SyncedMembers
    <3>2. ASSUME NEW w \in tasks, t = Follow(w, template) PROVE Name(t) = Name(w)
      BY <1>1, <3>2, FollowFacts DEF Name
    <3>3. ASSUME NEW o \in Applicable, t = NewTask(o, "plain", template), \A x \in names : x[1] # o
          PROVE  FALSE
      <4>1. Name(u) \in names /\ Name(u)[1] = u.target
        BY <1>3 DEF NamesOf, Name
      <4>2. t.target = o
        <5>1. "plain" \in {"plain", "scheduler", "instance"} /\ o \in Owners
          BY <1>1 DEF Applicable
        <5> QED BY <1>1, <3>3, <5>1, NewTaskFacts, SMT
      <4> QED BY <2>7, <3>3, <4>1, <4>2
    <3>4. PICK w \in tasks : Name(t) = Name(w)
      BY <3>1, <3>2, <3>3, Zenon
    <3> QED BY <3>4 DEF NamesOf
  <2>8. Exact'
    BY <1>2, <1>3, <2>5 DEF Exact
  <2>9. AddsWhatIsMissing
    BY <2>4, <2>6, <2>7 DEF AddsWhatIsMissing
  <2> QED BY <2>8, <2>9
<1>4. CASE type = "GLOBAL"
  <2>1. tasks' = SyncGlobal(tasks, template)
    BY <1>4 DEF Synced
  <2>2. \E t : tasks' = {t}
    BY <2>1 DEF SyncGlobal
  <2>3. Cardinality(tasks') = 1
    BY <2>2, FS_Singleton
  <2> QED BY <1>2, <1>4, <2>3 DEF Exact, AddsWhatIsMissing
<1>5. CASE type = "CUSTOM"
  <2> DEFINE free == {t \in tasks : t.target = NoTarget}
  <2>1. tasks' = SyncCustom(tasks, template)
    BY <1>5 DEF Synced
  <2>2. CASE template.interval <= 0
    BY <1>2, <1>5, <2>1, <2>2 DEF SyncCustom, Exact, AddsWhatIsMissing
  <2>3. CASE ~(template.interval <= 0)
    <3>1. CASE free = {}
      <4>1. tasks' = {NewTask(NoTarget, "scheduler", template)}
        BY <2>1, <2>3, <3>1 DEF SyncCustom
      <4>2. NewTask(NoTarget, "scheduler", template).kind = "scheduler"
        BY DEF NewTask
      <4>3. \E t \in tasks' : tasks' = {t} /\ t.kind = "scheduler"
        BY <4>1, <4>2
      <4> QED BY <1>2, <1>5, <2>3, <4>3 DEF Exact, AddsWhatIsMissing
    <3>2. CASE free # {}
      <4> DEFINE old == Oldest(free)
      <4>1. old \in tasks /\ old.target = NoTarget
        BY <1>1, <3>2, OldestExists
      <4>2. old.kind = "scheduler"
        BY <1>1, <1>5, <4>1 DEF KindsByType, Instances, Task
      <4>3. tasks' = {t \in {Follow(old, template)} : t.kind = "scheduler"}
        BY <2>1, <2>3, <3>2 DEF SyncCustom
      <4> HIDE DEF old
      <4>4. Follow(old, template).kind = "scheduler"
        BY <1>1, <4>1, <4>2, FollowFacts
      <4>5. \E t \in tasks' : tasks' = {t} /\ t.kind = "scheduler"
        BY <4>3, <4>4
      <4> QED BY <1>2, <1>5, <2>3, <4>5 DEF Exact, AddsWhatIsMissing
    <3> QED BY <3>1, <3>2
  <2> QED BY <2>2, <2>3
<1> QED BY <1>3, <1>4, <1>5 DEF TypeOK

(* A step of one request leaves the others where they are.                 *)
LEMMA OthersStay ==
  ASSUME SyncInv, NEW q \in Requests, NEW r \in Requests, q # r,
         \/ Request(q) \/ Statement(q) \/ TargetChanged(q) \/ TemplateChanged(q)
         \/ TemplateDeleted(q) \/ OverrideRemoved(q) \/ Sync(q)
  PROVE  pc'[r] = pc[r]
<1>1. \E label : pc' = [pc EXCEPT ![q] = label]
  BY DEF Request, Statement, AddTargetInDb, EditTargetInDb, DeleteTargetInDb, UpdateTemplateInDb,
         RegisterTemplateInDb, DeleteTemplateInDb, SelectOverrideInDb, UpdateOverrideInDb,
         InsertOverrideInDb, RemoveOverrideInDb, TargetChanged, TemplateChanged, TemplateDeleted,
         OverrideRemoved, Sync, ReadTemplateInDb, TemplateFetched, ReadTargetsInDb,
         ReadOverridesInDb, TargetsFetched, ReadTemplatesInDb, AllFetched, Goto, Ends, Replied,
         GetTemplate, ListTasks, Synchronize
<1> QED BY <1>1 DEF SyncInv, TypeOK

LEMMA FreshStep ==
  ASSUME SyncInv, [Next]_vars, NEW r \in Requests, EndsFresh(r)
  PROVE  Exact' /\ AddsWhatIsMissing
<1>0. /\ TypeOK /\ KindsByType /\ NamesSuffice
      /\ template \in Template /\ template.active
      /\ \A t \in Instances : t.target # NoTarget
      /\ pc'[r] = "done" /\ pc \in [Requests -> Labels]
      /\ pc[r] \in {"written", "fetched", "apply", "applyAll"}
  BY DEF SyncInv, TypeOK, EndsFresh
<1>1. pc' # pc /\ pc'[r] # pc[r] /\ r \in InProgress
  BY <1>0 DEF InProgress
<1>2. \/ Request(r) \/ Statement(r) \/ TargetChanged(r) \/ TemplateChanged(r)
      \/ TemplateDeleted(r) \/ OverrideRemoved(r) \/ Sync(r)
  BY <1>1, OthersStay DEF Next, vars, CreateTaskInstance, InstanceDone, Lookup,
       AskTemplate, LookupInDb, LookupFills
<1>3. ~Request(r) /\ ~Statement(r)
  BY <1>0 DEF Request, Statement, AddTargetInDb, EditTargetInDb, DeleteTargetInDb, UpdateTemplateInDb,
         RegisterTemplateInDb, DeleteTemplateInDb, SelectOverrideInDb, UpdateOverrideInDb,
         InsertOverrideInDb, RemoveOverrideInDb, At
<1>4. SUFFICES ASSUME NEW names, NEW valid \in SUBSET Targets,
                      Synchronize(r, template, names, valid),
                      type = "TARGET_BASED" => names = NamesOf(tasks) /\ valid = Applicable,
                      UNCHANGED <<type, template, scan, override>>
               PROVE  Exact' /\ AddsWhatIsMissing
  <2>1. ASSUME NEW c, c = template, ListTasks(r, c)
        PROVE  type # "TARGET_BASED" /\ Synchronize(r, template, NamesOf(tasks), {})
    <3>1. ~(type = "TARGET_BASED" /\ c.active)
      BY <1>0, <2>1 DEF ListTasks
    <3> QED BY <1>0, <2>1, <3>1 DEF ListTasks
  <2>2. CASE pc[r] = "written"
    <3>1. TemplateChanged(r) /\ cache = template
      BY <1>2, <1>3, <2>2 DEF EndsFresh, TargetChanged, TemplateDeleted, OverrideRemoved,
           Sync, ReadTemplateInDb, TemplateFetched, ReadTargetsInDb, ReadOverridesInDb,
           TargetsFetched, ReadTemplatesInDb, AllFetched
    <3>2. ListTasks(r, Invalidated(r)) /\ Invalidated(r) = template
      BY <1>0, <3>1 DEF TemplateChanged, GetTemplate, Invalidated, Goto
    <3>3. UNCHANGED <<type, template, scan, override>>
      BY <3>1 DEF TemplateChanged, past, dbVars
    <3> QED BY <1>4, <2>1, <3>2, <3>3
  <2>3. CASE pc[r] = "fetched"
    <3>1. TemplateFetched(r) /\ job[r].seen = template
      BY <1>2, <1>3, <2>3 DEF EndsFresh, TargetChanged, TemplateChanged, TemplateDeleted, OverrideRemoved,
           Sync, ReadTemplateInDb, ReadTargetsInDb, ReadOverridesInDb,
           TargetsFetched, ReadTemplatesInDb, AllFetched
    <3>2. ListTasks(r, job[r].seen)
      BY <1>0, <3>1, SyncAssumption DEF TemplateFetched
    <3>3. UNCHANGED <<type, template, scan, override>>
      BY <3>1 DEF TemplateFetched, past, dbVars
    <3> QED BY <1>4, <2>1, <3>1, <3>2, <3>3
  <2>4. CASE pc[r] = "apply"
    <3>1. /\ TargetsFetched(r) /\ job[r].seen = template /\ job[r].view = Applicable
          /\ job[r].known = NamesOf(tasks)
      BY <1>2, <1>3, <2>4 DEF EndsFresh, TargetChanged, TemplateChanged, TemplateDeleted, OverrideRemoved,
           Sync, ReadTemplateInDb, TemplateFetched, ReadTargetsInDb, ReadOverridesInDb,
           ReadTemplatesInDb, AllFetched
    <3>2. Applicable \in SUBSET Targets
      BY DEF Applicable
    <3> QED BY <1>4, <3>1, <3>2 DEF TargetsFetched, past, dbVars
  <2>5. CASE pc[r] = "applyAll"
    <3>1. /\ AllFetched(r) /\ job[r].seen = template
          /\ type = "TARGET_BASED" => job[r].view = Applicable
      BY <1>2, <1>3, <2>5 DEF EndsFresh, TargetChanged, TemplateChanged, TemplateDeleted, OverrideRemoved,
           Sync, ReadTemplateInDb, TemplateFetched, ReadTargetsInDb, ReadOverridesInDb,
           ReadTemplatesInDb, TargetsFetched
    <3>2. job[r].view \in SUBSET Targets
      <4>1. job[r] \in Job
        BY <1>1 DEF SyncInv, TypeOK
      <4> QED BY <4>1, SMT DEF Job
    <3> QED BY <1>4, <3>1, <3>2 DEF AllFetched, past, dbVars
  <2> QED BY <1>0, <2>2, <2>3, <2>4, <2>5
<1>5. Room /\ tasks' = Synced(tasks, template, names, valid)
  BY <1>0, <1>1, <1>4, RoomLeft DEF Synchronize
<1> QED BY <1>0, <1>4, <1>5, SynchronizeExact

-----------------------------------------------------------------------------
(* The names of tasks never run out, and every request, lookup, task and   *)
(* cache entry has the form the actions rely on.                           *)
THEOREM NamesNeverRunOut == Spec => [](TypeOK /\ LookupsTyped /\ NamesSuffice)
<1>1. SyncInv /\ LookInv => TypeOK /\ LookupsTyped /\ NamesSuffice
  BY DEF SyncInv, LookInv
<1> QED BY <1>1, SyncInvInit, SyncInvNext, PTL DEF Spec

(* Whatever requests come, and however they interleave, there is at most   *)
(* one global or scheduler task; and while requests do not overlap, and no *)
(* lookup of the dispatcher meets one that writes the template, a target   *)
(* has one task, the cache is never stale at rest, and nothing is          *)
(* scheduled for what was deleted.                                         *)
THEOREM RegistryIsSound == Spec => []RegistrySound
<1>1. SyncInv => RegistrySound
  <2> SUFFICES ASSUME SyncInv PROVE RegistrySound
    OBVIOUS
  <2>1. SchedulerUnique
    <3> DEFINE S == {t \in tasks : t.target = NoTarget /\ t.kind # "instance"}
    <3>1. \A t, u \in S : t = u
      BY DEF SyncInv, OneScheduler
    <3> HIDE DEF S
    <3>2. S = {} \/ \E t : S = {t}
      BY <3>1
    <3>3. Cardinality(S) <= 1
      <4>1. CASE S = {}
        BY <4>1, FS_EmptySet
      <4>2. ASSUME NEW t, S = {t} PROVE Cardinality(S) = 1
        BY <4>2, FS_Singleton
      <4> QED BY <3>2, <4>1, <4>2
    <3> QED BY <3>3 DEF SchedulerUnique, S
  <2>2. OneTaskPerTarget
    BY DEF SyncInv, Serial, OneTaskPerTarget
  <2>3. Quiet => \A q \in Requests : pc[q] # "written" /\ ~Deleting(q)
    BY DEF Quiet, InProgress, Deleting, ListedAll
  <2>4. CacheCoherent /\ NothingForDeleted
    BY <2>3 DEF SyncInv, Serial, Due, CacheCoherent, NothingForDeleted
  <2> QED BY <2>1, <2>2, <2>4 DEF RegistrySound
<1> QED BY <1>1, SyncInvInit, SyncInvNext, PTL DEF Spec

(* Whatever other requests left in the registry, a sync that ends with     *)
(* fresh data of an active template leaves tasks for exactly the targets   *)
(* that are due; it adds no duplicate and keeps the tasks of such a target *)
(* (duplicates of before included).                                        *)
THEOREM FreshSyncsRepair == Spec => FreshSyncRepairs
<1>1. SyncInv /\ [Next]_vars =>
        [\A r \in Requests : EndsFresh(r) => Exact' /\ AddsWhatIsMissing]_vars
  BY FreshStep
<1> QED BY <1>1, SyncInvInit, SyncInvNext, PTL DEF Spec, FreshSyncRepairs
=============================================================================
