---------------------------- MODULE SchedulerProofs ----------------------------
(***************************************************************************)
(* Proofs about Scheduler: an instance runs once (InstanceRunsOnce), and   *)
(* no execution whose listeners were not told is forgotten                 *)
(* (NothingForgotten).                                                     *)
(***************************************************************************)
EXTENDS Scheduler, ChoiceLemmas, TLAPS

Entry == [next : Int \cup {Year}, since : Int \cup {Absent}, active : BOOLEAN, interval : Int]

TypeOK ==
  /\ task \in [Tasks -> Entry \cup {Absent}]
  /\ runs \in [Tasks -> [Places -> Run \cup {Absent}]]
  /\ starts \in [Instances -> 0..2]
  /\ owed \in [Tasks -> Int]

(* An instance in the registry was executed, and its due time is never     *)
(* reached: no sweep finds it.                                             *)
NeverDue ==
  \A i \in Instances :
    /\ starts[i] <= 1
    /\ task[i] # Absent => starts[i] = 1 /\ task[i].next = Year

Unfinished(t) == {k \in Live(t) : runs[t][k].status # "ended"}

SchedulerInv == TypeOK /\ NeverDue /\ NothingForgotten

-----------------------------------------------------------------------------
LEMMA LongestType == Longest \in Intervals /\ Longest \in Nat
<1> DEFINE self == [i \in Intervals |-> i]
<1>1. \E i \in Intervals : \A j \in Intervals : self[j] <= self[i]
  <2>1. self \in [Intervals -> Nat] /\ IsFiniteSet(Intervals) /\ Intervals # {}
    BY SchedulerAssumption
  <2> HIDE DEF self
  <2> QED BY <2>1, LargestExists
<1> QED BY <1>1, SchedulerAssumption DEF Longest

LEMMA Names ==
  /\ Recurring \subseteq Tasks /\ Instances \subseteq Tasks /\ Timer \in Tasks
  /\ \A i \in Instances : i \notin Recurring /\ i # Timer
BY SchedulerAssumption DEF Tasks

(* The records of the model.                                               *)
LEMMA NewRun ==
  /\ [status |-> "pending", age |-> 0] \in Run
  /\ [status |-> "pending", age |-> 0].status # "ended"
  /\ [status |-> "pending", age |-> 0] # Absent
<1>1. [status |-> "pending", age |-> 0] \in Run
  BY DEF Run
<1> QED BY <1>1, SchedulerAssumption

LEMMA NewEntries ==
  /\ \A i \in Intervals : Fresh(i) \in Entry
  /\ InstanceTask \in Entry /\ InstanceTask.next = Year
BY SchedulerAssumption, LongestType, SMT DEF Fresh, InstanceTask, Entry

LEMMA EntryChanges ==
  ASSUME NEW e \in Entry, NEW n \in Int \cup {Year}, NEW since \in Int \cup {Absent},
         NEW interval \in Int, NEW active \in BOOLEAN
  PROVE  /\ [e EXCEPT !.next = n, !.since = since] \in Entry
         /\ [e EXCEPT !.next = n, !.since = since].next = n
         /\ [e EXCEPT !.next = n, !.interval = interval, !.active = active] \in Entry
<1>1. /\ [e EXCEPT !.next = n, !.since = since] \in Entry
      /\ [e EXCEPT !.next = n, !.interval = interval, !.active = active] \in Entry
  BY Zenon DEF Entry
<1>2. [e EXCEPT !.next = n, !.since = since].next = n
  BY SMT DEF Entry
<1> QED BY <1>1, <1>2

LEMMA ResyncedEntry ==
  ASSUME NEW e \in Entry, NEW i \in Int, NEW on \in BOOLEAN
  PROVE  Resynced(e, i, on) \in Entry
<1>1. e.next \in Int \cup {Year} /\ e.since \in Int \cup {Absent}
  BY DEF Entry
<1>2. NextAfter(e, i) \in Int \cup {Year}
  BY <1>1 DEF NextAfter
<1> QED BY <1>2, Zenon DEF Resynced, Entry

LEMMA FiniteUnfinished ==
  ASSUME NEW t \in Tasks
  PROVE  IsFiniteSet(Unfinished(t)) /\ Cardinality(Unfinished(t)) \in Nat
<1>1. IsFiniteSet(Places)
  BY SchedulerAssumption, FS_Interval DEF Places
<1>2. Unfinished(t) \subseteq Places
  BY DEF Unfinished, Live
<1> QED BY <1>1, <1>2, FS_Subset, FS_CardinalityType

(* createExecution: one execution more is in the registry and owed.        *)
LEMMA ExecuteCounts ==
  ASSUME TypeOK, NothingForgotten, NEW ts \in SUBSET Tasks, Execute(ts)
  PROVE  /\ runs' \in [Tasks -> [Places -> Run \cup {Absent}]]
         /\ owed' \in [Tasks -> Int] /\ NothingForgotten'
<1> DEFINE new == [status |-> "pending", age |-> 0]
           slot(t) == CHOOSE k \in Free(t) : TRUE
<1>1. /\ \A t \in ts : slot(t) \in Free(t)
      /\ runs' = [t \in Tasks |-> IF t \in ts THEN [runs[t] EXCEPT ![slot(t)] = new] ELSE runs[t]]
      /\ owed' = [t \in Tasks |-> IF t \in ts THEN owed[t] + 1 ELSE owed[t]]
  BY DEF Execute
<1>2. new \in Run /\ new.status # "ended" /\ new # Absent
  BY NewRun
<1> HIDE DEF new, slot
<1>3. owed' \in [Tasks -> Int]
  BY <1>1 DEF TypeOK
<1>4. runs' \in [Tasks -> [Places -> Run \cup {Absent}]]
  BY <1>1, <1>2 DEF TypeOK
<1>5. ASSUME NEW t \in Tasks PROVE owed'[t] = Cardinality(Unfinished(t)')
  <2>1. CASE t \notin ts
    <3>1. runs'[t] = runs[t] /\ owed'[t] = owed[t]
      BY <1>1, <2>1
    <3> QED BY <3>1 DEF NothingForgotten, Unfinished, Live
  <2>2. CASE t \in ts
    <3>1. slot(t) \in Places /\ runs[t][slot(t)] = Absent /\ owed'[t] = owed[t] + 1
      BY <1>1, <2>2 DEF Free, Live
    <3>2. \A k \in Places : runs'[t][k] = IF k = slot(t) THEN new ELSE runs[t][k]
      BY <1>1, <2>2, <3>1 DEF TypeOK
    <3>3. Unfinished(t)' = Unfinished(t) \cup {slot(t)} /\ slot(t) \notin Unfinished(t)
      BY <1>2, <3>1, <3>2 DEF Unfinished, Live
    <3>4. Cardinality(Unfinished(t)') = Cardinality(Unfinished(t)) + 1
      BY <3>3, FiniteUnfinished, FS_AddElement
    <3> QED BY <3>1, <3>4 DEF NothingForgotten, Unfinished
  <2> QED BY <2>1, <2>2
<1> QED BY <1>3, <1>4, <1>5 DEF NothingForgotten, Unfinished

(* A step that ends no execution and forgets only what has ended.          *)
LEMMA SameUnfinished ==
  ASSUME NothingForgotten, UNCHANGED owed,
         \A t \in Tasks : \A k \in Places : k \in Unfinished(t)' <=> k \in Unfinished(t)
  PROVE  NothingForgotten'
<1>1. ASSUME NEW t \in Tasks PROVE Unfinished(t)' = Unfinished(t)
  <2>1. Unfinished(t) \subseteq Places /\ Unfinished(t)' \subseteq Places
    BY DEF Unfinished, Live
  <2> QED BY <2>1
<1> QED BY <1>1 DEF NothingForgotten, Unfinished

LEMMA SchedulerInvInit == Init => SchedulerInv
<1> SUFFICES ASSUME Init PROVE SchedulerInv
  OBVIOUS
<1> PICK i \in Intervals, c \in CustomIntervals :
      task = [t \in Tasks |-> CASE t \in Recurring -> Fresh(i)
                               [] t = Timer -> Fresh(c)
                               [] OTHER -> Absent]
  BY DEF Init
<1>1. TypeOK
  <2>1. Fresh(i) \in Entry /\ Fresh(c) \in Entry
    BY NewEntries, SchedulerAssumption
  <2> HIDE DEF Fresh
  <2>2. task \in [Tasks -> Entry \cup {Absent}]
    BY <2>1
  <2> QED BY <2>2 DEF Init, TypeOK
<1>2. NeverDue
  BY Names DEF Init, NeverDue
<1>3. ASSUME NEW t \in Tasks PROVE Unfinished(t) = {}
  BY DEF Init, Unfinished, Live
<1>4. NothingForgotten
  BY <1>3, FS_EmptySet DEF Init, NothingForgotten, Unfinished
<1> QED BY <1>1, <1>2, <1>4 DEF SchedulerInv

LEMMA TickKeepsInv ==
  ASSUME SchedulerInv, Tick
  PROVE  SchedulerInv'
<1> DEFINE e(t) == [task[t] EXCEPT !.next = IF @ = Year \/ @ = 0 THEN @ ELSE @ - 1,
                                   !.since = Older(@, Cap)]
           r(t, k) == [runs[t][k] EXCEPT !.age = Older(@, Retention + 1)]
<1>1. /\ task' = [t \in Tasks |-> IF task[t] = Absent THEN Absent ELSE e(t)]
      /\ runs' = [t \in Tasks |-> [k \in Places |-> IF k \in Live(t) THEN r(t, k) ELSE Absent]]
      /\ UNCHANGED <<starts, owed>>
  BY DEF Tick
<1>2. ASSUME NEW t \in Tasks, task[t] # Absent
      PROVE  e(t) \in Entry /\ (task[t].next = Year => e(t).next = Year)
  <2>1. task[t] \in Entry /\ Cap \in Nat
    BY <1>2, LongestType, SchedulerAssumption DEF SchedulerInv, TypeOK, Cap
  <2> DEFINE n == IF task[t].next = Year \/ task[t].next = 0 THEN task[t].next ELSE task[t].next - 1
             since == Older(task[t].since, Cap)
  <2>2. n \in Int \cup {Year} /\ since \in Int \cup {Absent}
    BY <2>1 DEF Entry, Older
  <2>3. e(t) = [task[t] EXCEPT !.next = n, !.since = since]
    BY <2>1, SMT DEF Entry
  <2>4. task[t].next = Year => n = Year
    OBVIOUS
  <2> HIDE DEF n, since, e
  <2>5. [task[t] EXCEPT !.next = n, !.since = since] \in Entry
    BY <2>1, <2>2, Zenon DEF Entry
  <2>6. [task[t] EXCEPT !.next = n, !.since = since].next = n
    BY <2>1, SMT DEF Entry
  <2> QED BY <2>3, <2>4, <2>5, <2>6
<1>3. ASSUME NEW t \in Tasks, NEW k \in Live(t)
      PROVE  r(t, k) \in Run /\ r(t, k).status = runs[t][k].status /\ r(t, k) # Absent
  <2>1. runs[t][k] \in Run /\ Cap \in Nat
    BY LongestType, SchedulerAssumption DEF SchedulerInv, TypeOK, Live, Cap
  <2>2. Older(runs[t][k].age, Retention + 1) \in Nat
    <3>1. runs[t][k].age \in Nat
      BY <2>1 DEF Run
    <3> QED BY <3>1, <2>1, SchedulerAssumption DEF Older
  <2>3. r(t, k) \in Run /\ r(t, k).status = runs[t][k].status
    BY <2>1, <2>2, SMT DEF Run
  <2> QED BY <2>3, SchedulerAssumption
<1> HIDE DEF e, r
<1>4. TypeOK'
  <2>1. task' \in [Tasks -> Entry \cup {Absent}]
    BY <1>1, <1>2
  <2>2. runs' \in [Tasks -> [Places -> Run \cup {Absent}]]
    BY <1>1, <1>3 DEF Live
  <2> QED BY <1>1, <2>1, <2>2 DEF SchedulerInv, TypeOK
<1>5. NeverDue'
  BY <1>1, <1>2, Names DEF SchedulerInv, NeverDue
<1>6. NothingForgotten'
  <2>1. ASSUME NEW t \in Tasks, NEW k \in Places
        PROVE  k \in Unfinished(t)' <=> k \in Unfinished(t)
    <3>1. runs'[t][k] = IF k \in Live(t) THEN r(t, k) ELSE Absent
      BY <1>1
    <3> QED BY <1>3, <3>1 DEF Unfinished, Live
  <2> QED BY <1>1, <2>1, SameUnfinished DEF SchedulerInv
<1> QED BY <1>4, <1>5, <1>6 DEF SchedulerInv

(* The sweep: an instance is never due.                                    *)
LEMMA SweepKeepsInv ==
  ASSUME SchedulerInv, CheckDueTasks
  PROVE  SchedulerInv'
<1> DEFINE new(t) == IF t \notin Due THEN task[t]
                     ELSE IF t \in Instances THEN Absent ELSE Postponed(t)
<1>1. /\ Execute(DueToRun)
      /\ starts' = [i \in Instances |-> IF i \in DueToRun THEN 2 ELSE starts[i]]
      /\ task' = [t \in Tasks |-> new(t)]
  BY DEF CheckDueTasks
<1>2. ASSUME NEW i \in Instances PROVE i \notin Due
  <2>1. CASE task[i] = Absent
    BY <2>1 DEF Due
  <2>2. CASE task[i] # Absent
    <3>1. task[i].next = Year /\ Year # 0
      BY <2>2, SchedulerAssumption DEF SchedulerInv, NeverDue
    <3> QED BY <3>1 DEF Due
  <2> QED BY <2>1, <2>2
<1>3. DueToRun \subseteq Due /\ Due \subseteq Tasks
  BY DEF DueToRun, Due
<1>4. ASSUME NEW t \in Tasks PROVE new(t) \in Entry \cup {Absent}
  <2>1. CASE t \notin Due
    BY <2>1 DEF SchedulerInv, TypeOK
  <2>2. CASE t \in Due
    <3>1. t \notin Instances /\ task[t] \in Entry
      BY <1>2, <2>2 DEF Due, SchedulerInv, TypeOK
    <3>2. task[t].interval \in Int \cup {Year} /\ 0 \in Int \cup {Absent}
      BY <3>1, SMT DEF Entry
    <3>3. Postponed(t) \in Entry
      BY <3>1, <3>2, Zenon DEF Postponed, Entry
    <3> QED BY <2>2, <3>1, <3>3
  <2> QED BY <2>1, <2>2
<1>5. /\ runs' \in [Tasks -> [Places -> Run \cup {Absent}]]
      /\ owed' \in [Tasks -> Int] /\ NothingForgotten'
  <2>1. DueToRun \in SUBSET Tasks
    BY <1>3
  <2> QED BY <1>1, <2>1, ExecuteCounts DEF SchedulerInv
<1>6. starts' = starts
  BY <1>1, <1>2, <1>3 DEF SchedulerInv, TypeOK
<1>7. ASSUME NEW i \in Instances PROVE task'[i] = task[i]
  <2>1. i \in Tasks /\ i \notin Due
    BY <1>2, Names
  <2>2. task'[i] = new(i)
    BY <1>1, <2>1
  <2> QED BY <2>1, <2>2
<1> HIDE DEF new
<1>8. task' \in [Tasks -> Entry \cup {Absent}]
  BY <1>1, <1>4
<1> QED BY <1>5, <1>6, <1>7, <1>8 DEF SchedulerInv, TypeOK, NeverDue

(* Manual runs, and the first run of an instance.                          *)
LEMMA ManualRunKeepsInv ==
  ASSUME SchedulerInv, NEW ts \in SUBSET Tasks, Execute(ts), UNCHANGED <<task, starts>>
  PROVE  SchedulerInv'
<1>1. /\ runs' \in [Tasks -> [Places -> Run \cup {Absent}]]
      /\ owed' \in [Tasks -> Int] /\ NothingForgotten'
  BY ExecuteCounts DEF SchedulerInv
<1> QED BY <1>1 DEF SchedulerInv, TypeOK, NeverDue

LEMMA RegisterInstanceKeepsInv ==
  ASSUME SchedulerInv, NEW i \in Instances, RegisterInstance(i)
  PROVE  SchedulerInv'
<1>1. /\ runs' \in [Tasks -> [Places -> Run \cup {Absent}]]
      /\ owed' \in [Tasks -> Int] /\ NothingForgotten'
  <2>1. {i} \in SUBSET Tasks
    BY Names
  <2> QED BY <2>1, ExecuteCounts DEF SchedulerInv, RegisterInstance
<1>2. starts' = [starts EXCEPT ![i] = 1] /\ task' = [task EXCEPT ![i] = InstanceTask]
  BY DEF RegisterInstance
<1>3. i \in Tasks /\ InstanceTask \in Entry /\ InstanceTask.next = Year
  BY Names, NewEntries
<1> HIDE DEF InstanceTask
<1>4. starts' \in [Instances -> 0..2] /\ task' \in [Tasks -> Entry \cup {Absent}]
  BY <1>2, <1>3 DEF SchedulerInv, TypeOK
<1>5. NeverDue'
  <2>1. ASSUME NEW j \in Instances
        PROVE  starts'[j] <= 1 /\ (task'[j] # Absent => starts'[j] = 1 /\ task'[j].next = Year)
    <3>1. CASE j = i
      BY <1>2, <1>3, <3>1 DEF SchedulerInv, TypeOK
    <3>2. CASE j # i
      <4>1. starts'[j] = starts[j] /\ task'[j] = task[j]
        BY <1>2, <3>2, Names DEF SchedulerInv, TypeOK
      <4> QED BY <4>1 DEF SchedulerInv, NeverDue
    <3> QED BY <3>1, <3>2
  <2> QED BY <2>1 DEF NeverDue
<1> QED BY <1>1, <1>4, <1>5 DEF SchedulerInv, TypeOK

(* Steps that leave the executions alone and put no instance in the        *)
(* registry: edits, and what the pruner and unregisterTaskTemplate remove. *)
LEMMA TaskChangeKeepsInv ==
  ASSUME SchedulerInv, UNCHANGED <<runs, starts, owed>>,
         task' \in [Tasks -> Entry \cup {Absent}],
         \A i \in Instances : task'[i] \in {task[i], Absent}
  PROVE  SchedulerInv'
<1>1. TypeOK' /\ NeverDue'
  BY DEF SchedulerInv, TypeOK, NeverDue
<1>2. NothingForgotten'
  BY DEF SchedulerInv, NothingForgotten, Live
<1> QED BY <1>1, <1>2 DEF SchedulerInv

LEMMA EditKeepsInv ==
  ASSUME SchedulerInv, NEW t \in Recurring, Edit(t)
  PROVE  SchedulerInv'
<1>1. t \in Tasks /\ \A i \in Instances : i # t /\ i \in Tasks
  BY Names
<1>2. CASE DropTask(t)
  BY <1>1, <1>2, TaskChangeKeepsInv DEF DropTask, SchedulerInv, TypeOK
<1>3. ASSUME NEW i \in Intervals, AddTask(t, i) PROVE SchedulerInv'
  BY <1>1, <1>3, NewEntries, TaskChangeKeepsInv DEF AddTask, SchedulerInv, TypeOK
<1>4. ASSUME NEW i \in Intervals, NEW on \in BOOLEAN, Resync(t, i, on) PROVE SchedulerInv'
  <2>1. task[t] \in Entry /\ i \in Int /\ task' = [task EXCEPT ![t] = Resynced(task[t], i, on)]
    BY <1>1, <1>4, SchedulerAssumption DEF Resync, SchedulerInv, TypeOK
  <2>2. Resynced(task[t], i, on) \in Entry
    BY <2>1, ResyncedEntry
  <2>3. UNCHANGED <<runs, starts, owed>>
    BY <1>4 DEF Resync
  <2> QED BY <1>1, <2>1, <2>2, <2>3, TaskChangeKeepsInv DEF SchedulerInv, TypeOK
<1> QED BY <1>2, <1>3, <1>4 DEF Edit

(* A sync keeps the timer and takes the instances out.                     *)
LEMMA ResyncCustomKeepsInv ==
  ASSUME SchedulerInv, NEW i \in CustomIntervals, NEW on \in BOOLEAN, ResyncCustom(i, on)
  PROVE  SchedulerInv'
<1> DEFINE e == Resynced(task[Timer], i, on)
<1>1. /\ task[Timer] # Absent
      /\ task' = [t \in Tasks |-> CASE t = Timer -> Resynced(task[t], i, on)
                                    [] t \in Instances -> Absent
                                    [] OTHER -> task[t]]
      /\ UNCHANGED <<runs, starts, owed>>
  BY DEF ResyncCustom
<1>2. task \in [Tasks -> Entry \cup {Absent}]
  BY DEF SchedulerInv, TypeOK
<1>3. e \in Entry
  <2>1. task[Timer] \in Entry /\ i \in Int
    <3>1. Timer \in Tasks
      BY Names
    <3>2. i \in Intervals /\ Intervals \subseteq Nat
      BY SchedulerAssumption
    <3> QED BY <1>1, <1>2, <3>1, <3>2
  <2> QED BY <2>1, ResyncedEntry
<1>4. ASSUME NEW t \in Tasks
      PROVE task'[t] = IF t = Timer THEN e ELSE IF t \in Instances THEN Absent ELSE task[t]
  <2>1. CASE t = Timer
    <3>1. e = Resynced(task[t], i, on)
      BY <2>1
    <3> HIDE DEF e
    <3>2. task'[t] = Resynced(task[t], i, on)
      BY <1>1, <2>1, Names
    <3> QED BY <2>1, <3>1, <3>2
  <2>2. CASE t # Timer
    <3> HIDE DEF e
    <3> QED BY <1>1, <2>2
  <2> QED BY <2>1, <2>2
<1> HIDE DEF e
<1>5. task' \in [Tasks -> Entry \cup {Absent}]
  <2>1. ASSUME NEW t \in Tasks PROVE task'[t] \in Entry \cup {Absent}
    BY <1>2, <1>3, <1>4
  <2> QED BY <1>1, <2>1
<1>6. \A j \in Instances : task'[j] \in {task[j], Absent}
  BY <1>4, Names
<1> QED BY <1>1, <1>5, <1>6, TaskChangeKeepsInv

(* What the dispatcher does with execution k of t.                         *)
LEMMA MovesRuns ==
  ASSUME SchedulerInv, NEW t \in Tasks, NEW k \in Live(t),
         NEW from, NEW to \in {"pending", "running", "ended"}, Moves(t, k, from, to)
  PROVE  /\ runs[t][k].status = from
         /\ runs' \in [Tasks -> [Places -> Run \cup {Absent}]]
         /\ runs'[t][k] # Absent /\ runs'[t][k].status = to
         /\ \A s \in Tasks, j \in Places : s # t \/ j # k => runs'[s][j] = runs[s][j]
<1> DEFINE r == [runs[t][k] EXCEPT !.status = to]
<1>1. k \in Places /\ runs[t][k] \in Run /\ runs[t][k].status = from
  BY DEF Live, SchedulerInv, TypeOK, Moves
<1>2. r \in Run
  BY <1>1, Zenon DEF Run
<1>3. r.status = to
  BY <1>1, SMT DEF Run
<1>4. runs' = [runs EXCEPT ![t] = [runs[t] EXCEPT ![k] = r]]
  BY DEF Moves
<1> HIDE DEF r
<1>5. /\ runs' \in [Tasks -> [Places -> Run \cup {Absent}]] /\ runs'[t][k] = r
      /\ \A s \in Tasks, j \in Places : s # t \/ j # k => runs'[s][j] = runs[s][j]
  BY <1>1, <1>2, <1>4 DEF SchedulerInv, TypeOK
<1>6. r # Absent
  BY <1>2, SchedulerAssumption
<1> QED BY <1>1, <1>3, <1>5, <1>6

LEMMA DispatchKeepsInv ==
  ASSUME SchedulerInv, NEW t \in Tasks, NEW k \in Live(t), Dispatch(t, k) \/ Requeue(t, k)
  PROVE  SchedulerInv'
<1>1. ASSUME NEW from \in {"pending", "running"}, NEW to \in {"pending", "running"},
             Moves(t, k, from, to), UNCHANGED <<task, starts, owed>>
      PROVE  SchedulerInv'
  <2>1. to \in {"pending", "running", "ended"} /\ to # "ended" /\ from # "ended"
    OBVIOUS
  <2>2. /\ runs[t][k].status = from
        /\ runs' \in [Tasks -> [Places -> Run \cup {Absent}]]
        /\ runs'[t][k] # Absent /\ runs'[t][k].status = to
        /\ \A s \in Tasks, j \in Places : s # t \/ j # k => runs'[s][j] = runs[s][j]
    BY <1>1, <2>1, MovesRuns
  <2>3. k \in Unfinished(t) /\ k \in Unfinished(t)'
    BY <2>1, <2>2 DEF Unfinished, Live
  <2>4. ASSUME NEW s \in Tasks, NEW j \in Places
        PROVE  j \in Unfinished(s)' <=> j \in Unfinished(s)
    <3>1. CASE s = t /\ j = k
      BY <2>3, <3>1
    <3>2. CASE s # t \/ j # k
      BY <2>2, <3>2 DEF Unfinished, Live
    <3> QED BY <3>1, <3>2
  <2>5. NothingForgotten'
    BY <1>1, <2>4, SameUnfinished DEF SchedulerInv
  <2> QED BY <1>1, <2>2, <2>5 DEF SchedulerInv, TypeOK, NeverDue
<1>2. CASE Dispatch(t, k)
  BY <1>1, <1>2 DEF Dispatch
<1>3. CASE Requeue(t, k)
  BY <1>1, <1>3 DEF Requeue
<1> QED BY <1>2, <1>3

LEMMA ResultKeepsInv ==
  ASSUME SchedulerInv, NEW t \in Tasks, NEW k \in Live(t), Result(t, k)
  PROVE  SchedulerInv'
<1>1. /\ runs[t][k].status = "running"
      /\ runs' \in [Tasks -> [Places -> Run \cup {Absent}]]
      /\ runs'[t][k] # Absent /\ runs'[t][k].status = "ended"
      /\ \A s \in Tasks, j \in Places : s # t \/ j # k => runs'[s][j] = runs[s][j]
  BY MovesRuns DEF Result
<1>2. /\ owed' = [owed EXCEPT ![t] = @ - 1] /\ UNCHANGED starts
      /\ task' = IF t \in Instances THEN [task EXCEPT ![t] = Absent] ELSE task
  BY DEF Result
<1>3. owed' \in [Tasks -> Int] /\ task' \in [Tasks -> Entry \cup {Absent}]
  BY <1>2 DEF SchedulerInv, TypeOK
<1>4. \A i \in Instances : task'[i] \in {task[i], Absent}
  BY <1>2, Names DEF SchedulerInv, TypeOK
<1>5. NeverDue'
  BY <1>2, <1>4 DEF SchedulerInv, NeverDue
<1>6. k \in Unfinished(t) /\ k \notin Unfinished(t)'
  BY <1>1 DEF Unfinished, Live
<1>7. ASSUME NEW s \in Tasks PROVE owed'[s] = Cardinality(Unfinished(s)')
  <2>1. CASE s = t
    <3>1. ASSUME NEW j \in Places, j # k PROVE j \in Unfinished(t)' <=> j \in Unfinished(t)
      BY <1>1, <3>1 DEF Unfinished, Live
    <3>2. Unfinished(t) \subseteq Places /\ Unfinished(t)' \subseteq Places
      BY DEF Unfinished, Live
    <3>3. Unfinished(t)' = Unfinished(t) \ {k}
      BY <1>6, <3>1, <3>2
    <3>4. Cardinality(Unfinished(t)') = Cardinality(Unfinished(t)) - 1
      BY <1>6, <3>3, FiniteUnfinished, FS_RemoveElement
    <3>5. owed'[t] = owed[t] - 1
      BY <1>2 DEF SchedulerInv, TypeOK
    <3> QED BY <2>1, <3>4, <3>5 DEF SchedulerInv, NothingForgotten, Unfinished
  <2>2. CASE s # t
    <3>1. ASSUME NEW j \in Places PROVE j \in Unfinished(s)' <=> j \in Unfinished(s)
      BY <1>1, <2>2 DEF Unfinished, Live
    <3>2. Unfinished(s) \subseteq Places /\ Unfinished(s)' \subseteq Places
      BY DEF Unfinished, Live
    <3>3. Unfinished(s)' = Unfinished(s)
      BY <3>1, <3>2
    <3>4. owed'[s] = owed[s]
      BY <1>2, <2>2 DEF SchedulerInv, TypeOK
    <3> QED BY <3>3, <3>4 DEF SchedulerInv, NothingForgotten, Unfinished
  <2> QED BY <2>1, <2>2
<1>8. NothingForgotten'
  BY <1>7 DEF NothingForgotten, Unfinished
<1> QED BY <1>1, <1>2, <1>3, <1>5, <1>8 DEF SchedulerInv, TypeOK

LEMMA PruneKeepsInv ==
  ASSUME SchedulerInv, Prune
  PROVE  SchedulerInv'
<1>1. /\ runs' = [t \in Tasks |-> [k \in Places |->
           IF k \in Live(t) /\ ~Prunable(runs[t][k]) THEN runs[t][k] ELSE Absent]]
      /\ task' = [t \in Tasks |-> IF Orphaned(t) THEN Absent ELSE task[t]]
      /\ UNCHANGED <<starts, owed>>
  BY DEF Prune
<1>2. TypeOK'
  BY <1>1 DEF SchedulerInv, TypeOK
<1>3. NeverDue'
  BY <1>1, Names DEF SchedulerInv, NeverDue
<1>4. ASSUME NEW t \in Tasks, NEW k \in Places
      PROVE  k \in Unfinished(t)' <=> k \in Unfinished(t)
  BY <1>1 DEF Unfinished, Live, Prunable
<1> QED BY <1>1, <1>2, <1>3, <1>4, SameUnfinished DEF SchedulerInv

LEMMA SchedulerInvNext == SchedulerInv /\ [Next]_vars => SchedulerInv'
<1> SUFFICES ASSUME SchedulerInv, [Next]_vars PROVE SchedulerInv'
  OBVIOUS
<1>1. ASSUME UNCHANGED <<task, runs, starts, owed>> PROVE SchedulerInv'
  BY <1>1 DEF SchedulerInv, TypeOK, NeverDue, NothingForgotten, Live
<1>2. CASE Tick
  BY <1>2, TickKeepsInv
<1>3. CASE CheckDueTasks
  BY <1>3, SweepKeepsInv
<1>4. ASSUME NEW ts \in SUBSET Tasks, RunExisting(ts) PROVE SchedulerInv'
  <2> DEFINE found == {t \in ts : task[t] # Absent}
  <2>1. found \in SUBSET Tasks /\ Execute(found) /\ UNCHANGED <<task, starts>>
    BY <1>4 DEF RunExisting
  <2> HIDE DEF found
  <2> QED BY <2>1, ManualRunKeepsInv
<1>5. ASSUME NEW t \in Recurring, RunTemplateForTarget(t) PROVE SchedulerInv'
  <2>1. {t} \in SUBSET Tasks
    BY Names
  <2> QED BY <1>5, <2>1, ManualRunKeepsInv DEF RunTemplateForTarget
<1>6. ASSUME NEW t \in Recurring, Edit(t) PROVE SchedulerInv'
  BY <1>6, EditKeepsInv
<1>7. ASSUME NEW i \in Instances, \/ CreateTaskInstance(i) \/ SelectTemplateInDb(i)
                                  \/ TemplateSelected(i) \/ TemplateMissing(i)
      PROVE  SchedulerInv'
  BY <1>1, <1>7 DEF CreateTaskInstance, SelectTemplateInDb, TemplateSelected, TemplateMissing
<1>8. ASSUME NEW i \in Instances, RegisterInstance(i) PROVE SchedulerInv'
  BY <1>8, RegisterInstanceKeepsInv
<1>9. CASE Unregister
  <2>1. /\ task' = [t \in Tasks |-> IF t \in Recurring THEN task[t] ELSE Absent]
        /\ UNCHANGED <<runs, starts, owed>>
    BY <1>9 DEF Unregister
  <2>2. task' \in [Tasks -> Entry \cup {Absent}] /\ \A i \in Instances : task'[i] = Absent
    BY <2>1, Names DEF SchedulerInv, TypeOK
  <2> QED BY <2>1, <2>2, TaskChangeKeepsInv
<1>10. CASE DeleteTemplateInDb
  BY <1>1, <1>10 DEF DeleteTemplateInDb
<1>11. ASSUME NEW t \in Tasks, NEW k \in Live(t), Dispatch(t, k) \/ Requeue(t, k) \/ Result(t, k)
       PROVE  SchedulerInv'
  BY <1>11, DispatchKeepsInv, ResultKeepsInv
<1>12. CASE Prune
  BY <1>12, PruneKeepsInv
<1>13. CASE UNCHANGED vars
  BY <1>1, <1>13 DEF vars
<1>14. CASE RunTemplateNow
  BY <1>4, <1>14, Names DEF RunTemplateNow
<1>15. CASE RunCustomTemplateNow
  <2>1. CASE UNCHANGED <<task, runs, starts, owed>>
    BY <1>1, <2>1
  <2>2. CASE RunExisting(Instances)
    BY <1>4, <2>2, Names
  <2> QED BY <1>15, <2>1, <2>2 DEF RunCustomTemplateNow
<1>16. ASSUME NEW i \in CustomIntervals, NEW on \in BOOLEAN, ResyncCustom(i, on)
       PROVE  SchedulerInv'
  BY <1>16, ResyncCustomKeepsInv
<1> QED BY <1>2, <1>3, <1>5, <1>6, <1>7, <1>8, <1>9, <1>10, <1>11, <1>12, <1>13, <1>14,
           <1>15, <1>16 DEF Next

-----------------------------------------------------------------------------
LEMMA SchedulerInvariant == Spec => []SchedulerInv
BY SchedulerInvInit, SchedulerInvNext, PTL DEF Spec

(* createTaskInstance executes what it registers and postpones it in the   *)
(* same step (taskManager.ts:586): whatever the sweeps, syncs, edits,      *)
(* results, pruner and unregisterTaskTemplate do in between, an instance   *)
(* in the registry was executed once, manual runs of its template left     *)
(* out.                                                                    *)
THEOREM InstancesRunOnce == Spec => []InstanceRunsOnce
<1>1. SchedulerInv => InstanceRunsOnce
  BY DEF SchedulerInv, NeverDue, InstanceRunsOnce
<1> QED BY <1>1, SchedulerInvariant, PTL

(* The pruner and every removal of a task leave alone the executions whose *)
(* listeners were not told: they are all in the registry, for any number   *)
(* of tasks, places and any retention.                                     *)
THEOREM ResultsAreNeverForgotten == Spec => []NothingForgotten
<1>1. SchedulerInv => NothingForgotten
  BY DEF SchedulerInv
<1> QED BY <1>1, SchedulerInvariant, PTL
=============================================================================
