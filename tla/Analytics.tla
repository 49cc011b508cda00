------------------------------ MODULE Analytics ------------------------------
(***************************************************************************)
(* Event metrics on their way to the charts: the counters of               *)
(* events/eventMetrics.ts and their periodic flush, the small connection   *)
(* pool db/database.ts keeps for analytics and its load shedding, and the  *)
(* cached statistics and the retention sweep of services/analytics.ts.     *)
(*                                                                         *)
(* A call on the pool is a flush, which writes one row per event type, or  *)
(* a reader, a request for the statistics.  A count is modelled by the set *)
(* of the emits it counts, of which the code keeps the number.  Time is a  *)
(* counter; the rows of recordExecution go the same way and have no state  *)
(* of their own.                                                           *)
(***************************************************************************)
EXTENDS Naturals, FiniteSets, Sequences

CONSTANTS
  EventTypes,   \* types of events
  Flushes,      \* the flushes, numbered in their order
  StatReaders,  \* requests of the metrics page, other numbers
  Connections,  \* ANALYTICS_POOL_MAX
  MaxShedding,  \* ANALYTICS_MAX_WAITING
  Retention,    \* retention window, and life of an entry of statsCache
  MaxEmits,     \* bound: emits altogether
  MaxNow        \* bound: the clock

ASSUME AnalyticsAssumption ==
  /\ Flushes \subseteq Nat /\ StatReaders \cap Flushes = {} /\ Connections \in Nat \ {0}
  /\ MaxShedding \in Nat /\ Retention \in Nat /\ MaxEmits \in Nat /\ MaxNow \in Nat

VARIABLES
  anNow,       \* the clock
  anCounters,  \* counters: by type, the emits in the current window
  anStart,     \* windowStart
  anFlush,     \* per flush: pc, snapshot, types left, start and end of its window
  anRows,      \* event_metrics
  anPool,      \* analyticsPool: calls that have a connection, calls that wait
  anExecuted,  \* calls whose statement the database has executed
  anReader,    \* per reader: pc, and the rows it was shown
  anCache,     \* statsCache: the rows behind the value, its time; or empty
  anEmitted,   \* for the properties: by type, emits so far; they are numbered
  anDropped    \* for the properties: by type, emits shed, failed or expired

anVars == <<anNow, anCounters, anStart, anFlush, anRows, anPool, anExecuted,
            anReader, anCache, anEmitted, anDropped>>

None == [e \in EventTypes |-> {}]
NoWindow == [pc |-> "idle", emits |-> None, left |-> {}, start |-> 0, end |-> 0]
Emits == {x \in EventTypes \X (1..MaxEmits) : x[2] <= anEmitted[x[1]]}

AnalyticsInit ==
  /\ anNow = 0 /\ anCounters = None /\ anStart = 0
  /\ anFlush = [f \in Flushes |-> NoWindow]
  /\ anRows = {}
  /\ anPool = [used |-> {}, waiting |-> <<>>] /\ anExecuted = {}
  /\ anReader = [r \in StatReaders |-> [pc |-> "idle", rows |-> {}]]
  /\ anCache = {}
  /\ anEmitted = [e \in EventTypes |-> 0] /\ anDropped = None

AnTick ==
  /\ anNow < MaxNow /\ anNow' = anNow + 1
  /\ UNCHANGED <<anCounters, anStart, anFlush, anRows, anPool, anExecuted, anReader,
                 anCache, anEmitted, anDropped>>

(* recordEmit.                                                             *)
RecordEmit(e) ==
  /\ Cardinality(Emits) < MaxEmits
  /\ anCounters' = [anCounters EXCEPT ![e] = @ \cup {anEmitted[e] + 1}]
  /\ anEmitted' = [anEmitted EXCEPT ![e] = @ + 1]
  /\ UNCHANGED <<anNow, anStart, anFlush, anRows, anPool, anExecuted, anReader,
                 anCache, anDropped>>

-----------------------------------------------------------------------------
(* The pool.                                                               *)

(* analyticsQuery: too many wait already, the write is dropped.            *)
Sheds(pool) == Len(pool.waiting) > MaxShedding

(* pool.connect.                                                           *)
Connected(pool, c) ==
  IF Cardinality(pool.used) < Connections THEN [pool EXCEPT !.used = @ \cup {c}]
                                          ELSE [pool EXCEPT !.waiting = Append(@, c)]

(* The call is over; the first that waits gets the connection.             *)
Released(pool, c) ==
  IF pool.waiting = <<>> THEN [pool EXCEPT !.used = @ \ {c}]
  ELSE [used |-> (pool.used \ {c}) \cup {Head(pool.waiting)}, waiting |-> Tail(pool.waiting)]

(* A call still waiting after connectionTimeoutMillis gives up.            *)
GivenUp(pool, c) ==
  LET i == CHOOSE i \in DOMAIN pool.waiting : pool.waiting[i] = c
  IN [pool EXCEPT !.waiting = SubSeq(@, 1, i - 1) \o SubSeq(@, i + 1, Len(@))]

-----------------------------------------------------------------------------
(* flush.                                                                  *)

(* Mutant: the window is written but goes on counting.                     *)
NotSwapped(f) == UNCHANGED anCounters

(* A fresh window replaces the old one before any I/O.                     *)
Swapped(f) == anCounters' = None

NextStart == anNow

(* The interval is over.  An empty window only moves its start.            *)
FlushBegins(f) ==
  /\ anFlush[f].pc = "idle" /\ \A g \in Flushes : g < f => anFlush[g].pc # "idle"
  /\ LET left == {e \in EventTypes : anCounters[e] # {}} IN
     anFlush' = [anFlush EXCEPT ![f] =
       [pc |-> IF left = {} THEN "done" ELSE "next", emits |-> anCounters, left |-> left,
        start |-> anStart, end |-> anNow]]
  /\ Swapped(f)
  /\ anStart' = NextStart
  /\ UNCHANGED <<anNow, anRows, anPool, anExecuted, anReader, anCache, anEmitted, anDropped>>

RowOf(f, e) ==
  [type |-> e, emits |-> anFlush[f].emits[e], start |-> anFlush[f].start, end |-> anFlush[f].end,
   by |-> f]

(* The loop goes on with the other types.                                  *)
Remaining(f, e) ==
  LET left == anFlush[f].left \ {e} IN
  [anFlush EXCEPT ![f].left = left, ![f].pc = IF left = {} THEN "done" ELSE "next"]

Drop(f, e) == anDropped' = [anDropped EXCEPT ![e] = @ \cup anFlush[f].emits[e]]

NextType(f) == CHOOSE e \in anFlush[f].left : TRUE

(* The next row: shed, or handed to the pool.                              *)
FlushWrites(f) ==
  /\ anFlush[f].pc = "next"
  /\ IF Sheds(anPool)
     THEN anFlush' = Remaining(f, NextType(f)) /\ Drop(f, NextType(f)) /\ UNCHANGED anPool
     ELSE /\ anFlush' = [anFlush EXCEPT ![f].pc = "called"]
          /\ anPool' = Connected(anPool, f)
          /\ UNCHANGED anDropped
  /\ UNCHANGED <<anNow, anCounters, anStart, anRows, anExecuted, anReader, anCache, anEmitted>>

DbInsertMetrics(f) ==
  /\ f \in anPool.used \ anExecuted
  /\ anRows' = anRows \cup {RowOf(f, NextType(f))}
  /\ anExecuted' = anExecuted \cup {f}
  /\ UNCHANGED <<anNow, anCounters, anStart, anFlush, anPool, anReader, anCache, anEmitted, anDropped>>

(* The write is answered.                                                  *)
FlushAnswered(f) ==
  /\ f \in anExecuted
  /\ anFlush' = Remaining(f, NextType(f))
  /\ anPool' = Released(anPool, f)
  /\ anExecuted' = anExecuted \ {f}
  /\ UNCHANGED <<anNow, anCounters, anStart, anRows, anReader, anCache, anEmitted, anDropped>>

(* It fails, before or - the connection breaks - after the database did    *)
(* it; or no connection comes.  analyticsQuery says false, nobody retries, *)
(* and the flush goes on with the next row.                                *)
FlushFails(f) ==
  /\ anFlush[f].pc = "called"
  /\ anFlush' = Remaining(f, NextType(f))
  /\ anPool' = IF f \in anPool.used THEN Released(anPool, f) ELSE GivenUp(anPool, f)
  /\ IF f \in anExecuted \/ NextType(f) \in anFlush'[f].left
     THEN UNCHANGED anDropped ELSE Drop(f, NextType(f))
  /\ anExecuted' = anExecuted \ {f}
  /\ UNCHANGED <<anNow, anCounters, anStart, anRows, anReader, anCache, anEmitted>>

-----------------------------------------------------------------------------
(* getTaskTimingStats, getEventStats: cached and analyticsReadQuery.       *)

Fresh == anCache # {} /\ \A c \in anCache : anNow - c.at < Retention

RowsAnswered(r, rows) == [anReader EXCEPT ![r] = [pc |-> "shown", rows |-> rows]]

(* A fresh entry is the answer; otherwise the pool is asked, however many  *)
(* wait.                                                                   *)
ReadStats(r) ==
  /\ anReader[r].pc = "idle"
  /\ IF Fresh
     THEN /\ anReader' = RowsAnswered(r, (CHOOSE c \in anCache : TRUE).rows)
          /\ UNCHANGED anPool
     ELSE /\ anReader' = [anReader EXCEPT ![r].pc = "called"]
          /\ anPool' = Connected(anPool, r)
  /\ UNCHANGED <<anNow, anCounters, anStart, anFlush, anRows, anExecuted, anCache, anEmitted, anDropped>>

DbSelectStats(r) ==
  /\ r \in anPool.used \ anExecuted
  /\ anReader' = [anReader EXCEPT ![r].rows = {w \in anRows : w.end + Retention >= anNow}]
  /\ anExecuted' = anExecuted \cup {r}
  /\ UNCHANGED <<anNow, anCounters, anStart, anFlush, anRows, anPool, anCache, anEmitted, anDropped>>

(* The answer is cached with the time it came, not the time it was read.   *)
StatsAnswered(r) ==
  /\ r \in anExecuted
  /\ anReader' = RowsAnswered(r, anReader[r].rows)
  /\ anCache' = {[rows |-> anReader[r].rows, at |-> anNow]}
  /\ anPool' = Released(anPool, r)
  /\ anExecuted' = anExecuted \ {r}
  /\ UNCHANGED <<anNow, anCounters, anStart, anFlush, anRows, anEmitted, anDropped>>

(* withRetry has no attempt left, and the request fails.                   *)
StatsFail(r) ==
  /\ anReader[r].pc = "called"
  /\ anReader' = [anReader EXCEPT ![r] = [pc |-> "failed", rows |-> {}]]
  /\ anPool' = IF r \in anPool.used THEN Released(anPool, r) ELSE GivenUp(anPool, r)
  /\ anExecuted' = anExecuted \ {r}
  /\ UNCHANGED <<anNow, anCounters, anStart, anFlush, anRows, anCache, anEmitted, anDropped>>

(* cleanupOldAnalytics: rows older than the retention window.              *)
CleanupOldAnalytics ==
  LET old == {w \in anRows : w.end + Retention < anNow} IN
  /\ old # {} /\ anRows' = anRows \ old
  /\ anDropped' = [e \in EventTypes |->
       anDropped[e] \cup UNION {w.emits : w \in {v \in old : v.type = e}}]
  /\ UNCHANGED <<anNow, anCounters, anStart, anFlush, anPool, anExecuted, anReader, anCache, anEmitted>>

FlushStep(f) == FlushWrites(f) \/ DbInsertMetrics(f) \/ FlushAnswered(f) \/ FlushFails(f)
StatsStep(r) == DbSelectStats(r) \/ StatsAnswered(r) \/ StatsFail(r)

AnalyticsNext ==
  \/ AnTick \/ CleanupOldAnalytics
  \/ \E e \in EventTypes : RecordEmit(e)
  \/ \E f \in Flushes : FlushBegins(f) \/ FlushStep(f)
  \/ \E r \in StatReaders : ReadStats(r) \/ StatsStep(r)

AnalyticsSpec == AnalyticsInit /\ [][AnalyticsNext]_anVars
-----------------------------------------------------------------------------
(* Properties.                                                             *)

(* Emits of type e that flush f has taken and not yet written.             *)
Pending(f, e) ==
  IF e \in anFlush[f].left /\ ~(f \in anExecuted /\ e = NextType(f))
  THEN anFlush[f].emits[e] ELSE {}

RowsOf(e) == {w \in anRows : w.type = e}

(* Every emit is in one place: in the current window, in one flush under   *)
(* way, in one row, or among those shed, failed or expired - though        *)
(* flushes may overlap each other and the emits.                           *)
EveryEmitOnce ==
  \A e \in EventTypes :
    LET taken == UNION {Pending(f, e) : f \in Flushes}
        stored == UNION {w.emits : w \in RowsOf(e)}
    IN /\ 1..anEmitted[e] = anCounters[e] \cup taken \cup stored \cup anDropped[e]
       /\ anCounters[e] \cap taken = {} /\ (anCounters[e] \cup taken) \cap stored = {}
       /\ (anCounters[e] \cup taken \cup stored) \cap anDropped[e] = {}
       /\ \A f, g \in Flushes : f # g => Pending(f, e) \cap Pending(g, e) = {}
       /\ \A v, w \in RowsOf(e) : v # w => v.emits \cap w.emits = {}
=============================================================================
