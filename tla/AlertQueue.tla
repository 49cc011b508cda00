------------------------------ MODULE AlertQueue ------------------------------
(***************************************************************************)
(* Alerts and their durable queue: createAlert (services/alerts.ts), the   *)
(* dead-letter queue (services/alertQueue.ts), the file it survives in     *)
(* (data/pending-alerts.json) and the retries of every insert              *)
(* (withRetry, db/database.ts).                                            *)
(*                                                                         *)
(* One event loop; everything between two awaits is one action.  The       *)
(* awaits are the lookups of createAlert, each statement sent to the       *)
(* database and the pauses between two attempts.                           *)
(***************************************************************************)
EXTENDS Naturals, Sequences

CONSTANTS
  Alerts,       \* alerts that modules may report, with a valid score
  MaxAttempts,  \* WRITE_MAX_RETRIES
  Faults        \* which faults the environment may commit

FaultKinds == {"db",      \* a statement fails and is not committed
               "ack",     \* it is committed, but the connection breaks
               "lookup",  \* a lookup before the insert fails for good
               "delete",  \* the target of an alert is deleted
               "disk",    \* writing the file fails
               "load",    \* reading the file fails
               "crash"}   \* the server process dies

ASSUME AlertAssumption ==
  /\ MaxAttempts \in Nat \ {0}
  /\ Faults \subseteq FaultKinds

VARIABLES
  table,     \* rows committed for each alert; 2 stands for two or more
  gone,      \* alerts whose targetId refers to a deleted target
  call,      \* where the createAlert call of each alert is
  attempt,   \* attempts its insert has made
  up,        \* the server process runs
  started,   \* startAlertQueue was called
  loaded,    \* the file was read
  pending,   \* rows waiting in memory
  disk,      \* rows in the file
  pos,       \* the row flush() is at; 0 when it does not run
  tries,     \* attempts made for that row
  survivors  \* rows flush() could not commit

callVars  == <<call, attempt>>
queueVars == <<started, loaded, pending, disk>>
flushVars == <<pos, tries, survivors>>
vars == <<table, gone, callVars, up, queueVars, flushVars>>

Rows(s) == {s[i] : i \in DOMAIN s}

(* Every variable has its type, and no queue is longer than the alerts.    *)
TypeOK ==
  /\ table \in [Alerts -> 0..2]
  /\ gone \subseteq Alerts
  /\ call \in [Alerts -> {"idle", "lookup", "insert", "stored", "queued",
                          "skipped", "error", "crashed"}]
  /\ attempt \in [Alerts -> 0..MaxAttempts]
  /\ up \in BOOLEAN /\ started \in BOOLEAN /\ loaded \in BOOLEAN
  /\ pending \in Seq(Alerts) /\ disk \in Seq(Alerts) /\ survivors \in Seq(Alerts)
  /\ pos \in 0..Len(pending)
  /\ tries \in 0..MaxAttempts

Init ==
  /\ table = [a \in Alerts |-> 0]
  /\ gone = {}
  /\ call = [a \in Alerts |-> "idle"]
  /\ attempt = [a \in Alerts |-> 0]
  /\ up = TRUE /\ started = FALSE /\ loaded = FALSE
  /\ pending = <<>> /\ disk = <<>>
  /\ pos = 0 /\ tries = 0 /\ survivors = <<>>

-----------------------------------------------------------------------------
(* One execution of insertAlertRow's statement: whether it commits, and    *)
(* whether withRetry sees "ok", an error it retries, or one it does not.   *)
Commits(a) == table' = [table EXCEPT ![a] = IF @ = 0 THEN 1 ELSE 2]

Statement(a, result) ==
  \/ result = "ok" /\ a \notin gone /\ Commits(a)
  \/ result = "retryable" /\ "ack" \in Faults /\ a \notin gone /\ Commits(a)
  \/ result \in {"retryable", "fatal"} /\ "db" \in Faults /\ UNCHANGED table
  \/ result = "fatal" /\ a \in gone /\ UNCHANGED table

(* withRetry pauses and tries again.                                       *)
Again(result, n) == result = "retryable" /\ n < MaxAttempts

(* ensureLoaded: what memory holds afterwards.  A file that cannot be read *)
(* counts as empty.                                                        *)
LoadedRows ==
  IF loaded THEN {pending}
  ELSE {disk} \cup (IF "load" \in Faults THEN {<<>>} ELSE {})

(* Mutant: nothing is written.                                             *)
PersistNever(rows) == UNCHANGED disk

(* persistToDisk: temp file and rename, all or nothing; errors are logged. *)
Persist(rows) == disk' = rows \/ ("disk" \in Faults /\ UNCHANGED disk)

(* enqueueFailedAlert.                                                     *)
Enqueue(a) ==
  \E rows \in LoadedRows :
    /\ pending' = Append(rows, a)
    /\ loaded' = TRUE
    /\ Persist(pending')

-----------------------------------------------------------------------------
(* createAlert.                                                            *)

CreateAlert(a) ==
  /\ up
  /\ call[a] = "idle"
  /\ call' = [call EXCEPT ![a] = "lookup"]
  /\ UNCHANGED <<table, gone, attempt, up, queueVars, flushVars>>

(* The target is resolved, and the insert is sent.                         *)
LookupReturns(a) ==
  /\ call[a] = "lookup"
  /\ call' = [call EXCEPT ![a] = "insert"]
  /\ attempt' = [attempt EXCEPT ![a] = 1]
  /\ UNCHANGED <<table, gone, up, queueVars, flushVars>>

(* No target has the alert's targetId: it is skipped with a warning.       *)
LookupFindsNothing(a) ==
  /\ call[a] = "lookup"
  /\ call' = [call EXCEPT ![a] = "skipped"]
  /\ UNCHANGED <<table, gone, attempt, up, queueVars, flushVars>>

(* A lookup rejects: the outer catch block logs it and returns null.       *)
LookupFails(a) ==
  /\ "lookup" \in Faults
  /\ call[a] = "lookup"
  /\ call' = [call EXCEPT ![a] = "error"]
  /\ UNCHANGED <<table, gone, attempt, up, queueVars, flushVars>>

(* An attempt of the insert ended.                                         *)
Insert(a) ==
  /\ call[a] = "insert"
  /\ \E result \in {"ok", "retryable", "fatal"} :
       /\ Statement(a, result)
       /\ \/ /\ Again(result, attempt[a])
             /\ attempt' = [attempt EXCEPT ![a] = @ + 1]
             /\ UNCHANGED <<call, queueVars>>
          \/ /\ result = "ok"
             /\ call' = [call EXCEPT ![a] = "stored"]
             /\ UNCHANGED <<attempt, queueVars>>
          \/ /\ result # "ok" /\ ~Again(result, attempt[a])
             /\ call' = [call EXCEPT ![a] = "queued"]
             /\ Enqueue(a)
             /\ UNCHANGED <<attempt, started>>
  /\ UNCHANGED <<gone, up, flushVars>>

-----------------------------------------------------------------------------
(* flush().                                                                *)

FlushBegins(rows) ==
  /\ pos' = IF rows = <<>> THEN 0 ELSE 1
  /\ tries' = IF rows = <<>> THEN 0 ELSE 1
  /\ survivors' = <<>>

(* startAlertQueue: load, and flush at once.                               *)
StartAlertQueue ==
  /\ up /\ ~started
  /\ started' = TRUE /\ loaded' = TRUE
  /\ \E rows \in LoadedRows : pending' = rows
  /\ FlushBegins(pending')
  /\ UNCHANGED <<table, gone, callVars, up, disk>>

(* flush() does nothing before the start or while another flush runs.      *)
MayFlush == started /\ pos = 0

(* The interval timer.                                                     *)
FlushTimer ==
  /\ MayFlush /\ pending # <<>>
  /\ FlushBegins(pending)
  /\ UNCHANGED <<table, gone, callVars, up, queueVars>>

(* Mutant: a row whose error is not retryable is given up.                 *)
KeepUnlessFatal(result) ==
  IF result = "retryable" THEN Append(survivors, pending[pos]) ELSE survivors

(* The rows to keep, once this one was tried.                              *)
Keep(result) ==
  IF result = "ok" THEN survivors ELSE Append(survivors, pending[pos])

(* An attempt for the current row ended.  The loop reads the live array,   *)
(* so it also visits the rows enqueued meanwhile; behind the last one the  *)
(* survivors replace it and are saved.                                     *)
FlushRow ==
  /\ pos > 0
  /\ \E result \in {"ok", "retryable", "fatal"} :
       /\ Statement(pending[pos], result)
       /\ IF Again(result, tries)
          THEN /\ tries' = tries + 1
               /\ UNCHANGED <<pending, disk, pos, survivors>>
          ELSE IF pos < Len(pending)
          THEN /\ pos' = pos + 1
               /\ tries' = 1
               /\ survivors' = Keep(result)
               /\ UNCHANGED <<pending, disk>>
          ELSE /\ pending' = Keep(result)
               /\ Persist(Keep(result))
               /\ pos' = 0 /\ tries' = 0 /\ survivors' = <<>>
  /\ UNCHANGED <<gone, callVars, up, started, loaded>>

-----------------------------------------------------------------------------
(* The environment.                                                        *)

(* The target of an alert is deleted.  A committed row gets targetId NULL, *)
(* one that is still to be inserted is refused from now on.                *)
DeleteTarget(a) ==
  /\ "delete" \in Faults
  /\ call[a] \in {"insert", "queued"} /\ a \notin gone /\ table[a] = 0
  /\ gone' = gone \cup {a}
  /\ UNCHANGED <<table, callVars, up, queueVars, flushVars>>

(* The process dies, with every call in progress and all its memory.       *)
Crash ==
  /\ "crash" \in Faults
  /\ up
  /\ up' = FALSE
  /\ call' = [a \in Alerts |-> IF call[a] \in {"lookup", "insert"} THEN "crashed"
                               ELSE call[a]]
  /\ started' = FALSE /\ loaded' = FALSE /\ pending' = <<>>
  /\ pos' = 0 /\ tries' = 0 /\ survivors' = <<>>
  /\ UNCHANGED <<table, gone, attempt, disk>>

Restart ==
  /\ ~up
  /\ up' = TRUE
  /\ UNCHANGED <<table, gone, callVars, queueVars, flushVars>>

-----------------------------------------------------------------------------
Next ==
  \/ \E a \in Alerts :
       \/ CreateAlert(a)
       \/ LookupReturns(a)
       \/ LookupFindsNothing(a)
       \/ LookupFails(a)
       \/ Insert(a)
       \/ DeleteTarget(a)
  \/ StartAlertQueue
  \/ FlushTimer
  \/ FlushRow
  \/ Crash
  \/ Restart

(* The flush of a row that succeeds.                                       *)
FlushCommits(a) ==
  /\ pos > 0 /\ pending[pos] = a
  /\ FlushRow
  /\ table'[a] > 0

(* The event loop runs, the interval timer fires, and a database that      *)
(* accepts a row again and again in principle accepts it at last.          *)
Fairness ==
  /\ WF_vars(StartAlertQueue)
  /\ WF_vars(FlushTimer)
  /\ WF_vars(FlushRow)
  /\ WF_vars(Restart)
  /\ \A a \in Alerts : SF_vars(FlushCommits(a))

Spec == Init /\ [][Next]_vars

FairSpec == Spec /\ Fairness
-----------------------------------------------------------------------------
(* Properties.                                                             *)

(* Rows in memory, or in the file from which a later start reads them.     *)
Remembered == Rows(pending) \cup Rows(disk)

(* "a failed write is persisted here and retried in the background until   *)
(* it succeeds, surviving process restarts" (alertQueue.ts:8): an alert    *)
(* whose insert failed is in the table or still remembered, whatever was   *)
(* enqueued while flush() ran and whenever the process died.               *)
QueuedNeverLost ==
  \A a \in Alerts : call[a] = "queued" => table[a] > 0 \/ a \in Remembered

(* A queued alert is stored at last, unless its target is gone: a row that *)
(* can never be committed does not hold up the ones behind it.             *)
EventuallyStored ==
  \A a \in Alerts : call[a] = "queued" ~> table[a] > 0 \/ a \in gone
=============================================================================
