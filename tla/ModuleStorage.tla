---------------------------- MODULE ModuleStorage ----------------------------
(***************************************************************************)
(* The SQLite database of one module and the transactions its code runs on *)
(* it (modules/moduleStorage.ts).  All calls are synchronous: transaction  *)
(* and executeMany nest like the calls of the module's code, whose stack   *)
(* is storageStack.  SQLite itself is outside: a statement is a number, it *)
(* takes effect at once or with the COMMIT.                                *)
(***************************************************************************)
EXTENDS Naturals, Sequences, FiniteSets

CONSTANTS
  MaxStatements,  \* bound: statements executed
  MaxDepth,       \* bound: nested calls
  MaxCalls,       \* bound: outermost calls of transaction
  MaxSqlFaults    \* bound: statements that fail, and crashes

ASSUME StorageAssumption == MaxStatements \in Nat /\ MaxDepth \in Nat /\ MaxCalls \in Nat
                         /\ MaxSqlFaults \in Nat

NoCall == 0

VARIABLES
  storageOpen,      \* db.isOpen
  inTransaction,    \* the field of that name
  sqlBegun,         \* SQLite has a transaction open
  sqlPending,       \* statements of that transaction
  sqlStored,        \* statements committed
  storageStack,     \* open calls of transaction: "outer" began it, "inline" joined
  storageCalls,     \* number of outermost calls so far
  statementOf,      \* for the properties: the outermost call of each statement
  callEnded,        \* for the properties: outermost calls that "returned" or "threw"
  storageFaults,    \* faults so far
  unprotected       \* for the properties: outermost calls without a
                    \* transaction; NoCall is in it once a BEGIN failed

storageVars == <<storageOpen, inTransaction, sqlBegun, sqlPending, sqlStored, storageStack,
                 storageCalls, statementOf, callEnded, storageFaults, unprotected>>

StorageInit ==
  /\ storageOpen = TRUE /\ inTransaction = FALSE
  /\ sqlBegun = FALSE /\ sqlPending = {} /\ sqlStored = {}
  /\ storageStack = <<>> /\ storageCalls = 0
  /\ statementOf = <<>> /\ callEnded = <<>>
  /\ storageFaults = 0 /\ unprotected = {}

SqlFault == storageFaults < MaxSqlFaults /\ storageFaults' = storageFaults + 1

(* execute, or a row of executeMany: a statement outside a transaction is  *)
(* committed by itself.                                                    *)
Execute ==
  /\ storageOpen /\ Len(statementOf) < MaxStatements
  /\ LET n == Len(statementOf) + 1 IN
     /\ statementOf' = Append(statementOf, IF storageStack = <<>> THEN NoCall ELSE storageCalls)
     /\ IF sqlBegun THEN sqlPending' = sqlPending \cup {n} /\ UNCHANGED sqlStored
                    ELSE sqlStored' = sqlStored \cup {n} /\ UNCHANGED sqlPending
  /\ UNCHANGED <<storageOpen, inTransaction, sqlBegun, storageStack, storageCalls, callEnded,
                 storageFaults, unprotected>>

(* transaction.                                                            *)
CallTransaction ==
  /\ storageOpen /\ Len(storageStack) < MaxDepth /\ (storageStack # <<>> \/ storageCalls < MaxCalls)
  /\ storageCalls' = IF storageStack = <<>> THEN storageCalls + 1 ELSE storageCalls
  /\ callEnded' = IF storageStack = <<>> THEN Append(callEnded, "open") ELSE callEnded

TransactionInline ==
  /\ CallTransaction /\ inTransaction
  /\ storageStack' = Append(storageStack, "inline")
  /\ unprotected' = IF storageStack = <<>> /\ NoCall \in unprotected
                    THEN unprotected \cup {storageCalls'} ELSE unprotected
  /\ UNCHANGED <<storageOpen, inTransaction, sqlBegun, sqlPending, sqlStored, statementOf,
                 storageFaults>>

TransactionBegins ==
  /\ CallTransaction /\ ~inTransaction
  /\ inTransaction' = TRUE /\ sqlBegun' = TRUE
  /\ storageStack' = Append(storageStack, "outer")
  /\ UNCHANGED <<storageOpen, sqlPending, sqlStored, statementOf, storageFaults, unprotected>>

(* BEGIN throws: it stands before the try, so the field keeps its value.   *)
BeginFails ==
  /\ storageOpen /\ ~inTransaction /\ SqlFault
  /\ inTransaction' = TRUE
  /\ unprotected' = unprotected \cup {NoCall}
  /\ UNCHANGED <<storageOpen, sqlBegun, sqlPending, sqlStored, storageStack, storageCalls,
                 statementOf, callEnded>>

(* A full disk makes SQLite roll back by itself; the call goes on.         *)
SqlRollsBack ==
  /\ sqlBegun /\ SqlFault
  /\ sqlBegun' = FALSE /\ sqlPending' = {}
  /\ unprotected' = unprotected \cup {storageCalls}
  /\ UNCHANGED <<storageOpen, inTransaction, sqlStored, storageStack, storageCalls, statementOf,
                 callEnded>>

Top == storageStack[Len(storageStack)]
Popped == SubSeq(storageStack, 1, Len(storageStack) - 1)

(* The outermost call ends in how; an inner one ends inside it.            *)
Ended(how) ==
  /\ storageStack' = Popped
  /\ callEnded' = IF Popped = <<>> THEN [callEnded EXCEPT ![storageCalls] = how] ELSE callEnded

(* Mutant: the field is reset after the COMMIT only.                       *)
AfterThrowStill == inTransaction

(* finally.                                                                *)
AfterThrow == FALSE

(* fn of a nested call returns or throws; the code around it may catch.    *)
InlineEnds ==
  /\ storageStack # <<>> /\ Top = "inline"
  /\ \E how \in {"returned", "threw"} : Ended(how)
  /\ UNCHANGED <<storageOpen, inTransaction, sqlBegun, sqlPending, sqlStored, storageCalls,
                 statementOf, storageFaults, unprotected>>

(* fn returns: COMMIT.                                                     *)
Commits ==
  /\ storageStack # <<>> /\ Top = "outer" /\ sqlBegun
  /\ sqlStored' = sqlStored \cup sqlPending /\ sqlPending' = {} /\ sqlBegun' = FALSE
  /\ inTransaction' = FALSE
  /\ Ended("returned")
  /\ UNCHANGED <<storageOpen, storageCalls, statementOf, storageFaults, unprotected>>

(* fn throws, or the COMMIT does: ROLLBACK, whose own failure is logged.   *)
RollsBack ==
  /\ storageStack # <<>> /\ Top = "outer"
  /\ sqlPending' = {} /\ sqlBegun' = FALSE
  /\ inTransaction' = AfterThrow
  /\ Ended("threw")
  /\ UNCHANGED <<storageOpen, sqlStored, storageCalls, statementOf, storageFaults, unprotected>>

(* close, closeAllDatabases: between two calls of the module.              *)
StorageCloses ==
  /\ storageStack = <<>> /\ storageOpen
  /\ storageOpen' = FALSE
  /\ UNCHANGED <<inTransaction, sqlBegun, sqlPending, sqlStored, storageStack, storageCalls,
                 statementOf, callEnded, storageFaults, unprotected>>

(* The process dies and starts again, or starts after a close.             *)
StorageReopens ==
  /\ IF storageOpen THEN SqlFault ELSE UNCHANGED storageFaults
  /\ storageOpen' = TRUE /\ inTransaction' = FALSE
  /\ sqlBegun' = FALSE /\ sqlPending' = {} /\ storageStack' = <<>>
  /\ callEnded' = [c \in DOMAIN callEnded |-> IF callEnded[c] = "open" THEN "threw" ELSE callEnded[c]]
  /\ unprotected' = unprotected \ {NoCall}
  /\ UNCHANGED <<sqlStored, storageCalls, statementOf>>

StorageNext ==
  \/ Execute \/ TransactionInline \/ TransactionBegins \/ BeginFails \/ SqlRollsBack
  \/ InlineEnds \/ Commits \/ RollsBack \/ StorageCloses \/ StorageReopens

StorageSpec == StorageInit /\ [][StorageNext]_storageVars
-----------------------------------------------------------------------------
(* Properties.                                                             *)

StatementsOf(c) == {n \in DOMAIN statementOf : statementOf[n] = c}

(* An outermost call of transaction, with everything nested in it, is      *)
(* stored whole when it returned and not at all when it threw or the       *)
(* process died.  Two kinds of calls have no such protection: those made   *)
(* after a BEGIN failed, which left inTransaction set, and those within    *)
(* which SQLite rolled back on its own.                                    *)
TransactionsAtomic ==
  \A c \in DOMAIN callEnded \ unprotected :
    IF callEnded[c] = "returned" THEN StatementsOf(c) \subseteq sqlStored
                                 ELSE StatementsOf(c) \cap sqlStored = {}
=============================================================================
