------------------------------ MODULE ScopeFeed ------------------------------
(***************************************************************************)
(* The in-scope subdomains of one target: the requests that change them    *)
(* (controllers/targets.ts), the version counter and GET /scope of         *)
(* controllers/scope.ts, and the client that polls them.  The client is    *)
(* outside this repository; it is modelled by the two routes made for it:  *)
(* it asks for the version, and for the scope when the version changed.    *)
(*                                                                         *)
(* A row carries the request that inserted it, since the table allows the  *)
(* same subdomain twice.                                                   *)
(***************************************************************************)
EXTENDS Naturals, FiniteSets

CONSTANTS
  Subdomains,    \* subdomains
  ListWrites,    \* requests of setTargetSubdomains
  ActiveWrites,  \* requests of editTarget that change activeScan
  DeleteWrites,  \* requests of deleteTarget
  MaxFeedRestarts,   \* bound: restarts of the server
  MaxPolls       \* bound: fetches of the scope

ScopeWrites == ListWrites \cup ActiveWrites \cup DeleteWrites
Seeded == 0

ASSUME ScopeFeedAssumption ==
  /\ ScopeWrites \subseteq Nat \ {Seeded} /\ ListWrites \cap (ActiveWrites \cup DeleteWrites) = {}
  /\ ActiveWrites \cap DeleteWrites = {}
  /\ MaxFeedRestarts \in Nat /\ MaxPolls \in Nat

VARIABLES
  sfTarget,   \* the target's row: "scanned", "passive" or "deleted"
  sfRows,     \* targets_subdomains, in scope: subdomain and inserting request
  sfVersion,  \* scopeVersion
  sfWrite,    \* per request: pc, list, INSERTs still to be executed
  sfClient,   \* the client: pc, version and scope it holds, fetches
  sfRestarts, \* restarts so far
  sfAcked,    \* for the properties: the last list acknowledged
  sfMixed     \* for the properties: list requests overlapped, failed or died

sfVars == <<sfTarget, sfRows, sfVersion, sfWrite, sfClient, sfRestarts, sfAcked, sfMixed>>

ScopeNow == IF sfTarget = "scanned" THEN {row.sub : row \in sfRows} ELSE {}

ScopeFeedInit ==
  /\ sfTarget = "scanned"
  /\ sfRows = {[sub |-> s, by |-> Seeded] : s \in Subdomains}
  /\ sfVersion = 0
  /\ sfWrite = [w \in ScopeWrites |-> [pc |-> "idle", list |-> {}, left |-> {}]]
  /\ sfClient = [pc |-> "idle", version |-> 0, scope |-> ScopeNow, polls |-> 0]
  /\ sfRestarts = 0
  /\ sfAcked = Subdomains /\ sfMixed = FALSE

Sent(w, to) == sfWrite' = [sfWrite EXCEPT ![w].pc = to]

(* A request whose statements may still be executed.                       *)
Live(w) == sfWrite[w].pc \notin {"idle", "answered", "dead"} \/ sfWrite[w].left # {}

-----------------------------------------------------------------------------
(* The requests.                                                           *)

(* A request comes; those for the list are numbered in their order.        *)
ScopeRequest(w) ==
  /\ sfWrite[w].pc = "idle"
  /\ w \in ListWrites => \A v \in ListWrites : v < w => sfWrite[v].pc # "idle"
  /\ \E list \in IF w \in ListWrites THEN SUBSET Subdomains ELSE {{}} :
       sfWrite' = [sfWrite EXCEPT ![w] = [pc |-> "sent", list |-> list, left |-> {}]]
  /\ sfMixed' = (sfMixed \/ (w \in ListWrites /\ \E v \in ListWrites : Live(v)))
  /\ UNCHANGED <<sfTarget, sfRows, sfVersion, sfClient, sfRestarts, sfAcked>>

(* editTarget's UPDATE.  Its answer does not increment the version, though *)
(* the scope depends on activeScan.                                        *)
DbUpdateActive(w) ==
  /\ w \in ActiveWrites /\ sfWrite[w].pc = "sent"
  /\ sfTarget' = CASE sfTarget = "scanned" -> "passive" [] sfTarget = "passive" -> "scanned"
                   [] OTHER -> sfTarget
  /\ Sent(w, "answered")
  /\ UNCHANGED <<sfRows, sfVersion, sfClient, sfRestarts, sfAcked, sfMixed>>

(* deleteTarget's DELETE; the subdomains go with the target.               *)
DbDeleteTarget(w) ==
  /\ w \in DeleteWrites /\ sfWrite[w].pc = "sent"
  /\ sfTarget' = "deleted" /\ sfRows' = {}
  /\ Sent(w, IF sfTarget = "deleted" THEN "answered" ELSE "written")
  /\ UNCHANGED <<sfVersion, sfClient, sfRestarts, sfAcked, sfMixed>>

(* Mutant: what is not listed any more is kept.                            *)
ClearedListed(w) == {row \in sfRows : row.sub \notin sfWrite[w].list}

(* What the DELETE leaves of the target's rows.                            *)
Cleared(w) == {}

(* setTargetSubdomains: the DELETE, then all INSERTs are sent at once.     *)
DbDeleteSubdomains(w) ==
  /\ w \in ListWrites /\ sfWrite[w].pc = "sent"
  /\ sfRows' = Cleared(w)
  /\ sfWrite' = [sfWrite EXCEPT ![w].pc = "inserting", ![w].left = sfWrite[w].list]
  /\ UNCHANGED <<sfTarget, sfVersion, sfClient, sfRestarts, sfAcked, sfMixed>>

(* One INSERT, also when the request it belongs to has failed meanwhile.   *)
DbInsertSubdomain(w, s) ==
  /\ s \in sfWrite[w].left /\ sfTarget # "deleted"
  /\ sfRows' = sfRows \cup {[sub |-> s, by |-> w]}
  /\ sfWrite' = [sfWrite EXCEPT ![w].left = @ \ {s}]
  /\ UNCHANGED <<sfTarget, sfVersion, sfClient, sfRestarts, sfAcked, sfMixed>>

(* An INSERT fails, as it must without the target: the request is answered *)
(* with an error and neither waits for the other INSERTs nor increments.   *)
InsertFails(w, s) ==
  /\ s \in sfWrite[w].left
  /\ sfWrite' = [sfWrite EXCEPT ![w].left = @ \ {s}, ![w].pc = "answered"]
  /\ sfMixed' = TRUE
  /\ UNCHANGED <<sfTarget, sfRows, sfVersion, sfClient, sfRestarts, sfAcked>>

(* Promise.all: the request is answered when every INSERT is.              *)
ScopeWritten(w) ==
  /\ \/ w \in DeleteWrites /\ sfWrite[w].pc = "written"
     \/ w \in ListWrites /\ sfWrite[w].pc = "inserting" /\ sfWrite[w].left = {}
  /\ Sent(w, "answered")
  /\ sfVersion' = sfVersion + 1
  /\ sfAcked' = IF w \in ListWrites THEN sfWrite[w].list ELSE sfAcked
  /\ UNCHANGED <<sfTarget, sfRows, sfClient, sfRestarts, sfMixed>>

(* The server restarts: the counter is a variable of the process, and what *)
(* it had not sent yet is lost.                                            *)
ScopeRestart ==
  /\ sfRestarts < MaxFeedRestarts /\ sfRestarts' = sfRestarts + 1
  /\ sfVersion' = 0
  /\ sfMixed' = (sfMixed \/ \E w \in ListWrites : Live(w))
  /\ sfWrite' = [w \in ScopeWrites |->
       IF Live(w) THEN [sfWrite[w] EXCEPT !.pc = "dead", !.left = {}] ELSE sfWrite[w]]
  /\ sfClient' = [sfClient EXCEPT !.pc = "idle"]
  /\ UNCHANGED <<sfTarget, sfRows, sfAcked>>

-----------------------------------------------------------------------------
(* The client.                                                             *)

(* GET /scope/version says something new; GET /scope is sent.              *)
VersionChanged ==
  /\ sfClient.pc = "idle" /\ sfClient.version # sfVersion /\ sfClient.polls < MaxPolls
  /\ sfClient' = [sfClient EXCEPT !.pc = "asked", !.polls = @ + 1]
  /\ UNCHANGED <<sfTarget, sfRows, sfVersion, sfWrite, sfRestarts, sfAcked, sfMixed>>

(* getScope's SELECT.                                                      *)
DbSelectScope ==
  /\ sfClient.pc = "asked"
  /\ sfClient' = [sfClient EXCEPT !.pc = "selected", !.scope = ScopeNow]
  /\ UNCHANGED <<sfTarget, sfRows, sfVersion, sfWrite, sfRestarts, sfAcked, sfMixed>>

(* The answer takes the version as it is now.                              *)
ScopeAnswered ==
  /\ sfClient.pc = "selected"
  /\ sfClient' = [sfClient EXCEPT !.pc = "idle", !.version = sfVersion]
  /\ UNCHANGED <<sfTarget, sfRows, sfVersion, sfWrite, sfRestarts, sfAcked, sfMixed>>

ScopeFeedNext ==
  \/ \E w \in ScopeWrites :
       ScopeRequest(w) \/ DbUpdateActive(w) \/ DbDeleteTarget(w) \/ DbDeleteSubdomains(w) \/ ScopeWritten(w)
  \/ \E w \in ListWrites, s \in Subdomains : DbInsertSubdomain(w, s) \/ InsertFails(w, s)
  \/ ScopeRestart \/ VersionChanged \/ DbSelectScope \/ ScopeAnswered

ScopeFeedSpec == ScopeFeedInit /\ [][ScopeFeedNext]_sfVars
-----------------------------------------------------------------------------
(* Properties.                                                             *)

(* The table holds the list last acknowledged, in full and nothing else,   *)
(* as long as such requests neither overlap - then both lists may stay -   *)
(* nor fail half-way.                                                      *)
LastListStands ==
  ~sfMixed /\ sfTarget # "deleted" /\ (\A w \in ListWrites : ~Live(w)) =>
    {row.sub : row \in sfRows} = sfAcked
=============================================================================
