----------------------------- MODULE AlertsPage -----------------------------
(***************************************************************************)
(* The alerts page of the web application (pages/Alerts.tsx,               *)
(* components/alerts/AlertsTable.tsx, components/ui/data-table.tsx) over   *)
(* the list and delete routes (controllers/alerts.ts): a page of the       *)
(* alerts that match a search, of which those that pass the filters are    *)
(* rows, and rows ticked by their position to be deleted together.         *)
(*                                                                         *)
(* An alert is its id; a greater one is newer.                             *)
(***************************************************************************)
EXTENDS Naturals, Sequences, FiniteSets, SequencesExt

CONSTANTS
  Stored,     \* alerts at the start: 1..Stored
  MaxAlerts,  \* bound: alerts ever
  Found,      \* the alerts the search "some" finds
  Severe,     \* the alerts that pass the narrow filter
  PageRows,   \* PAGE_SIZE
  Deletes,    \* deletions confirmed
  MaxLoads,   \* bound: fetches of the list, after the first
  MaxLapses   \* bound: requests that fail

ASSUME AlertsPageAssumption ==
  /\ Stored \in Nat /\ MaxAlerts \in Nat /\ PageRows \in Nat \ {0}
  /\ Found \subseteq 1..MaxAlerts /\ Severe \subseteq 1..MaxAlerts
  /\ MaxLoads \in Nat \ {0} /\ MaxLapses \in Nat

VARIABLES
  apDb,      \* alerts in the database
  apNewest,  \* the last one created
  apQuery,   \* searchQuery: "all" without one
  apShown,   \* rows, page (from 0), pages and total
  apNarrow,  \* whether the severity and status filters hide some rows
  apTicked,  \* rowSelection: positions among the rows shown
  apConfirm, \* deleteConfirm: ids ({}: closed), and, for the properties,
             \* whether they are the ones that were ticked
  apLoad,    \* fetches: pc, page, query, rows, total, deletion it follows (or 0)
  apDelete,  \* deletions: pc, ids, those not answered, page, total and query
             \* of the render they were confirmed in
  apUser,    \* for the properties: the alerts the user sees as ticked by him
  apLapses,  \* failures so far
  apFiltered \* for the properties: a filter was changed while rows were ticked

apVars == <<apDb, apNewest, apQuery, apShown, apNarrow, apTicked, apConfirm, apLoad, apDelete,
            apUser, apLapses, apFiltered>>

LesserOf(a, b) == IF a < b THEN a ELSE b
GreaterOf(a, b) == IF a > b THEN a ELSE b
PageCount(total) == GreaterOf(1, (total + PageRows - 1) \div PageRows)
Searched(query, ids) == IF query = "all" THEN ids ELSE ids \cap Found

(* filtered: the rows on the screen.                                       *)
Narrowed(rows) == SelectSeq(rows, LAMBDA a : a \in Severe)
RowsShown == IF apNarrow THEN Narrowed(apShown.rows) ELSE apShown.rows

NoLoad == [pc |-> "idle", page |-> 0, query |-> "all", rows |-> <<>>, total |-> 0, after |-> 0,
           rowsRead |-> FALSE, counted |-> FALSE]
NoDelete == [pc |-> "idle", ids |-> {}, unanswered |-> {}, page |-> 0, total |-> 0, query |-> "all",
             ticked |-> TRUE]

(* fetchAlerts: the next request for the list.                             *)
Loading(page, query, deletion) ==
  LET idle == {f \in 1..MaxLoads : apLoad[f].pc = "idle"} IN
  [apLoad EXCEPT ![CHOOSE f \in idle : \A g \in idle : f <= g] =
     [NoLoad EXCEPT !.pc = "asked", !.page = page, !.query = query, !.after = deletion]]
LoadsLeft == Cardinality({f \in 1..MaxLoads : apLoad[f].pc = "idle"})
DeletesUnderWay == {d \in Deletes : apDelete[d].pc = "asked"}

-----------------------------------------------------------------------------
(* getAlerts: the rows of the page and the count are two queries, in any   *)
(* order.                                                                  *)

PageOf(query, page) ==
  LET all == SetToSortSeq(Searched(query, apDb), LAMBDA a, b : a > b) IN
  SubSeq(all, page * PageRows + 1, LesserOf((page + 1) * PageRows, Len(all)))

(* The page once its first fetch is answered.                              *)
AlertsPageInit ==
  /\ apDb = 1..Stored /\ apNewest = Stored /\ apQuery = "all"
  /\ apShown = [rows |-> PageOf("all", 0), page |-> 0, pages |-> PageCount(Stored), total |-> Stored]
  /\ apNarrow = FALSE /\ apTicked = {} /\ apConfirm = [ids |-> {}, ticked |-> TRUE]
  /\ apLoad = [f \in 1..MaxLoads |-> NoLoad]
  /\ apDelete = [d \in Deletes |-> NoDelete]
  /\ apUser = {} /\ apLapses = 0 /\ apFiltered = FALSE

ReadRows(f) ==
  /\ apLoad[f].pc = "asked" /\ ~apLoad[f].rowsRead
  /\ apLoad' = [apLoad EXCEPT ![f].rowsRead = TRUE, ![f].rows = PageOf(apLoad[f].query, apLoad[f].page)]
  /\ UNCHANGED <<apDb, apNewest, apQuery, apShown, apNarrow, apTicked, apConfirm, apDelete, apUser,
                 apLapses, apFiltered>>

CountRows(f) ==
  /\ apLoad[f].pc = "asked" /\ ~apLoad[f].counted
  /\ apLoad' = [apLoad EXCEPT ![f].counted = TRUE,
                              ![f].total = Cardinality(Searched(apLoad[f].query, apDb))]
  /\ UNCHANGED <<apDb, apNewest, apQuery, apShown, apNarrow, apTicked, apConfirm, apDelete, apUser,
                 apLapses, apFiltered>>

(* Mutant: the positions stay ticked under the new rows.                   *)
AfterLoadKept == apTicked

(* The effect on [alerts]: nothing is ticked.                              *)
AfterLoad == {}

(* Whatever deletion it follows closes the confirmation that is open.      *)
ConfirmClosed(deletion) == IF deletion = 0 THEN apConfirm ELSE [ids |-> {}, ticked |-> TRUE]

(* The answer, shown in the order answers come.                            *)
Shown(f) ==
  /\ apLoad[f].rowsRead /\ apLoad[f].counted /\ apLoad[f].pc = "asked"
  /\ LET pages == PageCount(apLoad[f].total) IN
     apShown' = [rows |-> apLoad[f].rows, total |-> apLoad[f].total, pages |-> pages,
                 page |-> LesserOf(apLoad[f].page, pages - 1)]
  /\ apTicked' = AfterLoad /\ apUser' = {}
  /\ apConfirm' = ConfirmClosed(apLoad[f].after)
  /\ apLoad' = [apLoad EXCEPT ![f] = [NoLoad EXCEPT !.pc = "done"]]
  /\ UNCHANGED <<apDb, apNewest, apQuery, apNarrow, apDelete, apLapses, apFiltered>>

(* A fetch that fails empties the list, and leaves the page number.        *)
LoadFails(f) ==
  /\ apLoad[f].pc = "asked" /\ apLapses < MaxLapses /\ apLapses' = apLapses + 1
  /\ apShown' = [apShown EXCEPT !.rows = <<>>, !.total = 0, !.pages = 1]
  /\ apTicked' = {} /\ apUser' = {}
  /\ apConfirm' = ConfirmClosed(apLoad[f].after)
  /\ apLoad' = [apLoad EXCEPT ![f] = [NoLoad EXCEPT !.pc = "done"]]
  /\ UNCHANGED <<apDb, apNewest, apQuery, apNarrow, apDelete, apFiltered>>

-----------------------------------------------------------------------------
(* What the user does.                                                     *)

Modal == apConfirm.ids # {}
(* (Bound: a deletion is left to be confirmed.)                            *)
MayDelete == ~Modal /\ \E d \in Deletes : apDelete[d].pc = "idle"

(* (Bound: fetches are left for the deletions.)                            *)
UserMay == ~Modal /\ LoadsLeft > Cardinality(DeletesUnderWay)

(* handleSearch.                                                           *)
Search(query) ==
  /\ UserMay /\ query # apQuery
  /\ apQuery' = query /\ apShown' = [apShown EXCEPT !.page = 0]
  /\ apLoad' = Loading(0, query, 0)
  /\ UNCHANGED <<apDb, apNewest, apNarrow, apTicked, apConfirm, apDelete, apUser, apLapses, apFiltered>>

(* handlePageChange, by the pages of the answer shown last, which a search *)
(* or a deletion under way may outdate; without a row there is no pager.   *)
PageChange(page) ==
  /\ UserMay /\ RowsShown # <<>> /\ page < apShown.pages
  /\ page + 1 = apShown.page \/ page = apShown.page + 1
  /\ apShown' = [apShown EXCEPT !.page = page]
  /\ apLoad' = Loading(page, apQuery, 0)
  /\ UNCHANGED <<apDb, apNewest, apQuery, apNarrow, apTicked, apConfirm, apDelete, apUser, apLapses,
                 apFiltered>>

(* setSeverityFilter, setStatusFilter: what is ticked stays, by position.  *)
(* (Bound: filters are only narrowed.)                                     *)
ChangeFilter ==
  /\ ~Modal /\ ~apNarrow
  /\ apNarrow' = TRUE
  /\ apFiltered' = (apFiltered \/ apTicked # {})
  /\ UNCHANGED <<apDb, apNewest, apQuery, apShown, apTicked, apConfirm, apLoad, apDelete, apUser, apLapses>>

Tick(i) ==
  /\ MayDelete /\ i \in DOMAIN RowsShown /\ i \notin apTicked
  /\ apTicked' = apTicked \cup {i} /\ apUser' = apUser \cup {RowsShown[i]}
  /\ UNCHANGED <<apDb, apNewest, apQuery, apShown, apNarrow, apConfirm, apLoad, apDelete, apLapses, apFiltered>>

(* selectedAlertIds.                                                       *)
Selected == {RowsShown[i] : i \in apTicked \cap DOMAIN RowsShown}

(* handleDeleteSelected.                                                   *)
DeleteSelected ==
  /\ MayDelete /\ Selected # {}
  /\ apConfirm' = [ids |-> Selected, ticked |-> Selected = apUser]
  /\ apTicked' = {} /\ apUser' = {}
  /\ UNCHANGED <<apDb, apNewest, apQuery, apShown, apNarrow, apLoad, apDelete, apLapses, apFiltered>>

(* Delete in the menu of a row.                                            *)
DeleteOne(i) ==
  /\ MayDelete /\ i \in DOMAIN RowsShown
  /\ apConfirm' = [ids |-> {RowsShown[i]}, ticked |-> TRUE]
  /\ UNCHANGED <<apDb, apNewest, apQuery, apShown, apNarrow, apTicked, apLoad, apDelete, apUser,
                 apLapses, apFiltered>>

CancelDelete ==
  /\ Modal
  /\ apConfirm' = [ids |-> {}, ticked |-> TRUE]
  /\ UNCHANGED <<apDb, apNewest, apQuery, apShown, apNarrow, apTicked, apLoad, apDelete, apUser,
                 apLapses, apFiltered>>

(* confirmDelete: one DELETE per alert, all at once.                       *)
ConfirmDelete(d) ==
  /\ Modal /\ apDelete[d].pc = "idle" /\ LoadsLeft > Cardinality(DeletesUnderWay)
  /\ apDelete' = [apDelete EXCEPT ![d] =
       [pc |-> "asked", ids |-> apConfirm.ids, unanswered |-> apConfirm.ids, page |-> apShown.page,
        total |-> apShown.total, query |-> apQuery, ticked |-> apConfirm.ticked]]
  /\ apConfirm' = [ids |-> {}, ticked |-> TRUE]
  /\ UNCHANGED <<apDb, apNewest, apQuery, apShown, apNarrow, apTicked, apLoad, apUser, apLapses, apFiltered>>

-----------------------------------------------------------------------------
(* A deletion.                                                             *)

DeleteExecuted(d, a) ==
  /\ apDelete[d].pc \in {"asked", "failed"} /\ a \in apDelete[d].unanswered /\ a \in apDb
  /\ apDb' = apDb \ {a}
  /\ apDelete' = [apDelete EXCEPT ![d].unanswered = @ \ {a}]
  /\ UNCHANGED <<apNewest, apQuery, apShown, apNarrow, apTicked, apConfirm, apLoad, apUser, apLapses,
                 apFiltered>>

(* One of them fails, as it must for an alert that is gone: the list is    *)
(* not fetched, though others may have been deleted.                       *)
DeleteFails(d, a) ==
  /\ apDelete[d].pc \in {"asked", "failed"} /\ a \in apDelete[d].unanswered
  /\ \/ a \notin apDb /\ UNCHANGED apLapses
     \/ a \in apDb /\ apLapses < MaxLapses /\ apLapses' = apLapses + 1
  /\ apDelete' = [apDelete EXCEPT ![d].unanswered = @ \ {a}, ![d].pc = "failed"]
  /\ apConfirm' = ConfirmClosed(d)
  /\ UNCHANGED <<apDb, apNewest, apQuery, apShown, apNarrow, apTicked, apLoad, apUser, apFiltered>>

(* targetPageIndex.                                                        *)
TargetPage(d) ==
  LesserOf(apDelete[d].page,
           PageCount(apDelete[d].total - LesserOf(apDelete[d].total, Cardinality(apDelete[d].ids))) - 1)

LoadAfterDelete(d) ==
  /\ apDelete[d].pc = "asked" /\ apDelete[d].unanswered = {}
  /\ apLoad' = Loading(TargetPage(d), apDelete[d].query, d)
  /\ apDelete' = [apDelete EXCEPT ![d].pc = "done"]
  /\ UNCHANGED <<apDb, apNewest, apQuery, apShown, apNarrow, apTicked, apConfirm, apUser, apLapses, apFiltered>>

(* createAlert.                                                            *)
AlertCreated ==
  /\ apNewest < MaxAlerts /\ apNewest' = apNewest + 1
  /\ apDb' = apDb \cup {apNewest + 1}
  /\ UNCHANGED <<apQuery, apShown, apNarrow, apTicked, apConfirm, apLoad, apDelete, apUser, apLapses,
                 apFiltered>>

-----------------------------------------------------------------------------

LoadStep(f) == ReadRows(f) \/ CountRows(f) \/ Shown(f)
DeleteStep(d) ==
  LoadAfterDelete(d) \/ \E a \in 1..MaxAlerts : DeleteExecuted(d, a) \/ DeleteFails(d, a)

AlertsPageNext ==
  \/ \E f \in 1..MaxLoads : LoadStep(f) \/ LoadFails(f)
  \/ \E query \in {"all", "some"} : Search(query)
  \/ \E page \in 0..MaxAlerts : PageChange(page)
  \/ ChangeFilter \/ DeleteSelected \/ CancelDelete \/ AlertCreated
  \/ \E i \in 1..PageRows : Tick(i) \/ DeleteOne(i)
  \/ \E d \in Deletes : ConfirmDelete(d) \/ DeleteStep(d)

AlertsPageSpec == AlertsPageInit /\ [][AlertsPageNext]_apVars
-----------------------------------------------------------------------------
(* Properties.                                                             *)

(* The alerts deleted together are the ones the user ticked, whatever is   *)
(* answered between the ticks and the deletion - unless a filter was       *)
(* changed while rows were ticked: then others are ticked in their place.  *)
TickedAreDeleted ==
  apFiltered \/ \A d \in Deletes : apDelete[d].ticked
=============================================================================
