---------------------------- MODULE TargetDialog ----------------------------
(***************************************************************************)
(* The targets page of the web application and its dialog                  *)
(* (pages/Targets.tsx, components/dialogs/TargetDialog.tsx), for one       *)
(* target: the list the page shows, the form filled from it, and a save,   *)
(* which is one request per part of the target.                            *)
(*                                                                         *)
(* What is kept of a part's value is which one it is; 0 is an empty part.  *)
(* The form loses something of a header whose value contains a colon       *)
(* (WithColon).  Another session may change the target meanwhile, and      *)
(* requests may fail.                                                      *)
(***************************************************************************)
EXTENDS Naturals, Sequences, FiniteSets

CONSTANTS
  PartValues,   \* values of a part, and of the override of a task
  WithColon,    \* value of the settings whose header has a colon
  WithoutColon, \* what is left of it
  Saves,        \* saves, by the dialog opened for them
  MaxFetches,   \* bound: fetches of the list
  MaxOthers     \* bound: changes by another session, and requests that fail

NewTarget == <<>>
TargetRow == "row"

(* The requests of a save, in their order, each with the parts it stores;  *)
(* the packages are saved after the settings as the lists of subdomains    *)
(* are before them.                                                        *)
Requests == <<{TargetRow}, {"subdomains", "outOfScope"}, {"settings"}>>
TargetParts == {TargetRow, "subdomains", "outOfScope", "settings"}

ASSUME DialogAssumption ==
  /\ 0 \in PartValues
  /\ WithoutColon \in PartValues /\ Saves \subseteq Nat \ {0}
  /\ MaxFetches \in Nat /\ MaxOthers \in Nat

VARIABLES
  tdServer,   \* the target in the database, or NoTarget
  tdOverride, \* its override of one task, 0 without
  tdList,     \* the target as the page shows it, or NoTarget
  tdFetch,    \* fetches of the list: pc, and what was read
  tdDialog,   \* the dialog: save it will make (0: closed), form, override of
              \* the task, whether the tasks are loaded
  tdSave,     \* per save: pc, mode, data, override, next request, parts failed
  tdOthers,   \* changes of the other session and failures so far
  tdShown,    \* for the properties, per save: the parts the user did not
              \* touch, as the list showed them when the dialog was opened
  tdKept      \* those of them that are not changed since the list was read

asShown == <<tdShown, tdKept>>
tdVars == <<tdServer, tdOverride, tdList, tdFetch, tdDialog, tdSave, tdOthers, asShown>>

Blank == [p \in TargetParts |-> 0]
Closed == [save |-> 0, form |-> Blank, override |-> 0, tasks |-> "none"]

DialogInit ==
  /\ \/ tdServer = NewTarget
     \/ \E inScope \in {0, 1} :
          tdServer = [p \in TargetParts |-> IF p = "settings" THEN WithColon
                                            ELSE IF p = "subdomains" THEN inScope ELSE 1]
  /\ tdOverride = 0
  /\ tdList = tdServer
  /\ tdFetch = [f \in 1..MaxFetches |-> [pc |-> "idle", list |-> NewTarget]]
  /\ tdDialog = Closed
  /\ tdSave = [s \in Saves |-> [pc |-> "idle", mode |-> "edit", data |-> Blank, override |-> 0,
                                next |-> 1, failed |-> {}]]
  /\ tdOthers = 0 /\ tdShown = [s \in Saves |-> NewTarget] /\ tdKept = [s \in Saves |-> {}]

-----------------------------------------------------------------------------
(* The list.                                                               *)

IdleFetches == {f \in 1..MaxFetches : tdFetch[f].pc = "idle"}

(* fetchTargets.                                                           *)
FetchAsked == [tdFetch EXCEPT ![CHOOSE f \in IdleFetches : \A g \in IdleFetches : f <= g].pc = "asked"]

DbSelectList(f) ==
  /\ tdFetch[f].pc = "asked"
  /\ tdFetch' = [tdFetch EXCEPT ![f] = [pc |-> "read", list |-> tdServer]]
  /\ UNCHANGED <<tdServer, tdOverride, tdList, tdDialog, tdSave, tdOthers, asShown>>

(* The answers are shown in the order they come.                           *)
ListShown(f) ==
  /\ tdFetch[f].pc = "read"
  /\ tdList' = tdFetch[f].list
  /\ tdFetch' = [tdFetch EXCEPT ![f] = [pc |-> "done", list |-> NewTarget]]
  /\ UNCHANGED <<tdServer, tdOverride, tdDialog, tdSave, tdOthers, asShown>>

(* A fetch that fails empties the list.                                    *)
FetchFails(f) ==
  /\ tdFetch[f].pc \in {"asked", "read"} /\ tdOthers < MaxOthers /\ tdOthers' = tdOthers + 1
  /\ tdList' = NewTarget
  /\ tdFetch' = [tdFetch EXCEPT ![f] = [pc |-> "done", list |-> NewTarget]]
  /\ UNCHANGED <<tdServer, tdOverride, tdDialog, tdSave, asShown>>

-----------------------------------------------------------------------------
(* The dialog.                                                             *)

(* Mutant: what is not shown on the first tab stays blank.                 *)
FilledRow(target) == [p \in TargetParts |-> IF p = TargetRow THEN target[p] ELSE 0]

(* The initial state of the fields: no subdomain in scope is shown as the  *)
(* wildcard of the domain, here 1.                                         *)
Filled(target) ==
  [p \in TargetParts |->
    IF p = "settings" /\ target[p] = WithColon THEN WithoutColon
    ELSE IF p = "subdomains" /\ target[p] = 0 THEN 1 ELSE target[p]]

Opens(s, mode, form) ==
  /\ tdDialog.save = 0 /\ tdSave[s].pc = "idle" /\ \A r \in Saves : r < s => tdSave[r].pc # "idle"
  /\ tdDialog' = [save |-> s, form |-> form, override |-> 0,
                  tasks |-> IF mode = "edit" THEN "loading" ELSE "none"]
  /\ tdSave' = [tdSave EXCEPT ![s].pc = "open", ![s].mode = mode]
  /\ tdShown' = [tdShown EXCEPT ![s] = tdList]
  /\ tdKept' = [tdKept EXCEPT ![s] = IF NewTarget \in {tdList, tdServer} THEN {}
                                     ELSE {p \in TargetParts : tdList[p] = tdServer[p]}]
  /\ UNCHANGED <<tdServer, tdOverride, tdList, tdFetch, tdOthers>>

(* A target of the list, as it is shown there.                             *)
OpenEdit(s) == tdList # NewTarget /\ Opens(s, "edit", Filled(tdList))

(* One target: a second is not created, nor while an older list of it is   *)
(* on its way.                                                             *)
OpenCreate(s) ==
  /\ tdList = NewTarget /\ tdServer = NewTarget /\ \A r \in Saves : tdSave[r].pc # "saving"
  /\ \A f \in 1..MaxFetches : tdFetch[f].pc # "read"
  /\ Opens(s, "create", Blank)

(* fetchTaskOverrides.                                                     *)
OverridesLoaded ==
  /\ tdDialog.tasks = "loading"
  /\ tdDialog' = [tdDialog EXCEPT !.tasks = "loaded", !.override = tdOverride]
  /\ UNCHANGED <<tdServer, tdOverride, tdList, tdFetch, tdSave, tdOthers, asShown>>

(* One that fails leaves no task to save.                                  *)
OverridesFail ==
  /\ tdDialog.tasks = "loading" /\ tdOthers < MaxOthers /\ tdOthers' = tdOthers + 1
  /\ tdDialog' = [tdDialog EXCEPT !.tasks = "none"]
  /\ UNCHANGED <<tdServer, tdOverride, tdList, tdFetch, tdSave, asShown>>

Editing == tdDialog.save # 0 /\ tdSave[tdDialog.save].pc = "open"

(* A field or the rows of a list are changed.  (Bound: one part a dialog,  *)
(* once; in a new target the row must be filled before.)                   *)
EditPart(p, v) ==
  LET touched == TargetParts \ DOMAIN tdShown[tdDialog.save] IN
  /\ Editing /\ v # tdDialog.form[p]
  /\ \/ touched = {}
     \/ /\ touched = TargetParts /\ \A q \in TargetParts \ {TargetRow} : tdDialog.form[q] = 0
        /\ p = TargetRow <=> tdDialog.form[TargetRow] = 0
  /\ tdDialog' = [tdDialog EXCEPT !.form[p] = v]
  /\ tdShown' = [tdShown EXCEPT ![tdDialog.save] = [q \in DOMAIN @ \ {p} |-> @[q]]]
  /\ tdKept' = [tdKept EXCEPT ![tdDialog.save] = @ \ {p}]
  /\ UNCHANGED <<tdServer, tdOverride, tdList, tdFetch, tdSave, tdOthers>>

(* toggleTaskOverride sets an override or flips it, and removes none.      *)
ToggleTaskOverride(v) ==
  /\ Editing /\ tdDialog.tasks = "loaded" /\ v \notin {0, tdDialog.override}
  /\ tdDialog' = [tdDialog EXCEPT !.override = v]
  /\ UNCHANGED <<tdServer, tdOverride, tdList, tdFetch, tdSave, tdOthers, asShown>>

(* Cancel; or Escape while the save is under way, which goes on.           *)
CloseDialog ==
  /\ tdDialog.save # 0
  /\ tdDialog' = Closed
  /\ tdSave' = [tdSave EXCEPT ![tdDialog.save].pc = IF @ = "open" THEN "dropped" ELSE @]
  /\ UNCHANGED <<tdServer, tdOverride, tdList, tdFetch, tdOthers, asShown>>

(* No subdomain in scope is sent as the wildcard of the domain too.        *)
Cleaned(form) == IF form["subdomains"] = 0 THEN [form EXCEPT !["subdomains"] = 1] ELSE form

(* handleSubmit: the row needs a name and a domain.  What saveTaskOverrides *)
(* will send is fixed here too.                                            *)
SubmitTarget ==
  LET s == tdDialog.save IN
  /\ Editing /\ tdDialog.form[TargetRow] # 0
  /\ tdSave' = [tdSave EXCEPT ![s].pc = "saving", ![s].data = Cleaned(tdDialog.form),
                              ![s].override = tdDialog.override]
  /\ UNCHANGED <<tdServer, tdOverride, tdList, tdFetch, tdDialog, tdOthers, asShown>>

-----------------------------------------------------------------------------
(* A save: addNewTarget or updateTarget, then saveTaskOverrides.           *)

Saving(s) == tdSave[s].pc = "saving" /\ tdSave[s].next <= Len(Requests)
Sent(s) == Requests[tdSave[s].next]

With(target, parts, new) == [p \in TargetParts |-> IF p \in parts THEN new[p] ELSE target[p]]

(* Somebody writes these parts: s, or the other session (0).               *)
PartsWritten(s, parts) ==
  /\ tdKept' = [r \in Saves |-> IF r = s THEN tdKept[r] ELSE tdKept[r] \ parts]
  /\ UNCHANGED tdShown

(* One request; the next is sent when it is answered.                      *)
PartSaved(s) ==
  /\ Saving(s)
  /\ \/ tdServer # NewTarget /\ tdServer' = With(tdServer, Sent(s), tdSave[s].data)
     \/ /\ tdServer = NewTarget /\ tdSave[s].mode = "create" /\ TargetRow \in Sent(s)
        /\ tdServer' = With(Blank, Sent(s), tdSave[s].data)
  /\ tdSave' = [tdSave EXCEPT ![s].next = @ + 1]
  /\ PartsWritten(s, Sent(s))
  /\ UNCHANGED <<tdOverride, tdList, tdFetch, tdDialog, tdOthers>>

(* The others are still sent, unless there is no target to save them for.  *)
AfterFailure(s) ==
  IF tdSave[s].mode = "create" /\ TargetRow \in Sent(s)
  THEN [tdSave EXCEPT ![s].next = Len(Requests) + 1, ![s].failed = TargetParts]
  ELSE [tdSave EXCEPT ![s].next = @ + 1, ![s].failed = @ \cup Sent(s)]

(* It fails, as it must when the target is gone: not executed, executed,   *)
(* or - of lists and settings - the DELETE, and not all that was to follow.*)
PartFails(s) ==
  /\ Saving(s)
  /\ \/ tdServer = NewTarget /\ UNCHANGED <<tdServer, tdOthers>>
     \/ /\ tdServer # NewTarget /\ tdOthers < MaxOthers /\ tdOthers' = tdOthers + 1
        /\ \/ UNCHANGED tdServer
           \/ \E lost \in SUBSET (Sent(s) \ {TargetRow}) :
                tdServer' = With(tdServer, Sent(s), With(tdSave[s].data, lost, Blank))
  /\ tdSave' = AfterFailure(s)
  /\ tdKept' = [r \in Saves |-> tdKept[r] \ Sent(s)]
  /\ UNCHANGED <<tdOverride, tdList, tdFetch, tdDialog, tdShown>>

(* Whatever dialog is open is closed, and its input dropped.               *)
ClosesAny(saves) ==
  [r \in Saves |-> IF saves[r].pc = "open" THEN [saves[r] EXCEPT !.pc = "dropped"] ELSE saves[r]]

(* A save with an error does not fetch the list again.                     *)
Refetch(s) == tdSave[s].failed = {}

(* The end of addNewTarget, after which the dialog closes, or of           *)
(* updateTarget, which calls setEdit(null) before the overrides are saved. *)
PartsEnd(s) ==
  /\ tdSave[s].pc = "saving" /\ tdSave[s].next > Len(Requests)
  /\ IF tdSave[s].mode = "edit"
     THEN tdSave' = ClosesAny([tdSave EXCEPT ![s].pc = "overrides"]) /\ tdDialog' = Closed
     ELSE /\ tdSave' = [tdSave EXCEPT ![s].pc = "saved"]
          /\ tdDialog' = IF tdDialog.save = s THEN Closed ELSE tdDialog
  /\ tdFetch' = IF Refetch(s) THEN FetchAsked ELSE tdFetch
  /\ UNCHANGED <<tdServer, tdOverride, tdList, tdOthers, asShown>>

(* saveTaskOverrides, of which a failure is only shown, and                *)
(* handleOpenChange(false).                                                *)
SaveEnds(s) ==
  /\ tdSave[s].pc = "overrides"
  /\ \/ /\ tdOverride' = IF tdSave[s].override # 0 /\ tdServer # NewTarget
                         THEN tdSave[s].override ELSE tdOverride
        /\ UNCHANGED tdOthers
     \/ tdOthers < MaxOthers /\ tdOthers' = tdOthers + 1 /\ UNCHANGED tdOverride
  /\ tdSave' = ClosesAny([tdSave EXCEPT ![s].pc = "saved"])
  /\ tdDialog' = Closed
  /\ UNCHANGED <<tdServer, tdList, tdFetch, asShown>>

(* deleteTarget, confirmed.  (Bound: fetches are left for the saves.)      *)
DeleteShown ==
  /\ tdList # NewTarget /\ tdServer # NewTarget /\ tdDialog.save = 0
  /\ Cardinality(IdleFetches) > Cardinality({s \in Saves : tdSave[s].pc \notin {"dropped", "saved"}})
  /\ tdServer' = NewTarget /\ tdOverride' = 0
  /\ tdFetch' = FetchAsked
  /\ tdKept' = [s \in Saves |-> {}]
  /\ UNCHANGED <<tdList, tdDialog, tdSave, tdOthers, tdShown>>

(* Another session changes a part.                                         *)
OtherSession(p, v) ==
  /\ tdServer # NewTarget /\ tdOthers < MaxOthers /\ tdOthers' = tdOthers + 1
  /\ v # tdServer[p] /\ tdServer' = [tdServer EXCEPT ![p] = v]
  /\ PartsWritten(0, {p})
  /\ UNCHANGED <<tdOverride, tdList, tdFetch, tdDialog, tdSave>>

SaveStep(s) == PartSaved(s) \/ PartFails(s) \/ PartsEnd(s) \/ SaveEnds(s)

DialogNext ==
  \/ \E f \in 1..MaxFetches : DbSelectList(f) \/ ListShown(f) \/ FetchFails(f)
  \/ \E s \in Saves : OpenEdit(s) \/ OpenCreate(s) \/ SaveStep(s)
  \/ OverridesLoaded \/ OverridesFail \/ CloseDialog \/ SubmitTarget \/ DeleteShown
  \/ \E p \in TargetParts, v \in PartValues : EditPart(p, v) \/ OtherSession(p, v)
  \/ \E v \in PartValues : ToggleTaskOverride(v)

DialogSpec == DialogInit /\ [][DialogNext]_tdVars
-----------------------------------------------------------------------------
(* Properties.                                                             *)

SentOf(s, p) == IF tdSave[s].pc = "open" THEN tdDialog.form[p] ELSE tdSave[s].data[p]

(* What a save sends of a part is this of it, but for a header with a      *)
(* colon, which the form cuts, and no subdomain in scope - all were        *)
(* deleted by a failure, or only out of scope there are some -, which      *)
(* becomes the wildcard of the domain.                                     *)
Agrees(p, sent, value) ==
  \/ sent = value
  \/ p = "settings" /\ value = WithColon /\ sent = WithoutColon
  \/ p = "subdomains" /\ value = 0 /\ sent = 1

(* A dialog changes only what the user touches: every other part is sent   *)
(* back as the list showed it when the dialog was opened, whatever is      *)
(* loaded, saved or fails until the save ends; and that is the part as it  *)
(* is stored, unless somebody else, another save or a failure changed it   *)
(* since the list was read.  (Such a change is undone by the save, and     *)
(* nobody is told.)                                                        *)
UntouchedKept ==
  \A s \in Saves : tdSave[s].pc \in {"open", "saving"} =>
    /\ \A p \in DOMAIN tdShown[s] : Agrees(p, SentOf(s, p), tdShown[s][p])
    /\ \A p \in tdKept[s] : Agrees(p, SentOf(s, p), tdServer[p])
=============================================================================
