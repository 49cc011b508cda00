---------------------------- MODULE ModulesPage -----------------------------
(***************************************************************************)
(* The modules page of the web application (pages/Modules.tsx,             *)
(* components/modules/ModuleCard.tsx and TaskTemplatesSection.tsx,         *)
(* components/dialogs/ModuleDialog.tsx), for one module: the rows of its   *)
(* task templates, each changed by a request of its own, and its dialog,   *)
(* whose save sends the settings and then every template at once.  The     *)
(* answer to either changes the list the other has copied its input from.  *)
(***************************************************************************)
EXTENDS Naturals, FiniteSets

CONSTANTS
  Templates,  \* task templates of the module
  Dialogs,    \* submits of the dialog
  MaxPatches, \* bound: requests of the rows
  MaxFailed,  \* bound: requests that fail
  MaxEdits    \* bound: changes made in the dialog

ASSUME ModulesPageAssumption ==
  /\ Templates \subseteq Nat \ {0} /\ Dialogs \subseteq Nat /\ MaxPatches \in Nat /\ MaxFailed \in Nat
  /\ MaxEdits \in Nat

Fields == {"active", "interval"}
Gone == [f \in Fields |-> 2]
SettingsRequest == 0

VARIABLES
  mgDb,       \* the templates in the database, Gone when deleted
  mgDbSet,    \* the settings of the module there
  mgList,     \* allTasks, the templates the page shows
  mgListSet,  \* the settings in the modules the page has
  mgRow,      \* per template, the request its row has under way (busy): kind,
              \* pc, the row it was made from, and the changed field's value
  mgDialog,   \* open, saving, tasks and settings
  mgSave,     \* per submit: pc, tasks, settings, templates sent, not answered
              \* and failed, with SettingsRequest for those
  mgCount,    \* requests of the rows, failures and edits so far
  mgAlone     \* for the properties: the last submit, if no other request overlaps
              \* or follows it

mgVars == <<mgDb, mgDbSet, mgList, mgListSet, mgRow, mgDialog, mgSave, mgCount, mgAlone>>

(* What a closed dialog holds is never read: it starts anew when opened.   *)
ClosedDialog ==
  [open |-> FALSE, saving |-> FALSE, tasks |-> [t \in Templates |-> Gone], set |-> 0]

NoRequest == [kind |-> "none", pc |-> "none", old |-> Gone, field |-> "active", value |-> 0]
NoSave == [pc |-> "idle", tasks |-> [t \in Templates |-> Gone], set |-> 0,
           sent |-> {}, unanswered |-> {}, failed |-> {}]

ModulesPageInit ==
  /\ mgDb = [t \in Templates |-> [f \in Fields |-> 1]] /\ mgDbSet = 0
  /\ mgList = mgDb /\ mgListSet = mgDbSet
  /\ mgRow = [t \in Templates |-> NoRequest]
  /\ mgDialog = ClosedDialog
  /\ mgSave = [s \in Dialogs |-> NoSave]
  /\ mgCount = [requests |-> 0, failed |-> 0, edits |-> 0]
  /\ mgAlone = {}

InFlight == {s \in Dialogs : mgSave[s].pc \in {"settings", "patching"}}
Busy == {t \in Templates : mgRow[t].kind # "none"}

(* The effects of ModuleDialog when allTasks or the module change: an open *)
(* dialog starts anew, and is no longer saving.                            *)
Reset(list, set) ==
  IF mgDialog.open THEN [open |-> TRUE, saving |-> FALSE, tasks |-> list, set |-> set]
                   ELSE mgDialog

(* A request fails.                                                        *)
Fails == mgCount.failed < MaxFailed /\ mgCount' = [mgCount EXCEPT !.failed = @ + 1]

-----------------------------------------------------------------------------
(* The rows: a switch, an interval, a run, a deletion that was confirmed;  *)
(* not while the dialog, which is modal, is open.                          *)

RowRequest(t, kind, field, value) ==
  /\ ~mgDialog.open /\ t \notin Busy /\ mgList[t] # Gone
  /\ mgCount.requests < MaxPatches /\ mgCount' = [mgCount EXCEPT !.requests = @ + 1]
  /\ mgRow' = [mgRow EXCEPT ![t] = [kind |-> kind, pc |-> "asked", old |-> mgList[t],
                                    field |-> field, value |-> value]]
  /\ mgAlone' = {}
  /\ UNCHANGED <<mgDb, mgDbSet, mgList, mgListSet, mgDialog, mgSave>>

PatchTemplate(t, f) == RowRequest(t, "patch", f, 1 - mgList[t][f])
RunTemplate(t) == RowRequest(t, "run", "active", 0)
DeleteTemplate(t) == RowRequest(t, "delete", "active", 0)

(* The server executes it.                                                 *)
RowExecuted(t) ==
  /\ mgRow[t].pc = "asked"
  /\ mgDb' = IF mgDb[t] = Gone \/ mgRow[t].kind = "run" THEN mgDb
             ELSE [mgDb EXCEPT ![t] = IF mgRow[t].kind = "delete" THEN Gone
                                      ELSE [@ EXCEPT ![mgRow[t].field] = mgRow[t].value]]
  /\ mgRow' = [mgRow EXCEPT ![t].pc = "done"]
  /\ UNCHANGED <<mgDbSet, mgList, mgListSet, mgDialog, mgSave, mgCount, mgAlone>>

(* onTemplateUpdated, with the row as it was when the request was made;    *)
(* onTemplateDeleted.                                                      *)
AfterRow(t) ==
  IF mgList[t] = Gone \/ mgRow[t].kind = "run" THEN mgList
  ELSE [mgList EXCEPT ![t] = IF mgRow[t].kind = "delete" THEN Gone
                             ELSE [mgRow[t].old EXCEPT ![mgRow[t].field] = mgRow[t].value]]

RowAnswered(t) ==
  /\ mgRow[t].pc = "done"
  /\ mgList' = AfterRow(t)
  /\ mgDialog' = IF mgRow[t].kind = "run" THEN mgDialog ELSE Reset(mgList', mgListSet)
  /\ mgRow' = [mgRow EXCEPT ![t] = NoRequest]
  /\ UNCHANGED <<mgDb, mgDbSet, mgListSet, mgSave, mgCount, mgAlone>>

(* The catch blocks: the request was not executed, or its answer is lost.  *)
RowFails(t) ==
  /\ mgRow[t].kind # "none" /\ Fails
  /\ mgRow' = [mgRow EXCEPT ![t] = NoRequest]
  /\ UNCHANGED <<mgDb, mgDbSet, mgList, mgListSet, mgDialog, mgSave, mgAlone>>

-----------------------------------------------------------------------------
(* The dialog.                                                             *)

OpenDialog ==
  /\ ~mgDialog.open
  /\ mgDialog' = [open |-> TRUE, saving |-> FALSE, tasks |-> mgList, set |-> mgListSet]
  /\ UNCHANGED <<mgDb, mgDbSet, mgList, mgListSet, mgRow, mgSave, mgCount, mgAlone>>

(* Cancel, or Escape, which a save under way does not disable.             *)
DialogClosed ==
  /\ mgDialog.open
  /\ mgDialog' = ClosedDialog
  /\ UNCHANGED <<mgDb, mgDbSet, mgList, mgListSet, mgRow, mgSave, mgCount, mgAlone>>

Edits == mgDialog.open /\ mgCount.edits < MaxEdits /\ mgCount' = [mgCount EXCEPT !.edits = @ + 1]

(* toggleTask, updateTaskInterval.                                         *)
EditTask(t, f) ==
  /\ Edits /\ mgDialog.tasks[t] # Gone
  /\ mgDialog' = [mgDialog EXCEPT !.tasks[t][f] = 1 - @]
  /\ UNCHANGED <<mgDb, mgDbSet, mgList, mgListSet, mgRow, mgSave, mgAlone>>

UpdateSetting ==
  /\ Edits
  /\ mgDialog' = [mgDialog EXCEPT !.set = 1 - @]
  /\ UNCHANGED <<mgDb, mgDbSet, mgList, mgListSet, mgRow, mgSave, mgAlone>>

(* handleSubmit, until the settings are sent.                              *)
SubmitDialog(s) ==
  /\ mgDialog.open /\ ~mgDialog.saving
  /\ mgSave[s].pc = "idle" /\ \A r \in Dialogs : r < s => mgSave[r].pc # "idle"
  /\ mgDialog' = [mgDialog EXCEPT !.saving = TRUE]
  /\ mgSave' = [mgSave EXCEPT ![s] = [NoSave EXCEPT !.pc = "settings", !.tasks = mgDialog.tasks,
                                        !.set = mgDialog.set, !.sent = {SettingsRequest}]]
  /\ mgAlone' = IF InFlight = {} /\ Busy = {} THEN {s} ELSE {}
  /\ UNCHANGED <<mgDb, mgDbSet, mgList, mgListSet, mgRow, mgCount>>

SettingsExecuted(s) ==
  /\ mgSave[s].pc = "settings" /\ SettingsRequest \in mgSave[s].sent
  /\ mgDbSet' = mgSave[s].set
  /\ mgSave' = [mgSave EXCEPT ![s].sent = {}]
  /\ UNCHANGED <<mgDb, mgList, mgListSet, mgRow, mgDialog, mgCount, mgAlone>>

Patching(s) ==
  LET all == {t \in Templates : mgSave[s].tasks[t] # Gone} IN
  [mgSave EXCEPT ![s].pc = "patching", ![s].sent = all, ![s].unanswered = all]

(* Mutant: without its settings a save ends.                               *)
PatchingNone(s) == [mgSave EXCEPT ![s].pc = "patching", ![s].sent = {}, ![s].failed = {SettingsRequest}]

(* saveSettings catches the failure, and the templates are sent anyway.    *)
PatchingAnyway(s) == [Patching(s) EXCEPT ![s].failed = {SettingsRequest}]

(* Its answer, shown through onSettingsChange.                             *)
SettingsAnswered(s) ==
  /\ mgSave[s].pc = "settings" /\ SettingsRequest \notin mgSave[s].sent
  /\ mgListSet' = mgSave[s].set
  /\ mgDialog' = Reset(mgList, mgListSet')
  /\ mgSave' = Patching(s)
  /\ UNCHANGED <<mgDb, mgDbSet, mgList, mgRow, mgCount, mgAlone>>

SettingsFail(s) ==
  /\ mgSave[s].pc = "settings" /\ Fails
  /\ mgSave' = PatchingAnyway(s)
  /\ UNCHANGED <<mgDb, mgDbSet, mgList, mgListSet, mgRow, mgDialog, mgAlone>>

(* PATCH of one template, all of its fields.                               *)
TaskExecuted(s, t) ==
  /\ t \in mgSave[s].sent /\ mgSave[s].pc = "patching" /\ mgDb[t] # Gone
  /\ mgDb' = [mgDb EXCEPT ![t] = mgSave[s].tasks[t]]
  /\ mgSave' = [mgSave EXCEPT ![s].sent = @ \ {t}, ![s].unanswered = @ \ {t}]
  /\ UNCHANGED <<mgDbSet, mgList, mgListSet, mgRow, mgDialog, mgCount, mgAlone>>

(* It fails, as it must when the template is gone; a message is shown.     *)
TaskFails(s, t) ==
  /\ t \in mgSave[s].sent /\ mgSave[s].pc = "patching"
  /\ IF mgDb[t] = Gone THEN UNCHANGED mgCount ELSE Fails
  /\ mgSave' = [mgSave EXCEPT ![s].sent = @ \ {t}, ![s].unanswered = @ \ {t},
                              ![s].failed = @ \cup {t}]
  /\ UNCHANGED <<mgDb, mgDbSet, mgList, mgListSet, mgRow, mgDialog, mgAlone>>

(* onTasksChange: with every task of the form, the failed ones included.   *)
TasksChanged(s) ==
  [t \in Templates |-> IF mgList[t] = Gone \/ mgSave[s].tasks[t] = Gone THEN mgList[t]
                       ELSE mgSave[s].tasks[t]]

(* The end of handleSubmit, which closes the dialog, also one reopened.    *)
DialogSaved(s) ==
  /\ mgSave[s].pc = "patching" /\ mgSave[s].unanswered = {}
  /\ mgList' = TasksChanged(s)
  /\ mgDialog' = ClosedDialog
  /\ mgSave' = [mgSave EXCEPT ![s].pc = "saved"]
  /\ UNCHANGED <<mgDb, mgDbSet, mgListSet, mgRow, mgCount, mgAlone>>

-----------------------------------------------------------------------------

RowStep(t) == RowExecuted(t) \/ RowAnswered(t)
SaveStepOf(s) ==
  SettingsExecuted(s) \/ SettingsAnswered(s) \/ DialogSaved(s)
    \/ \E t \in Templates : TaskExecuted(s, t) \/ TaskFails(s, t)

ModulesPageNext ==
  \/ \E t \in Templates : RunTemplate(t) \/ DeleteTemplate(t) \/ RowStep(t) \/ RowFails(t)
  \/ \E t \in Templates, f \in Fields : PatchTemplate(t, f) \/ EditTask(t, f)
  \/ OpenDialog \/ DialogClosed \/ UpdateSetting
  \/ \E s \in Dialogs : SubmitDialog(s) \/ SettingsFail(s) \/ SaveStepOf(s)

ModulesPageSpec == ModulesPageInit /\ [][ModulesPageNext]_mgVars
-----------------------------------------------------------------------------
(* Properties.                                                             *)

(* A save of the module's dialog that no other request overlapped stores   *)
(* its settings and every template but those reported as failed, whichever *)
(* of its requests failed before.                                          *)
SavedUnlessTold ==
  \A s \in mgAlone : mgSave[s].pc = "saved" =>
    /\ SettingsRequest \in mgSave[s].failed \/ mgDbSet = mgSave[s].set
    /\ \A t \in Templates \ mgSave[s].failed : mgDb[t] = mgSave[s].tasks[t]
=============================================================================
