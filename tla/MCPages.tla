------------------------------- MODULE MCPages --------------------------------
(***************************************************************************)
(* Small instances of the pages of the web application, each with the     *)
(* part of the server it talks to, in one run.  They share no state: the   *)
(* initial state chooses the page that is used, the others stay as they    *)
(* are.  A page that may start in several states has only one while        *)
(* another is used.                                                        *)
(***************************************************************************)
EXTENDS TargetDialog, ModulesPage, AlertsPage, SettingsPage, Notifications, WorkersPage

VARIABLE part  \* the page that is used

Parts == {"dialog", "modules", "alerts", "settings", "notifications", "workers"}

PagesInit ==
  /\ part \in Parts
  /\ DialogInit /\ ModulesPageInit /\ AlertsPageInit /\ SettingsPageInit /\ NotificationsInit
  /\ WorkersPageInit
  /\ part # "dialog" => tdServer = NewTarget
  /\ part # "settings" => seStored.swagger
  /\ part # "notifications" => \A p \in Providers : ~noStored[p].enabled

(* All pages but p stay as they are.                                       *)
Only(p) ==
  /\ part = p /\ UNCHANGED part
  /\ p = "dialog"        \/ UNCHANGED tdVars
  /\ p = "modules"       \/ UNCHANGED mgVars
  /\ p = "alerts"        \/ UNCHANGED apVars
  /\ p = "settings"      \/ UNCHANGED seVars
  /\ p = "notifications" \/ UNCHANGED noVars
  /\ p = "workers"       \/ UNCHANGED wpVars

PagesNext ==
  \/ Only("dialog") /\ DialogNext
  \/ Only("modules") /\ ModulesPageNext
  \/ Only("alerts") /\ AlertsPageNext
  \/ Only("settings") /\ SettingsPageNext
  \/ Only("notifications") /\ NotificationsNext
  \/ Only("workers") /\ WorkersPageNext

pagesVars == <<part, tdVars, mgVars, apVars, seVars, noVars, wpVars>>

PagesSpec == PagesInit /\ [][PagesNext]_pagesVars
=============================================================================
