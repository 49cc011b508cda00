---------------------------- MODULE Notifications ----------------------------
(***************************************************************************)
(* Notifications of new alerts: the services in the configuration          *)
(* (controllers/notifications.ts), the messages an alert sends to each     *)
(* enabled one (services/notifications), and the tab of the settings that  *)
(* edits, saves and tests them (NotificationsTab.tsx).                     *)
(*                                                                         *)
(* The fields of a service are one value: "lacking" a required one, "bad"  *)
(* (its endpoint refuses) or "good".  Leaving the tab unmounts it; coming  *)
(* back loads the services again.                                          *)
(***************************************************************************)
EXTENDS Naturals

CONSTANTS
  Providers, \* the keys of NOTIFICATION_PROVIDERS
  MaxNotified, \* bound: alerts
  MaxFormClicks, \* bound: edits, saves, tests and tab changes
  MaxFormFaults  \* bound: requests and messages that the network loses

ASSUME NotificationsAssumption ==
  /\ Providers # {} /\ MaxNotified \in Nat /\ MaxFormClicks \in Nat /\ MaxFormFaults \in Nat

Service == [enabled : BOOLEAN, config : {"lacking", "bad", "good"}]
Unset == [enabled |-> FALSE, config |-> "lacking"]

VARIABLES
  noStored,   \* notificationServices, Unset where there is none
  noSent,     \* messages under way: alert, provider, its fields
  noAlerts,   \* alerts so far
  noForm,     \* the tab's notificationServices
  noTab,      \* "loading", "loaded", or "empty" when loading failed
  noChosen,   \* selectedProvider
  noSaving, noTesting,
  noRequests, \* requests under way
  noClicks, noFaults,
  noEdited,   \* for the properties: providers whose form was edited since it was saved or loaded
  noLeft      \* for the properties: the tab was left during a save, or an answer was lost

noVars == <<noStored, noSent, noAlerts, noForm, noTab, noChosen, noSaving, noTesting, noRequests,
            noClicks, noFaults, noEdited, noLeft>>

FormRequest(kind, provider, value) ==
  [id |-> noClicks + 1, kind |-> kind, provider |-> provider, value |-> value,
   state |-> "sent", live |-> TRUE]

SomeProvider == CHOOSE p \in Providers : TRUE

Working == [enabled |-> TRUE, config |-> "good"]

(* The tab opens; some services are set up.                                *)
NotificationsInit ==
  /\ noStored \in {[p \in Providers |-> IF p \in S THEN Working ELSE Unset] : S \in SUBSET Providers}
  /\ noSent = {} /\ noAlerts = 0
  /\ noForm = [p \in Providers |-> Unset] /\ noTab = "loading" /\ noChosen = SomeProvider
  /\ noSaving = FALSE /\ noTesting = FALSE
  /\ noClicks = 0 /\ noFaults = 0
  /\ noRequests = {FormRequest("load", SomeProvider, noForm)}
  /\ noEdited = {} /\ noLeft = FALSE

FormFault == noFaults < MaxFormFaults /\ noFaults' = noFaults + 1
FormClick == noClicks < MaxFormClicks /\ noClicks' = noClicks + 1

Tab == <<noForm, noTab, noChosen, noSaving, noTesting, noEdited, noLeft>>
Messages == <<noSent, noAlerts>>

-----------------------------------------------------------------------------
(* sendAlertNotification: all enabled services at once, with the fields    *)
(* they have now.                                                          *)

Told(services) == {p \in Providers : services[p].enabled}

Alert ==
  /\ noAlerts < MaxNotified /\ noAlerts' = noAlerts + 1
  /\ noSent' = noSent \cup {<<noAlerts', p, noStored[p].config>> : p \in Told(noStored)}
  /\ UNCHANGED <<noStored, noRequests, noClicks, noFaults, Tab>>

(* sendNotification of discord.ts and ntfysh.ts: a required field lacks,   *)
(* the endpoint refuses, or it takes the message.  A failure is logged.    *)
Delivered(m) ==
  /\ noSent' = noSent \ {m}
  /\ UNCHANGED <<noStored, noAlerts, noRequests, noClicks, noFaults, Tab>>

(* fetch rejects.                                                          *)
Undelivered(m) ==
  /\ m[3] # "lacking" /\ FormFault
  /\ noSent' = noSent \ {m}
  /\ UNCHANGED <<noStored, noAlerts, noRequests, noClicks, Tab>>

-----------------------------------------------------------------------------
(* The controllers.                                                        *)

FormNow(r, state, value) ==
  (noRequests \ {r}) \cup {[r EXCEPT !.state = state, !.value = value]}

GetServices(r) ==
  /\ r.kind = "load" /\ r.state = "sent"
  /\ noRequests' = FormNow(r, "ok", noStored)
  /\ UNCHANGED <<noStored, noClicks, noFaults, Tab, Messages>>

(* Mutant: the list is replaced by the one service, not changed in place.  *)
UpdatedAlone(r) == [p \in Providers |-> IF p = r.provider THEN r.value[p] ELSE Unset]

Updated(r) == [noStored EXCEPT ![r.provider] = r.value[r.provider]]

UpdateService(r) ==
  /\ r.kind = "save" /\ r.state = "sent"
  /\ noStored' = Updated(r)
  /\ noRequests' = FormNow(r, "ok", r.value)
  /\ UNCHANGED <<noClicks, noFaults, Tab, Messages>>

(* testNotificationService takes the stored fields, never the ones the tab *)
(* sends along.                                                            *)
StartTest(r) ==
  /\ r.kind = "test" /\ r.state = "sent"
  /\ noRequests' = FormNow(r, IF noStored[r.provider] = Unset THEN "failed" ELSE "trying", noStored)
  /\ UNCHANGED <<noStored, noClicks, noFaults, Tab, Messages>>

EndTest(r) ==
  /\ r.state = "trying"
  /\ noRequests' = FormNow(r, IF r.value[r.provider].config = "good" THEN "ok" ELSE "failed", r.value)
  /\ UNCHANGED <<noStored, noClicks, noFaults, Tab, Messages>>

(* A request, the message it waits for or its answer is lost; or the save  *)
(* is answered with 500, writing it failed but the list is changed.        *)
Lost(r) ==
  /\ r.state # "failed" /\ FormFault
  /\ \/ UNCHANGED noStored
     \/ r.kind = "save" /\ r.state = "sent" /\ noStored' = Updated(r)
  /\ noRequests' = FormNow(r, "failed", r.value)
  /\ noLeft' = (noLeft \/ (r.kind = "save" /\ r.state = "ok"))
  /\ UNCHANGED <<noForm, noTab, noChosen, noSaving, noTesting, noClicks, noEdited, Messages>>

-----------------------------------------------------------------------------
(* The tab.  What an unmounted one sets is lost.                           *)

TestEnded(r) == r.state \in {"ok", "failed"}

FormAnswered(r) ==
  /\ r.kind = "load" /\ TestEnded(r)
  /\ noRequests' = noRequests \ {r}
  /\ IF r.live
       THEN /\ noForm' = IF r.state = "ok" THEN r.value ELSE noForm
            /\ noTab' = IF r.state = "ok" THEN "loaded" ELSE "empty"
            /\ noChosen' = SomeProvider /\ noEdited' = {}
       ELSE UNCHANGED <<noForm, noTab, noChosen, noEdited>>
  /\ UNCHANGED <<noStored, noSaving, noTesting, noClicks, noFaults, noLeft, Messages>>

SaveAnswered(r) ==
  /\ r.kind = "save" /\ TestEnded(r)
  /\ noRequests' = noRequests \ {r}
  /\ noSaving' = (noSaving /\ ~r.live)
  /\ noEdited' = IF r.live /\ r.state = "ok" /\ r.value[r.provider] = noForm[r.provider]
                   THEN noEdited \ {r.provider} ELSE noEdited
  /\ UNCHANGED <<noStored, noForm, noTab, noChosen, noTesting, noClicks, noFaults,
                 noLeft, Messages>>

TestAnswered(r) ==
  /\ r.kind = "test" /\ TestEnded(r)
  /\ noRequests' = noRequests \ {r}
  /\ noTesting' = (noTesting /\ ~r.live)
  /\ UNCHANGED <<noStored, noForm, noTab, noChosen, noSaving, noClicks, noFaults, noEdited,
                 noLeft, Messages>>

ChooseService(p) ==
  /\ noTab = "loaded" /\ p # noChosen /\ noChosen' = p
  /\ UNCHANGED <<noStored, noForm, noTab, noSaving, noTesting, noRequests, noClicks, noFaults,
                 noEdited, noLeft, Messages>>

(* toggleNotificationService and updateNotificationConfig.                 *)
Edit(s) ==
  /\ noTab = "loaded" /\ FormClick /\ s # noForm[noChosen]
  /\ noForm' = [noForm EXCEPT ![noChosen] = s]
  /\ noEdited' = noEdited \cup {noChosen}
  /\ UNCHANGED <<noStored, noTab, noChosen, noSaving, noTesting, noRequests, noFaults, noLeft, Messages>>

Buttons == ~noSaving /\ ~noTesting

Save ==
  /\ noTab = "loaded" /\ Buttons /\ FormClick
  /\ noSaving' = TRUE
  /\ noRequests' = noRequests \cup {FormRequest("save", noChosen, noForm)}
  /\ UNCHANGED <<noStored, noForm, noTab, noChosen, noTesting, noFaults, noEdited,
                 noLeft, Messages>>

Test ==
  /\ noTab = "loaded" /\ Buttons /\ FormClick
  /\ noTesting' = TRUE
  /\ noRequests' = noRequests \cup {FormRequest("test", noChosen, noForm)}
  /\ UNCHANGED <<noStored, noForm, noTab, noChosen, noSaving, noFaults, noEdited,
                 noLeft, Messages>>

(* Another tab and back: a new NotificationsTab loads.                     *)
ReturnToForm ==
  /\ FormClick
  /\ noForm' = [p \in Providers |-> Unset] /\ noTab' = "loading" /\ noChosen' = SomeProvider
  /\ noSaving' = FALSE /\ noTesting' = FALSE /\ noEdited' = {}
  /\ noRequests' = {[r EXCEPT !.live = FALSE] : r \in noRequests}
                     \cup {FormRequest("load", SomeProvider, noForm')}
  /\ noLeft' = (noLeft \/ noSaving)
  /\ UNCHANGED <<noStored, noFaults, Messages>>

NotificationsNext ==
  \/ Alert \/ \E m \in noSent : Delivered(m) \/ Undelivered(m)
  \/ \E r \in noRequests :
       \/ GetServices(r) \/ UpdateService(r) \/ StartTest(r) \/ EndTest(r) \/ Lost(r)
       \/ FormAnswered(r) \/ SaveAnswered(r) \/ TestAnswered(r)
  \/ \E p \in Providers : ChooseService(p)
  \/ \E s \in Service : Edit(s)
  \/ Save \/ Test \/ ReturnToForm

NotificationsSpec == NotificationsInit /\ [][NotificationsNext]_noVars
-----------------------------------------------------------------------------
(* Properties.                                                             *)

(* What the tab shows and nobody edited is what the server has - unless    *)
(* the tab was left during a save, or the save's answer was lost.          *)
FormIsStored ==
  noTab = "loaded" /\ ~noLeft /\ ~noSaving =>
    \A p \in Providers \ noEdited : noForm[p] = noStored[p]
=============================================================================
