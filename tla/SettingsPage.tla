---------------------------- MODULE SettingsPage -----------------------------
(***************************************************************************)
(* The general settings in the web application: Settings.tsx loads them    *)
(* once, GeneralTab.tsx edits them over controllers/settings.ts.  The      *)
(* external URL is saved whenever its input loses the focus, the Swagger   *)
(* switch asks before it saves, the Burp Suite key is made by the server.  *)
(* Leaving the tab unmounts GeneralTab but not what Settings holds.        *)
(*                                                                         *)
(* A URL is a number, without the trailing slash the server strips: 0 is   *)
(* the empty field, 1 the URL stored at first.  A key is the number of its *)
(* making; 0 is the empty field.  The buttons that restart are WebSession. *)
(***************************************************************************)
EXTENDS Naturals

CONSTANTS
  Typable,   \* URLs the user may type
  MaxSettingsClicks, \* bound: blurs, toggles, regenerations and tab changes
  MaxSettingsFaults  \* bound: requests that fail, or whose answer is lost

ASSUME SettingsPageAssumption ==
  /\ Typable \subseteq Nat \ {0, 1} /\ MaxSettingsClicks \in Nat /\ MaxSettingsFaults \in Nat

VARIABLES
  seStored,   \* the configuration: url, swagger, key
  seShown,    \* what Settings holds of it
  seLoading,  \* loadingSettings
  seDialog,   \* confirmSwaggerToggle
  sePending,  \* pendingSwaggerValue
  seRegen,    \* regeneratingBurpsuite
  seRequests, \* requests under way
  seClicks, seFaults,
  seTyped,    \* for the properties: URLs typed so far
  seFlaws     \* for the properties: what went wrong that the page cannot see

seVars == <<seStored, seShown, seLoading, seDialog, sePending, seRegen, seRequests, seClicks,
            seFaults, seTyped, seFlaws>>

ServerSettings(url, swagger, key) == [url |-> url, swagger |-> swagger, key |-> key]

(* live: sent by the GeneralTab that is mounted (or by Settings).          *)
PageRequest(kind, value) ==
  [id |-> seClicks + 1, kind |-> kind, value |-> value, state |-> "sent", live |-> TRUE]

(* Settings.tsx before the first answer: the switch is on.                 *)
SettingsPageInit ==
  /\ seStored \in {ServerSettings(1, b, 1) : b \in BOOLEAN}
  /\ seShown = ServerSettings(0, TRUE, 0)
  /\ seLoading = TRUE /\ seDialog = FALSE /\ sePending = FALSE /\ seRegen = FALSE
  /\ seClicks = 0 /\ seFaults = 0
  /\ seRequests = {[id |-> 0, kind |-> "load", value |-> seShown, state |-> "sent", live |-> TRUE]}
  /\ seTyped = {1} /\ seFlaws = {}

OnItsWay(kind) == \E r \in seRequests : r.kind = kind

SettingsClick == seClicks < MaxSettingsClicks /\ seClicks' = seClicks + 1

-----------------------------------------------------------------------------
(* The server, and the way to it and back.                                 *)

SettingsNow(r, state, value) ==
  (seRequests \ {r}) \cup {[r EXCEPT !.state = state, !.value = value]}

(* updateSettings, regenerateBurpsuiteKey.                                 *)
After(r) == CASE r.kind = "url"     -> [seStored EXCEPT !.url = r.value.url]
              [] r.kind = "swagger" -> [seStored EXCEPT !.swagger = r.value.swagger]
              [] r.kind = "key"     -> [seStored EXCEPT !.key = @ + 1]
              [] OTHER              -> seStored

Reply(r) == IF r.kind \in {"load", "key"} THEN After(r) ELSE r.value

Process(r) ==
  /\ r.state = "sent"
  /\ seStored' = After(r)
  /\ seRequests' = SettingsNow(r, "ok", Reply(r))
  /\ UNCHANGED <<seShown, seLoading, seDialog, sePending, seRegen, seClicks, seFaults, seTyped, seFlaws>>

SettingsFault == seFaults < MaxSettingsFaults /\ seFaults' = seFaults + 1

(* The request never gets to the server; updateConfig has changed its copy *)
(* in memory when writing it throws, which the server answers with 500; or *)
(* the answer is lost.                                                     *)
Fail(r) ==
  /\ r.state # "failed" /\ SettingsFault
  /\ \/ r.state = "sent" /\ UNCHANGED <<seStored, seFlaws>>
     \/ /\ r.state = "sent" /\ r.kind # "load"
        /\ seStored' = After(r) /\ seFlaws' = seFlaws \cup {<<r.kind, "unwritten">>}
     \/ r.state = "ok" /\ seFlaws' = seFlaws \cup {<<r.kind, "lost">>} /\ UNCHANGED seStored
  /\ seRequests' = SettingsNow(r, "failed", r.value)
  /\ UNCHANGED <<seShown, seLoading, seDialog, sePending, seRegen, seClicks, seTyped>>

-----------------------------------------------------------------------------
(* Answers.                                                                *)

(* loadSettings: in finally the inputs take the skeletons' place, loaded   *)
(* or not.                                                                 *)
SettingsFetched(r) ==
  /\ r.kind = "load" /\ r.state # "sent"
  /\ seShown' = IF r.state = "ok" THEN r.value ELSE seShown
  /\ seLoading' = FALSE
  /\ seFlaws' = IF r.state = "ok" THEN seFlaws ELSE seFlaws \cup {<<"load", "failed">>}
  /\ seRequests' = seRequests \ {r}
  /\ UNCHANGED <<seStored, seDialog, sePending, seRegen, seClicks, seFaults, seTyped>>

(* saveExternalUrl: a toast, and nothing else.                             *)
UrlAnswered(r) ==
  /\ r.kind = "url" /\ r.state # "sent"
  /\ seRequests' = seRequests \ {r}
  /\ UNCHANGED <<seStored, seShown, seLoading, seDialog, sePending, seRegen, seClicks, seFaults,
                 seTyped, seFlaws>>

(* toggleSwagger: an unmounted tab still sets what Settings holds.         *)
SwaggerAnswered(r) ==
  /\ r.kind = "swagger" /\ r.state # "sent"
  /\ seShown' = IF r.state = "ok" THEN [seShown EXCEPT !.swagger = r.value.swagger] ELSE seShown
  /\ seDialog' = (seDialog /\ ~r.live)
  /\ seRequests' = seRequests \ {r}
  /\ UNCHANGED <<seStored, seLoading, sePending, seRegen, seClicks, seFaults, seTyped, seFlaws>>

(* regenerateBurpsuiteToken.                                               *)
KeyAnswered(r) ==
  /\ r.kind = "key" /\ r.state # "sent"
  /\ seShown' = IF r.state = "ok" THEN [seShown EXCEPT !.key = r.value.key] ELSE seShown
  /\ seRegen' = (seRegen /\ ~r.live)
  /\ seRequests' = seRequests \ {r}
  /\ UNCHANGED <<seStored, seLoading, seDialog, sePending, seClicks, seFaults, seTyped, seFlaws>>

-----------------------------------------------------------------------------
(* The user.                                                               *)

Type(u) ==
  /\ ~seLoading /\ ~seDialog
  /\ seShown.url # u
  /\ seShown' = [seShown EXCEPT !.url = u]
  /\ seTyped' = seTyped \cup {u}
  /\ UNCHANGED <<seStored, seLoading, seDialog, sePending, seRegen, seRequests, seClicks, seFaults,
                 seFlaws>>

(* onBlur, whether or not anything was typed.                              *)
Blur ==
  /\ ~seLoading /\ ~seDialog /\ SettingsClick
  /\ seRequests' = seRequests \cup {PageRequest("url", seShown)}
  /\ UNCHANGED <<seStored, seShown, seLoading, seDialog, sePending, seRegen, seFaults, seTyped, seFlaws>>

(* initiateSwaggerToggle.  A switch turned again before the first answer   *)
(* is noted.                                                               *)
Toggle ==
  /\ ~seLoading /\ ~seDialog
  /\ sePending' = ~seShown.swagger /\ seDialog' = TRUE
  /\ seFlaws' = IF OnItsWay("swagger") THEN seFlaws \cup {<<"swagger", "rushed">>} ELSE seFlaws
  /\ UNCHANGED <<seStored, seShown, seLoading, seRegen, seRequests, seClicks, seFaults, seTyped>>

(* Both buttons save, then the dialog closes: onOpenChange(false) turns    *)
(* the switch back until the answer.                                       *)
RestartNowOrLater ==
  /\ seDialog /\ SettingsClick
  /\ seRequests' = seRequests \cup
       {PageRequest("swagger", [seShown EXCEPT !.swagger = sePending])}
  /\ seDialog' = FALSE
  /\ seShown' = [seShown EXCEPT !.swagger = ~sePending]
  /\ UNCHANGED <<seStored, seLoading, sePending, seRegen, seFaults, seTyped, seFlaws>>

Escape ==
  /\ seDialog /\ seDialog' = FALSE
  /\ seShown' = [seShown EXCEPT !.swagger = ~sePending]
  /\ UNCHANGED <<seStored, seLoading, sePending, seRegen, seRequests, seClicks, seFaults, seTyped,
                 seFlaws>>

(* Mutant: the button is not disabled.                                     *)
RegenerateAgain == TRUE
MayRegenerate == ~seRegen

Regenerate ==
  /\ ~seLoading /\ ~seDialog /\ MayRegenerate /\ SettingsClick
  /\ seRegen' = TRUE
  /\ seRequests' = seRequests \cup {PageRequest("key", seShown)}
  /\ UNCHANGED <<seStored, seShown, seLoading, seDialog, sePending, seFaults, seTyped, seFlaws>>

(* Another tab of the settings and back: the new GeneralTab knows nothing  *)
(* of the requests under way.                                              *)
ChangeTab ==
  /\ ~seDialog /\ SettingsClick
  /\ seRegen' = FALSE /\ sePending' = FALSE
  /\ seRequests' = {[r EXCEPT !.live = r.kind = "load"] : r \in seRequests}
  /\ seFlaws' = IF seRegen THEN seFlaws \cup {<<"key", "left">>} ELSE seFlaws
  /\ UNCHANGED <<seStored, seShown, seLoading, seDialog, seFaults, seTyped>>

SettingsPageNext ==
  \/ \E r \in seRequests :
       \/ Process(r) \/ Fail(r)
       \/ SettingsFetched(r) \/ UrlAnswered(r) \/ SwaggerAnswered(r) \/ KeyAnswered(r)
  \/ \E u \in Typable : Type(u)
  \/ Blur \/ Toggle \/ RestartNowOrLater \/ Escape \/ Regenerate \/ ChangeTab

SettingsPageSpec == SettingsPageInit /\ [][SettingsPageNext]_seVars
-----------------------------------------------------------------------------
(* Properties.                                                             *)

(* The URL callbacks are built from is one that somebody entered - unless  *)
(* the page failed to load: then a click into the empty field and out of   *)
(* it stores the empty URL.                                                *)
UrlWasEntered == <<"load", "failed">> \in seFlaws \/ seStored.url \in seTyped

(* At rest the switch tells what is in force - unless it was turned again  *)
(* before an answer, an answer was lost, or the change is in force though  *)
(* writing it failed.                                                      *)
SwitchTellsTruth ==
  ~seLoading /\ ~seDialog /\ ~OnItsWay("swagger") /\ seShown.swagger # seStored.swagger =>
    seFlaws \cap {<<"load", "failed">>, <<"swagger", "rushed">>, <<"swagger", "lost">>,
                  <<"swagger", "unwritten">>} # {}

(* At rest the key to copy is the one the server checks, however often it  *)
(* was regenerated - unless the tab was left while it was, an answer was   *)
(* lost, or the new key is in force though writing it failed.              *)
KeyShownIsValid ==
  ~seLoading /\ ~OnItsWay("key") /\ seShown.key # seStored.key =>
    seFlaws \cap {<<"load", "failed">>, <<"key", "left">>, <<"key", "lost">>,
                  <<"key", "unwritten">>} # {}

(* The tab tells, and stores, the truth about all it holds, however its    *)
(* requests overlap - save for the flaws each part names.                  *)
TabTellsTruth == UrlWasEntered /\ SwitchTellsTruth /\ KeyShownIsValid
=============================================================================
