----------------------------- MODULE ModuleConfig -----------------------------
(***************************************************************************)
(* The settings of one module (modules/moduleConfig.ts): the row of        *)
(* modules_configs with key "settings", its entry in configCache, and the  *)
(* calls that change them - initSettings when the module is loaded,        *)
(* setSetting by the module, and the request of the settings page          *)
(* (controllers/modules.ts).                                               *)
(*                                                                         *)
(* The cached value is an array that callers get by reference and change   *)
(* in place, so arrays have an identity.  A missing row is the empty array *)
(* (get's default), with every setting Absent.                             *)
(***************************************************************************)
EXTENDS Naturals, FiniteSets

CONSTANTS
  Names,       \* names of settings
  Values,      \* values of a setting
  Default,     \* the default of every setting
  Absent,      \* the setting is not in the array
  Manifests,   \* sets of settings the module's manifest may list
  MaxConfigs   \* bound: calls 1..MaxConfigs come

Configs == 1..MaxConfigs
NoArray == 0
Arrays == 0..(2 * MaxConfigs)  \* call r makes arrays 2r - 1 and 2r

ASSUME ConfigAssumption ==
  /\ Default \in Values /\ Absent \notin Values
  /\ Manifests \subseteq SUBSET Names /\ MaxConfigs \in Nat

VARIABLES
  cfRow,        \* the row
  cfHeap,       \* content of every array
  cfCache,      \* the array in configCache, or NoArray
  cfPc,         \* where each call is
  cfCall,       \* what it asks for: kind, name, value, names
  cfArray,      \* the array it has
  cfSent,       \* the JSON text it sent; of a page, the list it loaded
  cfSince,      \* for the properties: settings that changed since it did
  cfWanted,     \* for the properties: the last value acknowledged
  cfDisturbed   \* for the properties: calls overlapped or a write failed

configVars == <<cfRow, cfHeap, cfCache, cfPc, cfCall, cfArray, cfSent, cfSince, cfWanted,
                cfDisturbed>>

Call == [kind : {"init", "set", "page"}, name : Names, value : Values, names : SUBSET Names]

Empty == [n \in Names |-> Absent]

ConfigInit ==
  /\ cfRow \in {Empty} \cup {[n \in Names |-> v] : v \in Values \ {Default}}
  /\ cfHeap = [a \in Arrays |-> Empty] /\ cfCache = NoArray
  /\ cfPc = [r \in Configs |-> "idle"]
  /\ cfCall = [r \in Configs |-> [kind |-> "init", name |-> CHOOSE n \in Names : TRUE,
                                   value |-> Default, names |-> {}]]
  /\ cfArray = [r \in Configs |-> NoArray] /\ cfSent = [r \in Configs |-> Empty]
  /\ cfSince = [r \in Configs |-> {}]
  /\ cfWanted = cfRow /\ cfDisturbed = FALSE

Step(r, to) == cfPc' = [cfPc EXCEPT ![r] = to]
Open(pcs) == {r \in Configs : pcs[r] \notin {"idle", "loaded", "done"}}

Comes(r) == cfPc[r] = "idle" /\ \A q \in 1..(r - 1) : cfPc[q] # "idle"

(* The module calls.  It is loaded before it runs and before its settings  *)
(* can be edited, so the first call is initSettings; a manifest without    *)
(* settings removes the row.                                               *)
ConfigCall(r) ==
  /\ Comes(r)
  /\ \E c \in Call :
       /\ c.kind = IF r = 1 THEN "init" ELSE "set"
       /\ IF r = 1 THEN c.names \in Manifests /\ c.value = Default
                   ELSE c.names = {} /\ cfPc[1] = "done"
       /\ cfCall' = [cfCall EXCEPT ![r] = c]
       /\ Step(r, IF r = 1 /\ c.names = {} THEN "write" ELSE "get")
  /\ cfDisturbed' = (cfDisturbed \/ Open(cfPc) # {})
  /\ UNCHANGED <<cfRow, cfHeap, cfCache, cfArray, cfSent, cfSince, cfWanted>>

(* A settings page is loaded: GET /modules reads the row.                  *)
PageLoads(r) ==
  /\ r # 1 /\ Comes(r)
  /\ cfSent' = [cfSent EXCEPT ![r] = cfRow]
  /\ Step(r, "loaded")
  /\ UNCHANGED <<cfRow, cfHeap, cfCache, cfCall, cfArray, cfSince, cfWanted, cfDisturbed>>

(* It is saved, any time later: the whole list is sent with one setting    *)
(* changed.                                                                *)
PageSaves(r) ==
  /\ cfPc[r] = "loaded" /\ cfPc[1] = "done"
  /\ \E n \in Names, v \in Values :
       /\ cfSent[r][n] # Absent
       /\ cfCall' = [cfCall EXCEPT ![r] = [kind |-> "page", name |-> n, value |-> v, names |-> {}]]
       /\ cfSent' = [cfSent EXCEPT ![r][n] = v]
  /\ Step(r, "write")
  /\ cfDisturbed' = (cfDisturbed \/ Open(cfPc) # {})
  /\ UNCHANGED <<cfRow, cfHeap, cfCache, cfArray, cfSince, cfWanted>>

-----------------------------------------------------------------------------
(* What a call does with the array it got: setSetting finds the setting    *)
(* and changes it in place, initSettings merges into a new one; then set   *)
(* sends it.                                                               *)

(* initSettings: new settings are added, unused ones removed.              *)
Merged(content, names) ==
  [n \in Names |-> IF n \notin names THEN Absent
                   ELSE IF content[n] = Absent THEN Default ELSE content[n]]

Got(r, a, heap) ==
  LET c == cfCall[r] IN
  IF c.kind = "set" /\ heap[a][c.name] = Absent
  THEN /\ Step(r, "done")
       /\ cfHeap' = heap
       /\ UNCHANGED <<cfArray, cfSent>>
  ELSE LET b == IF c.kind = "set" THEN a ELSE 2 * r
           new == IF c.kind = "set" THEN [heap[a] EXCEPT ![c.name] = c.value]
                                    ELSE Merged(heap[a], c.names)
       IN /\ cfHeap' = [heap EXCEPT ![b] = new]
          /\ cfArray' = [cfArray EXCEPT ![r] = b]
          /\ cfSent' = [cfSent EXCEPT ![r] = new]
          /\ Step(r, "write")

(* get: a cached value is used at once.                                    *)
GetCached(r) ==
  /\ cfPc[r] = "get" /\ cfCache # NoArray
  /\ Got(r, cfCache, cfHeap)
  /\ UNCHANGED <<cfRow, cfCache, cfCall, cfSince, cfWanted, cfDisturbed>>

(* get: otherwise the database answers.                                    *)
GetSelect(r) ==
  /\ cfPc[r] = "get" /\ cfCache = NoArray
  /\ cfHeap' = [cfHeap EXCEPT ![2 * r - 1] = cfRow]
  /\ cfArray' = [cfArray EXCEPT ![r] = 2 * r - 1]
  /\ Step(r, "selected")
  /\ UNCHANGED <<cfRow, cfCache, cfCall, cfSent, cfSince, cfWanted, cfDisturbed>>

(* get: the answer fills the cache.                                        *)
GetFilled(r) ==
  /\ cfPc[r] = "selected"
  /\ cfCache' = cfArray[r]
  /\ Got(r, cfArray[r], cfHeap)
  /\ UNCHANGED <<cfRow, cfCall, cfSince, cfWanted, cfDisturbed>>

(* The INSERT ... ON CONFLICT DO UPDATE of set or of the page's request.   *)
DbUpsert(r) ==
  /\ cfPc[r] = "write"
  /\ cfRow' = cfSent[r]
  /\ Step(r, "written")
  /\ UNCHANGED <<cfHeap, cfCache, cfCall, cfArray, cfSent, cfSince, cfWanted, cfDisturbed>>

(* It fails; an array changed in place stays as it is.                     *)
WriteRejected(r) ==
  /\ cfPc[r] = "write"
  /\ Step(r, "done")
  /\ cfDisturbed' = TRUE
  /\ UNCHANGED <<cfRow, cfHeap, cfCache, cfCall, cfArray, cfSent, cfSince, cfWanted>>

(* Mutant: a request that did not read the settings leaves the entry.      *)
CachedAfterStale(r) == IF cfArray[r] = NoArray THEN cfCache ELSE cfArray[r]

(* set caches its array; remove and, by ModuleConfig.invalidate, the       *)
(* page's request drop the entry.                                          *)
CachedAfter(r) == cfArray[r]

(* What a call sets: initSettings all, setSetting one, a page the one it   *)
(* changed and, to what they were, those that changed since it was loaded. *)
Sets(r) == IF r = 1 THEN Names ELSE {cfCall[r].name} \cup cfSince[r]

WriteDone(r) ==
  /\ cfPc[r] = "written"
  /\ cfCache' = CachedAfter(r)
  /\ cfWanted' = [n \in Names |-> IF n \in Sets(r) THEN cfSent[r][n] ELSE cfWanted[n]]
  /\ cfSince' = [q \in Configs |-> IF cfPc[q] = "loaded" THEN cfSince[q] \cup Sets(r) ELSE cfSince[q]]
  /\ Step(r, "done")
  /\ UNCHANGED <<cfRow, cfHeap, cfCall, cfArray, cfSent, cfDisturbed>>

Lapses == cfCache # NoArray

(* CONFIG_CACHE_TTL_MS is over.                                            *)
ConfigExpires ==
  /\ Lapses
  /\ cfCache' = NoArray
  /\ UNCHANGED <<cfRow, cfHeap, cfPc, cfCall, cfArray, cfSent, cfSince, cfWanted, cfDisturbed>>

ConfigStep(r) ==
  GetCached(r) \/ GetSelect(r) \/ GetFilled(r) \/ DbUpsert(r) \/ WriteRejected(r) \/ WriteDone(r)

ConfigNext ==
  ConfigExpires \/ \E r \in Configs : ConfigCall(r) \/ PageLoads(r) \/ PageSaves(r) \/ ConfigStep(r)

ConfigSpec == ConfigInit /\ [][ConfigNext]_configVars
-----------------------------------------------------------------------------
(* Properties.                                                             *)

(* Calls that do not overlap and do not fail: the row holds the value last *)
(* set of every setting, whoever set it, and the cache agrees with it.     *)
(* The one exception is a page that is saved: what was set since it was    *)
(* loaded it puts back, and no other setting.  Both fail when calls        *)
(* overlap: an older array may be cached, and the next setSetting stores   *)
(* it whole.                                                               *)
SettingsKept ==
  ~cfDisturbed /\ Open(cfPc) = {} =>
    cfRow = cfWanted /\ (cfCache # NoArray => cfHeap[cfCache] = cfRow)
=============================================================================
