----------------------------- MODULE ConfigStore -----------------------------
(***************************************************************************)
(* The configuration of the server: config.json and its copy in memory     *)
(* (utils/config.ts), the first setup of the password, logins and sessions *)
(* (controllers/setup.ts, controllers/auth.ts, middlewares/auth.ts), and   *)
(* the requests that change the other fields (controllers/settings.ts,     *)
(* controllers/notifications.ts).                                          *)
(*                                                                         *)
(* A user is the password she types.  The other fields are one number, the *)
(* change they come from: 0 is the default.  bcrypt runs outside the event *)
(* loop; the file is read and written by synchronous calls, which a crash  *)
(* or a full disk may cut short.                                           *)
(***************************************************************************)
EXTENDS Naturals, FiniteSets

CONSTANTS
  Users,        \* users, with a password each
  NoPassword,   \* the password before the setup
  NoFile,       \* there is no config.json, or no copy in memory
  Broken,       \* config.json is cut short
  MaxChanges,   \* bound: changes of the other fields
  MaxStoreFaults     \* bound: crashes, and reads or writes that fail

(* keys: whether a key of DEFAULT_CONFIG is missing.                         *)
Config == [password : Users \cup {NoPassword}, fields : 0..MaxChanges, keys : {"all", "some"}]
DEFAULT_CONFIG == [password |-> NoPassword, fields |-> 0, keys |-> "all"]

ASSUME ConfigStoreAssumption ==
  /\ NoPassword \notin Users /\ MaxChanges \in Nat /\ MaxStoreFaults \in Nat
  /\ NoFile # Broken /\ NoFile \notin Config /\ Broken \notin Config

VARIABLES
  csFile,     \* config.json
  csCached,   \* cachedConfig
  csUp,       \* the process runs
  csSessions, \* users with an authenticated session
  csUser,     \* where each user is: a setup or a login under way
  csHash,     \* the hash a login compares with
  csChanges,  \* changes so far
  csFaults,   \* faults so far
  csAcked,    \* for the properties: password and fields last acknowledged
  csReset,    \* for the properties: a readable file was overwritten by defaults
  csRaced     \* for the properties: two setups overlapped

csVars == <<csFile, csCached, csUp, csSessions, csUser, csHash, csChanges, csFaults,
            csAcked, csReset, csRaced>>

(* The first start, or the start of a newer version over an old file.      *)
ConfigStoreInit ==
  /\ csFile \in {NoFile} \cup {[password |-> u, fields |-> 0, keys |-> "some"] : u \in Users}
  /\ csCached = NoFile /\ csUp = FALSE
  /\ csSessions = {} /\ csUser = [u \in Users |-> "idle"]
  /\ csHash = [u \in Users |-> NoPassword]
  /\ csChanges = 0 /\ csFaults = 0
  /\ csAcked = IF csFile = NoFile THEN DEFAULT_CONFIG ELSE [csFile EXCEPT !.keys = "all"]
  /\ csReset = FALSE /\ csRaced = FALSE

StoreFault == csFaults < MaxStoreFaults /\ csFaults' = csFaults + 1

-----------------------------------------------------------------------------
(* Reading and writing the file.                                           *)

Readable == csFile \notin {NoFile, Broken}

Backfilled(file) == [file EXCEPT !.keys = "all"]

(* initConfig, readConfigFromDisk: defaults when there is no file or it    *)
(* cannot be parsed; missing keys are added and the file is rewritten.     *)
Loaded == IF Readable THEN Backfilled(csFile) ELSE DEFAULT_CONFIG

StartStore ==
  /\ ~csUp /\ csUp' = TRUE
  /\ csCached' = Loaded /\ csFile' = Loaded
  /\ UNCHANGED <<csSessions, csUser, csHash, csChanges, csFaults, csAcked, csReset, csRaced>>

(* The file is fine but reading it, or adding the missing keys, fails: the *)
(* catch takes this for invalid JSON and resets the file.                  *)
StartResets ==
  /\ ~csUp /\ csUp' = TRUE /\ Readable /\ StoreFault
  /\ csCached' = DEFAULT_CONFIG /\ csFile' = DEFAULT_CONFIG
  /\ csReset' = TRUE
  /\ UNCHANGED <<csSessions, csUser, csHash, csChanges, csAcked, csRaced>>

(* The defaults are written in place, and the process dies within.         *)
StartCut ==
  /\ ~csUp /\ ~Readable /\ StoreFault
  /\ csFile' = Broken
  /\ UNCHANGED <<csCached, csUp, csSessions, csUser, csHash, csChanges, csAcked, csReset, csRaced>>

(* Mutant: the file is written in place.                                   *)
CutInPlace == Broken

(* writeConfigToDisk cut short: only the temporary file is touched before  *)
(* the rename.                                                             *)
Cut == csFile

Crash ==
  /\ csUp /\ StoreFault
  /\ csUp' = FALSE /\ csCached' = NoFile
  /\ csSessions' = {} /\ csUser' = [u \in Users |-> "idle"]

CrashAnywhere ==
  /\ Crash
  /\ UNCHANGED <<csFile, csHash, csChanges, csAcked, csReset, csRaced>>

(* updateConfig with config c: written, failed or cut by a crash.  The     *)
(* copy in memory changes first.                                           *)
UpdateWritten(c) == csCached' = c /\ csFile' = c /\ UNCHANGED csFaults
UpdateFails(c) == csCached' = c /\ csFile' = Cut /\ StoreFault
UpdateCrashes(c) == csFile' = Cut /\ Crash

-----------------------------------------------------------------------------
(* Setup and login.                                                        *)

User(u, to) == csUser' = [csUser EXCEPT ![u] = to]

SetupOpen == csCached.password = NoPassword

(* setupPassword: no password is set yet, and bcrypt starts.               *)
SetupPassword(u) ==
  /\ csUp /\ csUser[u] = "idle" /\ SetupOpen
  /\ User(u, "hashing")
  /\ csRaced' = (csRaced \/ \E v \in Users \ {u} : csUser[v] = "hashing")
  /\ UNCHANGED <<csFile, csCached, csUp, csSessions, csHash, csChanges, csFaults, csAcked, csReset>>

WithPassword(u) == [csCached EXCEPT !.password = u]

(* Its callback, without a second look at the password.                    *)
PasswordHashed(u) ==
  /\ csUp /\ csUser[u] = "hashing"
  /\ UpdateWritten(WithPassword(u))
  /\ csSessions' = csSessions \cup {u}
  /\ csAcked' = [csAcked EXCEPT !.password = u]
  /\ User(u, "idle")
  /\ UNCHANGED <<csUp, csHash, csChanges, csReset, csRaced>>

(* The write throws out of the callback, which only uncaughtException      *)
(* sees: no answer, no session, but the password holds in memory.          *)
PasswordNotStored(u) ==
  /\ csUp /\ csUser[u] = "hashing"
  /\ UpdateFails(WithPassword(u))
  /\ User(u, "idle")
  /\ UNCHANGED <<csUp, csSessions, csHash, csChanges, csAcked, csReset, csRaced>>

CrashInSetup(u) ==
  /\ csUser[u] = "hashing"
  /\ UpdateCrashes(WithPassword(u))
  /\ UNCHANGED <<csHash, csChanges, csAcked, csReset, csRaced>>

(* login: the hash is read, then compared.                                 *)
Login(u) ==
  /\ csUp /\ csUser[u] = "idle" /\ csCached.password # NoPassword
  /\ csHash' = [csHash EXCEPT ![u] = csCached.password]
  /\ User(u, "comparing")
  /\ UNCHANGED <<csFile, csCached, csUp, csSessions, csChanges, csFaults, csAcked, csReset, csRaced>>

LetIn(u) == IF csHash[u] = u THEN csSessions \cup {u} ELSE csSessions

Compared(u) ==
  /\ csUp /\ csUser[u] = "comparing"
  /\ csSessions' = LetIn(u)
  /\ csHash' = [csHash EXCEPT ![u] = NoPassword]
  /\ User(u, "idle")
  /\ UNCHANGED <<csFile, csCached, csUp, csChanges, csFaults, csAcked, csReset, csRaced>>

LogOut(u) ==
  /\ csUp /\ u \in csSessions
  /\ csSessions' = csSessions \ {u}
  /\ UNCHANGED <<csFile, csCached, csUp, csUser, csHash, csChanges, csFaults, csAcked, csReset, csRaced>>

-----------------------------------------------------------------------------
(* Changes of the other fields: updateSettings, the regenerated keys and   *)
(* updateNotificationService, all behind requireAuth and in one step.  The *)
(* provider's entry is changed in place in the copy in memory before       *)
(* config.set, so a write that fails leaves the same copy either way.      *)

FieldsChanged == [csCached EXCEPT !.fields = csChanges + 1]

MayChange ==
  /\ csUp /\ csSessions # {} /\ csChanges < MaxChanges
  /\ csChanges' = csChanges + 1

ChangeSettings ==
  /\ MayChange
  /\ UpdateWritten(FieldsChanged)
  /\ csAcked' = [csAcked EXCEPT !.fields = csChanges + 1]
  /\ UNCHANGED <<csUp, csSessions, csUser, csHash, csReset, csRaced>>

ChangeFails ==
  /\ MayChange
  /\ UpdateFails(FieldsChanged)
  /\ UNCHANGED <<csUp, csSessions, csUser, csHash, csAcked, csReset, csRaced>>

CrashInChange ==
  /\ MayChange
  /\ UpdateCrashes(FieldsChanged)
  /\ UNCHANGED <<csHash, csAcked, csReset, csRaced>>

(* gracefulShutdown("RESTART"): sessions live in memory.                   *)
RestartStore ==
  /\ csUp /\ csSessions # {}
  /\ csUp' = FALSE /\ csCached' = NoFile
  /\ csSessions' = {} /\ csUser' = [u \in Users |-> "idle"]
  /\ UNCHANGED <<csFile, csHash, csChanges, csFaults, csAcked, csReset, csRaced>>

ConfigStoreNext ==
  \/ StartStore \/ StartResets \/ StartCut \/ CrashAnywhere \/ RestartStore
  \/ ChangeSettings \/ ChangeFails \/ CrashInChange
  \/ \E u \in Users :
       \/ SetupPassword(u) \/ PasswordHashed(u) \/ PasswordNotStored(u) \/ CrashInSetup(u)
       \/ Login(u) \/ Compared(u) \/ LogOut(u)

ConfigStoreSpec == ConfigStoreInit /\ [][ConfigStoreNext]_csVars
-----------------------------------------------------------------------------
(* Properties.                                                             *)

(* What a request was told is saved is never undone by a crash, a restart  *)
(* or a write that fails: file and memory hold it or a change tried after  *)
(* it - unless StartResets threw the whole file away.                      *)
AckedConfigKept ==
  ~csReset =>
    /\ csAcked # DEFAULT_CONFIG => Readable /\ csFile.fields >= csAcked.fields
    /\ csUp => csCached.fields >= csAcked.fields
    /\ csAcked.password # NoPassword /\ Readable => csFile.password # NoPassword

(* Once the setup was acknowledged the password stands and setup stays     *)
(* closed - unless two first visitors typed theirs at the same time, when  *)
(* the second silently replaces the first, or the file was reset.          *)
PasswordStands ==
  ~csReset /\ ~csRaced /\ csAcked.password # NoPassword =>
    /\ Readable => csFile.password = csAcked.password
    /\ csUp => csCached.password = csAcked.password

(* An authenticated session belongs to the one whose password is set.      *)
SessionsKnowIt ==
  ~csReset /\ ~csRaced /\ csUp => \A u \in csSessions : csCached.password = u
=============================================================================
