--------------------------- MODULE ServicesProofs ---------------------------
(***************************************************************************)
(* Proofs about the services of the server that answer for themselves: the *)
(* configuration file and its sessions (ConfigStore), the storage of a     *)
(* module (ModuleStorage), its settings (ModuleConfig), the targets cache  *)
(* (TargetsCache), the scope (ScopeRules, ScopeFeed), the callbacks        *)
(* (Callbacks), the commands of an execution (TaskCommands), the session   *)
(* of a tab (WebSession) and the event metrics (Analytics).  Each has an   *)
(* invariant of its own, kept by every step of its component.              *)
(***************************************************************************)
EXTENDS ConfigStore, ModuleStorage, ModuleConfig, TargetsCache, ScopeRules, ScopeFeed,
        Callbacks, TaskCommands, WebSession, Analytics, ChoiceLemmas, TLAPS

-----------------------------------------------------------------------------
(***************************************************************************)
(* Proofs about ConfigStore: what was acknowledged survives, the password  *)
(* of the setup stands, and only the one who knows it has a session.       *)
(***************************************************************************)

ConfigStoreType ==
  /\ csFile \in Config \cup {NoFile, Broken}
  /\ csCached \in Config \cup {NoFile}
  /\ csSessions \subseteq Users
  /\ csUser \in [Users -> {"idle", "hashing", "comparing"}]
  /\ csHash \in [Users -> Users \cup {NoPassword}]
  /\ csChanges \in 0..MaxChanges
  /\ csFaults \in Nat
  /\ csAcked \in Config

(* While the process runs there is a copy in memory; while it does not,    *)
(* nobody has a session and no request is under way.                       *)
UpOrEmpty ==
  /\ csUp => csCached \in Config
  /\ ~csUp => csSessions = {} /\ \A u \in Users : csUser[u] = "idle"

(* AckedConfigKept does not say enough of the copy in memory, which the    *)
(* next write puts into the file.                                          *)
MemoryKeepsAcked ==
  /\ csAcked.keys = "all" /\ csAcked.fields <= csChanges
  /\ ~csReset /\ csUp /\ csAcked.password # NoPassword => csCached.password # NoPassword

(* A single setup is under way, and no password is set before it ends.     *)
SetupAlone ==
  ~csRaced => \A u \in Users : csUser[u] = "hashing" =>
    /\ csCached.password = NoPassword
    /\ \A v \in Users \ {u} : csUser[v] # "hashing"

(* A login compares with the password that is set.                         *)
LoginCurrent ==
  ~csRaced => \A u \in Users : csUser[u] = "comparing" =>
    csHash[u] = csCached.password /\ csHash[u] # NoPassword

StoreInv ==
  /\ ConfigStoreType /\ UpOrEmpty /\ MemoryKeepsAcked /\ SetupAlone /\ LoginCurrent
  /\ AckedConfigKept /\ PasswordStands /\ SessionsKnowIt

(* What is needed of a configuration, so that Config stays unexpanded.     *)
LEMMA ConfigFacts ==
  /\ DEFAULT_CONFIG \in Config
  /\ DEFAULT_CONFIG.password = NoPassword /\ DEFAULT_CONFIG.fields = 0
  /\ DEFAULT_CONFIG.keys = "all"
  /\ \A c \in Config :
       /\ c.password \in Users \cup {NoPassword} /\ c.fields \in 0..MaxChanges
       /\ Backfilled(c) \in Config /\ Backfilled(c).keys = "all"
       /\ Backfilled(c).password = c.password /\ Backfilled(c).fields = c.fields
       /\ c.password = NoPassword /\ c.fields = 0 /\ c.keys = "all" => c = DEFAULT_CONFIG
<1>1. /\ DEFAULT_CONFIG \in Config
      /\ DEFAULT_CONFIG.password = NoPassword /\ DEFAULT_CONFIG.fields = 0
      /\ DEFAULT_CONFIG.keys = "all"
  BY ConfigStoreAssumption, SMT DEF Config, DEFAULT_CONFIG
<1>2. ASSUME NEW c \in Config
      PROVE  /\ c.password \in Users \cup {NoPassword} /\ c.fields \in 0..MaxChanges
             /\ Backfilled(c) \in Config /\ Backfilled(c).keys = "all"
             /\ Backfilled(c).password = c.password /\ Backfilled(c).fields = c.fields
  BY SMT DEF Config, Backfilled
<1>3. ASSUME NEW c \in Config, c.password = NoPassword /\ c.fields = 0 /\ c.keys = "all"
      PROVE  c = DEFAULT_CONFIG
  BY <1>3, SMT DEF Config, DEFAULT_CONFIG
<1> QED BY <1>1, <1>2, <1>3

(* A new password, or new fields, in a configuration.                      *)
LEMMA PasswordFacts ==
  ASSUME NEW c \in Config, NEW u \in Users
  PROVE  LET d == [c EXCEPT !.password = u]
         IN d \in Config /\ d.password = u /\ d.fields = c.fields /\ d.keys = c.keys
BY SMT DEF Config

(* The same for the fields of a saved setting.                             *)
LEMMA FieldsFacts ==
  ASSUME NEW c \in Config, NEW n \in 0..MaxChanges
  PROVE  LET d == [c EXCEPT !.fields = n]
         IN d \in Config /\ d.password = c.password /\ d.fields = n /\ d.keys = c.keys
BY SMT DEF Config

(* The first start, and the start over an old file, satisfy it.            *)
LEMMA StoreInvInit == ConfigStoreInit => StoreInv
<1> SUFFICES ASSUME ConfigStoreInit PROVE StoreInv
  OBVIOUS
<1> USE ConfigStoreAssumption, ConfigFacts DEF ConfigStoreInit, StoreInv, ConfigStoreType,
      UpOrEmpty, MemoryKeepsAcked, SetupAlone, LoginCurrent,
      AckedConfigKept, PasswordStands, SessionsKnowIt, Readable
<1>1. CASE csFile = NoFile
  BY <1>1, SMT
<1>2. CASE csFile # NoFile
  <2>1. PICK u \in Users : csFile = [password |-> u, fields |-> 0, keys |-> "some"]
    BY <1>2
  <2>2. csFile \in Config /\ csFile.password = u /\ csFile.fields = 0
    BY <2>1, SMT DEF Config
  <2>3. csAcked = Backfilled(csFile)
    BY <1>2 DEF Backfilled
  <2> QED BY <2>2, <2>3, SMT
<1> QED BY <1>1, <1>2

(* Every step of the server preserves it.                                  *)
LEMMA StoreInvNext == StoreInv /\ [ConfigStoreNext]_csVars => StoreInv'
<1> SUFFICES ASSUME StoreInv, [ConfigStoreNext]_csVars PROVE StoreInv'
  OBVIOUS
<1> USE ConfigStoreAssumption, ConfigFacts
    DEF StoreInv, ConfigStoreType, UpOrEmpty, MemoryKeepsAcked, SetupAlone, LoginCurrent,
        AckedConfigKept, PasswordStands, SessionsKnowIt, Readable
<1>1. CASE StartStore
  BY <1>1, SMTT(30) DEF StartStore, Loaded
<1>2. CASE StartResets
  BY <1>2, SMTT(30) DEF StartResets, StoreFault
<1>3. CASE StartCut
  BY <1>3, SMTT(30) DEF StartCut, StoreFault
<1>4. CASE CrashAnywhere
  BY <1>4, SMTT(30) DEF CrashAnywhere, Crash, StoreFault
<1>5. CASE RestartStore
  BY <1>5, SMTT(30) DEF RestartStore
<1>6. CASE MayChange /\ (ChangeSettings \/ ChangeFails \/ CrashInChange)
  <2>1. csCached \in Config /\ csChanges + 1 \in 0..MaxChanges /\ csChanges' = csChanges + 1
    BY <1>6, SMT DEF MayChange
  <2>2. /\ FieldsChanged \in Config /\ FieldsChanged.password = csCached.password
        /\ FieldsChanged.fields = csChanges + 1
    BY <2>1, FieldsFacts DEF FieldsChanged
  <2>3. /\ [csAcked EXCEPT !.fields = csChanges + 1] \in Config
        /\ [csAcked EXCEPT !.fields = csChanges + 1].password = csAcked.password
        /\ [csAcked EXCEPT !.fields = csChanges + 1].fields = csChanges + 1
        /\ [csAcked EXCEPT !.fields = csChanges + 1].keys = csAcked.keys
    BY <2>1, FieldsFacts
  <2>4. CASE ChangeSettings
    BY <1>6, <2>1, <2>2, <2>3, <2>4, SMTT(30) DEF ChangeSettings, MayChange, UpdateWritten
  <2>5. CASE ChangeFails
    BY <1>6, <2>1, <2>2, <2>5, SMTT(30) DEF ChangeFails, MayChange, UpdateFails, Cut, StoreFault
  <2>6. CASE CrashInChange
    BY <1>6, <2>1, <2>6, SMTT(30)
       DEF CrashInChange, MayChange, UpdateCrashes, Cut, Crash, StoreFault
  <2> QED BY <1>6, <2>4, <2>5, <2>6
<1>7. ASSUME NEW u \in Users, SetupPassword(u) PROVE StoreInv'
  <2>1. ~csRaced' => ~csRaced /\ \A v \in Users \ {u} : csUser[v] # "hashing"
    BY <1>7, Zenon DEF SetupPassword
  <2>2. /\ csUp /\ csCached.password = NoPassword /\ csUser' = [csUser EXCEPT ![u] = "hashing"]
        /\ UNCHANGED <<csFile, csCached, csUp, csSessions, csHash, csChanges, csFaults, csAcked,
                       csReset>>
    BY <1>7 DEF SetupPassword, SetupOpen, User
  <2> QED BY <2>1, <2>2, SMTT(30)
<1>8. ASSUME NEW u \in Users, PasswordHashed(u) \/ PasswordNotStored(u) PROVE StoreInv'
  <2>1. csCached \in Config
    BY <1>8 DEF PasswordHashed, PasswordNotStored
  <2>2. /\ WithPassword(u) \in Config /\ WithPassword(u).password = u
        /\ WithPassword(u).fields = csCached.fields
    BY <2>1, PasswordFacts DEF WithPassword
  <2>3. /\ [csAcked EXCEPT !.password = u] \in Config
        /\ [csAcked EXCEPT !.password = u].password = u
        /\ [csAcked EXCEPT !.password = u].fields = csAcked.fields
        /\ [csAcked EXCEPT !.password = u].keys = csAcked.keys
    BY PasswordFacts
  <2>4. CASE PasswordHashed(u)
    BY <2>1, <2>2, <2>3, <2>4, SMTT(30) DEF PasswordHashed, UpdateWritten, User
  <2>5. CASE PasswordNotStored(u)
    BY <2>1, <2>2, <2>5, SMTT(30) DEF PasswordNotStored, UpdateFails, User, Cut, StoreFault
  <2> QED BY <1>8, <2>4, <2>5
<1>9. ASSUME NEW u \in Users, CrashInSetup(u) PROVE StoreInv'
  BY <1>9, SMTT(30) DEF CrashInSetup, UpdateCrashes, Cut, Crash, StoreFault
<1>10. ASSUME NEW u \in Users, Login(u) PROVE StoreInv'
  BY <1>10, SMTT(30) DEF Login, User
<1>11. ASSUME NEW u \in Users, Compared(u) PROVE StoreInv'
  BY <1>11, SMTT(30) DEF Compared, LetIn, User
<1>12. ASSUME NEW u \in Users, LogOut(u) PROVE StoreInv'
  BY <1>12, SMTT(30) DEF LogOut
<1>13. CASE UNCHANGED csVars
  BY <1>13, SMTT(30) DEF csVars
<1> HIDE DEF StoreInv
<1> QED
  BY <1>1, <1>2, <1>3, <1>4, <1>5, <1>6, <1>7, <1>8, <1>9, <1>10, <1>11, <1>12, <1>13
  DEF ConfigStoreNext, ChangeSettings, ChangeFails, CrashInChange

(* So it holds always.                                                     *)
LEMMA StoreInvAlways == ConfigStoreSpec => []StoreInv
BY StoreInvInit, StoreInvNext, PTL DEF ConfigStoreSpec

(* Neither a crash, a restart nor a failed write undoes what a request was *)
(* told is saved (utils/config.ts: the temporary file and the rename).     *)
THEOREM AckedConfigAlwaysKept == ConfigStoreSpec => []AckedConfigKept
<1>1. StoreInv => AckedConfigKept
  BY DEF StoreInv
<1> QED BY <1>1, StoreInvAlways, PTL

(* The acknowledged setup closes the setup for good (controllers/setup.ts).*)
THEOREM PasswordAlwaysStands == ConfigStoreSpec => []PasswordStands
<1>1. StoreInv => PasswordStands
  BY DEF StoreInv
<1> QED BY <1>1, StoreInvAlways, PTL

(* A session is only ever given to the one whose password is set, though   *)
(* bcrypt compares while other requests are answered (controllers/auth.ts).*)
THEOREM SessionsAlwaysKnowIt == ConfigStoreSpec => []SessionsKnowIt
<1>1. StoreInv => SessionsKnowIt
  BY DEF StoreInv
<1> QED BY <1>1, StoreInvAlways, PTL

-----------------------------------------------------------------------------
(***************************************************************************)
(* Proof about ModuleStorage: an outermost call of transaction is stored   *)
(* whole or not at all, however calls nest and whatever fails.             *)
(***************************************************************************)

StorageType ==
  /\ sqlStored \subseteq DOMAIN statementOf /\ sqlPending \subseteq DOMAIN statementOf
  /\ storageStack \in Seq({"outer", "inline"})
  /\ storageCalls \in Nat
  /\ statementOf \in Seq(0..storageCalls)
  /\ callEnded \in Seq({"open", "returned", "threw"}) /\ Len(callEnded) = storageCalls

(* Only the outermost call can be the one that began the transaction; if   *)
(* it is not, an earlier BEGIN failed.                                     *)
StackShape ==
  /\ storageStack # <<>> => inTransaction /\ storageCalls > 0
  /\ \A i \in DOMAIN storageStack : i > 1 => storageStack[i] = "inline"
  /\ storageStack # <<>> /\ storageStack[1] = "inline" =>
       storageCalls \in unprotected /\ NoCall \in unprotected
  /\ storageStack = <<>> /\ inTransaction => NoCall \in unprotected

(* SQLite's transaction belongs to the outermost call under way, and holds *)
(* what that call executed and nothing else.                               *)
TransactionShape ==
  /\ sqlBegun => storageStack # <<>> /\ storageStack[1] = "outer"
  /\ ~sqlBegun => sqlPending = {}
  /\ \A n \in sqlPending : statementOf[n] = storageCalls
  /\ storageStack # <<>> /\ storageCalls \notin unprotected =>
       sqlBegun /\ StatementsOf(storageCalls) \subseteq sqlPending

(* Every call but the one under way has ended.                             *)
EndedShape ==
  \A c \in 1..storageCalls :
    callEnded[c] = "open" <=> (c = storageCalls /\ storageStack # <<>>)

StorageInv == StorageType /\ StackShape /\ TransactionShape /\ EndedShape /\ TransactionsAtomic

(* No call of transaction has been made yet.                               *)
LEMMA StorageInvInit == StorageInit => StorageInv
BY SMT DEF StorageInit, StorageInv, StorageType, StackShape, TransactionShape, EndedShape,
           TransactionsAtomic, StatementsOf, NoCall

(* A number of calls that is not zero is one or more.                      *)
LEMMA OneOrMore == ASSUME NEW n \in Nat, n # 0 PROVE n = 1 \/ n > 1
BY SMT

(* The length of a sequence that is not empty.                             *)
LEMMA LenFacts ==
  ASSUME NEW S, NEW s \in Seq(S), s # <<>>
  PROVE  Len(s) \in Nat /\ Len(s) > 0 /\ (Len(s) = 1 \/ Len(s) > 1)
<1>1. Len(s) \in Nat /\ Len(s) # 0
  BY SMT
<1>2. Len(s) > 0
  BY SMT
<1>3. Len(s) = 1 \/ Len(s) > 1
  BY <1>1, OneOrMore
<1> QED BY <1>1, <1>2, <1>3

(* What SubSeq leaves when the last element is dropped.                    *)
LEMMA WithoutLast ==
  ASSUME NEW S, NEW s \in Seq(S), s # <<>>
  PROVE  LET p == SubSeq(s, 1, Len(s) - 1)
         IN /\ p \in Seq(S) /\ Len(p) = Len(s) - 1
            /\ \A i \in 1..(Len(s) - 1) : p[i] = s[i]
<1> DEFINE p == SubSeq(s, 1, Len(s) - 1)
<1>1. p \in Seq(S)
  BY SMT
<1>2. Len(p) = Len(s) - 1
  BY LenFacts, SMT
<1>3. \A i \in 1..(Len(s) - 1) : p[i] = s[i]
  BY LenFacts, SMT
<1> QED BY <1>1, <1>2, <1>3

(* The rest is empty exactly when there was one element, and begins alike. *)
LEMMA FirstOfFront ==
  ASSUME NEW S, NEW s \in Seq(S), s # <<>>, NEW p \in Seq(S), Len(p) = Len(s) - 1,
         \A i \in 1..(Len(s) - 1) : p[i] = s[i]
  PROVE  /\ p = <<>> <=> Len(s) = 1
         /\ p # <<>> => p[1] = s[1]
BY LenFacts, SMT

(* If all calls above the bottom are inline, another one is the bottom.    *)
LEMMA OuterIsBottom ==
  ASSUME NEW S, NEW s \in Seq(S), s # <<>>,
         \A i \in DOMAIN s : i > 1 => s[i] = "inline", s[Len(s)] # "inline"
  PROVE  Len(s) = 1
BY LenFacts, SMT

(* The stack without its top.                                              *)
LEMMA PoppedFacts ==
  ASSUME StorageInv, storageStack # <<>>
  PROVE  /\ Popped \in Seq({"outer", "inline"}) /\ Len(Popped) = Len(storageStack) - 1
         /\ \A i \in 1..(Len(storageStack) - 1) : Popped[i] = storageStack[i]
         /\ Popped = <<>> <=> Len(storageStack) = 1
         /\ Popped # <<>> => Popped[1] = storageStack[1]
         /\ Top = "outer" => Popped = <<>>
         /\ Top = "inline" /\ storageStack[1] = "outer" => Popped # <<>>
<1>0. storageStack \in Seq({"outer", "inline"})
  BY DEF StorageInv, StorageType
<1>1. /\ Popped \in Seq({"outer", "inline"}) /\ Len(Popped) = Len(storageStack) - 1
      /\ \A i \in 1..(Len(storageStack) - 1) : Popped[i] = storageStack[i]
  BY <1>0, WithoutLast DEF Popped
<1>2. /\ Popped = <<>> <=> Len(storageStack) = 1
      /\ Popped # <<>> => Popped[1] = storageStack[1]
  BY <1>0, <1>1, FirstOfFront
<1>3. Top = "outer" => Len(storageStack) = 1
  <2>1. \A i \in DOMAIN storageStack : i > 1 => storageStack[i] = "inline"
    BY DEF StorageInv, StackShape
  <2>2. Top = "outer" => storageStack[Len(storageStack)] # "inline"
    BY DEF Top
  <2> QED BY <1>0, <2>1, <2>2, OuterIsBottom
<1>4. Top = "inline" /\ storageStack[1] = "outer" => Len(storageStack) # 1
  BY DEF Top
<1> QED BY <1>1, <1>2, <1>3, <1>4

(* Every step preserves the invariant.                                     *)
LEMMA StorageInvNext == StorageInv /\ [StorageNext]_storageVars => StorageInv'
<1> SUFFICES ASSUME StorageInv, [StorageNext]_storageVars PROVE StorageInv'
  OBVIOUS
<1> USE DEF StorageInv, StorageType, StackShape, TransactionShape, EndedShape,
            TransactionsAtomic, StatementsOf, NoCall
<1>1. CASE Execute
  BY <1>1, SMTT(30) DEF Execute
<1>2. CASE TransactionInline
  BY <1>2, SMTT(30) DEF TransactionInline, CallTransaction
<1>3. CASE TransactionBegins
  BY <1>3, SMTT(30) DEF TransactionBegins, CallTransaction
<1>4. CASE BeginFails
  BY <1>4, SMTT(30) DEF BeginFails, SqlFault
<1>5. CASE SqlRollsBack
  BY <1>5, SMTT(30) DEF SqlRollsBack, SqlFault
<1>6. CASE InlineEnds
  <2>1. PICK how \in {"returned", "threw"} : Ended(how)
    BY <1>6 DEF InlineEnds
  <2>2. storageStack' = Popped /\ storageStack # <<>> /\ Top = "inline"
    BY <1>6, <2>1 DEF InlineEnds, Ended
  <2>3. CASE Popped = <<>>
    BY <1>6, <2>1, <2>2, <2>3, PoppedFacts, SMTT(30) DEF InlineEnds, Ended
  <2>4. CASE Popped # <<>>
    <3>1. callEnded' = callEnded
      BY <2>1, <2>4 DEF Ended
    <3>2. /\ Popped \in Seq({"outer", "inline"}) /\ Popped[1] = storageStack[1]
          /\ \A i \in DOMAIN Popped : i > 1 => Popped[i] = "inline"
      <4>1. \A i \in 1..(Len(storageStack) - 1) : i > 1 => storageStack[i] = "inline"
        BY SMT
      <4>2. DOMAIN Popped = 1..(Len(storageStack) - 1)
        BY <2>2, PoppedFacts, SMT
      <4> QED BY <2>2, <2>4, <4>1, <4>2, PoppedFacts, Zenon
    <3>3. StorageType' /\ EndedShape'
      BY <1>6, <2>2, <2>4, <3>1, <3>2, SMT DEF InlineEnds
    <3>4. StackShape'
      BY <1>6, <2>2, <2>4, <3>2, SMT DEF InlineEnds
    <3>5. TransactionShape' /\ TransactionsAtomic'
      BY <1>6, <2>2, <2>4, <3>1, <3>2, SMT DEF InlineEnds
    <3> QED BY <3>3, <3>4, <3>5
  <2> QED BY <2>3, <2>4
<1>7. CASE Commits
  <2>1. Popped = <<>> /\ storageStack # <<>>
    BY <1>7, PoppedFacts DEF Commits
  <2>2. /\ storageStack' = <<>>
        /\ callEnded' = [callEnded EXCEPT ![storageCalls] = "returned"]
    BY <1>7, <2>1 DEF Commits, Ended
  <2> QED BY <1>7, <2>1, <2>2, SMTT(30) DEF Commits
<1>8. CASE RollsBack
  <2>1. Popped = <<>> /\ storageStack # <<>>
    BY <1>8, PoppedFacts DEF RollsBack
  <2>2. /\ storageStack' = <<>>
        /\ callEnded' = [callEnded EXCEPT ![storageCalls] = "threw"]
    BY <1>8, <2>1 DEF RollsBack, Ended
  <2> QED BY <1>8, <2>1, <2>2, SMTT(30) DEF RollsBack, AfterThrow
<1>9. CASE StorageCloses
  BY <1>9, SMTT(30) DEF StorageCloses
<1>10. CASE StorageReopens
  BY <1>10, SMTT(30) DEF StorageReopens, SqlFault
<1>11. CASE UNCHANGED storageVars
  BY <1>11, SMTT(30) DEF storageVars
<1> QED
  BY <1>1, <1>2, <1>3, <1>4, <1>5, <1>6, <1>7, <1>8, <1>9, <1>10, <1>11 DEF StorageNext

(* Whatever a call of transaction executed, with everything nested in it,  *)
(* is committed with it or vanishes with it (moduleStorage.ts transaction).*)
THEOREM TransactionsAlwaysAtomic == StorageSpec => []TransactionsAtomic
<1>1. StorageInv => TransactionsAtomic
  BY DEF StorageInv
<1> QED BY <1>1, StorageInvInit, StorageInvNext, PTL DEF StorageSpec

-----------------------------------------------------------------------------
(***************************************************************************)
(* ModuleConfig: the settings of one module.                               *)
(***************************************************************************)
Content == [Names -> Values \cup {Absent}]

SettingsType ==
  /\ cfRow \in Content /\ cfWanted \in Content
  /\ cfHeap \in [Arrays -> Content] /\ cfCache \in Arrays
  /\ cfPc \in [Configs -> {"idle", "loaded", "get", "selected", "write", "written", "done"}]
  /\ cfArray \in [Configs -> Arrays] /\ cfSent \in [Configs -> Content]
  /\ cfCall \in [Configs -> [kind : {"init", "set", "page"}, name : Names \cup {CHOOSE n \in Names : TRUE},
                             value : Values, names : SUBSET Names]]
  /\ cfSince \in [Configs -> SUBSET Names] /\ cfDisturbed \in BOOLEAN

(* What a call has at each step.                                           *)
CallShape(r) ==
  /\ cfPc[r] \in {"idle", "loaded", "get"} => cfArray[r] = NoArray
  /\ cfPc[r] = "selected" => cfArray[r] # NoArray
  /\ cfPc[r] = "loaded" => r # 1
  /\ cfPc[r] \notin {"idle", "loaded"} => cfCall[r].name \in Names /\ (cfCall[r].kind = "init" <=> r = 1)
  /\ cfPc[r] \in {"get", "selected"} => cfCall[r].kind # "page"

Busy(r) == cfPc[r] \notin {"idle", "loaded", "done"}
Sending(r) == cfPc[r] \in {"write", "written"}

(* What a call sends is what it will have cached, and differs from what    *)
(* was wanted by the settings it sets.                                     *)
SendsOne(r) ==
  /\ cfArray[r] # NoArray => cfHeap[cfArray[r]] = cfSent[r]
  /\ \A n \in Names : n \in Sets(r) \/ cfSent[r][n] = cfWanted[n]

(* A page shows what is wanted, but for what changed since it was loaded   *)
(* and what the call that wrote the row, and is not done yet, sets.        *)
ShowsWanted(r) ==
  \A n \in Names :
    \/ n \in cfSince[r] \/ cfSent[r][n] = cfWanted[n]
    \/ \E q \in Configs : cfPc[q] = "written" /\ n \in Sets(q)

Orderly ==
  /\ \A q, r \in Configs : Busy(q) /\ Busy(r) => q = r
  /\ (\A r \in Configs : cfPc[r] # "written") => cfRow = cfWanted
  /\ (\A r \in Configs : ~Sending(r)) => (cfCache # NoArray => cfHeap[cfCache] = cfRow)
  /\ \A r \in Configs :
       /\ cfPc[r] = "selected" => cfHeap[cfArray[r]] = cfRow
       /\ Sending(r) => SendsOne(r)
       /\ cfPc[r] = "written" => cfRow = cfSent[r]
       /\ cfPc[r] = "loaded" => ShowsWanted(r)

SettingsInv ==
  /\ SettingsType
  /\ \A r \in Configs : CallShape(r)
  /\ ~cfDisturbed => Orderly

LEMMA SettingsInvInit == ConfigInit => SettingsInv
<1> SUFFICES ASSUME ConfigInit PROVE SettingsInv
  OBVIOUS
<1>1. Empty \in Content /\ cfRow \in Content
  BY ConfigAssumption DEF ConfigInit, Empty, Content
<1>2. NoArray \in Arrays
  BY ConfigAssumption DEF NoArray, Arrays
<1>3. SettingsType
  BY <1>1, <1>2, ConfigAssumption DEF ConfigInit, SettingsType
<1>4. Orderly
  BY DEF ConfigInit, Orderly, Busy, Sending
<1> QED BY <1>3, <1>4 DEF ConfigInit, SettingsInv, CallShape

(* The arrays of a call.                                                   *)
LEMMA OwnArrays ==
  ASSUME NEW r \in Configs
  PROVE  /\ r \in Nat /\ 2 * r \in Arrays /\ 2 * r - 1 \in Arrays
         /\ 2 * r # NoArray /\ 2 * r - 1 # NoArray
BY ConfigAssumption DEF Configs, Arrays, NoArray

LEMMA ConfigCallKeeps ==
  ASSUME SettingsInv, NEW r \in Configs, ConfigCall(r)
  PROVE  SettingsInv'
<1>1. PICK c \in Call, to \in {"get", "write"} :
        /\ c.kind = IF r = 1 THEN "init" ELSE "set"
        /\ cfCall' = [cfCall EXCEPT ![r] = c]
        /\ cfPc' = [cfPc EXCEPT ![r] = to]
        /\ to = "write" => r = 1
  BY DEF ConfigCall, Step
<1>2. /\ cfPc[r] = "idle" /\ cfDisturbed' = (cfDisturbed \/ Open(cfPc) # {})
      /\ UNCHANGED <<cfRow, cfHeap, cfCache, cfArray, cfSent, cfSince, cfWanted>>
  BY DEF ConfigCall, Comes
<1>3. /\ c.kind \in {"init", "set", "page"} /\ c.name \in Names /\ c.value \in Values /\ c.names \in SUBSET Names
      /\ c \in [kind : {"init", "set", "page"}, name : Names \cup {CHOOSE n \in Names : TRUE},
                value : Values, names : SUBSET Names]
  BY DEF Call
<1>4. SettingsType'
  BY <1>1, <1>2, <1>3 DEF SettingsInv, SettingsType
<1>5. /\ cfCall'[r] = c /\ cfPc'[r] = to /\ cfArray'[r] = NoArray
      /\ \A q \in Configs : q # r => cfCall'[q] = cfCall[q] /\ cfPc'[q] = cfPc[q]
  BY <1>1, <1>2 DEF SettingsInv, SettingsType, CallShape
<1>6. \A q \in Configs : CallShape(q)'
  <2>1. CallShape(r)'
    BY <1>1, <1>3, <1>5 DEF CallShape
  <2>2. ASSUME NEW q \in Configs, q # r PROVE CallShape(q)'
    BY <1>2, <1>5, <2>2 DEF SettingsInv, CallShape
  <2> QED BY <2>1, <2>2
<1>7. ASSUME ~cfDisturbed' PROVE Orderly'
  <2>1. ~cfDisturbed /\ Orderly /\ \A q \in Configs : ~Busy(q)
    BY <1>2, <1>7 DEF SettingsInv, SettingsType, Open, Busy
  <2>2. \A q \in Configs : cfPc[q] \in {"idle", "loaded", "done"}
    BY <2>1 DEF Busy
  <2>3. cfRow = cfWanted /\ (cfCache # NoArray => cfHeap[cfCache] = cfRow)
    BY <2>1, <2>2 DEF Orderly, Sending
  <2>4. to = "write" => SendsOne(r)'
    BY <1>1, <1>5 DEF SendsOne, Sets
  <2>5. \A q \in Configs : q # r => cfPc'[q] \in {"idle", "loaded", "done"}
    BY <1>5, <2>2
  <2>6. cfPc'[r] \in {"get", "write"}
    BY <1>5
  <2>7. \A q \in Configs : cfPc'[q] = "loaded" => ShowsWanted(q)'
    BY <1>2, <1>5, <2>1, <2>2, <2>6 DEF Orderly, ShowsWanted
  <2> QED BY <1>2, <1>5, <2>3, <2>4, <2>5, <2>6, <2>7 DEF Orderly, Busy, Sending
<1> QED BY <1>4, <1>6, <1>7 DEF SettingsInv

LEMMA PageLoadsKeeps ==
  ASSUME SettingsInv, NEW r \in Configs, PageLoads(r)
  PROVE  SettingsInv'
<1>1. /\ cfPc[r] = "idle" /\ r # 1
      /\ cfSent' = [cfSent EXCEPT ![r] = cfRow] /\ cfPc' = [cfPc EXCEPT ![r] = "loaded"]
      /\ UNCHANGED <<cfRow, cfHeap, cfCache, cfCall, cfArray, cfSince, cfWanted, cfDisturbed>>
  BY DEF PageLoads, Comes, Step
<1>2. SettingsType'
  BY <1>1 DEF SettingsInv, SettingsType
<1>3. /\ cfPc'[r] = "loaded" /\ cfSent'[r] = cfRow
      /\ \A q \in Configs : q # r => cfPc'[q] = cfPc[q] /\ cfSent'[q] = cfSent[q]
  BY <1>1 DEF SettingsInv, SettingsType
<1>4. \A q \in Configs : CallShape(q)'
  BY <1>1, <1>3 DEF SettingsInv, CallShape
<1>5. ASSUME ~cfDisturbed PROVE Orderly'
  <2>1. Orderly
    BY <1>5 DEF SettingsInv
  <2>2. \A q \in Configs : Sets(q)' = Sets(q) /\ (cfPc'[q] = "written" <=> cfPc[q] = "written")
    BY <1>1, <1>3 DEF Sets
  <2>3. ShowsWanted(r)'
    <3>1. CASE \E q \in Configs : cfPc[q] = "written"
      <4>1. PICK q \in Configs : cfPc[q] = "written"
        BY <3>1
      <4>2. cfRow = cfSent[q] /\ SendsOne(q)
        BY <2>1, <4>1 DEF Orderly, Sending
      <4> QED BY <1>1, <1>3, <2>2, <4>1, <4>2 DEF ShowsWanted, SendsOne
    <3>2. CASE \A q \in Configs : cfPc[q] # "written"
      BY <1>1, <1>3, <2>1, <3>2 DEF Orderly, ShowsWanted
    <3> QED BY <3>1, <3>2
  <2>4. \A q \in Configs : q # r /\ cfPc[q] = "loaded" => ShowsWanted(q)'
    BY <1>1, <1>3, <2>1, <2>2 DEF Orderly, ShowsWanted
  <2>5. \A q \in Configs : Sending(q)' => Sending(q) /\ SendsOne(q)'
    BY <1>1, <1>3, <2>1, <2>2 DEF Orderly, Sending, SendsOne
  <2>6. \A q \in Configs : (Busy(q)' <=> Busy(q)) /\ (Sending(q)' <=> Sending(q))
    BY <1>1, <1>3 DEF Busy, Sending
  <2> QED BY <1>1, <1>3, <2>1, <2>2, <2>3, <2>4, <2>5, <2>6 DEF Orderly
<1> QED BY <1>1, <1>2, <1>4, <1>5 DEF SettingsInv

LEMMA PageSavesKeeps ==
  ASSUME SettingsInv, NEW r \in Configs, PageSaves(r)
  PROVE  SettingsInv'
<1>1. PICK n \in Names, v \in Values :
        /\ cfCall' = [cfCall EXCEPT ![r] = [kind |-> "page", name |-> n, value |-> v, names |-> {}]]
        /\ cfSent' = [cfSent EXCEPT ![r][n] = v]
  BY DEF PageSaves
<1>2. /\ cfPc[r] = "loaded" /\ cfPc' = [cfPc EXCEPT ![r] = "write"] /\ r # 1
      /\ cfDisturbed' = (cfDisturbed \/ Open(cfPc) # {})
      /\ UNCHANGED <<cfRow, cfHeap, cfCache, cfArray, cfSince, cfWanted>>
  BY DEF PageSaves, Step, SettingsInv, CallShape
<1> DEFINE c == [kind |-> "page", name |-> n, value |-> v, names |-> {}]
           sent == [cfSent[r] EXCEPT ![n] = v]
<1>3. c \in [kind : {"init", "set", "page"}, name : Names \cup {CHOOSE m \in Names : TRUE},
            value : Values, names : SUBSET Names]
  OBVIOUS
<1>4. sent \in Content /\ \A m \in Names : m # n => sent[m] = cfSent[r][m]
  BY DEF SettingsInv, SettingsType, Content
<1>5. cfSent' = [cfSent EXCEPT ![r] = sent]
  BY <1>1
<1> HIDE DEF sent
<1>6. SettingsType'
  BY <1>1, <1>2, <1>3, <1>4, <1>5 DEF SettingsInv, SettingsType
<1>7. /\ cfCall'[r] = c /\ cfPc'[r] = "write" /\ cfSent'[r] = sent /\ cfArray'[r] = NoArray
      /\ \A q \in Configs : q # r => /\ cfCall'[q] = cfCall[q] /\ cfPc'[q] = cfPc[q]
                                     /\ cfSent'[q] = cfSent[q]
  BY <1>1, <1>2, <1>5 DEF SettingsInv, SettingsType, CallShape
<1>8. \A q \in Configs : CallShape(q)'
  <2>1. CallShape(r)'
    BY <1>2, <1>7 DEF CallShape
  <2>2. ASSUME NEW q \in Configs, q # r PROVE CallShape(q)'
    BY <1>2, <1>7, <2>2 DEF SettingsInv, CallShape
  <2> QED BY <2>1, <2>2
<1>9. ASSUME ~cfDisturbed' PROVE Orderly'
  <2>1. ~cfDisturbed /\ Orderly /\ \A q \in Configs : ~Busy(q)
    BY <1>2, <1>9 DEF SettingsInv, SettingsType, Open, Busy
  <2>2. \A q \in Configs : cfPc[q] \in {"idle", "loaded", "done"}
    BY <2>1 DEF Busy
  <2>3. cfRow = cfWanted /\ (cfCache # NoArray => cfHeap[cfCache] = cfRow)
    BY <2>1, <2>2 DEF Orderly, Sending
  <2>4. SendsOne(r)'
    <3>1. \A m \in Names : m \in cfSince[r] \/ cfSent[r][m] = cfWanted[m]
      BY <1>2, <2>1, <2>2 DEF Orderly, ShowsWanted
    <3>2. Sets(r)' = {n} \cup cfSince[r]
      BY <1>2, <1>7 DEF Sets
    <3> QED BY <1>2, <1>4, <1>7, <3>1, <3>2 DEF SendsOne
  <2>5. \A q \in Configs : q # r => cfPc'[q] \in {"idle", "loaded", "done"}
    BY <1>7, <2>2
  <2>6. \A q \in Configs : cfPc'[q] = "loaded" => ShowsWanted(q)'
    BY <1>2, <1>7, <2>1, <2>2 DEF Orderly, ShowsWanted
  <2> QED BY <1>2, <1>7, <2>3, <2>4, <2>5, <2>6 DEF Orderly, Busy, Sending
<1> QED BY <1>6, <1>8, <1>9 DEF SettingsInv

(* A call that has the row to itself and has not written it leaves what    *)
(* the loaded pages show.                                                  *)
LEMMA StillShown ==
  ASSUME Orderly, NEW r \in Configs, cfPc[r] \in {"get", "selected", "write"},
         \A q \in Configs : q # r => cfPc'[q] = cfPc[q] /\ cfSent'[q] = cfSent[q] /\ ~Busy(q),
         cfPc'[r] # "loaded", UNCHANGED <<cfSince, cfWanted>>
  PROVE  \A q \in Configs : cfPc'[q] = "loaded" => ShowsWanted(q)'
<1> SUFFICES ASSUME NEW q \in Configs, cfPc'[q] = "loaded" PROVE ShowsWanted(q)'
  OBVIOUS
<1>1. q # r /\ cfPc[q] = "loaded" /\ cfSent'[q] = cfSent[q]
  OBVIOUS
<1>2. \A p \in Configs : cfPc[p] # "written"
  BY DEF Busy
<1> QED BY <1>1, <1>2 DEF Orderly, ShowsWanted

(* get returned the array a of a heap that holds the row there.            *)
LEMMA GotKeeps ==
  ASSUME SettingsInv, NEW r \in Configs, cfPc[r] \in {"get", "selected"},
         NEW a \in Arrays, a # NoArray, Got(r, a, cfHeap),
         ~cfDisturbed => cfHeap[a] = cfRow,
         cfCache' \in Arrays, cfCache' = a, UNCHANGED <<cfRow, cfCall, cfSince, cfWanted, cfDisturbed>>
  PROVE  SettingsInv'
<1> DEFINE c == cfCall[r]
<1>1. /\ c.name \in Names /\ (c.kind = "init" <=> r = 1) /\ c.kind \in {"init", "set"}
      /\ c.value \in Values
  BY DEF SettingsInv, SettingsType, CallShape
<1>2. cfHeap[a] \in Content
  BY DEF SettingsInv, SettingsType
<1>3. CASE c.kind = "set" /\ cfHeap[a][c.name] = Absent
  <2>1. /\ cfPc' = [cfPc EXCEPT ![r] = "done"] /\ cfHeap' = cfHeap /\ UNCHANGED <<cfArray, cfSent>>
    BY <1>3 DEF Got, Step
  <2>2. SettingsType'
    BY <2>1 DEF SettingsInv, SettingsType
  <2>3. cfPc'[r] = "done" /\ \A q \in Configs : q # r => cfPc'[q] = cfPc[q]
    BY <2>1 DEF SettingsInv, SettingsType
  <2>4. \A q \in Configs : CallShape(q)'
    BY <1>1, <2>1, <2>3 DEF SettingsInv, CallShape
  <2>5. ASSUME ~cfDisturbed PROVE Orderly'
    <3>1. Orderly /\ \A q \in Configs : q # r => ~Busy(q)
      BY <2>5 DEF SettingsInv, Orderly, Busy
    <3>2. \A q \in Configs : cfPc'[q] \in {"idle", "loaded", "done"}
      BY <2>3, <3>1 DEF SettingsInv, SettingsType, Busy
    <3>3. cfRow = cfWanted
      BY <2>5, <3>1 DEF Orderly, Busy
    <3>4. cfHeap'[cfCache'] = cfRow
      BY <2>1, <2>5
    <3>5. \A q \in Configs : cfPc'[q] = "loaded" => ShowsWanted(q)'
      BY <2>1, <2>3, <3>1, StillShown
    <3> QED BY <3>2, <3>3, <3>4, <3>5 DEF Orderly, Busy, Sending
  <2> QED BY <2>2, <2>4, <2>5 DEF SettingsInv
<1>4. CASE ~(c.kind = "set" /\ cfHeap[a][c.name] = Absent)
  <2> DEFINE b == IF c.kind = "set" THEN a ELSE 2 * r
             new == IF c.kind = "set" THEN [cfHeap[a] EXCEPT ![c.name] = c.value]
                                      ELSE Merged(cfHeap[a], c.names)
  <2>1. /\ cfHeap' = [cfHeap EXCEPT ![b] = new] /\ cfArray' = [cfArray EXCEPT ![r] = b]
        /\ cfSent' = [cfSent EXCEPT ![r] = new] /\ cfPc' = [cfPc EXCEPT ![r] = "write"]
    BY <1>4 DEF Got, Step
  <2>2. b \in Arrays
    BY OwnArrays
  <2>3. new \in Content
    <3>1. CASE c.kind = "set"
      BY <1>1, <1>2, <3>1 DEF Content
    <3>2. CASE c.kind # "set"
      BY <1>1, <1>2, <3>2, ConfigAssumption DEF Content, Merged
    <3> QED BY <3>1, <3>2
  <2>4. \A n \in Names : n \in Sets(r) \/ new[n] = cfHeap[a][n]
    BY <1>1, <1>2 DEF Content, Sets
  <2> HIDE DEF b, new
  <2>5. SettingsType'
    BY <2>1, <2>2, <2>3 DEF SettingsInv, SettingsType
  <2>6. /\ cfPc'[r] = "write" /\ cfArray'[r] = b /\ cfSent'[r] = new /\ cfHeap'[b] = new
        /\ \A q \in Configs : q # r => /\ cfPc'[q] = cfPc[q] /\ cfSent'[q] = cfSent[q]
                                       /\ cfArray'[q] = cfArray[q]
    BY <2>1, <2>2 DEF SettingsInv, SettingsType
  <2>7. \A q \in Configs : CallShape(q)'
    BY <1>1, <2>6 DEF SettingsInv, CallShape
  <2>8. ASSUME ~cfDisturbed PROVE Orderly'
    <3>1. Orderly /\ \A q \in Configs : q # r => ~Busy(q)
      BY <2>8 DEF SettingsInv, Orderly, Busy
    <3>2. \A q \in Configs : q # r => cfPc'[q] \in {"idle", "loaded", "done"}
      BY <2>6, <3>1 DEF Busy
    <3>3. cfRow = cfWanted
      BY <2>8, <3>1 DEF Orderly, Busy
    <3>4. SendsOne(r)'
      <4>1. Sets(r)' = Sets(r)
        BY DEF Sets
      <4> QED BY <2>4, <2>6, <2>8, <3>3, <4>1 DEF SendsOne
    <3>5. \A q \in Configs : cfPc'[q] = "loaded" => ShowsWanted(q)'
      BY <2>1, <2>6, <3>1, StillShown
    <3> QED BY <2>6, <3>2, <3>3, <3>4, <3>5 DEF Orderly, Busy, Sending
  <2> QED BY <2>5, <2>7, <2>8 DEF SettingsInv
<1> QED BY <1>3, <1>4

LEMMA GetSelectKeeps ==
  ASSUME SettingsInv, NEW r \in Configs, GetSelect(r)
  PROVE  SettingsInv'
<1> DEFINE a == 2 * r - 1
<1>1. /\ cfPc[r] = "get" /\ cfCache = NoArray
      /\ cfHeap' = [cfHeap EXCEPT ![a] = cfRow] /\ cfArray' = [cfArray EXCEPT ![r] = a]
      /\ cfPc' = [cfPc EXCEPT ![r] = "selected"]
      /\ UNCHANGED <<cfRow, cfCache, cfCall, cfSent, cfSince, cfWanted, cfDisturbed>>
  BY DEF GetSelect, Step
<1>2. a \in Arrays /\ a # NoArray
  BY OwnArrays
<1> HIDE DEF a
<1>3. SettingsType'
  BY <1>1, <1>2 DEF SettingsInv, SettingsType
<1>4. /\ cfPc'[r] = "selected" /\ cfArray'[r] = a /\ cfHeap'[a] = cfRow
      /\ \A q \in Configs : q # r => cfPc'[q] = cfPc[q] /\ cfArray'[q] = cfArray[q]
  BY <1>1, <1>2 DEF SettingsInv, SettingsType
<1>5. \A q \in Configs : CallShape(q)'
  BY <1>1, <1>2, <1>4 DEF SettingsInv, CallShape
<1>6. ASSUME ~cfDisturbed PROVE Orderly'
  <2>1. Orderly /\ \A q \in Configs : q # r => ~Busy(q)
    BY <1>1, <1>6 DEF SettingsInv, Orderly, Busy
  <2>2. \A q \in Configs : q # r => cfPc'[q] \in {"idle", "loaded", "done"}
    BY <1>4, <2>1 DEF Busy
  <2>3. cfRow = cfWanted
    BY <1>1, <2>1 DEF Orderly, Busy
  <2>4. \A q \in Configs : cfPc'[q] = "loaded" => ShowsWanted(q)'
    BY <1>1, <1>4, <2>1, StillShown
  <2> QED BY <1>1, <1>4, <2>2, <2>3, <2>4 DEF Orderly, Busy, Sending
<1> QED BY <1>1, <1>3, <1>5, <1>6 DEF SettingsInv

LEMMA DbUpsertKeeps ==
  ASSUME SettingsInv, NEW r \in Configs, DbUpsert(r)
  PROVE  SettingsInv'
<1>1. /\ cfPc[r] = "write" /\ cfRow' = cfSent[r] /\ cfPc' = [cfPc EXCEPT ![r] = "written"]
      /\ UNCHANGED <<cfHeap, cfCache, cfCall, cfArray, cfSent, cfSince, cfWanted, cfDisturbed>>
  BY DEF DbUpsert, Step
<1>2. SettingsType'
  BY <1>1 DEF SettingsInv, SettingsType
<1>3. cfPc'[r] = "written" /\ \A q \in Configs : q # r => cfPc'[q] = cfPc[q]
  BY <1>1 DEF SettingsInv, SettingsType
<1>4. \A q \in Configs : CallShape(q)'
  BY <1>1, <1>3 DEF SettingsInv, CallShape
<1>5. ASSUME ~cfDisturbed PROVE Orderly'
  <2>1. Orderly /\ \A q \in Configs : q # r => ~Busy(q)
    BY <1>1, <1>5 DEF SettingsInv, Orderly, Busy
  <2>2. \A q \in Configs : q # r => cfPc'[q] \in {"idle", "loaded", "done"}
    BY <1>3, <2>1 DEF Busy
  <2>3. SendsOne(r)'
    BY <1>1, <2>1 DEF Orderly, Sending, SendsOne, Sets
  <2>4. \A q \in Configs : cfPc'[q] = "loaded" => ShowsWanted(q)'
    BY <1>1, <1>3, <2>1, StillShown
  <2> QED BY <1>1, <1>3, <2>2, <2>3, <2>4 DEF Orderly, Busy, Sending
<1> QED BY <1>1, <1>2, <1>4, <1>5 DEF SettingsInv

LEMMA WriteDoneKeeps ==
  ASSUME SettingsInv, NEW r \in Configs, WriteDone(r)
  PROVE  SettingsInv'
<1>1. /\ cfPc[r] = "written" /\ cfCache' = cfArray[r] /\ cfPc' = [cfPc EXCEPT ![r] = "done"]
      /\ cfWanted' = [n \in Names |-> IF n \in Sets(r) THEN cfSent[r][n] ELSE cfWanted[n]]
      /\ cfSince' = [q \in Configs |-> IF cfPc[q] = "loaded" THEN cfSince[q] \cup Sets(r) ELSE cfSince[q]]
      /\ UNCHANGED <<cfRow, cfHeap, cfCall, cfArray, cfSent, cfDisturbed>>
  BY DEF WriteDone, CachedAfter, Step
<1>2. cfCall[r].name \in Names /\ cfSent[r] \in Content /\ cfWanted \in Content
  BY <1>1 DEF SettingsInv, SettingsType, CallShape
<1>3. cfWanted' \in Content /\ cfSince' \in [Configs -> SUBSET Names]
  <2>1. Sets(r) \in SUBSET Names
    BY <1>2 DEF Sets, SettingsInv, SettingsType
  <2> QED BY <1>1, <1>2, <2>1 DEF Content, SettingsInv, SettingsType
<1>4. SettingsType'
  BY <1>1, <1>3 DEF SettingsInv, SettingsType
<1>5. cfPc'[r] = "done" /\ \A q \in Configs : q # r => cfPc'[q] = cfPc[q]
  BY <1>1 DEF SettingsInv, SettingsType
<1>6. \A q \in Configs : CallShape(q)'
  BY <1>1, <1>5 DEF SettingsInv, CallShape
<1>7. ASSUME ~cfDisturbed PROVE Orderly'
  <2>1. Orderly /\ \A q \in Configs : q # r => ~Busy(q)
    BY <1>1, <1>7 DEF SettingsInv, Orderly, Busy
  <2>2. \A q \in Configs : cfPc'[q] \in {"idle", "loaded", "done"}
    BY <1>5, <2>1 DEF Busy
  <2>3. SendsOne(r) /\ cfRow = cfSent[r]
    BY <1>1, <2>1 DEF Orderly, Sending
  <2>4. cfWanted' = cfSent[r]
    <3>1. \A n \in Names : cfWanted'[n] = cfSent[r][n]
      BY <1>1, <1>2, <2>3 DEF SendsOne, Content
    <3> QED BY <1>2, <1>3, <3>1 DEF Content
  <2>5. cfCache' # NoArray => cfHeap'[cfCache'] = cfRow'
    BY <1>1, <2>3 DEF SendsOne
  <2>6. ASSUME NEW q \in Configs, cfPc'[q] = "loaded" PROVE ShowsWanted(q)'
    <3>1. q # r /\ cfPc[q] = "loaded" /\ cfSince'[q] = cfSince[q] \cup Sets(r)
      BY <1>1, <1>5, <2>6
    <3>2. \A p \in Configs : cfPc[p] = "written" => p = r
      BY <2>1 DEF Busy
    <3>3. \A n \in Names : n \in cfSince[q] \/ n \in Sets(r) \/ cfSent[q][n] = cfWanted[n]
      BY <2>1, <3>1, <3>2 DEF Orderly, ShowsWanted
    <3> QED BY <1>1, <3>1, <3>3 DEF ShowsWanted
  <2> QED BY <1>1, <2>2, <2>3, <2>4, <2>5, <2>6 DEF Orderly, Busy, Sending
<1> QED BY <1>1, <1>4, <1>6, <1>7 DEF SettingsInv

LEMMA SettingsInvNext == SettingsInv /\ [ConfigNext]_configVars => SettingsInv'
<1> SUFFICES ASSUME SettingsInv, [ConfigNext]_configVars PROVE SettingsInv'
  OBVIOUS
<1>1. CASE ConfigExpires
  <2>1. /\ cfCache' = NoArray /\ NoArray \in Arrays
        /\ UNCHANGED <<cfRow, cfHeap, cfPc, cfCall, cfArray, cfSent, cfSince, cfWanted, cfDisturbed>>
    BY <1>1, ConfigAssumption DEF ConfigExpires, NoArray, Arrays
  <2> QED BY <2>1 DEF SettingsInv, SettingsType, CallShape, Orderly, Busy, Sending, SendsOne, ShowsWanted, Sets
<1>2. ASSUME NEW r \in Configs, ConfigCall(r) \/ PageLoads(r) \/ PageSaves(r) PROVE SettingsInv'
  BY <1>2, ConfigCallKeeps, PageLoadsKeeps, PageSavesKeeps
<1>3. ASSUME NEW r \in Configs, GetCached(r) PROVE SettingsInv'
  <2>1. /\ cfPc[r] = "get" /\ cfCache # NoArray /\ Got(r, cfCache, cfHeap)
        /\ UNCHANGED <<cfRow, cfCache, cfCall, cfSince, cfWanted, cfDisturbed>>
    BY <1>3 DEF GetCached
  <2>2. cfCache \in Arrays
    BY DEF SettingsInv, SettingsType
  <2>3. ASSUME ~cfDisturbed PROVE cfHeap[cfCache] = cfRow
    <3>1. \A q \in Configs : ~Sending(q)
      BY <2>1, <2>3 DEF SettingsInv, Orderly, Busy, Sending
    <3> QED BY <2>1, <2>3, <3>1 DEF SettingsInv, Orderly
  <2> QED BY <2>1, <2>2, <2>3, GotKeeps
<1>4. ASSUME NEW r \in Configs, GetSelect(r) PROVE SettingsInv'
  BY <1>4, GetSelectKeeps
<1>5. ASSUME NEW r \in Configs, GetFilled(r) PROVE SettingsInv'
  <2>1. /\ cfPc[r] = "selected" /\ cfCache' = cfArray[r] /\ Got(r, cfArray[r], cfHeap)
        /\ UNCHANGED <<cfRow, cfCall, cfSince, cfWanted, cfDisturbed>>
    BY <1>5 DEF GetFilled
  <2>2. cfArray[r] \in Arrays /\ cfArray[r] # NoArray
    BY <2>1 DEF SettingsInv, SettingsType, CallShape
  <2>3. ~cfDisturbed => cfHeap[cfArray[r]] = cfRow
    BY <2>1 DEF SettingsInv, Orderly
  <2> QED BY <2>1, <2>2, <2>3, GotKeeps
<1>6. ASSUME NEW r \in Configs, DbUpsert(r) PROVE SettingsInv'
  BY <1>6, DbUpsertKeeps
<1>7. ASSUME NEW r \in Configs, WriteRejected(r) PROVE SettingsInv'
  <2>1. /\ cfDisturbed' = TRUE /\ cfPc' = [cfPc EXCEPT ![r] = "done"] /\ cfPc[r] = "write"
        /\ UNCHANGED <<cfRow, cfHeap, cfCache, cfCall, cfArray, cfSent, cfSince, cfWanted>>
    BY <1>7 DEF WriteRejected, Step
  <2>2. SettingsType'
    BY <2>1 DEF SettingsInv, SettingsType
  <2>3. \A q \in Configs : CallShape(q)'
    BY <2>1 DEF SettingsInv, SettingsType, CallShape
  <2> QED BY <2>1, <2>2, <2>3 DEF SettingsInv
<1>8. ASSUME NEW r \in Configs, WriteDone(r) PROVE SettingsInv'
  BY <1>8, WriteDoneKeeps
<1>9. CASE UNCHANGED configVars
  BY <1>9 DEF configVars, SettingsInv, SettingsType, CallShape, Orderly, Busy, Sending, SendsOne, ShowsWanted, Sets
<1> QED BY <1>1, <1>2, <1>3, <1>4, <1>5, <1>6, <1>7, <1>8, <1>9 DEF ConfigNext, ConfigStep

(* initSettings, setSetting and the settings page share one array in the   *)
(* cache and one row (moduleConfig.ts): for any settings, values and       *)
(* number of calls, as long as they neither overlap nor fail, the row      *)
(* holds the value last set of every setting - where a page that is saved  *)
(* sets back what was set since it was loaded - and the cache agrees.      *)
THEOREM SettingsAlwaysKept == ConfigSpec => []SettingsKept
<1>1. SettingsInv => SettingsKept
  <2> SUFFICES ASSUME SettingsInv, ~cfDisturbed, Open(cfPc) = {}
               PROVE  cfRow = cfWanted /\ (cfCache # NoArray => cfHeap[cfCache] = cfRow)
    BY DEF SettingsKept
  <2>1. \A r \in Configs : cfPc[r] \in {"idle", "loaded", "done"}
    BY DEF Open
  <2> QED BY <2>1 DEF SettingsInv, Orderly, Sending
<1> QED BY <1>1, SettingsInvInit, SettingsInvNext, PTL DEF ConfigSpec

-----------------------------------------------------------------------------
(***************************************************************************)
(* TargetsCache: what is fetched is as current as what is cached.          *)
(***************************************************************************)
AllValue == [targets : Nat, details : Nat, crossed : BOOLEAN]
TaskValue == [base : AllValue, overrides : Nat, crossed : BOOLEAN]

TargetsType ==
  /\ tbTargets \in Nat /\ tbDetails \in Nat /\ tbOverrides \in Nat
  /\ twPc \in [TableWrites -> {"idle", "sent", "again", "deleted", "written", "answered", "failed"}]
  /\ twLeft \in [DetailWrites -> Nat]
  /\ allCache \in AllValue \cup {NoEntry} /\ taskCache \in TaskValue \cup {NoEntry}
  /\ allFlight \in [step : {"targets", "details", "fill"}, value : AllValue] \cup {NoEntry}
  /\ taskFlight \in [step : {"all", "overrides", "fill"}, value : TaskValue] \cup {NoEntry}

Settled == ~Writing

(* A flight that nothing crossed read what the tables hold.                *)
AllFlightCurrent ==
  allFlight # NoEntry =>
    \/ allFlight.value.crossed
    \/ /\ allFlight.step \in {"details", "fill"} => allFlight.value.targets = tbTargets
       /\ allFlight.step = "fill" => allFlight.value.details = tbDetails

TaskFlightCurrent ==
  taskFlight # NoEntry =>
    \/ taskFlight.value.crossed
    \/ taskFlight.step = "all"
    \/ Current(taskFlight.value.base)

TargetsInv ==
  /\ TargetsType
  /\ Settled =>
       /\ allCache # NoEntry => allCache.crossed \/ Current(allCache)
       /\ taskCache # NoEntry => taskCache.crossed \/ Current(taskCache.base)
       /\ AllFlightCurrent /\ TaskFlightCurrent

LEMMA TargetsInvInit == TargetsInit => TargetsInv
<1> SUFFICES ASSUME TargetsInit PROVE TargetsInv
  OBVIOUS
<1>1. TargetsType
  BY DEF TargetsInit, TargetsType
<1> QED BY <1>1 DEF TargetsInit, TargetsInv, AllFlightCurrent, TaskFlightCurrent

(* Marking a value, a request in flight or an entry keeps its shape.       *)
LEMMA CrossedFacts ==
  /\ \A v \in AllValue : Crossed(v) \in AllValue /\ Crossed(v).crossed
  /\ \A v \in TaskValue : Crossed(v) \in TaskValue /\ Crossed(v).crossed
<1>1. ASSUME NEW v \in AllValue PROVE Crossed(v) \in AllValue
  BY <1>1, Zenon DEF AllValue, Crossed
<1>2. ASSUME NEW v \in AllValue PROVE Crossed(v).crossed
  BY <1>2, SMT DEF AllValue, Crossed
<1>3. ASSUME NEW v \in TaskValue PROVE Crossed(v) \in TaskValue
  BY <1>3, Zenon DEF TaskValue, Crossed
<1>4. ASSUME NEW v \in TaskValue PROVE Crossed(v).crossed
  BY <1>4, SMT DEF TaskValue, Crossed
<1> QED BY <1>1, <1>2, <1>3, <1>4

LEMMA FlightsCrossedFacts ==
  ASSUME TargetsType, FlightsCrossed
  PROVE  /\ allFlight' \in [step : {"targets", "details", "fill"}, value : AllValue] \cup {NoEntry}
         /\ allFlight' # NoEntry => allFlight'.value.crossed
         /\ taskFlight' \in [step : {"all", "overrides", "fill"}, value : TaskValue] \cup {NoEntry}
         /\ taskFlight' # NoEntry => taskFlight'.value.crossed
<1>1. /\ allFlight' \in [step : {"targets", "details", "fill"}, value : AllValue] \cup {NoEntry}
      /\ allFlight' # NoEntry => allFlight'.value.crossed
  <2>1. CASE allFlight = NoEntry
    BY <2>1 DEF FlightsCrossed, CrossedFlight
  <2>2. CASE allFlight # NoEntry
    <3>1. allFlight \in [step : {"targets", "details", "fill"}, value : AllValue]
      BY <2>2 DEF TargetsType
    <3>2. allFlight.value \in AllValue
      BY <3>1
    <3>3. allFlight' = [allFlight EXCEPT !.value = Crossed(allFlight.value)]
      BY <2>2 DEF FlightsCrossed, CrossedFlight
    <3>4. Crossed(allFlight.value) \in AllValue /\ Crossed(allFlight.value).crossed
      BY <3>2, CrossedFacts
    <3> QED BY <3>1, <3>3, <3>4
  <2> QED BY <2>1, <2>2
<1>2. /\ taskFlight' \in [step : {"all", "overrides", "fill"}, value : TaskValue] \cup {NoEntry}
      /\ taskFlight' # NoEntry => taskFlight'.value.crossed
  <2>1. CASE taskFlight = NoEntry
    BY <2>1 DEF FlightsCrossed, CrossedFlight
  <2>2. CASE taskFlight # NoEntry
    <3>1. taskFlight \in [step : {"all", "overrides", "fill"}, value : TaskValue]
      BY <2>2 DEF TargetsType
    <3>2. taskFlight.value \in TaskValue
      BY <3>1
    <3>3. taskFlight' = [taskFlight EXCEPT !.value = Crossed(taskFlight.value)]
      BY <2>2 DEF FlightsCrossed, CrossedFlight
    <3>4. Crossed(taskFlight.value) \in TaskValue /\ Crossed(taskFlight.value).crossed
      BY <3>2, CrossedFacts
    <3> QED BY <3>1, <3>3, <3>4
  <2> QED BY <2>1, <2>2
<1> QED BY <1>1, <1>2

(* An invalidation empties the caches and marks what is in flight.         *)
LEMMA WriteAnsweredKeeps ==
  ASSUME TargetsInv, NEW w \in TableWrites, WriteAnswered(w)
  PROVE  TargetsInv'
<1>1. /\ allCache' = NoEntry /\ taskCache' = NoEntry /\ FlightsCrossed
      /\ twPc' = [twPc EXCEPT ![w] = "answered"]
      /\ UNCHANGED <<tbTargets, tbDetails, tbOverrides, twLeft>>
  BY DEF WriteAnswered, Invalidated, Advance, tbVars
<1>2. TargetsType'
  BY <1>1, FlightsCrossedFacts DEF TargetsInv, TargetsType
<1> QED BY <1>1, <1>2, FlightsCrossedFacts DEF TargetsInv, AllFlightCurrent, TaskFlightCurrent

(* A change that no invalidation follows marks whatever may be older.      *)
LEMMA UnannouncedKeeps ==
  ASSUME TargetsInv, NEW w \in TableWrites, Unannounced,
         tbTargets' \in Nat, tbDetails' \in Nat, tbOverrides' \in Nat,
         twPc' \in [TableWrites -> {"idle", "sent", "again", "deleted", "written", "answered", "failed"}],
         twLeft' \in [DetailWrites -> Nat]
  PROVE  TargetsInv'
<1>1. /\ allCache' \in AllValue \cup {NoEntry} /\ (allCache' # NoEntry => allCache'.crossed)
      /\ taskCache' \in TaskValue \cup {NoEntry} /\ (taskCache' # NoEntry => taskCache'.crossed)
  BY CrossedFacts DEF Unannounced, CrossedEntry, TargetsInv, TargetsType
<1>2. FlightsCrossed
  BY DEF Unannounced
<1>3. TargetsType'
  BY <1>1, <1>2, FlightsCrossedFacts DEF TargetsInv, TargetsType
<1> QED BY <1>1, <1>2, <1>3, FlightsCrossedFacts DEF TargetsInv, AllFlightCurrent, TaskFlightCurrent

(* Between the statement of a write and its answer nothing is promised.    *)
LEMMA WriteKeeps ==
  ASSUME TargetsInv, NEW w \in TableWrites, WriteStep(w)
  PROVE  TargetsInv'
<1> USE TargetsAssumption
<1>1. CASE WriteAnswered(w)
  BY <1>1, WriteAnsweredKeeps
<1>2. CASE AnswerLost(w) \/ DbWriteTarget(w) \/ DbDeleteDetails(w) \/ DbInsertDetails(w)
  <2>1. /\ tbTargets' \in {tbTargets, tbTargets + 1} /\ tbDetails' \in {tbDetails, tbDetails + 1}
        /\ UNCHANGED <<tbOverrides, allCache, allFlight, taskCache, taskFlight>>
    BY <1>2 DEF AnswerLost, DbWriteTarget, DbDeleteDetails, DbInsertDetails, tcVars
  <2>2. \E to \in {"again", "deleted", "written"} : twPc' = [twPc EXCEPT ![w] = to]
    BY <1>2 DEF AnswerLost, DbWriteTarget, DbDeleteDetails, DbInsertDetails, Advance
  <2>3. twLeft' \in [DetailWrites -> Nat]
    <3>1. CASE AnswerLost(w) \/ DbWriteTarget(w)
      BY <3>1 DEF AnswerLost, DbWriteTarget, TargetsInv, TargetsType
    <3>2. CASE DbDeleteDetails(w)
      BY <3>2 DEF DbDeleteDetails, TargetsInv, TargetsType
    <3>3. CASE DbInsertDetails(w)
      <4>1. twLeft[w] \in Nat /\ twLeft[w] > 0 /\ twLeft' = [twLeft EXCEPT ![w] = @ - 1]
        BY <3>3 DEF DbInsertDetails, TargetsInv, TargetsType
      <4>2. twLeft[w] - 1 \in Nat /\ twLeft \in [DetailWrites -> Nat]
        BY <4>1 DEF TargetsInv, TargetsType
      <4> QED BY <4>1, <4>2, Zenon
    <3> QED BY <1>2, <3>1, <3>2, <3>3
  <2>4. TargetsType'
    BY <2>1, <2>2, <2>3 DEF TargetsInv, TargetsType
  <2>5. ~Settled'
    BY <2>2 DEF TargetsInv, TargetsType, Settled, Writing
  <2> QED BY <2>4, <2>5 DEF TargetsInv
<1>3. CASE WriteRequest(w) \/ DbWriteOverride(w) \/ (WriteFails(w) /\ twPc[w] # "again")
  <2>1. /\ twPc[w] \in {"idle", "sent"}
        /\ \E to \in {"sent", "answered", "failed"} : twPc' = [twPc EXCEPT ![w] = to]
        /\ tbOverrides' \in {tbOverrides, tbOverrides + 1}
        /\ UNCHANGED <<tbTargets, tbDetails, twLeft, allCache, allFlight, taskCache, taskFlight>>
    BY <1>3 DEF WriteRequest, DbWriteOverride, WriteFails, Advance, tbVars, tcVars
  <2>2. TargetsType'
    BY <2>1 DEF TargetsInv, TargetsType
  <2>3. Settled' => Settled
    BY <2>1 DEF TargetsInv, TargetsType, Settled, Writing
  <2> QED BY <2>1, <2>2, <2>3 DEF TargetsInv, AllFlightCurrent, TaskFlightCurrent, Current
<1>4. CASE DeletedNotFound(w) \/ (WriteFails(w) /\ twPc[w] = "again")
  <2>1. /\ Unannounced /\ UNCHANGED <<tbTargets, tbDetails, tbOverrides, twLeft>>
        /\ \E to \in {"answered", "failed"} : twPc' = [twPc EXCEPT ![w] = to]
    BY <1>4 DEF DeletedNotFound, WriteFails, Advance, tbVars
  <2> QED BY <2>1, UnannouncedKeeps DEF TargetsInv, TargetsType
<1>5. CASE DetailInsertFails(w) \/ DbInsertLate(w)
  <2>1. /\ Unannounced /\ UNCHANGED <<tbTargets, tbOverrides>>
        /\ tbDetails' \in {tbDetails, tbDetails + 1}
        /\ twPc' = twPc \/ twPc' = [twPc EXCEPT ![w] = "failed"]
        /\ twLeft[w] \in Nat /\ twLeft[w] > 0 /\ twLeft' = [twLeft EXCEPT ![w] = @ - 1]
    BY <1>5 DEF DetailInsertFails, DbInsertLate, Advance, TargetsInv, TargetsType
  <2>2. twLeft' \in [DetailWrites -> Nat]
    <3>1. twLeft[w] - 1 \in Nat /\ twLeft \in [DetailWrites -> Nat]
      BY <2>1 DEF TargetsInv, TargetsType
    <3> QED BY <2>1, <3>1, Zenon
  <2> QED BY <2>1, <2>2, UnannouncedKeeps DEF TargetsInv, TargetsType
<1> QED BY <1>1, <1>2, <1>3, <1>4, <1>5 DEF WriteStep

(* Requests read and fill without an await that an invalidation does not   *)
(* mark.                                                                   *)
LEMMA NewFlights ==
  /\ NewAll \in [step : {"targets", "details", "fill"}, value : AllValue]
  /\ NewAll.step = "targets"
  /\ NewTask \in [step : {"all", "overrides", "fill"}, value : TaskValue]
  /\ NewTask.step = "all"
BY DEF NewAll, NewTask, AllValue, TaskValue

LEMMA BaseFacts ==
  ASSUME NEW f \in [step : {"all", "overrides", "fill"}, value : TaskValue], NEW v \in AllValue
  PROVE  /\ Base(f, v) \in [step : {"all", "overrides", "fill"}, value : TaskValue]
         /\ Base(f, v).value.crossed = (f.value.crossed \/ v.crossed)
         /\ Base(f, v).value.base = v
<1> DEFINE val == [f.value EXCEPT !.base = v, !.crossed = @ \/ v.crossed]
<1>1. f.value \in TaskValue /\ f.value.crossed \in BOOLEAN /\ v.crossed \in BOOLEAN
  BY DEF TaskValue, AllValue
<1>2. Base(f, v) = [step |-> "overrides", value |-> val]
  BY DEF Base
<1>3. val \in TaskValue
  BY <1>1, Zenon DEF TaskValue
<1>4. val.base = v /\ val.crossed = (f.value.crossed \/ v.crossed)
  BY <1>1, SMT DEF TaskValue
<1> HIDE DEF val
<1>5. /\ Base(f, v) \in [step : {"all", "overrides", "fill"}, value : TaskValue]
      /\ Base(f, v).value = val
  BY <1>2, <1>3
<1> QED BY <1>4, <1>5

LEMMA ReadKeeps ==
  ASSUME TargetsInv, UNCHANGED <<tbVars, twPc, twLeft>>,
         GetTargetsWithDetails \/ GetTargetsForTask \/ AllStep \/ TaskStep \/ AllExpires \/ TaskExpires
  PROVE  TargetsInv'
<1>1. /\ (Settled' <=> Settled) /\ UNCHANGED <<tbTargets, tbDetails, tbOverrides, twPc, twLeft>>
      /\ tbTargets \in Nat /\ tbDetails \in Nat /\ tbOverrides \in Nat
  BY DEF TargetsInv, TargetsType, Settled, Writing, tbVars
<1> DEFINE AllF == [step : {"targets", "details", "fill"}, value : AllValue]
           TaskF == [step : {"all", "overrides", "fill"}, value : TaskValue]
<1>2. CASE GetTargetsWithDetails
  <2>1. allFlight' \in {allFlight, NewAll} /\ UNCHANGED <<allCache, taskCache, taskFlight>>
    BY <1>2 DEF GetTargetsWithDetails, FetchAll
  <2> QED BY <1>1, <2>1, NewFlights
          DEF TargetsInv, TargetsType, AllFlightCurrent, TaskFlightCurrent, Current
<1>3. CASE GetTargetsForTask
  <2>1. /\ allFlight' \in {allFlight, NewAll} /\ UNCHANGED <<allCache, taskCache>>
        /\ taskFlight' = IF allCache # NoEntry THEN Base(NewTask, allCache) ELSE NewTask
    BY <1>3 DEF GetTargetsForTask, FetchAll
  <2>2. /\ taskFlight' \in TaskF
        /\ taskFlight'.step = "all" \/ (/\ allCache # NoEntry /\ taskFlight'.value.base = allCache
                                        /\ taskFlight'.value.crossed \/ ~allCache.crossed)
    <3>1. CASE allCache = NoEntry
      BY <2>1, <3>1, NewFlights
    <3>2. CASE allCache # NoEntry
      <4>1. allCache \in AllValue /\ NewTask \in TaskF
        BY <3>2, NewFlights DEF TargetsInv, TargetsType
      <4> QED BY <2>1, <3>2, <4>1, BaseFacts
    <3> QED BY <3>1, <3>2
  <2>3. TargetsType'
    BY <1>1, <2>1, <2>2, NewFlights DEF TargetsInv, TargetsType
  <2>4. Settled => AllFlightCurrent' /\ TaskFlightCurrent'
    BY <1>1, <2>1, <2>2, NewFlights DEF TargetsInv, AllFlightCurrent, TaskFlightCurrent, Current
  <2> QED BY <1>1, <2>1, <2>3, <2>4 DEF TargetsInv, Current
<1>4. CASE DbSelectTargets
  <2> DEFINE v == [allFlight.value EXCEPT !.targets = tbTargets]
  <2>1. allFlight \in AllF /\ UNCHANGED <<allCache, taskCache, taskFlight>>
    BY <1>4 DEF DbSelectTargets, AllAt, TargetsInv, TargetsType
  <2>2. allFlight.value \in AllValue
    BY <2>1
  <2>3. v \in AllValue
    BY <1>1, <2>2, Zenon DEF AllValue
  <2>4. v.targets = tbTargets /\ v.crossed = allFlight.value.crossed
    BY <2>2, SMT DEF AllValue
  <2>5. allFlight' = [allFlight EXCEPT !.step = "details", !.value = v]
    BY <1>4, <2>1 DEF DbSelectTargets
  <2> HIDE DEF v
  <2>6. allFlight' \in AllF /\ allFlight'.step = "details" /\ allFlight'.value = v
    BY <2>1, <2>3, <2>5
  <2> QED BY <1>1, <2>1, <2>4, <2>6
          DEF TargetsInv, TargetsType, AllFlightCurrent, TaskFlightCurrent, Current
<1>5. CASE DbSelectDetails
  <2> DEFINE v == [allFlight.value EXCEPT !.details = tbDetails]
  <2>1. /\ allFlight \in AllF /\ allFlight # NoEntry /\ allFlight.step = "details"
        /\ UNCHANGED <<allCache, taskCache, taskFlight>>
    BY <1>5 DEF DbSelectDetails, AllAt, TargetsInv, TargetsType
  <2>2. allFlight.value \in AllValue
    BY <2>1
  <2>3. v \in AllValue
    BY <1>1, <2>2, Zenon DEF AllValue
  <2>4. v.details = tbDetails /\ v.targets = allFlight.value.targets /\ v.crossed = allFlight.value.crossed
    BY <2>2, SMT DEF AllValue
  <2>5. allFlight' = [allFlight EXCEPT !.step = "fill", !.value = v]
    BY <1>5, <2>1 DEF DbSelectDetails
  <2> HIDE DEF v
  <2>6. allFlight' \in AllF /\ allFlight'.step = "fill" /\ allFlight'.value = v
    BY <2>1, <2>3, <2>5
  <2>7. Settled => allFlight.value.crossed \/ allFlight.value.targets = tbTargets
    BY <2>1 DEF TargetsInv, AllFlightCurrent
  <2> QED BY <1>1, <2>1, <2>4, <2>6, <2>7
          DEF TargetsInv, TargetsType, AllFlightCurrent, TaskFlightCurrent, Current
<1>6. CASE AllFilled
  <2>1. /\ allFlight # NoEntry /\ allFlight \in AllF /\ allFlight.step = "fill"
        /\ allCache' = allFlight.value /\ allFlight' = NoEntry /\ UNCHANGED taskCache
        /\ taskFlight' = IF TaskAt("all") THEN Base(taskFlight, allFlight.value) ELSE taskFlight
    BY <1>6 DEF AllFilled, AllAt, TargetsInv, TargetsType
  <2>2. allFlight.value \in AllValue
    BY <2>1
  <2>3. Settled => allFlight.value.crossed \/ Current(allFlight.value)
    BY <2>1 DEF TargetsInv, AllFlightCurrent, Current
  <2>4. taskFlight' \in TaskF \cup {NoEntry} /\ (Settled => TaskFlightCurrent')
    <3>1. CASE TaskAt("all")
      <4>1. taskFlight \in TaskF
        BY <3>1 DEF TaskAt, TargetsInv, TargetsType
      <4>2. /\ taskFlight' \in TaskF /\ taskFlight'.value.base = allFlight.value
            /\ taskFlight'.value.crossed \/ ~allFlight.value.crossed
        BY <2>1, <2>2, <3>1, <4>1, BaseFacts
      <4> QED BY <1>1, <2>3, <4>2 DEF TaskFlightCurrent, Current
    <3>2. CASE ~TaskAt("all")
      BY <1>1, <2>1, <3>2 DEF TargetsInv, TargetsType, TaskFlightCurrent, Current
    <3> QED BY <3>1, <3>2
  <2> QED BY <1>1, <2>1, <2>2, <2>3, <2>4 DEF TargetsInv, TargetsType, AllFlightCurrent, Current
<1>7. CASE AllFails
  <2>1. /\ allFlight' = NoEntry /\ taskFlight' \in {taskFlight, NoEntry}
        /\ UNCHANGED <<allCache, taskCache>>
    BY <1>7 DEF AllFails, WaiterRejected
  <2> QED BY <1>1, <2>1 DEF TargetsInv, TargetsType, AllFlightCurrent, TaskFlightCurrent, Current
<1>8. CASE DbSelectOverrides
  <2> DEFINE v == [taskFlight.value EXCEPT !.overrides = tbOverrides]
  <2>1. /\ taskFlight \in TaskF /\ taskFlight # NoEntry /\ taskFlight.step = "overrides"
        /\ UNCHANGED <<allCache, allFlight, taskCache>>
    BY <1>8 DEF DbSelectOverrides, TaskAt, TargetsInv, TargetsType
  <2>2. taskFlight.value \in TaskValue
    BY <2>1
  <2>3. v \in TaskValue
    BY <1>1, <2>2, Zenon DEF TaskValue
  <2>4. v.base = taskFlight.value.base /\ v.crossed = taskFlight.value.crossed
    BY <2>2, SMT DEF TaskValue
  <2>5. taskFlight' = [taskFlight EXCEPT !.step = "fill", !.value = v]
    BY <1>8, <2>1 DEF DbSelectOverrides
  <2> HIDE DEF v
  <2>6. taskFlight' \in TaskF /\ taskFlight'.value = v
    BY <2>1, <2>3, <2>5
  <2>7. Settled => taskFlight.value.crossed \/ Current(taskFlight.value.base)
    BY <2>1 DEF TargetsInv, TaskFlightCurrent
  <2> QED BY <1>1, <2>1, <2>4, <2>6, <2>7
          DEF TargetsInv, TargetsType, AllFlightCurrent, TaskFlightCurrent, Current
<1>9. CASE TaskFilled
  <2>1. /\ taskFlight # NoEntry /\ taskFlight \in TaskF /\ taskFlight.step = "fill"
        /\ taskCache' = taskFlight.value /\ taskFlight' = NoEntry /\ UNCHANGED <<allCache, allFlight>>
    BY <1>9 DEF TaskFilled, TaskAt, TargetsInv, TargetsType
  <2>2. taskFlight.value \in TaskValue
    BY <2>1
  <2>3. Settled => taskFlight.value.crossed \/ Current(taskFlight.value.base)
    BY <2>1 DEF TargetsInv, TaskFlightCurrent
  <2> QED BY <1>1, <2>1, <2>2, <2>3
          DEF TargetsInv, TargetsType, AllFlightCurrent, TaskFlightCurrent, Current
<1>10. CASE TaskRequestFails \/ AllExpires \/ TaskExpires
  <2>1. /\ taskFlight' \in {taskFlight, NoEntry} /\ allCache' \in {allCache, NoEntry}
        /\ taskCache' \in {taskCache, NoEntry} /\ UNCHANGED allFlight
    BY <1>10 DEF TaskRequestFails, AllExpires, TaskExpires
  <2> QED BY <1>1, <2>1 DEF TargetsInv, TargetsType, AllFlightCurrent, TaskFlightCurrent, Current
<1> QED BY <1>2, <1>3, <1>4, <1>5, <1>6, <1>7, <1>8, <1>9, <1>10 DEF AllStep, TaskStep

LEMMA TargetsInvNext == TargetsInv /\ [TargetsNext]_targetsVars => TargetsInv'
<1> SUFFICES ASSUME TargetsInv, [TargetsNext]_targetsVars PROVE TargetsInv'
  OBVIOUS
<1>1. ASSUME NEW w \in TableWrites, WriteStep(w) PROVE TargetsInv'
  BY <1>1, WriteKeeps
<1>2. CASE GetTargetsWithDetails \/ GetTargetsForTask \/ AllStep \/ TaskStep \/ AllExpires \/ TaskExpires
  <2>1. UNCHANGED <<tbVars, twPc, twLeft>>
    BY <1>2 DEF GetTargetsWithDetails, GetTargetsForTask, AllStep, DbSelectTargets, DbSelectDetails,
                AllFilled, AllFails, TaskStep, DbSelectOverrides, TaskFilled, TaskRequestFails,
                AllExpires, TaskExpires
  <2> QED BY <1>2, <2>1, ReadKeeps
<1>3. CASE UNCHANGED targetsVars
  BY <1>3 DEF targetsVars, tbVars, tcVars, TargetsInv, TargetsType, Settled, Writing, Current,
              AllFlightCurrent, TaskFlightCurrent
<1> QED BY <1>1, <1>2, <1>3 DEF TargetsNext

(* "so the next read reflects the change immediately" (targets.ts:16), for *)
(* any number of concurrent writes and reads: an entry of either cache is  *)
(* older than the targets only while a write is not yet answered, when it  *)
(* was fetched across an invalidation, or when since its fetch began a     *)
(* write that changed a table ended without one.                           *)
THEOREM CachesAlwaysCurrent == TargetsSpec => []CachesCurrent
<1>1. TargetsInv => CachesCurrent
  BY DEF TargetsInv, CachesCurrent, Settled
<1> QED BY <1>1, TargetsInvInit, TargetsInvNext, PTL DEF TargetsSpec

-----------------------------------------------------------------------------
(***************************************************************************)
(* Which target a hostname belongs to (ScopeRules).  The choices of the    *)
(* code always find one: there is a first target of several, one with the  *)
(* longest domain, and a longest rule that matches; and two rules of the   *)
(* same length that match a hostname are the same rule.                    *)
(***************************************************************************)

AnyDomain == CHOOSE d \in Domains : TRUE

ScopeTarget ==
  [there : BOOLEAN, domain : Domains \cup {AnyDomain}, active : BOOLEAN,
   subs : [Patterns -> {"none", "in", "out"}]]

ScopeInv ==
  /\ scTargets \in [Ids -> ScopeTarget]
  /\ \A i \in There : scTargets[i].domain \in Domains

LEMMA FirstExists ==
  ASSUME NEW is \in SUBSET Ids, is # {}
  PROVE  First(is) \in is
<1>1. \E i \in is : \A j \in is : i <= j
  BY SmallestExists, ScopeAssumption
<1> QED BY <1>1 DEF First

LEMMA DomainLength == ASSUME NEW d \in Domains PROVE Len(d) \in Nat
<1>1. d \in Seq(Range(d))
  BY ScopeAssumption
<1> QED BY <1>1

LEMMA MostSpecificExists ==
  ASSUME ScopeInv, NEW is \in SUBSET There, is # {}
  PROVE  MostSpecific(is) \in is
<1> DEFINE f == [i \in is |-> Len(scTargets[i].domain)]
           longest == {i \in is : \A j \in is : Len(scTargets[j].domain) <= Len(scTargets[i].domain)}
<1>1. IsFiniteSet(is)
  BY ScopeAssumption, FS_Subset DEF There
<1>2. f \in [is -> Nat]
  BY DomainLength DEF ScopeInv
<1>3. \E i \in is : \A j \in is : f[j] <= f[i]
  <2> HIDE DEF f
  <2> QED BY <1>1, <1>2, LargestExists
<1>4. longest # {} /\ longest \in SUBSET Ids
  BY <1>3 DEF There
<1>5. First(longest) \in longest
  BY <1>4, FirstExists
<1> QED BY <1>5 DEF MostSpecific

LEMMA PatternFacts ==
  ASSUME NEW p \in Patterns
  PROVE  /\ p.name \in Seq(Range(p.name)) /\ Len(p.name) \in Nat /\ p.wild \in BOOLEAN
         /\ p = [name |-> p.name, wild |-> p.wild]
         /\ Length(p) \in Nat
<1>1. p \in [name : Seq(Range(p.name)), wild : BOOLEAN]
  BY ScopeAssumption
<1>2. p.name \in Seq(Range(p.name)) /\ p.wild \in BOOLEAN /\ p = [name |-> p.name, wild |-> p.wild]
  BY <1>1
<1>3. Len(p.name) \in Nat
  BY <1>2
<1> QED BY <1>2, <1>3 DEF Length

LEMMA DecisiveExists ==
  ASSUME NEW ps \in SUBSET Patterns, ps # {}
  PROVE  Decisive(ps) \in ps /\ \A q \in ps : Length(q) <= Length(Decisive(ps))
<1> DEFINE f == [p \in ps |-> Length(p)]
<1>1. IsFiniteSet(ps)
  BY ScopeAssumption, FS_Subset
<1>2. f \in [ps -> Nat]
  BY PatternFacts
<1>3. \E p \in ps : \A q \in ps : f[q] <= f[p]
  <2> HIDE DEF f
  <2> QED BY <1>1, <1>2, LargestExists
<1>4. \E p \in ps : \A q \in ps : Length(q) <= Length(p)
  BY <1>3
<1> QED BY <1>4 DEF Decisive

(* A name lies under what it matches.                                      *)
LEMMA MatchesUnder ==
  ASSUME NEW host, host \in Seq(Range(host)), NEW p \in Patterns,
         p = Exact(host) \/ (p.wild /\ p.name \in Parents(host))
  PROVE  Under(host, p.name)
<1>1. host \in Seq(Range(host)) /\ Len(host) \in Nat
  OBVIOUS
<1>2. CASE p = Exact(host)
  <2>1. p.name = host
    BY <1>2 DEF Exact
  <2> QED BY <1>1, <2>1 DEF Under, IsPrefix
<1>3. CASE p.name \in Parents(host)
  <2>1. PICK n \in 2..Len(host) : p.name = SubSeq(host, 1, n)
    BY <1>3 DEF Parents
  <2>2. n \in Nat /\ n <= Len(host) /\ Len(p.name) = n
    BY <1>1, <2>1
  <2>3. SubSeq(p.name, 1, n) = p.name
    BY <1>1, <2>1, <2>2
  <2> QED BY <2>1, <2>2, <2>3 DEF Under, IsPrefix
<1> QED BY <1>2, <1>3

(* Of the same length only one rule matches.                               *)
LEMMA OneOfEachLength ==
  ASSUME NEW host, host \in Seq(Range(host)), NEW p \in Matches(host), NEW q \in Matches(host),
         Length(p) = Length(q)
  PROVE  p = q
<1>1. /\ p \in Patterns /\ (p = Exact(host) \/ (p.wild /\ p.name \in Parents(host)))
      /\ q \in Patterns /\ (q = Exact(host) \/ (q.wild /\ q.name \in Parents(host)))
  BY DEF Matches
<1>2. p.wild = q.wild /\ Len(p.name) = Len(q.name)
  <2>1. /\ p.wild \in BOOLEAN /\ q.wild \in BOOLEAN
        /\ Len(p.name) \in Nat /\ Len(q.name) \in Nat
    BY <1>1, PatternFacts
  <2>2. CASE p.wild /\ q.wild
    BY <2>1, <2>2 DEF Length
  <2>3. CASE ~p.wild /\ ~q.wild
    BY <2>1, <2>3 DEF Length
  <2>4. CASE p.wild /\ ~q.wild
    BY <2>1, <2>4 DEF Length
  <2>5. CASE ~p.wild /\ q.wild
    BY <2>1, <2>5 DEF Length
  <2> QED BY <2>1, <2>2, <2>3, <2>4, <2>5
<1>3. CASE p.wild
  <2>0. Exact(host).wild = FALSE
    BY DEF Exact
  <2>1. p # Exact(host) /\ q # Exact(host)
    BY <1>2, <1>3, <2>0
  <2>2. PICK m \in 2..Len(host), n \in 2..Len(host) :
           p.name = SubSeq(host, 1, m) /\ q.name = SubSeq(host, 1, n)
    BY <1>1, <2>1 DEF Parents
  <2>3. host \in Seq(Range(host)) /\ Len(host) \in Nat
    OBVIOUS
  <2>4. Len(p.name) = m /\ Len(q.name) = n
    BY <2>2, <2>3
  <2>5. p.name = q.name
    BY <1>2, <2>2, <2>4
  <2> QED BY <1>1, <1>2, <2>5, PatternFacts
<1>4. CASE ~p.wild
  BY <1>1, <1>2, <1>4
<1> QED BY <1>3, <1>4

(* Of a rule that puts a name in scope there is a target that lists it.    *)
LEMMA NameHasTarget ==
  ASSUME ScopeInv, NEW host, host \in Seq(Range(host)), NameInScope(host)
  PROVE  DetectTargetId(host) # 0
<1>1. /\ DomainOwners(host) \in SUBSET There /\ SubOwners(host) \in SUBSET There
      /\ WildcardOwners(host) \in SUBSET There /\ ParentOwners(host) \in SUBSET There
      /\ There \subseteq Ids /\ 0 \notin Ids
  BY ScopeAssumption DEF DomainOwners, SubOwners, WildcardOwners, ParentOwners, There
<1>2. \/ DomainOwners(host) # {} \/ SubOwners(host) # {}
      \/ WildcardOwners(host) # {} \/ ParentOwners(host) # {}
  <2>1. CASE \E i \in There : scTargets[i].active /\ scTargets[i].domain = host
    BY <2>1 DEF DomainOwners
  <2>2. CASE Matches(host) # {}
    <3>1. PICK p \in Patterns : /\ ActiveListing(p) # {}
                                /\ p = Exact(host) \/ (p.wild /\ p.name \in Parents(host))
      BY <2>2 DEF Matches
    <3>2. PICK i \in There : scTargets[i].subs[p] # "none"
      BY <3>1 DEF ActiveListing, Listing
    <3>3. Under(host, p.name)
      BY <3>1, MatchesUnder
    <3>4. CASE p = Exact(host)
      BY <3>2, <3>4 DEF SubOwners
    <3>5. CASE p.wild /\ p.name # scTargets[i].domain
      BY <3>2, <3>3, <3>5 DEF WildcardOwners
    <3>6. CASE p.name = scTargets[i].domain
      BY <3>3, <3>6 DEF ParentOwners
    <3> QED BY <3>1, <3>4, <3>5, <3>6
  <2> QED BY <2>1, <2>2 DEF NameInScope
<1>3. CASE DomainOwners(host) # {}
  BY <1>1, <1>3, FirstExists DEF DetectTargetId
<1>4. CASE DomainOwners(host) = {} /\ SubOwners(host) # {}
  BY <1>1, <1>4, FirstExists DEF DetectTargetId
<1>5. CASE DomainOwners(host) = {} /\ SubOwners(host) = {} /\ WildcardOwners(host) # {}
  BY <1>1, <1>5, MostSpecificExists DEF DetectTargetId
<1>6. CASE /\ DomainOwners(host) = {} /\ SubOwners(host) = {} /\ WildcardOwners(host) = {}
           /\ ParentOwners(host) # {}
  BY <1>1, <1>6, MostSpecificExists DEF DetectTargetId
<1> QED BY <1>2, <1>3, <1>4, <1>5, <1>6

LEMMA HasTarget == ScopeInv => InScopeHasTarget
<1> SUFFICES ASSUME ScopeInv, NEW host \in Hosts, IsHostnameInScope(host)
             PROVE  \/ DetectTargetId(host) # 0
                    \/ host # NormalizeDomain(host) /\ DetectTargetId(NormalizeDomain(host)) # 0
  BY DEF InScopeHasTarget
<1>1. NormalizeDomain(host) \in Seq(Range(NormalizeDomain(host)))
  BY ScopeAssumption DEF NormalizeDomain
<1>2. DetectTargetId(NormalizeDomain(host)) # 0
  BY <1>1, NameHasTarget DEF IsHostnameInScope
<1> QED BY <1>2

(* The decisive rule is the listed one, or longer.                         *)
LEMMA NameLongerExcludes ==
  ASSUME ScopeInv, NEW host, host \in Seq(Range(host)), Len(host) >= 2,
         NEW i \in There, NEW p \in Patterns,
         scTargets[i].active, scTargets[i].subs[p] = "in",
         p = Exact(host) \/ (p.wild /\ p.name \in Parents(host)),
         ~NameInScope(host)
  PROVE  \E q \in Patterns : /\ Length(q) > Length(p) /\ Under(host, q.name)
                             /\ ActiveListing(q) # {} /\ OutOfScope(q)
<1> DEFINE d == Decisive(Matches(host))
<1>1. i \in ActiveListing(p) /\ p \in Matches(host)
  BY DEF ActiveListing, Listing, Matches
<1>2. ~OutOfScope(p)
  BY <1>1 DEF OutOfScope
<1>3. d \in Matches(host) /\ Length(p) <= Length(d)
  BY <1>1, DecisiveExists DEF Matches
<1>4. OutOfScope(d)
  BY <1>1 DEF NameInScope
<1> HIDE DEF d
<1>5. d \in Patterns /\ ActiveListing(d) # {} /\ Under(host, d.name)
  BY <1>3, MatchesUnder DEF Matches
<1>6. d # p
  BY <1>2, <1>4
<1>7. Length(d) # Length(p)
  BY <1>1, <1>3, <1>6, OneOfEachLength
<1>8. Length(d) > Length(p)
  BY <1>3, <1>5, <1>7, PatternFacts
<1> QED BY <1>4, <1>5, <1>8

LEMMA LongerExcludes == ScopeInv => OnlyLongerExcludes
<1> SUFFICES ASSUME ScopeInv, NEW host \in Hosts, NEW i \in There, NEW p \in Patterns,
                    Len(NormalizeDomain(host)) >= 2, scTargets[i].active, scTargets[i].subs[p] = "in",
                    p = Exact(NormalizeDomain(host)) \/ (p.wild /\ p.name \in Parents(NormalizeDomain(host))),
                    ~IsHostnameInScope(host)
             PROVE  \E q \in Patterns : /\ Length(q) > Length(p) /\ Under(NormalizeDomain(host), q.name)
                                        /\ ActiveListing(q) # {} /\ OutOfScope(q)
  BY Zenon DEF OnlyLongerExcludes
<1>1. NormalizeDomain(host) \in Seq(Range(NormalizeDomain(host)))
  BY ScopeAssumption DEF NormalizeDomain
<1> QED BY <1>1, NameLongerExcludes DEF IsHostnameInScope

LEMMA TargetChanges ==
  ASSUME NEW e \in ScopeTarget
  PROVE  /\ \A d \in Domains, active \in BOOLEAN :
              LET f == [e EXCEPT !.domain = d, !.active = active] IN f \in ScopeTarget /\ f.domain = d
         /\ \A subs \in [Patterns -> {"none", "in", "out"}] :
              LET f == [e EXCEPT !.subs = subs]
              IN f \in ScopeTarget /\ f.domain = e.domain /\ f.there = e.there
         /\ LET f == [e EXCEPT !.there = FALSE, !.subs = NoSubs, !.active = FALSE]
            IN f \in ScopeTarget /\ f.there = FALSE
<1>1. ASSUME NEW d \in Domains, NEW active \in BOOLEAN
      PROVE  LET f == [e EXCEPT !.domain = d, !.active = active] IN f \in ScopeTarget /\ f.domain = d
  <2>1. [e EXCEPT !.domain = d, !.active = active] \in ScopeTarget
    BY Zenon DEF ScopeTarget
  <2>2. [e EXCEPT !.domain = d, !.active = active].domain = d
    BY SMT DEF ScopeTarget
  <2> QED BY <2>1, <2>2
<1>2. ASSUME NEW subs \in [Patterns -> {"none", "in", "out"}]
      PROVE  LET f == [e EXCEPT !.subs = subs]
             IN f \in ScopeTarget /\ f.domain = e.domain /\ f.there = e.there
  <2>1. [e EXCEPT !.subs = subs] \in ScopeTarget
    BY Zenon DEF ScopeTarget
  <2>2. [e EXCEPT !.subs = subs].domain = e.domain
    BY Zenon DEF ScopeTarget
  <2>3. [e EXCEPT !.subs = subs].there = e.there
    BY Zenon DEF ScopeTarget
  <2> QED BY <2>1, <2>2, <2>3
<1>3. LET f == [e EXCEPT !.there = FALSE, !.subs = NoSubs, !.active = FALSE]
      IN f \in ScopeTarget /\ f.there = FALSE
  <2>1. NoSubs \in [Patterns -> {"none", "in", "out"}]
    BY DEF NoSubs
  <2>2. [e EXCEPT !.there = FALSE, !.subs = NoSubs, !.active = FALSE] \in ScopeTarget
    BY <2>1, Zenon DEF ScopeTarget
  <2>3. [e EXCEPT !.there = FALSE, !.subs = NoSubs, !.active = FALSE].there = FALSE
    BY SMT DEF ScopeTarget
  <2> QED BY <2>2, <2>3
<1> QED BY <1>1, <1>2, <1>3

LEMMA ScopeInvNext == ScopeInv /\ [ScopeNext]_scopeVars => ScopeInv'
<1> SUFFICES ASSUME ScopeInv, [ScopeNext]_scopeVars PROVE ScopeInv'
  OBVIOUS
<1>1. ASSUME NEW i \in Ids, NEW e \in ScopeTarget, scTargets' = [scTargets EXCEPT ![i] = e],
             e.there => e.domain \in Domains
      PROVE  ScopeInv'
  BY <1>1 DEF ScopeInv, There
<1>2. ASSUME NEW i \in Ids, NEW d \in Domains, NEW active \in BOOLEAN, AddTarget(i, d, active)
      PROVE  ScopeInv'
  <2> DEFINE e == [there |-> TRUE, domain |-> d, active |-> active, subs |-> NoSubs]
  <2>1. e \in ScopeTarget
    BY DEF ScopeTarget, NoSubs
  <2>2. scTargets' = [scTargets EXCEPT ![i] = e] /\ e.domain = d
    BY <1>2 DEF AddTarget
  <2> HIDE DEF e
  <2> QED BY <1>1, <2>1, <2>2
<1>3. ASSUME NEW i \in Ids, NEW d \in Domains, NEW active \in BOOLEAN, EditTarget(i, d, active)
      PROVE  ScopeInv'
  <2> DEFINE e == [scTargets[i] EXCEPT !.domain = d, !.active = active]
  <2>1. scTargets' = [scTargets EXCEPT ![i] = e]
    BY <1>3 DEF EditTarget, ScopeInv
  <2>2. scTargets[i] \in ScopeTarget /\ NoSubs \in [Patterns -> {"none", "in", "out"}]
    BY DEF ScopeInv, NoSubs
  <2>3. e \in ScopeTarget /\ e.domain = d
    <3>1. \A f \in BOOLEAN : LET g == [scTargets[i] EXCEPT !.domain = d, !.active = f]
                             IN g \in ScopeTarget /\ g.domain = d
      BY <2>2, TargetChanges
    <3> QED BY <3>1
  <2> HIDE DEF e
  <2> QED BY <1>1, <2>1, <2>3
<1>4. ASSUME NEW i \in Ids, DeleteTarget(i)
      PROVE  ScopeInv'
  <2> DEFINE e == [scTargets[i] EXCEPT !.there = FALSE, !.subs = NoSubs, !.active = FALSE]
  <2>1. scTargets' = [scTargets EXCEPT ![i] = e]
    BY <1>4 DEF DeleteTarget, ScopeInv
  <2>2. /\ scTargets[i] \in ScopeTarget /\ NoSubs \in [Patterns -> {"none", "in", "out"}]
        /\ scTargets[i].domain \in Domains
    BY <1>4 DEF ScopeInv, NoSubs, DeleteTarget, There
  <2>3. e \in ScopeTarget /\ e.there = FALSE
    BY <2>2, TargetChanges
  <2> HIDE DEF e
  <2> QED BY <1>1, <2>1, <2>3
<1>5. ASSUME NEW i \in Ids, NEW subs \in [Patterns -> {"none", "in", "out"}], SetTargetSubdomains(i, subs)
      PROVE  ScopeInv'
  <2> DEFINE e == [scTargets[i] EXCEPT !.subs = subs]
  <2>1. scTargets' = [scTargets EXCEPT ![i] = e]
    BY <1>5 DEF SetTargetSubdomains, ScopeInv
  <2>2. scTargets[i] \in ScopeTarget /\ scTargets[i].domain \in Domains
    BY <1>5 DEF ScopeInv, SetTargetSubdomains, There
  <2>3. e \in ScopeTarget /\ e.domain = scTargets[i].domain
    BY <2>2, TargetChanges
  <2> HIDE DEF e
  <2> QED BY <1>1, <2>1, <2>2, <2>3
<1>6. CASE UNCHANGED scopeVars
  BY <1>6 DEF scopeVars, ScopeInv, There
<1> QED BY <1>2, <1>3, <1>4, <1>5, <1>6 DEF ScopeNext

LEMMA ScopeInvInit == ScopeInit => ScopeInv
<1> SUFFICES ASSUME ScopeInit PROVE ScopeInv
  OBVIOUS
<1>1. \A i \in Ids : scTargets[i] = [there |-> FALSE, domain |-> AnyDomain, active |-> FALSE, subs |-> NoSubs]
  BY DEF ScopeInit, AnyDomain
<1>2. [there |-> FALSE, domain |-> AnyDomain, active |-> FALSE, subs |-> NoSubs] \in ScopeTarget
  BY DEF ScopeTarget, NoSubs
<1>3. scTargets \in [Ids -> ScopeTarget]
  BY <1>2 DEF ScopeInit, AnyDomain
<1>4. There = {}
  BY <1>1 DEF There
<1> QED BY <1>3, <1>4 DEF ScopeInv

(* In every behaviour: the two readers of the scope rules agree with the   *)
(* rules and, for hostnames in normal form, with each other (ScopeSound),  *)
(* for any domains, lists and wildcards of any number of targets; in scope *)
(* and without a target are only hostnames that are not.                   *)
THEOREM ScopeAlwaysSound == ScopeSpec => []ScopeSound
<1>1. ScopeInv => ScopeSound
  BY HasTarget, LongerExcludes DEF ScopeSound
<1> QED BY <1>1, ScopeInvInit, ScopeInvNext, PTL DEF ScopeSpec

-----------------------------------------------------------------------------
(***************************************************************************)
(* ScopeFeed: the list of in-scope subdomains.                             *)
(***************************************************************************)
WriteEntry ==
  [pc : {"idle", "sent", "inserting", "written", "answered", "dead"},
   list : SUBSET Subdomains, left : SUBSET Subdomains]

FeedType == sfWrite \in [ScopeWrites -> WriteEntry] /\ sfMixed \in BOOLEAN

Listed == {row.sub : row \in sfRows}

(* At most one request for the list is under way: before its DELETE the    *)
(* list acknowledged last stands, afterwards its own, but for the INSERTs  *)
(* it still has to make.                                                   *)
OneList ==
  /\ \A v, w \in ListWrites : Live(v) /\ Live(w) => v = w
  /\ \A w \in ListWrites : sfWrite[w].left # {} => sfWrite[w].pc = "inserting"
  /\ sfTarget # "deleted" =>
       /\ \A w \in ListWrites :
            sfWrite[w].pc = "inserting" => Listed \cup sfWrite[w].left = sfWrite[w].list
       /\ (\A w \in ListWrites : sfWrite[w].pc # "inserting") => Listed = sfAcked

FeedInv ==
  /\ FeedType
  /\ \A w \in ListWrites : sfWrite[w].pc # "written"
  /\ \A w \in ScopeWrites : sfWrite[w].pc = "inserting" => w \in ListWrites
  /\ ~sfMixed => OneList

LEMMA FeedInvInit == ScopeFeedInit => FeedInv
<1> SUFFICES ASSUME ScopeFeedInit PROVE FeedInv
  OBVIOUS
<1>1. FeedType
  BY DEF ScopeFeedInit, FeedType, WriteEntry
<1>2. Listed = sfAcked
  <2>1. ASSUME NEW s \in Subdomains PROVE s \in Listed
    <3>1. [sub |-> s, by |-> Seeded] \in sfRows /\ [sub |-> s, by |-> Seeded].sub = s
      BY DEF ScopeFeedInit
    <3> QED BY <3>1, Zenon DEF Listed
  <2>2. \A row \in sfRows : row.sub \in Subdomains
    BY DEF ScopeFeedInit
  <2> QED BY <2>1, <2>2 DEF ScopeFeedInit, Listed
<1>3. \A w \in ScopeWrites : sfWrite[w].pc = "idle" /\ sfWrite[w].left = {}
  BY DEF ScopeFeedInit
<1>4. ListWrites \subseteq ScopeWrites
  BY DEF ScopeWrites
<1>5. OneList
  BY <1>2, <1>3, <1>4 DEF OneList, Live
<1> QED BY <1>1, <1>3, <1>4, <1>5 DEF FeedInv

(* A change of one request's entry.                                        *)
LEMMA EntryOf ==
  ASSUME FeedType, NEW w \in ScopeWrites, NEW e \in WriteEntry, sfWrite' = [sfWrite EXCEPT ![w] = e]
  PROVE  /\ sfWrite' \in [ScopeWrites -> WriteEntry] /\ sfWrite'[w] = e
         /\ \A v \in ScopeWrites : v # w => sfWrite'[v] = sfWrite[v]
BY DEF FeedType

(* The requests that do not concern the list.                              *)
LEMMA OtherRequests ==
  ASSUME FeedInv, NEW w \in ScopeWrites, w \notin ListWrites, NEW e \in WriteEntry,
         e.pc # "inserting", sfWrite' = [sfWrite EXCEPT ![w] = e],
         sfTarget' # "deleted" => sfRows' = sfRows /\ sfTarget # "deleted",
         UNCHANGED <<sfAcked, sfMixed>>
  PROVE  FeedInv'
<1>1. /\ sfWrite' \in [ScopeWrites -> WriteEntry] /\ sfWrite'[w] = e
      /\ \A v \in ScopeWrites : v # w => sfWrite'[v] = sfWrite[v]
  BY EntryOf DEF FeedInv
<1>2. \A v \in ListWrites : v \in ScopeWrites /\ sfWrite'[v] = sfWrite[v]
  BY <1>1 DEF ScopeWrites
<1>3. \A v \in ListWrites : Live(v)' <=> Live(v)
  BY <1>2 DEF Live
<1>4. OneList => OneList'
  BY <1>2, <1>3 DEF OneList, Listed
<1> QED BY <1>1, <1>2, <1>4 DEF FeedInv, FeedType

LEMMA ScopeRequestKeeps ==
  ASSUME FeedInv, NEW w \in ScopeWrites, ScopeRequest(w)
  PROVE  FeedInv'
<1>1. PICK list \in SUBSET Subdomains :
        sfWrite' = [sfWrite EXCEPT ![w] = [pc |-> "sent", list |-> list, left |-> {}]]
  BY DEF ScopeRequest
<1>2. /\ sfWrite[w].pc = "idle"
      /\ sfMixed' = (sfMixed \/ (w \in ListWrites /\ \E v \in ListWrites : Live(v)))
      /\ UNCHANGED <<sfTarget, sfRows, sfAcked>>
  BY DEF ScopeRequest
<1> DEFINE e == [pc |-> "sent", list |-> list, left |-> {}]
<1>3. e \in WriteEntry /\ e.pc = "sent" /\ e.left = {}
  BY DEF WriteEntry
<1>4. sfWrite' = [sfWrite EXCEPT ![w] = e]
  BY <1>1
<1> HIDE DEF e
<1>5. /\ sfWrite' \in [ScopeWrites -> WriteEntry] /\ sfWrite'[w] = e
      /\ \A v \in ScopeWrites : v # w => sfWrite'[v] = sfWrite[v]
  BY <1>3, <1>4, EntryOf DEF FeedInv
<1>6. CASE w \notin ListWrites
  <2>1. sfMixed' = sfMixed
    BY <1>2, <1>6 DEF FeedInv, FeedType
  <2> QED BY <1>2, <1>3, <1>4, <1>6, <2>1, OtherRequests
<1>7. CASE w \in ListWrites
  <2>1. ASSUME ~sfMixed' PROVE OneList'
    <3>1. OneList /\ \A v \in ListWrites : ~Live(v)
      BY <1>2, <1>7, <2>1 DEF FeedInv
    <3>2. \A v \in ListWrites : v # w => ~Live(v)' /\ sfWrite'[v] = sfWrite[v]
      BY <1>5, <3>1 DEF Live, ScopeWrites
    <3>3. \A v \in ListWrites : sfWrite[v].pc # "inserting" /\ sfWrite[v].left = {}
      BY <3>1 DEF Live
    <3> QED BY <1>2, <1>3, <1>5, <3>1, <3>2, <3>3 DEF OneList, Listed
  <2>2. ListWrites \subseteq ScopeWrites /\ sfMixed' \in BOOLEAN
    BY <1>2, <1>7 DEF ScopeWrites, FeedInv, FeedType
  <2> QED BY <1>2, <1>3, <1>5, <1>7, <2>1, <2>2 DEF FeedInv, FeedType
<1> QED BY <1>6, <1>7

LEMMA DeleteSubdomainsKeeps ==
  ASSUME FeedInv, NEW w \in ListWrites, DbDeleteSubdomains(w)
  PROVE  FeedInv'
<1> DEFINE e == [sfWrite[w] EXCEPT !.pc = "inserting", !.left = sfWrite[w].list]
<1>1. w \in ScopeWrites /\ sfWrite[w] \in WriteEntry /\ ListWrites \subseteq ScopeWrites
  BY DEF ScopeWrites, FeedInv, FeedType
<1>2. /\ sfWrite[w].pc = "sent" /\ sfRows' = {}
      /\ sfWrite' = [sfWrite EXCEPT ![w].pc = "inserting", ![w].left = sfWrite[w].list]
      /\ UNCHANGED <<sfTarget, sfAcked, sfMixed>>
  BY DEF DbDeleteSubdomains, Cleared
<1>3. sfWrite' = [sfWrite EXCEPT ![w] = e]
  BY <1>1, <1>2 DEF FeedInv, FeedType
<1>4. e \in WriteEntry /\ e.pc = "inserting" /\ e.left = sfWrite[w].list /\ e.list = sfWrite[w].list
  BY <1>1 DEF WriteEntry
<1> HIDE DEF e
<1>5. /\ sfWrite' \in [ScopeWrites -> WriteEntry] /\ sfWrite'[w] = e
      /\ \A v \in ScopeWrites : v # w => sfWrite'[v] = sfWrite[v]
  BY <1>1, <1>3, <1>4, EntryOf DEF FeedInv
<1>6. ASSUME ~sfMixed PROVE OneList'
  <2>1. OneList /\ Live(w)
    BY <1>2, <1>6 DEF FeedInv, Live
  <2>2. \A v \in ListWrites : v # w => ~Live(v) /\ sfWrite'[v] = sfWrite[v] /\ ~Live(v)'
    BY <1>1, <1>5, <2>1 DEF OneList, Live
  <2>3. \A v \in ListWrites : v # w => sfWrite'[v].left = {} /\ sfWrite'[v].pc # "inserting"
    BY <2>2 DEF Live
  <2>4. Listed' = {}
    BY <1>2 DEF Listed
  <2> QED BY <1>4, <1>5, <2>2, <2>3, <2>4 DEF OneList
<1> QED BY <1>1, <1>2, <1>4, <1>5, <1>6 DEF FeedInv, FeedType

LEMMA InsertSubdomainKeeps ==
  ASSUME FeedInv, NEW w \in ListWrites, NEW s \in Subdomains, DbInsertSubdomain(w, s)
  PROVE  FeedInv'
<1> DEFINE e == [sfWrite[w] EXCEPT !.left = @ \ {s}]
<1>1. w \in ScopeWrites /\ sfWrite[w] \in WriteEntry /\ ListWrites \subseteq ScopeWrites
  BY DEF ScopeWrites, FeedInv, FeedType
<1>2. /\ s \in sfWrite[w].left /\ sfRows' = sfRows \cup {[sub |-> s, by |-> w]}
      /\ sfWrite' = [sfWrite EXCEPT ![w].left = @ \ {s}]
      /\ UNCHANGED <<sfTarget, sfAcked, sfMixed>>
  BY DEF DbInsertSubdomain
<1>3. sfWrite' = [sfWrite EXCEPT ![w] = e]
  BY <1>1, <1>2 DEF FeedInv, FeedType
<1>4. e \in WriteEntry /\ e.pc = sfWrite[w].pc /\ e.left = sfWrite[w].left \ {s} /\ e.list = sfWrite[w].list
  BY <1>1 DEF WriteEntry
<1> HIDE DEF e
<1>5. /\ sfWrite' \in [ScopeWrites -> WriteEntry] /\ sfWrite'[w] = e
      /\ \A v \in ScopeWrites : v # w => sfWrite'[v] = sfWrite[v]
  BY <1>1, <1>3, <1>4, EntryOf DEF FeedInv
<1>6. Listed' = Listed \cup {s}
  <2> DEFINE new == [sub |-> s, by |-> w]
  <2>1. new.sub = s /\ sfRows' = sfRows \cup {new}
    BY <1>2
  <2> HIDE DEF new
  <2> QED BY <2>1, Zenon DEF Listed
<1>7. ASSUME ~sfMixed PROVE OneList'
  <2>1. OneList /\ Live(w) /\ sfWrite[w].pc = "inserting"
    BY <1>2, <1>7 DEF FeedInv, OneList, Live
  <2>2. \A v \in ListWrites : v # w => ~Live(v) /\ sfWrite'[v] = sfWrite[v] /\ ~Live(v)'
    BY <1>1, <1>5, <2>1 DEF OneList, Live
  <2>3. \A v \in ListWrites : v # w => sfWrite'[v].left = {} /\ sfWrite'[v].pc # "inserting"
    BY <2>2 DEF Live
  <2>4. sfTarget # "deleted" => Listed' \cup e.left = e.list
    BY <1>2, <1>4, <1>6, <2>1 DEF OneList
  <2> QED BY <1>2, <1>4, <1>5, <2>1, <2>2, <2>3, <2>4 DEF OneList
<1> QED BY <1>1, <1>2, <1>4, <1>5, <1>7 DEF FeedInv, FeedType

LEMMA ScopeWrittenKeeps ==
  ASSUME FeedInv, NEW w \in ListWrites, ScopeWritten(w)
  PROVE  FeedInv'
<1> DEFINE e == [sfWrite[w] EXCEPT !.pc = "answered"]
<1>1. w \in ScopeWrites /\ sfWrite[w] \in WriteEntry /\ ListWrites \subseteq ScopeWrites
  BY DEF ScopeWrites, FeedInv, FeedType
<1>2. /\ sfWrite[w].pc = "inserting" /\ sfWrite[w].left = {}
      /\ sfWrite' = [sfWrite EXCEPT ![w].pc = "answered"] /\ sfAcked' = sfWrite[w].list
      /\ UNCHANGED <<sfTarget, sfRows, sfMixed>>
  BY DEF ScopeWritten, Sent, FeedInv
<1>3. sfWrite' = [sfWrite EXCEPT ![w] = e]
  BY <1>1, <1>2 DEF FeedInv, FeedType
<1>4. e \in WriteEntry /\ e.pc = "answered" /\ e.left = {}
  BY <1>1, <1>2 DEF WriteEntry
<1> HIDE DEF e
<1>5. /\ sfWrite' \in [ScopeWrites -> WriteEntry] /\ sfWrite'[w] = e
      /\ \A v \in ScopeWrites : v # w => sfWrite'[v] = sfWrite[v]
  BY <1>1, <1>3, <1>4, EntryOf DEF FeedInv
<1>6. ASSUME ~sfMixed PROVE OneList'
  <2>1. OneList /\ Live(w)
    BY <1>2, <1>6 DEF FeedInv, Live
  <2>2. \A v \in ListWrites : v # w => ~Live(v) /\ sfWrite'[v] = sfWrite[v] /\ ~Live(v)'
    BY <1>1, <1>5, <2>1 DEF OneList, Live
  <2>3. \A v \in ListWrites : v # w => sfWrite'[v].left = {} /\ sfWrite'[v].pc # "inserting"
    BY <2>2 DEF Live
  <2>4. ~Live(w)'
    BY <1>4, <1>5 DEF Live
  <2>5. sfTarget # "deleted" => Listed' = sfAcked'
    BY <1>2, <2>1 DEF OneList, Listed
  <2> QED BY <1>2, <1>4, <1>5, <2>2, <2>3, <2>4, <2>5 DEF OneList
<1> QED BY <1>1, <1>2, <1>4, <1>5, <1>6 DEF FeedInv, FeedType

(* A restart ends every request under way; one for the list mixes it.      *)
LEMMA ScopeRestartKeeps ==
  ASSUME FeedInv, ScopeRestart
  PROVE  FeedInv'
<1> DEFINE dead(w) == [sfWrite[w] EXCEPT !.pc = "dead", !.left = {}]
<1>1. /\ sfMixed' = (sfMixed \/ \E w \in ListWrites : Live(w))
      /\ sfWrite' = [w \in ScopeWrites |-> IF Live(w) THEN dead(w) ELSE sfWrite[w]]
      /\ UNCHANGED <<sfTarget, sfRows, sfAcked>>
  BY DEF ScopeRestart
<1>2. ASSUME NEW w \in ScopeWrites
      PROVE  dead(w) \in WriteEntry /\ dead(w).pc = "dead"
  <2>1. sfWrite[w] \in WriteEntry
    BY DEF FeedInv, FeedType
  <2> QED BY <2>1 DEF WriteEntry
<1> HIDE DEF dead
<1>3. sfWrite' \in [ScopeWrites -> WriteEntry] /\ sfMixed' \in BOOLEAN
  BY <1>1, <1>2 DEF FeedInv, FeedType
<1>4. ListWrites \subseteq ScopeWrites
  BY DEF ScopeWrites
<1>5. ASSUME ~sfMixed' PROVE OneList'
  <2>1. OneList /\ \A w \in ListWrites : ~Live(w) /\ sfWrite'[w] = sfWrite[w]
    BY <1>1, <1>4, <1>5 DEF FeedInv
  <2>2. \A w \in ListWrites : ~Live(w)'
    BY <2>1 DEF Live
  <2> QED BY <1>1, <2>1, <2>2 DEF OneList, Listed
<1> QED BY <1>1, <1>2, <1>3, <1>4, <1>5 DEF FeedInv, FeedType

LEMMA FeedInvNext == FeedInv /\ [ScopeFeedNext]_sfVars => FeedInv'
<1> SUFFICES ASSUME FeedInv, [ScopeFeedNext]_sfVars PROVE FeedInv'
  OBVIOUS
<1>1. ASSUME NEW w \in ScopeWrites, ScopeRequest(w) PROVE FeedInv'
  BY <1>1, ScopeRequestKeeps
<1>2. ASSUME NEW w \in ScopeWrites, w \notin ListWrites,
             DbUpdateActive(w) \/ DbDeleteTarget(w) \/ ScopeWritten(w)
      PROVE  FeedInv'
  <2>1. PICK to \in {"answered", "written"} : sfWrite' = [sfWrite EXCEPT ![w].pc = to]
    BY <1>2 DEF DbUpdateActive, DbDeleteTarget, ScopeWritten, Sent
  <2>2. /\ sfTarget' # "deleted" => sfRows' = sfRows /\ sfTarget # "deleted"
        /\ UNCHANGED <<sfAcked, sfMixed>>
    BY <1>2 DEF DbUpdateActive, DbDeleteTarget, ScopeWritten
  <2> DEFINE e == [sfWrite[w] EXCEPT !.pc = to]
  <2>3. sfWrite[w] \in WriteEntry
    BY DEF FeedInv, FeedType
  <2>4. e \in WriteEntry /\ e.pc # "inserting" /\ sfWrite' = [sfWrite EXCEPT ![w] = e]
    BY <2>1, <2>3 DEF WriteEntry, FeedInv, FeedType
  <2> HIDE DEF e
  <2> QED BY <1>2, <2>2, <2>4, OtherRequests
<1>3. ASSUME NEW w \in ListWrites, DbDeleteSubdomains(w) PROVE FeedInv'
  BY <1>3, DeleteSubdomainsKeeps
<1>4. ASSUME NEW w \in ListWrites, ScopeWritten(w) PROVE FeedInv'
  BY <1>4, ScopeWrittenKeeps
<1>5. ASSUME NEW w \in ListWrites, NEW s \in Subdomains, DbInsertSubdomain(w, s) PROVE FeedInv'
  BY <1>5, InsertSubdomainKeeps
<1>6. ASSUME NEW w \in ListWrites, NEW s \in Subdomains, InsertFails(w, s) PROVE FeedInv'
  <2> DEFINE e == [sfWrite[w] EXCEPT !.left = @ \ {s}, !.pc = "answered"]
  <2>1. sfMixed' = TRUE /\ sfWrite' = [sfWrite EXCEPT ![w].left = @ \ {s}, ![w].pc = "answered"]
    BY <1>6 DEF InsertFails
  <2>2. w \in ScopeWrites /\ sfWrite[w] \in WriteEntry /\ ListWrites \subseteq ScopeWrites
    BY DEF ScopeWrites, FeedInv, FeedType
  <2>3. sfWrite' = [sfWrite EXCEPT ![w] = e]
    BY <2>1, <2>2 DEF FeedInv, FeedType
  <2>4. e \in WriteEntry /\ e.pc = "answered"
    BY <2>2 DEF WriteEntry
  <2> HIDE DEF e
  <2> QED BY <2>1, <2>2, <2>3, <2>4, EntryOf DEF FeedInv, FeedType
<1>7. CASE ScopeRestart
  BY <1>7, ScopeRestartKeeps
<1>8. CASE VersionChanged \/ DbSelectScope \/ ScopeAnswered \/ UNCHANGED sfVars
  <2>1. UNCHANGED <<sfTarget, sfRows, sfWrite, sfAcked, sfMixed>>
    BY <1>8 DEF VersionChanged, DbSelectScope, ScopeAnswered, sfVars
  <2> QED BY <2>1 DEF FeedInv, FeedType, OneList, Listed, Live
<1>9. \A w \in ScopeWrites : DbUpdateActive(w) \/ DbDeleteTarget(w) => w \notin ListWrites
  BY ScopeFeedAssumption DEF DbUpdateActive, DbDeleteTarget
<1>10. \A w \in ScopeWrites : DbDeleteSubdomains(w) => w \in ListWrites
  BY DEF DbDeleteSubdomains
<1> QED BY <1>1, <1>2, <1>3, <1>4, <1>5, <1>6, <1>7, <1>8, <1>9, <1>10 DEF ScopeFeedNext

(* setTargetSubdomains deletes the list and inserts the new one statement  *)
(* by statement (targets.ts): for any lists and any number of requests, as *)
(* long as those for the list neither overlap nor fail half-way, the table *)
(* holds the one acknowledged last whenever none is under way.             *)
THEOREM LastListAlwaysStands == ScopeFeedSpec => []LastListStands
<1>1. FeedInv => LastListStands
  <2> SUFFICES ASSUME FeedInv, ~sfMixed, sfTarget # "deleted", \A w \in ListWrites : ~Live(w)
               PROVE  Listed = sfAcked
    BY DEF LastListStands, Listed
  <2>1. \A w \in ListWrites : sfWrite[w].pc # "inserting"
    BY DEF Live
  <2> QED BY <2>1 DEF FeedInv, OneList
<1> QED BY <1>1, FeedInvInit, FeedInvNext, PTL DEF ScopeFeedSpec

-----------------------------------------------------------------------------
(***************************************************************************)
(* Callbacks: the row and its triggers.                                    *)
(***************************************************************************)
RowType ==
  /\ cbRow \in [state : {"none", "stored", "deleted"}, single : BOOLEAN, count : Nat]
  /\ cbPc \in [Triggers -> {"idle", "select", "update", "call", "done", "refused"}]
  /\ cbDone \subseteq Triggers
  /\ cbPrior \in [Triggers -> SUBSET Triggers]

(* A callback for one trigger counts 0 until the first has updated the     *)
(* row; whoever read it before found no trigger done.                      *)
RowInv ==
  /\ RowType
  /\ cbRow.state = "none" => cbDone = {} /\ \A t \in Triggers : cbPc[t] # "update"
  /\ \A t \in cbDone : cbPc[t] \in {"call", "done"}
  /\ RowStored /\ cbRow.single =>
       /\ cbRow.count = 0 => cbDone = {}
       /\ \A t \in Triggers : t \in cbDone \/ cbPc[t] = "update" => cbPrior[t] = {}

LEMMA RowInvInit == CallbackInit => RowInv
BY DEF CallbackInit, RowInv, RowType, RowStored

LEMMA Increments ==
  ASSUME RowInv, RowStored, NEW t \in Triggers, cbRow' = [cbRow EXCEPT !.count = Count(t)]
  PROVE  /\ cbRow' \in [state : {"none", "stored", "deleted"}, single : BOOLEAN, count : Nat]
         /\ cbRow'.state = "stored" /\ cbRow'.single = cbRow.single
         /\ cbRow'.count # 0
<1>1. cbRow.count + 1 \in Nat /\ cbRow.count + 1 # 0
  BY DEF RowInv, RowType
<1> QED BY <1>1 DEF RowInv, RowType, RowStored, Count

LEMMA RowInvNext == RowInv /\ [CallbackNext]_callbackVars => RowInv'
<1> SUFFICES ASSUME RowInv, [CallbackNext]_callbackVars PROVE RowInv'
  OBVIOUS
<1> USE DEF RowStored
<1>1. CASE CreateCallback
  <2>1. PICK single \in BOOLEAN : cbRow' = [state |-> "stored", single |-> single, count |-> 0]
    BY <1>1 DEF CreateCallback
  <2>2. cbRow.state = "none" /\ UNCHANGED <<cbPc, cbDone, cbPrior>>
    BY <1>1 DEF CreateCallback
  <2> QED BY <2>1, <2>2 DEF RowInv, RowType
<1>2. CASE DeleteCallback
  <2>1. /\ cbRow' = [cbRow EXCEPT !.state = "deleted"] /\ UNCHANGED <<cbPc, cbDone, cbPrior>>
    BY <1>2 DEF DeleteCallback
  <2>2. /\ cbRow' \in [state : {"none", "stored", "deleted"}, single : BOOLEAN, count : Nat]
        /\ cbRow'.state = "deleted"
    BY <2>1 DEF RowInv, RowType
  <2> QED BY <2>1, <2>2 DEF RowInv, RowType
<1>3. ASSUME UNCHANGED <<cbRow, cbPc, cbDone, cbPrior>> PROVE RowInv'
  BY <1>3 DEF RowInv, RowType
<1>4. ASSUME NEW t \in Triggers, RowSelected(t) PROVE RowInv'
  <2>1. /\ cbPc[t] = "select" /\ cbPc' = [cbPc EXCEPT ![t] = "update"]
        /\ cbRow.state = "stored" /\ ~Spent(cbRow)
        /\ cbPrior' = [cbPrior EXCEPT ![t] = cbDone] /\ UNCHANGED <<cbRow, cbDone>>
    BY <1>4 DEF RowSelected, Move
  <2>2. cbRow.single => cbDone = {}
    BY <2>1 DEF RowInv, RowType, Spent
  <2>3. t \notin cbDone
    BY <2>1 DEF RowInv
  <2> QED BY <2>1, <2>2, <2>3 DEF RowInv, RowType
<1>5. ASSUME NEW t \in Triggers, RowUpdated(t) PROVE RowInv'
  <2>1. /\ cbPc[t] = "update" /\ cbDone' = cbDone \cup {t} /\ UNCHANGED cbPrior
        /\ \E to \in {"call", "done"} : cbPc' = [cbPc EXCEPT ![t] = to]
        /\ cbRow' = IF RowStored THEN [cbRow EXCEPT !.count = Count(t)] ELSE cbRow
    BY <1>5 DEF RowUpdated, Move
  <2>2. CASE RowStored
    BY <2>1, <2>2, Increments DEF RowInv, RowType
  <2>3. CASE ~RowStored
    BY <2>1, <2>3 DEF RowInv, RowType
  <2> QED BY <2>2, <2>3
<1>6. ASSUME NEW t \in Triggers, UpdateUnacknowledged(t) PROVE RowInv'
  <2>1. /\ RowStored /\ cbRow' = [cbRow EXCEPT !.count = Count(t)]
        /\ UNCHANGED <<cbPc, cbDone, cbPrior>>
    BY <1>6 DEF UpdateUnacknowledged
  <2> QED BY <2>1, Increments DEF RowInv, RowType
<1>7. ASSUME NEW t \in Triggers, NEW to \in {"select", "refused", "done"},
             cbPc[t] \notin {"call", "done"} \/ to = "done",
             cbPc' = [cbPc EXCEPT ![t] = to], UNCHANGED <<cbRow, cbDone, cbPrior>>
      PROVE  RowInv'
  BY <1>7 DEF RowInv, RowType
<1>8. ASSUME NEW t \in Triggers, HandleCallback(t) \/ Refused(t) \/ HandlerCalled(t) PROVE RowInv'
  BY <1>7, <1>8 DEF HandleCallback, Refused, HandlerCalled, Move
<1>9. ASSUME NEW c \in Chunks, NEW who \in Senders, ChunkArrives(c, who) PROVE RowInv'
  <2>1. UNCHANGED <<cbRow, cbDone, cbPrior>>
    BY <1>9 DEF ChunkArrives
  <2>2. UNCHANGED cbPc \/ \E t \in DnsTriggers : cbPc[t] = "idle" /\ cbPc' = [cbPc EXCEPT ![t] = "select"]
    BY <1>9 DEF ChunkArrives, Move
  <2>3. DnsTriggers \subseteq Triggers
    BY DEF Triggers
  <2> QED BY <1>3, <1>7, <2>1, <2>2, <2>3
<1>10. CASE SetHandler \/ TimePasses \/ SessionAges \/ CleanupTimer \/ DnsShutdown
  BY <1>3, <1>10 DEF SetHandler, TimePasses, SessionAges, CleanupTimer, DnsShutdown, cbVars
<1>11. CASE UNCHANGED callbackVars
  BY <1>3, <1>11 DEF callbackVars, cbVars
<1>12. HttpTriggers \subseteq Triggers
  BY DEF Triggers
<1> QED BY <1>1, <1>2, <1>4, <1>5, <1>6, <1>8, <1>9, <1>10, <1>11, <1>12 DEF CallbackNext, CallbackStep

(* A callback that does not allow multiple triggers is triggered again     *)
(* only by requests that read the row before any other had updated it      *)
(* (callbacks.ts): for any number of requests and of repeated UPDATEs.     *)
THEOREM SecondAlwaysOverlaps == CallbackSpec => []SecondOnlyOverlapping
<1>1. RowInv => SecondOnlyOverlapping
  BY DEF RowInv, RowType, SecondOnlyOverlapping
<1> QED BY <1>1, RowInvInit, RowInvNext, PTL DEF CallbackSpec

(***************************************************************************)
(* Callbacks: the sessions of the DNS service.                             *)
(***************************************************************************)
Gone(n) == dnsExpired \cap 1..n # {}
Present(n) == dnsSession # NoSession /\ dnsSession.id = n

(* The session in the buffer is the last that was begun.  A transfer being *)
(* finalized has a complete session of its own.                            *)
SessionInv ==
  /\ cbPc \in [Triggers -> {"idle", "select", "update", "call", "done", "refused"}]
  /\ dnsStarted \in Nat /\ dnsExpired \subseteq Nat
  /\ dnsHeld \in [DnsTriggers -> Nat]
  /\ dnsSession \in Session \cup {NoSession}
  /\ dnsSession # NoSession => dnsSession.id = dnsStarted /\ dnsStarted > 0
  /\ \A t \in DnsTriggers :
       /\ dnsHeld[t] <= dnsStarted
       /\ cbPc[t] \in {"select", "update"} => dnsHeld[t] # 0
       /\ dnsHeld[t] # 0 /\ Present(dnsHeld[t]) => dnsSession.received >= Total
       /\ dnsHeld[t] # 0 => Gone(dnsHeld[t]) \/ Present(dnsHeld[t])
       /\ \A u \in DnsTriggers : dnsHeld[t] # 0 /\ dnsHeld[u] = dnsHeld[t] => u = t

LEMMA SessionInvInit == CallbackInit => SessionInv
BY DEF CallbackInit, SessionInv, Triggers

LEMMA FillFacts ==
  ASSUME NEW s \in Session, NEW c \in Chunks, NEW who \in Senders
  PROVE  /\ Fill(s, c, who) \in Session /\ Fill(s, c, who) # NoSession
         /\ Fill(s, c, who).id = s.id
         /\ Fill(s, c, who).received \in {s.received, s.received + 1}
<1>1. CASE s.chunks[c] # NoChunk
  <2> DEFINE f == [s EXCEPT !.old = FALSE]
  <2>1. Fill(s, c, who) = f
    BY <1>1 DEF Fill
  <2>2. f \in Session
    BY Zenon DEF Session
  <2>3. f.id = s.id /\ f.received = s.received
    BY SMT DEF Session
  <2> HIDE DEF f
  <2> QED BY <2>1, <2>2, <2>3, CallbackAssumption
<1>2. CASE s.chunks[c] = NoChunk
  <2> DEFINE chunks == [s.chunks EXCEPT ![c] = who]
             f == [s EXCEPT !.chunks = chunks, !.received = @ + 1, !.old = FALSE]
  <2>1. Fill(s, c, who) = f
    BY <1>2 DEF Fill
  <2>2. s.received + 1 \in Nat /\ chunks \in [Chunks -> Senders \cup {NoChunk}]
    BY DEF Session
  <2> HIDE DEF chunks
  <2>3. f \in Session
    BY <2>2, Zenon DEF Session
  <2>4. f.id = s.id /\ f.received = s.received + 1
    BY SMT DEF Session
  <2> HIDE DEF f
  <2> QED BY <2>1, <2>3, <2>4, CallbackAssumption
<1> QED BY <1>1, <1>2

(* A trigger ends: the finally removes the session in the buffer, which is *)
(* its own, or the last one begun after a session expired.                 *)
LEMMA TriggerEnds ==
  ASSUME SessionInv, NEW t \in Triggers, cbPc[t] \in {"select", "update"},
         NEW to \in {"call", "done", "refused"}, cbPc' = [cbPc EXCEPT ![t] = to],
         TransferEnded(t), UNCHANGED <<dnsStarted, dnsExpired>>
  PROVE  SessionInv'
<1>1. CASE t \in DnsTriggers
  <2>1. dnsSession' = NoSession /\ dnsHeld' = [dnsHeld EXCEPT ![t] = 0]
    BY <1>1 DEF TransferEnded
  <2>2. ASSUME NEW u \in DnsTriggers, u # t, dnsHeld[u] # 0 PROVE Gone(dnsHeld[u])
    <3>1. CASE Gone(dnsHeld[u])
      BY <3>1
    <3>2. CASE ~Gone(dnsHeld[u])
      <4>1. Present(dnsHeld[u]) /\ dnsHeld[u] = dnsStarted
        BY <2>2, <3>2 DEF SessionInv, Present
      <4>2. dnsHeld[t] # 0 /\ dnsHeld[t] # dnsHeld[u]
        BY <1>1, <2>2 DEF SessionInv
      <4>3. Gone(dnsHeld[t]) /\ dnsHeld[t] \in Nat /\ dnsHeld[t] <= dnsHeld[u] /\ dnsHeld[u] \in Nat
        BY <1>1, <4>1, <4>2 DEF SessionInv, Present
      <4> QED BY <4>3 DEF Gone
    <3> QED BY <3>1, <3>2
  <2>3. dnsHeld' \in [DnsTriggers -> Nat] /\ dnsHeld'[t] = 0
    BY <1>1, <2>1 DEF SessionInv
  <2>4. \A u \in DnsTriggers : u # t => dnsHeld'[u] = dnsHeld[u] /\ cbPc'[u] = cbPc[u]
    BY <2>1 DEF SessionInv, Triggers
  <2>5. /\ cbPc' \in [Triggers -> {"idle", "select", "update", "call", "done", "refused"}]
        /\ cbPc'[t] = to
    BY DEF SessionInv
  <2>6. ASSUME NEW u \in DnsTriggers
        PROVE  /\ dnsHeld'[u] <= dnsStarted'
               /\ cbPc'[u] \in {"select", "update"} => dnsHeld'[u] # 0
               /\ dnsHeld'[u] # 0 => Gone(dnsHeld[u])' /\ dnsHeld'[u] = dnsHeld[u] /\ u # t
    <3>1. CASE u = t
      BY <2>3, <2>5, <3>1 DEF SessionInv
    <3>2. CASE u # t
      BY <2>2, <2>4, <3>2 DEF SessionInv, Gone
    <3> QED BY <3>1, <3>2
  <2>7. \A u, v \in DnsTriggers : dnsHeld'[u] # 0 /\ dnsHeld'[v] = dnsHeld'[u] => v = u
    BY <2>6 DEF SessionInv
  <2>8. ~Present(1)' /\ \A n : ~Present(n)'
    BY <2>1 DEF Present
  <2>9. \A u \in DnsTriggers : Gone(dnsHeld[u])' <=> dnsExpired' \cap 1..dnsHeld'[u] # {}
    BY DEF Gone
  <2> QED BY <2>1, <2>3, <2>5, <2>6, <2>7 DEF SessionInv, Present, Gone
<1>2. CASE t \notin DnsTriggers
  <2>1. UNCHANGED <<dnsSession, dnsHeld>>
    BY <1>2 DEF TransferEnded
  <2>2. \A u \in DnsTriggers : u \in Triggers /\ cbPc'[u] = cbPc[u]
    BY <1>2 DEF SessionInv, Triggers
  <2>3. cbPc' \in [Triggers -> {"idle", "select", "update", "call", "done", "refused"}]
    BY DEF SessionInv
  <2> QED BY <2>1, <2>2, <2>3 DEF SessionInv, Present, Gone
<1> QED BY <1>1, <1>2

(* The timer and a stop empty the buffer; whoever holds its session is     *)
(* among the expired.                                                      *)
LEMMA BufferExpires ==
  ASSUME SessionInv, dnsSession' = NoSession,
         dnsExpired' = IF dnsSession = NoSession THEN dnsExpired ELSE Expired(dnsSession),
         UNCHANGED <<cbPc, dnsHeld, dnsStarted>>
  PROVE  SessionInv'
<1>1. dnsExpired \subseteq dnsExpired' /\ dnsExpired' \subseteq Nat
  BY DEF SessionInv, Expired
<1>2. ASSUME NEW t \in DnsTriggers, dnsHeld[t] # 0 PROVE dnsExpired' \cap 1..dnsHeld[t] # {}
  <2>1. CASE Gone(dnsHeld[t])
    BY <1>1, <2>1 DEF Gone
  <2>2. CASE Present(dnsHeld[t])
    <3>1. dnsHeld[t] \in dnsExpired'
      BY <2>2 DEF Present, Expired
    <3> QED BY <1>2, <3>1 DEF SessionInv
  <2> QED BY <1>2, <2>1, <2>2 DEF SessionInv
<1> QED BY <1>1, <1>2 DEF SessionInv, Present, Gone

(* A chunk arrives.                                                        *)
LEMMA ChunkKeeps ==
  ASSUME SessionInv, NEW c \in Chunks, NEW who \in Senders, ChunkArrives(c, who)
  PROVE  SessionInv'
<1> DEFINE s == IF dnsSession = NoSession THEN NewSession ELSE dnsSession
           f == Fill(s, c, who)
           complete == f.received = Total /\ f.received # s.received
<1>1. /\ s \in Session /\ s.id \in Nat \ {0} /\ s.received \in Nat /\ s.id >= dnsStarted
      /\ dnsSession = NoSession => s.id = dnsStarted + 1
      /\ dnsSession # NoSession => s = dnsSession /\ s.id = dnsStarted
  <2>1. NewSession \in Session /\ NewSession.id = dnsStarted + 1
    BY DEF SessionInv, NewSession, Session
  <2> QED BY <2>1 DEF SessionInv, Session
<1>2. f \in Session /\ f # NoSession /\ f.id = s.id /\ f.received \in {s.received, s.received + 1}
  BY <1>1, FillFacts
<1>3. /\ dnsStarted' = s.id /\ UNCHANGED dnsExpired
      /\ \/ ~complete /\ dnsSession' = f /\ UNCHANGED <<cbPc, dnsHeld>>
         \/ /\ complete /\ dnsSession' = f
            /\ \E t \in DnsTriggers : /\ cbPc[t] = "idle" /\ cbPc' = [cbPc EXCEPT ![t] = "select"]
                                      /\ dnsHeld' = [dnsHeld EXCEPT ![t] = s.id]
         \/ complete /\ dnsSession' = NoSession /\ UNCHANGED <<cbPc, dnsHeld>>
  BY <1>1 DEF ChunkArrives, WhileFinalizing, Move
<1>4. ASSUME NEW t \in DnsTriggers, dnsHeld[t] # 0
      PROVE  /\ dnsHeld[t] <= s.id
             /\ dnsHeld[t] = s.id => s.received >= Total /\ ~complete
             /\ Gone(dnsHeld[t]) \/ dnsHeld[t] = s.id
  <2>1. CASE dnsSession = NoSession
    BY <1>1, <1>4, <2>1 DEF SessionInv, Present
  <2>2. CASE dnsSession # NoSession
    <3>1. dnsHeld[t] = s.id => s.received >= Total
      BY <1>1, <1>4, <2>2 DEF SessionInv, Present
    <3>2. s.received >= Total => ~complete
      BY <1>1, <1>2, CallbackAssumption
    <3> QED BY <1>1, <1>4, <2>2, <3>1, <3>2 DEF SessionInv, Present
  <2> QED BY <2>1, <2>2
<1> HIDE DEF s, f
<1>5. /\ dnsStarted' \in Nat /\ dnsStarted' > 0 /\ dnsExpired' \subseteq Nat
      /\ dnsSession' \in Session \cup {NoSession}
      /\ dnsSession' # NoSession => dnsSession' = f /\ dnsSession'.id = dnsStarted'
  BY <1>1, <1>2, <1>3 DEF SessionInv
<1>6. CASE ~complete /\ dnsSession' = f /\ UNCHANGED <<cbPc, dnsHeld>>
  <2>1. s.received \in Nat /\ f.received >= s.received
    BY <1>1, <1>2
  <2>2. f.received \in Nat /\ Total \in Nat
    BY <1>1, <1>2, CallbackAssumption
  <2>3. ASSUME NEW t \in DnsTriggers
        PROVE  /\ dnsHeld'[t] <= dnsStarted'
               /\ dnsHeld'[t] # 0 /\ Present(dnsHeld[t])' => dnsSession'.received >= Total
               /\ dnsHeld'[t] # 0 => Gone(dnsHeld[t])' \/ Present(dnsHeld[t])'
    BY <1>1, <1>2, <1>3, <1>4, <1>6, <2>1, <2>2, CallbackAssumption DEF SessionInv, Present, Gone
  <2> QED BY <1>5, <1>6, <2>3 DEF SessionInv, Present, Gone
<1>7. CASE complete /\ dnsSession' = NoSession /\ UNCHANGED <<cbPc, dnsHeld>>
  <2>1. ASSUME NEW t \in DnsTriggers
        PROVE  /\ dnsHeld'[t] <= dnsStarted'
               /\ dnsHeld'[t] # 0 => dnsExpired' \cap 1..dnsHeld'[t] # {}
    BY <1>1, <1>3, <1>4, <1>7 DEF SessionInv, Gone
  <2> QED BY <1>5, <1>7, <2>1 DEF SessionInv, Present, Gone
<1>8. ASSUME complete, dnsSession' = f, NEW t \in DnsTriggers, cbPc' = [cbPc EXCEPT ![t] = "select"],
             dnsHeld' = [dnsHeld EXCEPT ![t] = s.id]
      PROVE  SessionInv'
  <2>1. /\ dnsHeld' \in [DnsTriggers -> Nat] /\ dnsHeld'[t] = s.id
        /\ \A u \in DnsTriggers : u # t => dnsHeld'[u] = dnsHeld[u] /\ cbPc'[u] = cbPc[u]
    BY <1>1, <1>8 DEF SessionInv, Triggers
  <2>2. cbPc' \in [Triggers -> {"idle", "select", "update", "call", "done", "refused"}]
    BY <1>8 DEF SessionInv
  <2>3. f.received >= Total
    BY <1>8, CallbackAssumption
  <2>4. ASSUME NEW u \in DnsTriggers, u # t
        PROVE  /\ dnsHeld'[u] <= dnsStarted' /\ dnsHeld'[u] # s.id
               /\ cbPc'[u] \in {"select", "update"} => dnsHeld'[u] # 0
               /\ dnsHeld'[u] # 0 => dnsExpired' \cap 1..dnsHeld'[u] # {}
    <3>1. CASE dnsHeld[u] = 0
      BY <1>1, <1>3, <2>1, <2>4, <3>1 DEF SessionInv
    <3>2. CASE dnsHeld[u] # 0
      BY <1>1, <1>3, <1>4, <1>8, <2>1, <2>4, <3>2 DEF SessionInv, Gone
    <3> QED BY <3>1, <3>2
  <2>5. ASSUME NEW u \in DnsTriggers
        PROVE  /\ dnsHeld'[u] <= dnsStarted'
               /\ cbPc'[u] \in {"select", "update"} => dnsHeld'[u] # 0
               /\ dnsHeld'[u] # 0 => dnsExpired' \cap 1..dnsHeld'[u] # {} \/ dnsHeld'[u] = dnsSession'.id
    BY <1>1, <1>2, <1>3, <1>8, <2>1, <2>4
  <2>6. \A u, v \in DnsTriggers : dnsHeld'[u] # 0 /\ dnsHeld'[v] = dnsHeld'[u] => v = u
    BY <2>1, <2>4 DEF SessionInv
  <2>7. dnsSession' # NoSession
    BY <1>2, <1>8
  <2> QED BY <1>5, <1>8, <2>1, <2>2, <2>3, <2>5, <2>6, <2>7 DEF SessionInv, Present, Gone
<1> QED BY <1>3, <1>6, <1>7, <1>8

LEMMA SessionInvNext == SessionInv /\ [CallbackNext]_callbackVars => SessionInv'
<1> SUFFICES ASSUME SessionInv, [CallbackNext]_callbackVars PROVE SessionInv'
  OBVIOUS
<1>1. ASSUME UNCHANGED <<cbPc, dnsSession, dnsHeld, dnsStarted, dnsExpired>> PROVE SessionInv'
  BY <1>1 DEF SessionInv, Present, Gone
<1>2. ASSUME NEW t \in Triggers, NEW to \in {"select", "update", "done"},
             to = "select" => t \notin DnsTriggers, to = "update" => cbPc[t] = "select",
             cbPc' = [cbPc EXCEPT ![t] = to], UNCHANGED dnsVars
      PROVE  SessionInv'
  <2>1. cbPc' \in [Triggers -> {"idle", "select", "update", "call", "done", "refused"}]
    BY <1>2 DEF SessionInv
  <2>2. \A u \in DnsTriggers : cbPc'[u] \in {"select", "update"} => cbPc[u] \in {"select", "update"}
    BY <1>2 DEF SessionInv, Triggers
  <2>3. UNCHANGED <<dnsSession, dnsHeld, dnsStarted, dnsExpired>>
    BY <1>2 DEF dnsVars
  <2> QED BY <2>1, <2>2, <2>3 DEF SessionInv, Present, Gone
<1>3. CASE CreateCallback \/ DeleteCallback \/ SetHandler \/ TimePasses
  BY <1>1, <1>3 DEF CreateCallback, DeleteCallback, SetHandler, TimePasses, dnsVars
<1>4. ASSUME NEW t \in HttpTriggers, HandleCallback(t) PROVE SessionInv'
  <2>1. t \in Triggers /\ t \notin DnsTriggers
    BY CallbackAssumption DEF Triggers
  <2> QED BY <1>2, <1>4, <2>1 DEF HandleCallback, Move
<1>5. ASSUME NEW t \in Triggers, RowSelected(t) \/ HandlerCalled(t) PROVE SessionInv'
  BY <1>2, <1>5 DEF RowSelected, HandlerCalled, Move
<1>6. ASSUME NEW t \in Triggers, Refused(t) PROVE SessionInv'
  BY <1>6, TriggerEnds DEF Refused, Move
<1>7. ASSUME NEW t \in Triggers, RowUpdated(t) PROVE SessionInv'
  <2>1. \E to \in {"call", "done", "refused"} : cbPc' = [cbPc EXCEPT ![t] = to]
    BY <1>7 DEF RowUpdated, Move
  <2>2. /\ cbPc[t] \in {"select", "update"} /\ TransferEnded(t)
        /\ UNCHANGED <<dnsStarted, dnsExpired>>
    BY <1>7 DEF RowUpdated
  <2> QED BY <2>1, <2>2, TriggerEnds
<1>8. ASSUME NEW t \in Triggers, UpdateUnacknowledged(t) PROVE SessionInv'
  BY <1>1, <1>8 DEF UpdateUnacknowledged, dnsVars
<1>9. ASSUME NEW c \in Chunks, NEW who \in Senders, ChunkArrives(c, who) PROVE SessionInv'
  BY <1>9, ChunkKeeps
<1>10. CASE SessionAges
  <2>1. /\ dnsSession # NoSession /\ dnsSession' = [dnsSession EXCEPT !.old = TRUE]
        /\ UNCHANGED <<cbPc, dnsHeld, dnsStarted, dnsExpired>>
    BY <1>10 DEF SessionAges, cbVars
  <2>2. dnsSession \in Session
    BY <2>1 DEF SessionInv
  <2>3. dnsSession' \in Session
    BY <2>1, <2>2, Zenon DEF Session
  <2>4. dnsSession'.id = dnsSession.id /\ dnsSession'.received = dnsSession.received
    BY <2>1, <2>2, SMT DEF Session
  <2>5. dnsSession' # NoSession
    BY <2>3, CallbackAssumption
  <2> QED BY <2>1, <2>3, <2>4, <2>5 DEF SessionInv, Present, Gone
<1>11. CASE CleanupTimer
  BY <1>11, BufferExpires DEF CleanupTimer, cbVars
<1>12. CASE DnsShutdown
  BY <1>12, BufferExpires DEF DnsShutdown, cbVars
<1>13. CASE UNCHANGED callbackVars
  BY <1>1, <1>13 DEF callbackVars, cbVars, dnsVars
<1> QED BY <1>3, <1>4, <1>5, <1>6, <1>7, <1>8, <1>9, <1>10, <1>11, <1>12, <1>13
        DEF CallbackNext, CallbackStep

(* The finally of finalizeTransfer removes by key (dns.ts): for any number *)
(* of transfers and senders it removes another transfer's session only     *)
(* after the timer or a stop took one that was still being finalized.      *)
THEOREM FinallyRemovesItsOwn == CallbackSpec => []RemovesItsOwn
<1>1. SessionInv => RemovesItsOwn
  BY DEF SessionInv, RemovesItsOwn, Gone, Present
<1> QED BY <1>1, SessionInvInit, SessionInvNext, PTL DEF CallbackSpec

-----------------------------------------------------------------------------
(***************************************************************************)
(* The commands of an execution (TaskCommands).  A placeholder may stand   *)
(* in an array of the execution only until the step that replaces it, and  *)
(* what replaced it is of the execution's own target: the array outlives   *)
(* the assignment, its target does not change.                             *)
(***************************************************************************)

Brought(c) == \E k \in DOMAIN CustomValue : c = CustomValue[k]

(* A command of target t's, or of none.                                    *)
Ours(c, t) == c[1] \in {"agent", "domain"} => c[2] \in {t, Untargeted}

(* The placeholders that may be left after the tools are replaced, after   *)
(* the target is, and after the custom data is.                            *)
ToolsDone(c) == c[1] = "{tool}" => c[2] \notin RequiredTools
TargetDone(c, seen) == c[1] # "{agent}" /\ (c[1] = "{domain}" => seen = Untargeted)
CustomDone(c) == c[1] = "{custom}" => c[2] \notin DOMAIN CustomValue

OursIn(commands, t) == \A c \in commands : Brought(c) \/ Ours(c, t)
ToolsDoneIn(commands) == \A c \in commands : Brought(c) \/ ToolsDone(c)
TargetDoneIn(commands, seen) == \A c \in commands : Brought(c) \/ TargetDone(c, seen)
Final(commands, t, seen) ==
  \A c \in commands :
    Brought(c) \/ (Ours(c, t) /\ ToolsDone(c) /\ TargetDone(c, seen) /\ CustomDone(c))

(* How far the arrays are that the assignment under way has.               *)
Staged(commands, t, seen, step) ==
  /\ step \in {"target", "custom"} => OursIn(commands, t) /\ ToolsDoneIn(commands)
  /\ step = "custom" => TargetDoneIn(commands, seen)
  /\ step = "send" => OursIn(commands, t) /\ Final(commands, t, seen)

Job == [execution : 0..MaxExecutions, worker : Workers \cup {""}, object : 0..Clone,
        step : {"", "target", "custom", "send"}]

CommandsType ==
  /\ tcHeap = [o \in 0..Clone |-> tcHeap[o]]
  /\ tcState \in [Executions -> {"none", "pending", "running", "ended", "dropped"}]
  /\ tcTarget \in [Executions -> Targets \cup {Untargeted}]
  /\ tcJob \in Job
  /\ tcSeen \in [Executions -> Targets \cup {Untargeted}]
  /\ tcSent = [e \in Executions |-> tcSent[e]]

JobStaged ==
  tcJob.step # "" =>
    /\ tcJob.execution \in Executions /\ tcState[tcJob.execution] = "pending"
    /\ tcJob.object \in {tcJob.execution, Clone}
    /\ Staged(tcHeap[tcJob.object], tcTarget[tcJob.execution], tcSeen[tcJob.execution], tcJob.step)

CommandsInv ==
  /\ CommandsType
  /\ tcHeap[0] = Commands
  /\ \A e \in Executions : tcState[e] # "none" => OursIn(tcHeap[e], tcTarget[e])
  /\ JobStaged
  /\ \A e \in Executions : tcState[e] = "running" => Final(tcSent[e], tcTarget[e], tcSeen[e])

LEMMA ToolReplacedFacts ==
  ASSUME NEW c, NEW t, NEW missing, Brought(c) \/ Ours(c, t)
  PROVE  LET d == ToolReplaced(c, missing)
         IN (Brought(d) \/ Ours(d, t)) /\ (Brought(d) \/ ToolsDone(d))
BY DEF ToolReplaced, KnownTools, Ours, ToolsDone

(* The target the builder finds for t in the snapshot.                     *)
Found(t) == IF Known(t) THEN t ELSE Untargeted

LEMMA TargetReplacedFacts ==
  ASSUME NEW c, NEW t \in Targets \cup {Untargeted},
         Brought(c) \/ Ours(c, t), Brought(c) \/ ToolsDone(c),
         NEW d, d = TargetReplaced(c, t)
  PROVE  /\ Brought(d) \/ Ours(d, t)
         /\ Brought(d) \/ ToolsDone(d)
         /\ Brought(d) \/ TargetDone(d, Found(t))
<1>1. CASE c[1] = "{agent}"
  <2>1. d \in {<<"agent", t, tcSnapshot[t]>>, <<"agent", Untargeted, 0>>}
    BY <1>1 DEF TargetReplaced
  <2>2. d[1] = "agent" /\ d[2] \in {t, Untargeted}
    BY <2>1
  <2>3. Ours(d, t) /\ ToolsDone(d) /\ TargetDone(d, Found(t))
    BY <2>2 DEF Ours, ToolsDone, TargetDone
  <2> QED BY <2>3
<1>2. CASE c[1] = "{domain}" /\ Known(t)
  <2>1. d = <<"domain", t, 0>>
    BY <1>2 DEF TargetReplaced
  <2>2. d[1] = "domain" /\ d[2] = t
    BY <2>1
  <2> QED BY <2>2 DEF Ours, ToolsDone, TargetDone
<1>3. CASE c[1] # "{agent}" /\ ~(c[1] = "{domain}" /\ Known(t))
  <2>1. d = c
    BY <1>3 DEF TargetReplaced
  <2>2. TargetDone(c, Found(t))
    BY <1>3 DEF TargetDone, Found
  <2> QED BY <2>1, <2>2
<1> QED BY <1>1, <1>2, <1>3

LEMMA CustomReplacedFacts ==
  ASSUME NEW c, NEW t \in Targets \cup {Untargeted}, NEW seen,
         Brought(c) \/ Ours(c, t), Brought(c) \/ ToolsDone(c), Brought(c) \/ TargetDone(c, seen),
         NEW d, d = CustomReplaced(c)
  PROVE  /\ Brought(d) \/ Ours(d, t)
         /\ Brought(d) \/ (Ours(d, t) /\ ToolsDone(d) /\ TargetDone(d, seen) /\ CustomDone(d))
<1> DEFINE v == IF c[1] = "{custom}" /\ c[2] \in DOMAIN CustomValue THEN CustomValue[c[2]] ELSE c
<1>1. d = IF v[1] = "{agent}" THEN <<"agent", Untargeted, 0>> ELSE v
  BY DEF CustomReplaced
<1>2. CASE v[1] = "{agent}"
  <2>1. d = <<"agent", Untargeted, 0>>
    BY <1>1, <1>2
  <2>2. d[1] = "agent" /\ d[2] = Untargeted
    BY <2>1
  <2>3. Ours(d, t) /\ ToolsDone(d) /\ TargetDone(d, seen) /\ CustomDone(d)
    BY <2>2 DEF Ours, ToolsDone, TargetDone, CustomDone
  <2> QED BY <2>3
<1>3. CASE v[1] # "{agent}" /\ c[1] = "{custom}" /\ c[2] \in DOMAIN CustomValue
  <2>1. d = CustomValue[c[2]]
    BY <1>1, <1>3
  <2> QED BY <1>3, <2>1 DEF Brought
<1>4. CASE v[1] # "{agent}" /\ ~(c[1] = "{custom}" /\ c[2] \in DOMAIN CustomValue)
  <2>1. d = c
    BY <1>1, <1>4
  <2>2. CustomDone(c)
    BY <1>4 DEF CustomDone
  <2> QED BY <2>1, <2>2
<1> QED BY <1>2, <1>3, <1>4

LEMMA WithInstallsFacts ==
  ASSUME NEW commands, NEW missing, NEW t, OursIn(commands, t)
  PROVE  OursIn(WithInstalls(missing, commands), t)
<1> SUFFICES ASSUME NEW c \in WithInstalls(missing, commands) PROVE Brought(c) \/ Ours(c, t)
  BY DEF OursIn
<1>1. CASE c \in commands
  BY <1>1 DEF OursIn
<1>2. CASE c \notin commands
  <2>1. c[1] = "install"
    BY <1>2 DEF WithInstalls
  <2> QED BY <2>1 DEF Ours
<1> QED BY <1>1, <1>2

(* The three replacements, on whole arrays.                                *)
LEMMA ArraysReplaced ==
  ASSUME NEW commands, NEW missing, NEW t \in Targets \cup {Untargeted}, NEW seen
  PROVE  /\ OursIn(commands, t) =>
              Staged({ToolReplaced(c, missing) : c \in commands}, t, seen, "target")
         /\ Staged(commands, t, seen, "target") =>
              Staged({TargetReplaced(c, t) : c \in commands}, t, Found(t), "custom")
         /\ Staged(commands, t, seen, "custom") =>
              Staged({CustomReplaced(c) : c \in commands}, t, seen, "send")
<1>1. ASSUME OursIn(commands, t)
      PROVE  Staged({ToolReplaced(c, missing) : c \in commands}, t, seen, "target")
  <2>1. \A c \in commands : Brought(c) \/ Ours(c, t)
    BY <1>1 DEF OursIn
  <2>2. \A c \in commands : /\ Brought(ToolReplaced(c, missing)) \/ Ours(ToolReplaced(c, missing), t)
                            /\ Brought(ToolReplaced(c, missing)) \/ ToolsDone(ToolReplaced(c, missing))
    BY <2>1, ToolReplacedFacts
  <2> QED BY <2>2 DEF Staged, OursIn, ToolsDoneIn
<1>2. ASSUME Staged(commands, t, seen, "target")
      PROVE  Staged({TargetReplaced(c, t) : c \in commands}, t, Found(t), "custom")
  <2>1. \A c \in commands : (Brought(c) \/ Ours(c, t)) /\ (Brought(c) \/ ToolsDone(c))
    BY <1>2 DEF Staged, OursIn, ToolsDoneIn
  <2>2. \A c \in commands : /\ Brought(TargetReplaced(c, t)) \/ Ours(TargetReplaced(c, t), t)
                            /\ Brought(TargetReplaced(c, t)) \/ ToolsDone(TargetReplaced(c, t))
                            /\ Brought(TargetReplaced(c, t)) \/ TargetDone(TargetReplaced(c, t), Found(t))
    BY <2>1, TargetReplacedFacts
  <2> QED BY <2>2 DEF Staged, OursIn, ToolsDoneIn, TargetDoneIn
<1>3. ASSUME Staged(commands, t, seen, "custom")
      PROVE  Staged({CustomReplaced(c) : c \in commands}, t, seen, "send")
  <2>1. \A c \in commands : /\ Brought(c) \/ Ours(c, t)
                            /\ Brought(c) \/ ToolsDone(c)
                            /\ Brought(c) \/ TargetDone(c, seen)
    BY <1>3 DEF Staged, OursIn, ToolsDoneIn, TargetDoneIn
  <2>2. \A c \in commands : LET d == CustomReplaced(c)
         IN /\ Brought(d) \/ Ours(d, t)
            /\ Brought(d) \/ (Ours(d, t) /\ ToolsDone(d) /\ TargetDone(d, seen) /\ CustomDone(d))
    BY <2>1, CustomReplacedFacts
  <2> QED BY <2>2 DEF Staged, OursIn, Final
<1> QED BY <1>1, <1>2, <1>3

(* None of this depends on the state.                                      *)
LEMMA StaysReplaced ==
  ASSUME NEW commands, NEW t, NEW seen, NEW step
  PROVE  /\ OursIn(commands, t)' <=> OursIn(commands, t)
         /\ Final(commands, t, seen)' <=> Final(commands, t, seen)
         /\ Staged(commands, t, seen, step)' <=> Staged(commands, t, seen, step)
BY DEF OursIn, ToolsDoneIn, TargetDoneIn, Final, Staged, Brought, Ours, ToolsDone, TargetDone, CustomDone

LEMMA HeapTaken ==
  ASSUME CommandsInv, NEW o \in 0..Clone, NEW commands, tcHeap' = [tcHeap EXCEPT ![o] = commands]
  PROVE  /\ tcHeap' = [p \in 0..Clone |-> tcHeap'[p]]
         /\ tcHeap'[o] = commands
         /\ \A p \in 0..Clone : p # o => tcHeap'[p] = tcHeap[p]
BY DEF CommandsInv, CommandsType

LEMMA Objects ==
  /\ Executions \subseteq 0..Clone /\ Clone \in 0..Clone /\ 0 \in 0..Clone
  /\ 0 \notin Executions /\ Clone \notin Executions /\ Clone # 0
  /\ Executions \subseteq 0..MaxExecutions
BY TaskCommandsAssumption DEF Executions, Clone

LEMMA CreateKeepsInv ==
  ASSUME CommandsInv, NEW e \in Executions, NEW t \in Targets \cup {Untargeted}, Create(e, t)
  PROVE  CommandsInv'
<1>1. /\ tcState[e] = "none"
      /\ tcState' = [tcState EXCEPT ![e] = "pending"]
      /\ tcTarget' = [tcTarget EXCEPT ![e] = t]
      /\ tcHeap' = [tcHeap EXCEPT ![e] = Commands]
      /\ UNCHANGED <<tcJob, tcSent, tcSeen>>
  BY DEF Create, CommandsInv
<1>2. /\ tcHeap' = [p \in 0..Clone |-> tcHeap'[p]]
      /\ tcHeap'[e] = Commands
      /\ \A p \in 0..Clone : p # e => tcHeap'[p] = tcHeap[p]
  BY <1>1, Objects, HeapTaken
<1>3. /\ tcState'[e] = "pending" /\ tcTarget'[e] = t
      /\ \A d \in Executions : d # e => tcState'[d] = tcState[d] /\ tcTarget'[d] = tcTarget[d]
  BY <1>1 DEF CommandsInv, CommandsType
<1>4. CommandsType'
  BY <1>1, <1>2 DEF CommandsInv, CommandsType
<1>5. tcHeap'[0] = Commands
  BY <1>2, Objects DEF CommandsInv
<1>7. ASSUME NEW d \in Executions, tcState'[d] # "none"
      PROVE  OursIn(tcHeap[d], tcTarget[d])'
  <2>1. CASE d = e
    <3>1. OursIn(Commands, t)
      BY TaskCommandsAssumption DEF OursIn, Ours
    <3> QED BY <1>2, <1>3, <2>1, <3>1, StaysReplaced
  <2>2. CASE d # e
    <3>1. OursIn(tcHeap[d], tcTarget[d])
      BY <1>3, <1>7, <2>2 DEF CommandsInv
    <3> QED BY <1>2, <1>3, <2>2, <3>1, Objects, StaysReplaced
  <2> QED BY <2>1, <2>2
<1>8. JobStaged'
  <2> SUFFICES ASSUME tcJob.step # ""
               PROVE  /\ tcJob.execution \in Executions /\ tcState'[tcJob.execution] = "pending"
                      /\ tcJob.object \in {tcJob.execution, Clone}
                      /\ Staged(tcHeap[tcJob.object], tcTarget[tcJob.execution], tcSeen[tcJob.execution], tcJob.step)'
    BY <1>1 DEF JobStaged
  <2>1. /\ tcJob.execution \in Executions /\ tcState[tcJob.execution] = "pending"
        /\ tcJob.object \in {tcJob.execution, Clone}
        /\ Staged(tcHeap[tcJob.object], tcTarget[tcJob.execution], tcSeen[tcJob.execution], tcJob.step)
    BY DEF CommandsInv, JobStaged
  <2>2. tcJob.execution # e /\ tcJob.object # e
    BY <1>1, <2>1, Objects
  <2>3. /\ tcHeap'[tcJob.object] = tcHeap[tcJob.object]
        /\ tcTarget'[tcJob.execution] = tcTarget[tcJob.execution]
        /\ tcState'[tcJob.execution] = "pending"
    BY <1>2, <1>3, <2>1, <2>2, Objects
  <2>4. Staged(tcHeap[tcJob.object], tcTarget[tcJob.execution], tcSeen[tcJob.execution], tcJob.step)'
    BY <1>1, <2>1, <2>3, StaysReplaced
  <2> QED BY <2>1, <2>3, <2>4
<1>9. ASSUME NEW d \in Executions, tcState'[d] = "running"
      PROVE  Final(tcSent[d], tcTarget[d], tcSeen[d])'
  <2>1. d # e /\ Final(tcSent[d], tcTarget[d], tcSeen[d])
    BY <1>3, <1>9 DEF CommandsInv
  <2> QED BY <1>1, <1>3, <2>1, StaysReplaced
<1> QED BY <1>4, <1>5, <1>7, <1>8, <1>9 DEF CommandsInv

(* A step of the assignment: one array is replaced, nothing else is new.   *)
LEMMA ArrayStep ==
  ASSUME CommandsInv, NEW e \in Executions, NEW o \in {e, Clone}, NEW step \in {"target", "custom", "send"},
         NEW commands, tcState[e] = "pending",
         tcHeap' = [tcHeap EXCEPT ![o] = commands],
         OursIn(commands, tcTarget[e]), Staged(commands, tcTarget[e], tcSeen'[e], step),
         tcJob' \in Job, tcJob'.execution = e, tcJob'.object = o, tcJob'.step = step,
         tcSeen' \in [Executions -> Targets \cup {Untargeted}],
         \A d \in Executions : d # e => tcSeen'[d] = tcSeen[d],
         UNCHANGED <<tcState, tcTarget, tcSent>>
  PROVE  CommandsInv'
<1>0. o \in 0..Clone /\ o # 0
  BY Objects
<1>1. /\ tcHeap' = [p \in 0..Clone |-> tcHeap'[p]]
      /\ tcHeap'[o] = commands
      /\ \A p \in 0..Clone : p # o => tcHeap'[p] = tcHeap[p]
  BY <1>0, HeapTaken
<1>2. CommandsType'
  BY <1>1 DEF CommandsInv, CommandsType
<1>3. tcHeap'[0] = Commands
  BY <1>0, <1>1, Objects DEF CommandsInv
<1>4. ASSUME NEW d \in Executions, tcState'[d] # "none"
      PROVE  OursIn(tcHeap[d], tcTarget[d])'
  <2>1. CASE d = o
    <3>1. d = e
      BY <2>1, Objects
    <3>2. OursIn(commands, tcTarget[d])
      BY <3>1
    <3> QED BY <1>1, <2>1, <3>2, StaysReplaced
  <2>2. CASE d # o
    <3>1. OursIn(tcHeap[d], tcTarget[d])
      BY <1>4 DEF CommandsInv
    <3> QED BY <1>1, <2>2, <3>1, Objects, StaysReplaced
  <2> QED BY <2>1, <2>2
<1>5. JobStaged'
  <2>1. Staged(tcHeap[o], tcTarget[e], tcSeen[e], step)'
    BY <1>1, StaysReplaced
  <2> QED BY <2>1 DEF JobStaged
<1>6. ASSUME NEW d \in Executions, tcState'[d] = "running"
      PROVE  Final(tcSent[d], tcTarget[d], tcSeen[d])'
  <2>1. d # e /\ Final(tcSent[d], tcTarget[d], tcSeen[d])
    BY <1>6 DEF CommandsInv
  <2> QED BY <2>1, StaysReplaced
<1> QED BY <1>2, <1>3, <1>4, <1>5, <1>6 DEF CommandsInv

LEMMA PrepareKeepsInv ==
  ASSUME CommandsInv, NEW e \in Executions, NEW w \in Workers, Prepare(e, w)
  PROVE  CommandsInv'
<1> DEFINE missing == MissingTools(w)
           object == IF missing = {} THEN e ELSE Clone
           before == WithInstalls(missing, tcHeap[e])
           commands == {ToolReplaced(c, missing) : c \in before}
           job == [execution |-> e, worker |-> w, object |-> object, step |-> "target"]
<1>1. /\ tcState[e] = "pending"
      /\ tcHeap' = [tcHeap EXCEPT ![object] = commands]
      /\ tcJob' = job
      /\ UNCHANGED <<tcState, tcTarget, tcSent, tcSeen>>
  BY DEF Prepare
<1>2. object \in {e, Clone}
  OBVIOUS
<1>3. job \in Job /\ job.execution = e /\ job.object = object /\ job.step = "target"
  BY <1>2, Objects DEF Job
<1>4. OursIn(before, tcTarget[e])
  BY <1>1, WithInstallsFacts DEF CommandsInv
<1>5. Staged(commands, tcTarget[e], tcSeen'[e], "target")
  BY <1>4, ArraysReplaced DEF CommandsInv, CommandsType
<1>6. OursIn(commands, tcTarget[e])
  BY <1>5 DEF Staged
<1>7. tcSeen' \in [Executions -> Targets \cup {Untargeted}]
  BY <1>1 DEF CommandsInv, CommandsType
<1> HIDE DEF missing, object, commands, job
<1> QED BY <1>1, <1>2, <1>3, <1>5, <1>6, <1>7, ArrayStep

LEMMA JobChanges ==
  ASSUME NEW j \in Job, NEW step \in {"", "target", "custom", "send"}, NEW worker \in Workers \cup {""}
  PROVE  /\ [j EXCEPT !.step = step] \in Job
         /\ [j EXCEPT !.step = step].execution = j.execution
         /\ [j EXCEPT !.step = step].object = j.object
         /\ [j EXCEPT !.step = step].step = step
         /\ [j EXCEPT !.worker = worker] \in Job
         /\ [j EXCEPT !.worker = worker].execution = j.execution
         /\ [j EXCEPT !.worker = worker].object = j.object
         /\ [j EXCEPT !.worker = worker].step = j.step
<1>1. [j EXCEPT !.step = step] \in Job /\ [j EXCEPT !.worker = worker] \in Job
  BY Zenon DEF Job
<1>2. [j EXCEPT !.step = step].execution = j.execution
  BY Zenon DEF Job
<1>3. [j EXCEPT !.step = step].object = j.object
  BY Zenon DEF Job
<1>4. [j EXCEPT !.step = step].step = step
  BY Zenon DEF Job
<1>5. [j EXCEPT !.worker = worker].execution = j.execution
  BY Zenon DEF Job
<1>6. [j EXCEPT !.worker = worker].object = j.object
  BY Zenon DEF Job
<1>7. [j EXCEPT !.worker = worker].step = j.step
  BY Zenon DEF Job
<1> QED BY <1>1, <1>2, <1>3, <1>4, <1>5, <1>6, <1>7

LEMMA ReplaceTargetKeepsInv ==
  ASSUME CommandsInv, ReplaceTarget
  PROVE  CommandsInv'
<1> DEFINE e == tcJob.execution
           o == tcJob.object
           commands == {TargetReplaced(c, tcTarget[e]) : c \in tcHeap[o]}
<1>1. /\ tcJob.step = "target" /\ tcJob' = [tcJob EXCEPT !.step = "custom"]
      /\ UNCHANGED <<tcState, tcTarget, tcSent>>
      /\ tcSeen' = [tcSeen EXCEPT ![e] = Found(tcTarget[e])]
  BY DEF ReplaceTarget, Found
<1>2. /\ e \in Executions /\ tcState[e] = "pending" /\ o \in {e, Clone}
      /\ Staged(tcHeap[o], tcTarget[e], tcSeen[e], "target")
  BY <1>1 DEF CommandsInv, JobStaged
<1>3. tcHeap' = [tcHeap EXCEPT ![o] = commands]
  BY <1>2, Objects, Zenon DEF ReplaceTarget, CommandsInv, CommandsType
<1>4. tcJob \in Job /\ tcTarget[e] \in Targets \cup {Untargeted}
  BY <1>2 DEF CommandsInv, CommandsType
<1>5. tcJob' \in Job /\ tcJob'.execution = e /\ tcJob'.object = o /\ tcJob'.step = "custom"
  BY <1>1, <1>4, JobChanges
<1>6. /\ tcSeen' \in [Executions -> Targets \cup {Untargeted}]
      /\ tcSeen'[e] = Found(tcTarget[e])
      /\ \A d \in Executions : d # e => tcSeen'[d] = tcSeen[d]
  <2>1. Found(tcTarget[e]) \in Targets \cup {Untargeted}
    BY <1>4 DEF Found
  <2> QED BY <1>1, <1>2, <2>1 DEF CommandsInv, CommandsType
<1>7. Staged(commands, tcTarget[e], tcSeen'[e], "custom")
  BY <1>2, <1>4, <1>6, ArraysReplaced
<1>8. OursIn(commands, tcTarget[e])
  BY <1>7 DEF Staged
<1> HIDE DEF commands, e, o
<1> QED BY <1>1, <1>2, <1>3, <1>5, <1>6, <1>7, <1>8, ArrayStep

LEMMA ReplaceCustomDataKeepsInv ==
  ASSUME CommandsInv, ReplaceCustomData
  PROVE  CommandsInv'
<1> DEFINE e == tcJob.execution
           o == tcJob.object
           commands == {CustomReplaced(c) : c \in tcHeap[o]}
<1>1. /\ tcJob.step = "custom" /\ tcJob' = [tcJob EXCEPT !.step = "send"]
      /\ UNCHANGED <<tcState, tcTarget, tcSent, tcSeen>>
  BY DEF ReplaceCustomData
<1>2. /\ e \in Executions /\ tcState[e] = "pending" /\ o \in {e, Clone}
      /\ Staged(tcHeap[o], tcTarget[e], tcSeen[e], "custom")
  BY <1>1 DEF CommandsInv, JobStaged
<1>3. tcHeap' = [tcHeap EXCEPT ![o] = commands]
  BY <1>2, Objects, Zenon DEF ReplaceCustomData, CommandsInv, CommandsType
<1>4. tcJob \in Job /\ tcTarget[e] \in Targets \cup {Untargeted}
  BY <1>2 DEF CommandsInv, CommandsType
<1>5. tcJob' \in Job /\ tcJob'.execution = e /\ tcJob'.object = o /\ tcJob'.step = "send"
  BY <1>1, <1>4, JobChanges
<1>6. Staged(commands, tcTarget[e], tcSeen'[e], "send")
  BY <1>1, <1>2, <1>4, ArraysReplaced DEF CommandsInv, CommandsType
<1>7. OursIn(commands, tcTarget[e])
  BY <1>6 DEF Staged
<1>8. tcSeen' \in [Executions -> Targets \cup {Untargeted}]
  BY <1>1 DEF CommandsInv, CommandsType
<1> HIDE DEF commands, e, o
<1> QED BY <1>1, <1>2, <1>3, <1>5, <1>6, <1>7, <1>8, ArrayStep

LEMMA SendKeepsInv ==
  ASSUME CommandsInv, Send \/ SendFails \/ TargetFails
  PROVE  CommandsInv'
<1>1. /\ tcJob.step # "" /\ tcJob' = NoJob
      /\ UNCHANGED <<tcHeap, tcTarget, tcSeen>>
  BY DEF Send, SendFails, TargetFails
<1>2. /\ tcJob.execution \in Executions /\ tcState[tcJob.execution] = "pending"
      /\ Staged(tcHeap[tcJob.object], tcTarget[tcJob.execution], tcSeen[tcJob.execution], tcJob.step)
  BY <1>1 DEF CommandsInv, JobStaged
<1>3. NoJob \in Job /\ NoJob.step = ""
  BY Objects, TaskCommandsAssumption DEF NoJob, Job
<1>4. CommandsType'
  BY <1>1, <1>3 DEF CommandsInv, CommandsType, Send, SendFails, TargetFails
<1>5. JobStaged'
  BY <1>1, <1>3 DEF JobStaged
<1>6. ASSUME NEW d \in Executions, tcState'[d] # "none"
      PROVE  OursIn(tcHeap[d], tcTarget[d])'
  <2>1. tcState[d] # "none"
    BY <1>2, <1>6 DEF CommandsInv, CommandsType, Send, SendFails, TargetFails
  <2> QED BY <1>1, <2>1, StaysReplaced DEF CommandsInv
<1>7. ASSUME NEW d \in Executions, tcState'[d] = "running"
      PROVE  Final(tcSent[d], tcTarget[d], tcSeen[d])'
  <2>1. CASE tcSent'[d] = tcSent[d] /\ tcState'[d] = tcState[d]
    BY <1>1, <1>7, <2>1, StaysReplaced DEF CommandsInv
  <2>2. CASE Send /\ d = tcJob.execution
    <3>1. tcSent'[d] = tcHeap[tcJob.object]
      BY <1>2, <2>2 DEF Send, CommandsInv, CommandsType
    <3>2. Final(tcHeap[tcJob.object], tcTarget[d], tcSeen[d])
      BY <1>2, <2>2 DEF Send, Staged
    <3> QED BY <1>1, <3>1, <3>2, StaysReplaced
  <2>3. CASE Send /\ d # tcJob.execution
    BY <2>1, <2>3 DEF Send, CommandsInv, CommandsType
  <2>4. CASE SendFails
    BY <2>1, <2>4 DEF SendFails
  <2>5. CASE TargetFails
    <3>1. d # tcJob.execution
      BY <1>2, <1>7, <2>5 DEF TargetFails, CommandsInv, CommandsType
    <3> QED BY <2>1, <2>5, <3>1 DEF TargetFails, CommandsInv, CommandsType
  <2> QED BY <2>2, <2>3, <2>4, <2>5
<1> QED BY <1>1, <1>4, <1>5, <1>6, <1>7 DEF CommandsInv

LEMMA EndKeepsInv ==
  ASSUME CommandsInv, (\E e \in Executions : Finish(e)) \/ (\E w \in Workers : WorkerLost(w))
  PROVE  CommandsInv'
<1>1. UNCHANGED <<tcHeap, tcTarget, tcSent, tcSeen>>
  BY DEF Finish, WorkerLost
<1>2. /\ tcState' \in [Executions -> {"none", "pending", "running", "ended", "dropped"}]
      /\ \A d \in Executions : tcState'[d] # tcState[d] => tcState[d] = "running" /\ tcState'[d] # "running"
  BY DEF CommandsInv, CommandsType, Finish, WorkerLost
<1>3. /\ tcJob' \in Job
      /\ tcJob'.step = tcJob.step /\ tcJob'.execution = tcJob.execution /\ tcJob'.object = tcJob.object
  <2>1. CASE \E e \in Executions : Finish(e)
    BY <2>1 DEF Finish, CommandsInv, CommandsType
  <2>2. ASSUME NEW w \in Workers, WorkerLost(w) PROVE <1>3
    <3> DEFINE worker == IF tcJob.worker = w THEN "" ELSE tcJob.worker
    <3>1. tcJob' = [tcJob EXCEPT !.worker = worker]
      BY <2>2, Zenon DEF WorkerLost
    <3>2. worker \in Workers \cup {""}
      BY DEF CommandsInv, CommandsType, Job
    <3> HIDE DEF worker
    <3>3. tcJob \in Job
      BY DEF CommandsInv, CommandsType
    <3> QED BY <3>1, <3>2, <3>3, JobChanges
  <2> QED BY <2>1, <2>2
<1>4. CommandsType'
  BY <1>1, <1>2, <1>3 DEF CommandsInv, CommandsType
<1>5. JobStaged'
  <2> SUFFICES ASSUME tcJob.step # ""
               PROVE  /\ tcJob.execution \in Executions /\ tcState'[tcJob.execution] = "pending"
                      /\ tcJob.object \in {tcJob.execution, Clone}
                      /\ Staged(tcHeap[tcJob.object], tcTarget[tcJob.execution], tcSeen[tcJob.execution], tcJob.step)'
    BY <1>3 DEF JobStaged
  <2>1. /\ tcJob.execution \in Executions /\ tcState[tcJob.execution] = "pending"
        /\ tcJob.object \in {tcJob.execution, Clone}
        /\ Staged(tcHeap[tcJob.object], tcTarget[tcJob.execution], tcSeen[tcJob.execution], tcJob.step)
    BY DEF CommandsInv, JobStaged
  <2>2. tcState'[tcJob.execution] = "pending"
    BY <1>2, <2>1
  <2> QED BY <1>1, <1>3, <2>1, <2>2, StaysReplaced
<1>6. ASSUME NEW d \in Executions
      PROVE  /\ tcState'[d] # "none" => OursIn(tcHeap[d], tcTarget[d])'
             /\ tcState'[d] = "running" => Final(tcSent[d], tcTarget[d], tcSeen[d])'
  BY <1>1, <1>2, StaysReplaced DEF CommandsInv
<1> QED BY <1>1, <1>4, <1>5, <1>6 DEF CommandsInv

(* Nothing an execution has depends on the targets or the snapshot.        *)
LEMMA TargetsChange ==
  ASSUME CommandsInv, UNCHANGED <<tcHeap, tcState, tcTarget, tcJob, tcSent, tcSeen>>
  PROVE  CommandsInv'
<1>1. CommandsType'
  BY DEF CommandsInv, CommandsType
<1>2. JobStaged'
  BY StaysReplaced DEF CommandsInv, JobStaged
<1>3. ASSUME NEW d \in Executions
      PROVE  /\ tcState'[d] # "none" => OursIn(tcHeap[d], tcTarget[d])'
             /\ tcState'[d] = "running" => Final(tcSent[d], tcTarget[d], tcSeen[d])'
  BY StaysReplaced DEF CommandsInv
<1> QED BY <1>1, <1>2, <1>3 DEF CommandsInv

LEMMA CommandsInvInit == TaskCommandsInit => CommandsInv
<1> SUFFICES ASSUME TaskCommandsInit PROVE CommandsInv
  OBVIOUS
<1>1. NoJob \in Job /\ NoJob.step = ""
  BY Objects, TaskCommandsAssumption DEF NoJob, Job
<1>2. CommandsType
  BY <1>1 DEF TaskCommandsInit, CommandsType
<1>3. JobStaged
  BY <1>1 DEF TaskCommandsInit, JobStaged
<1>4. tcHeap[0] = Commands
  BY Objects DEF TaskCommandsInit
<1>5. \A e \in Executions : tcState[e] = "none"
  BY DEF TaskCommandsInit
<1> QED BY <1>2, <1>3, <1>4, <1>5 DEF CommandsInv

LEMMA CommandsInvNext == CommandsInv /\ [TaskCommandsNext]_commandVars => CommandsInv'
<1> SUFFICES ASSUME CommandsInv, [TaskCommandsNext]_commandVars PROVE CommandsInv'
  OBVIOUS
<1>1. CASE TaskCommandsNext
  BY <1>1, CreateKeepsInv, PrepareKeepsInv, ReplaceTargetKeepsInv, ReplaceCustomDataKeepsInv,
     SendKeepsInv, EndKeepsInv, TargetsChange DEF TaskCommandsNext, ChangeTarget, Refetch
<1>2. CASE UNCHANGED commandVars
  BY <1>2, TargetsChange DEF commandVars
<1> QED BY <1>1, <1>2

(* In every behaviour: the commands a worker runs hold no placeholder that *)
(* the builder knows and nothing of another target (SentIsReplaced),       *)
(* however often the execution was requeued with commands already changed  *)
(* and however old the snapshot of the targets is; the one placeholder     *)
(* excepted is the domain of a target the snapshot did not have.           *)
THEOREM SentAlwaysReplaced == TaskCommandsSpec => []SentIsReplaced
<1>1. CommandsInv => SentIsReplaced
  <2> SUFFICES ASSUME CommandsInv, NEW e \in Executions, tcState[e] = "running",
                      NEW c \in tcSent[e], ~Brought(c)
               PROVE  \/ c[1] \in {"agent", "domain"} /\ c[2] \in {tcTarget[e], Untargeted}
                      \/ c[1] \notin {"agent", "domain", "{tool}", "{agent}", "{domain}", "{custom}"}
                      \/ c[1] = "{tool}" /\ c[2] \notin RequiredTools
                      \/ c[1] = "{custom}" /\ c[2] \notin DOMAIN CustomValue
                      \/ c[1] = "{domain}" /\ tcSeen[e] = Untargeted
    BY DEF SentIsReplaced, Brought
  <2>1. /\ Ours(c, tcTarget[e]) /\ ToolsDone(c)
        /\ TargetDone(c, tcSeen[e]) /\ CustomDone(c)
    BY DEF CommandsInv, Final
  <2> QED BY <2>1 DEF Ours, ToolsDone, TargetDone, CustomDone
<1> QED BY <1>1, CommandsInvInit, CommandsInvNext, PTL DEF TaskCommandsSpec

-----------------------------------------------------------------------------
(***************************************************************************)
(* WebSession: the questions of a tab, and its session.                    *)
(***************************************************************************)
AskType ==
  [id : Nat, by : {"auth", "layout", "gone"}, cookie : Nat,
   answer : {"none", "failed", "in", "out", "setup"}, stale : BOOLEAN]

(* Every question has a number of its own.                                 *)
Distinct(asks) ==
  /\ asks \subseteq AskType /\ IsFiniteSet(asks)
  /\ \A q, r \in asks : q.id = r.id => q = r

(* Whoever was told not to be authenticated asked for a session the server *)
(* does not have, or before the last password was accepted.                *)
Excused(q) == q.answer \in {"out", "setup"} => q.stale \/ q.cookie \notin wsStored

SessionsSound ==
  /\ wsPassword \in BOOLEAN /\ wsCookie \in Nat /\ wsSessions \in Nat
  /\ wsWith \in [form : Nat, logout : Nat, button : Nat]
  /\ wsStored # {} => wsPassword /\ wsServer # "down"
  /\ wsForm = "comparing" => wsPassword
  /\ wsForm \in {"comparing", "hashing"} => wsServer # "down"

TabInv ==
  /\ SessionsSound
  /\ Distinct(wsAsks)
  /\ \A q \in wsAsks : Excused(q)

(* Changed answers keep their numbers.                                     *)
LEMMA DistinctImage ==
  ASSUME NEW S, Distinct(S), NEW f \in [S -> AskType], \A r \in S : f[r].id = r.id
  PROVE  Distinct({f[r] : r \in S})
<1> DEFINE T == {f[r] : r \in S}
<1>1. IsFiniteSet(T)
  <2>1. f \in Surjection(S, T)
    BY DEF Surjection
  <2> QED BY <2>1, FS_Surjection DEF Distinct
<1>2. T \subseteq AskType
  OBVIOUS
<1>3. ASSUME NEW q \in T, NEW r \in T, q.id = r.id PROVE q = r
  <2>1. PICK x \in S, y \in S : q = f[x] /\ r = f[y]
    OBVIOUS
  <2> QED BY <1>3, <2>1 DEF Distinct
<1> QED BY <1>1, <1>2, <1>3 DEF Distinct

LEMMA DistinctSubset ==
  ASSUME NEW S, Distinct(S), NEW T \in SUBSET S
  PROVE  Distinct(T)
BY FS_Subset DEF Distinct

(* There is a number that no question has: there are more of them.         *)
LEMMA UnusedIsNew ==
  ASSUME Distinct(wsAsks)
  PROVE  Unused \in Nat /\ \A r \in wsAsks : r.id # Unused
<1> DEFINE N == Cardinality(wsAsks)
           S == 1..(N + 1)
<1>1. N \in Nat /\ IsFiniteSet(wsAsks)
  BY FS_CardinalityType DEF Distinct
<1>2. IsFiniteSet(S) /\ Cardinality(S) = N + 1
  BY <1>1, FS_Interval
<1>3. \E n \in S : \A r \in wsAsks : r.id # n
  <2> SUFFICES ASSUME \A n \in S : \E r \in wsAsks : r.id = n PROVE FALSE
    OBVIOUS
  <2> DEFINE g == [n \in S |-> CHOOSE r \in wsAsks : r.id = n]
  <2>1. \A n \in S : g[n] \in wsAsks /\ g[n].id = n
    OBVIOUS
  <2>2. g \in [S -> wsAsks]
    BY <2>1
  <2> HIDE DEF g
  <2>3. N < Cardinality(S)
    BY <1>1, <1>2
  <2> HIDE DEF N, S
  <2>4. \E x, y \in S : x # y /\ g[x] = g[y]
    BY <1>1, <1>2, <2>2, <2>3, FS_PigeonHole DEF N
  <2> QED BY <2>1, <2>4
<1> QED BY <1>1, <1>3 DEF Unused

(* A question, but for who waits for its answer.                           *)
Same(q, r) == q.id = r.id /\ q.cookie = r.cookie /\ q.answer = r.answer /\ q.stale = r.stale

LEMMA OrphanedFacts ==
  ASSUME NEW S, Distinct(S)
  PROVE  /\ Distinct(Orphaned(S))
         /\ \A q \in Orphaned(S) : \E r \in S : Same(q, r)
<1> DEFINE f == [r \in S |-> IF r.by = "auth" THEN [r EXCEPT !.by = "gone"] ELSE r]
<1>1. ASSUME NEW r \in S
      PROVE  f[r] \in AskType /\ f[r].id = r.id /\ Same(f[r], r)
  <2>1. r \in AskType
    BY DEF Distinct
  <2> QED BY <2>1 DEF AskType, Same
<1>2. f \in [S -> AskType]
  BY <1>1
<1>3. Orphaned(S) = {f[r] : r \in S}
  BY Zenon DEF Orphaned
<1> HIDE DEF f
<1> QED BY <1>1, <1>2, <1>3, DistinctImage

(* navigate: what was asked stays asked, and a page may ask anew.          *)
LEMMA GotoFacts ==
  ASSUME Distinct(wsAsks), wsCookie \in Nat, NEW p, NEW asks \in SUBSET wsAsks, Goto(p, asks)
  PROVE  /\ Distinct(wsAsks')
         /\ \A q \in wsAsks' : \/ q.answer = "none"
                               \/ \E r \in asks : Same(q, r)
<1>1. Distinct(asks)
  BY DistinctSubset
<1>2. /\ Distinct(Orphaned(asks))
      /\ \A q \in Orphaned(asks) : \E r \in asks : Same(q, r)
  BY <1>1, OrphanedFacts
<1>3. Unused \in Nat /\ \A r \in wsAsks : r.id # Unused
  BY UnusedIsNew
<1>4. ASSUME NEW by \in {"auth", "layout"}
      PROVE  Ask(Unused, by) \in AskType /\ Ask(Unused, by).id = Unused /\ Ask(Unused, by).answer = "none"
  BY <1>3 DEF Ask, AskType
<1>5. ASSUME NEW by \in {"auth", "layout"}, wsAsks' = Orphaned(asks) \cup {Ask(Unused, by)}
      PROVE  Distinct(wsAsks')
  <2> DEFINE a == Ask(Unused, by)
  <2>1. a \in AskType /\ a.id = Unused /\ \A q \in Orphaned(asks) : q.id # Unused
    BY <1>2, <1>3, <1>4 DEF Same
  <2>2. IsFiniteSet(Orphaned(asks) \cup {a})
    BY <1>2, FS_AddElement DEF Distinct
  <2>3. wsAsks' = Orphaned(asks) \cup {a}
    BY <1>5
  <2> HIDE DEF a
  <2> QED BY <1>2, <2>1, <2>2, <2>3 DEF Distinct
<1>6. \/ wsAsks' = Orphaned(asks)
      \/ \E by \in {"auth", "layout"} : wsAsks' = Orphaned(asks) \cup {Ask(Unused, by)}
  BY DEF Goto
<1> QED BY <1>2, <1>4, <1>5, <1>6

LEMMA AnsweredFacts ==
  ASSUME NEW S, Distinct(S), NEW r \in S, NEW a \in {"failed", "in", "out", "setup"}
  PROVE  Distinct((S \ {r}) \cup {[r EXCEPT !.answer = a]})
<1> DEFINE q == [r EXCEPT !.answer = a]
<1>1. q \in AskType /\ q.id = r.id
  BY DEF Distinct, AskType
<1>2. Distinct(S \ {r})
  BY DistinctSubset
<1>3. IsFiniteSet((S \ {r}) \cup {q})
  BY <1>2, FS_AddElement DEF Distinct
<1> HIDE DEF q
<1>4. \A x \in S \ {r} : x.id # q.id
  BY <1>1 DEF Distinct
<1>5. Distinct((S \ {r}) \cup {q})
  BY <1>1, <1>2, <1>3, <1>4 DEF Distinct
<1> QED BY <1>5 DEF q

LEMMA TabInvInit == WebSessionInit => TabInv
<1> SUFFICES ASSUME WebSessionInit PROVE TabInv
  OBVIOUS
<1>1. PICK by \in {"auth", "layout"} : wsAsks = {Ask(1, by)}
  BY DEF WebSessionInit
<1>2. wsCookie = 0
  BY DEF WebSessionInit
<1>3. Ask(1, by) \in AskType /\ Ask(1, by).answer = "none"
  BY <1>2 DEF Ask, AskType
<1>4. Distinct(wsAsks)
  BY <1>1, <1>3, FS_Singleton DEF Distinct
<1>5. \A q \in wsAsks : Excused(q)
  BY <1>1, <1>3 DEF Excused
<1>6. SessionsSound
  BY DEF WebSessionInit, SessionsSound
<1> QED BY <1>4, <1>5, <1>6 DEF TabInv

(* A page is left or entered.                                              *)
LEMMA GotoKeeps ==
  ASSUME TabInv, SessionsSound', NEW p, NEW asks \in SUBSET wsAsks, Goto(p, asks), UNCHANGED wsStored
  PROVE  TabInv'
<1>1. /\ Distinct(wsAsks')
      /\ \A q \in wsAsks' : q.answer = "none" \/ \E r \in asks : Same(q, r)
  BY GotoFacts DEF TabInv, SessionsSound
<1>2. \A q \in wsAsks' : Excused(q)'
  BY <1>1 DEF TabInv, Excused, Same
<1> QED BY <1>1, <1>2 DEF TabInv

(* A question is answered, or its answer lost.                             *)
LEMMA AnswerKeeps ==
  ASSUME TabInv, SessionsSound', NEW r \in wsAsks, NEW a \in {"failed", "in", "out", "setup"},
         a \in {"out", "setup"} => r.cookie \notin wsStored, wsAsks' = Answered(r, a), UNCHANGED wsStored
  PROVE  TabInv'
<1> DEFINE q == [r EXCEPT !.answer = a]
<1>1. q.answer = a /\ q.cookie = r.cookie /\ wsAsks' = (wsAsks \ {r}) \cup {q}
  BY DEF TabInv, Distinct, AskType, Answered
<1>2. Distinct((wsAsks \ {r}) \cup {q})
  BY AnsweredFacts, Zenon DEF TabInv
<1> HIDE DEF q
<1>3. \A x \in wsAsks' : Excused(x)'
  BY <1>1 DEF TabInv, Excused
<1> QED BY <1>1, <1>2, <1>3 DEF TabInv

(* No question is asked or answered, and no session is saved.              *)
LEMMA FewerAsks ==
  ASSUME TabInv, SessionsSound', wsAsks' \subseteq wsAsks, wsStored' \subseteq wsStored
  PROVE  TabInv'
<1>1. Distinct(wsAsks')
  BY DistinctSubset DEF TabInv
<1>2. \A q \in wsAsks' : Excused(q)'
  BY DEF TabInv, Excused
<1> QED BY <1>1, <1>2 DEF TabInv

LEMMA AcceptedKeeps ==
  ASSUME TabInv, SessionsSound', PasswordAccepted
  PROVE  TabInv'
<1> DEFINE f == [r \in wsAsks |-> [r EXCEPT !.stale = r.answer # "none"]]
<1>1. wsAsks' = Aged
  BY DEF PasswordAccepted
<1>2. ASSUME NEW r \in wsAsks
      PROVE  f[r] \in AskType /\ f[r].id = r.id /\ (f[r].answer # "none" => f[r].stale)
  <2>1. r \in AskType /\ (r.answer # "none") \in BOOLEAN
    BY DEF TabInv, Distinct
  <2>2. f[r] \in AskType
    BY <2>1, Zenon DEF AskType
  <2>3. f[r].id = r.id /\ f[r].answer = r.answer /\ f[r].stale = (r.answer # "none")
    BY <2>1, SMT DEF AskType
  <2> HIDE DEF f
  <2> QED BY <2>2, <2>3
<1>3. f \in [wsAsks -> AskType]
  BY <1>2
<1>4. wsAsks' = {f[r] : r \in wsAsks}
  BY <1>1, Zenon DEF Aged
<1> HIDE DEF f
<1>5. Distinct(wsAsks')
  BY <1>2, <1>3, <1>4, DistinctImage DEF TabInv
<1>6. \A q \in wsAsks' : Excused(q)'
  BY <1>2, <1>4 DEF Excused
<1> QED BY <1>5, <1>6 DEF TabInv

(* What a request is sent with, or handled in.                             *)
LEMMA WithFacts ==
  ASSUME NEW w \in [form : Nat, logout : Nat, button : Nat], NEW c \in Nat
  PROVE  /\ [w EXCEPT !.form = c] \in [form : Nat, logout : Nat, button : Nat]
         /\ [w EXCEPT !.logout = c] \in [form : Nat, logout : Nat, button : Nat]
         /\ [w EXCEPT !.button = c] \in [form : Nat, logout : Nat, button : Nat]
         /\ w.form \in Nat
BY SMT

(* A session is only there while there is a password and a server.         *)
LEMMA SessionsNext == SessionsSound /\ [WebSessionNext]_wsVars => SessionsSound'
<1> SUFFICES ASSUME SessionsSound, [WebSessionNext]_wsVars PROVE SessionsSound'
  OBVIOUS
<1> USE DEF SessionsSound
<1>1. CASE Server /\ (wsForm' = wsForm \/ wsForm' \notin {"comparing", "hashing"})
  BY <1>1 DEF Server, sessionVars
<1>2. CASE Render \/ Retry \/ InfoStep \/ (\E r \in wsAsks : InfoLost(r))
  BY <1>1, <1>2 DEF Render, Retry, InfoStep, AuthInfo, InfoLeads, InfoUnavailable, LayoutStays,
                    LayoutSendsAway, InfoLost, PageIdle
<1>3. CASE CookieLost \/ PasswordRefused \/ FormSucceeds \/ FormFails \/ LogoutFails \/ LogoutLeaves
           \/ ButtonRefused \/ StopsAlready \/ ButtonAnswered \/ TimerLeaves
  BY <1>1, <1>3 DEF CookieLost, PasswordRefused, FormSucceeds, FormFails, LogoutFails, LogoutLeaves,
                    ButtonRefused, StopsAlready, ButtonAnswered, TimerLeaves
<1>4. CASE SubmitForm
  <2>1. wsWith' \in [form : Nat, logout : Nat, button : Nat]
    BY <1>4, WithFacts DEF SubmitForm
  <2> QED BY <1>4, <2>1 DEF SubmitForm
<1>5. CASE ClickLogout \/ \E k \in {"restart", "cleanup", "reset"} : Press(k)
  <2>1. wsWith' \in [form : Nat, logout : Nat, button : Nat]
    BY <1>5, WithFacts DEF ClickLogout, Press
  <2> QED BY <1>5, <2>1 DEF ClickLogout, Press
<1>6. CASE PasswordReceived
  <2>1. wsSessions' \in Nat /\ wsWith' \in [form : Nat, logout : Nat, button : Nat]
    <3>1. CASE UNCHANGED <<wsSessions, wsWith>>
      BY <3>1
    <3>2. CASE wsSessions' = wsSessions + 1 /\ wsWith' = [wsWith EXCEPT !.form = wsSessions']
      <4>1. wsSessions' \in Nat
        BY <3>2
      <4> QED BY <3>2, <4>1, WithFacts
    <3> QED BY <1>6, <3>1, <3>2 DEF PasswordReceived
  <2> QED BY <1>6, <2>1 DEF PasswordReceived
<1>7. CASE PasswordAccepted
  <2>1. /\ wsForm \in {"comparing", "hashing"} /\ wsForm' = "accepted"
        /\ wsPassword' = (wsPassword \/ wsForm = "hashing")
        /\ UNCHANGED <<wsServer, wsCookie, wsSessions, wsWith>>
    BY <1>7 DEF PasswordAccepted
  <2>2. wsPassword' = TRUE /\ wsServer' # "down"
    BY <2>1, Zenon
  <2> QED BY <2>1, <2>2
<1>8. CASE CookieSet
  <2>1. wsCookie' \in Nat
    BY <1>8, WithFacts DEF CookieSet
  <2> QED BY <1>8, <2>1 DEF CookieSet
<1>9. CASE OtherSetsPassword \/ SessionExpires \/ PasswordRemoved
  <2>1. CASE OtherSetsPassword
    BY <2>1 DEF OtherSetsPassword, PageIdle, sessionVars
  <2>2. CASE SessionExpires
    <3>1. /\ wsCookie' = 0 /\ (wsStored' # {} => wsStored # {})
          /\ UNCHANGED <<wsServer, wsPassword, wsSessions, wsWith, wsForm>>
      BY <2>2 DEF SessionExpires, PageIdle
    <3> QED BY <3>1
  <2>3. CASE PasswordRemoved
    BY <2>3 DEF PasswordRemoved, PageIdle, sessionVars
  <2> QED BY <1>9, <2>1, <2>2, <2>3
<1>10. CASE LoggedOut \/ CookieCleared
  BY <1>10 DEF LoggedOut, CookieCleared
<1>11. CASE ServerStops \/ Exit \/ OpenApp
  BY <1>11 DEF ServerStops, Exit, OpenApp, PageIdle, sessionVars
<1>12. CASE UNCHANGED wsVars
  BY <1>12 DEF wsVars, sessionVars
<1> QED BY <1>2, <1>3, <1>4, <1>5, <1>6, <1>7, <1>8, <1>9, <1>10, <1>11, <1>12 DEF WebSessionNext

LEMMA TabInvNext == TabInv /\ [WebSessionNext]_wsVars => TabInv'
<1> SUFFICES ASSUME TabInv, [WebSessionNext]_wsVars PROVE TabInv'
  OBVIOUS
<1>0. SessionsSound'
  BY SessionsNext DEF TabInv
<1>1. CASE Render \/ Retry
  BY <1>0, <1>1, GotoKeeps DEF Render, Retry, Server, sessionVars
<1>2. CASE FormSucceeds \/ LogoutLeaves \/ TimerLeaves
  BY <1>0, <1>2, GotoKeeps DEF FormSucceeds, LogoutLeaves, TimerLeaves, Server, sessionVars
<1>3. ASSUME NEW r \in wsAsks, AuthInfo(r) PROVE TabInv'
  <2> DEFINE a == IF wsServer = "down" THEN "failed" ELSE Info(r.cookie)
  <2>1. a \in {"failed", "in", "out", "setup"} /\ (a \in {"out", "setup"} => r.cookie \notin wsStored)
    BY DEF Info, TabInv, SessionsSound
  <2>2. wsAsks' = Answered(r, a) /\ UNCHANGED wsStored
    BY <1>3 DEF AuthInfo, Server, sessionVars
  <2> HIDE DEF a
  <2> QED BY <1>0, <2>1, <2>2, AnswerKeeps
<1>4. ASSUME NEW r \in wsAsks, InfoLost(r) PROVE TabInv'
  BY <1>0, <1>4, AnswerKeeps DEF InfoLost, Server, sessionVars
<1>5. ASSUME NEW r \in wsAsks, InfoLeads(r) \/ LayoutSendsAway(r) PROVE TabInv'
  <2>1. wsAsks \ {r} \in SUBSET wsAsks
    OBVIOUS
  <2> QED BY <1>0, <1>5, <2>1, GotoKeeps DEF InfoLeads, LayoutSendsAway, Server, sessionVars
<1>6. ASSUME NEW r \in wsAsks, InfoUnavailable(r) \/ LayoutStays(r) PROVE TabInv'
  BY <1>0, <1>6, FewerAsks DEF InfoUnavailable, LayoutStays, Server, sessionVars
<1>7. CASE PasswordAccepted
  BY <1>0, <1>7, AcceptedKeeps
<1>8. CASE wsAsks' = wsAsks /\ wsStored' \subseteq wsStored
  BY <1>0, <1>8, FewerAsks
<1>9. CASE SubmitForm \/ PasswordReceived \/ CookieSet \/ CookieLost \/ PasswordRefused \/ FormFails
  BY <1>8, <1>9 DEF SubmitForm, PasswordReceived, CookieSet, CookieLost, PasswordRefused, FormFails,
                    Server, sessionVars
<1>10. CASE ClickLogout \/ LoggedOut \/ CookieCleared \/ LogoutFails \/ OtherSetsPassword \/ SessionExpires
  BY <1>8, <1>10 DEF ClickLogout, LoggedOut, CookieCleared, LogoutFails, OtherSetsPassword,
                     SessionExpires, Server, sessionVars
<1>11. CASE (\E k \in {"restart", "cleanup", "reset"} : Press(k)) \/ ServerStops \/ ButtonRefused
            \/ StopsAlready \/ ButtonAnswered
  BY <1>8, <1>11 DEF Press, ServerStops, ButtonRefused, StopsAlready, ButtonAnswered, Server, sessionVars
<1>12. CASE Exit \/ OpenApp \/ PasswordRemoved \/ UNCHANGED wsVars
  BY <1>8, <1>12 DEF Exit, OpenApp, PasswordRemoved, wsVars, sessionVars
<1> QED BY <1>1, <1>2, <1>3, <1>4, <1>5, <1>6, <1>7, <1>9, <1>10, <1>11, <1>12 DEF WebSessionNext, InfoStep

(* Only an answer leads from the dashboard to the login, and it is gone.   *)
LEMMA AwayStep ==
  ASSUME TabInv, [WebSessionNext]_wsVars, wsPage = "dash", wsPage' = "login"
  PROVE  wsCookie \notin wsStored \/ \E r \in wsAsks \ wsAsks' : r.cookie # wsCookie \/ r.stale
<1>1. \E r \in wsAsks : InfoLeads(r) \/ LayoutSendsAway(r)
  BY DEF WebSessionNext, InfoStep, Render, Retry, AuthInfo, InfoLost, InfoUnavailable, LayoutStays,
         SubmitForm, PasswordReceived, PasswordAccepted, CookieSet, CookieLost, PasswordRefused,
         FormSucceeds, FormFails, OtherSetsPassword, SessionExpires, ClickLogout, LoggedOut,
         CookieCleared, LogoutFails, LogoutLeaves, Press, ServerStops, ButtonRefused, StopsAlready,
         ButtonAnswered, TimerLeaves, Exit, OpenApp, PasswordRemoved, Goto, wsVars
<1>2. PICK r \in wsAsks : InfoLeads(r) \/ LayoutSendsAway(r)
  BY <1>1
<1>3. r.answer \in {"out", "setup"} /\ \E p : Goto(p, wsAsks \ {r})
  BY <1>2 DEF InfoLeads, LayoutSendsAway, Leads, SendsAway, Goto
<1>4. r \notin wsAsks'
  <2>1. \A q \in wsAsks' : q.answer = "none" \/ \E s \in wsAsks \ {r} : Same(q, s)
    <3>1. wsAsks \ {r} \in SUBSET wsAsks
      OBVIOUS
    <3> QED BY <1>3, <3>1, GotoFacts DEF TabInv, SessionsSound
  <2>2. \A s \in wsAsks \ {r} : s.id # r.id
    BY DEF TabInv, Distinct
  <2> QED BY <1>3, <2>1, <2>2 DEF Same
<1>5. r.stale \/ r.cookie \notin wsStored
  BY <1>3 DEF TabInv, Excused
<1> QED BY <1>4, <1>5

(* layout.tsx sends to the login whoever is told not to be authenticated:  *)
(* with any number of questions under way, answers overtaking each other,  *)
(* restarts, lost answers and cookies, a tab with a session is only sent   *)
(* away by a question from before that session.                            *)
THEOREM OnlySentAwayWithoutSession == WebSessionSpec => SentAwayWithoutSession
<1>1. TabInv /\ [WebSessionNext]_wsVars
        => [wsPage = "dash" /\ wsPage' = "login" =>
              \/ wsCookie \notin wsStored
              \/ \E r \in wsAsks \ wsAsks' : r.cookie # wsCookie \/ r.stale]_wsVars
  BY AwayStep
<1> QED BY <1>1, TabInvInit, TabInvNext, PTL DEF WebSessionSpec, SentAwayWithoutSession

-----------------------------------------------------------------------------
(***************************************************************************)
(* The event metrics (Analytics).  An emit moves from the window into a    *)
(* flush, and from there into a row or among those given up; what has to   *)
(* be shown is that no step copies it or loses it while several flushes    *)
(* and readers share the pool's connections.                               *)
(***************************************************************************)

StatCalls == Flushes \cup StatReaders
Row == [type : EventTypes, emits : SUBSET Nat, start : Nat, end : Nat, by : Flushes]
Pool == [used : SUBSET StatCalls, waiting : Seq(StatCalls)]
FlushState == [pc : {"idle", "next", "called", "done"}, emits : [EventTypes -> SUBSET Nat],
               left : SUBSET EventTypes, start : Nat, end : Nat]
ReaderState == [pc : {"idle", "called", "shown", "failed"}, rows : SUBSET Row]

AnalyticsType ==
  /\ anNow \in Nat /\ anStart \in Nat
  /\ anEmitted \in [EventTypes -> Nat]
  /\ anCounters \in [EventTypes -> SUBSET Nat] /\ anDropped \in [EventTypes -> SUBSET Nat]
  /\ anFlush \in [Flushes -> FlushState]
  /\ anRows \subseteq Row /\ anPool \in Pool
  /\ anReader \in [StatReaders -> ReaderState]
  /\ anCache \subseteq [rows : SUBSET Row, at : Nat]

Queued(pool) == {pool.waiting[i] : i \in DOMAIN pool.waiting}
Members(pool) == pool.used \cup Queued(pool)

(* No call is in the pool twice.                                           *)
CallsOnce(pool) ==
  /\ \A i, j \in DOMAIN pool.waiting : pool.waiting[i] = pool.waiting[j] => i = j
  /\ pool.used \cap Queued(pool) = {}

InCall == {f \in Flushes : anFlush[f].pc = "called"}
            \cup {r \in StatReaders : anReader[r].pc = "called"}

(* The pool has the calls that were made and not answered, and the         *)
(* database has executed only what has a connection.                       *)
PoolSound ==
  /\ CallsOnce(anPool) /\ Members(anPool) = InCall
  /\ anExecuted \subseteq anPool.used

(* A flush that is not over has a next type.                               *)
FlushSound ==
  \A f \in Flushes : anFlush[f].left # {} <=> anFlush[f].pc \in {"next", "called"}

AnalyticsInv == AnalyticsType /\ PoolSound /\ FlushSound /\ EveryEmitOnce

LEMMA PoolFields ==
  /\ \A pool \in Pool : /\ pool.used \subseteq StatCalls /\ pool.waiting \in Seq(StatCalls)
                        /\ pool = [used |-> pool.used, waiting |-> pool.waiting]
  /\ \A pool \in Pool : \A q : [pool EXCEPT !.waiting = q] = [used |-> pool.used, waiting |-> q]
  /\ \A u \in SUBSET StatCalls, q \in Seq(StatCalls) : [used |-> u, waiting |-> q] \in Pool
BY DEF Pool

(* pool.connect.                                                           *)
LEMMA PoolConnects ==
  ASSUME NEW pool \in Pool, CallsOnce(pool), NEW c \in StatCalls, c \notin Members(pool)
  PROVE  /\ Connected(pool, c) \in Pool /\ CallsOnce(Connected(pool, c))
         /\ Members(Connected(pool, c)) = Members(pool) \cup {c}
         /\ pool.used \subseteq Connected(pool, c).used
<1> DEFINE q == Append(pool.waiting, c)
<1>0. pool.used \subseteq StatCalls /\ pool.waiting \in Seq(StatCalls)
  BY DEF Pool
<1>1. CASE Cardinality(pool.used) < Connections
  <2>1. Connected(pool, c) = [used |-> pool.used \cup {c}, waiting |-> pool.waiting]
    BY <1>1 DEF Connected, Pool
  <2>2. Queued(Connected(pool, c)) = Queued(pool)
    BY <2>1 DEF Queued
  <2>3. Connected(pool, c) \in Pool
    <3>1. pool.used \cup {c} \in SUBSET StatCalls
      BY <1>0
    <3> QED BY <1>0, <2>1, <3>1 DEF Pool
  <2>4. CallsOnce(Connected(pool, c))
    BY <2>1, <2>2 DEF CallsOnce, Members
  <2> QED BY <2>1, <2>2, <2>3, <2>4 DEF Members
<1>2. CASE ~(Cardinality(pool.used) < Connections)
  <2>1. Connected(pool, c) = [used |-> pool.used, waiting |-> q]
    BY <1>2 DEF Connected, Pool
  <2>2. /\ DOMAIN pool.waiting = 1..Len(pool.waiting) /\ Len(pool.waiting) \in Nat
        /\ q \in Seq(StatCalls) /\ DOMAIN q = 1..(Len(pool.waiting) + 1)
        /\ q[Len(pool.waiting) + 1] = c /\ \A i \in 1..Len(pool.waiting) : q[i] = pool.waiting[i]
    BY <1>0
  <2> HIDE DEF q
  <2>3. Queued(Connected(pool, c)) = Queued(pool) \cup {c}
    BY <2>1, <2>2 DEF Queued
  <2>4. \A i \in DOMAIN pool.waiting : pool.waiting[i] # c
    BY DEF Members, Queued
  <2>5. \A i, j \in DOMAIN q : q[i] = q[j] => i = j
    BY <2>2, <2>4 DEF CallsOnce
  <2>6. Connected(pool, c) \in Pool
    BY <1>0, <2>1, <2>2, PoolFields
  <2>7. CallsOnce(Connected(pool, c))
    BY <2>1, <2>3, <2>5 DEF CallsOnce, Members
  <2> QED BY <2>1, <2>3, <2>6, <2>7 DEF Members
<1> QED BY <1>1, <1>2

(* A connection comes back, and the first that waits gets it.              *)
LEMMA PoolReleases ==
  ASSUME NEW pool \in Pool, CallsOnce(pool), NEW c \in pool.used
  PROVE  /\ Released(pool, c) \in Pool /\ CallsOnce(Released(pool, c))
         /\ Members(Released(pool, c)) = Members(pool) \ {c}
         /\ pool.used \ {c} \subseteq Released(pool, c).used
<1> DEFINE q == Tail(pool.waiting)
           h == Head(pool.waiting)
<1>0. pool.used \subseteq StatCalls /\ pool.waiting \in Seq(StatCalls) /\ c \notin Queued(pool)
  BY DEF Pool, CallsOnce
<1>1. CASE pool.waiting = <<>>
  <2>1. Released(pool, c) = [used |-> pool.used \ {c}, waiting |-> pool.waiting]
    BY <1>1 DEF Released, Pool
  <2>2. Queued(Released(pool, c)) = Queued(pool)
    BY <2>1 DEF Queued
  <2>3. Released(pool, c) \in Pool
    <3>1. pool.used \ {c} \in SUBSET StatCalls
      BY <1>0
    <3> QED BY <1>0, <2>1, <3>1 DEF Pool
  <2>4. CallsOnce(Released(pool, c))
    BY <2>1, <2>2 DEF CallsOnce
  <2>5. Members(Released(pool, c)) = Members(pool) \ {c}
    BY <1>0, <2>1, <2>2 DEF Members
  <2>6. pool.used \ {c} \subseteq Released(pool, c).used
    BY <2>1
  <2> QED BY <2>3, <2>4, <2>5, <2>6
<1>2. CASE pool.waiting # <<>>
  <2>1. Released(pool, c) = [used |-> (pool.used \ {c}) \cup {h}, waiting |-> q]
    BY <1>2 DEF Released
  <2>2. /\ Len(pool.waiting) \in Nat /\ Len(pool.waiting) >= 1
        /\ DOMAIN pool.waiting = 1..Len(pool.waiting) /\ h = pool.waiting[1] /\ h \in StatCalls
        /\ q \in Seq(StatCalls) /\ DOMAIN q = 1..(Len(pool.waiting) - 1)
        /\ \A i \in 1..(Len(pool.waiting) - 1) : q[i] = pool.waiting[i + 1]
    BY <1>0, <1>2
  <2> HIDE DEF q, h
  <2>3. \A i \in DOMAIN q : /\ i + 1 \in DOMAIN pool.waiting /\ q[i] = pool.waiting[i + 1]
                            /\ i \in Nat /\ i + 1 # 1 /\ 1 \in DOMAIN pool.waiting
    BY <2>2
  <2>4. \A i \in DOMAIN q : q[i] # h
    BY <2>2, <2>3 DEF CallsOnce
  <2>5. ASSUME NEW i \in DOMAIN q, NEW j \in DOMAIN q, q[i] = q[j] PROVE i = j
    <3>1. i + 1 = j + 1
      BY <2>3, <2>5 DEF CallsOnce
    <3> QED BY <2>3, <3>1
  <2>6. Queued(pool) = {h} \cup Queued(Released(pool, c))
    <3>1. \A i \in DOMAIN pool.waiting :
            \/ i = 1
            \/ i - 1 \in DOMAIN q /\ q[i - 1] = pool.waiting[i]
      BY <2>2
    <3>2. 1 \in DOMAIN pool.waiting
      BY <2>2
    <3> QED BY <2>1, <2>2, <2>3, <3>1, <3>2 DEF Queued
  <2>7. h \notin Queued(Released(pool, c))
    BY <2>1, <2>4 DEF Queued
  <2>8. Released(pool, c) \in Pool
    <3>1. (pool.used \ {c}) \cup {h} \in SUBSET StatCalls
      BY <1>0, <2>2
    <3> QED BY <2>1, <2>2, <3>1, PoolFields
  <2>9. CallsOnce(Released(pool, c))
    <3>1. pool.used \cap Queued(Released(pool, c)) = {}
      BY <2>6 DEF CallsOnce
    <3> QED BY <2>1, <2>5, <2>7, <3>1 DEF CallsOnce
  <2>10. Members(Released(pool, c)) = Members(pool) \ {c}
    BY <1>0, <2>1, <2>6 DEF Members
  <2>11. pool.used \ {c} \subseteq Released(pool, c).used
    BY <2>1
  <2> QED BY <2>8, <2>9, <2>10, <2>11
<1> QED BY <1>1, <1>2

(* One that waits gives up.                                                *)
LEMMA PoolGivesUp ==
  ASSUME NEW pool \in Pool, CallsOnce(pool), NEW c \in Queued(pool)
  PROVE  /\ GivenUp(pool, c) \in Pool /\ CallsOnce(GivenUp(pool, c))
         /\ Members(GivenUp(pool, c)) = Members(pool) \ {c}
         /\ GivenUp(pool, c).used = pool.used
<1> DEFINE w == pool.waiting
           k == CHOOSE i \in DOMAIN w : w[i] = c
           q == SubSeq(w, 1, k - 1) \o SubSeq(w, k + 1, Len(w))
<1>0. pool.used \subseteq StatCalls /\ w \in Seq(StatCalls) /\ c \notin pool.used
  BY DEF Pool, CallsOnce
<1>1. k \in DOMAIN w /\ w[k] = c
  BY DEF Queued
<1>2. GivenUp(pool, c) = [used |-> pool.used, waiting |-> q]
  <2>1. GivenUp(pool, c) = [pool EXCEPT !.waiting = q]
    BY DEF GivenUp
  <2> HIDE DEF q
  <2> QED BY <2>1, PoolFields
<1> HIDE DEF k
<1>3. /\ Len(w) \in Nat /\ DOMAIN w = 1..Len(w) /\ k \in 1..Len(w)
  BY <1>0, <1>1
<1>4. /\ SubSeq(w, 1, k - 1) \in Seq(StatCalls) /\ Len(SubSeq(w, 1, k - 1)) = k - 1
      /\ \A i \in 1..(k - 1) : SubSeq(w, 1, k - 1)[i] = w[i]
  BY <1>0, <1>3
<1>5. /\ SubSeq(w, k + 1, Len(w)) \in Seq(StatCalls) /\ Len(SubSeq(w, k + 1, Len(w))) = Len(w) - k
      /\ \A i \in 1..(Len(w) - k) : SubSeq(w, k + 1, Len(w))[i] = w[k + i]
  BY <1>0, <1>3
<1>6. /\ q \in Seq(StatCalls) /\ DOMAIN q = 1..(Len(w) - 1)
      /\ \A i \in 1..(Len(w) - 1) : q[i] = IF i < k THEN w[i] ELSE w[i + 1]
  <2> DEFINE s == SubSeq(w, 1, k - 1)
             t == SubSeq(w, k + 1, Len(w))
  <2> HIDE DEF s, t
  <2>1. /\ s \in Seq(StatCalls) /\ Len(s) = k - 1 /\ \A i \in 1..(k - 1) : s[i] = w[i]
        /\ t \in Seq(StatCalls) /\ Len(t) = Len(w) - k /\ \A i \in 1..(Len(w) - k) : t[i] = w[k + i]
        /\ q = s \o t
    BY <1>4, <1>5 DEF s, t
  <2>2. /\ s \o t \in Seq(StatCalls) /\ DOMAIN (s \o t) = 1..(Len(s) + Len(t))
        /\ \A i \in 1..(Len(s) + Len(t)) :
             (s \o t)[i] = IF i <= Len(s) THEN s[i] ELSE t[i - Len(s)]
    <3>1. s \in Seq(StatCalls) /\ t \in Seq(StatCalls)
      BY <2>1
    <3> QED BY <3>1
  <2>3. \A i \in 1..(Len(w) - 1) : i >= k => i - (k - 1) \in 1..(Len(w) - k) /\ k + (i - (k - 1)) = i + 1
    BY <1>3
  <2> HIDE DEF q
  <2> QED BY <1>3, <2>1, <2>2, <2>3
<1> HIDE DEF q, w
<1>7. \A i \in DOMAIN q : \E j \in DOMAIN w : q[i] = w[j] /\ j # k
  BY <1>3, <1>6
<1>8. \A j \in DOMAIN w : j # k => \E i \in DOMAIN q : q[i] = w[j]
  <2> SUFFICES ASSUME NEW j \in DOMAIN w, j # k PROVE \E i \in DOMAIN q : q[i] = w[j]
    OBVIOUS
  <2>1. CASE j < k
    <3>1. j \in DOMAIN q /\ q[j] = w[j]
      BY <1>3, <1>6, <2>1
    <3> QED BY <3>1
  <2>2. CASE j > k
    <3>1. j - 1 \in DOMAIN q /\ q[j - 1] = w[j]
      BY <1>3, <1>6, <2>2
    <3> QED BY <3>1
  <2> QED BY <1>3, <2>1, <2>2
<1>9. \A i, j \in DOMAIN w : w[i] = w[j] => i = j
  BY DEF CallsOnce, w
<1>10. Queued(GivenUp(pool, c)) = Queued(pool) \ {c}
  <2>1. Queued(pool) = {w[i] : i \in DOMAIN w} /\ Queued(GivenUp(pool, c)) = {q[i] : i \in DOMAIN q}
    BY <1>2 DEF Queued, w
  <2>2. \A i \in DOMAIN q : q[i] \in {w[j] : j \in DOMAIN w} /\ q[i] # c
    BY <1>1, <1>7, <1>9
  <2>3. \A j \in DOMAIN w : w[j] = c \/ w[j] \in {q[i] : i \in DOMAIN q}
    BY <1>1, <1>8
  <2> QED BY <2>1, <2>2, <2>3
<1>11. ASSUME NEW i \in DOMAIN q, NEW j \in DOMAIN q, q[i] = q[j] PROVE i = j
  <2> DEFINE up(n) == IF n < k THEN n ELSE n + 1
  <2>1. up(i) \in DOMAIN w /\ up(j) \in DOMAIN w /\ w[up(i)] = w[up(j)]
    BY <1>3, <1>6, <1>11
  <2>2. up(i) = up(j)
    BY <1>9, <2>1
  <2> QED BY <1>3, <1>6, <2>2
<1>12. GivenUp(pool, c) \in Pool
  BY <1>0, <1>2, <1>6, PoolFields
<1>13. CallsOnce(GivenUp(pool, c))
  BY <1>2, <1>10, <1>11 DEF CallsOnce
<1> QED BY <1>0, <1>2, <1>10, <1>12, <1>13 DEF Members

-----------------------------------------------------------------------------
(* One type's emits: n so far, C in the window, P[f] with each flush, the  *)
(* rows R, and D given up.                                                 *)
OnePlace(n, C, P, R, D) ==
  LET taken == UNION {P[f] : f \in Flushes}
      stored == UNION {w.emits : w \in R}
  IN /\ 1..n = C \cup taken \cup stored \cup D
     /\ C \cap taken = {} /\ (C \cup taken) \cap stored = {}
     /\ (C \cup taken \cup stored) \cap D = {}
     /\ \A f, g \in Flushes : f # g => P[f] \cap P[g] = {}
     /\ \A v, w \in R : v # w => v.emits \cap w.emits = {}

Taken(e) == [f \in Flushes |-> Pending(f, e)]

Placed(e) == OnePlace(anEmitted[e], anCounters[e], Taken(e), RowsOf(e), anDropped[e])

(* The property, type by type.                                             *)
LEMMA EmitsOnePlace == EveryEmitOnce <=> \A e \in EventTypes : Placed(e)
<1>1. \A e \in EventTypes, f \in Flushes : Taken(e)[f] = Pending(f, e)
  BY DEF Taken
<1>2. \A e \in EventTypes : {Taken(e)[f] : f \in Flushes} = {Pending(f, e) : f \in Flushes}
  BY <1>1
<1> QED BY <1>1, <1>2 DEF EveryEmitOnce, Placed, OnePlace

LEMMA EmitsAreOnePlace ==
  /\ EveryEmitOnce <=> \A e \in EventTypes : Placed(e)
  /\ EveryEmitOnce' <=> \A e \in EventTypes : Placed(e)'
<1>1. (EveryEmitOnce <=> \A e \in EventTypes : Placed(e))'
  BY EmitsOnePlace, PTL
<1> QED BY <1>1, EmitsOnePlace

(* An emit is counted.                                                     *)
LEMMA OneMore ==
  ASSUME NEW n \in Nat, NEW C, NEW P, NEW R, NEW D, OnePlace(n, C, P, R, D)
  PROVE  OnePlace(n + 1, C \cup {n + 1}, P, R, D)
<1> DEFINE T == UNION {P[f] : f \in Flushes}
           S == UNION {w.emits : w \in R}
<1>1. /\ 1..n = C \cup T \cup S \cup D /\ C \cap T = {} /\ (C \cup T) \cap S = {}
      /\ (C \cup T \cup S) \cap D = {}
  BY DEF OnePlace
<1>2. 1..(n + 1) = 1..n \cup {n + 1} /\ n + 1 \notin 1..n
  OBVIOUS
<1>3. OnePlace(n, C, P, R, D) =>
        /\ \A f, g \in Flushes : f # g => P[f] \cap P[g] = {}
        /\ \A v, w \in R : v # w => v.emits \cap w.emits = {}
  BY DEF OnePlace
<1>4. OnePlace(n + 1, C \cup {n + 1}, P, R, D) <=>
        /\ 1..(n + 1) = C \cup {n + 1} \cup T \cup S \cup D
        /\ (C \cup {n + 1}) \cap T = {} /\ (C \cup {n + 1} \cup T) \cap S = {}
        /\ (C \cup {n + 1} \cup T \cup S) \cap D = {}
        /\ \A f, g \in Flushes : f # g => P[f] \cap P[g] = {}
        /\ \A v, w \in R : v # w => v.emits \cap w.emits = {}
  BY DEF OnePlace
<1> HIDE DEF T, S
<1> QED BY <1>1, <1>2, <1>3, <1>4

(* What flush f has, and what the other flushes have.                      *)
LEMMA OneFlush ==
  ASSUME NEW P, NEW f \in Flushes
  PROVE  UNION {P[g] : g \in Flushes} = P[f] \cup UNION {P[g] : g \in Flushes \ {f}}
OBVIOUS

(* A flush takes the window.                                               *)
LEMMA WindowTaken ==
  ASSUME NEW n, NEW C, NEW P, NEW R, NEW D, OnePlace(n, C, P, R, D),
         NEW f \in Flushes, P[f] = {}, NEW P2, P2[f] = C,
         \A g \in Flushes \ {f} : P2[g] = P[g]
  PROVE  OnePlace(n, {}, P2, R, D)
<1> DEFINE T == UNION {P[g] : g \in Flushes \ {f}}
           S == UNION {w.emits : w \in R}
<1>1. {P2[g] : g \in Flushes \ {f}} = {P[g] : g \in Flushes \ {f}}
  OBVIOUS
<1>2. UNION {P[g] : g \in Flushes} = T /\ UNION {P2[g] : g \in Flushes} = C \cup T
  BY <1>1, OneFlush
<1>3. /\ 1..n = C \cup T \cup S \cup D /\ C \cap T = {} /\ (C \cup T) \cap S = {}
      /\ (C \cup T \cup S) \cap D = {}
      /\ \A g, h \in Flushes : g # h => P[g] \cap P[h] = {}
      /\ \A v, w \in R : v # w => v.emits \cap w.emits = {}
  BY <1>2 DEF OnePlace
<1>4. \A g \in Flushes \ {f} : P2[g] \subseteq T
  OBVIOUS
<1>5. \A g, h \in Flushes : g # h => P2[g] \cap P2[h] = {}
  <2> HIDE DEF T
  <2> QED BY <1>3, <1>4
<1> HIDE DEF T
<1> QED BY <1>2, <1>3, <1>5 DEF OnePlace

(* What a flush had of the type is given up.                               *)
LEMMA GivenUpEmits ==
  ASSUME NEW n, NEW C, NEW P, NEW R, NEW D, OnePlace(n, C, P, R, D),
         NEW f \in Flushes, NEW P2, P2[f] = {},
         \A g \in Flushes \ {f} : P2[g] = P[g]
  PROVE  OnePlace(n, C, P2, R, D \cup P[f])
<1> DEFINE T == UNION {P[g] : g \in Flushes \ {f}}
           S == UNION {w.emits : w \in R}
<1>1. {P2[g] : g \in Flushes \ {f}} = {P[g] : g \in Flushes \ {f}}
  OBVIOUS
<1>2. UNION {P[g] : g \in Flushes} = P[f] \cup T /\ UNION {P2[g] : g \in Flushes} = T
  BY <1>1, OneFlush
<1>3. /\ 1..n = C \cup P[f] \cup T \cup S \cup D /\ C \cap (P[f] \cup T) = {}
      /\ (C \cup P[f] \cup T) \cap S = {} /\ (C \cup P[f] \cup T \cup S) \cap D = {}
      /\ \A g, h \in Flushes : g # h => P[g] \cap P[h] = {}
      /\ \A v, w \in R : v # w => v.emits \cap w.emits = {}
  BY <1>2 DEF OnePlace
<1>4. P[f] \cap T = {}
  BY <1>3
<1>5. \A g, h \in Flushes : g # h => P2[g] \cap P2[h] = {}
  BY <1>3
<1> HIDE DEF T
<1> QED BY <1>2, <1>3, <1>4, <1>5 DEF OnePlace

(* What a flush had of the type is in a row.                               *)
LEMMA EmitsStored ==
  ASSUME NEW n, NEW C, NEW P, NEW R, NEW D, OnePlace(n, C, P, R, D),
         NEW f \in Flushes, NEW P2, P2[f] = {},
         \A g \in Flushes \ {f} : P2[g] = P[g], NEW row, row.emits = P[f]
  PROVE  OnePlace(n, C, P2, R \cup {row}, D)
<1> DEFINE T == UNION {P[g] : g \in Flushes \ {f}}
           S == UNION {w.emits : w \in R}
<1>1. {P2[g] : g \in Flushes \ {f}} = {P[g] : g \in Flushes \ {f}}
  OBVIOUS
<1>2. UNION {P[g] : g \in Flushes} = P[f] \cup T /\ UNION {P2[g] : g \in Flushes} = T
  BY <1>1, OneFlush
<1>3. /\ 1..n = C \cup P[f] \cup T \cup S \cup D /\ C \cap (P[f] \cup T) = {}
      /\ (C \cup P[f] \cup T) \cap S = {} /\ (C \cup P[f] \cup T \cup S) \cap D = {}
      /\ \A g, h \in Flushes : g # h => P[g] \cap P[h] = {}
      /\ \A v, w \in R : v # w => v.emits \cap w.emits = {}
  BY <1>2 DEF OnePlace
<1>4. P[f] \cap T = {}
  BY <1>3
<1>5. \A g, h \in Flushes : g # h => P2[g] \cap P2[h] = {}
  BY <1>3
<1>6. UNION {w.emits : w \in R \cup {row}} = S \cup P[f]
  OBVIOUS
<1>7. \A w \in R : w.emits \subseteq S
  OBVIOUS
<1> HIDE DEF T, S
<1>8. \A v, w \in R \cup {row} : v # w => v.emits \cap w.emits = {}
  <2>1. \A v \in R : v.emits \cap row.emits = {}
    BY <1>3, <1>7
  <2> QED BY <1>3, <2>1
<1> QED BY <1>2, <1>3, <1>4, <1>5, <1>6, <1>8 DEF OnePlace

(* Rows are deleted.                                                       *)
LEMMA RowsExpire ==
  ASSUME NEW n, NEW C, NEW P, NEW R, NEW D, OnePlace(n, C, P, R, D), NEW old \in SUBSET R
  PROVE  OnePlace(n, C, P, R \ old, D \cup UNION {w.emits : w \in old})
<1> DEFINE T == UNION {P[g] : g \in Flushes}
           S == UNION {w.emits : w \in R}
           S1 == UNION {w.emits : w \in R \ old}
           S2 == UNION {w.emits : w \in old}
<1>1. /\ 1..n = C \cup T \cup S \cup D /\ C \cap T = {}
      /\ (C \cup T) \cap S = {} /\ (C \cup T \cup S) \cap D = {}
      /\ \A g, h \in Flushes : g # h => P[g] \cap P[h] = {}
      /\ \A v, w \in R : v # w => v.emits \cap w.emits = {}
  BY DEF OnePlace
<1>2. S = S1 \cup S2
  OBVIOUS
<1>3. S1 \cap S2 = {}
  BY <1>1
<1>4. OnePlace(n, C, P, R \ old, D \cup S2) <=>
        /\ 1..n = C \cup T \cup S1 \cup (D \cup S2) /\ C \cap T = {}
        /\ (C \cup T) \cap S1 = {} /\ (C \cup T \cup S1) \cap (D \cup S2) = {}
        /\ \A g, h \in Flushes : g # h => P[g] \cap P[h] = {}
        /\ \A v, w \in R \ old : v # w => v.emits \cap w.emits = {}
  BY DEF OnePlace
<1>5. \A v, w \in R \ old : v # w => v.emits \cap w.emits = {}
  BY <1>1
<1>6. \A g, h \in Flushes : g # h => P[g] \cap P[h] = {}
  BY <1>1
<1> HIDE DEF T, S, S1, S2
<1>7. /\ 1..n = C \cup T \cup S1 \cup (D \cup S2) /\ C \cap T = {}
      /\ (C \cup T) \cap S1 = {} /\ (C \cup T \cup S1) \cap (D \cup S2) = {}
  BY <1>1, <1>2, <1>3
<1>8. OnePlace(n, C, P, R \ old, D \cup S2)
  BY <1>4, <1>5, <1>6, <1>7
<1> QED BY <1>8 DEF S2

-----------------------------------------------------------------------------
(* A call is made, or is over.                                             *)
LEMMA CallBegins ==
  ASSUME anPool \in Pool, PoolSound, NEW c \in StatCalls, c \notin InCall,
         anPool' = Connected(anPool, c), InCall' = InCall \cup {c}, UNCHANGED anExecuted
  PROVE  anPool' \in Pool /\ PoolSound'
<1>1. CallsOnce(anPool) /\ c \notin Members(anPool)
  BY DEF PoolSound
<1>2. /\ anPool' \in Pool /\ CallsOnce(anPool')
      /\ Members(anPool') = Members(anPool) \cup {c} /\ anPool.used \subseteq anPool'.used
  BY <1>1, PoolConnects
<1>3. Members(anPool)' = Members(anPool') /\ CallsOnce(anPool)' = CallsOnce(anPool')
  BY DEF Members, CallsOnce, Queued
<1> QED BY <1>2, <1>3 DEF PoolSound

LEMMA CallEnds ==
  ASSUME anPool \in Pool, PoolSound, NEW c \in InCall,
         anPool' = IF c \in anPool.used THEN Released(anPool, c) ELSE GivenUp(anPool, c),
         InCall' = InCall \ {c}, anExecuted' = anExecuted \ {c}
  PROVE  anPool' \in Pool /\ PoolSound'
<1>1. CallsOnce(anPool) /\ c \in Members(anPool)
  BY DEF PoolSound
<1>2. /\ anPool' \in Pool /\ CallsOnce(anPool')
      /\ Members(anPool') = Members(anPool) \ {c} /\ anPool.used \ {c} \subseteq anPool'.used
  <2>1. CASE c \in anPool.used
    BY <1>1, <2>1, PoolReleases
  <2>2. CASE c \notin anPool.used
    <3>1. c \in Queued(anPool)
      BY <1>1, <2>2 DEF Members
    <3> QED BY <1>1, <2>2, <3>1, PoolGivesUp
  <2> QED BY <2>1, <2>2
<1>3. Members(anPool)' = Members(anPool') /\ CallsOnce(anPool)' = CallsOnce(anPool')
  BY DEF Members, CallsOnce, Queued
<1> QED BY <1>2, <1>3 DEF PoolSound

(* Who is in a call: a flush that is not, and a reader that is not.        *)
LEMMA WhoCalls ==
  ASSUME PoolSound
  PROVE  /\ \A f \in Flushes : f \in InCall <=> anFlush[f].pc = "called"
         /\ \A r \in StatReaders : r \in InCall <=> anReader[r].pc = "called"
         /\ anExecuted \subseteq anPool.used /\ anPool.used \subseteq InCall
         /\ InCall \subseteq StatCalls
BY AnalyticsAssumption DEF PoolSound, InCall, Members, StatCalls

(* A flush that nothing happens to keeps what it has to write.             *)
LEMMA PendingSame ==
  ASSUME NEW f \in Flushes, NEW e, anFlush'[f] = anFlush[f],
         f \in anExecuted' <=> f \in anExecuted
  PROVE  Pending(f, e)' = Pending(f, e)
<1>1. NextType(f)' = NextType(f)
  BY DEF NextType
<1> QED BY <1>1 DEF Pending

LEMMA NextTypeLeft ==
  ASSUME FlushSound, NEW f \in Flushes, anFlush[f].pc \in {"next", "called"}
  PROVE  NextType(f) \in anFlush[f].left
BY DEF FlushSound, NextType

(* The type is done, written or not.                                       *)
LEMMA TypeDone ==
  ASSUME AnalyticsType, FlushSound, NEW f \in Flushes, anFlush[f].pc \in {"next", "called"},
         anFlush' = Remaining(f, NextType(f)), anExecuted' = anExecuted \ {f}
  PROVE  /\ anFlush' \in [Flushes -> FlushState] /\ FlushSound'
         /\ anFlush'[f].pc # "called" /\ \A g \in Flushes \ {f} : anFlush'[g] = anFlush[g]
         /\ NextType(f) \in EventTypes
         /\ \A g \in Flushes, e \in EventTypes : g # f \/ e # NextType(f) =>
              Pending(g, e)' = Pending(g, e)
         /\ Pending(f, NextType(f)) =
              IF f \in anExecuted THEN {} ELSE anFlush[f].emits[NextType(f)]
         /\ \A e \in EventTypes : e = NextType(f) => Pending(f, e)' = {}
<1> DEFINE t == NextType(f)
           left == anFlush[f].left \ {t}
<1>1. t \in anFlush[f].left /\ anFlush[f] \in FlushState /\ t \in EventTypes
  BY NextTypeLeft DEF AnalyticsType, FlushState
<1>2. anFlush' = [anFlush EXCEPT ![f] =
        [anFlush[f] EXCEPT !.left = left, !.pc = IF left = {} THEN "done" ELSE "next"]]
  BY DEF Remaining, AnalyticsType
<1> HIDE DEF t
<1>3. /\ anFlush'[f] = [anFlush[f] EXCEPT !.left = left, !.pc = IF left = {} THEN "done" ELSE "next"]
      /\ \A g \in Flushes \ {f} : anFlush'[g] = anFlush[g]
      /\ DOMAIN anFlush' = Flushes
  BY <1>2 DEF AnalyticsType
<1>4. /\ anFlush'[f] \in FlushState /\ anFlush'[f].left = left
      /\ anFlush'[f].pc = IF left = {} THEN "done" ELSE "next"
      /\ anFlush'[f].emits = anFlush[f].emits
  BY <1>1, <1>3 DEF FlushState
<1>5. anFlush' \in [Flushes -> FlushState]
  BY <1>1, <1>2, <1>3, <1>4 DEF AnalyticsType
<1>6. FlushSound'
  BY <1>3, <1>4 DEF FlushSound
<1>7. \A e \in EventTypes : Pending(f, e)' = IF e \in left THEN anFlush[f].emits[e] ELSE {}
  BY <1>4 DEF Pending
<1>8. \A e \in EventTypes :
        Pending(f, e) = IF e \in anFlush[f].left /\ ~(f \in anExecuted /\ e = t)
                        THEN anFlush[f].emits[e] ELSE {}
  BY DEF Pending, t
<1>9. \A g \in Flushes, e \in EventTypes : g # f \/ e # t => Pending(g, e)' = Pending(g, e)
  <2>1. \A g \in Flushes \ {f}, e \in EventTypes : Pending(g, e)' = Pending(g, e)
    BY <1>3, PendingSame
  <2>2. \A e \in EventTypes \ {t} : Pending(f, e)' = Pending(f, e)
    BY <1>7, <1>8
  <2> QED BY <2>1, <2>2
<1>10. Pending(f, t) = IF f \in anExecuted THEN {} ELSE anFlush[f].emits[t]
  BY <1>1, <1>8
<1>11. \A e \in EventTypes : e = t => Pending(f, e)' = {}
  BY <1>1, <1>7
<1>12. anFlush'[f].pc # "called"
  BY <1>4
<1> QED BY <1>1, <1>3, <1>5, <1>6, <1>9, <1>10, <1>11, <1>12 DEF t

(* Nothing of a type moves.                                                *)
LEMMA TypeSame ==
  ASSUME NEW e \in EventTypes, Placed(e), anEmitted'[e] = anEmitted[e],
         anCounters'[e] = anCounters[e], \A f \in Flushes : Pending(f, e)' = Pending(f, e),
         RowsOf(e)' = RowsOf(e), anDropped'[e] = anDropped[e]
  PROVE  Placed(e)'
<1>1. Taken(e)' = Taken(e)
  BY DEF Taken
<1> QED BY <1>1 DEF Placed

-----------------------------------------------------------------------------
(* The steps.                                                              *)
LEMMA AnStart == AnalyticsInit => AnalyticsInv
<1> SUFFICES ASSUME AnalyticsInit PROVE AnalyticsInv
  OBVIOUS
<1> USE DEF AnalyticsInit
<1>1. None \in [EventTypes -> SUBSET Nat] /\ NoWindow \in FlushState
  BY DEF None, NoWindow, FlushState
<1>2. anPool \in Pool /\ anPool.used = {} /\ anPool.waiting = <<>>
  BY DEF Pool
<1>3. AnalyticsType
  BY <1>1, <1>2 DEF AnalyticsType, ReaderState
<1>4. PoolSound
  <2>1. InCall = {} /\ Members(anPool) = {}
    BY <1>2 DEF InCall, Members, Queued, NoWindow
  <2> QED BY <1>2, <2>1 DEF PoolSound, CallsOnce
<1>5. FlushSound
  BY DEF FlushSound, NoWindow
<1>6. ASSUME NEW e \in EventTypes PROVE Placed(e)
  <2>1. \A f \in Flushes : Pending(f, e) = {}
    BY DEF Pending, NoWindow
  <2>2. UNION {Taken(e)[f] : f \in Flushes} = {} /\ \A f \in Flushes : Taken(e)[f] = {}
    BY <2>1 DEF Taken
  <2>3. RowsOf(e) = {} /\ anCounters[e] = {} /\ anDropped[e] = {} /\ anEmitted[e] = 0
    BY DEF RowsOf, None
  <2>4. OnePlace(0, {}, Taken(e), {}, {})
    <3>1. UNION {w.emits : w \in {}} = {} /\ 1..0 = {}
      OBVIOUS
    <3> QED BY <2>2, <3>1 DEF OnePlace
  <2> QED BY <2>3, <2>4 DEF Placed
<1> QED BY <1>3, <1>4, <1>5, <1>6, EmitsAreOnePlace DEF AnalyticsInv

LEMMA AnEmits ==
  ASSUME AnalyticsInv, NEW t \in EventTypes, RecordEmit(t)
  PROVE  AnalyticsInv'
<1> USE DEF AnalyticsInv
<1>0. /\ anCounters' = [anCounters EXCEPT ![t] = @ \cup {anEmitted[t] + 1}]
      /\ anEmitted' = [anEmitted EXCEPT ![t] = @ + 1]
      /\ UNCHANGED <<anNow, anStart, anFlush, anRows, anPool, anExecuted, anReader, anCache, anDropped>>
  BY DEF RecordEmit
<1>1. AnalyticsType'
  BY <1>0 DEF AnalyticsType
<1>2. PoolSound' /\ FlushSound'
  BY <1>0 DEF PoolSound, FlushSound, InCall, CallsOnce, Members, Queued
<1>3. ASSUME NEW e \in EventTypes PROVE Placed(e)'
  <2>1. /\ \A f \in Flushes : Pending(f, e)' = Pending(f, e)
        /\ RowsOf(e)' = RowsOf(e) /\ anDropped'[e] = anDropped[e]
    BY <1>0, PendingSame DEF RowsOf
  <2>2. CASE e # t
    <3>1. anCounters'[e] = anCounters[e] /\ anEmitted'[e] = anEmitted[e]
      BY <1>0, <2>2 DEF AnalyticsType
    <3>2. Placed(e)
      BY EmitsAreOnePlace
    <3> QED BY <2>1, <3>1, <3>2, TypeSame
  <2>3. CASE e = t
    <3>1. /\ anCounters'[e] = anCounters[e] \cup {anEmitted[e] + 1}
          /\ anEmitted'[e] = anEmitted[e] + 1 /\ anEmitted[e] \in Nat
      BY <1>0, <2>3 DEF AnalyticsType
    <3>2. Taken(e)' = Taken(e)
      BY <2>1 DEF Taken
    <3>3. OnePlace(anEmitted[e], anCounters[e], Taken(e), RowsOf(e), anDropped[e])
      BY EmitsAreOnePlace DEF Placed
    <3>4. OnePlace(anEmitted[e] + 1, anCounters[e] \cup {anEmitted[e] + 1}, Taken(e), RowsOf(e), anDropped[e])
      BY <3>1, <3>3, OneMore
    <3> QED BY <2>1, <3>1, <3>2, <3>4 DEF Placed
  <2> QED BY <2>2, <2>3
<1> QED BY <1>1, <1>2, <1>3, EmitsAreOnePlace

LEMMA AnFlushBegins ==
  ASSUME AnalyticsInv, NEW f \in Flushes, FlushBegins(f)
  PROVE  AnalyticsInv'
<1> USE DEF AnalyticsInv
<1> DEFINE left == {e \in EventTypes : anCounters[e] # {}}
           new == [pc |-> IF left = {} THEN "done" ELSE "next", emits |-> anCounters,
                   left |-> left, start |-> anStart, end |-> anNow]
<1>0. /\ anFlush[f].pc = "idle" /\ anFlush' = [anFlush EXCEPT ![f] = new]
      /\ anCounters' = None /\ anStart' = anNow
      /\ UNCHANGED <<anNow, anRows, anPool, anExecuted, anReader, anCache, anEmitted, anDropped>>
  BY DEF FlushBegins, Swapped, NextStart
<1>1. /\ new \in FlushState /\ new.left = left /\ new.emits = anCounters
      /\ new.pc = IF left = {} THEN "done" ELSE "next"
      /\ None \in [EventTypes -> SUBSET Nat]
  BY DEF AnalyticsType, FlushState, None
<1> HIDE DEF new
<1>2. anFlush'[f] = new /\ \A g \in Flushes \ {f} : anFlush'[g] = anFlush[g]
  BY <1>0 DEF AnalyticsType
<1>3. AnalyticsType'
  BY <1>0, <1>1 DEF AnalyticsType
<1>4. f \notin InCall /\ f \notin anExecuted /\ anFlush[f].left = {}
  BY <1>0, WhoCalls DEF FlushSound
<1>5. InCall' = InCall
  BY <1>0, <1>1, <1>2 DEF InCall
<1>6. PoolSound' /\ FlushSound'
  BY <1>0, <1>1, <1>2, <1>5 DEF PoolSound, FlushSound, CallsOnce, Members, Queued
<1>7. ASSUME NEW e \in EventTypes PROVE Placed(e)'
  <2>1. \A g \in Flushes \ {f} : Pending(g, e)' = Pending(g, e)
    BY <1>0, <1>2, PendingSame
  <2>2. Pending(f, e) = {} /\ Pending(f, e)' = anCounters[e]
    <3>1. Pending(f, e) = {}
      BY <1>4 DEF Pending
    <3>2. Pending(f, e)' = IF e \in left THEN anCounters[e] ELSE {}
      BY <1>0, <1>1, <1>2, <1>4 DEF Pending
    <3> QED BY <3>1, <3>2
  <2>3. /\ Taken(e)[f] = {} /\ Taken(e)'[f] = anCounters[e]
        /\ \A g \in Flushes \ {f} : Taken(e)'[g] = Taken(e)[g]
    BY <2>1, <2>2 DEF Taken
  <2>4. OnePlace(anEmitted[e], anCounters[e], Taken(e), RowsOf(e), anDropped[e])
    BY EmitsAreOnePlace DEF Placed
  <2>5. OnePlace(anEmitted[e], {}, Taken(e)', RowsOf(e), anDropped[e])
    BY <2>3, <2>4, WindowTaken
  <2>6. anCounters'[e] = {} /\ RowsOf(e)' = RowsOf(e)
    BY <1>0 DEF None, RowsOf
  <2> QED BY <1>0, <2>5, <2>6 DEF Placed
<1> QED BY <1>3, <1>6, <1>7, EmitsAreOnePlace

(* Nothing moves at all.                                                   *)
LEMMA AnSame ==
  ASSUME EveryEmitOnce, \A f \in Flushes, e \in EventTypes : Pending(f, e)' = Pending(f, e),
         UNCHANGED <<anCounters, anRows, anEmitted, anDropped>>
  PROVE  EveryEmitOnce'
<1>1. ASSUME NEW e \in EventTypes PROVE Placed(e)'
  <2>1. Placed(e) /\ RowsOf(e)' = RowsOf(e)
    BY EmitsAreOnePlace DEF RowsOf
  <2> QED BY <2>1, TypeSame
<1> QED BY <1>1, EmitsAreOnePlace

(* The type a flush is at is given up.                                     *)
LEMMA TypeGivenUp ==
  ASSUME AnalyticsInv, NEW f \in Flushes, NEW t \in EventTypes, UNCHANGED <<anCounters, anRows, anEmitted>>,
         \A g \in Flushes, e \in EventTypes : g # f \/ e # t => Pending(g, e)' = Pending(g, e),
         \A e \in EventTypes : e = t => Pending(f, e)' = {},
         anDropped' = [anDropped EXCEPT ![t] = @ \cup Pending(f, t)]
  PROVE  EveryEmitOnce'
<1>1. ASSUME NEW e \in EventTypes PROVE Placed(e)'
  <2>1. RowsOf(e)' = RowsOf(e) /\ Placed(e)
    BY EmitsAreOnePlace DEF RowsOf, AnalyticsInv
  <2>2. CASE e # t
    <3>1. anDropped'[e] = anDropped[e]
      BY <2>2 DEF AnalyticsInv, AnalyticsType
    <3> QED BY <2>1, <2>2, <3>1, TypeSame
  <2>3. CASE e = t
    <3>1. anDropped'[e] = anDropped[e] \cup Taken(e)[f]
      BY <2>3 DEF AnalyticsInv, AnalyticsType, Taken
    <3>2. Taken(e)'[f] = {} /\ \A g \in Flushes \ {f} : Taken(e)'[g] = Taken(e)[g]
      BY <2>3 DEF Taken
    <3>3. OnePlace(anEmitted[e], anCounters[e], Taken(e), RowsOf(e), anDropped[e])
      BY <2>1 DEF Placed
    <3>4. OnePlace(anEmitted[e], anCounters[e], Taken(e)', RowsOf(e), anDropped[e] \cup Taken(e)[f])
      BY <3>2, <3>3, GivenUpEmits
    <3> QED BY <2>1, <3>1, <3>4 DEF Placed
  <2> QED BY <2>2, <2>3
<1> QED BY <1>1, EmitsAreOnePlace

LEMMA AnFlushWrites ==
  ASSUME AnalyticsInv, NEW f \in Flushes, FlushWrites(f)
  PROVE  AnalyticsInv'
<1> USE DEF AnalyticsInv
<1> DEFINE t == NextType(f)
<1>0. /\ anFlush[f].pc = "next"
      /\ UNCHANGED <<anNow, anCounters, anStart, anRows, anExecuted, anReader, anCache, anEmitted>>
  BY DEF FlushWrites
<1>1. f \notin InCall /\ f \notin anExecuted
  BY <1>0, WhoCalls
<1>2. CASE Sheds(anPool)
  <2>1. anFlush' = Remaining(f, t) /\ Drop(f, t) /\ UNCHANGED anPool
    BY <1>2 DEF FlushWrites
  <2>2. anExecuted' = anExecuted \ {f}
    BY <1>0, <1>1
  <2>3. /\ anFlush' \in [Flushes -> FlushState] /\ FlushSound'
        /\ anFlush'[f].pc # "called" /\ \A g \in Flushes \ {f} : anFlush'[g] = anFlush[g]
        /\ t \in EventTypes
        /\ \A g \in Flushes, e \in EventTypes : g # f \/ e # t => Pending(g, e)' = Pending(g, e)
        /\ Pending(f, t) = anFlush[f].emits[t]
        /\ \A e \in EventTypes : e = t => Pending(f, e)' = {}
    BY <1>0, <1>1, <2>1, <2>2, TypeDone
  <2> HIDE DEF t
  <2>4. anDropped' = [anDropped EXCEPT ![t] = @ \cup Pending(f, t)]
    BY <2>1, <2>3 DEF Drop
  <2>5. anFlush[f] \in FlushState /\ anFlush[f].emits[t] \subseteq Nat
    BY <2>3 DEF AnalyticsType, FlushState
  <2>6. AnalyticsType'
    BY <1>0, <2>1, <2>3, <2>4, <2>5 DEF AnalyticsType
  <2>7. InCall' = InCall
    BY <1>0, <2>3 DEF InCall
  <2>8. PoolSound'
    BY <1>0, <2>1, <2>7 DEF PoolSound, CallsOnce, Members, Queued
  <2>9. EveryEmitOnce'
    BY <1>0, <2>3, <2>4, TypeGivenUp
  <2> QED BY <2>3, <2>6, <2>8, <2>9
<1>3. CASE ~Sheds(anPool)
  <2>1. /\ anFlush' = [anFlush EXCEPT ![f].pc = "called"]
        /\ anPool' = Connected(anPool, f) /\ UNCHANGED anDropped
    BY <1>3 DEF FlushWrites
  <2>2. /\ anFlush[f] \in FlushState /\ anFlush'[f] = [anFlush[f] EXCEPT !.pc = "called"]
        /\ \A g \in Flushes \ {f} : anFlush'[g] = anFlush[g]
    BY <2>1 DEF AnalyticsType
  <2>3. /\ anFlush'[f] \in FlushState /\ anFlush'[f].pc = "called"
        /\ anFlush'[f].left = anFlush[f].left /\ anFlush'[f].emits = anFlush[f].emits
    BY <2>2 DEF FlushState
  <2>4. anFlush' \in [Flushes -> FlushState]
    BY <2>1, <2>2, <2>3 DEF AnalyticsType
  <2>5. InCall' = InCall \cup {f}
    BY <1>0, <2>2, <2>3 DEF InCall
  <2>6. anPool' \in Pool /\ PoolSound'
    BY <1>0, <1>1, <2>1, <2>5, CallBegins DEF AnalyticsType, StatCalls
  <2>7. AnalyticsType'
    BY <1>0, <2>1, <2>4, <2>6 DEF AnalyticsType
  <2>8. FlushSound'
    <3>1. anFlush'[f].left # {}
      BY <1>0, <2>3 DEF FlushSound
    <3>2. \A g \in Flushes \ {f} : anFlush'[g].left # {} <=> anFlush'[g].pc \in {"next", "called"}
      BY <2>2 DEF FlushSound
    <3> QED BY <2>3, <3>1, <3>2 DEF FlushSound
  <2>9. \A g \in Flushes, e \in EventTypes : Pending(g, e)' = Pending(g, e)
    <3>1. \A g \in Flushes \ {f}, e \in EventTypes : Pending(g, e)' = Pending(g, e)
      BY <1>0, <2>2, PendingSame
    <3>2. \A e \in EventTypes : Pending(f, e)' = Pending(f, e)
      BY <1>0, <1>1, <2>3 DEF Pending
    <3> QED BY <3>1, <3>2
  <2>10. EveryEmitOnce'
    BY <1>0, <2>1, <2>9, AnSame
  <2> QED BY <2>6, <2>7, <2>8, <2>10
<1> QED BY <1>2, <1>3

LEMMA AnInserts ==
  ASSUME AnalyticsInv, NEW f \in Flushes, DbInsertMetrics(f)
  PROVE  AnalyticsInv'
<1> USE DEF AnalyticsInv
<1> DEFINE t == NextType(f)
           row == RowOf(f, t)
<1>0. /\ f \in anPool.used /\ f \notin anExecuted
      /\ anRows' = anRows \cup {row} /\ anExecuted' = anExecuted \cup {f}
      /\ UNCHANGED <<anNow, anCounters, anStart, anFlush, anPool, anReader, anCache, anEmitted, anDropped>>
  BY DEF DbInsertMetrics
<1>1. anFlush[f].pc = "called"
  BY <1>0, WhoCalls
<1>2. t \in anFlush[f].left /\ t \in EventTypes /\ anFlush[f] \in FlushState
  BY <1>1, NextTypeLeft DEF AnalyticsType, FlushState
<1>3. Pending(f, t) = anFlush[f].emits[t]
  BY <1>0, <1>2 DEF Pending
<1>4. row \in Row /\ row.type = t /\ row.emits = Pending(f, t)
  BY <1>2, <1>3 DEF RowOf, Row, FlushState
<1>5. AnalyticsType'
  BY <1>0, <1>4 DEF AnalyticsType
<1>6. PoolSound' /\ FlushSound'
  BY <1>0 DEF PoolSound, FlushSound, InCall, CallsOnce, Members, Queued
<1>7. \A g \in Flushes \ {f}, e \in EventTypes : Pending(g, e)' = Pending(g, e)
  BY <1>0, PendingSame
<1>8. \A e \in EventTypes : Pending(f, e)' = IF e \in anFlush[f].left /\ e # t
                                             THEN anFlush[f].emits[e] ELSE {}
  <2>1. NextType(f)' = NextType(f)
    BY <1>0 DEF NextType
  <2> QED BY <1>0, <2>1 DEF Pending
<1>9. \A e \in EventTypes : e # t => Pending(f, e)' = Pending(f, e)
  BY <1>0, <1>8 DEF Pending
<1>10. \A e \in EventTypes : e = t => Pending(f, e)' = {}
  BY <1>8
<1> HIDE DEF t, row
<1>11. ASSUME NEW e \in EventTypes PROVE Placed(e)'
  <2>0. Placed(e) /\ anDropped'[e] = anDropped[e] /\ anCounters'[e] = anCounters[e]
    BY <1>0, EmitsAreOnePlace
  <2>1. CASE e # t
    <3>1. RowsOf(e)' = RowsOf(e)
      BY <1>0, <1>4, <2>1 DEF RowsOf
    <3>2. \A g \in Flushes : Pending(g, e)' = Pending(g, e)
      BY <1>7, <1>9, <2>1
    <3> QED BY <1>0, <2>0, <3>1, <3>2, TypeSame
  <2>2. CASE e = t
    <3>1. RowsOf(e)' = RowsOf(e) \cup {row}
      BY <1>0, <1>4, <2>2 DEF RowsOf
    <3>2. /\ Taken(e)'[f] = {} /\ \A g \in Flushes \ {f} : Taken(e)'[g] = Taken(e)[g]
          /\ row.emits = Taken(e)[f]
      BY <1>4, <1>7, <1>10, <2>2 DEF Taken
    <3>3. OnePlace(anEmitted[e], anCounters[e], Taken(e), RowsOf(e), anDropped[e])
      BY <2>0 DEF Placed
    <3>4. OnePlace(anEmitted[e], anCounters[e], Taken(e)', RowsOf(e) \cup {row}, anDropped[e])
      BY <3>2, <3>3, EmitsStored
    <3> QED BY <1>0, <2>0, <3>1, <3>4 DEF Placed
  <2> QED BY <2>1, <2>2
<1> QED BY <1>5, <1>6, <1>11, EmitsAreOnePlace

(* The answer, or the failure, of a flush's write.                         *)
LEMMA AnWriteEnds ==
  ASSUME AnalyticsInv, NEW f \in Flushes, FlushAnswered(f) \/ FlushFails(f)
  PROVE  AnalyticsInv'
<1> USE DEF AnalyticsInv
<1> DEFINE t == NextType(f)
<1>0. /\ anFlush[f].pc = "called" /\ anFlush' = Remaining(f, t)
      /\ anPool' = IF f \in anPool.used THEN Released(anPool, f) ELSE GivenUp(anPool, f)
      /\ anExecuted' = anExecuted \ {f}
      /\ UNCHANGED <<anNow, anCounters, anStart, anRows, anReader, anCache, anEmitted>>
  <2>1. f \in anExecuted => anFlush[f].pc = "called" /\ f \in anPool.used
    BY WhoCalls
  <2> QED BY <2>1 DEF FlushAnswered, FlushFails
<1>1. /\ anFlush' \in [Flushes -> FlushState] /\ FlushSound'
      /\ anFlush'[f].pc # "called" /\ \A g \in Flushes \ {f} : anFlush'[g] = anFlush[g]
      /\ t \in EventTypes
      /\ \A g \in Flushes, e \in EventTypes : g # f \/ e # t => Pending(g, e)' = Pending(g, e)
      /\ Pending(f, t) = IF f \in anExecuted THEN {} ELSE anFlush[f].emits[t]
      /\ \A e \in EventTypes : e = t => Pending(f, e)' = {}
  BY <1>0, TypeDone
<1>2. t \notin anFlush'[f].left
  BY <1>0 DEF Remaining, AnalyticsType
<1>3. anDropped' = [anDropped EXCEPT ![t] = @ \cup Pending(f, t)]
  <2>1. CASE f \in anExecuted
    <3>1. anDropped' = anDropped
      BY <2>1 DEF FlushAnswered, FlushFails
    <3> QED BY <1>1, <2>1, <3>1 DEF AnalyticsType
  <2>2. CASE f \notin anExecuted
    <3>1. Drop(f, t)
      BY <1>2, <2>2 DEF FlushAnswered, FlushFails
    <3> QED BY <1>1, <2>2, <3>1 DEF Drop
  <2> QED BY <2>1, <2>2
<1> HIDE DEF t
<1>4. InCall' = InCall \ {f} /\ f \in InCall
  <2>1. f \in InCall /\ f \notin StatReaders
    BY <1>0, WhoCalls, AnalyticsAssumption
  <2> QED BY <1>0, <1>1, <2>1 DEF InCall
<1>5. anPool' \in Pool /\ PoolSound'
  BY <1>0, <1>4, CallEnds DEF AnalyticsType
<1>6. Pending(f, t) \subseteq Nat
  BY <1>1 DEF AnalyticsType, FlushState
<1>7. AnalyticsType'
  BY <1>0, <1>1, <1>3, <1>5, <1>6 DEF AnalyticsType
<1>8. EveryEmitOnce'
  BY <1>0, <1>1, <1>3, TypeGivenUp
<1> QED BY <1>1, <1>5, <1>7, <1>8

(* No flush is concerned: a reader's step, and the clock's.                *)
LEMMA NoFlushMoves ==
  ASSUME AnalyticsInv, UNCHANGED <<anCounters, anFlush, anRows, anEmitted, anDropped>>,
         \A f \in Flushes : f \in anExecuted' <=> f \in anExecuted
  PROVE  FlushSound' /\ EveryEmitOnce'
<1>1. \A f \in Flushes, e \in EventTypes : Pending(f, e)' = Pending(f, e)
  BY PendingSame
<1>2. EveryEmitOnce'
  BY <1>1, AnSame DEF AnalyticsInv
<1>3. FlushSound'
  BY DEF AnalyticsInv, FlushSound
<1> QED BY <1>2, <1>3

LEMMA AnReads ==
  ASSUME AnalyticsInv, NEW r \in StatReaders, ReadStats(r)
  PROVE  AnalyticsInv'
<1> USE DEF AnalyticsInv
<1>0. /\ anReader[r].pc = "idle"
      /\ UNCHANGED <<anNow, anCounters, anStart, anFlush, anRows, anExecuted, anCache, anEmitted, anDropped>>
  BY DEF ReadStats
<1>1. FlushSound' /\ EveryEmitOnce'
  BY <1>0, NoFlushMoves
<1>2. r \notin InCall
  BY <1>0, WhoCalls
<1>3. CASE Fresh
  <2> DEFINE c == CHOOSE c \in anCache : TRUE
             rows == c.rows
  <2>1. c \in anCache
    BY <1>3 DEF Fresh
  <2>2. rows \in SUBSET Row
    BY <2>1 DEF AnalyticsType
  <2>3. /\ anReader' = [anReader EXCEPT ![r] = [pc |-> "shown", rows |-> rows]]
        /\ UNCHANGED anPool
    BY <1>3 DEF ReadStats, RowsAnswered
  <2> HIDE DEF c, rows
  <2>4. anReader' \in [StatReaders -> ReaderState]
    BY <2>2, <2>3 DEF AnalyticsType, ReaderState
  <2>5. anReader'[r].pc = "shown" /\ \A q \in StatReaders \ {r} : anReader'[q] = anReader[q]
    BY <2>3 DEF AnalyticsType
  <2>6. InCall' = InCall
    BY <1>0, <2>5 DEF InCall
  <2>7. AnalyticsType' /\ PoolSound'
    BY <1>0, <2>3, <2>4, <2>6 DEF AnalyticsType, PoolSound, CallsOnce, Members, Queued
  <2> QED BY <1>1, <2>7
<1>4. CASE ~Fresh
  <2>1. anReader' = [anReader EXCEPT ![r].pc = "called"] /\ anPool' = Connected(anPool, r)
    BY <1>4 DEF ReadStats
  <2>2. anReader' \in [StatReaders -> ReaderState]
    BY <2>1 DEF AnalyticsType, ReaderState
  <2>3. anReader'[r].pc = "called" /\ \A q \in StatReaders \ {r} : anReader'[q] = anReader[q]
    BY <2>1 DEF AnalyticsType, ReaderState
  <2>4. InCall' = InCall \cup {r}
    BY <1>0, <2>3 DEF InCall
  <2>5. anPool' \in Pool /\ PoolSound'
    BY <1>0, <1>2, <2>1, <2>4, CallBegins DEF AnalyticsType, StatCalls
  <2>6. AnalyticsType'
    BY <1>0, <2>2, <2>5 DEF AnalyticsType
  <2> QED BY <1>1, <2>5, <2>6
<1> QED BY <1>3, <1>4

LEMMA AnSelects ==
  ASSUME AnalyticsInv, NEW r \in StatReaders, DbSelectStats(r)
  PROVE  AnalyticsInv'
<1> USE DEF AnalyticsInv
<1> DEFINE rows == {w \in anRows : w.end + Retention >= anNow}
<1>0. /\ r \in anPool.used /\ anReader' = [anReader EXCEPT ![r].rows = rows]
      /\ anExecuted' = anExecuted \cup {r}
      /\ UNCHANGED <<anNow, anCounters, anStart, anFlush, anRows, anPool, anCache, anEmitted, anDropped>>
  BY DEF DbSelectStats
<1>1. FlushSound' /\ EveryEmitOnce'
  BY <1>0, NoFlushMoves, AnalyticsAssumption
<1>2. rows \in SUBSET Row
  BY DEF AnalyticsType
<1> HIDE DEF rows
<1>3. anReader' \in [StatReaders -> ReaderState]
  BY <1>0, <1>2 DEF AnalyticsType, ReaderState
<1>4. \A q \in StatReaders : anReader'[q].pc = anReader[q].pc
  BY <1>0 DEF AnalyticsType, ReaderState
<1>5. InCall' = InCall
  BY <1>0, <1>4 DEF InCall
<1>6. AnalyticsType' /\ PoolSound'
  BY <1>0, <1>3, <1>5 DEF AnalyticsType, PoolSound, CallsOnce, Members, Queued
<1> QED BY <1>1, <1>6

(* The answer, or the failure, of a reader's query.                        *)
LEMMA AnReadEnds ==
  ASSUME AnalyticsInv, NEW r \in StatReaders, StatsAnswered(r) \/ StatsFail(r)
  PROVE  AnalyticsInv'
<1> USE DEF AnalyticsInv
<1>0. /\ anReader[r].pc = "called"
      /\ anPool' = IF r \in anPool.used THEN Released(anPool, r) ELSE GivenUp(anPool, r)
      /\ anExecuted' = anExecuted \ {r}
      /\ UNCHANGED <<anNow, anCounters, anStart, anFlush, anRows, anEmitted, anDropped>>
  <2>1. r \in anExecuted => anReader[r].pc = "called" /\ r \in anPool.used
    BY WhoCalls
  <2> QED BY <2>1 DEF StatsAnswered, StatsFail
<1>1. FlushSound' /\ EveryEmitOnce'
  BY <1>0, NoFlushMoves, AnalyticsAssumption
<1>2. /\ anReader' \in [StatReaders -> ReaderState] /\ anReader'[r].pc # "called"
      /\ \A q \in StatReaders \ {r} : anReader'[q] = anReader[q]
  <2>1. anReader[r] \in ReaderState
    BY DEF AnalyticsType
  <2>2. CASE StatsAnswered(r)
    <3>1. anReader' = [anReader EXCEPT ![r] = [pc |-> "shown", rows |-> anReader[r].rows]]
      BY <2>2 DEF StatsAnswered, RowsAnswered
    <3> QED BY <2>1, <3>1 DEF AnalyticsType, ReaderState
  <2>3. CASE StatsFail(r)
    <3>1. anReader' = [anReader EXCEPT ![r] = [pc |-> "failed", rows |-> {}]]
      BY <2>3 DEF StatsFail
    <3> QED BY <3>1 DEF AnalyticsType, ReaderState
  <2> QED BY <2>2, <2>3
<1>3. InCall' = InCall \ {r} /\ r \in InCall
  <2>1. r \in InCall /\ r \notin Flushes
    BY <1>0, WhoCalls, AnalyticsAssumption
  <2> QED BY <1>0, <1>2, <2>1 DEF InCall
<1>4. anPool' \in Pool /\ PoolSound'
  BY <1>0, <1>3, CallEnds DEF AnalyticsType
<1>5. anCache' \subseteq [rows : SUBSET Row, at : Nat]
  <2>1. CASE StatsAnswered(r)
    <3>1. anReader[r].rows \in SUBSET Row /\ anNow \in Nat
      BY DEF AnalyticsType, ReaderState
    <3> QED BY <2>1, <3>1 DEF StatsAnswered
  <2>2. CASE StatsFail(r)
    BY <2>2 DEF StatsFail, AnalyticsType
  <2> QED BY <2>1, <2>2
<1>6. AnalyticsType'
  BY <1>0, <1>2, <1>4, <1>5 DEF AnalyticsType
<1> QED BY <1>1, <1>4, <1>6

LEMMA AnCleans ==
  ASSUME AnalyticsInv, CleanupOldAnalytics
  PROVE  AnalyticsInv'
<1> USE DEF AnalyticsInv
<1> DEFINE old == {w \in anRows : w.end + Retention < anNow}
           gone(e) == {w \in old : w.type = e}
<1>0. /\ anRows' = anRows \ old
      /\ anDropped' = [e \in EventTypes |-> anDropped[e] \cup UNION {w.emits : w \in gone(e)}]
      /\ UNCHANGED <<anNow, anCounters, anStart, anFlush, anPool, anExecuted, anReader, anCache, anEmitted>>
  BY DEF CleanupOldAnalytics
<1>1. old \subseteq anRows
  OBVIOUS
<1> HIDE DEF old
<1>2. \A e \in EventTypes : UNION {w.emits : w \in gone(e)} \subseteq Nat
  BY <1>1 DEF AnalyticsType, Row
<1>3. anDropped' \in [EventTypes -> SUBSET Nat]
  <2>1. \A e \in EventTypes : anDropped[e] \cup UNION {w.emits : w \in gone(e)} \in SUBSET Nat
    BY <1>2 DEF AnalyticsType
  <2> HIDE DEF gone
  <2> QED BY <1>0, <2>1
<1>4. AnalyticsType'
  BY <1>0, <1>1, <1>3 DEF AnalyticsType
<1>5. PoolSound' /\ FlushSound'
  BY <1>0 DEF PoolSound, FlushSound, InCall, CallsOnce, Members, Queued
<1>6. ASSUME NEW e \in EventTypes PROVE Placed(e)'
  <2>1. /\ \A f \in Flushes : Pending(f, e)' = Pending(f, e)
        /\ RowsOf(e)' = RowsOf(e) \ gone(e) /\ gone(e) \in SUBSET RowsOf(e)
    <3>1. \A f \in Flushes : Pending(f, e)' = Pending(f, e)
      BY <1>0, PendingSame
    <3>2. RowsOf(e)' = RowsOf(e) \ gone(e) /\ gone(e) \in SUBSET RowsOf(e)
      BY <1>0, <1>1 DEF RowsOf
    <3> QED BY <3>1, <3>2
  <2>2. Taken(e)' = Taken(e)
    BY <2>1 DEF Taken
  <2>3. OnePlace(anEmitted[e], anCounters[e], Taken(e), RowsOf(e), anDropped[e])
    BY EmitsAreOnePlace DEF Placed
  <2>4. anDropped'[e] = anDropped[e] \cup UNION {w.emits : w \in gone(e)}
    BY <1>0
  <2> HIDE DEF gone
  <2>5. OnePlace(anEmitted[e], anCounters[e], Taken(e), RowsOf(e) \ gone(e),
                 anDropped[e] \cup UNION {w.emits : w \in gone(e)})
    BY <2>1, <2>3, RowsExpire
  <2> QED BY <1>0, <2>1, <2>2, <2>4, <2>5 DEF Placed
<1> QED BY <1>4, <1>5, <1>6, EmitsAreOnePlace

LEMMA AnTicks ==
  ASSUME AnalyticsInv, AnTick \/ UNCHANGED anVars
  PROVE  AnalyticsInv'
<1> USE DEF AnalyticsInv
<1>0. /\ anNow' \in Nat
      /\ UNCHANGED <<anCounters, anStart, anFlush, anRows, anPool, anExecuted, anReader, anCache,
                     anEmitted, anDropped>>
  BY DEF AnTick, anVars, AnalyticsType
<1>1. FlushSound' /\ EveryEmitOnce'
  BY <1>0, NoFlushMoves
<1>2. AnalyticsType'
  BY <1>0 DEF AnalyticsType
<1>3. PoolSound'
  BY <1>0 DEF PoolSound, InCall, CallsOnce, Members, Queued
<1> QED BY <1>1, <1>2, <1>3

(* Every emit is in exactly one place, whichever flushes overlap, whatever *)
(* the pool sheds, fails or leaves waiting, and whenever rows expire.  The *)
(* invariant needs the pool: a statement the database has executed has a   *)
(* connection, which only its own answer or failure gives back, so that a  *)
(* row is inserted once for the type its flush is at.                      *)
THEOREM EmitsAlwaysOnce == AnalyticsSpec => []EveryEmitOnce
<1>1. AnalyticsInit => AnalyticsInv
  BY AnStart
<1>2. AnalyticsInv /\ [AnalyticsNext]_anVars => AnalyticsInv'
  <2> SUFFICES ASSUME AnalyticsInv, [AnalyticsNext]_anVars PROVE AnalyticsInv'
    OBVIOUS
  <2>1. CASE AnTick \/ UNCHANGED anVars
    BY <2>1, AnTicks
  <2>2. CASE CleanupOldAnalytics
    BY <2>2, AnCleans
  <2>3. CASE \E e \in EventTypes : RecordEmit(e)
    BY <2>3, AnEmits
  <2>4. CASE \E f \in Flushes : FlushBegins(f) \/ FlushStep(f)
    BY <2>4, AnFlushBegins, AnFlushWrites, AnInserts, AnWriteEnds DEF FlushStep
  <2>5. CASE \E r \in StatReaders : ReadStats(r) \/ StatsStep(r)
    BY <2>5, AnReads, AnSelects, AnReadEnds DEF StatsStep
  <2> QED BY <2>1, <2>2, <2>3, <2>4, <2>5 DEF AnalyticsNext
<1>3. AnalyticsInv => EveryEmitOnce
  BY DEF AnalyticsInv
<1> QED BY <1>1, <1>2, <1>3, PTL DEF AnalyticsSpec
=============================================================================
