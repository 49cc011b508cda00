----------------------------- MODULE ModuleRuntime -----------------------------
(***************************************************************************)
(* The life of the modules around the event bus they share: loading        *)
(* (modules/loader.ts), running, and the graceful shutdown that a signal   *)
(* starts (server.ts).                                                     *)
(*                                                                         *)
(* A module's own code is external: from its constructor to the exit of    *)
(* the process it may subscribe at any time -- a run() that awaits and a   *)
(* timer go on after stop() and cleanup() as well --, and its stop() may   *)
(* reject or hang.  A signal may come at any time, also while modules are  *)
(* still loaded, and a second one while the first shutdown is under way.   *)
(***************************************************************************)
EXTENDS EventBus, SequencesExt

CONSTANTS
  Directories, \* what may be on disk: the modules in the order they are read
  WithoutStop, \* modules with no stop() method
  StuckStops,  \* modules whose stop() never settles
  Signals      \* bound: signals that arrive

ASSUME RuntimeAssumption ==
  /\ Directories \subseteq Seq(Modules) /\ Signals \in Nat
  /\ \A d \in Directories : \A i, j \in DOMAIN d : d[i] = d[j] => i = j
  /\ IsFiniteSet(Handlers)
  /\ WithoutStop \subseteq Modules /\ StuckStops \subseteq Modules

VARIABLES
  toLoad,     \* directories loadModules has not reached
  loader,     \* "reading", "settings" (awaits initSettings) or "started"
  phase,      \* of each module
  buses,      \* keys of moduleEventBuses
  databases,  \* keys of dbConnections
  shutdown,   \* state of the shutdown each signal started
  stops,      \* <<k, m>>: shutdown k awaits the stop() of m
  exited,
  \* For the properties: events emitted when
  cleanedAt,  \* the bus of the module was cleaned up
  backAt      \* the handler was first subscribed again after that

lifeVars == <<toLoad, loader, phase, buses, databases, shutdown, stops, exited,
              cleanedAt, backAt>>
runtimeVars == <<busVars, lifeVars>>

Never == MaxEmits + 1
Registered == {m \in Modules : phase[m] \in {"loaded", "running"}}

RuntimeInit ==
  /\ BusInit
  /\ toLoad \in Directories /\ loader = "reading"
  /\ phase = [m \in Modules |-> "unloaded"]
  /\ buses = {} /\ databases = {}
  /\ shutdown = [k \in 1..Signals |-> "idle"] /\ stops = {}
  /\ exited = FALSE
  /\ cleanedAt = [m \in Modules |-> Never] /\ backAt = [h \in Handlers |-> Never]

-----------------------------------------------------------------------------
(* Loading.                                                                *)

(* No manifest, an invalid one, or one whose settings are now awaited.     *)
ReadDirectory ==
  /\ loader = "reading" /\ toLoad # <<>>
  /\ \/ /\ phase' = [phase EXCEPT ![Head(toLoad)] = "skipped"]
        /\ toLoad' = Tail(toLoad) /\ UNCHANGED loader
     \/ loader' = "settings" /\ UNCHANGED <<phase, toLoad>>
  /\ UNCHANGED <<busVars, buses, databases, shutdown, stops, exited, cleanedAt, backAt>>

HandlersOf(m) == {h \in Handlers : Owner[h] = m}

(* initSettings answered.  The entry may be missing, or the settings, its  *)
(* evaluation or the database may have thrown before the SDK was built.    *)
NotBuilt ==
  /\ loader = "settings"
  /\ phase' = [phase EXCEPT ![Head(toLoad)] = "skipped"]
  /\ toLoad' = Tail(toLoad) /\ loader' = "reading"
  /\ UNCHANGED <<busVars, buses, databases, shutdown, stops, exited, cleanedAt, backAt>>

(* The SDK is built and the constructor runs, which may subscribe; it      *)
(* throws or the instance has no run() ("failed"), or it is registered.    *)
Construct ==
  /\ loader = "settings"
  /\ LET m == Head(toLoad) IN
     /\ \E hs \in SUBSET HandlersOf(m) : listeners' = listeners \o SetToSeq(hs)
     /\ buses' = buses \cup {m} /\ databases' = databases \cup {m}
     /\ \E p \in {"failed", "loaded"} : phase' = [phase EXCEPT ![m] = p]
  /\ toLoad' = Tail(toLoad) /\ loader' = "reading"
  /\ UNCHANGED <<emitted, queue, turns, active, limited, running, given,
                 shutdown, stops, exited, cleanedAt, backAt>>

(* initModules calls run() of every registered module.                     *)
RunModules ==
  /\ loader = "reading" /\ toLoad = <<>>
  /\ loader' = "started"
  /\ phase' = [m \in Modules |-> IF m \in Registered THEN "running" ELSE phase[m]]
  /\ UNCHANGED <<busVars, toLoad, buses, databases, shutdown, stops, exited, cleanedAt, backAt>>

-----------------------------------------------------------------------------
(* Shutdown.                                                               *)

(* Mutant: the list of the subscriptions is emptied before it is walked.   *)
LeftByCleanupOfNothing(ms) == listeners

(* The listeners left by cleanup() of the buses of modules ms.             *)
LeftByCleanup(ms) == Without({h \in Handlers : Owner[h] \in ms})

(* The finally block of shutdownModules for modules ms.                    *)
CleanUp(ms) ==
  /\ listeners' = LeftByCleanup(ms \cap buses)
  /\ buses' = buses \ ms
  /\ cleanedAt' = [m \in Modules |-> IF m \in ms \cap buses THEN emitted ELSE cleanedAt[m]]
  /\ UNCHANGED <<emitted, queue, turns, active, limited, running, given>>

(* The modules whose stop() a shutdown that starts now awaits.             *)
Awaited == Registered \ WithoutStop

(* SIGTERM or SIGINT: shutdownModules calls stop() of every registered     *)
(* module; one that has none is cleaned up at once.                        *)
Signal(k) ==
  /\ shutdown[k] = "idle"
  /\ \A j \in 1..(k - 1) : shutdown[j] # "idle"
  /\ shutdown' = [shutdown EXCEPT ![k] = "stopping"]
  /\ stops' = stops \cup {<<k, m>> : m \in Awaited}
  /\ CleanUp(Registered \cap WithoutStop)
  /\ UNCHANGED <<toLoad, loader, phase, databases, exited, backAt>>

(* The finally runs whether stop() resolved or rejected.                   *)
CleanUpAfter(rejected, m) == CleanUp({m})

StopEnds(k, m) ==
  /\ <<k, m>> \in stops /\ m \notin StuckStops
  /\ stops' = stops \ {<<k, m>>}
  /\ \E rejected \in BOOLEAN : CleanUpAfter(rejected, m)
  /\ UNCHANGED <<toLoad, loader, phase, databases, shutdown, exited, backAt>>

(* Mutant: the shutdown waits until no module has an event bus left.       *)
NoBusLeft(k) == buses = {}

(* Promise.all of shutdown k has resolved.                                 *)
AllStopped(k) == \A m \in Modules : <<k, m>> \notin stops

CloseAllDatabases(k) ==
  /\ shutdown[k] = "stopping" /\ AllStopped(k)
  /\ shutdown' = [shutdown EXCEPT ![k] = "closing"]
  /\ databases' = {}
  /\ UNCHANGED <<busVars, toLoad, loader, phase, buses, stops, exited, cleanedAt, backAt>>

(* shutdownCpuPool settled, the DNS service is stopped and the timer to    *)
(* the exit has fired.                                                     *)
Exit(k) ==
  /\ shutdown[k] = "closing"
  /\ exited' = TRUE
  /\ UNCHANGED <<busVars, toLoad, loader, phase, buses, databases, shutdown, stops,
                 cleanedAt, backAt>>

-----------------------------------------------------------------------------
(* What a module's code may do once its constructor was called.            *)
Awake(h) == phase[Owner[h]] \notin {"unloaded", "skipped"}

(* ModuleEventBus.subscribe; it does not ask whether the bus was cleaned   *)
(* up, and nobody will clean it up again.                                  *)
ModuleSubscribes(h) ==
  /\ Awake(h)
  /\ Subscribe(h)
  /\ backAt' = [backAt EXCEPT ![h] =
                  IF cleanedAt[Owner[h]] # Never /\ @ = Never THEN emitted ELSE @]
  /\ UNCHANGED <<toLoad, loader, phase, buses, databases, shutdown, stops, exited, cleanedAt>>

BusStep ==
  \/ \E h \in Handlers : Awake(h) /\ Unsubscribe(h)
  \/ Emit
  \/ Turn
  \/ \E i \in running : HandlerEnds(i)

ShutdownStep(k) ==
  \/ CloseAllDatabases(k) \/ Exit(k)
  \/ \E m \in Modules : StopEnds(k, m)

LifeStep ==
  \/ ReadDirectory \/ NotBuilt \/ Construct \/ RunModules
  \/ \E k \in 1..Signals :
       Signal(k) \/ ShutdownStep(k)

RuntimeNext ==
  /\ ~exited
  /\ \/ BusStep /\ UNCHANGED lifeVars
     \/ \E h \in Handlers : ModuleSubscribes(h)
     \/ LifeStep

(* The event loop takes its turns; handlers and stop() methods that are    *)
(* not stuck settle; the CPU pool shuts down; timers fire.                 *)
RuntimeFairness ==
  /\ WF_runtimeVars(~exited /\ Turn /\ UNCHANGED lifeVars)
  /\ \A h \in Handlers \ Stuck, e \in Events :
       WF_runtimeVars(~exited /\ <<h, e>> \in running /\ HandlerEnds(<<h, e>>) /\ UNCHANGED lifeVars)
  /\ WF_runtimeVars(~exited /\ \E k \in 1..Signals : ShutdownStep(k))

RuntimeSpec == RuntimeInit /\ [][RuntimeNext]_runtimeVars /\ RuntimeFairness
-----------------------------------------------------------------------------
(* Properties.                                                             *)

(* A module that a shutdown has cleaned up is given no event emitted after *)
(* that, unless its own code subscribes again, and then only what is       *)
(* emitted after that: cleanup() leaves no subscription behind, whatever   *)
(* is queued, runs or is still loaded (moduleEventBus.ts cleanup,          *)
(* eventBus.ts handlerQueue).                                              *)
QuietAfterStop ==
  \A h \in Handlers : \A i \in DOMAIN given[h] :
    given[h][i] <= cleanedAt[Owner[h]] \/ given[h][i] > backAt[h]

(* A signal ends the process, unless a module's stop() hangs.              *)
ExitsAtLast ==
  \A k \in 1..Signals :
    (shutdown[k] # "idle") ~> (exited \/ \E m \in StuckStops : <<k, m>> \in stops)

(* A handler that hangs delays the others only when hanging handlers, and  *)
(* invocations of their modules behind them, hold every place: otherwise   *)
(* each invocation starts, unless its own module's limiter is full of      *)
(* hanging handlers or the process exits.                                  *)
EventuallyCalled ==
  \A i \in Invocations :
    i \in Waiting ~>
      \/ i \notin Waiting \/ exited \/ Exhausted
      \/ Cardinality({j \in RunningOf(Owner[i[1]]) : j[1] \in Stuck}) = Limit
=============================================================================
