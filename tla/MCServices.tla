------------------------------ MODULE MCServices ------------------------------
(***************************************************************************)
(* Small instances of the services of the server, and of the tab that logs *)
(* in to it, in one run.  They share no state: the initial state chooses   *)
(* the one that moves, the others stay as they are.  A service that may    *)
(* start in several states has only one while another moves.               *)
(***************************************************************************)
EXTENDS CpuPool, Callbacks, TargetsCache, ScopeRules, ModuleConfig, ModuleStorage,
        Analytics, ScopeFeed, ConfigStore, TaskCommands, WebSession

VARIABLE part  \* the service that moves

MCDomains == {<<"com", "x">>, <<"com", "x", "a">>, <<"com", "X">>}
MCPatterns == {Wild(<<"com", "x">>), Wild(<<"com", "x", "a">>), Exact(<<"com", "x", "a">>)}
MCNormal ==
  (<<"com", "x">> :> <<"com", "x">>) @@ (<<"com", "x", "a">> :> <<"com", "x", "a">>) @@
  (<<"com", "x", "a", "b">> :> <<"com", "x", "a", "b">>) @@ (<<"com", "y">> :> <<"com", "y">>) @@
  (<<"com", "x", "A">> :> <<"com", "x", "a">>) @@ (<<"com:443", "x">> :> <<"com", "x">>) @@
  (<<"com", "X">> :> <<"com", "x">>)
MCHosts == DOMAIN MCNormal

MCManifests == {{}, {"n1"}, {"n1", "n2"}}

MCCommands ==
  {<<"{tool}", "nmap", 0>>, <<"{tool}", "other", 0>>, <<"{domain}", "", 0>>, <<"{agent}", "", 0>>,
   <<"{custom}", "k", 0>>, <<"{custom}", "j", 0>>, <<"{custom}", "other", 0>>}
MCRequired == {"nmap"}
MCCustom == [k |-> <<"{agent}", "", 0>>, j |-> <<"{domain}", "", 0>>]
MCToolsOf == [w1 |-> {"nmap"}, w2 |-> {}]

Parts == {"cpu", "callbacks", "targets", "scope", "config", "storage", "analytics",
          "feed", "store", "commands", "session"}

ServicesInit ==
  /\ part \in Parts
  /\ PoolInit /\ CallbackInit /\ TargetsInit /\ ScopeInit /\ ConfigInit /\ StorageInit
  /\ AnalyticsInit /\ ScopeFeedInit /\ ConfigStoreInit /\ TaskCommandsInit /\ WebSessionInit
  /\ part # "config" => cfRow = Empty
  /\ part # "store" => csFile = NoFile
  /\ part # "commands" => tcSettings = [t \in Targets |-> 1]
  /\ part # "session" => wsPassword /\ wsPage = "root"

(* All services but p stay as they are.                                    *)
Only(p) ==
  /\ part = p /\ UNCHANGED part
  /\ p = "cpu"       \/ UNCHANGED cpuVars
  /\ p = "callbacks" \/ UNCHANGED callbackVars
  /\ p = "targets"   \/ UNCHANGED targetsVars
  /\ p = "scope"     \/ UNCHANGED scopeVars
  /\ p = "config"    \/ UNCHANGED configVars
  /\ p = "storage"   \/ UNCHANGED storageVars
  /\ p = "analytics" \/ UNCHANGED anVars
  /\ p = "feed"      \/ UNCHANGED sfVars
  /\ p = "store"     \/ UNCHANGED csVars
  /\ p = "commands"  \/ UNCHANGED commandVars
  /\ p = "session"   \/ UNCHANGED wsVars

ServicesNext ==
  \/ Only("cpu") /\ PoolNext
  \/ Only("callbacks") /\ CallbackNext
  \/ Only("targets") /\ TargetsNext
  \/ Only("scope") /\ ScopeNext
  \/ Only("config") /\ ConfigNext
  \/ Only("storage") /\ StorageNext
  \/ Only("analytics") /\ AnalyticsNext
  \/ Only("feed") /\ ScopeFeedNext
  \/ Only("store") /\ ConfigStoreNext
  \/ Only("commands") /\ TaskCommandsNext
  \/ Only("session") /\ WebSessionNext

servicesVars ==
  <<part, cpuVars, callbackVars, targetsVars, scopeVars, configVars, storageVars, anVars, sfVars,
    csVars, commandVars, wsVars>>

(* The fairness of the CPU pool, while it moves.                           *)
ServicesFairness ==
  \A t \in Threads : WF_cpuVars(part = "cpu" /\ Reply(t)) /\ WF_cpuVars(part = "cpu" /\ MainLoop(t))

ServicesSpec == ServicesInit /\ [][ServicesNext]_servicesVars /\ ServicesFairness
=============================================================================
