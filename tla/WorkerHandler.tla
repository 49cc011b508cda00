---------------------------- MODULE WorkerHandler ----------------------------
(***************************************************************************)
(* The worker side of task execution (src/worker/src): one message handler *)
(* per WebSocket connection, the pull-based flow control it runs, and the  *)
(* two FIFO channels of each connection.                                   *)
(*                                                                         *)
(* A member of Workers is a CONNECTION, i.e. one server-side worker id:    *)
(* the server counts them up and, while it runs, never reuses one.  A      *)
(* member of Hosts is a worker process; after its connection broke it      *)
(* comes back under the next connection, while the commands it was running *)
(* go on.                                                                  *)
(***************************************************************************)
EXTENDS Naturals, Sequences, FiniteSets

CONSTANTS
  MaxExecs,   \* bound: executions 1..MaxExecs are created, in this order
  Workers,    \* connections, i.e. server-side worker ids
  Hosts,      \* worker processes
  Host,       \* Host[w]: the process that opens connection w
  Tools,      \* installable tools (name@version)
  WorkerMax,  \* MAX_CONCURRENCY of the worker process
  Faults      \* which faults the environment may commit

FaultKinds == {"break", "crash", "admin", "delete", "lookup", "fail", "large"}

ASSUME WorkerAssumption ==
  /\ MaxExecs \in Nat
  /\ WorkerMax \in Nat \ {0}
  /\ Host \in [Workers -> Hosts]
  /\ Faults \subseteq FaultKinds

Execs == 1..MaxExecs

(* Messages a worker sends.  "announce" is the first worker:ready of a     *)
(* connection ({count: MAX_CONCURRENCY}); "ready" is every later one       *)
(* ({count: 1}).  The order of task:start messages never matters to the    *)
(* worker, so the other direction is a set.                                *)
AnnounceMsg == [type |-> "announce"]
ReadyMsg    == [type |-> "ready"]
BusyMsg     == [type |-> "busy"]
ToolsMsgs   == [type : {"tools"}, installed : SUBSET Tools]
ResultMsgs  == [type : {"result"}, exec : Execs, ok : BOOLEAN, large : BOOLEAN]
Msgs        == {AnnounceMsg, ReadyMsg, BusyMsg} \cup ToolsMsgs \cup ResultMsgs

VARIABLES
  conn,      \* the worker's end of each connection
  toWorker,  \* task:start messages on the wire
  stopping,  \* a system:shutdown message is on the wire
  toServer,  \* messages on their way to the server, FIFO
  active,    \* executions a connection's handler is running (activeCount)
  backlog,   \* localQueue of a connection's handler
  announced, \* the initial worker:ready has been sent
  install,   \* tools whose install commands an execution's script carries
  installed  \* tools really present in a host's /tools

channelVars == <<conn, toWorker, stopping, toServer>>
handlerVars == <<active, backlog, announced>>
workerVars  == <<channelVars, handlerVars, install, installed>>

WorkerTypeOK ==
  /\ conn \in [Workers -> {"new", "open", "broken", "gone"}]
  /\ toWorker \in [Workers -> SUBSET Execs]
  /\ stopping \in [Workers -> BOOLEAN]
  /\ toServer \in [Workers -> Seq(Msgs)]
  /\ active \in [Workers -> SUBSET Execs]
  /\ backlog \in [Workers -> Seq(Execs)]
  /\ announced \in [Workers -> BOOLEAN]
  /\ install \in [Execs -> SUBSET Tools]
  /\ installed \in [Hosts -> SUBSET Tools]

WorkerInit ==
  /\ conn = [w \in Workers |-> "new"]
  /\ toWorker = [w \in Workers |-> {}]
  /\ stopping = [w \in Workers |-> FALSE]
  /\ toServer = [w \in Workers |-> <<>>]
  /\ active = [w \in Workers |-> {}]
  /\ backlog = [w \in Workers |-> <<>>]
  /\ announced = [w \in Workers |-> FALSE]
  /\ install = [e \in Execs |-> {}]
  /\ installed = [h \in Hosts |-> {}]

-----------------------------------------------------------------------------
(* Sending from connection w: sendMessage drops the message unless the     *)
(* socket is open.                                                         *)
SendMessages(w, msgs) ==
  toServer' = IF conn[w] = "open"
              THEN [toServer EXCEPT ![w] = @ \o msgs]
              ELSE toServer

(* connect() and the "open" handler: a process has one open socket, sends  *)
(* tools:list when it has tools, and gets a message handler of its own.    *)
Connect(w) ==
  /\ conn[w] = "new"
  /\ \A v \in Workers : Host[v] = Host[w] => conn[v] # "open"
  /\ conn' = [conn EXCEPT ![w] = "open"]
  /\ toServer' = [toServer EXCEPT ![w] =
       IF installed[Host[w]] = {} THEN <<>>
       ELSE <<[type |-> "tools", installed |-> installed[Host[w]]]>>]
  /\ UNCHANGED <<toWorker, stopping, handlerVars, install, installed>>

(* The timer armed by "open": announce the initial capacity.               *)
Announce(w) ==
  /\ conn[w] = "open"
  /\ ~announced[w]
  /\ announced' = [announced EXCEPT ![w] = TRUE]
  /\ SendMessages(w, <<AnnounceMsg>>)
  /\ UNCHANGED <<conn, toWorker, stopping, active, backlog, install, installed>>

(* "task:start": run it, or queue it locally and report busy when every    *)
(* slot is taken.                                                          *)
ReceiveStart(w, e) ==
  /\ conn[w] = "open"
  /\ e \in toWorker[w]
  /\ toWorker' = [toWorker EXCEPT ![w] = @ \ {e}]
  /\ IF Cardinality(active[w]) >= WorkerMax
     THEN /\ backlog' = [backlog EXCEPT ![w] = Append(@, e)]
          /\ SendMessages(w, <<BusyMsg>>)
          /\ UNCHANGED active
     ELSE /\ active' = [active EXCEPT ![w] = @ \cup {e}]
          /\ UNCHANGED <<backlog, toServer>>
  /\ UNCHANGED <<conn, stopping, announced, install, installed>>

(* The promise chain of runTask: the result, then the slot is freed, the   *)
(* local backlog drained first, and one ready sent when nothing is left in *)
(* it.  The script has no `set -e`: whether it reports success says        *)
(* nothing about which of its install commands worked.                     *)
Finish(w, e, ok, large, got) ==
  LET drained == IF backlog[w] = <<>> THEN {} ELSE {Head(backlog[w])}
      rest    == IF backlog[w] = <<>> THEN <<>> ELSE Tail(backlog[w])
      running == (active[w] \ {e}) \cup drained
      result  == [type |-> "result", exec |-> e, ok |-> ok, large |-> large]
  IN /\ e \in active[w]
     /\ active' = [active EXCEPT ![w] = running]
     /\ backlog' = [backlog EXCEPT ![w] = rest]
     /\ SendMessages(w, IF rest = <<>> /\ Cardinality(running) < WorkerMax
                        THEN <<result, ReadyMsg>> ELSE <<result>>)
     /\ installed' = [installed EXCEPT ![Host[w]] = @ \cup got]
     /\ UNCHANGED <<conn, toWorker, stopping, announced, install>>

(* The outcomes of a script: with "fail" it may fail and install only a    *)
(* part of what it should, with "large" its result may exceed 256 KiB.     *)
FinishSome(w, e) ==
  \E ok, large \in BOOLEAN : \E got \in SUBSET install[e] :
    /\ ok \/ "fail" \in Faults
    /\ large => "large" \in Faults
    /\ got # install[e] => "fail" \in Faults
    /\ Finish(w, e, ok, large, got)

(* The process dies: every script it runs dies with it, whichever          *)
(* connection it was started for.                                          *)
Exit(w) ==
  /\ conn[w] = "open"
  /\ conn' = [conn EXCEPT ![w] = "broken"]
  /\ active' = [v \in Workers |-> IF Host[v] = Host[w] THEN {} ELSE active[v]]
  /\ backlog' = [v \in Workers |-> IF Host[v] = Host[w] THEN <<>> ELSE backlog[v]]
  /\ toWorker' = [toWorker EXCEPT ![w] = {}]
  /\ stopping' = [stopping EXCEPT ![w] = FALSE]
  /\ UNCHANGED <<toServer, announced, install, installed>>

(* "system:shutdown": process.exit(0).                                     *)
ReceiveShutdown(w) == stopping[w] /\ Exit(w)

Crash(w) == "crash" \in Faults /\ Exit(w)

(* The network drops the connection; the process and its scripts live on.  *)
(* What it sent before may still arrive, until the server sees the close.  *)
Break(w) ==
  /\ "break" \in Faults
  /\ conn[w] = "open"
  /\ conn' = [conn EXCEPT ![w] = "broken"]
  /\ toWorker' = [toWorker EXCEPT ![w] = {}]
  /\ stopping' = [stopping EXCEPT ![w] = FALSE]
  /\ UNCHANGED <<toServer, handlerVars, install, installed>>

WorkerStep(w) ==
  \/ Announce(w)
  \/ \E e \in Execs : ReceiveStart(w, e) \/ FinishSome(w, e)
  \/ ReceiveShutdown(w)
  \/ Crash(w)
  \/ Break(w)
=============================================================================
