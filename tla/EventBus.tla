------------------------------- MODULE EventBus -------------------------------
(***************************************************************************)
(* The event bus shared by the modules (events/eventBus.ts) behind the     *)
(* limiter of each module (events/moduleEventBus.ts, p-limit), for one     *)
(* event name.                                                             *)
(*                                                                         *)
(* One event loop; everything between two awaits is one action.  An        *)
(* invocation <<h, e>> waits in handlerQueue, then for its setImmediate    *)
(* turn, then perhaps in its module's limiter, and then runs.              *)
(***************************************************************************)
EXTENDS Naturals, Sequences, FiniteSets

CONSTANTS
  Modules,
  Handlers,        \* handlers that modules may subscribe
  Owner,           \* the module of each handler
  MaxConcurrency,  \* EVENT_HANDLER_CONCURRENCY
  Limit,           \* concurrency of a ModuleEventBus
  Stuck,           \* handlers that never return
  MaxEmits         \* bound: events emitted

ASSUME BusAssumption ==
  /\ Owner \in [Handlers -> Modules]
  /\ MaxConcurrency \in Nat \ {0} /\ Limit \in Nat \ {0} /\ MaxEmits \in Nat
  /\ Stuck \subseteq Handlers

VARIABLES
  listeners,  \* the Set of the event, in insertion order
  emitted,    \* events emitted so far
  queue,      \* handlerQueue
  turns,      \* invocations scheduled with setImmediate
  active,     \* activeHandlers
  limited,    \* the queue of each module's p-limit
  running,    \* invocations whose handler runs
  given       \* for the properties: the events each handler was called with

busVars == <<listeners, emitted, queue, turns, active, limited, running, given>>

Events == 1..MaxEmits
Invocations == Handlers \X Events
Items(s) == {s[i] : i \in DOMAIN s}

BusInit ==
  /\ listeners = <<>>
  /\ emitted = 0
  /\ queue = <<>> /\ turns = <<>> /\ active = 0
  /\ limited = [m \in Modules |-> <<>>]
  /\ running = {}
  /\ given = [h \in Handlers |-> <<>>]

-----------------------------------------------------------------------------
(* How many more handlers may be started when n are active.                *)
Room(n) == MaxConcurrency - n

(* Mutant: what finds no room is dropped.                                  *)
DrainHandlersDropping(q, n) ==
  LET k == IF Len(q) <= Room(n) THEN Len(q) ELSE Room(n)
  IN /\ queue' = <<>>
     /\ turns' = turns \o SubSeq(q, 1, k)
     /\ active' = n + k

(* drainHandlers with queue q and n active handlers.                       *)
DrainHandlers(q, n) ==
  LET k == IF Len(q) <= Room(n) THEN Len(q) ELSE Room(n)
  IN /\ queue' = SubSeq(q, k + 1, Len(q))
     /\ turns' = turns \o SubSeq(q, 1, k)
     /\ active' = n + k

Subscribe(h) ==
  /\ h \notin Items(listeners)
  /\ listeners' = Append(listeners, h)
  /\ UNCHANGED <<emitted, queue, turns, active, limited, running, given>>

(* The listeners but those of hs, in their order.                          *)
Without(hs) ==
  LET kept == {i \in DOMAIN listeners : listeners[i] \notin hs}
  IN [k \in 1..Cardinality(kept) |->
        listeners[CHOOSE i \in kept : Cardinality({j \in kept : j < i}) = k - 1]]

Unsubscribe(h) ==
  /\ h \in Items(listeners)
  /\ listeners' = Without({h})
  /\ UNCHANGED <<emitted, queue, turns, active, limited, running, given>>

Enqueued(is) == queue \o is

(* emit, emitRaw: dispatch enqueues an invocation for each listener; an    *)
(* event without any is gone at once and not counted here.                 *)
Emit ==
  /\ emitted < MaxEmits /\ listeners # <<>>
  /\ emitted' = emitted + 1
  /\ DrainHandlers(Enqueued([i \in DOMAIN listeners |-> <<listeners[i], emitted + 1>>]), active)
  /\ UNCHANGED <<listeners, limited, running, given>>

(* Module m's handlers that run.                                           *)
RunningOf(m) == {i \in running : Owner[i[1]] = m}

Called(i) == given' = [given EXCEPT ![i[1]] = Append(@, i[2])]

(* The limiter's queue when i has to wait.                                 *)
Held(m, i) == Append(limited[m], i)

(* The setImmediate turn of the next invocation: its handler is called, or *)
(* waits in the module's limiter and keeps its place among the active.     *)
Turn ==
  /\ turns # <<>>
  /\ turns' = Tail(turns)
  /\ LET i == Head(turns)
         m == Owner[i[1]]
     IN IF Cardinality(RunningOf(m)) < Limit
        THEN running' = running \cup {i} /\ Called(i) /\ UNCHANGED limited
        ELSE limited' = [limited EXCEPT ![m] = Held(m, i)] /\ UNCHANGED <<running, given>>
  /\ UNCHANGED <<listeners, emitted, queue, active>>

(* Mutant: an ended handler does not start the next.                       *)
DrainAfterNothing(n) == active' = n /\ UNCHANGED <<queue, turns>>

(* The finally block of the bus.                                           *)
DrainAfter(n) == DrainHandlers(queue, n)

(* A handler returned or threw, its error was logged: the limiter starts   *)
(* the module's next invocation, the bus the next in its queue.            *)
HandlerEnds(i) ==
  LET m == Owner[i[1]] IN
  /\ i \in running /\ i[1] \notin Stuck
  /\ IF limited[m] = <<>>
     THEN running' = running \ {i} /\ UNCHANGED <<limited, given>>
     ELSE /\ running' = (running \ {i}) \cup {Head(limited[m])}
          /\ limited' = [limited EXCEPT ![m] = Tail(@)]
          /\ Called(Head(limited[m]))
  /\ DrainAfter(active - 1)
  /\ UNCHANGED <<listeners, emitted>>

BusNext ==
  \/ \E h \in Handlers : Subscribe(h) \/ Unsubscribe(h)
  \/ Emit
  \/ Turn
  \/ \E i \in running : HandlerEnds(i)

BusSpec == BusInit /\ [][BusNext]_busVars
-----------------------------------------------------------------------------
(* Properties.                                                             *)

Waiting == Items(queue) \cup Items(turns) \cup UNION {Items(limited[m]) : m \in Modules}

Delivery == INSTANCE EventDelivery
  WITH subscribed <- Items(listeners), emitted <- emitted, owed <- Waiting, given <- given

(* "We never drop events" (eventBus.ts:27): through queue, turn and        *)
(* limiter every subscribed handler is given every event once, in order,   *)
(* also one that unsubscribes meanwhile.                                   *)
ImplementsDelivery == Delivery!DeliverySpec

(* Every place is held by a handler that never returns, or by an           *)
(* invocation that waits in a limiter behind such handlers.                *)
Exhausted ==
  /\ active = MaxConcurrency /\ turns = <<>>
  /\ \A i \in running : i[1] \in Stuck
=============================================================================
