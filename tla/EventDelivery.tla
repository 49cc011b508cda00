----------------------------- MODULE EventDelivery -----------------------------
(***************************************************************************)
(* What the event bus promises, whatever its queues and limits: a handler  *)
(* is given every event emitted while it was subscribed, each once, in the *)
(* order in which they were emitted, and nothing else.                     *)
(***************************************************************************)
EXTENDS Naturals, Sequences

CONSTANT Handlers

VARIABLES
  subscribed,  \* handlers that would be given the next event
  emitted,     \* number of events emitted
  owed,        \* <<h, e>>: handler h is still to be given event e
  given        \* the events each handler was given

deliveryVars == <<subscribed, emitted, owed, given>>

DeliveryInit ==
  /\ subscribed = {}
  /\ emitted = 0
  /\ owed = {}
  /\ given = [h \in Handlers |-> <<>>]

Resubscribe ==
  /\ subscribed' \subseteq Handlers
  /\ UNCHANGED <<emitted, owed, given>>

Publish ==
  /\ emitted' = emitted + 1
  /\ owed' = owed \cup {<<h, emitted + 1>> : h \in subscribed}
  /\ UNCHANGED <<subscribed, given>>

Give(h, e) ==
  /\ <<h, e>> \in owed
  /\ \A f \in 1..(e - 1) : <<h, f>> \notin owed
  /\ owed' = owed \ {<<h, e>>}
  /\ given' = [given EXCEPT ![h] = Append(@, e)]
  /\ UNCHANGED <<subscribed, emitted>>

DeliveryNext ==
  \/ Resubscribe
  \/ Publish
  \/ \E h \in Handlers, e \in 1..emitted : Give(h, e)

DeliverySpec == DeliveryInit /\ [][DeliveryNext]_deliveryVars
=============================================================================
