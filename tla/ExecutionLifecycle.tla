-------------------------- MODULE ExecutionLifecycle --------------------------
(***************************************************************************)
(* What the dispatcher promises about one execution, whatever the workers, *)
(* the network and the interleaving do: it is pending until exactly one    *)
(* worker is given it, only that assignment can end it, a lost assignment  *)
(* makes it pending again, and an ended execution stays as it ended.       *)
(***************************************************************************)
CONSTANTS Execs, Workers, NoWorker

VARIABLES status, owner

lifecycleVars == <<status, owner>>

Init ==
  /\ status = [e \in Execs |-> "absent"]
  /\ owner = [e \in Execs |-> NoWorker]

(* A scheduled task falls due, or is run by hand.                          *)
Create(e) ==
  /\ status[e] = "absent"
  /\ status' = [status EXCEPT ![e] = "pending"]
  /\ UNCHANGED owner

(* The execution is handed to one worker.                                  *)
Dispatch(e, w) ==
  /\ status[e] = "pending"
  /\ status' = [status EXCEPT ![e] = "running"]
  /\ owner' = [owner EXCEPT ![e] = w]

(* The result of the current assignment is accepted.                       *)
Complete(e, outcome) ==
  /\ status[e] = "running"
  /\ status' = [status EXCEPT ![e] = outcome]
  /\ UNCHANGED owner

(* A worker is gone: everything it ran is pending again, together.         *)
Requeue(w) ==
  LET lost == {e \in Execs : status[e] = "running" /\ owner[e] = w}
  IN /\ status' = [e \in Execs |-> IF e \in lost THEN "pending" ELSE status[e]]
     /\ owner' = [e \in Execs |-> IF e \in lost THEN NoWorker ELSE owner[e]]

Next ==
  \/ \E e \in Execs :
       \/ Create(e)
       \/ \E w \in Workers : Dispatch(e, w)
       \/ \E outcome \in {"completed", "failed"} : Complete(e, outcome)
  \/ \E w \in Workers : Requeue(w)

Spec == Init /\ [][Next]_lifecycleVars
=============================================================================
