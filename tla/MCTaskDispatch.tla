---------------------------- MODULE MCTaskDispatch ----------------------------
(* Small instances of TaskDispatch.                                        *)
EXTENDS TaskDispatch, TLC

CONSTANTS w1, w2, h1, h2, t1

(* Two connections of two hosts, two connections of one host.              *)
TwoHosts == w1 :> h1 @@ w2 :> h2
OneHost  == w1 :> h1 @@ w2 :> h1
SingleHost == w1 :> h1

(* Every execution needs t1; all but the first; none.                      *)
AllNeedTool  == [e \in Execs |-> {t1}]
LaterNeedTool == [e \in Execs |-> IF e = 1 THEN {} ELSE {t1}]
NoneNeedTool == [e \in Execs |-> {}]
=============================================================================
