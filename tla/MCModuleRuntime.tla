---------------------------- MODULE MCModuleRuntime ----------------------------
(* The handler h1 of m1 returns; h2 of m2, which has no stop(), hangs.     *)
EXTENDS ModuleRuntime

CONSTANTS m1, m2, h1, h2

MCOwner == [h \in Handlers |-> IF h = h1 THEN m1 ELSE m2]
MCDirectories == {<<m1, m2>>}
=============================================================================
