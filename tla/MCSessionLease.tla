--------------------------- MODULE MCSessionLease ---------------------------
(* Instances of SessionLease for TLC: the process of every actor, and the   *)
(* tasks, which are interchangeable.                                        *)
EXTENDS SessionLease, TLC

CONSTANTS w1, w2, h1, t1, t2

MCWorkers == {w1, w2}
MCTasks == {t1, t2}
MCPid == (w1 :> w1) @@ (w2 :> w2) @@ (h1 :> w1)
MCSymmetry == Permutations(MCTasks)
=============================================================================
