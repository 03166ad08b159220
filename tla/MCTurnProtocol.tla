--------------------------- MODULE MCTurnProtocol ---------------------------
(* Instances of TurnProtocol for TLC.                                       *)
EXTENDS TurnProtocol, TLC

\* For safety runs: messages are interchangeable.
MCSymmetry == Permutations(Msgs)
=============================================================================
