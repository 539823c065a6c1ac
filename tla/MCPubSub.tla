------------------------------ MODULE MCPubSub ------------------------------
(* PubSub for TLC: the names of a small instance and the symmetry of its sets. *)
EXTENDS PubSub, TLC

CONSTANTS th1, th2, t1, t2, s1, s2

MCThread == {th1, th2}
MCTopic == {t1, t2}
MCSocket == {s1, s2}

Symmetry == Permutations(MCThread) \cup Permutations(MCTopic) \cup Permutations(MCSocket)
=============================================================================
