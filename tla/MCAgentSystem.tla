---------------------------- MODULE MCAgentSystem ----------------------------
(* Constants for model checking AgentSystem. *)
EXTENDS AgentSystem

CONSTANTS n1, u1, u2, dynamic

\* Two incarnations of one name.
OneName == {n1}
TwoUids == {u1, u2}
OneNameOf == [u \in TwoUids |-> n1]
OneTick == {1}

\* Uids are opaque, and the incarnations interchangeable: u1 is created first.
InOrder == u2 \in born => u1 \in born
=============================================================================
