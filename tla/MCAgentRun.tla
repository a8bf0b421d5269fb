----------------------------- MODULE MCAgentRun ------------------------------
(* Constants for model checking AgentRun. *)
EXTENDS AgentRun

CONSTANTS dynamic, discovery, other

\* A gatherer with an informer, and one that has nothing to run.
TwoGatherers == {dynamic, discovery}
OwnName == [g \in TwoGatherers |-> g]

\* The same resource of two clusters, under one name.
SameKind == {dynamic, other}
OneName == [g \in SameKind |-> "k8s/pods"]

OnlyDynamic == {dynamic}
AllConfigs == [venConn : BOOLEAN, oneShot : BOOLEAN, strict : BOOLEAN, input : BOOLEAN]
Waits == {1, 2}
=============================================================================
