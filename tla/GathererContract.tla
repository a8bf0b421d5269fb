-------------------------- MODULE GathererContract --------------------------
(***************************************************************************)
(* What a gatherer of Kubernetes resources promises to the backend, by     *)
(* object: it learns of an object, follows its changes forwards, holds its *)
(* deletion until a Fetch has reported it, and never speaks of it again.   *)
(* An object that lives is in every Fetch from the one on that first has    *)
(* it, and none is missing because of another.                             *)
(*                                                                         *)
(* This is the abstract specification that ResourceCache implements while   *)
(* its watch never breaks (dynamic.go: "**all** resources should be        *)
(* uploaded, even short-lived secrets").                                   *)
(***************************************************************************)
EXTENDS Naturals

CONSTANTS
    Uid,     \* the objects to be gathered
    Version, \* of an object
    None     \* an object the gatherer does not hold

VARIABLES
    held,  \* by object, what the next Fetch returns of it: [ver, deleted]
    told   \* <<uid, deleted>> of all that some Fetch has returned

Item == [ver : Version, deleted : BOOLEAN]

Holds(u) == held[u] # None
Live(u) == Holds(u) /\ ~held[u].deleted
ToldDeleted(u) == <<u, TRUE>> \in told

Init ==
    /\ held = [u \in Uid |-> None]
    /\ told = {}

Learn(u) ==
    /\ ~Holds(u)
    /\ ~ToldDeleted(u)
    /\ \E v \in Version : held' = [held EXCEPT ![u] = [ver |-> v, deleted |-> FALSE]]
    /\ UNCHANGED told

Follow(u) ==
    /\ Live(u)
    /\ \E v \in Version :
         /\ v > held[u].ver
         /\ held' = [held EXCEPT ![u] = [ver |-> v, deleted |-> FALSE]]
    /\ UNCHANGED told

Delete(u) ==
    /\ Live(u)
    /\ held' = [held EXCEPT ![u] = [ver |-> held[u].ver, deleted |-> TRUE]]
    /\ UNCHANGED told

Fetch ==
    /\ told' = told \cup {<<u, held[u].deleted>> : u \in {v \in Uid : Holds(v)}}
    /\ UNCHANGED held

\* Objects are forgotten together, but not before each has been told deleted.
Forget ==
    /\ \E S \in SUBSET {u \in Uid : Holds(u) /\ held[u].deleted /\ ToldDeleted(u)} :
         held' = [u \in Uid |-> IF u \in S THEN None ELSE held[u]]
    /\ UNCHANGED told

Next ==
    \/ \E u \in Uid : Learn(u) \/ Follow(u) \/ Delete(u)
    \/ Fetch
    \/ Forget

Spec == Init /\ [][Next]_<<held, told>>
=============================================================================
