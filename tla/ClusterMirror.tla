---------------------------- MODULE ClusterMirror ----------------------------
(***************************************************************************)
(* What the backend may be shown of a cluster: the abstract specification  *)
(* of the agent between the two, its crashes and repeated uploads included. *)
(*                                                                         *)
(* Readings are taken of the cluster, and a reading is shown, perhaps more  *)
(* than once, until it is Patience old.  A reading is a set of items, each  *)
(* an object and whether it is said to be deleted.                         *)
(*   - What it says to be deleted is gone for good.                        *)
(*   - What it has as live the cluster held at most Life ago.              *)
(*   - It has every wanted object that the cluster has held, and was being  *)
(*     watched, since before the last tick: nothing lasting is missing.    *)
(*   - Until some watch has broken, it goes forwards from what was shown:   *)
(*     no object comes back after it was said to be deleted, or goes back   *)
(*     to an earlier version.                                              *)
(***************************************************************************)
EXTENDS Naturals

CONSTANTS
    Object,  \* [uid, ver]: the versions of the objects a cluster may hold
    Wanted,  \* those the backend is to see
    Life,    \* the longest time between an object's end and a reading of it
    Patience \* the longest time a reading is shown

VARIABLES
    held,    \* the objects the cluster holds
    gone,    \* by object, ticks since the cluster held it, up to Life + 1
    watched, \* the cluster is being watched
    settled, \* the objects held and watched since before the last tick
    drafts,  \* the reading to be shown, if there is one
    age,     \* of that reading
    view,    \* the reading that the backend was last shown
    told,    \* the uids it was told to be deleted
    broken   \* some watch has broken

cluster == <<held, gone, watched, settled>>
shown == <<view, told>>

Item == [obj : Wanted, deleted : BOOLEAN]
Deleted(items) == {p.obj.uid : p \in {q \in items : q.deleted}}

\* The uids said to be deleted, to the backend or in the reading to be shown.
Ended == told \cup UNION {Deleted(r) : r \in drafts}

Init ==
    /\ held = {}
    /\ gone = [o \in Object |-> Life + 1]
    /\ watched = FALSE
    /\ settled = {}
    /\ drafts = {}
    /\ age = 0
    /\ view = {}
    /\ told = {}
    /\ broken = FALSE

\* The cluster changes; what is said to be deleted does not return to it.
Change ==
    /\ held' \in SUBSET {o \in Object : o.uid \notin Ended}
    /\ gone' = [o \in Object |-> IF o \in held' THEN 0 ELSE gone[o]]
    /\ settled' = settled \cap held'
    /\ UNCHANGED <<watched, drafts, age, shown, broken>>

Watch ==
    /\ watched' = TRUE
    /\ UNCHANGED <<held, gone, settled, drafts, age, shown, broken>>

EndWatch ==
    /\ watched' = FALSE
    /\ settled' = {}
    /\ UNCHANGED <<held, gone, shown>>

\* The watch breaks, or its agent ends it.
Unwatch ==
    /\ EndWatch
    /\ broken' \in {broken, TRUE}
    /\ UNCHANGED <<drafts, age>>

Elapse ==
    /\ gone' = [o \in Object |->
                  IF o \in held \/ gone[o] > Life THEN gone[o] ELSE gone[o] + 1]
    /\ settled' = IF watched THEN held ELSE {}
    /\ age' = IF drafts = {} THEN 0 ELSE age + 1
    /\ UNCHANGED <<held, watched, drafts, shown, broken>>

-----------------------------------------------------------------------------
True(p) ==
    IF p.deleted THEN \A o \in held : o.uid # p.obj.uid
    ELSE gone[p.obj] <= Life

\* A live item is the only one of its object, not told to be deleted before,
\* and not older than what is in view.
Forward(p, reading) ==
    /\ p.obj.uid \notin told
    /\ \A q \in reading : q.obj.uid = p.obj.uid => q = p
    /\ \A q \in view : q.obj.uid = p.obj.uid => q.obj.ver <= p.obj.ver

Read ==
    /\ \E r \in SUBSET Item :
         /\ drafts' = {r}
         /\ \A p \in r : True(p) /\ (~broken /\ ~p.deleted => Forward(p, r))
         /\ \A o \in settled \cap Wanted : [obj |-> o, deleted |-> FALSE] \in r
    /\ age' = 0
    /\ UNCHANGED <<cluster, shown, broken>>

\* It may have to be shown again.
Show ==
    /\ age <= Patience
    /\ \E r \in drafts : view' = r /\ told' = told \cup Deleted(r)
    /\ \/ UNCHANGED <<drafts, age>>
       \/ drafts' = {} /\ age' = 0
    /\ UNCHANGED <<cluster, broken>>

Drop ==
    /\ drafts' = {} /\ age' = 0
    /\ UNCHANGED <<cluster, shown, broken>>

\* The agent ends, and with it its watch and its reading.
Restart ==
    /\ EndWatch
    /\ drafts' = {} /\ age' = 0
    /\ UNCHANGED broken

Next == Change \/ Watch \/ Unwatch \/ Elapse \/ Read \/ Show \/ Drop \/ Restart

vars == <<held, gone, watched, settled, drafts, age, view, told, broken>>

Spec == Init /\ [][Next]_vars
=============================================================================
