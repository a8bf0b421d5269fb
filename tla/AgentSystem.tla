----------------------------- MODULE AgentSystem -----------------------------
(***************************************************************************)
(* The agent with one k8s-dynamic gatherer, in its surroundings: the API   *)
(* server whose objects it gathers, the backend it uploads them to, and     *)
(* whatever starts it again when it has ended.  ResourceCache and AgentRun  *)
(* are composed: a gather of the loop is a Fetch from the cache, both count *)
(* the same ticks, and the informer lives in the gatherer's goroutine.     *)
(*                                                                         *)
(* All of the agent's state is in memory: a process that ends, by an error  *)
(* of its own or because it is killed, forgets its caches, the deletions    *)
(* marked in them, and the readings it was about to post.                  *)
(***************************************************************************)
EXTENDS ResourceCache

CONSTANTS
    Dynamic,    \* the gatherer
    Period,     \* --period
    BackoffMax, \* --backoff-max-time
    Backoffs,   \* waits between the attempts of an upload
    MaxFaults   \* bound: broken watches, failures of boot, of goroutines and of
                \* uploads, and kills, together

\* The agent loops until it fails, as its Deployment runs it.
Looping == [venConn |-> FALSE, oneShot |-> FALSE, strict |-> FALSE, input |-> FALSE]

ASSUME FaultAssumption == MaxFaults \in Nat

VARIABLES
    config, main, routine, gatherers, cancelled, groupErr, mainErr, returnErr,
    readings, uploaded, elapsed, posting, wait, \* as in AgentRun
    carried, \* the items in the readings that are being posted
    view,    \* the items of the last upload that reached the backend
    told,    \* history: the uids whose deletion has reached it
    late,    \* history: this process has gathered after more than Expiry
    gone,    \* history: by object, ticks since the server held it, up to Expiry + 1
    settled, \* history: what the server has held, watched, since before the last tick
    faults   \* how many have happened

Run == INSTANCE AgentRun
    WITH Config <- {Looping}, Gatherer <- {Dynamic}, Blocking <- {Dynamic},
         NameOf <- [g \in {Dynamic} |-> g]

ASSUME LoopAssumption == Run!GathererAssumption /\ Run!TimeAssumption

\* The longest time between two gathers (AgentRun!FetchGapBounded) is within
\* ResourceCache's bound: FetchGap does not hold up the clock.
ASSUME GapAssumption == Period + 2 * BackoffMax <= FetchGap

\* sinceFetch, which both modules have, stands in vars.
process == <<config, main, routine, gatherers, cancelled, groupErr, mainErr,
             returnErr, readings, uploaded, elapsed, posting, wait>>
backend == <<view, told>>
history == <<gone, settled>>
sysVars == <<vars, process, carried, backend, late, faults, history>>

OnServer == {server[n] : n \in Name} \ {None}

\* What is uploaded of an item.
Posted == [obj : Object, deleted : BOOLEAN]
Upload(items) == {[obj |-> i.obj, deleted |-> i.deleted] : i \in items}

-----------------------------------------------------------------------------
SysInit ==
    /\ Run!Init
    /\ server = [n \in Name |-> None]
    /\ born = {}
    /\ watching = FALSE
    /\ outages = 0
    /\ store = [n \in Name |-> None]
    /\ pending = [n \in Name |-> << >>]
    /\ cache = [u \in Uid |-> None]
    /\ sinceResync = 0
    /\ deletions = {}
    /\ seen = {}
    /\ reported = {}
    /\ carried = {}
    /\ view = {}
    /\ told = {}
    /\ late = FALSE
    /\ gone = [o \in Object |-> Expiry + 1]
    /\ settled = {}
    /\ faults = 0

Fault ==
    /\ faults < MaxFaults
    /\ faults' = faults + 1

-----------------------------------------------------------------------------
(* The cluster, and the informer in the gatherer's goroutine. *)

ServerStep ==
    /\ \/ \E u \in Uid : Create(u)
       \/ \E n \in Name : Modify(n) \/ Remove(n)
    /\ gone' = [o \in Object |-> IF o \in OnServer' THEN 0 ELSE gone[o]]
    /\ settled' = settled \cap OnServer'
    /\ UNCHANGED <<process, carried, backend, late, faults>>

\* The first list is a relist of an empty store.
List ==
    /\ Run!Running(Dynamic)
    /\ Relist
    /\ UNCHANGED <<process, carried, backend, late, history, faults>>

HandleNote(n) ==
    /\ Run!Running(Dynamic)
    /\ Handle(n)
    /\ UNCHANGED <<process, carried, backend, late, history, faults>>

ResyncStore ==
    /\ Run!Running(Dynamic)
    /\ Resync
    /\ UNCHANGED <<process, carried, backend, late, history, faults>>

BreakWatch ==
    /\ LoseWatch
    /\ Fault
    /\ settled' = {}
    /\ UNCHANGED <<process, carried, backend, late, gone>>

DropExpired ==
    /\ Janitor
    /\ UNCHANGED <<process, carried, backend, late, history, faults>>

-----------------------------------------------------------------------------
(* The agent's process.  An operator whose comment begins with "Faulty" is  *)
(* no part of the specification: it is what the definition after it would   *)
(* be with a plausible bug in the code.                                    *)

\* The steps of Run that neither gather nor post.
Proceed ==
    /\ \/ Run!StartServers \/ Run!StartGatherer(Dynamic) \/ Run!CachesAwaited
       \/ Run!RetryPost \/ Run!RetryCancelled
       \/ Run!SleepOver \/ Run!SleepCancelled
       \/ Run!Exit
    /\ UNCHANGED <<vars, carried, backend, late, history, faults>>

FailToBoot ==
    /\ Run!BootFails
    /\ Fault
    /\ UNCHANGED <<vars, carried, backend, late, history>>

\* The informer ends with its goroutine; what it has not delivered stays so.
EndsRoutine(x) ==
    /\ watching' = (watching /\ x # Dynamic)
    /\ settled' = IF x = Dynamic THEN {} ELSE settled
    /\ UNCHANGED <<server, born, outages, store, pending, cache, sinceResync,
                   sinceFetch, deletions, seen, reported, carried, backend, late, gone>>

RoutineReturns(x) ==
    /\ Run!RoutineReturns(x)
    /\ EndsRoutine(x)
    /\ UNCHANGED faults

RoutineFails(x) ==
    /\ Run!RoutineFails(x)
    /\ EndsRoutine(x)
    /\ Fault

\* The readings hold what Fetch returns at this time, synced caches or not.
Gather ==
    /\ Run!Gather
    /\ readings' = {Dynamic}
    /\ Fetch
    /\ carried' = Upload(Items)
    /\ UNCHANGED <<backend, late, history, faults>>

Deliver ==
    /\ view' = carried
    /\ told' = told \cup {p.obj.uid : p \in {q \in carried : q.deleted}}

PostSucceeds ==
    /\ Run!PostSucceeds
    /\ Deliver
    /\ carried' = {}
    /\ UNCHANGED <<vars, late, history, faults>>

\* The backend may have got an upload that failed for the agent: only the
\* answer was lost, or was too late.  Without gctx it fails anyway.
PostFails ==
    /\ Run!PostFails
    /\ Deliver \/ UNCHANGED backend
    /\ carried' = IF main' = "retry" THEN carried ELSE {}
    /\ IF cancelled THEN UNCHANGED faults ELSE Fault
    /\ UNCHANGED <<vars, late, history>>

\* One clock for the loop and the cache.
Elapse ==
    /\ Run!Tick
    /\ Tick
    /\ late' = (late \/ sinceFetch' > Expiry)
    /\ gone' = [o \in Object |->
                  IF o \in OnServer \/ gone[o] > Expiry THEN gone[o] ELSE gone[o] + 1]
    /\ settled' = IF watching THEN OnServer ELSE {}
    /\ UNCHANGED <<carried, backend, faults>>

-----------------------------------------------------------------------------
(* The end of a process, and the next one. *)

\* A new process: what is left is the cluster and the backend.
Start ==
    /\ main' = "servers"
    /\ routine' = [x \in Run!Routine |-> "none"]
    /\ gatherers' = [g \in Run!Names |-> None]
    /\ cancelled' = FALSE /\ groupErr' = FALSE
    /\ mainErr' = FALSE /\ returnErr' = FALSE
    /\ readings' = {} /\ uploaded' = FALSE
    /\ sinceFetch' = 0 /\ elapsed' = 0 /\ posting' = 0 /\ wait' = 0
    /\ watching' = FALSE
    /\ store' = [n \in Name |-> None]
    /\ pending' = [n \in Name |-> << >>]
    /\ cache' = [u \in Uid |-> None]
    /\ sinceResync' = 0
    /\ deletions' = {} /\ seen' = {} /\ reported' = {}
    /\ carried' = {}
    /\ late' = FALSE
    /\ settled' = {}
    /\ UNCHANGED <<config, server, born, outages, backend, gone>>

Restart ==
    /\ main = "exited"
    /\ Start
    /\ UNCHANGED faults

\* It is killed, at any time.
Crash ==
    /\ main # "exited"
    /\ Fault
    /\ Start

-----------------------------------------------------------------------------
InformerActs == List \/ ResyncStore \/ \E n \in Name : HandleNote(n)

\* What the agent's goroutines, and what starts it again, do of themselves.
AgentActs ==
    \/ Proceed \/ Gather \/ PostSucceeds \/ PostFails
    \/ \E x \in Run!Routine : RoutineReturns(x)
    \/ Restart

SysNext ==
    \/ ServerStep
    \/ InformerActs
    \/ BreakWatch
    \/ DropExpired
    \/ AgentActs
    \/ FailToBoot
    \/ \E x \in Run!Routine : RoutineFails(x)
    \/ Elapse
    \/ Crash

SysSpec == SysInit /\ [][SysNext]_sysVars

\* The informer goes on, the agent goes on, and so does the clock.  Each has but
\* finitely much to do before it has to wait for another.  The faults are
\* finitely many by their bounds, and the server need not change.
SysFairness ==
    /\ WF_sysVars(InformerActs)
    /\ WF_sysVars(AgentActs)
    /\ WF_sysVars(Elapse)

SysFairSpec == SysSpec /\ SysFairness

-----------------------------------------------------------------------------
(* Properties.  LiveObjectsCached and DeletionMarkPermanent of ResourceCache *)
(* are checked of this specification, too.                                 *)

SysTypeOK ==
    /\ TypeOK
    /\ Run!TypeOK
    /\ carried \subseteq Posted
    /\ view \subseteq Posted
    /\ told \subseteq Uid
    /\ late \in BOOLEAN
    /\ gone \in [Object -> 0..(Expiry + 1)]
    /\ settled \subseteq Object
    /\ faults \in 0..MaxFaults

\* The deletions that the process knows of reach the backend: each is marked in
\* the cache, or in the readings that are being posted, or was told.  It may
\* lose them in two ways only, by gathering after more than an item's life
\* (uploads that fail for that long), and by its own end.
DeletionsUploaded ==
    (~late /\ ~(main \in {"stopping", "exited"})) =>
        \A u \in deletions : NameOf[u] \in Included =>
            \/ Visible(u) /\ cache[u].deleted /\ cache[u].obj.uid = u
            \/ \E p \in carried : p.obj.uid = u /\ p.deleted
            \/ u \in told

\* While no watch has broken, the backend is never shown an object as live again
\* after it was told of its deletion, although uploads are repeated and the next
\* process knows nothing of the deletions of the one before it.
NeverShownAgain ==
    outages = 0 =>
        \A p \in view : ~p.deleted => p.obj.uid \notin told

\* The faults and the server's changes being finitely many, the backend's view
\* becomes, and stays, the server's included objects as they are: nothing is
\* lost for good by a crash, an upload without an answer, or an expired entry.
BackendConverges ==
    <>[](view = {[obj |-> server[n], deleted |-> FALSE] :
                    n \in {m \in Included : server[m] # None}})

\* The backend sees the cluster as its mirror, for all the agent's crashes, lost
\* answers and repeated uploads, its missed events and its two incarnations in
\* one item: what it is told of a deletion is final, what it is shown as live was
\* there when the item's life began, and nothing is missing that has been on a
\* watched cluster for a tick; while no watch has broken it does not go back.
Drafts == IF main \in {"post", "retry"} THEN {carried} ELSE {}
DraftAge == IF Drafts = {} THEN 0 ELSE sinceFetch

Mirror == INSTANCE ClusterMirror
    WITH Wanted <- {o \in Object : NameOf[o.uid] \in Included},
         Life <- Expiry, Patience <- 2 * BackoffMax,
         held <- OnServer, watched <- watching, broken <- outages > 0,
         drafts <- Drafts, age <- DraftAge
MirrorsCluster == Mirror!Spec
=============================================================================
