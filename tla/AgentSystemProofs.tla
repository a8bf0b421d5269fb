-------------------------- MODULE AgentSystemProofs --------------------------
(***************************************************************************)
(* Proofs about AgentSystem, for any names, objects, settings and bounds.   *)
(* Every step of the composition is a step of ResourceCache, or leaves it   *)
(* alone, or ends the informer, or begins a new process; and it is a step   *)
(* of AgentRun, or begins a new process.  So the inductive invariants of    *)
(* the two modules hold of the composition, once they are shown to survive  *)
(* the two kinds of step that neither module has.                          *)
(***************************************************************************)
EXTENDS AgentSystem, ResourceCacheProofs

USE NameAssumption, NoneAssumption, TimeAssumption, BoundAssumption

\* What AgentRunProofs proves, of the composition's loop.
RunProofs == INSTANCE AgentRunProofs
    WITH Config <- {Looping}, Gatherer <- {Dynamic}, Blocking <- {Dynamic},
         NameOf <- [g \in {Dynamic} |-> g]

-----------------------------------------------------------------------------
(* The steps, as steps of the two modules. *)

ServerVars == <<server, born, outages, store, pending, cache, sinceResync,
                sinceFetch, deletions, seen, reported>>

\* The informer ends with its goroutine.
InformerEnds ==
    UNCHANGED ServerVars /\ watching' \in BOOLEAN /\ (watching' => watching)

LEMMA CacheStep ==
  ASSUME SysNext
  PROVE  [Next]_vars \/ InformerEnds \/ Start
<1>1. ASSUME NEW x, RoutineReturns(x) \/ RoutineFails(x) PROVE InformerEnds
  BY <1>1 DEF RoutineReturns, RoutineFails, EndsRoutine, InformerEnds, ServerVars
<1>2. CASE ServerStep \/ InformerActs \/ BreakWatch \/ DropExpired \/ Elapse
  BY <1>2 DEF ServerStep, InformerActs, List, ResyncStore, HandleNote, BreakWatch,
              DropExpired, Elapse, Next, SteadyNext
<1>3. CASE Proceed \/ Gather \/ PostSucceeds \/ PostFails \/ FailToBoot
  BY <1>3 DEF Proceed, Gather, PostSucceeds, PostFails, FailToBoot, Next, SteadyNext
<1>4. CASE Restart \/ Crash
  BY <1>4 DEF Restart, Crash
<1>. QED
  BY <1>1, <1>2, <1>3, <1>4 DEF SysNext, AgentActs

\* ResourceCache's types and invariant, what is cached of live objects, and
\* the age of the marks survive both kinds of step.
LEMMA EndsIInv ==
  ASSUME IInv, InformerEnds
  PROVE  IInv'
<1>1. TInv'
  BY DEF IInv, TInv, TypeOK, WatchedStore, ResyncsInTime, InformerEnds, ServerVars
<1>. QED
  BY <1>1, AgeStep DEF InformerEnds, ServerVars, Marked

LEMMA EmptyTypes ==
  /\ [n \in Name |-> None] \in [Name -> ObjectOrNone]
  /\ [n \in Name |-> << >>] \in [Name -> Seq(Note)]
  /\ [u \in Uid |-> None] \in [Uid -> Entry \cup {None}]
  /\ 0 \in 0..(Expiry + 1) /\ 0 \in 0..FetchGap /\ 0 \in 0..MaxOutages
<1>1. << >> \in Seq(Note)
  OBVIOUS
<1>. QED
  BY <1>1 DEF ObjectOrNone

LEMMA StartIInv ==
  ASSUME IInv, Start
  PROVE  IInv'
<1>1. TInv'
  <2>1. /\ server' = server /\ born' = born /\ outages' = outages
        /\ watching' = FALSE
        /\ store' = [n \in Name |-> None]
        /\ pending' = [n \in Name |-> << >>]
        /\ cache' = [u \in Uid |-> None]
        /\ sinceResync' = 0 /\ sinceFetch' = 0
        /\ deletions' = {} /\ seen' = {} /\ reported' = {}
    BY DEF Start
  <2>. QED
    BY <2>1, EmptyTypes DEF IInv, TInv, TypeOK, WatchedStore, ResyncsInTime
<1>2. ASSUME NEW n \in Name PROVE PlacedAt(n)' /\ ChainedAt(n)' /\ GoneAt(n)'
  <2>1. /\ server' = server /\ born' = born
        /\ store'[n] = None /\ pending'[n] = << >>
    BY DEF Start
  <2>. QED
    BY <2>1 DEF IInv, PlacedAt, At, ChainedAt, GoneAt
<1>3. ASSUME NEW u \in Uid PROVE Buried(u)'
  BY DEF Start, Buried, Marked
<1>. QED
  BY <1>1, <1>2, <1>3 DEF IInv

LEMMA SysStepIInv ==
  ASSUME IInv, [SysNext]_sysVars
  PROVE  IInv'
<1>1. CASE SysNext
  BY <1>1, CacheStep, StepIInv, EndsIInv, StartIInv
<1>2. CASE UNCHANGED sysVars
  BY <1>2, StepIInv DEF sysVars
<1>. QED
  BY <1>1, <1>2

LEMMA SysInitIInv == SysInit => IInv
<1> SUFFICES ASSUME SysInit PROVE IInv
  OBVIOUS
<1>1. sinceFetch = 0
  BY DEF SysInit, Run!Init
<1>2. TInv
  <2>1. /\ server = [n \in Name |-> None] /\ born = {} /\ outages = 0
        /\ watching = FALSE
        /\ store = [n \in Name |-> None]
        /\ pending = [n \in Name |-> << >>]
        /\ cache = [u \in Uid |-> None]
        /\ sinceResync = 0
        /\ deletions = {} /\ seen = {} /\ reported = {}
    BY DEF SysInit
  <2>. QED
    BY <1>1, <2>1, EmptyTypes DEF TInv, TypeOK, WatchedStore, ResyncsInTime
<1>. QED
  BY <1>2 DEF SysInit, IInv, PlacedAt, At, ChainedAt, GoneAt, Buried, Marked

LEMMA SysInductive == SysSpec => []IInv
  BY SysInitIInv, SysStepIInv, PTL DEF SysSpec

-----------------------------------------------------------------------------
(* The loop. *)

\* Each action of the instance that the composition is made of is the action of
\* the instance that the lemmas of AgentRunProofs speak of.
LEMMA SameBoot ==
  /\ Run!StartServers => RunProofs!StartServers
  /\ Run!StartGatherer(Dynamic) => RunProofs!StartGatherer(Dynamic)
  /\ Run!CachesAwaited => RunProofs!CachesAwaited
  /\ Run!BootFails => RunProofs!BootFails
  /\ Run!Exit => RunProofs!Exit
<1>1. /\ Run!StartServers => RunProofs!StartServers
      /\ Run!StartGatherer(Dynamic) => RunProofs!StartGatherer(Dynamic)
      /\ Run!CachesAwaited => RunProofs!CachesAwaited
  BY DEF Run!StartServers, RunProofs!StartServers, Run!StartGatherer,
         RunProofs!StartGatherer, Run!CachesAwaited, RunProofs!CachesAwaited,
         Run!group, RunProofs!group, Run!clock, RunProofs!clock
<1>2. Run!BootFails => RunProofs!BootFails
  BY DEF Run!BootFails, RunProofs!BootFails, Run!Return, RunProofs!Return,
         Run!clock, RunProofs!clock
<1>3. Run!Exit => RunProofs!Exit
  BY DEF Run!Exit, RunProofs!Exit, Run!Running, RunProofs!Running, Run!Routine,
         RunProofs!Routine, Run!group, RunProofs!group, Run!clock, RunProofs!clock
<1>. QED
  BY <1>1, <1>2, <1>3

LEMMA SameRoutine ==
  ASSUME NEW x
  PROVE  /\ Run!RoutineReturns(x) => RunProofs!RoutineReturns(x)
         /\ Run!RoutineFails(x) => RunProofs!RoutineFails(x)
  BY DEF Run!ReturnsWhenDone, RunProofs!ReturnsWhenDone, Run!RoutineReturns,
         RunProofs!RoutineReturns, Run!RoutineFails,
         RunProofs!RoutineFails, Run!Running, RunProofs!Running, Run!clock,
         RunProofs!clock

LEMMA SameLoop ==
  /\ Run!Gather => RunProofs!Gather
  /\ Run!PostSucceeds => RunProofs!PostSucceeds
  /\ Run!PostFails => RunProofs!PostFails
  /\ Run!RetryPost => RunProofs!RetryPost
  /\ Run!RetryCancelled => RunProofs!RetryCancelled
  /\ Run!SleepOver => RunProofs!SleepOver
  /\ Run!SleepCancelled => RunProofs!SleepCancelled
  /\ Run!Tick => RunProofs!Tick
<1>1. Run!Gather => RunProofs!Gather
  BY DEF Run!Gather, RunProofs!Gather, Run!Return, RunProofs!Return, Run!BeginRetry,
         RunProofs!BeginRetry, Run!Names, RunProofs!Names
<1>2. Run!PostSucceeds => RunProofs!PostSucceeds
  BY DEF Run!PostSucceeds, RunProofs!PostSucceeds, Run!Return, RunProofs!Return
<1>3. Run!PostFails => RunProofs!PostFails
  BY DEF Run!PostFails, RunProofs!PostFails, Run!GiveUp, RunProofs!GiveUp,
         Run!RetryAfter, RunProofs!RetryAfter, Run!Return, RunProofs!Return
<1>4. /\ Run!RetryPost => RunProofs!RetryPost
      /\ Run!SleepOver => RunProofs!SleepOver
      /\ Run!Tick => RunProofs!Tick
  BY DEF Run!RetryPost, RunProofs!RetryPost, Run!SleepOver, RunProofs!SleepOver,
         Run!Tick, RunProofs!Tick, Run!group, RunProofs!group, Run!clock,
         RunProofs!clock
<1>5. /\ Run!RetryCancelled => RunProofs!RetryCancelled
      /\ Run!SleepCancelled => RunProofs!SleepCancelled
  BY DEF Run!RetryCancelled, RunProofs!RetryCancelled, Run!SleepCancelled,
         RunProofs!SleepCancelled, Run!GiveUp, RunProofs!GiveUp, Run!Return,
         RunProofs!Return, Run!clock, RunProofs!clock
<1>. QED
  BY <1>1, <1>2, <1>3, <1>4, <1>5

LEMMA LoopStep ==
  ASSUME SysNext
  PROVE  [RunProofs!Next]_RunProofs!vars \/ Start
<1> USE DEF RunProofs!Next, RunProofs!Step
<1>1. CASE \/ ServerStep \/ InformerActs \/ BreakWatch \/ DropExpired
  <2>1. UNCHANGED <<process, sinceFetch>>
    <3>2. CASE ServerStep
      BY <3>2 DEF ServerStep, Create, Modify, Remove, Change
    <3>3. CASE InformerActs
      BY <3>3 DEF InformerActs, List, ResyncStore, HandleNote, Relist, Resync, Handle
    <3>4. CASE BreakWatch \/ DropExpired
      BY <3>4 DEF BreakWatch, DropExpired, LoseWatch, Janitor, informerVars
    <3>. QED
      BY <1>1, <3>2, <3>3, <3>4
  <2>. QED
    BY <2>1 DEF process, RunProofs!vars
<1>2. CASE Proceed
  BY <1>2, SameBoot, SameLoop DEF Proceed
<1>3. CASE Gather
  BY <1>3, SameLoop DEF Gather
<1>4. CASE PostSucceeds
  BY <1>4, SameLoop DEF PostSucceeds
<1>5. CASE PostFails
  BY <1>5, SameLoop DEF PostFails
<1>6. CASE FailToBoot
  BY <1>6, SameBoot DEF FailToBoot
<1>7. ASSUME NEW x \in Run!Routine, RoutineReturns(x) \/ RoutineFails(x)
      PROVE  RunProofs!Next
  BY <1>7, SameRoutine DEF RoutineReturns, RoutineFails, Run!Routine,
                           RunProofs!Routine
<1>8. CASE Elapse
  BY <1>8, SameLoop DEF Elapse
<1>9. CASE Restart \/ Crash
  BY <1>9 DEF Restart, Crash
<1>. QED
  BY <1>1, <1>2, <1>3, <1>4, <1>5, <1>6, <1>7, <1>8, <1>9 DEF SysNext, AgentActs

LEMMA LoopAssumptions ==
  /\ RunProofs!ConfigAssumption
  /\ RunProofs!GathererAssumption
  /\ RunProofs!TimeAssumption
<1>1. RunProofs!ConfigAssumption
  BY DEF RunProofs!ConfigAssumption, Looping
<1>2. RunProofs!GathererAssumption /\ RunProofs!TimeAssumption
  BY LoopAssumption DEF Run!GathererAssumption, RunProofs!GathererAssumption,
     Run!TimeAssumption, RunProofs!TimeAssumption
<1>. QED
  BY <1>1, <1>2

LEMMA SysInitLoop == SysInit => RunProofs!IInv
<1>1. Run!Init => RunProofs!Init
  BY DEF Run!Init, RunProofs!Init, Run!Routine, RunProofs!Routine, Run!Names,
         RunProofs!Names
<1>. QED
  BY <1>1, LoopAssumptions, RunProofs!InitInv DEF SysInit

LEMMA StartLoop ==
  ASSUME RunProofs!IInv, Start
  PROVE  RunProofs!IInv'
<1>0. /\ config \in {Looping} /\ config' = config
      /\ main' = "servers"
      /\ routine' = [x \in RunProofs!Routine |-> "none"]
      /\ gatherers' = [g \in RunProofs!Names |-> None]
      /\ cancelled' = FALSE /\ groupErr' = FALSE /\ mainErr' = FALSE
      /\ returnErr' = FALSE /\ readings' = {} /\ uploaded' = FALSE
      /\ sinceFetch' = 0 /\ elapsed' = 0 /\ posting' = 0 /\ wait' = 0
  BY DEF Start, RunProofs!IInv, RunProofs!TypeOK, Run!Routine, RunProofs!Routine,
         Run!Names, RunProofs!Names
<1>1. RunProofs!TypeOK'
  BY <1>0 DEF RunProofs!TypeOK
<1>2. RunProofs!Started'
  BY <1>0 DEF RunProofs!Started, RunProofs!Loop, RunProofs!Routine
<1>3. RunProofs!Cause' /\ RunProofs!Outcome'
  BY <1>0 DEF RunProofs!Cause, RunProofs!Outcome, RunProofs!Ended
<1>4. RunProofs!Elapsed'
  BY <1>0, LoopAssumptions DEF RunProofs!Elapsed, RunProofs!Booting,
                               RunProofs!TimeAssumption
<1>. QED
  BY <1>1, <1>2, <1>3, <1>4 DEF RunProofs!IInv

LEMMA SysStepLoop ==
  ASSUME RunProofs!IInv, [SysNext]_sysVars
  PROVE  RunProofs!IInv'
<1>1. CASE SysNext
  BY <1>1, LoopStep, StartLoop, LoopAssumptions, RunProofs!NextInv
<1>2. CASE UNCHANGED sysVars
  <2>1. UNCHANGED RunProofs!vars
    BY <1>2 DEF sysVars, process, vars, RunProofs!vars
  <2>. QED
    BY <2>1, LoopAssumptions, RunProofs!NextInv
<1>. QED
  BY <1>1, <1>2

-----------------------------------------------------------------------------
(* Type correctness. *)

OwnTypes ==
    /\ carried \subseteq Posted
    /\ view \subseteq Posted
    /\ told \subseteq Uid
    /\ late \in BOOLEAN
    /\ gone \in [Object -> 0..(Expiry + 1)]
    /\ settled \subseteq Object
    /\ faults \in 0..MaxFaults

LEMMA ServerObjects ==
  ASSUME TypeOK
  PROVE  OnServer \subseteq Object
  BY DEF OnServer, TypeOK, ObjectOrNone

LEMMA OwnStep ==
  ASSUME IInv, IInv', OwnTypes, [SysNext]_sysVars
  PROVE  OwnTypes'
<1>0. TypeOK /\ Expiry \in Nat /\ OnServer \subseteq Object
  BY ServerObjects DEF IInv, TInv
<1>1. Upload(Items) \subseteq Posted
  <2>1. ASSUME NEW i \in Items PROVE [obj |-> i.obj, deleted |-> i.deleted] \in Posted
    <3>1. i \in Entry
      BY <1>0 DEF Items, Visible, TypeOK
    <3>. QED
      BY <3>1 DEF Entry, Posted
  <2>. QED
    BY <2>1 DEF Upload
<1>2. ASSUME Deliver PROVE view' \subseteq Posted /\ told' \subseteq Uid
  <2>1. \A p \in carried : p.obj.uid \in Uid
    BY DEF OwnTypes, Posted, Object
  <2>. QED
    BY <1>2, <2>1 DEF Deliver, OwnTypes
<1>3. ASSUME Fault PROVE faults' \in 0..MaxFaults
  BY <1>3, FaultAssumption DEF Fault, OwnTypes
<1>4. CASE Gather
  BY <1>1, <1>4 DEF Gather, OwnTypes, backend, history
<1>5. CASE PostSucceeds
  BY <1>2, <1>5 DEF PostSucceeds, OwnTypes, history
<1>6. CASE PostFails
  BY <1>2, <1>3, <1>6 DEF PostFails, OwnTypes, backend, history
<1>7. CASE Elapse \/ ServerStep
  <2>1. \A o \in Object : gone'[o] \in {0, gone[o], gone[o] + 1} /\ gone'[o] <= Expiry + 1
    BY <1>0, <1>7 DEF Elapse, ServerStep, OwnTypes
  <2>2. gone' \in [Object -> 0..(Expiry + 1)]
    <3>1. \A o \in Object : gone'[o] \in 0..(Expiry + 1)
      BY <1>0, <2>1 DEF OwnTypes
    <3>2. gone' = [o \in Object |-> gone'[o]]
      BY <1>7 DEF Elapse, ServerStep
    <3>. QED
      BY <3>1, <3>2
  <2>3. settled' \subseteq Object
    BY <1>0, <1>7 DEF Elapse, ServerStep, OwnTypes
  <2>. QED
    BY <1>7, <2>2, <2>3 DEF Elapse, ServerStep, OwnTypes, backend, history
<1>8. CASE Restart \/ Crash
  BY <1>3, <1>8 DEF Restart, Crash, Start, OwnTypes, backend, history
<1>9. CASE \/ InformerActs \/ DropExpired \/ Proceed
  BY <1>9 DEF InformerActs, List, ResyncStore, HandleNote, DropExpired,
              Proceed, OwnTypes, backend, history
<1>10. CASE BreakWatch \/ FailToBoot
  BY <1>3, <1>10 DEF BreakWatch, FailToBoot, OwnTypes, backend, history
<1>11. ASSUME NEW x, RoutineReturns(x) \/ RoutineFails(x) PROVE OwnTypes'
  BY <1>3, <1>11 DEF RoutineReturns, RoutineFails, EndsRoutine, OwnTypes, backend, history
<1>12. CASE UNCHANGED sysVars
  BY <1>12 DEF sysVars, OwnTypes, backend, history
<1>. QED
  BY <1>4, <1>5, <1>6, <1>7, <1>8, <1>9, <1>10, <1>11, <1>12 DEF SysNext, AgentActs

\* What the following theorems rest on.
SysIInv == IInv /\ RunProofs!IInv /\ OwnTypes

LEMMA SysInvariance == SysSpec => []SysIInv
<1>1. SysInit => SysIInv
  <2>1. SysInit => OwnTypes
    <3>1. SysInit => /\ carried = {} /\ view = {} /\ told = {}
                     /\ late = FALSE /\ faults = 0
                     /\ gone = [o \in Object |-> Expiry + 1] /\ settled = {}
      BY DEF SysInit
    <3>2. 0 \in 0..MaxFaults /\ Expiry + 1 \in 0..(Expiry + 1)
      BY FaultAssumption
    <3>. QED
      BY <3>1, <3>2 DEF OwnTypes
  <2>. QED
    BY <2>1, SysInitIInv, SysInitLoop DEF SysIInv
<1>2. SysIInv /\ [SysNext]_sysVars => SysIInv'
  BY SysStepIInv, SysStepLoop, OwnStep DEF SysIInv
<1>. QED
  BY <1>1, <1>2, PTL DEF SysSpec

\* The types of both modules' variables, and of the composition's own.
THEOREM SystemTypeCorrect == SysSpec => []SysTypeOK
<1>1. SysIInv => SysTypeOK
  <2>1. RunProofs!TypeOK => Run!TypeOK
    BY DEF Run!TypeOK, RunProofs!TypeOK, Run!Routine, RunProofs!Routine, Run!Names,
           RunProofs!Names
  <2>. QED
    BY <2>1 DEF SysIInv, SysTypeOK, IInv, TInv, RunProofs!IInv, OwnTypes
<1>. QED
  BY <1>1, SysInvariance, PTL

\* The cache's clock is never held up by the bound on the time between two
\* fetches: restarts and all, the loop is never longer without a gather.
LEMMA NeverHeldUp == SysSpec => [](sinceFetch <= Period + 2 * BackoffMax)
<1>1. SysIInv => sinceFetch <= Period + 2 * BackoffMax
  BY DEF SysIInv, RunProofs!IInv, RunProofs!Elapsed
<1>. QED
  BY <1>1, SysInvariance, PTL

-----------------------------------------------------------------------------
(* What ResourceCache keeps, restarts included. *)

\* A deletion mark goes only with its item: the handlers keep it, and a process
\* that ends takes the whole cache with it.
THEOREM SystemKeepsMarks == SysSpec => DeletionMarkPermanent
<1>1. ASSUME IInv, SysNext PROVE DeletionMarkKept
  <2>1. CASE InformerEnds \/ Start
    BY <2>1 DEF InformerEnds, ServerVars, Start, DeletionMarkKept
  <2>. QED
    BY <1>1, <2>1, CacheStep, StepKeepsMark
<1>2. IInv /\ [SysNext]_sysVars => [DeletionMarkKept]_vars
  BY <1>1 DEF sysVars
<1>. QED
  BY <1>2, SysInductive, PTL DEF SysSpec, DeletionMarkPermanent

\* Live objects stay cached, too, whatever uploads and restarts do and however
\* long outages last, but for those that outlast an item: the resync does not wait
\* for the loop.
THEOREM SystemKeepsLive == SysSpec => []LiveObjectsCached
<1> DEFINE AllCached == \A n \in Name : Lapsed(n) \/ CachedAt(n)
<1>1. SysInit => AllCached
  BY DEF SysInit, CachedAt, Handled
<1>2. ASSUME IInv, AllCached, SysNext PROVE AllCached'
  <2>1. CASE [Next]_vars
    BY <1>2, <2>1, StepLapses
  <2>2. CASE InformerEnds
    BY <1>2, <2>2 DEF InformerEnds, ServerVars, CachedAt, Lapsed, LiveAt, Handled
  <2>3. CASE Start
    BY <2>3 DEF Start, CachedAt, Handled
  <2>. QED
    BY <1>2, <2>1, <2>2, <2>3, CacheStep
<1>3. ASSUME UNCHANGED sysVars, AllCached PROVE AllCached'
  BY <1>3 DEF sysVars, vars, CachedAt, Lapsed, LiveAt, Handled
<1>4. IInv /\ AllCached /\ [SysNext]_sysVars => AllCached'
  BY <1>2, <1>3
<1>5. IInv /\ AllCached => LiveObjectsCached
  BY DEF CachedAt, LiveAt, LiveObjectsCached, Visible
<1>. QED
  BY <1>1, <1>4, <1>5, SysInductive, PTL DEF SysSpec

-----------------------------------------------------------------------------
(* Deletions reach the backend. *)

\* While the process has not been late, no Fetch is more than Expiry ago, and
\* the deletions not yet fetched are marked in the cache.
OnTime == ~late => sinceFetch <= Expiry /\ \A u \in Uid : ReportedAt(u)

\* The deletions that were fetched are on their way or have arrived, unless the
\* loop has given up.
Carries(u) == \E p \in carried : p.obj.uid = u /\ p.deleted

Sent ==
    /\ main \notin {"post", "retry", "stopping", "exited"} => carried = {}
    /\ main \notin {"stopping", "exited"} =>
         \A u \in Uid : <<u, TRUE>> \in reported => u \in told \/ Carries(u)

LEMMA OnTimeStep ==
  ASSUME SysIInv, SysIInv', OnTime, [SysNext]_sysVars
  PROVE  OnTime'
<1>0. TypeOK /\ TypeOK' /\ IInv
  BY DEF SysIInv, IInv, TInv
<1>1. CASE Start
  <2>1. sinceFetch' = 0 /\ deletions' = {}
    BY <1>1 DEF Start
  <2>. QED
    BY <2>1 DEF OnTime, ReportedAt
<1>2. ASSUME ~Start, SysNext, ~late' PROVE ~late
  BY <1>2 DEF SysNext, ServerStep, InformerActs, List, ResyncStore, HandleNote,
              BreakWatch, DropExpired, AgentActs, Proceed, Gather, PostSucceeds,
              PostFails, RoutineReturns, RoutineFails, EndsRoutine, Restart, Crash,
              FailToBoot, Elapse
<1>3. ASSUME ~Start, SysNext, ~late' PROVE sinceFetch' <= Expiry
  <2>1. sinceFetch <= Expiry
    BY <1>2, <1>3 DEF OnTime
  <2>2. CASE Elapse
    <3>1. ~(sinceFetch' > Expiry)
      BY <1>3, <2>2 DEF Elapse
    <3>. QED
      BY <1>0, <3>1 DEF TypeOK
  <2>3. CASE Gather
    BY <2>3 DEF Gather, Fetch
  <2>4. CASE ~Elapse /\ ~Gather
    <3>1. sinceFetch' = sinceFetch
      <4>1. CASE ServerStep \/ InformerActs \/ BreakWatch \/ DropExpired
        BY <4>1 DEF ServerStep, Create, Modify, Remove, Change, InformerActs, List,
             ResyncStore, HandleNote, Relist, Resync, Handle, BreakWatch,
             DropExpired, LoseWatch, Janitor
      <4>2. CASE Proceed \/ PostSucceeds \/ PostFails \/ FailToBoot
        BY <4>2 DEF Proceed, PostSucceeds, PostFails, FailToBoot, vars
      <4>3. ASSUME NEW x, RoutineReturns(x) \/ RoutineFails(x)
            PROVE  sinceFetch' = sinceFetch
        BY <4>3 DEF RoutineReturns, RoutineFails, EndsRoutine
      <4>. QED
        BY <1>3, <2>4, <4>1, <4>2, <4>3 DEF SysNext, AgentActs, Restart, Crash
    <3>. QED
      BY <2>1, <3>1
  <2>. QED
    BY <2>2, <2>3, <2>4
<1>4. ASSUME ~Start, SysNext, ~late', NEW u \in Uid PROVE ReportedAt(u)'
  <2>1. sinceFetch <= Expiry /\ ReportedAt(u)
    BY <1>2, <1>4 DEF OnTime
  <2>2. CASE [Next]_vars
    BY <1>0, <2>1, <2>2, StepReported
  <2>3. CASE InformerEnds
    BY <2>1, <2>3 DEF InformerEnds, ServerVars, ReportedAt, Marked
  <2>. QED
    BY <1>4, <2>2, <2>3, CacheStep
<1>5. CASE UNCHANGED sysVars
  BY <1>5 DEF sysVars, vars, OnTime, ReportedAt, Marked
<1>. QED
  BY <1>1, <1>3, <1>4, <1>5 DEF OnTime

LEMMA SentStep ==
  ASSUME SysIInv, Sent, [SysNext]_sysVars
  PROVE  Sent'
<1>0. TypeOK
  BY DEF SysIInv, IInv, TInv
<1>1. CASE Gather
  <2>1. main = "gather"
    BY <1>1 DEF Gather, Run!Gather
  <2>2. main' \in {"post", "stopping"}
    BY <1>1 DEF Gather, Run!Gather, Run!Return, Run!BeginRetry
  <2>3. ASSUME NEW u \in Uid, <<u, TRUE>> \in reported'
        PROVE  u \in told' \/ Carries(u)'
    <3>1. CASE <<u, TRUE>> \in reported
      BY <1>1, <2>1, <3>1 DEF Sent, Carries, Gather, backend
    <3>2. CASE <<u, TRUE>> \notin reported
      <4>1. PICK i \in Items : i.obj.uid = u /\ i.deleted = TRUE
        BY <1>1, <2>3, <3>2 DEF Gather, Fetch
      <4>2. [obj |-> i.obj, deleted |-> i.deleted] \in carried'
        BY <1>1 DEF Gather, Upload
      <4>. QED
        BY <4>1, <4>2 DEF Carries
    <3>. QED
      BY <3>1, <3>2
  <2>. QED
    BY <2>2, <2>3 DEF Sent
<1>2. CASE PostSucceeds
  <2>1. main = "post" /\ reported' = reported /\ carried' = {} /\ Deliver
    BY <1>2 DEF PostSucceeds, Run!PostSucceeds, vars
  <2>2. \A u \in Uid : u \in told \/ Carries(u) => u \in told'
    BY <2>1 DEF Deliver, Carries
  <2>. QED
    BY <2>1, <2>2 DEF Sent
<1>3. CASE PostFails
  <2>1. /\ main = "post" /\ reported' = reported
        /\ main' = "stopping" \/ (main' = "retry" /\ carried' = carried)
        /\ told \subseteq told'
    BY <1>3 DEF PostFails, Run!PostFails, Run!GiveUp, Run!Return, vars, Deliver, backend
  <2>. QED
    BY <2>1 DEF Sent, Carries
<1>4. CASE Start
  BY <1>4 DEF Start, Sent
<1>5. ASSUME UNCHANGED <<carried, told, reported>>,
             \/ main' = main
             \/ main' \in {"stopping", "exited"}
             \/ main' = "post" /\ main \notin {"stopping", "exited"}
             \/ main \in {"servers", "gatherers", "gather", "sleep"}
      PROVE  Sent'
  BY <1>5 DEF Sent, Carries
<1>6. CASE ServerStep \/ InformerActs \/ BreakWatch \/ DropExpired
  <2>1. UNCHANGED <<main, carried, told, reported>>
    BY <1>6 DEF ServerStep, Create, Modify, Remove, Change, InformerActs, List,
         ResyncStore, HandleNote, Relist, Resync, Handle, BreakWatch,
         DropExpired, LoseWatch, Janitor, process, backend
  <2>. QED
    BY <1>5, <2>1
<1>7. CASE Proceed
  <2>1. UNCHANGED <<carried, told, reported>>
    BY <1>7 DEF Proceed, vars, backend
  <2>2. \/ main \in {"servers", "gatherers", "sleep"}
        \/ main = "retry" /\ main' = "post"
        \/ main' \in {"stopping", "exited"}
    BY <1>7 DEF Proceed, Run!StartServers, Run!StartGatherer, Run!CachesAwaited,
         Run!RetryPost, Run!RetryCancelled, Run!GiveUp, Run!Return, Run!SleepOver,
         Run!SleepCancelled, Run!Exit
  <2>. QED
    BY <1>5, <2>1, <2>2
<1>8. CASE FailToBoot
  BY <1>5, <1>8 DEF FailToBoot, Run!BootFails, vars, backend
<1>9. ASSUME NEW x, RoutineReturns(x) \/ RoutineFails(x) PROVE Sent'
  BY <1>5, <1>9 DEF RoutineReturns, RoutineFails, EndsRoutine, Run!RoutineReturns,
                    Run!RoutineFails, backend
<1>10. CASE Elapse
  BY <1>5, <1>10 DEF Elapse, Run!Tick, Tick, backend
<1>11. CASE UNCHANGED sysVars
  BY <1>5, <1>11 DEF sysVars, vars, process, backend
<1>. QED
  BY <1>1, <1>2, <1>3, <1>4, <1>6, <1>7, <1>8, <1>9, <1>10, <1>11
     DEF SysNext, AgentActs, Restart, Crash

\* For any settings and any faults: what the process knows to be deleted is
\* marked, on its way, or told, unless it has been without a gather for longer
\* than an item's life, or has come to its end.
THEOREM DeletionsAreUploaded == SysSpec => []DeletionsUploaded
<1>1. SysInit => OnTime /\ Sent
  <2> SUFFICES ASSUME SysInit PROVE OnTime /\ Sent
    OBVIOUS
  <2>1. sinceFetch = 0 /\ deletions = {} /\ reported = {} /\ carried = {}
    BY DEF SysInit, Run!Init
  <2>2. OnTime
    BY <2>1 DEF OnTime, ReportedAt
  <2>3. Sent
    BY <2>1 DEF Sent
  <2>. QED
    BY <2>2, <2>3
<1>2. SysIInv /\ SysIInv' /\ OnTime /\ Sent /\ [SysNext]_sysVars => OnTime' /\ Sent'
  BY OnTimeStep, SentStep
<1>3. SysIInv /\ OnTime /\ Sent => DeletionsUploaded
  <2> SUFFICES ASSUME SysIInv, OnTime, Sent, ~late, main \notin {"stopping", "exited"},
                      NEW u \in deletions, NameOf[u] \in Included,
                      u \notin told, ~Carries(u)
               PROVE  Visible(u) /\ cache[u].deleted /\ cache[u].obj.uid = u
    BY DEF DeletionsUploaded, Carries
  <2>1. TypeOK /\ u \in Uid
    BY DEF SysIInv, IInv, TInv, TypeOK
  <2>2. /\ Marked(u) /\ cache[u].obj.uid = u
        /\ cache[u].age <= sinceFetch /\ sinceFetch <= Expiry
    BY <2>1 DEF OnTime, ReportedAt, Sent
  <2>. QED
    BY <2>1, <2>2 DEF TypeOK, Marked, Visible, Entry
<1>. QED
  BY <1>1, <1>2, <1>3, SysInvariance, PTL DEF SysSpec

-----------------------------------------------------------------------------
(* Nothing deleted is shown again. *)

\* Without an outage the informer begins with an empty store and never joins two
\* incarnations of a name in one notification, so that an item lies under the
\* uid of its own object.
OfOneObject(m) == (m.old # None /\ m.new # None) => m.old.uid = m.new.uid
OneObjectAt(n) == \A i \in 1..Len(pending[n]) : OfOneObject(pending[n][i])
OwnKeyAt(u) == cache[u] # None => cache[u].obj.uid = u

Unbroken ==
    /\ \A n \in Name : OneObjectAt(n)
    /\ \A u \in Uid : OwnKeyAt(u)
    /\ (~watching /\ routine[Dynamic] # "done") => \A n \in Name : store[n] = None

\* An informer that has ended does not begin again in its process.
LEMMA DoneStays ==
  ASSUME SysNext, ~Start, routine \in [Run!Routine -> {"none", "running", "done"}],
         routine[Dynamic] = "done"
  PROVE  routine'[Dynamic] = "done"
<1>0. Dynamic \in Run!Routine /\ Dynamic # "api" /\ Dynamic # "venconn"
  BY LoopAssumption DEF Run!GathererAssumption, Run!Routine
<1>1. CASE ServerStep \/ InformerActs \/ BreakWatch \/ DropExpired
  BY <1>1 DEF ServerStep, InformerActs, List, ResyncStore, HandleNote, BreakWatch,
              DropExpired, process
<1>2. CASE Elapse
  BY <1>2 DEF Elapse, Run!Tick, Run!group
<1>3. CASE Gather
  BY <1>3 DEF Gather, Run!Gather
<1>4. CASE PostSucceeds \/ PostFails \/ FailToBoot
  BY <1>4 DEF PostSucceeds, PostFails, FailToBoot, Run!PostSucceeds, Run!PostFails,
              Run!BootFails
<1>5. CASE Proceed
  <2>2. CASE Run!StartServers
    <3>1. routine' = [routine EXCEPT !["api"] = "running",
            !["venconn"] = IF config.venConn THEN "running" ELSE @]
      BY <2>2 DEF Run!StartServers
    <3>. QED
      BY <1>0, <3>1
  <2>3. CASE Run!StartGatherer(Dynamic)
    BY <2>3 DEF Run!StartGatherer
  <2>4. CASE \/ Run!CachesAwaited \/ Run!RetryPost \/ Run!RetryCancelled
             \/ Run!SleepOver \/ Run!SleepCancelled \/ Run!Exit
    BY <2>4 DEF Run!CachesAwaited, Run!RetryPost, Run!RetryCancelled, Run!SleepOver,
                Run!SleepCancelled, Run!Exit, Run!group
  <2>. QED
    BY <1>5, <2>2, <2>3, <2>4 DEF Proceed
<1>6. ASSUME NEW x \in Run!Routine, RoutineReturns(x) \/ RoutineFails(x)
      PROVE  routine'[Dynamic] = "done"
  BY <1>0, <1>6 DEF RoutineReturns, RoutineFails, Run!RoutineReturns, Run!RoutineFails
<1>. QED
  BY <1>1, <1>2, <1>3, <1>4, <1>5, <1>6 DEF SysNext, AgentActs, Restart, Crash

\* What the server and the informer add speaks of one object.
LEMMA InformerOneObject ==
  ASSUME IInv, Unbroken, ServerStep \/ List \/ ResyncStore, NEW n \in Name
  PROVE  OneObjectAt(n)'
<1> DEFINE Added == \/ pending'[n] = pending[n]
                    \/ \E m \in Note : /\ pending'[n] = Append(pending[n], m)
                                       /\ OfOneObject(m)
<1>0. TypeOK /\ WatchedStore
  BY DEF IInv, TInv
<1>1. ASSUME Added PROVE OneObjectAt(n)'
  <2>1. pending[n] \in Seq(Note) /\ OneObjectAt(n)
    BY <1>0 DEF TypeOK, Unbroken
  <2>2. ASSUME NEW m \in Note, pending'[n] = Append(pending[n], m), OfOneObject(m)
        PROVE  OneObjectAt(n)'
    <3>1. /\ Len(pending'[n]) = Len(pending[n]) + 1
          /\ pending'[n][Len(pending[n]) + 1] = m
          /\ \A i \in 1..Len(pending[n]) : pending'[n][i] = pending[n][i]
      BY <2>1, <2>2
    <3>2. \A i \in 1..Len(pending'[n]) : OfOneObject(pending'[n][i])
      BY <2>1, <2>2, <3>1 DEF OneObjectAt
    <3>. QED
      BY <3>2 DEF OneObjectAt, OfOneObject
  <2>. QED
    BY <1>1, <2>1, <2>2 DEF OneObjectAt, OfOneObject
<1>2. ASSUME NEW k \in Name, NEW o \in ObjectOrNone, Change(k, o),
             server[k] # None \/ o # None,
             (server[k] # None /\ o # None) => server[k].uid = o.uid
      PROVE  Added
  <2>1. CASE ~watching \/ k # n
    BY <1>0, <1>2, <2>1 DEF Change, TypeOK
  <2>2. CASE watching /\ k = n
    <3> DEFINE m == [old |-> store[n], new |-> o, relisted |-> FALSE]
    <3>1. store[n] = server[n] /\ store[n] \in ObjectOrNone
      BY <1>0, <2>2 DEF WatchedStore, TypeOK
    <3>2. m \in Note /\ OfOneObject(m)
      BY <1>2, <2>2, <3>1 DEF Note, OfOneObject
    <3>3. pending'[n] = Append(pending[n], m)
      BY <1>0, <1>2, <2>2 DEF Change, TypeOK
    <3>. QED
      BY <3>2, <3>3
  <2>. QED
    BY <2>1, <2>2
<1>3. ASSUME NEW list \in [Name -> ObjectOrNone], NEW r \in BOOLEAN,
             NotifyAll(list, r), store[n] = None \/ list = store
      PROVE  Added
  <2>1. CASE store[n] = None /\ list[n] = None
    BY <1>3, <2>1 DEF NotifyAll
  <2>2. CASE ~(store[n] = None /\ list[n] = None)
    <3> DEFINE m == [old |-> store[n], new |-> list[n], relisted |-> r]
    <3>1. m \in Note /\ OfOneObject(m)
      BY <1>0, <1>3, <2>2 DEF Note, OfOneObject, TypeOK
    <3>2. pending'[n] = Append(pending[n], m)
      BY <1>3, <2>2 DEF NotifyAll
    <3>. QED
      BY <3>1, <3>2
  <2>. QED
    BY <2>1, <2>2
<1>4. ASSUME NEW u \in Uid, Create(u) PROVE Added
  <2>1. /\ NameOf[u] \in Name /\ [uid |-> u, ver |-> 0] \in Object
        /\ Change(NameOf[u], [uid |-> u, ver |-> 0]) /\ server[NameOf[u]] = None
    BY <1>4 DEF Create, Object
  <2>. QED
    BY <1>2, <2>1 DEF ObjectOrNone
<1>5. ASSUME NEW k \in Name, Modify(k) PROVE Added
  <2>1. server[k] \in Object /\ server[k].ver < MaxVersion /\ server[k] # None
    BY <1>0, <1>5 DEF Modify, TypeOK, ObjectOrNone
  <2>2. [uid |-> server[k].uid, ver |-> server[k].ver + 1] \in Object
    BY <2>1 DEF Object
  <2>. QED
    BY <1>2, <1>5, <2>1, <2>2 DEF Modify, ObjectOrNone
<1>6. ASSUME NEW k \in Name, Remove(k) PROVE Added
  BY <1>2, <1>6 DEF Remove, ObjectOrNone
<1>7. CASE List
  <2>1. ~watching /\ NotifyAll(server, TRUE) /\ routine[Dynamic] # "done"
    BY <1>7 DEF List, Relist, Run!Running
  <2>. QED
    BY <1>0, <1>1, <1>3, <2>1 DEF Unbroken, TypeOK
<1>8. CASE ResyncStore
  BY <1>0, <1>1, <1>3, <1>8 DEF ResyncStore, Resync, TypeOK
<1>. QED
  BY <1>1, <1>4, <1>5, <1>6, <1>7, <1>8 DEF ServerStep

\* What handling a notification of one object leaves: the others, and an item
\* under the uid of that object.
LEMMA HandleOneObject ==
  ASSUME IInv, Unbroken, NEW n \in Name, Handle(n)
  PROVE  /\ \A k \in Name : OneObjectAt(k)'
         /\ \A u \in Uid : OwnKeyAt(u)'
<1> DEFINE note == pending[n][1]
<1>0. TypeOK /\ cache \in [Uid -> Entry \cup {None}]
  BY DEF IInv, TInv, TypeOK
<1>1. /\ note \in Note /\ pending[n] # << >> /\ Dispatch(note)
      /\ pending'[n] = Tail(pending[n])
      /\ \A k \in Name \ {n} : pending'[k] = pending[k]
  BY HandleParts
<1>2. ASSUME NEW k \in Name PROVE OneObjectAt(k)'
  <2>1. CASE k = n
    <3>1. pending[n] \in Seq(Note)
      BY <1>0 DEF TypeOK
    <3>2. \A i \in 1..Len(pending'[n]) : /\ i + 1 \in 1..Len(pending[n])
                                        /\ pending'[n][i] = pending[n][i + 1]
      BY <1>1, <3>1
    <3>3. \A i \in 1..Len(pending'[n]) : OfOneObject(pending'[n][i])
      BY <3>2 DEF Unbroken, OneObjectAt
    <3>. QED
      BY <2>1, <3>3 DEF OneObjectAt, OfOneObject
  <2>2. CASE k # n
    BY <1>1, <2>2 DEF Unbroken, OneObjectAt, OfOneObject
  <2>. QED
    BY <2>1, <2>2
<1>3. OfOneObject(note)
  <2>1. 1 \in 1..Len(pending[n])
    BY <1>0, <1>1 DEF TypeOK
  <2>. QED
    BY <2>1 DEF Unbroken, OneObjectAt
<1>4. ASSUME NEW u \in Uid PROVE OwnKeyAt(u)'
  <2>1. ASSUME note.new \in Object, NEW key \in Uid,
               Has(note.old, key) \/ Has(note.new, key),
               cache' = [cache EXCEPT ![key] = NewEntry(note.new, FALSE)]
        PROVE  OwnKeyAt(u)'
    <3>1. note.new.uid = key
      BY <1>3, <2>1 DEF OfOneObject, Has
    <3>2. CASE u = key
      <4>1. cache'[u] = NewEntry(note.new, FALSE)
        BY <1>0, <2>1, <3>2
      <4>. QED
        BY <3>1, <3>2, <4>1 DEF OwnKeyAt, NewEntry
    <3>3. CASE u # key
      BY <1>0, <2>1, <3>3 DEF Unbroken, OwnKeyAt
    <3>. QED
      BY <3>2, <3>3
  <2>2. ASSUME note.old \in Object,
               cache' = [cache EXCEPT ![note.old.uid] = NewEntry(note.old, TRUE)]
        PROVE  OwnKeyAt(u)'
    <3>1. CASE u = note.old.uid
      <4>1. cache'[u] = NewEntry(note.old, TRUE)
        BY <1>0, <2>2, <3>1
      <4>. QED
        BY <3>1, <4>1 DEF OwnKeyAt, NewEntry
    <3>2. CASE u # note.old.uid
      BY <1>0, <2>2, <3>2 DEF Unbroken, OwnKeyAt
    <3>. QED
      BY <3>1, <3>2
  <2>3. CASE UNCHANGED cache
    BY <2>3 DEF Unbroken, OwnKeyAt
  <2>. QED
    BY <1>0, <1>1, <2>1, <2>2, <2>3, DispatchEffect
<1>. QED
  BY <1>2, <1>4

\* The steps that leave an item its object, if they do not drop it.
KeepItems ==
    \A u \in Uid : cache'[u] # None =>
        /\ cache[u] # None /\ cache'[u].obj = cache[u].obj
        /\ cache'[u].deleted = cache[u].deleted

LEMMA AgeKeepsItems ==
  ASSUME TypeOK, Fetch \/ Janitor \/ Tick
  PROVE  KeepItems /\ UNCHANGED <<server, born, watching, outages, store, pending>>
<1>1. CASE Fetch \/ Janitor
  BY <1>1 DEF Fetch, Janitor, informerVars, WithoutExpired, KeepItems
<1>2. CASE Tick
  BY <1>2 DEF Tick, Older, TypeOK, Entry, KeepItems
<1>. QED
  BY <1>1, <1>2

LEMMA UnbrokenStep ==
  ASSUME SysIInv, Unbroken, SysNext, outages' = 0
  PROVE  Unbroken'
<1>0. /\ TypeOK /\ IInv
      /\ routine \in [Run!Routine -> {"none", "running", "done"}]
  BY DEF SysIInv, IInv, TInv, RunProofs!IInv, RunProofs!TypeOK, Run!Routine,
         RunProofs!Routine
<1>1. ASSUME UNCHANGED <<pending, store>>, KeepItems,
             (~watching' /\ routine'[Dynamic] # "done") =>
                 (~watching /\ routine[Dynamic] # "done")
      PROVE  Unbroken'
  BY <1>1 DEF Unbroken, OneObjectAt, OfOneObject, OwnKeyAt, KeepItems
<1>2. ASSUME ~Start, routine'[Dynamic] # "done" PROVE routine[Dynamic] # "done"
  BY <1>0, <1>2, DoneStays
<1>3. CASE Start
  BY <1>3 DEF Start, Unbroken, OneObjectAt, OwnKeyAt
<1>4. CASE ServerStep \/ List \/ ResyncStore
  <2>1. UNCHANGED <<cache, routine>>
    BY <1>4 DEF ServerStep, Create, Modify, Remove, Change, List, ResyncStore,
                Relist, Resync, process
  <2>2. ~watching' => ~watching /\ store' = store
    <3>1. CASE ServerStep
      <4>1. PICK n, o : Change(n, o)
        BY <3>1 DEF ServerStep, Create, Modify, Remove
      <4>. QED
        BY <4>1 DEF Change
    <3>2. CASE List
      BY <3>2 DEF List, Relist
    <3>3. CASE ResyncStore
      <4>1. watching /\ watching' = watching
        BY <3>3 DEF ResyncStore, Resync
      <4>. QED
        BY <4>1
    <3>. QED
      BY <1>4, <3>1, <3>2, <3>3
  <2>3. \A n \in Name : OneObjectAt(n)'
    BY <1>0, <1>4, InformerOneObject
  <2>. QED
    BY <2>1, <2>2, <2>3 DEF Unbroken, OwnKeyAt
<1>5. ASSUME NEW n \in Name, HandleNote(n) PROVE Unbroken'
  <2>1. Handle(n) /\ UNCHANGED <<watching, store, routine>>
    BY <1>5 DEF HandleNote, Handle, process
  <2>2. /\ \A k \in Name : OneObjectAt(k)'
        /\ \A u \in Uid : OwnKeyAt(u)'
    BY <1>0, <2>1, HandleOneObject
  <2>. QED
    BY <2>1, <2>2 DEF Unbroken
<1>6. CASE DropExpired \/ Gather \/ Elapse
  <2>1. ~Start => Unbroken'
    <3>1. Fetch \/ Janitor \/ Tick
      BY <1>6 DEF DropExpired, Gather, Elapse
    <3>. QED
      BY <1>0, <1>1, <1>2, <3>1, AgeKeepsItems
  <2>. QED
    BY <1>3, <2>1
<1>7. CASE Proceed \/ PostSucceeds \/ PostFails \/ FailToBoot
  <2>1. UNCHANGED <<pending, store, watching, cache>>
    BY <1>7 DEF Proceed, PostSucceeds, PostFails, FailToBoot, vars
  <2>. QED
    BY <1>1, <1>2, <1>3, <2>1 DEF KeepItems
<1>8. ASSUME NEW x \in Run!Routine, RoutineReturns(x) \/ RoutineFails(x)
      PROVE  Unbroken'
  <2>1. UNCHANGED <<pending, store, cache>> /\ watching' = (watching /\ x # Dynamic)
    BY <1>8 DEF RoutineReturns, RoutineFails, EndsRoutine
  <2>2. routine' = [routine EXCEPT ![x] = "done"]
    BY <1>8 DEF RoutineReturns, RoutineFails, Run!RoutineReturns, Run!RoutineFails
  <2>3. CASE x = Dynamic
    BY <1>0, <1>1, <1>8, <2>1, <2>2, <2>3 DEF KeepItems
  <2>4. CASE x # Dynamic
    <3>1. watching' = watching
      BY <1>0, <2>1, <2>4 DEF TypeOK
    <3>. QED
      BY <1>1, <1>2, <1>3, <2>1, <3>1 DEF KeepItems
  <2>. QED
    BY <2>3, <2>4
<1>9. ~BreakWatch
  BY <1>0 DEF BreakWatch, LoseWatch, TypeOK
<1>. QED
  BY <1>3, <1>4, <1>5, <1>6, <1>7, <1>8, <1>9
     DEF SysNext, InformerActs, AgentActs, Restart, Crash

\* An object that is gone for good.
Departed(u) == u \in born /\ NowhereAt(NameOf[u], u)

LEMMA DepartedStep ==
  ASSUME SysIInv, SysNext, NEW u \in Uid, Departed(u)
  PROVE  Departed(u)'
<1>0. TypeOK /\ IInv /\ NameOf[u] \in Name
  BY DEF SysIInv, IInv, TInv
<1>1. CASE InformerNext
  <2>1. \A n \in Name : Enqueues(n)
    BY <1>0, <1>1, InformerEnqueues
  <2>. QED
    BY <1>0, <2>1, EnqueueStep DEF IInv, Departed, Enqueues
<1>2. ASSUME NEW n \in Name, Handle(n) PROVE Departed(u)'
  <2>1. UNCHANGED born
    BY <1>0, <1>2, HandleParts
  <2>. QED
    BY <1>0, <1>2, <2>1, HandleLeaves DEF Departed
<1>3. CASE UNCHANGED <<server, born, store, pending>>
  BY <1>3 DEF Departed, NowhereAt
<1>4. CASE Fetch \/ Janitor \/ Tick
  BY <1>0, <1>3, <1>4, AgeKeepsItems
<1>5. CASE LoseWatch \/ UNCHANGED vars \/ InformerEnds
  BY <1>3, <1>5 DEF LoseWatch, vars, InformerEnds, ServerVars
<1>6. CASE Start
  <2>1. /\ UNCHANGED <<server, born>>
        /\ store' = [n \in Name |-> None] /\ pending' = [n \in Name |-> << >>]
    BY <1>6 DEF Start
  <2>2. ~Has(None, u)
    BY DEF Has
  <2>. QED
    BY <1>0, <2>1, <2>2 DEF Departed, NowhereAt
<1>. QED
  BY <1>1, <1>2, <1>4, <1>5, <1>6, CacheStep DEF Next, SteadyNext, InformerNext

\* The first notification of a name is of no object that is gone.
LEMMA HeadNotDeparted ==
  ASSUME IInv, NEW n \in Name, pending[n] # << >>, NEW u \in Uid, Departed(u)
  PROVE  ~Has(pending[n][1].old, u) /\ ~Has(pending[n][1].new, u)
<1> SUFFICES ASSUME Has(pending[n][1].old, u) \/ Has(pending[n][1].new, u) PROVE FALSE
  OBVIOUS
<1>1. NameOf[u] = n
  BY KeyUnmarked
<1>2. 1 \in 1..Len(pending[n])
  BY DEF IInv, TInv, TypeOK
<1>. QED
  BY <1>1, <1>2 DEF Departed, NowhereAt

\* An object whose deletion was sent is nowhere any more, but for items that
\* are marked.
ClearOf(u) ==
    /\ Departed(u)
    /\ \A v \in Uid : (cache[v] # None /\ cache[v].obj.uid = u) => cache[v].deleted

LEMMA ClearStep ==
  ASSUME SysIInv, SysNext, NEW u \in Uid, ClearOf(u)
  PROVE  ClearOf(u)'
<1> DEFINE OnlyMarked ==
      \A v \in Uid : (cache[v] # None /\ cache[v].obj.uid = u) => cache[v].deleted
<1>0. TypeOK /\ IInv /\ Departed(u) /\ Departed(u)' /\ OnlyMarked
  BY DepartedStep DEF SysIInv, IInv, TInv, ClearOf
<1>1. CASE InformerNext \/ LoseWatch \/ UNCHANGED vars \/ InformerEnds
  <2>1. UNCHANGED cache
    BY <1>0, <1>1, InformerEnqueues DEF LoseWatch, vars, InformerEnds, ServerVars
  <2>. QED
    BY <1>0, <2>1 DEF ClearOf
<1>2. ASSUME NEW n \in Name, Handle(n) PROVE ClearOf(u)'
  <2> DEFINE note == pending[n][1]
  <2>1. pending[n] # << >> /\ note \in Note /\ Dispatch(note)
    BY <1>0, <1>2, HandleParts
  <2>2. ~Has(note.new, u)
    BY <1>0, <2>1, HeadNotDeparted
  <2>3. ASSUME NEW v \in Uid, cache'[v] # None, cache'[v].obj.uid = u
        PROVE  cache'[v].deleted
    <3>1. CASE cache'[v] = cache[v]
      BY <1>0, <2>3, <3>1
    <3>2. CASE note.new \in Object /\ cache'[v] = NewEntry(note.new, FALSE)
      BY <2>2, <2>3, <3>2 DEF NewEntry, Has, Object
    <3>3. CASE cache'[v] = NewEntry(note.old, TRUE)
      BY <3>3 DEF NewEntry
    <3>4. \/ cache'[v] = cache[v]
          \/ note.new \in Object /\ cache'[v] = NewEntry(note.new, FALSE)
          \/ cache'[v] = NewEntry(note.old, TRUE)
      BY <1>0, <2>1, DispatchEffect DEF TypeOK
    <3>. QED
      BY <3>1, <3>2, <3>3, <3>4
  <2>. QED
    BY <1>0, <2>3 DEF ClearOf
<1>3. CASE Fetch \/ Janitor \/ Tick
  <2>1. KeepItems
    BY <1>0, <1>3, AgeKeepsItems
  <2>. QED
    BY <1>0, <2>1 DEF ClearOf, KeepItems
<1>4. CASE Start
  <2>1. cache' = [v \in Uid |-> None]
    BY <1>4 DEF Start
  <2>. QED
    BY <1>0, <2>1 DEF ClearOf
<1>. QED
  BY <1>1, <1>2, <1>3, <1>4, CacheStep DEF Next, SteadyNext, InformerNext

\* What was sent of one object agrees, within an upload and with those before.
Consistent ==
    /\ \A u \in Uid : u \in told \/ Carries(u) => ClearOf(u)
    /\ \A p \in carried : ~p.deleted => p.obj.uid \notin told /\ ~Carries(p.obj.uid)
    /\ \A p \in view : ~p.deleted => p.obj.uid \notin told

LEMMA ConsistentStep ==
  ASSUME SysIInv, Unbroken, Consistent, SysNext
  PROVE  Consistent'
<1>0. /\ TypeOK /\ IInv
      /\ carried \subseteq Posted /\ view \subseteq Posted /\ told \subseteq Uid
  BY DEF SysIInv, IInv, TInv, OwnTypes
<1>1. \A u \in Uid : u \in told \/ Carries(u) => ClearOf(u)'
  BY ClearStep DEF Consistent
<1>2. ASSUME UNCHANGED backend, carried' = carried \/ carried' = {}
      PROVE  Consistent'
  BY <1>0, <1>1, <1>2 DEF Consistent, Carries, backend
<1>3. ASSUME Deliver, carried' = carried \/ carried' = {} PROVE Consistent'
  <2>1. view' = carried /\ \A u \in Uid : u \in told' <=> u \in told \/ Carries(u)
    BY <1>0, <1>3 DEF Deliver, Carries
  <2>2. \A p \in carried : p.obj.uid \in Uid
    BY <1>0 DEF Posted, Object
  <2>3. \A u \in Uid : Carries(u)' => Carries(u)
    BY <1>3 DEF Carries
  <2>. QED
    BY <1>0, <1>1, <1>3, <2>1, <2>2, <2>3 DEF Consistent
<1>4. CASE Gather
  <2>1. carried' = Upload(Items) /\ UNCHANGED backend /\ Fetch
    BY <1>4 DEF Gather
  <2>2. ASSUME NEW p \in carried'
        PROVE  \E v \in Uid : /\ cache[v] # None /\ p.obj.uid = v
                              /\ cache[v].obj.uid = v /\ p.deleted = cache[v].deleted
    <3>1. PICK v \in Uid : /\ Visible(v)
                          /\ p = [obj |-> cache[v].obj, deleted |-> cache[v].deleted]
      BY <2>1, <2>2 DEF Upload, Items
    <3>. QED
      BY <3>1 DEF Visible, Unbroken, OwnKeyAt
  <2>3. ASSUME NEW u \in Uid, Carries(u)' PROVE cache[u] # None /\ cache[u].deleted
    BY <2>2, <2>3 DEF Carries
  <2>4. ASSUME NEW u \in Uid, Carries(u)' PROVE ClearOf(u)'
    <3>1. ClearOf(u)
      BY <1>0, <2>3, <2>4 DEF ClearOf, Departed, IInv, Buried, Marked, Unbroken, OwnKeyAt
    <3>. QED
      BY <3>1, ClearStep
  <2>5. ASSUME NEW p \in carried', ~p.deleted
        PROVE  p.obj.uid \notin told' /\ ~Carries(p.obj.uid)'
    <3>1. PICK v \in Uid : /\ cache[v] # None /\ p.obj.uid = v
                          /\ cache[v].obj.uid = v /\ ~cache[v].deleted
      BY <2>2, <2>5
    <3>2. v \notin told
      BY <3>1 DEF Consistent, ClearOf
    <3>3. ~Carries(v)'
      BY <2>3, <3>1
    <3>. QED
      BY <2>1, <3>1, <3>2, <3>3 DEF backend
  <2>. QED
    BY <1>1, <2>1, <2>4, <2>5 DEF Consistent, backend
<1>5. CASE PostSucceeds
  BY <1>3, <1>5 DEF PostSucceeds
<1>6. CASE PostFails
  BY <1>2, <1>3, <1>6 DEF PostFails
<1>7. CASE \/ ServerStep \/ InformerActs \/ BreakWatch \/ DropExpired \/ Proceed
           \/ FailToBoot \/ Elapse \/ Restart \/ Crash
  BY <1>2, <1>7 DEF ServerStep, InformerActs, List, ResyncStore, HandleNote, BreakWatch,
       DropExpired, Proceed, FailToBoot, Elapse, Restart, Crash, Start
<1>8. ASSUME NEW x, RoutineReturns(x) \/ RoutineFails(x) PROVE Consistent'
  BY <1>2, <1>8 DEF RoutineReturns, RoutineFails, EndsRoutine
<1>. QED
  BY <1>4, <1>5, <1>6, <1>7, <1>8 DEF SysNext, AgentActs

\* What holds until a watch has broken.
Quiet == outages = 0 => Unbroken /\ Consistent

LEMMA OutagesStay ==
  ASSUME SysIInv, SysNext
  PROVE  /\ outages' = 0 => outages = 0
         /\ \/ UNCHANGED outages
            \/ BreakWatch /\ outages' > 0
<1>0. outages \in Nat
  BY DEF SysIInv, IInv, TInv, TypeOK
<1>1. CASE BreakWatch
  BY <1>0, <1>1 DEF BreakWatch, LoseWatch
<1>2. CASE ServerStep \/ InformerActs \/ DropExpired \/ Elapse
  BY <1>2 DEF ServerStep, Create, Modify, Remove, Change, InformerActs, List,
       ResyncStore, HandleNote, Relist, Resync, Handle, DropExpired, Janitor,
       informerVars, Elapse, Tick
<1>3. CASE Proceed \/ Gather \/ PostSucceeds \/ PostFails \/ FailToBoot
  BY <1>3 DEF Proceed, Gather, Fetch, informerVars, PostSucceeds, PostFails,
       FailToBoot, vars
<1>4. CASE Restart \/ Crash
  BY <1>4 DEF Restart, Crash, Start
<1>5. ASSUME NEW x, RoutineReturns(x) \/ RoutineFails(x) PROVE UNCHANGED outages
  BY <1>5 DEF RoutineReturns, RoutineFails, EndsRoutine
<1>. QED
  BY <1>1, <1>2, <1>3, <1>4, <1>5 DEF SysNext, AgentActs

LEMMA QuietInvariance == SysSpec => []Quiet
<1>1. SysInit => Quiet
  <2> SUFFICES ASSUME SysInit PROVE Unbroken /\ Consistent
    BY DEF Quiet
  <2>1. Unbroken
    BY DEF SysInit, Unbroken, OneObjectAt, OwnKeyAt
  <2>2. Consistent
    BY DEF SysInit, Consistent, Carries
  <2>. QED
    BY <2>1, <2>2
<1>2. ASSUME SysIInv, Quiet, SysNext PROVE Quiet'
  BY <1>2, OutagesStay, UnbrokenStep, ConsistentStep DEF Quiet
<1>3. ASSUME UNCHANGED sysVars, Quiet PROVE Quiet'
  BY <1>3 DEF sysVars, vars, process, backend, Quiet, Unbroken, OneObjectAt,
              OfOneObject, OwnKeyAt, Consistent, Carries, ClearOf, Departed, NowhereAt
<1>4. SysIInv /\ Quiet /\ [SysNext]_sysVars => Quiet'
  BY <1>2, <1>3
<1>. QED
  BY <1>1, <1>4, SysInvariance, PTL DEF SysSpec

\* For any settings, restarts, lost answers and repeated uploads: until a watch
\* has broken, what the backend was told to be deleted it is not shown again.
THEOREM DeletedStaysDeleted == SysSpec => []NeverShownAgain
<1>1. Quiet => NeverShownAgain
  BY DEF Quiet, Consistent, NeverShownAgain
<1>. QED
  BY <1>1, QuietInvariance, PTL

-----------------------------------------------------------------------------
(* What is cached as live was on the server no longer ago than it was set. *)

\* The server's and the informer's steps.
LEMMA InformerActions ==
  ASSUME ServerStep \/ List \/ ResyncStore
  PROVE  InformerNext
  BY DEF ServerStep, List, ResyncStore, InformerNext

\* Whatever is notified is what the server holds: resyncs need the watch.
LEMMA NotifiedIsHeld ==
  ASSUME IInv, IInv', InformerNext, NEW n \in Name
  PROVE  \/ pending'[n] = pending[n] /\ store'[n] = store[n]
         \/ \E m \in Note : /\ pending'[n] = Append(pending[n], m)
                            /\ m.old = store[n] /\ m.new = store'[n]
                            /\ m.new = server'[n]
<1>1. Enqueues(n)
  BY InformerEnqueues
<1>2. CASE watching'
  <2>1. store' = server'
    BY <1>2 DEF IInv, TInv, WatchedStore
  <2>. QED
    BY <1>1, <2>1 DEF Enqueues
<1>3. CASE ~watching'
  <2>1. ~Relist /\ ~Resync
    <3>1. Relist => watching' = TRUE
      BY DEF Relist
    <3>2. Resync => watching /\ watching' = watching
      BY DEF Resync
    <3>. QED
      BY <1>3, <3>1, <3>2
  <2>2. PICK k, o : Change(k, o)
    BY <2>1 DEF InformerNext, Create, Modify, Remove
  <2>3. UNCHANGED <<store, pending>>
    BY <1>3, <2>2 DEF Change
  <2>. QED
    BY <2>3
<1>. QED
  BY <1>2, <1>3

\* What is notified was on the server in this tick, and what is cached as live
\* since it was cached.
NotedFresh(n) ==
    \A i \in 1..Len(pending[n]) :
        pending[n][i].new # None => gone[pending[n][i].new] = 0
CachedFresh(u) ==
    (cache[u] # None /\ ~cache[u].deleted /\ cache[u].age <= Expiry)
        => gone[cache[u].obj] <= cache[u].age

Fresh ==
    /\ \A o \in OnServer : gone[o] = 0
    /\ \A n \in Name : NotedFresh(n)
    /\ \A u \in Uid : CachedFresh(u)

LEMMA FreshInformer ==
  ASSUME SysIInv, SysIInv', Fresh, ServerStep \/ List \/ ResyncStore
  PROVE  Fresh'
<1>0. /\ TypeOK /\ TypeOK' /\ IInv /\ IInv' /\ InformerNext
      /\ gone \in [Object -> 0..(Expiry + 1)]
  BY InformerActions DEF SysIInv, IInv, TInv, OwnTypes
<1>1. /\ \A o \in Object : gone'[o] = 0 \/ gone'[o] = gone[o]
      /\ \A o \in OnServer' : gone'[o] = 0
  <2>1. OnServer' \subseteq Object
    BY <1>0 DEF OnServer, TypeOK, ObjectOrNone
  <2>2. CASE ServerStep
    BY <2>1, <2>2 DEF ServerStep
  <2>3. CASE List \/ ResyncStore
    <3>1. UNCHANGED <<server, gone>>
      BY <2>3 DEF List, Relist, ResyncStore, Resync, history
    <3>2. OnServer' = OnServer
      BY <3>1 DEF OnServer
    <3>. QED
      BY <3>1, <3>2 DEF Fresh
  <2>. QED
    BY <2>2, <2>3
<1>2. UNCHANGED cache
  BY <1>0, InformerEnqueues
<1>3. ASSUME NEW n \in Name PROVE NotedFresh(n)'
  <2>0. pending[n] \in Seq(Note) /\ NotedFresh(n)
    BY <1>0 DEF TypeOK, Fresh
  <2>1. ASSUME NEW i \in 1..Len(pending[n]), pending[n][i].new # None
        PROVE  gone'[pending[n][i].new] = 0
    <3>1. pending[n][i].new \in Object
      BY <2>0, <2>1 DEF Note, ObjectOrNone
    <3>. QED
      BY <1>1, <2>0, <2>1, <3>1 DEF NotedFresh
  <2>2. ASSUME NEW m \in Note, pending'[n] = Append(pending[n], m), m.new = server'[n]
        PROVE  NotedFresh(n)'
    <3>1. ASSUME NEW i \in 1..Len(pending'[n]), pending'[n][i].new # None
          PROVE  gone'[pending'[n][i].new] = 0
      <4>1. CASE i \in 1..Len(pending[n])
        <5>1. pending'[n][i] = pending[n][i]
          BY <2>0, <2>2, <4>1
        <5>. QED
          BY <2>1, <3>1, <4>1, <5>1
      <4>2. CASE i \notin 1..Len(pending[n])
        <5>1. pending'[n][i] = m
          BY <2>0, <2>2, <3>1, <4>2
        <5>2. m.new \in OnServer'
          BY <2>2, <3>1, <5>1 DEF OnServer
        <5>. QED
          BY <1>1, <5>1, <5>2
      <4>. QED
        BY <4>1, <4>2
    <3>. QED
      BY <3>1 DEF NotedFresh
  <2>3. CASE pending'[n] = pending[n]
    BY <2>1, <2>3 DEF NotedFresh
  <2>. QED
    BY <1>0, <2>2, <2>3, NotifiedIsHeld
<1>4. ASSUME NEW u \in Uid PROVE CachedFresh(u)'
  <2>1. cache[u] # None => cache[u].obj \in Object /\ cache[u].age \in Nat
    BY <1>0 DEF TypeOK, Entry
  <2>. QED
    BY <1>1, <1>2, <2>1 DEF Fresh, CachedFresh
<1>. QED
  BY <1>1, <1>3, <1>4 DEF Fresh

LEMMA FreshHandle ==
  ASSUME SysIInv, Fresh, NEW n \in Name, HandleNote(n)
  PROVE  Fresh'
<1> DEFINE note == pending[n][1]
<1>0. TypeOK /\ IInv
  BY DEF SysIInv, IInv, TInv
<1>1. /\ Handle(n) /\ UNCHANGED <<server, gone>>
      /\ note \in Note /\ pending[n] # << >> /\ Dispatch(note)
      /\ pending'[n] = Tail(pending[n])
      /\ \A k \in Name \ {n} : pending'[k] = pending[k]
  <2>1. Handle(n) /\ UNCHANGED gone
    BY DEF HandleNote, history
  <2>. QED
    BY <1>0, <2>1, HandleParts
<1>2. ASSUME NEW k \in Name PROVE NotedFresh(k)'
  <2>1. CASE k = n
    <3>1. pending[n] \in Seq(Note) /\ NotedFresh(n)
      BY <1>0 DEF TypeOK, Fresh
    <3>2. \A i \in 1..Len(pending'[n]) : /\ i + 1 \in 1..Len(pending[n])
                                        /\ pending'[n][i] = pending[n][i + 1]
      BY <1>1, <3>1
    <3>3. ASSUME NEW i \in 1..Len(pending'[n]), pending'[n][i].new # None
          PROVE  gone'[pending'[n][i].new] = 0
      BY <1>1, <3>1, <3>2, <3>3 DEF NotedFresh
    <3>. QED
      BY <2>1, <3>3 DEF NotedFresh
  <2>2. CASE k # n
    BY <1>1, <2>2 DEF Fresh, NotedFresh
  <2>. QED
    BY <2>1, <2>2
<1>3. ASSUME note.new \in Object PROVE gone[note.new] = 0
  <2>1. 1 \in 1..Len(pending[n])
    BY <1>0, <1>1 DEF TypeOK
  <2>. QED
    BY <1>3, <2>1 DEF Fresh, NotedFresh
<1>4. ASSUME NEW u \in Uid PROVE CachedFresh(u)'
  <2>1. CASE cache'[u] = cache[u]
    BY <1>1, <2>1 DEF Fresh, CachedFresh
  <2>2. CASE note.new \in Object /\ cache'[u] = NewEntry(note.new, FALSE)
    BY <1>1, <1>3, <2>2 DEF CachedFresh, NewEntry
  <2>3. CASE cache'[u] = NewEntry(note.old, TRUE)
    BY <2>3 DEF CachedFresh, NewEntry
  <2>4. \/ cache'[u] = cache[u]
        \/ note.new \in Object /\ cache'[u] = NewEntry(note.new, FALSE)
        \/ cache'[u] = NewEntry(note.old, TRUE)
    BY <1>0, <1>1, DispatchEffect DEF TypeOK
  <2>. QED
    BY <2>1, <2>2, <2>3, <2>4
<1>. QED
  BY <1>1, <1>2, <1>4 DEF Fresh, OnServer

LEMMA FreshElapse ==
  ASSUME SysIInv, Fresh, Elapse
  PROVE  Fresh'
<1>0. /\ TypeOK /\ gone \in [Object -> 0..(Expiry + 1)]
      /\ Expiry \in Nat
  BY DEF SysIInv, IInv, TInv, OwnTypes, TypeOK
<1>1. /\ \A k \in Name : pending[k] = << >> /\ pending'[k] = << >>
      /\ UNCHANGED server
      /\ cache' = [u \in Uid |-> Older(cache[u])]
      /\ \A o \in Object : /\ gone'[o] = gone[o] \/ gone'[o] = gone[o] + 1
                           /\ o \in OnServer => gone'[o] = gone[o]
  BY DEF Elapse, Tick
<1>2. \A o \in OnServer' : gone'[o] = 0
  <2>1. OnServer' = OnServer /\ OnServer \subseteq Object
    BY <1>0, <1>1 DEF OnServer, TypeOK, ObjectOrNone
  <2>. QED
    BY <1>1, <2>1 DEF Fresh
<1>3. ASSUME NEW u \in Uid PROVE CachedFresh(u)'
  <2>1. CASE cache[u] = None
    BY <1>1, <2>1 DEF Older, CachedFresh
  <2>2. CASE cache[u] # None
    <3>1. cache[u] \in Entry /\ cache[u].obj \in Object /\ cache[u].age \in Nat
      BY <1>0, <2>2 DEF TypeOK, Entry
    <3>2. /\ cache'[u].obj = cache[u].obj /\ cache'[u].deleted = cache[u].deleted
          /\ cache'[u].age = IF cache[u].age <= Expiry THEN cache[u].age + 1
                             ELSE cache[u].age
      BY <1>1, <2>2, <3>1 DEF Older, Entry
    <3>3. gone[cache[u].obj] \in Nat
      BY <1>0, <3>1
    <3>. QED
      BY <1>0, <1>1, <2>2, <3>1, <3>2, <3>3 DEF Fresh, CachedFresh
  <2>. QED
    BY <2>1, <2>2
<1>4. \A n \in Name : NotedFresh(n)'
  BY <1>1 DEF NotedFresh
<1>. QED
  BY <1>2, <1>3, <1>4 DEF Fresh

\* So what a Fetch returns as live was on the server within an item's life.
LEMMA FetchedFresh ==
  ASSUME SysIInv, Fresh, NEW p \in Upload(Items), ~p.deleted
  PROVE  gone[p.obj] <= Expiry
<1>0. /\ TypeOK /\ gone \in [Object -> 0..(Expiry + 1)] /\ Expiry \in Nat
  BY DEF SysIInv, IInv, TInv, OwnTypes
<1>1. PICK v \in Uid : /\ Visible(v)
                      /\ p = [obj |-> cache[v].obj, deleted |-> cache[v].deleted]
  BY DEF Upload, Items
<1>2. /\ cache[v] \in Entry /\ cache[v].age \in Nat /\ cache[v].age <= Expiry
      /\ gone[cache[v].obj] <= cache[v].age
  BY <1>0, <1>1 DEF Fresh, CachedFresh, Visible, TypeOK, Entry
<1>3. gone[cache[v].obj] \in Nat
  BY <1>0, <1>2 DEF Entry
<1>. QED
  BY <1>0, <1>1, <1>2, <1>3

LEMMA FreshStep ==
  ASSUME SysIInv, SysIInv', Fresh, [SysNext]_sysVars
  PROVE  Fresh'
<1>1. ASSUME UNCHANGED <<server, pending, gone>>,
             \A u \in Uid : cache'[u] = cache[u] \/ cache'[u] = None
      PROVE  Fresh'
  BY <1>1 DEF Fresh, OnServer, NotedFresh, CachedFresh
<1>2. CASE ServerStep \/ InformerActs
  BY <1>2, FreshInformer, FreshHandle DEF InformerActs
<1>3. CASE BreakWatch \/ DropExpired \/ Gather
  BY <1>1, <1>3 DEF BreakWatch, LoseWatch, DropExpired, Janitor, Gather, Fetch,
                    informerVars, WithoutExpired, history
<1>4. CASE Proceed \/ PostSucceeds \/ PostFails \/ FailToBoot
  BY <1>1, <1>4 DEF Proceed, PostSucceeds, PostFails, FailToBoot, vars, history
<1>5. ASSUME NEW x, RoutineReturns(x) \/ RoutineFails(x) PROVE Fresh'
  BY <1>1, <1>5 DEF RoutineReturns, RoutineFails, EndsRoutine
<1>6. CASE Start
  <2>1. /\ UNCHANGED <<server, gone>> /\ pending' = [n \in Name |-> << >>]
        /\ cache' = [u \in Uid |-> None]
    BY <1>6 DEF Start
  <2>. QED
    BY <2>1 DEF Fresh, OnServer, NotedFresh, CachedFresh
<1>7. CASE UNCHANGED sysVars
  BY <1>1, <1>7 DEF sysVars, vars, history
<1>. QED
  BY <1>2, <1>3, <1>4, <1>5, <1>6, <1>7, FreshElapse
     DEF SysNext, AgentActs, Restart, Crash

-----------------------------------------------------------------------------
(* What the backend is told of a deletion is final. *)

\* Only an item under its own uid is ever marked; and what is marked in an
\* upload is gone for good, broken watches or not.
MarkedOwn(u) == Marked(u) => cache[u].obj.uid = u

Final ==
    /\ \A u \in Uid : MarkedOwn(u)
    /\ \A u \in Uid : u \in told \/ Carries(u) => Departed(u)

LEMMA MarkedOwnStep ==
  ASSUME SysIInv, NEW u \in Uid, MarkedOwn(u), SysNext
  PROVE  MarkedOwn(u)'
<1>0. TypeOK /\ IInv
  BY DEF SysIInv, IInv, TInv
<1>1. CASE InformerNext \/ LoseWatch \/ UNCHANGED vars \/ InformerEnds
  <2>1. UNCHANGED cache
    BY <1>0, <1>1, InformerEnqueues DEF LoseWatch, vars, InformerEnds, ServerVars
  <2>. QED
    BY <2>1 DEF MarkedOwn, Marked
<1>2. ASSUME NEW n \in Name, Handle(n) PROVE MarkedOwn(u)'
  <2> DEFINE note == pending[n][1]
  <2>1. note \in Note /\ Dispatch(note)
    BY <1>0, <1>2, HandleParts
  <2>2. CASE cache'[u] = cache[u]
    BY <2>2 DEF MarkedOwn, Marked
  <2>3. CASE cache'[u] = NewEntry(note.new, FALSE)
    BY <2>3 DEF MarkedOwn, Marked, NewEntry
  <2>4. CASE note.old.uid = u /\ cache'[u] = NewEntry(note.old, TRUE)
    BY <2>4 DEF MarkedOwn, NewEntry
  <2>5. \/ cache'[u] = cache[u]
        \/ cache'[u] = NewEntry(note.new, FALSE)
        \/ note.old.uid = u /\ cache'[u] = NewEntry(note.old, TRUE)
    BY <1>0, <2>1, DispatchEffect DEF TypeOK
  <2>. QED
    BY <2>2, <2>3, <2>4, <2>5
<1>3. CASE Fetch \/ Janitor \/ Tick
  <2>1. KeepItems
    BY <1>0, <1>3, AgeKeepsItems
  <2>. QED
    BY <2>1 DEF MarkedOwn, Marked, KeepItems
<1>4. CASE Start
  BY <1>4 DEF Start, MarkedOwn, Marked
<1>. QED
  BY <1>1, <1>2, <1>3, <1>4, CacheStep DEF Next, SteadyNext, InformerNext

LEMMA FinalStep ==
  ASSUME SysIInv, Final, SysNext
  PROVE  Final'
<1>0. /\ TypeOK /\ IInv
      /\ carried \subseteq Posted /\ told \subseteq Uid
  BY DEF SysIInv, IInv, TInv, OwnTypes
<1>1. \A u \in Uid : MarkedOwn(u)'
  BY MarkedOwnStep DEF Final
<1>2. \A u \in Uid : u \in told \/ Carries(u) => Departed(u)'
  BY DepartedStep DEF Final
<1>3. ASSUME UNCHANGED told, carried' = carried \/ carried' = {} PROVE Final'
  BY <1>1, <1>2, <1>3 DEF Final, Carries
<1>4. ASSUME Deliver, carried' = carried \/ carried' = {} PROVE Final'
  <2>1. \A u \in Uid : (u \in told' => u \in told \/ Carries(u))
                      /\ (Carries(u)' => Carries(u))
    BY <1>0, <1>4 DEF Deliver, Carries
  <2>. QED
    BY <1>1, <1>2, <2>1 DEF Final
<1>5. CASE Gather
  <2>1. carried' = Upload(Items) /\ UNCHANGED told
    BY <1>5 DEF Gather, backend
  <2>2. ASSUME NEW u \in Uid, Carries(u)' PROVE Departed(u)'
    <3>1. PICK v \in Uid : Marked(v) /\ cache[v].obj.uid = u
      BY <2>1, <2>2 DEF Carries, Upload, Items, Visible, Marked
    <3>2. Departed(u)
      BY <1>0, <3>1 DEF Final, MarkedOwn, IInv, Buried, Departed
    <3>. QED
      BY <3>2, DepartedStep
  <2>. QED
    BY <1>1, <1>2, <2>1, <2>2 DEF Final
<1>6. CASE PostSucceeds
  BY <1>4, <1>6 DEF PostSucceeds
<1>7. CASE PostFails
  BY <1>3, <1>4, <1>7 DEF PostFails, backend
<1>8. CASE \/ ServerStep \/ InformerActs \/ BreakWatch \/ DropExpired \/ Proceed
           \/ FailToBoot \/ Elapse \/ Restart \/ Crash
  BY <1>3, <1>8 DEF ServerStep, InformerActs, List, ResyncStore, HandleNote, BreakWatch,
       DropExpired, Proceed, FailToBoot, Elapse, Restart, Crash, Start, backend
<1>9. ASSUME NEW x, RoutineReturns(x) \/ RoutineFails(x) PROVE Final'
  BY <1>3, <1>9 DEF RoutineReturns, RoutineFails, EndsRoutine, backend
<1>. QED
  BY <1>5, <1>6, <1>7, <1>8, <1>9 DEF SysNext, AgentActs

-----------------------------------------------------------------------------
(* Versions go forwards. *)

\* x is not an earlier version of o.
NotBelow(x, o) == Has(x, o.uid) => o.ver <= x.ver

\* Nothing that the server, the informer and the handlers have of o's name is an
\* earlier version of it, or will be.
Ahead(o) ==
    /\ o.uid \in born
    /\ NotBelow(server[NameOf[o.uid]], o)
    /\ NotBelow(store[NameOf[o.uid]], o)
    /\ NotBelow(Handled(NameOf[o.uid]), o)
    /\ \A i \in 1..Len(pending[NameOf[o.uid]]) :
         NotBelow(pending[NameOf[o.uid]][i].new, o)

\* What is notified of a name is ordered: by later notifications, the store,
\* and the server.
OrderedAt(n) ==
    /\ store[n] # None => NotBelow(server[n], store[n])
    /\ \A i \in 1..Len(pending[n]) : pending[n][i].new # None =>
         /\ NotBelow(server[n], pending[n][i].new)
         /\ NotBelow(store[n], pending[n][i].new)
         /\ \A j \in i..Len(pending[n]) :
              NotBelow(pending[n][j].new, pending[n][i].new)

LEMMA ServerForward ==
  ASSUME IInv, InformerNext, NEW n \in Name, NEW o \in Object, o.uid \in born,
         NotBelow(server[n], o)
  PROVE  NotBelow(server[n], o)'
<1>0. TypeOK /\ NameOf \in [Uid -> Name]
  BY DEF IInv, TInv
<1>1. ASSUME NEW u \in Uid, Create(u) PROVE NotBelow(server'[n], o)
  <2>1. u # o.uid /\ server' = [server EXCEPT ![NameOf[u]] = [uid |-> u, ver |-> 0]]
    BY <1>1 DEF Create, Change
  <2>. QED
    BY <1>0, <2>1 DEF TypeOK, NotBelow, Has
<1>2. ASSUME NEW k \in Name, Modify(k) PROVE NotBelow(server'[n], o)
  <2>1. /\ server[k] # None
        /\ server' = [server EXCEPT ![k] =
                        [uid |-> server[k].uid, ver |-> server[k].ver + 1]]
    BY <1>2 DEF Modify, Change
  <2>2. server[k] \in Object /\ server[k].ver \in Nat /\ o.ver \in Nat
    BY <1>0, <2>1 DEF TypeOK, ObjectOrNone, Object
  <2>3. CASE k = n
    <3>1. server'[n] = [uid |-> server[n].uid, ver |-> server[n].ver + 1]
      BY <1>0, <2>1, <2>3 DEF TypeOK
    <3>. QED
      BY <2>1, <2>2, <2>3, <3>1 DEF NotBelow, Has
  <2>4. CASE k # n
    BY <1>0, <2>1, <2>4 DEF TypeOK
  <2>. QED
    BY <2>3, <2>4
<1>3. ASSUME NEW k \in Name, Remove(k) PROVE NotBelow(server'[n], o)
  <2>1. server' = [server EXCEPT ![k] = None]
    BY <1>3 DEF Remove, Change
  <2>. QED
    BY <1>0, <2>1 DEF TypeOK, NotBelow, Has
<1>4. CASE Relist \/ Resync
  BY <1>4 DEF Relist, Resync
<1>5. NotBelow(server'[n], o)
  BY <1>1, <1>2, <1>3, <1>4 DEF InformerNext
<1>. QED
  BY <1>5 DEF NotBelow, Has

\* What is added to a name's notifications is at the server.
LEMMA AddedIsHeld ==
  ASSUME IInv, IInv', InformerNext, NEW n \in Name
  PROVE  /\ store'[n] = store[n] \/ store'[n] = server'[n]
         /\ Len(pending[n]) \in Nat /\ Len(pending'[n]) \in Nat
         /\ \A i \in 1..Len(pending'[n]) :
              \/ i \in 1..Len(pending[n]) /\ pending'[n][i] = pending[n][i]
              \/ /\ i = Len(pending'[n]) /\ i \notin 1..Len(pending[n])
                 /\ pending'[n][i].new = server'[n] /\ store'[n] = server'[n]
<1>0. pending[n] \in Seq(Note)
  BY DEF IInv, TInv, TypeOK
<1>1. CASE pending'[n] = pending[n] /\ store'[n] = store[n]
  BY <1>0, <1>1
<1>2. ASSUME NEW m \in Note, pending'[n] = Append(pending[n], m),
             m.new = store'[n], m.new = server'[n]
      PROVE  /\ Len(pending[n]) \in Nat /\ Len(pending'[n]) = Len(pending[n]) + 1
             /\ \A i \in 1..Len(pending[n]) : pending'[n][i] = pending[n][i]
             /\ pending'[n][Len(pending[n]) + 1] = m
  BY <1>0, <1>2
<1>. QED
  BY <1>1, <1>2, NotifiedIsHeld

LEMMA AheadInformer ==
  ASSUME IInv, IInv', InformerNext, NEW o \in Object, Ahead(o)
  PROVE  Ahead(o)'
<1> DEFINE n == NameOf[o.uid]
<1>1. n \in Name
  BY DEF Object
<1> HIDE DEF n
<1>2. NotBelow(server'[n], o)
  BY <1>1, ServerForward DEF Ahead, n, NotBelow
<1>3. NotBelow(store'[n], o)
  BY <1>1, <1>2, AddedIsHeld DEF Ahead, n
<1>4. \A i \in 1..Len(pending'[n]) : NotBelow(pending'[n][i].new, o)
  BY <1>1, <1>2, AddedIsHeld DEF Ahead, n
<1>5. Handled(n)' = Handled(n) /\ born \subseteq born'
  <2>1. Enqueues(n)
    BY <1>1, InformerEnqueues
  <2>. QED
    BY <1>1, <2>1, EnqueueKeepsHandled DEF Enqueues
<1>6. NotBelow(Handled(n)', o)
  BY <1>5 DEF Ahead, n
<1>. QED
  BY <1>2, <1>3, <1>4, <1>5, <1>6 DEF Ahead, NotBelow, n

LEMMA OrderedInformer ==
  ASSUME IInv, IInv', InformerNext, NEW n \in Name, OrderedAt(n)
  PROVE  OrderedAt(n)'
<1> DEFINE Outdone(o) ==
             /\ NotBelow(server'[n], o) /\ NotBelow(store'[n], o)
             /\ \A j \in 1..Len(pending'[n]) : j \notin 1..Len(pending[n])
                  => NotBelow(pending'[n][j].new, o)
<1>0. /\ server'[n] \in ObjectOrNone /\ store[n] \in ObjectOrNone
      /\ pending[n] \in Seq(Note) /\ None \notin Object
      /\ At(store[n], n)
      /\ \A i \in 1..Len(pending[n]) : At(pending[n][i].new, n)
  BY DEF IInv, TInv, TypeOK, PlacedAt
<1>1. ASSUME NEW o \in Object, o.uid \in born, NotBelow(server[n], o)
      PROVE  NotBelow(server'[n], o)
  BY <1>1, ServerForward DEF NotBelow
<1>2. \A o \in Object : NotBelow(o, o)
  BY DEF NotBelow, Object
<1>3. ASSUME NEW o \in Object, o.uid \in born, NotBelow(server[n], o), NotBelow(store[n], o)
      PROVE  Outdone(o)
  BY <1>1, <1>3, AddedIsHeld
<1>4. store'[n] # None => NotBelow(server'[n], store'[n])
  BY <1>0, <1>1, <1>2, AddedIsHeld DEF OrderedAt, At, ObjectOrNone
<1>5. ASSUME NEW i \in 1..Len(pending'[n]), pending'[n][i].new # None
      PROVE  /\ NotBelow(server'[n], pending'[n][i].new)
             /\ NotBelow(store'[n], pending'[n][i].new)
             /\ \A j \in i..Len(pending'[n]) :
                  NotBelow(pending'[n][j].new, pending'[n][i].new)
  <2> DEFINE o == pending'[n][i].new
  <2>1. CASE i \in 1..Len(pending[n]) /\ pending'[n][i] = pending[n][i]
    <3>1. o \in Object /\ o.uid \in born
      BY <1>0, <1>5, <2>1 DEF At, Note, ObjectOrNone
    <3>2. /\ NotBelow(server[n], o) /\ NotBelow(store[n], o)
          /\ \A j \in i..Len(pending[n]) : NotBelow(pending[n][j].new, o)
      BY <1>5, <2>1 DEF OrderedAt
    <3>3. Outdone(o)
      BY <1>3, <3>1, <3>2
    <3>4. ASSUME NEW j \in i..Len(pending'[n]) PROVE NotBelow(pending'[n][j].new, o)
      <4>1. j \in 1..Len(pending'[n])
        BY AddedIsHeld
      <4>2. CASE j \in 1..Len(pending[n])
        <5>1. j \in i..Len(pending[n]) /\ pending'[n][j] = pending[n][j]
          BY <4>1, <4>2, AddedIsHeld
        <5>. QED
          BY <3>2, <5>1
      <4>. QED
        BY <3>3, <4>1, <4>2
    <3>. QED
      BY <3>3, <3>4
  <2>2. CASE i = Len(pending'[n]) /\ o = server'[n] /\ store'[n] = server'[n]
    <3>1. o \in Object
      BY <1>0, <1>5, <2>2 DEF ObjectOrNone
    <3>2. \A j \in i..Len(pending'[n]) : j = i
      BY <2>2, AddedIsHeld
    <3>. QED
      BY <1>2, <2>2, <3>1, <3>2
  <2>. QED
    BY <2>1, <2>2, AddedIsHeld
<1>. QED
  BY <1>4, <1>5 DEF OrderedAt, NotBelow, Has

\* Handling a notification leaves the others, and what is handled of a name.
LEMMA HandleAt ==
  ASSUME IInv, NEW k \in Name, Handle(k), NEW n \in Name
  PROVE  /\ UNCHANGED <<server, store, born>>
         /\ Len(pending[n]) \in Nat /\ Len(pending'[n]) \in Nat
         /\ IF k = n
            THEN /\ Handled(n)' = pending[n][1].new /\ 1 \in 1..Len(pending[n])
                 /\ Len(pending[n]) = Len(pending'[n]) + 1
                 /\ \A i \in 1..Len(pending'[n]) : pending'[n][i] = pending[n][i + 1]
            ELSE pending'[n] = pending[n] /\ Handled(n)' = Handled(n)
<1>0. pending[n] \in Seq(Note)
  BY DEF IInv, TInv, TypeOK
<1>1. /\ pending[k] # << >> /\ pending'[k] = Tail(pending[k])
      /\ \A m \in Name \ {k} : pending'[m] = pending[m]
      /\ UNCHANGED <<server, store, born>>
  BY HandleParts
<1>2. CASE k = n
  <2>1. Handled(n)' = pending[n][1].new
    BY <1>2, HandledNext
  <2> DEFINE q == pending[n]
             r == pending'[n]
  <2>2. q \in Seq(Note) /\ q # << >> /\ r = Tail(q)
    BY <1>0, <1>1, <1>2
  <2>3. UNCHANGED <<server, store, born>>
    BY <1>1
  <2> HIDE DEF q, r
  <2>4. /\ Len(q) \in Nat \ {0} /\ Len(r) \in Nat /\ Len(q) = Len(r) + 1
        /\ \A i \in 1..Len(r) : r[i] = q[i + 1]
    BY <2>2
  <2>5. 1 \in 1..Len(q)
    BY <2>4
  <2>. QED
    BY <1>2, <2>1, <2>3, <2>4, <2>5 DEF q, r
<1>3. CASE k # n
  BY <1>0, <1>1, <1>3 DEF Handled
<1>. QED
  BY <1>2, <1>3

LEMMA AheadHandle ==
  ASSUME IInv, NEW k \in Name, Handle(k), NEW o \in Object, Ahead(o)
  PROVE  Ahead(o)'
<1> DEFINE n == NameOf[o.uid]
<1>1. n \in Name
  BY DEF Object
<1> HIDE DEF n
<1>2. NotBelow(Handled(n)', o)
  BY <1>1, HandleAt DEF Ahead, n
<1>3. ASSUME NEW i \in 1..Len(pending'[n]) PROVE NotBelow(pending'[n][i].new, o)
  <2>1. CASE k = n
    <3>1. i + 1 \in 1..Len(pending[n]) /\ pending'[n][i] = pending[n][i + 1]
      BY <1>1, <2>1, HandleAt
    <3>. QED
      BY <3>1 DEF Ahead, n
  <2>2. CASE k # n
    BY <1>1, <2>2, HandleAt DEF Ahead, n
  <2>. QED
    BY <2>1, <2>2
<1>4. UNCHANGED <<server, store, born>>
  BY <1>1, HandleAt
<1>. QED
  BY <1>2, <1>3, <1>4 DEF Ahead, NotBelow, n

LEMMA OrderedHandle ==
  ASSUME IInv, NEW k \in Name, Handle(k), NEW n \in Name, OrderedAt(n)
  PROVE  OrderedAt(n)'
<1>1. CASE k = n
  <2>1. ASSUME NEW i \in 1..Len(pending'[n]), pending'[n][i].new # None
        PROVE  /\ NotBelow(server[n], pending'[n][i].new)
               /\ NotBelow(store[n], pending'[n][i].new)
               /\ \A j \in i..Len(pending'[n]) :
                    NotBelow(pending'[n][j].new, pending'[n][i].new)
    <3>1. i + 1 \in 1..Len(pending[n]) /\ pending'[n][i] = pending[n][i + 1]
      BY <1>1, HandleAt
    <3>2. \A j \in i..Len(pending'[n]) : /\ j + 1 \in (i + 1)..Len(pending[n])
                                         /\ pending'[n][j] = pending[n][j + 1]
      BY <1>1, HandleAt
    <3>. QED
      BY <2>1, <3>1, <3>2 DEF OrderedAt
  <2>. QED
    BY <2>1, HandleAt DEF OrderedAt, NotBelow, Has
<1>2. CASE k # n
  BY <1>2, HandleAt DEF OrderedAt, NotBelow, Has
<1>. QED
  BY <1>1, <1>2

\* Both survive every step.
LEMMA OrderStep ==
  ASSUME SysIInv, SysIInv', SysNext
  PROVE  /\ \A n \in Name : OrderedAt(n) => OrderedAt(n)'
         /\ \A o \in Object : Ahead(o) => Ahead(o)'
<1> DEFINE Goal == /\ \A n \in Name : OrderedAt(n) => OrderedAt(n)'
                   /\ \A o \in Object : Ahead(o) => Ahead(o)'
<1>0. IInv /\ IInv' /\ TypeOK
  BY DEF SysIInv, IInv, TInv
<1>1. CASE InformerNext
  BY <1>0, <1>1, AheadInformer, OrderedInformer
<1>2. ASSUME NEW k \in Name, Handle(k) PROVE Goal
  BY <1>0, <1>2, AheadHandle, OrderedHandle
<1>3. ASSUME UNCHANGED <<server, born, store, pending>> PROVE Goal
  BY <1>3 DEF OrderedAt, Ahead, NotBelow, Has, Handled
<1>4. CASE Fetch \/ Janitor \/ Tick
  BY <1>0, <1>3, <1>4, AgeKeepsItems
<1>5. CASE LoseWatch \/ UNCHANGED vars \/ InformerEnds
  BY <1>3, <1>5 DEF LoseWatch, vars, InformerEnds, ServerVars
<1>6. CASE Start
  <2>1. /\ UNCHANGED <<server, born>>
        /\ store' = [n \in Name |-> None] /\ pending' = [n \in Name |-> << >>]
    BY <1>6 DEF Start
  <2>2. \A n \in Name : store'[n] = None /\ pending'[n] = << >> /\ Handled(n)' = None
    BY <2>1 DEF Handled
  <2>3. \A o \in Object : ~Has(None, o.uid) /\ NameOf[o.uid] \in Name
    BY DEF Has, Object
  <2>4. \A n \in Name : OrderedAt(n)'
    BY <2>2 DEF OrderedAt
  <2>5. ASSUME NEW o \in Object, Ahead(o) PROVE Ahead(o)'
    BY <2>1, <2>2, <2>3, <2>5 DEF Ahead, NotBelow, Has
  <2>. QED
    BY <2>4, <2>5
<1>. QED
  BY <1>1, <1>2, <1>4, <1>5, <1>6, CacheStep DEF Next, SteadyNext, InformerNext

\* What is cached, was uploaded, or is about to be, is not ahead of what comes.
InOrder ==
    /\ \A n \in Name : OrderedAt(n)
    /\ \A u \in Uid : cache[u] # None => Ahead(cache[u].obj)
    /\ \A p \in carried \cup view : Ahead(p.obj)

LEMMA HandledAhead ==
  ASSUME IInv, NEW n \in Name, Handle(n), OrderedAt(n), NEW o \in Object,
         \/ pending[n][1].new = o
         \/ pending[n][1].old = o /\ pending[n][1].new = None
  PROVE  Ahead(o)'
<1>0. /\ TypeOK /\ pending[n] # << >> /\ pending'[n] = Tail(pending[n])
      /\ 1 \in 1..Len(pending[n]) /\ Len(pending[n]) \in Nat
      /\ Len(pending[n]) = Len(pending'[n]) + 1 /\ Len(pending'[n]) \in Nat
      /\ \A i \in 1..Len(pending'[n]) : pending'[n][i] = pending[n][i + 1]
      /\ UNCHANGED <<server, store, born>> /\ Handled(n)' = pending[n][1].new
  BY HandleParts, HandleAt DEF IInv, TInv
<1>1. o # None /\ o.uid \in born /\ NameOf[o.uid] = n
  <2>1. At(pending[n][1].new, n) /\ At(pending[n][1].old, n)
    BY <1>0 DEF IInv, PlacedAt
  <2>. QED
    BY <2>1 DEF At
<1>2. CASE pending[n][1].new = o
  <2>1. /\ NotBelow(server[n], o) /\ NotBelow(store[n], o)
        /\ \A j \in 1..Len(pending[n]) : NotBelow(pending[n][j].new, o)
    BY <1>0, <1>1, <1>2 DEF OrderedAt
  <2>2. \A i \in 1..Len(pending'[n]) : NotBelow(pending'[n][i].new, o)
    BY <1>0, <2>1
  <2>3. NotBelow(o, o)
    BY DEF NotBelow, Object
  <2>. QED
    BY <1>0, <1>1, <1>2, <2>1, <2>2, <2>3 DEF Ahead, NotBelow
<1>3. CASE pending[n][1].old = o /\ pending[n][1].new = None
  <2>1. Has(pending[n][1].old, o.uid) /\ ~Has(pending[n][1].new, o.uid)
    BY <1>1, <1>3 DEF Has
  <2>2. o.uid \in Uid
    BY DEF Object
  <2>3. NowhereAt(n, o.uid)'
    BY <1>0, <2>1, <2>2, FirstGone DEF IInv
  <2>4. ~Has(Handled(n)', o.uid)
    BY <1>0, <2>1
  <2>. QED
    BY <1>0, <1>1, <2>3, <2>4 DEF Ahead, NotBelow, NowhereAt
<1>. QED
  BY <1>2, <1>3

LEMMA InOrderStep ==
  ASSUME SysIInv, SysIInv', InOrder, SysNext
  PROVE  InOrder'
<1>0. /\ TypeOK /\ IInv
      /\ carried \subseteq Posted /\ view \subseteq Posted
  BY DEF SysIInv, IInv, TInv, OwnTypes
<1>1. /\ \A n \in Name : OrderedAt(n)'
      /\ \A u \in Uid : cache[u] # None => Ahead(cache[u].obj)
      /\ \A o \in Object : Ahead(o) => Ahead(o)'
  BY OrderStep DEF InOrder
<1> DEFINE Kept == \A u \in Uid : cache'[u] # None =>
                     \E o \in Object : o = cache'[u].obj /\ Ahead(o)'
           Shown == \A p \in carried' \cup view' :
                     \E o \in Object : o = p.obj /\ Ahead(o)'
<1>2. ASSUME NEW u \in Uid, cache[u] # None
      PROVE  \E o \in Object : o = cache[u].obj /\ Ahead(o)'
  BY <1>0, <1>1, <1>2 DEF TypeOK, Entry
<1>3. ASSUME NEW p \in carried \cup view
      PROVE  \E o \in Object : o = p.obj /\ Ahead(o)'
  <2>1. p.obj \in Object /\ Ahead(p.obj)
    BY <1>0 DEF InOrder, Posted
  <2>. QED
    BY <1>1, <2>1
<1>4. Kept
  <2>1. CASE InformerNext \/ LoseWatch \/ UNCHANGED vars \/ InformerEnds
    <3>1. UNCHANGED cache
      BY <1>0, <2>1, InformerEnqueues DEF LoseWatch, vars, InformerEnds, ServerVars
    <3>. QED
      BY <1>2, <3>1
  <2>2. ASSUME NEW n \in Name, Handle(n) PROVE Kept
    <3> DEFINE note == pending[n][1]
    <3>1. note \in Note /\ Dispatch(note) /\ OrderedAt(n)
      BY <1>0, <2>2, HandleParts DEF InOrder
    <3>2. ASSUME NEW u \in Uid, cache'[u] # None
          PROVE  \E o \in Object : o = cache'[u].obj /\ Ahead(o)'
      <4>1. CASE cache'[u] = cache[u]
        BY <1>2, <3>2, <4>1
      <4>2. CASE note.new \in Object /\ cache'[u] = NewEntry(note.new, FALSE)
        BY <1>0, <2>2, <3>1, <4>2, HandledAhead DEF NewEntry
      <4>3. CASE /\ note.old \in Object /\ note.new = None
                 /\ cache'[u] = NewEntry(note.old, TRUE)
        BY <1>0, <2>2, <3>1, <4>3, HandledAhead DEF NewEntry
      <4>4. \/ cache'[u] = cache[u]
            \/ note.new \in Object /\ cache'[u] = NewEntry(note.new, FALSE)
            \/ /\ note.old \in Object /\ note.new = None
               /\ cache'[u] = NewEntry(note.old, TRUE)
        BY <1>0, <3>1, DispatchEffect DEF TypeOK
      <4>. QED
        BY <4>1, <4>2, <4>3, <4>4
    <3>. QED
      BY <3>2
  <2>3. CASE Fetch \/ Janitor \/ Tick
    BY <1>0, <1>2, <2>3, AgeKeepsItems DEF KeepItems
  <2>4. CASE Start
    BY <2>4 DEF Start
  <2>. QED
    BY <2>1, <2>2, <2>3, <2>4, CacheStep DEF Next, SteadyNext, InformerNext
<1>5. Shown
  <2>1. ASSUME carried' \subseteq carried, view' \subseteq carried \cup view PROVE Shown
    BY <1>3, <2>1
  <2>2. CASE Gather
    <3>1. view' = view
      BY <2>2 DEF Gather, backend
    <3>2. ASSUME NEW p \in carried'
          PROVE  \E o \in Object : o = p.obj /\ Ahead(o)'
      <4>1. PICK u \in Uid : cache[u] # None /\ p.obj = cache[u].obj
        BY <2>2, <3>2 DEF Gather, Upload, Items, Visible
      <4>. QED
        BY <1>2, <4>1
    <3>. QED
      BY <1>3, <3>1, <3>2
  <2>3. CASE PostSucceeds
    BY <2>1, <2>3 DEF PostSucceeds, Deliver
  <2>4. CASE PostFails
    BY <2>1, <2>4 DEF PostFails, Deliver, backend
  <2>5. CASE \/ ServerStep \/ InformerActs \/ BreakWatch \/ DropExpired \/ Proceed
             \/ FailToBoot \/ Elapse \/ Restart \/ Crash
    BY <2>1, <2>5 DEF ServerStep, InformerActs, List, ResyncStore, HandleNote,
         BreakWatch, DropExpired, Proceed, FailToBoot, Elapse, Restart, Crash, Start,
         backend
  <2>6. ASSUME NEW x, RoutineReturns(x) \/ RoutineFails(x) PROVE Shown
    BY <2>1, <2>6 DEF RoutineReturns, RoutineFails, EndsRoutine, backend
  <2>. QED
    BY <2>2, <2>3, <2>4, <2>5, <2>6 DEF SysNext, AgentActs
<1>6. \A u \in Uid : (cache[u] # None => Ahead(cache[u].obj))'
  BY <1>4
<1>7. \A p \in carried' \cup view' : Ahead(p.obj)'
  BY <1>5
<1>. QED
  BY <1>1, <1>6, <1>7 DEF InOrder

-----------------------------------------------------------------------------
(* Until a watch has broken, what is uploaded goes forwards. *)

\* No item of o's object is an earlier version of it.
CacheAhead(o) ==
    \A u \in Uid : (cache[u] # None /\ cache[u].obj.uid = o.uid)
                     => o.ver <= cache[u].obj.ver

Forwards ==
    /\ \A p \in carried \cup view : CacheAhead(p.obj)
    /\ \A q \in view, p \in carried :
         q.obj.uid = p.obj.uid => q.obj.ver <= p.obj.ver
    /\ \A q \in carried, p \in carried : q.obj.uid = p.obj.uid => q = p

LEMMA CacheAheadStep ==
  ASSUME SysIInv, SysNext, NEW o \in Object, Ahead(o), CacheAhead(o)
  PROVE  CacheAhead(o)'
<1>0. TypeOK /\ IInv /\ o.ver \in Nat
  BY DEF SysIInv, IInv, TInv, Object
<1>1. CASE InformerNext \/ LoseWatch \/ UNCHANGED vars \/ InformerEnds
  <2>1. UNCHANGED cache
    BY <1>0, <1>1, InformerEnqueues DEF LoseWatch, vars, InformerEnds, ServerVars
  <2>. QED
    BY <2>1 DEF CacheAhead
<1>2. ASSUME NEW n \in Name, Handle(n) PROVE CacheAhead(o)'
  <2> DEFINE note == pending[n][1]
  <2>1. /\ note \in Note /\ Dispatch(note) /\ pending[n] # << >>
        /\ 1 \in 1..Len(pending[n]) /\ Handled(n) = note.old
        /\ At(note.new, n) /\ At(note.old, n)
    BY <1>0, <1>2, HandleParts, HandleAt DEF IInv, PlacedAt, Handled
  <2>2. NotBelow(note.new, o) /\ NotBelow(note.old, o)
    BY <2>1 DEF Ahead, NotBelow, Has, At
  <2>3. ASSUME NEW u \in Uid, cache'[u] # None, cache'[u].obj.uid = o.uid
        PROVE  o.ver <= cache'[u].obj.ver
    <3>1. CASE cache'[u] = cache[u]
      BY <2>3, <3>1 DEF CacheAhead
    <3>2. CASE note.new \in Object /\ cache'[u] = NewEntry(note.new, FALSE)
      BY <2>2, <2>3, <3>2 DEF NewEntry, NotBelow, Has
    <3>3. CASE note.old \in Object /\ cache'[u] = NewEntry(note.old, TRUE)
      BY <2>2, <2>3, <3>3 DEF NewEntry, NotBelow, Has
    <3>4. \/ cache'[u] = cache[u]
          \/ note.new \in Object /\ cache'[u] = NewEntry(note.new, FALSE)
          \/ note.old \in Object /\ cache'[u] = NewEntry(note.old, TRUE)
      BY <1>0, <2>1, DispatchEffect DEF TypeOK
    <3>. QED
      BY <3>1, <3>2, <3>3, <3>4
  <2>. QED
    BY <2>3 DEF CacheAhead
<1>3. CASE Fetch \/ Janitor \/ Tick
  <2>1. KeepItems
    BY <1>0, <1>3, AgeKeepsItems
  <2>. QED
    BY <2>1 DEF CacheAhead, KeepItems
<1>4. CASE Start
  BY <1>4 DEF Start, CacheAhead
<1>. QED
  BY <1>1, <1>2, <1>3, <1>4, CacheStep DEF Next, SteadyNext, InformerNext

LEMMA ForwardsStep ==
  ASSUME SysIInv, Unbroken, InOrder, Forwards, SysNext
  PROVE  Forwards'
<1>0. /\ TypeOK /\ IInv
      /\ carried \subseteq Posted /\ view \subseteq Posted
  BY DEF SysIInv, IInv, TInv, OwnTypes
<1>1. ASSUME NEW p \in carried \cup view PROVE CacheAhead(p.obj)'
  <2>1. p.obj \in Object /\ Ahead(p.obj) /\ CacheAhead(p.obj)
    BY <1>0 DEF InOrder, Forwards, Posted
  <2>. QED
    BY <2>1, CacheAheadStep
<1>2. \A p \in carried : p.obj.ver <= p.obj.ver
  BY <1>0 DEF Posted, Object
<1>3. ASSUME view' = view \/ view' = carried, carried' = carried \/ carried' = {}
      PROVE  Forwards'
  <2>1. \A p \in carried' \cup view' : CacheAhead(p.obj)'
    BY <1>1, <1>3
  <2>2. \A q \in view', p \in carried' :
          q.obj.uid = p.obj.uid => q.obj.ver <= p.obj.ver
    BY <1>2, <1>3 DEF Forwards
  <2>3. \A q \in carried', p \in carried' : q.obj.uid = p.obj.uid => q = p
    BY <1>3 DEF Forwards
  <2>. QED
    BY <2>1, <2>2, <2>3 DEF Forwards
<1>4. CASE Gather
  <2>1. carried' = Upload(Items) /\ view' = view /\ cache' = WithoutExpired
    BY <1>4 DEF Gather, backend, Fetch
  <2>2. ASSUME NEW p \in carried'
        PROVE  /\ p.obj.uid \in Uid /\ cache[p.obj.uid] # None
               /\ p = [obj |-> cache[p.obj.uid].obj,
                       deleted |-> cache[p.obj.uid].deleted]
    <3>1. PICK v \in Uid : /\ Visible(v)
                          /\ p = [obj |-> cache[v].obj, deleted |-> cache[v].deleted]
      BY <2>1, <2>2 DEF Upload, Items
    <3>2. cache[v].obj.uid = v /\ cache[v] # None
      BY <3>1 DEF Visible, Unbroken, OwnKeyAt
    <3>. QED
      BY <3>1, <3>2
  <2>3. ASSUME NEW p \in carried' PROVE CacheAhead(p.obj)'
    <3>1. ASSUME NEW u \in Uid, cache'[u] # None, cache'[u].obj.uid = p.obj.uid
          PROVE  p.obj.ver <= cache'[u].obj.ver
      <4>1. cache'[u] = cache[u] /\ cache[u].obj.uid = u /\ u = p.obj.uid
        BY <2>1, <3>1 DEF WithoutExpired, Unbroken, OwnKeyAt
      <4>2. cache'[u].obj = p.obj
        BY <2>2, <4>1
      <4>3. cache[u].obj \in Object
        BY <1>0, <3>1, <4>1 DEF TypeOK, Entry
      <4>. QED
        BY <4>1, <4>2, <4>3 DEF Object
    <3>. QED
      BY <3>1 DEF CacheAhead
  <2>4. ASSUME NEW q \in view', NEW p \in carried', q.obj.uid = p.obj.uid
        PROVE  q.obj.ver <= p.obj.ver
    <3>1. CacheAhead(q.obj)
      BY <2>1 DEF Forwards
    <3>. QED
      BY <2>2, <2>4, <3>1 DEF CacheAhead
  <2>5. \A q \in carried', p \in carried' : q.obj.uid = p.obj.uid => q = p
    BY <2>2
  <2>6. \A p \in carried' \cup view' : CacheAhead(p.obj)'
    BY <1>1, <2>1, <2>3
  <2>. QED
    BY <2>4, <2>5, <2>6 DEF Forwards
<1>5. CASE PostSucceeds \/ PostFails
  BY <1>3, <1>5 DEF PostSucceeds, PostFails, Deliver, backend
<1>6. CASE \/ ServerStep \/ InformerActs \/ BreakWatch \/ DropExpired \/ Proceed
           \/ FailToBoot \/ Elapse \/ Restart \/ Crash
  BY <1>3, <1>6 DEF ServerStep, InformerActs, List, ResyncStore, HandleNote, BreakWatch,
       DropExpired, Proceed, FailToBoot, Elapse, Restart, Crash, Start, backend
<1>7. ASSUME NEW x, RoutineReturns(x) \/ RoutineFails(x) PROVE Forwards'
  BY <1>3, <1>7 DEF RoutineReturns, RoutineFails, EndsRoutine, backend
<1>. QED
  BY <1>4, <1>5, <1>6, <1>7 DEF SysNext, AgentActs

-----------------------------------------------------------------------------
(* Nothing lasting is missing. *)

\* Under a working watch a name without pending notifications is cached, and an
\* object that lasts is all that is notified of its name.
CaughtUpAt(n) == (watching /\ pending[n] = << >>) => CachedAt(n)

LastsAt(n, o) ==
    /\ watching /\ server[n] = o /\ Handled(n) = o
    /\ \A i \in 1..Len(pending[n]) : pending[n][i].new = o
    /\ CachedAt(n)

Settled ==
    /\ \A n \in Name : CaughtUpAt(n)
    /\ \A o \in settled : LastsAt(NameOf[o.uid], o)

\* While the informer watches, its resyncs keep items from expiring.
LEMMA WatchedCached ==
  ASSUME IInv, [Next]_vars, watching, NEW n \in Name, CachedAt(n)
  PROVE  CachedAt(n)'
<1>1. Tick => sinceResync' <= Expiry
  BY DEF Tick, IInv, TInv, TypeOK, ResyncsInTime
<1>. QED
  BY <1>1, StepCached

LEMMA CaughtUpStep ==
  ASSUME SysIInv, SysIInv', Settled, SysNext, NEW n \in Name
  PROVE  CaughtUpAt(n)'
<1>0. /\ IInv /\ IInv' /\ CaughtUpAt(n) /\ pending[n] \in Seq(Note)
  BY DEF SysIInv, IInv, TInv, TypeOK, Settled
<1>1. CASE Start
  BY <1>1 DEF Start, CaughtUpAt
<1>2. CASE InformerEnds
  BY <1>0, <1>2 DEF InformerEnds, ServerVars, CaughtUpAt, CachedAt, LiveAt, Handled
<1>3. CASE LoseWatch
  BY <1>3 DEF LoseWatch, CaughtUpAt
<1>4. CASE Relist
  <2>1. CASE store[n] = None /\ server[n] = None
    <3>1. store'[n] = None /\ pending'[n] = pending[n]
      BY <2>1, <1>4 DEF Relist, NotifyAll
    <3>2. pending'[n] = << >> => Handled(n)' = None
      BY <3>1 DEF Handled
    <3>. QED
      BY <3>2 DEF CaughtUpAt, CachedAt
  <2>2. CASE ~(store[n] = None /\ server[n] = None)
    <3> DEFINE m == [old |-> store[n], new |-> server[n], relisted |-> TRUE]
    <3>1. pending'[n] = Append(pending[n], m)
      BY <2>2, <1>4 DEF Relist, NotifyAll
    <3>2. m \in Note
      BY <1>0, <2>2 DEF Note, IInv, TInv, TypeOK
    <3>3. Append(pending[n], m) # << >>
      BY <1>0, <3>2, AppendedNotEmpty
    <3>. QED
      BY <3>1, <3>3 DEF CaughtUpAt
  <2>. QED
    BY <2>1, <2>2
<1>5. CASE Handle(n)
  BY <1>0, <1>5, HandleCaches DEF CaughtUpAt
<1>6. ASSUME [Next]_vars, ~Relist, ~LoseWatch, ~Handle(n) PROVE CaughtUpAt(n)'
  <2>1. ASSUME watching', pending'[n] = << >> PROVE watching /\ pending[n] = << >>
    <3>1. CASE InformerNext
      <4>1. watching' = watching
        <5>1. ASSUME NEW k, NEW o, Change(k, o) PROVE watching' = watching
          BY <5>1 DEF Change
        <5>. QED
          BY <1>6, <3>1, <5>1 DEF InformerNext, Create, Modify, Remove, Resync
      <4>2. \A m \in Note : Append(pending[n], m) # << >>
        BY <1>0, AppendedNotEmpty
      <4>3. pending[n] = << >>
        BY <1>0, <2>1, <3>1, <4>2, InformerEnqueues DEF Enqueues
      <4>. QED
        BY <2>1, <4>1, <4>3
    <3>2. ASSUME NEW m \in Name, Handle(m) PROVE watching' = watching /\ pending'[n] = pending[n]
      BY <1>0, <1>6, <3>2, HandleParts
    <3>3. CASE Fetch \/ Janitor \/ Tick \/ UNCHANGED vars
      BY <2>1, <3>3 DEF Fetch, Janitor, Tick, informerVars, vars
    <3>. QED
      BY <1>6, <2>1, <3>1, <3>2, <3>3 DEF Next, SteadyNext, InformerNext
  <2>2. ASSUME watching', pending'[n] = << >> PROVE CachedAt(n)'
    <3>1. watching /\ CachedAt(n)
      BY <1>0, <2>1, <2>2 DEF CaughtUpAt
    <3>. QED
      BY <1>0, <1>6, <3>1, WatchedCached
  <2>. QED
    BY <2>2 DEF CaughtUpAt
<1>. QED
  BY <1>1, <1>2, <1>3, <1>4, <1>5, <1>6, CacheStep

LEMMA LastsStep ==
  ASSUME SysIInv, SysIInv', Settled, SysNext,
         NEW o \in Object, o \in settled', NEW n \in Name, NameOf[o.uid] = n
  PROVE  LastsAt(n, o)'
<1>0. IInv /\ IInv' /\ TypeOK /\ pending[n] \in Seq(Note) /\ o # None
  BY DEF SysIInv, IInv, TInv, TypeOK
<1>1. ASSUME o \in settled PROVE LastsAt(n, o)
  BY <1>1 DEF Settled
<1>2. ASSUME UNCHANGED <<server, watching, store, pending>>, [Next]_vars, o \in settled
      PROVE  LastsAt(n, o)'
  <2>1. CachedAt(n)'
    BY <1>0, <1>1, <1>2, WatchedCached DEF LastsAt
  <2>. QED
    BY <1>1, <1>2, <2>1 DEF LastsAt, Handled
<1>3. CASE ServerStep \/ List \/ ResyncStore
  <2>1. o \in settled /\ InformerNext
    BY <1>3, InformerActions DEF ServerStep, List, ResyncStore, history
  <2>2. LastsAt(n, o) /\ watching
    BY <1>1, <2>1 DEF LastsAt
  <2>3. server'[n] = o
    <3>1. CASE ServerStep
      <4>1. PICK k \in Name : server'[k] = o
        BY <1>3, <3>1 DEF ServerStep, OnServer
      <4>2. NameOf[o.uid] = k
        BY <1>0, <4>1 DEF IInv, PlacedAt, At
      <4>. QED
        BY <4>1, <4>2
    <3>2. CASE List \/ ResyncStore
      BY <2>2, <3>2 DEF List, Relist, ResyncStore, Resync, LastsAt
    <3>. QED
      BY <1>3, <3>1, <3>2
  <2>4. watching'
    <3>1. ASSUME NEW k, NEW x, Change(k, x) PROVE watching' = watching
      BY <3>1 DEF Change
    <3>2. Resync => watching' = watching
      BY DEF Resync
    <3>3. Relist => watching' = TRUE
      BY DEF Relist
    <3>. QED
      BY <2>1, <2>2, <3>1, <3>2, <3>3 DEF InformerNext, Create, Modify, Remove
  <2>5. \A i \in 1..Len(pending'[n]) : pending'[n][i].new = o
    BY <1>0, <2>1, <2>2, <2>3, AddedIsHeld DEF LastsAt
  <2>6. Handled(n)' = o
    BY <1>0, <2>1, <2>2, InformerEnqueues, EnqueueKeepsHandled DEF LastsAt
  <2>7. CachedAt(n)'
    <3>1. [Next]_vars
      BY <2>1 DEF InformerNext, Next, SteadyNext
    <3>. QED
      BY <1>0, <2>2, <3>1, WatchedCached DEF LastsAt
  <2>. QED
    BY <2>3, <2>4, <2>5, <2>6, <2>7 DEF LastsAt
<1>4. ASSUME NEW k \in Name, HandleNote(k) PROVE LastsAt(n, o)'
  <2>1. Handle(k) /\ o \in settled
    BY <1>4 DEF HandleNote, history
  <2>2. LastsAt(n, o) /\ UNCHANGED <<server, watching>>
    BY <1>0, <1>1, <2>1, HandleParts
  <2>3. Handled(n)' = o /\ \A i \in 1..Len(pending'[n]) : pending'[n][i].new = o
    <3>1. CASE k = n
      <4>1. /\ Handled(n)' = pending[n][1].new /\ 1 \in 1..Len(pending[n])
            /\ \A i \in 1..Len(pending'[n]) : /\ i + 1 \in 1..Len(pending[n])
                                             /\ pending'[n][i] = pending[n][i + 1]
        BY <1>0, <2>1, <3>1, HandleAt
      <4>. QED
        BY <2>2, <4>1 DEF LastsAt
    <3>2. CASE k # n
      BY <1>0, <2>1, <2>2, <3>2, HandleAt DEF LastsAt
    <3>. QED
      BY <3>1, <3>2
  <2>4. CachedAt(n)'
    BY <1>0, <2>1, <2>2, HandleKeepsCached DEF LastsAt
  <2>. QED
    BY <2>2, <2>3, <2>4 DEF LastsAt
<1>5. CASE BreakWatch \/ Start
  BY <1>5 DEF BreakWatch, Start
<1>6. CASE DropExpired \/ Gather
  <2>1. UNCHANGED <<server, watching, store, pending, settled>>
    BY <1>6 DEF DropExpired, Janitor, Gather, Fetch, informerVars, history
  <2>2. [Next]_vars
    BY <1>6 DEF DropExpired, Gather, Next, SteadyNext
  <2>. QED
    BY <1>2, <2>1, <2>2
<1>7. CASE Proceed \/ PostSucceeds \/ PostFails \/ FailToBoot
  <2>1. UNCHANGED <<vars, settled>>
    BY <1>7 DEF Proceed, PostSucceeds, PostFails, FailToBoot, history
  <2>2. UNCHANGED <<server, watching, store, pending>>
    BY <2>1 DEF vars
  <2>. QED
    BY <1>2, <2>1, <2>2
<1>8. ASSUME NEW x, RoutineReturns(x) \/ RoutineFails(x) PROVE LastsAt(n, o)'
  <2>1. /\ o \in settled /\ x # Dynamic /\ watching' = (watching /\ x # Dynamic)
        /\ UNCHANGED <<server, store, pending, cache, sinceResync>>
    BY <1>8 DEF RoutineReturns, RoutineFails, EndsRoutine
  <2>. QED
    BY <1>1, <2>1 DEF LastsAt, Handled, CachedAt, LiveAt
<1>9. CASE Elapse
  <2>1. watching /\ o \in OnServer /\ Tick
    BY <1>9 DEF Elapse
  <2>2. PICK k \in Name : server[k] = o
    BY <2>1 DEF OnServer
  <2>3. k = n
    BY <1>0, <2>2 DEF IInv, PlacedAt, At
  <2>4. /\ pending[n] = << >> /\ UNCHANGED <<server, watching, store, pending>>
        /\ store[n] = o
    BY <1>0, <2>1, <2>2, <2>3 DEF Tick, IInv, TInv, WatchedStore
  <2>5. CachedAt(n)'
    <3>1. CachedAt(n) /\ [Next]_vars
      BY <2>1, <2>4 DEF Settled, CaughtUpAt, Next, SteadyNext
    <3>. QED
      BY <1>0, <2>1, <3>1, WatchedCached
  <2>. QED
    BY <2>1, <2>2, <2>3, <2>4, <2>5 DEF LastsAt, Handled
<1>. QED
  BY <1>3, <1>4, <1>5, <1>6, <1>7, <1>8, <1>9
     DEF SysNext, InformerActs, AgentActs, Restart, Crash

LEMMA SettledStep ==
  ASSUME SysIInv, SysIInv', Settled, [SysNext]_sysVars
  PROVE  Settled'
<1>1. CASE SysNext
  <2>1. \A n \in Name : CaughtUpAt(n)'
    BY <1>1, CaughtUpStep
  <2>2. ASSUME NEW o \in settled' PROVE LastsAt(NameOf[o.uid], o)'
    <3>1. o \in Object /\ NameOf[o.uid] \in Name
      BY DEF SysIInv, OwnTypes, Object
    <3>. QED
      BY <1>1, <3>1, LastsStep
  <2>. QED
    BY <2>1, <2>2 DEF Settled
<1>2. CASE UNCHANGED sysVars
  <2>1. UNCHANGED <<server, watching, store, pending, cache, sinceResync, settled>>
    BY <1>2 DEF sysVars, vars, history
  <2>. QED
    BY <2>1 DEF Settled, CaughtUpAt, LastsAt, CachedAt, LiveAt, Handled
<1>. QED
  BY <1>1, <1>2

\* So a Fetch returns what lasts.
LEMMA LastingFetched ==
  ASSUME SysIInv, Settled, NEW o \in settled, NameOf[o.uid] \in Included
  PROVE  [obj |-> o, deleted |-> FALSE] \in Upload(Items)
<1>0. TypeOK /\ o # None
  BY DEF SysIInv, IInv, TInv, OwnTypes
<1>1. NameOf[o.uid] \in Name /\ LastsAt(NameOf[o.uid], o)
  BY DEF Settled, SysIInv, OwnTypes, Object
<1>2. PICK u \in Uid : LiveAt(NameOf[o.uid], u)
  BY <1>0, <1>1 DEF LastsAt, CachedAt
<1>3. /\ cache[u] # None /\ cache[u].obj = o /\ ~cache[u].deleted
      /\ cache[u].age <= Expiry /\ cache[u] \in Entry
  BY <1>0, <1>1, <1>2 DEF LastsAt, LiveAt, TypeOK
<1>4. cache[u] \in Items /\ cache[u].deleted = FALSE
  BY <1>3 DEF Items, Visible, Entry
<1>. QED
  BY <1>3, <1>4 DEF Upload

-----------------------------------------------------------------------------
(* The mirror. *)

MirrorInv ==
    /\ Fresh /\ Final /\ InOrder /\ Settled
    /\ outages = 0 => Forwards

LEMMA MirrorInvInit == SysInit => MirrorInv
<1> SUFFICES ASSUME SysInit PROVE MirrorInv
  OBVIOUS
<1>1. /\ \A n \in Name : server[n] = None /\ store[n] = None /\ pending[n] = << >>
      /\ \A u \in Uid : cache[u] = None
      /\ carried = {} /\ view = {} /\ told = {} /\ OnServer = {}
      /\ settled = {} /\ watching = FALSE
  BY DEF SysInit, OnServer
<1>2. Fresh
  BY <1>1 DEF Fresh, NotedFresh, CachedFresh
<1>3. Final
  BY <1>1 DEF Final, MarkedOwn, Marked, Carries
<1>4. InOrder
  BY <1>1 DEF InOrder, OrderedAt
<1>5. Settled
  BY <1>1 DEF Settled, CaughtUpAt
<1>6. Forwards
  BY <1>1 DEF Forwards
<1>. QED
  BY <1>2, <1>3, <1>4, <1>5, <1>6 DEF MirrorInv

LEMMA MirrorInvStep ==
  ASSUME SysIInv, SysIInv', Quiet, MirrorInv, [SysNext]_sysVars
  PROVE  MirrorInv'
<1>1. Fresh' /\ Settled'
  BY FreshStep, SettledStep DEF MirrorInv
<1>2. CASE SysNext
  <2>1. Final' /\ InOrder'
    BY <1>2, FinalStep, InOrderStep DEF MirrorInv
  <2>2. outages' = 0 => Forwards'
    BY <1>2, OutagesStay, ForwardsStep DEF MirrorInv, Quiet
  <2>. QED
    BY <1>1, <2>1, <2>2 DEF MirrorInv
<1>3. CASE UNCHANGED sysVars
  <2>1. UNCHANGED <<server, born, outages, store, pending, cache, carried, view, told>>
    BY <1>3 DEF sysVars, vars, backend
  <2>2. Final'
    BY <2>1 DEF MirrorInv, Final, MarkedOwn, Marked, Carries, Departed, NowhereAt
  <2>3. InOrder'
    <3>1. \A n \in Name : OrderedAt(n)'
      BY <2>1 DEF MirrorInv, InOrder, OrderedAt, NotBelow, Has
    <3>2. \A o : Ahead(o) => Ahead(o)'
      BY <2>1 DEF Ahead, NotBelow, Has, Handled
    <3>. QED
      BY <2>1, <3>1, <3>2 DEF MirrorInv, InOrder
  <2>4. outages' = 0 => Forwards'
    BY <2>1 DEF MirrorInv, Forwards, CacheAhead
  <2>. QED
    BY <1>1, <2>2, <2>3, <2>4 DEF MirrorInv
<1>. QED
  BY <1>2, <1>3

LEMMA MirrorInvariance == SysSpec => [](SysIInv /\ Quiet /\ MirrorInv)
<1>1. SysIInv /\ SysIInv' /\ Quiet /\ MirrorInv /\ [SysNext]_sysVars => MirrorInv'
  BY MirrorInvStep
<1>. QED
  BY <1>1, MirrorInvInit, SysInvariance, QuietInvariance, PTL DEF SysSpec

\* An upload ends within 2 * BackoffMax of its gather.
LEMMA PostLag ==
  ASSUME SysIInv, main = "post"
  PROVE  sinceFetch <= 2 * BackoffMax
<1>1. sinceFetch = elapsed /\ elapsed <= BackoffMax + posting /\ posting <= BackoffMax
  BY DEF SysIInv, RunProofs!IInv, RunProofs!Elapsed
<1>2. elapsed \in Nat /\ posting \in Nat /\ BackoffMax \in Nat
  BY LoopAssumption DEF SysIInv, RunProofs!IInv, RunProofs!TypeOK, Run!TimeAssumption
<1>. QED
  BY <1>1, <1>2

\* What a gone object's uid is: nowhere on the server.
LEMMA DepartedNotHeld ==
  ASSUME IInv, NEW u \in Uid, Departed(u), NEW o \in OnServer
  PROVE  o.uid # u
<1>1. PICK n \in Name : server[n] = o /\ o # None
  BY DEF OnServer
<1>2. NameOf[o.uid] = n
  BY <1>1 DEF IInv, PlacedAt, At
<1>. QED
  BY <1>1, <1>2 DEF Departed, NowhereAt, Has

\* The cluster's and the informer's steps leave the reading.
LEMMA ServerChanges ==
  ASSUME SysIInv, SysIInv', MirrorInv', ServerStep
  PROVE  Mirror!Change
<1>1. UNCHANGED <<view, told, outages, main, carried, sinceFetch, watching>>
  BY DEF ServerStep, backend, process, Create, Modify, Remove, Change
<1>2. ASSUME NEW o \in OnServer', o.uid \in Mirror!Ended PROVE FALSE
  <2>0. o.uid \in told \/ \E p \in carried : p.obj.uid = o.uid /\ p.deleted
    BY <1>2 DEF Mirror!Ended, Mirror!Deleted, Drafts
  <2>1. o \in Object /\ o.uid \in Uid
    BY DEF OnServer, SysIInv, IInv, TInv, TypeOK, ObjectOrNone, Object
  <2>2. Departed(o.uid)'
    BY <1>1, <2>0, <2>1 DEF MirrorInv, Final, Carries
  <2>3. PICK n \in Name : server'[n] = o /\ o # None
    BY DEF OnServer
  <2>4. NameOf[o.uid] = n
    BY <2>3 DEF SysIInv, IInv, PlacedAt, At
  <2>. QED
    BY <2>2, <2>3, <2>4 DEF Departed, NowhereAt, Has
<1>3. OnServer' \in SUBSET {o \in Object : o.uid \notin Mirror!Ended}
  <2>1. OnServer' \subseteq Object
    BY DEF OnServer, SysIInv, IInv, TInv, TypeOK, ObjectOrNone
  <2>. QED
    BY <1>2, <2>1
<1>4. /\ gone' = [o \in Object |-> IF o \in OnServer' THEN 0 ELSE gone[o]]
      /\ settled' = settled \cap OnServer'
  BY DEF ServerStep
<1>5. UNCHANGED <<watching, Drafts, DraftAge, Mirror!shown, outages > 0>>
  BY <1>1 DEF Drafts, DraftAge, Mirror!shown
<1>. QED
  BY <1>3, <1>4, <1>5 DEF Mirror!Change

LEMMA WatchChanges ==
  ASSUME SysIInv, List \/ BreakWatch
  PROVE  Mirror!Watch \/ Mirror!Unwatch
<1>1. UNCHANGED <<server, gone, view, told, main, carried, sinceFetch>>
  BY DEF List, Relist, BreakWatch, LoseWatch, backend, process, history
<1>2. UNCHANGED <<OnServer, gone, Drafts, DraftAge, Mirror!shown>>
  BY <1>1 DEF OnServer, Drafts, DraftAge, Mirror!shown
<1>3. CASE List
  <2>1. watching' = TRUE /\ UNCHANGED <<settled, outages>>
    BY <1>3 DEF List, Relist, history
  <2>2. UNCHANGED <<outages > 0>>
    BY <2>1
  <2>. QED
    BY <1>2, <2>1, <2>2 DEF Mirror!Watch
<1>4. CASE BreakWatch
  <2>1. watching' = FALSE /\ settled' = {} /\ outages' = outages + 1 /\ outages \in Nat
    BY <1>4 DEF BreakWatch, LoseWatch, SysIInv, IInv, TInv, TypeOK
  <2>2. (outages > 0)' = TRUE
    BY <2>1
  <2>. QED
    BY <1>2, <2>1, <2>2 DEF Mirror!Unwatch, Mirror!EndWatch
<1>. QED
  BY <1>3, <1>4

\* A gather reads.
LEMMA GatherReads ==
  ASSUME SysIInv, MirrorInv, MirrorInv', Quiet', SysIInv', Gather
  PROVE  Mirror!Read \/ UNCHANGED Mirror!vars
<1> DEFINE W == {o \in Object : NameOf[o.uid] \in Included}
<1>0. /\ main = "gather" /\ main' \in {"post", "stopping"}
      /\ carried' = Upload(Items) /\ sinceFetch' = 0
      /\ UNCHANGED <<server, watching, outages, gone, settled, view, told>>
  BY DEF Gather, Fetch, informerVars, history, backend, Run!Gather, Run!Return,
         Run!BeginRetry
<1>1. UNCHANGED <<OnServer, outages > 0, Mirror!cluster, Mirror!shown>>
  BY <1>0 DEF OnServer, Mirror!cluster, Mirror!shown
<1>2. CASE main' = "stopping"
  <2>1. Drafts = {} /\ Drafts' = {} /\ DraftAge = 0 /\ DraftAge' = 0
    BY <1>0, <1>2 DEF Drafts, DraftAge
  <2>. QED
    BY <1>0, <1>1, <2>1 DEF Mirror!vars
<1>3. CASE main' = "post"
  <2>1. Drafts' = {carried'} /\ DraftAge' = 0
    BY <1>0, <1>3 DEF Drafts, DraftAge
  <2>2. carried' \subseteq Mirror!Item
    <3>1. ASSUME NEW p \in carried' PROVE p \in Mirror!Item
      <4>1. PICK i \in Items : p = [obj |-> i.obj, deleted |-> i.deleted]
        BY <1>0, <3>1 DEF Upload
      <4>2. i \in Entry /\ NameOf[i.obj.uid] \in Included
        BY <4>1 DEF Items, Visible, SysIInv, IInv, TInv, TypeOK
      <4>. QED
        BY <4>1, <4>2 DEF Mirror!Item, Entry
    <3>. QED
      BY <3>1
  <2>3. ASSUME NEW p \in carried' PROVE Mirror!True(p)
    <3>1. CASE p.deleted
      <4>1. p.obj.uid \in Uid /\ Carries(p.obj.uid)'
        BY <2>3, <3>1 DEF Carries, SysIInv, OwnTypes, Posted, Object
      <4>2. Departed(p.obj.uid)'
        BY <4>1 DEF MirrorInv, Final
      <4>3. \A o \in OnServer : o.uid # p.obj.uid
        <5> SUFFICES ASSUME NEW o \in OnServer, o.uid = p.obj.uid PROVE FALSE
          OBVIOUS
        <5>1. PICK n \in Name : server[n] = o /\ server'[n] = o /\ o # None
          BY <1>0 DEF OnServer
        <5>2. NameOf[o.uid] = n
          BY <5>1 DEF SysIInv, IInv, PlacedAt, At
        <5>. QED
          BY <4>2, <5>1, <5>2 DEF Departed, NowhereAt, Has
      <4>. QED
        BY <3>1, <4>3 DEF Mirror!True
    <3>2. CASE ~p.deleted
      BY <1>0, <2>3, <3>2, FetchedFresh DEF MirrorInv, Mirror!True
    <3>. QED
      BY <3>1, <3>2
  <2>4. ASSUME NEW p \in carried', ~(outages > 0), ~p.deleted
        PROVE  Mirror!Forward(p, carried')
    <3>1. outages' = 0
      BY <1>0, <2>4 DEF SysIInv, IInv, TInv, TypeOK
    <3>2. Consistent' /\ Forwards'
      BY <3>1 DEF Quiet, MirrorInv
    <3>. QED
      BY <1>0, <2>4, <3>2 DEF Consistent, Forwards, Mirror!Forward
  <2>5. \A o \in settled \cap W : [obj |-> o, deleted |-> FALSE] \in carried'
    BY <1>0, LastingFetched DEF MirrorInv
  <2>. QED
    BY <1>1, <2>1, <2>2, <2>3, <2>4, <2>5 DEF Mirror!Read
<1>. QED
  BY <1>0, <1>2, <1>3

\* An upload that arrives shows.
LEMMA PostShows ==
  ASSUME SysIInv, PostSucceeds \/ PostFails
  PROVE  Mirror!Show \/ Mirror!Drop \/ UNCHANGED Mirror!vars
<1>1. /\ main = "post" /\ UNCHANGED <<vars, history>>
      /\ main' \in {"sleep", "stopping", "retry"}
      /\ main' = "retry" => carried' = carried
      /\ Deliver \/ UNCHANGED <<view, told>>
  BY DEF PostSucceeds, PostFails, Run!PostSucceeds, Run!PostFails, Run!Return,
         Run!GiveUp, backend
<1>2. /\ UNCHANGED <<OnServer, outages > 0, Mirror!cluster>>
  BY <1>1 DEF vars, history, OnServer, Mirror!cluster
<1>3. Drafts = {carried} /\ DraftAge = sinceFetch
  BY <1>1 DEF Drafts, DraftAge
<1>4. \/ UNCHANGED <<Drafts, DraftAge>>
      \/ Drafts' = {} /\ DraftAge' = 0
  BY <1>1, <1>3 DEF Drafts, DraftAge, vars
<1>5. CASE Deliver
  <2>1. view' = carried /\ told' = told \cup Mirror!Deleted(carried)
    BY <1>5 DEF Deliver, Mirror!Deleted
  <2>2. DraftAge <= 2 * BackoffMax
    BY <1>1, <1>3, PostLag
  <2>. QED
    BY <1>2, <1>3, <1>4, <2>1, <2>2 DEF Mirror!Show
<1>6. CASE UNCHANGED <<view, told>>
  BY <1>2, <1>4, <1>6 DEF Mirror!Drop, Mirror!vars, Mirror!shown, Mirror!cluster
<1>. QED
  BY <1>1, <1>5, <1>6

\* The steps that neither read nor show: a reading may be dropped.
LEMMA OthersStutter ==
  ASSUME UNCHANGED <<server, gone, watching, settled, view, told, outages>>,
         \/ UNCHANGED <<carried, sinceFetch>>
         \/ main' \notin {"post", "retry"},
         main' \in {"post", "retry"} => main \in {"post", "retry"}
  PROVE  Mirror!Drop \/ UNCHANGED Mirror!vars
<1>1. UNCHANGED <<OnServer, outages > 0, Mirror!cluster, Mirror!shown>>
  BY DEF OnServer, Mirror!cluster, Mirror!shown
<1>2. \/ UNCHANGED <<Drafts, DraftAge>>
      \/ Drafts' = {} /\ DraftAge' = 0
  BY DEF Drafts, DraftAge
<1>. QED
  BY <1>1, <1>2 DEF Mirror!Drop, Mirror!vars, Mirror!shown, Mirror!cluster

LEMMA MirrorStep ==
  ASSUME SysIInv, SysIInv', Quiet', MirrorInv, MirrorInv', [SysNext]_sysVars
  PROVE  [Mirror!Next]_Mirror!vars
<1> USE DEF Mirror!Next
<1>1. CASE ServerStep \/ List \/ BreakWatch
  BY <1>1, ServerChanges, WatchChanges
<1>2. CASE Gather
  BY <1>2, GatherReads
<1>3. CASE PostSucceeds \/ PostFails
  BY <1>3, PostShows
<1>4. CASE ResyncStore \/ DropExpired \/ \E n \in Name : HandleNote(n)
  <2>1. UNCHANGED <<server, gone, settled, view, told, outages, main, carried, sinceFetch>>
    BY <1>4 DEF ResyncStore, HandleNote, Resync, Handle, DropExpired, Janitor,
         informerVars, backend, history, process
  <2>2. UNCHANGED watching
    BY <1>4 DEF ResyncStore, HandleNote, Resync, Handle, DropExpired, Janitor,
         informerVars
  <2>. QED
    BY <2>1, <2>2, OthersStutter
<1>5. CASE Proceed \/ FailToBoot
  <2>1. UNCHANGED <<server, gone, watching, settled, view, told, outages, carried, sinceFetch>>
    BY <1>5 DEF Proceed, FailToBoot, vars, backend, history
  <2>2. main' \in {"post", "retry"} => main \in {"post", "retry"}
    BY <1>5 DEF Proceed, Run!StartServers, Run!StartGatherer, Run!CachesAwaited,
         Run!RetryPost, Run!RetryCancelled, Run!GiveUp, Run!Return, Run!SleepOver,
         Run!SleepCancelled, Run!Exit, FailToBoot, Run!BootFails
  <2>. QED
    BY <2>1, <2>2, OthersStutter
<1>6. ASSUME NEW x, RoutineReturns(x) \/ RoutineFails(x) PROVE [Mirror!Next]_Mirror!vars
  <2>1. /\ UNCHANGED <<server, gone, view, told, outages, main, carried, sinceFetch>>
        /\ watching' = (watching /\ x # Dynamic)
        /\ settled' = IF x = Dynamic THEN {} ELSE settled
    BY <1>6 DEF RoutineReturns, RoutineFails, EndsRoutine, backend, Run!RoutineReturns,
         Run!RoutineFails
  <2>2. CASE x = Dynamic
    <3>1. UNCHANGED <<OnServer, gone, outages > 0, Drafts, DraftAge, Mirror!shown>>
      BY <2>1 DEF OnServer, Drafts, DraftAge, Mirror!shown
    <3>2. watching' = FALSE /\ settled' = {}
      BY <2>1, <2>2
    <3>. QED
      BY <3>1, <3>2 DEF Mirror!Unwatch, Mirror!EndWatch
  <2>3. CASE x # Dynamic
    <3>1. UNCHANGED <<watching, settled>>
      BY <2>1, <2>3 DEF SysIInv, IInv, TInv, TypeOK
    <3>. QED
      BY <2>1, <3>1, OthersStutter
  <2>. QED
    BY <2>2, <2>3
<1>7. CASE Elapse
  <2>1. /\ gone' = [o \in Object |->
             IF o \in OnServer \/ gone[o] > Expiry THEN gone[o] ELSE gone[o] + 1]
        /\ settled' = IF watching THEN OnServer ELSE {}
        /\ UNCHANGED <<server, watching, view, told, outages, carried, main>>
        /\ sinceFetch' = sinceFetch + 1
    BY <1>7 DEF Elapse, Tick, backend, Run!Tick
  <2>2. /\ UNCHANGED <<OnServer, watching, Drafts, Mirror!shown, outages > 0>>
        /\ DraftAge' = IF Drafts = {} THEN 0 ELSE DraftAge + 1
    BY <2>1 DEF OnServer, Drafts, DraftAge, Mirror!shown
  <2>. QED
    BY <2>1, <2>2 DEF Mirror!Elapse
<1>8. CASE Start
  <2>1. /\ UNCHANGED <<server, gone, view, told, outages>>
        /\ watching' = FALSE /\ settled' = {} /\ main' = "servers"
    BY <1>8 DEF Start, backend
  <2>2. /\ UNCHANGED <<OnServer, gone, Mirror!shown, outages > 0>>
        /\ Drafts' = {} /\ DraftAge' = 0
    BY <2>1 DEF OnServer, Drafts, DraftAge, Mirror!shown
  <2>. QED
    BY <2>1, <2>2 DEF Mirror!Restart, Mirror!EndWatch
<1>9. CASE UNCHANGED sysVars
  <2>1. UNCHANGED <<server, gone, watching, settled, view, told, outages, carried,
                    sinceFetch, main>>
    BY <1>9 DEF sysVars, vars, backend, history, process
  <2>. QED
    BY <2>1, OthersStutter
<1>. QED
  BY <1>1, <1>2, <1>3, <1>4, <1>5, <1>6, <1>7, <1>8, <1>9
     DEF SysNext, InformerActs, AgentActs, Restart, Crash

\* For any names, objects, settings and faults, every behaviour of the cluster, the
\* agent, its restarts and its uploads is one of the mirror: views lag by no more than an item's life and
\* an upload, nothing lasting is missing from them, deletions are final, and until
\* a watch has broken views go forwards.
THEOREM BackendMirrorsCluster == SysSpec => MirrorsCluster
<1>1. SysInit => Mirror!Init
  <2> SUFFICES ASSUME SysInit PROVE Mirror!Init
    OBVIOUS
  <2>1. OnServer = {} /\ ~(outages > 0) /\ main \notin {"post", "retry"}
    BY DEF SysInit, OnServer, Run!Init
  <2>2. Drafts = {} /\ DraftAge = 0
    BY <2>1 DEF Drafts, DraftAge
  <2>. QED
    BY <2>1, <2>2 DEF SysInit, Mirror!Init
<1>2. SysIInv /\ SysIInv' /\ Quiet' /\ MirrorInv /\ MirrorInv' /\ [SysNext]_sysVars
        => [Mirror!Next]_Mirror!vars
  BY MirrorStep
<1>. QED
  BY <1>1, <1>2, MirrorInvariance, PTL DEF SysSpec, MirrorsCluster, Mirror!Spec
=============================================================================
