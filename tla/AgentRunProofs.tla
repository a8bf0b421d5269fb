---------------------------- MODULE AgentRunProofs ----------------------------
(* Proofs about AgentRun, for any number of gatherers and any settings: when *)
(* the process may end without an error, what cancels its context, and how  *)
(* long it may go without a gather.                                         *)
EXTENDS AgentRun, TLAPS

Loop == {"gather", "post", "retry", "sleep"}
Ended == {"stopping", "exited"}

-----------------------------------------------------------------------------
(* The inductive invariant. *)

\* What has been started is in the map, and nothing starts after the boot.
Started ==
    /\ main = "servers" => ~cancelled /\ \A x \in Routine : routine[x] = "none"
    /\ routine["venconn"] # "none" => config.venConn
    /\ \A g \in Gatherer : routine[g] # "none" =>
         /\ gatherers[NameOf[g]] \in Gatherer
         /\ NameOf[gatherers[NameOf[g]]] = NameOf[g]
    /\ main \in Loop => \A g \in Gatherer : routine[g] # "none"

\* gctx is done for a reason only.
Cause == cancelled => groupErr \/ main \in Ended \/ config.venConn

\* Run's own result, and what it became when the goroutines were gone.
Outcome ==
    /\ main = "sleep" => uploaded
    /\ (main \in Ended /\ ~mainErr) =>
         groupErr \/ (uploaded /\ (config.oneShot \/ config.venConn))
    /\ main = "exited" => /\ \A x \in Routine : ~Running(x)
                          /\ returnErr = (mainErr \/ groupErr)

\* Where the time since the last gather went.
Elapsed ==
    /\ Booting => sinceFetch = 0
    /\ main = "post" => /\ sinceFetch = elapsed
                        /\ elapsed <= BackoffMax + posting
                        /\ posting <= BackoffMax
    /\ main = "retry" => sinceFetch = elapsed /\ elapsed + wait <= BackoffMax
    /\ main = "sleep" => sinceFetch + wait <= Period + 2 * BackoffMax
    /\ sinceFetch <= Period + 2 * BackoffMax

IInv == TypeOK /\ Started /\ Cause /\ Outcome /\ Elapsed

LEMMA InitInv == Init => IInv
<1> SUFFICES ASSUME Init PROVE IInv
  OBVIOUS
<1>1. TypeOK
  BY DEF Init, TypeOK
<1>2. Started
  BY DEF Init, Started, Loop, Routine
<1>3. Cause /\ Outcome
  BY DEF Init, Cause, Outcome, Ended
<1>4. Elapsed
  BY TimeAssumption DEF Init, Elapsed, Booting
<1> QED BY <1>1, <1>2, <1>3, <1>4 DEF IInv

LEMMA StartServersInv ==
    ASSUME IInv, StartServers
    PROVE  IInv'
<1>0. TypeOK /\ Started /\ Cause /\ Outcome /\ Elapsed
  BY DEF IInv
<1>1. TypeOK'
  BY <1>0 DEF TypeOK, StartServers, group, clock, Running
<1>2. Started'
  <2>1. \A g \in Gatherer : routine'[g] = routine[g]
    BY <1>0, GathererAssumption DEF TypeOK, StartServers, Routine
  <2>2. routine'["venconn"] # "none" => config'.venConn
    BY <1>0, GathererAssumption DEF TypeOK, Started, StartServers, Routine
  <2> QED BY <1>0, <2>1, <2>2 DEF Started, StartServers, Loop
<1>3. Cause'
  BY <1>0 DEF TypeOK, Started, Cause, Ended, StartServers, group
<1>4. Outcome'
  BY <1>0 DEF TypeOK, Outcome, Cause, StartServers, group, Ended, Running
<1>5. Elapsed'
  BY <1>0, TimeAssumption DEF TypeOK, Elapsed, StartServers, clock, Booting
<1> QED BY <1>1, <1>2, <1>3, <1>4, <1>5 DEF IInv

LEMMA BootFailsInv ==
    ASSUME IInv, BootFails
    PROVE  IInv'
<1>0. TypeOK /\ Started /\ Cause /\ Outcome /\ Elapsed
  BY DEF IInv
<1>1. TypeOK'
  BY <1>0 DEF TypeOK, BootFails, Return, group, clock, Running
<1>2. Started'
  BY <1>0 DEF TypeOK, Started, BootFails, Return, group, Loop, Running
<1>3. Cause'
  BY <1>0 DEF TypeOK, Started, Cause, Ended, BootFails, Return, group
<1>4. Outcome'
  BY <1>0 DEF TypeOK, Outcome, Cause, BootFails, Return, group, Ended, Running
<1>5. Elapsed'
  BY <1>0, TimeAssumption DEF TypeOK, Elapsed, BootFails, Return, clock, Booting
<1> QED BY <1>1, <1>2, <1>3, <1>4, <1>5 DEF IInv

LEMMA StartGathererInv ==
    ASSUME IInv, NEW g \in Gatherer, StartGatherer(g)
    PROVE  IInv'
<1>0. TypeOK /\ Started /\ Cause /\ Outcome /\ Elapsed
  BY DEF IInv
<1>1. TypeOK'
  BY <1>0 DEF TypeOK, StartGatherer, group, clock, Running
<1>2. Started'
  <2>1. NameOf[g] \in Names /\ \A h \in Gatherer : NameOf[h] \in Names
    BY DEF Names
  <2>2. ASSUME NEW h \in Gatherer, routine'[h] # "none"
        PROVE  /\ gatherers'[NameOf[h]] \in Gatherer
               /\ NameOf[gatherers'[NameOf[h]]] = NameOf[h]
    <3>1. CASE NameOf[h] = NameOf[g]
      <4>1. gatherers'[NameOf[h]] = g
        BY <1>0, <2>1, <3>1 DEF TypeOK, StartGatherer
      <4> QED BY <3>1, <4>1
    <3>2. CASE NameOf[h] # NameOf[g]
      <4>1. gatherers'[NameOf[h]] = gatherers[NameOf[h]]
        BY <1>0, <2>1, <3>2 DEF TypeOK, StartGatherer
      <4>2. h # g
        BY <3>2
      <4>3. routine[h] # "none"
        BY <1>0, <2>2, <4>2 DEF TypeOK, StartGatherer
      <4> QED BY <1>0, <4>1, <4>3 DEF Started
    <3> QED BY <3>1, <3>2
  <2>3. main' = "gatherers"
    BY DEF StartGatherer
  <2>4. routine'["venconn"] = routine["venconn"] /\ config' = config
    BY <1>0, GathererAssumption DEF TypeOK, StartGatherer, Routine
  <2> QED BY <1>0, <2>2, <2>3, <2>4 DEF Started, Loop
<1>3. Cause'
  BY <1>0 DEF TypeOK, Started, Cause, Ended, StartGatherer, group
<1>4. Outcome'
  BY <1>0 DEF TypeOK, Outcome, Cause, StartGatherer, group, Ended, Running
<1>5. Elapsed'
  BY <1>0, TimeAssumption DEF TypeOK, Elapsed, StartGatherer, clock, Booting
<1> QED BY <1>1, <1>2, <1>3, <1>4, <1>5 DEF IInv

LEMMA CachesAwaitedInv ==
    ASSUME IInv, CachesAwaited
    PROVE  IInv'
<1>0. TypeOK /\ Started /\ Cause /\ Outcome /\ Elapsed
  BY DEF IInv
<1>1. TypeOK'
  BY <1>0 DEF TypeOK, CachesAwaited, group, clock, Running
<1>2. Started'
  BY <1>0 DEF TypeOK, Started, CachesAwaited, group, Loop, Running
<1>3. Cause'
  BY <1>0 DEF TypeOK, Started, Cause, Ended, CachesAwaited, group
<1>4. Outcome'
  BY <1>0 DEF TypeOK, Outcome, Cause, CachesAwaited, group, Ended, Running
<1>5. Elapsed'
  BY <1>0, TimeAssumption DEF TypeOK, Elapsed, CachesAwaited, clock, Booting
<1> QED BY <1>1, <1>2, <1>3, <1>4, <1>5 DEF IInv

LEMMA RoutineFailsInv ==
    ASSUME IInv, NEW x \in Routine, RoutineFails(x)
    PROVE  IInv'
<1>0. TypeOK /\ Started /\ Cause /\ Outcome /\ Elapsed
  BY DEF IInv
<1>1. TypeOK'
  BY <1>0 DEF TypeOK, RoutineFails, group, clock, Running
<1>2. Started'
  BY <1>0 DEF TypeOK, Started, RoutineFails, group, Loop, Running
<1>3. Cause'
  BY <1>0 DEF TypeOK, Started, Cause, Ended, RoutineFails, group
<1>4. Outcome'
  BY <1>0 DEF TypeOK, Outcome, Cause, RoutineFails, group, Ended, Running
<1>5. Elapsed'
  BY <1>0, TimeAssumption DEF TypeOK, Elapsed, RoutineFails, clock, Booting
<1> QED BY <1>1, <1>2, <1>3, <1>4, <1>5 DEF IInv

LEMMA RoutineReturnsInv ==
    ASSUME IInv, NEW x \in Routine, RoutineReturns(x)
    PROVE  IInv'
<1>0. TypeOK /\ Started /\ Cause /\ Outcome /\ Elapsed
  BY DEF IInv
<1>1. TypeOK'
  BY <1>0 DEF TypeOK, RoutineReturns, group, clock, Running
<1>2. Started'
  BY <1>0 DEF TypeOK, Started, RoutineReturns, group, Loop, Running
<1>3. Cause'
  <2>1. x = "venconn" => config.venConn
    BY <1>0 DEF Started, RoutineReturns, Running
  <2> QED BY <1>0, <2>1 DEF Cause, RoutineReturns, clock
<1>4. Outcome'
  BY <1>0 DEF TypeOK, Outcome, Cause, RoutineReturns, group, Ended, Running
<1>5. Elapsed'
  BY <1>0, TimeAssumption DEF TypeOK, Elapsed, RoutineReturns, clock, Booting
<1> QED BY <1>1, <1>2, <1>3, <1>4, <1>5 DEF IInv

LEMMA GatherInv ==
    ASSUME IInv, Gather
    PROVE  IInv'
<1>0. TypeOK /\ Started /\ Cause /\ Outcome /\ Elapsed
  BY DEF IInv
<1>1. TypeOK'
  <2>1. PICK failed \in SUBSET {gatherers[n] : n \in Names} :
          IF config.strict /\ failed # {}
          THEN /\ Return(TRUE)
               /\ UNCHANGED <<readings, uploaded, elapsed, posting>>
          ELSE /\ BeginRetry({gatherers[n] : n \in Names} \ failed)
               /\ UNCHANGED <<mainErr, cancelled>>
    BY DEF Gather
  <2>2. {gatherers[n] : n \in Names} \subseteq Gatherer
    BY <1>0 DEF TypeOK, Started, Names, Gather, Loop
  <2>3. CASE config.strict /\ failed # {}
    <3>1. Return(TRUE) /\ UNCHANGED <<readings, uploaded, elapsed, posting>>
      BY <2>1, <2>3
    <3> QED BY <1>0, <3>1 DEF TypeOK, Gather, Return
  <2>4. CASE ~(config.strict /\ failed # {})
    <3>1. /\ BeginRetry({gatherers[n] : n \in Names} \ failed)
          /\ UNCHANGED <<mainErr, cancelled>>
      BY <2>1, <2>4
    <3> QED BY <1>0, <2>2, <3>1 DEF TypeOK, Gather, BeginRetry
  <2> QED BY <2>3, <2>4
<1>2. Started'
  BY <1>0 DEF TypeOK, Started, Gather, BeginRetry, Return, group, Loop, Running
<1>3. Cause'
  BY <1>0 DEF TypeOK, Started, Cause, Ended, Gather, BeginRetry, Return, group
<1>4. Outcome'
  BY <1>0 DEF TypeOK, Outcome, Cause, Gather, BeginRetry, Return, group, Ended, Running
<1>5. Elapsed'
  BY <1>0, TimeAssumption DEF TypeOK, Elapsed, Gather, BeginRetry, Return, clock, Booting
<1> QED BY <1>1, <1>2, <1>3, <1>4, <1>5 DEF IInv

LEMMA ReadInputInv ==
    ASSUME IInv, ReadInput
    PROVE  IInv'
<1>0. TypeOK /\ Started /\ Cause /\ Outcome /\ Elapsed
  BY DEF IInv
<1>1. TypeOK'
  <2>1. CASE Return(TRUE) /\ UNCHANGED <<readings, uploaded, elapsed, posting>>
    BY <1>0, <2>1 DEF TypeOK, ReadInput, Return
  <2>2. CASE BeginRetry({}) /\ UNCHANGED <<mainErr, cancelled>>
    BY <1>0, <2>2 DEF TypeOK, ReadInput, BeginRetry
  <2> QED BY <2>1, <2>2 DEF ReadInput
<1>2. Started'
  BY <1>0 DEF TypeOK, Started, ReadInput, BeginRetry, Return, group, Loop, Running
<1>3. Cause'
  BY <1>0 DEF TypeOK, Started, Cause, Ended, ReadInput, BeginRetry, Return, group
<1>4. Outcome'
  BY <1>0 DEF TypeOK, Outcome, Cause, ReadInput, BeginRetry, Return, group, Ended, Running
<1>5. Elapsed'
  BY <1>0, TimeAssumption DEF TypeOK, Elapsed, ReadInput, BeginRetry, Return, clock, Booting
<1> QED BY <1>1, <1>2, <1>3, <1>4, <1>5 DEF IInv

LEMMA PostSucceedsInv ==
    ASSUME IInv, PostSucceeds
    PROVE  IInv'
<1>0. TypeOK /\ Started /\ Cause /\ Outcome /\ Elapsed
  BY DEF IInv
<1>1. TypeOK'
  <2>1. CASE config.oneShot
    BY <1>0, <2>1 DEF TypeOK, PostSucceeds, Return
  <2>2. CASE ~config.oneShot
    BY <1>0, <2>2, TimeAssumption DEF TypeOK, PostSucceeds
  <2> QED BY <2>1, <2>2
<1>2. Started'
  BY <1>0 DEF TypeOK, Started, PostSucceeds, Return, group, Loop, Running
<1>3. Cause'
  BY <1>0 DEF TypeOK, Started, Cause, Ended, PostSucceeds, Return, group
<1>4. Outcome'
  BY <1>0 DEF TypeOK, Outcome, Cause, PostSucceeds, Return, group, Ended, Running
<1>5. Elapsed'
  BY <1>0, TimeAssumption DEF TypeOK, Elapsed, PostSucceeds, Return, clock, Booting
<1> QED BY <1>1, <1>2, <1>3, <1>4, <1>5 DEF IInv

LEMMA PostFailsInv ==
    ASSUME IInv, PostFails
    PROVE  IInv'
<1>0. TypeOK /\ Started /\ Cause /\ Outcome /\ Elapsed
  BY DEF IInv
<1>1. TypeOK'
  <2>1. CASE GiveUp
    BY <1>0, <2>1 DEF TypeOK, PostFails, GiveUp, Return
  <2>2. CASE \E next \in Backoffs : /\ main' = "retry"
                                    /\ wait' = next
                                    /\ UNCHANGED <<mainErr, cancelled>>
    BY <1>0, <2>2, TimeAssumption DEF TypeOK, PostFails
  <2> QED BY <2>1, <2>2 DEF PostFails
<1>2. Started'
  BY <1>0 DEF TypeOK, Started, PostFails, GiveUp, RetryAfter, Return, group, Loop, Running
<1>3. Cause'
  BY <1>0 DEF TypeOK, Started, Cause, Ended, PostFails, GiveUp, RetryAfter, Return, group
<1>4. Outcome'
  BY <1>0 DEF TypeOK, Outcome, Cause, PostFails, GiveUp, RetryAfter, Return, group, Ended, Running
<1>5. Elapsed'
  BY <1>0, TimeAssumption DEF TypeOK, Elapsed, PostFails, GiveUp, RetryAfter, Return, clock, Booting
<1> QED BY <1>1, <1>2, <1>3, <1>4, <1>5 DEF IInv

LEMMA RetryPostInv ==
    ASSUME IInv, RetryPost
    PROVE  IInv'
<1>0. TypeOK /\ Started /\ Cause /\ Outcome /\ Elapsed
  BY DEF IInv
<1>1. TypeOK'
  BY <1>0 DEF TypeOK, RetryPost, group, clock, Running
<1>2. Started'
  BY <1>0 DEF TypeOK, Started, RetryPost, group, Loop, Running
<1>3. Cause'
  BY <1>0 DEF TypeOK, Started, Cause, Ended, RetryPost, group
<1>4. Outcome'
  BY <1>0 DEF TypeOK, Outcome, Cause, RetryPost, group, Ended, Running
<1>5. Elapsed'
  BY <1>0, TimeAssumption DEF TypeOK, Elapsed, RetryPost, clock, Booting
<1> QED BY <1>1, <1>2, <1>3, <1>4, <1>5 DEF IInv

LEMMA RetryCancelledInv ==
    ASSUME IInv, RetryCancelled
    PROVE  IInv'
<1>0. TypeOK /\ Started /\ Cause /\ Outcome /\ Elapsed
  BY DEF IInv
<1>1. TypeOK'
  BY <1>0 DEF TypeOK, RetryCancelled, GiveUp, Return, group, clock, Running
<1>2. Started'
  BY <1>0 DEF TypeOK, Started, RetryCancelled, GiveUp, Return, group, Loop, Running
<1>3. Cause'
  BY <1>0 DEF TypeOK, Started, Cause, Ended, RetryCancelled, GiveUp, Return, group
<1>4. Outcome'
  BY <1>0 DEF TypeOK, Outcome, Cause, RetryCancelled, GiveUp, Return, group, Ended, Running
<1>5. Elapsed'
  BY <1>0, TimeAssumption DEF TypeOK, Elapsed, RetryCancelled, GiveUp, Return, clock, Booting
<1> QED BY <1>1, <1>2, <1>3, <1>4, <1>5 DEF IInv

LEMMA SleepOverInv ==
    ASSUME IInv, SleepOver
    PROVE  IInv'
<1>0. TypeOK /\ Started /\ Cause /\ Outcome /\ Elapsed
  BY DEF IInv
<1>1. TypeOK'
  BY <1>0 DEF TypeOK, SleepOver, group, clock, Running
<1>2. Started'
  BY <1>0 DEF TypeOK, Started, SleepOver, group, Loop, Running
<1>3. Cause'
  BY <1>0 DEF TypeOK, Started, Cause, Ended, SleepOver, group
<1>4. Outcome'
  BY <1>0 DEF TypeOK, Outcome, Cause, SleepOver, group, Ended, Running
<1>5. Elapsed'
  BY <1>0, TimeAssumption DEF TypeOK, Elapsed, SleepOver, clock, Booting
<1> QED BY <1>1, <1>2, <1>3, <1>4, <1>5 DEF IInv

LEMMA SleepCancelledInv ==
    ASSUME IInv, SleepCancelled
    PROVE  IInv'
<1>0. TypeOK /\ Started /\ Cause /\ Outcome /\ Elapsed
  BY DEF IInv
<1>1. TypeOK'
  BY <1>0 DEF TypeOK, SleepCancelled, Return, group, clock, Running
<1>2. Started'
  BY <1>0 DEF TypeOK, Started, SleepCancelled, Return, group, Loop, Running
<1>3. Cause'
  BY <1>0 DEF TypeOK, Started, Cause, Ended, SleepCancelled, Return, group
<1>4. Outcome'
  BY <1>0 DEF TypeOK, Outcome, Cause, SleepCancelled, Return, group, Ended, Running
<1>5. Elapsed'
  BY <1>0, TimeAssumption DEF TypeOK, Elapsed, SleepCancelled, Return, clock, Booting
<1> QED BY <1>1, <1>2, <1>3, <1>4, <1>5 DEF IInv

LEMMA ExitInv ==
    ASSUME IInv, Exit
    PROVE  IInv'
<1>0. TypeOK /\ Started /\ Cause /\ Outcome /\ Elapsed
  BY DEF IInv
<1>1. TypeOK'
  BY <1>0 DEF TypeOK, Exit, group, clock, Running
<1>2. Started'
  BY <1>0 DEF TypeOK, Started, Exit, group, Loop, Running
<1>3. Cause'
  BY <1>0 DEF TypeOK, Started, Cause, Ended, Exit, group
<1>4. Outcome'
  BY <1>0 DEF TypeOK, Outcome, Cause, Exit, group, Ended, Running
<1>5. Elapsed'
  BY <1>0, TimeAssumption DEF TypeOK, Elapsed, Exit, clock, Booting
<1> QED BY <1>1, <1>2, <1>3, <1>4, <1>5 DEF IInv

LEMMA TickInv ==
    ASSUME IInv, Tick
    PROVE  IInv'
<1>0. TypeOK /\ Started /\ Cause /\ Outcome /\ Elapsed
  BY DEF IInv
<1>1. TypeOK'
  BY <1>0 DEF TypeOK, Tick, group, clock, Running
<1>2. Started'
  BY <1>0 DEF TypeOK, Started, Tick, group, Loop, Running
<1>3. Cause'
  BY <1>0 DEF TypeOK, Started, Cause, Ended, Tick, group
<1>4. Outcome'
  BY <1>0 DEF TypeOK, Outcome, Cause, Tick, group, Ended, Running
<1>5. Elapsed'
  BY <1>0, TimeAssumption DEF TypeOK, Elapsed, Tick, clock, Booting
<1> QED BY <1>1, <1>2, <1>3, <1>4, <1>5 DEF IInv

LEMMA NextInv == IInv /\ [Next]_vars => IInv'
<1> SUFFICES ASSUME IInv, [Next]_vars PROVE IInv'
  OBVIOUS
<1>1. CASE Step
  BY <1>1, StartServersInv, CachesAwaitedInv, GatherInv, ReadInputInv,
     StartGathererInv, PostSucceedsInv, PostFailsInv, RetryPostInv,
     RetryCancelledInv, SleepOverInv, SleepCancelledInv, ExitInv DEF Step
<1>2. CASE BootFails
  BY <1>2, BootFailsInv
<1>3. CASE \E x \in Routine : RoutineFails(x) \/ RoutineReturns(x)
  BY <1>3, RoutineFailsInv, RoutineReturnsInv
<1>4. CASE Tick
  BY <1>4, TickInv
<1>5. CASE UNCHANGED vars
  BY <1>5 DEF IInv, TypeOK, Started, Cause, Outcome, Elapsed,
     Booting, Running, vars
<1> QED BY <1>1, <1>2, <1>3, <1>4, <1>5 DEF Next

LEMMA Invariance == Spec => []IInv
BY InitInv, NextInv, PTL DEF Spec

-----------------------------------------------------------------------------
(* In strict mode, if the gatherers have names of their own. *)

StrictReadings ==
    (/\ config.strict
     /\ ~config.input
     /\ uploaded \/ main \in {"post", "retry", "sleep"}) => readings = Gatherer

\* With a name of its own every started gatherer is in the map.
LEMMA AllInMap ==
    ASSUME \A g, h \in Gatherer : NameOf[g] = NameOf[h] => g = h,
           IInv, main = "gather"
    PROVE  {gatherers[n] : n \in Names} = Gatherer
<1>1. \A g \in Gatherer : gatherers[NameOf[g]] = g
  BY DEF IInv, Started, Loop
<1> QED BY <1>1 DEF Names

LEMMA StrictNext ==
    ASSUME \A g, h \in Gatherer : NameOf[g] = NameOf[h] => g = h,
           IInv, StrictReadings, [Next]_vars
    PROVE  StrictReadings'
<1>1. CASE Gather
  <2>1. PICK failed \in SUBSET {gatherers[n] : n \in Names} :
          IF config.strict /\ failed # {}
          THEN /\ Return(TRUE)
               /\ UNCHANGED <<readings, uploaded, elapsed, posting>>
          ELSE /\ BeginRetry({gatherers[n] : n \in Names} \ failed)
               /\ UNCHANGED <<mainErr, cancelled>>
    BY <1>1 DEF Gather
  <2>2. {gatherers[n] : n \in Names} = Gatherer
    BY <1>1, AllInMap DEF Gather
  <2>3. CASE config.strict /\ failed # {}
    BY <1>1, <2>1, <2>3 DEF Gather, Return, StrictReadings
  <2>4. CASE ~config.strict
    BY <1>1, <2>4 DEF Gather, StrictReadings
  <2>5. CASE failed = {}
    BY <1>1, <2>1, <2>2, <2>5 DEF Gather, BeginRetry, StrictReadings
  <2> QED BY <2>3, <2>4, <2>5
<1>2. CASE ReadInput
  BY <1>2 DEF ReadInput, StrictReadings
<1>3. CASE Step /\ ~Gather /\ ~ReadInput
  BY <1>3 DEF StrictReadings, Step, StartServers, CachesAwaited, StartGatherer,
     PostSucceeds, PostFails, GiveUp, RetryPost, RetryCancelled, SleepOver,
     SleepCancelled, Exit, Return
<1>4. CASE BootFails
  BY <1>4 DEF BootFails, Return, StrictReadings
<1>5. CASE \E x \in Routine : RoutineFails(x) \/ RoutineReturns(x)
  BY <1>5 DEF RoutineFails, RoutineReturns, StrictReadings
<1>6. CASE Tick
  BY <1>6 DEF Tick, StrictReadings
<1>7. CASE UNCHANGED vars
  BY <1>7 DEF vars, StrictReadings
<1> QED BY <1>1, <1>2, <1>3, <1>4, <1>5, <1>6, <1>7 DEF Next

-----------------------------------------------------------------------------
\* Every variable keeps its type; in particular the loop never holds the data
\* of a gatherer that was not started.
THEOREM TypeCorrect == Spec => []TypeOK
<1>1. IInv => TypeOK
  BY DEF IInv
<1> QED BY <1>1, Invariance, PTL

\* The process ends without an error only after its readings were uploaded, in a
\* one-shot run or when the controller stopped, with no goroutine failed and none
\* left.
THEOREM CleanExitsAreDue == Spec => []CleanExit
<1>1. IInv => CleanExit
  BY DEF IInv, TypeOK, Outcome, Ended, CleanExit
<1> QED BY <1>1, Invariance, PTL

\* Whatever happens to the goroutines, the attempt under way when gctx is done is
\* not retried, and no gather follows it.
THEOREM CancelledLoopEnds == Spec => LastAttempt
<1> DEFINE Last == /\ cancelled
                   /\ main \in {"post", "stopping", "exited"} \/ (main = "sleep" /\ wait > 0)
<1>1. IInv /\ Last /\ [Next]_vars => Last'
  <2> SUFFICES ASSUME IInv, Last, [Next]_vars PROVE Last'
    OBVIOUS
  <2>1. CASE PostSucceeds
    <3>1. cancelled' /\ (main' = "stopping" \/ (main' = "sleep" /\ wait' = Period))
      BY <2>1 DEF PostSucceeds, Return
    <3>2. Period > 0
      BY TimeAssumption
    <3>. QED
      BY <3>1, <3>2
  <2>2. CASE PostFails
    BY <2>2 DEF PostFails, GiveUp, Return
  <2>3. CASE Step /\ ~PostSucceeds /\ ~PostFails
    <3>1. ~SleepOver
      BY DEF SleepOver
    <3>2. SleepCancelled \/ Exit
      BY <2>3, <3>1 DEF Step, StartServers, CachesAwaited, Gather, ReadInput,
         StartGatherer, RetryPost, RetryCancelled
    <3>. QED
      BY <3>2 DEF SleepCancelled, Return, Exit, group
  <2>4. CASE BootFails \/ Tick
    BY <2>4 DEF BootFails, Tick
  <2>5. ASSUME NEW x \in Routine, RoutineFails(x) \/ RoutineReturns(x) PROVE Last'
    BY <2>5 DEF RoutineFails, RoutineReturns, clock
  <2>6. CASE UNCHANGED vars
    BY <2>6 DEF vars
  <2>. QED
    BY <2>1, <2>2, <2>3, <2>4, <2>5, <2>6 DEF Next
<1>2. cancelled /\ main = "post" => Last
  OBVIOUS
<1>3. Last => main \notin {"gather", "retry"}
  OBVIOUS
<1> QED BY <1>1, <1>2, <1>3, Invariance, PTL DEF Spec, LastAttempt

\* Two gathers are at most Period + 2 * BackoffMax ticks apart: the FetchGap of
\* ResourceCache.
THEOREM GapBetweenGathers == Spec => []FetchGapBounded
<1>1. IInv => FetchGapBounded
  BY DEF IInv, Elapsed, FetchGapBounded
<1> QED BY <1>1, Invariance, PTL

\* If no two gatherers are configured under one name, what a strict run uploads
\* has the data of all of them.
THEOREM StrictUploadsAreComplete ==
    ASSUME \A g, h \in Gatherer : NameOf[g] = NameOf[h] => g = h
    PROVE  Spec => []StrictUploadsComplete
<1>1. Init => StrictReadings
  BY DEF Init, StrictReadings
<1>2. IInv /\ StrictReadings /\ [Next]_vars => StrictReadings'
  BY StrictNext
<1>3. StrictReadings => StrictUploadsComplete
  BY DEF StrictReadings, StrictUploadsComplete
<1> QED BY <1>1, <1>2, <1>3, Invariance, PTL DEF Spec
=============================================================================
