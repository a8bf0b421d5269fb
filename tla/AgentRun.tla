------------------------------- MODULE AgentRun -------------------------------
(***************************************************************************)
(* The agent's process (pkg/agent/run.go): Run boots an errgroup of        *)
(* goroutines (the API server, the VenafiConnection client's controller, one *)
(* goroutine per data gatherer) and then gathers and uploads in a loop,    *)
(* with backoff.Retry around each upload.  gctx, the group's context, is   *)
(* cancelled by the first goroutine that returns an error, by the          *)
(* controller's end, and by Run's own deferred cancel; the parent context  *)
(* is never cancelled and no signal is handled, so that a killed process   *)
(* starts again from Init.                                                 *)
(*                                                                         *)
(* Time is counted in ticks, the default settings being in minutes.  Boot  *)
(* (at most 5s of waiting for caches), a gather and the shutdown take no   *)
(* tick.                                                                   *)
(***************************************************************************)
EXTENDS Naturals

CONSTANTS
    Config,     \* [venConn, oneShot, strict, input] of the runs considered
    Gatherer,   \* the configured data gatherers
    NameOf,     \* their names
    Blocking,   \* those whose Run blocks until gctx is done: k8s-dynamic
    None,       \* no gatherer
    Period,     \* --period
    BackoffMax, \* --backoff-max-time
    Backoffs    \* waits NextBackOff may choose: 30s growing to 3m, randomised

\* The goroutines of the errgroup.
Routine == {"api", "venconn"} \cup Gatherer
Names == {NameOf[g] : g \in Gatherer}

ASSUME ConfigAssumption ==
    Config \subseteq [venConn : BOOLEAN, oneShot : BOOLEAN, strict : BOOLEAN,
                      input : BOOLEAN]

ASSUME GathererAssumption ==
    /\ Blocking \subseteq Gatherer
    /\ None \notin Gatherer
    /\ Gatherer \cap {"api", "venconn"} = {}

\* A period of 0 (a negative one in the configuration file) is a busy loop.
\* BackoffMax = 0 passes the flag's validation but then every attempt's context
\* has expired before it begins, and the retries never end.
ASSUME TimeAssumption ==
    /\ Period \in Nat \ {0} /\ BackoffMax \in Nat \ {0}
    /\ Backoffs \subseteq Nat \ {0}

VARIABLES
    config,    \* what ValidateAndCombineConfig returned
    main,      \* where Run is
    routine,   \* the goroutines: "none", "running", "done"
    gatherers, \* the dataGatherers map, from name to gatherer
    cancelled, \* gctx is done
    groupErr,  \* a goroutine has returned an error
    mainErr,   \* Run's own return value is an error
    returnErr, \* Run has returned an error, after the deferred Wait
    readings,  \* the gatherers whose data is in the current readings
    uploaded,  \* the current readings have been posted
    sinceFetch, \* ticks since the last gather began
    elapsed,   \* ticks since Retry began
    posting,   \* ticks since the current attempt began
    wait       \* ticks until the next attempt, or the next gather

group == <<routine, cancelled, groupErr>>
clock == <<sinceFetch, elapsed, posting, wait>>
vars == <<config, main, routine, gatherers, cancelled, groupErr, mainErr,
          returnErr, readings, uploaded, sinceFetch, elapsed, posting, wait>>

Running(x) == routine[x] = "running"
Booting == main \in {"servers", "gatherers"}

Init ==
    /\ config \in Config
    /\ main = "servers"
    /\ routine = [x \in Routine |-> "none"]
    /\ gatherers = [n \in Names |-> None]
    /\ cancelled = FALSE
    /\ groupErr = FALSE
    /\ mainErr = FALSE
    /\ returnErr = FALSE
    /\ readings = {}
    /\ uploaded = FALSE
    /\ sinceFetch = 0
    /\ elapsed = 0
    /\ posting = 0
    /\ wait = 0

-----------------------------------------------------------------------------
(* Boot.  An operator whose comment begins with "Faulty" is no part of the  *)
(* specification: it is what the definition after it would be with a       *)
(* plausible bug in the code.                                              *)

\* Run returns: the deferred cancel is called, and then group.Wait.
Return(err) ==
    /\ main' = "stopping"
    /\ mainErr' = err
    /\ cancelled' = TRUE

StartServers ==
    /\ main = "servers"
    /\ main' = "gatherers"
    /\ routine' = [routine EXCEPT !["api"] = "running",
         !["venconn"] = IF config.venConn THEN "running" ELSE @]
    /\ UNCHANGED <<config, gatherers, cancelled, groupErr, mainErr, returnErr,
                   readings, uploaded, clock>>

\* The event recorder or a data gatherer cannot be created.  A failure to set
\* up encryption is no error: Secrets are then sent without their data.
BootFails ==
    /\ main = "gatherers"
    /\ Return(TRUE)
    /\ UNCHANGED <<config, routine, gatherers, groupErr, returnErr, readings,
                   uploaded, clock>>

\* Faulty: the gatherer is not put into the map.
StartGathererUnnamed(g) ==
    /\ main = "gatherers"
    /\ routine[g] = "none"
    /\ routine' = [routine EXCEPT ![g] = "running"]
    /\ UNCHANGED <<config, main, gatherers, cancelled, groupErr, mainErr,
                   returnErr, readings, uploaded, clock>>

\* The next configured gatherer is created and started.  The order in which
\* they are configured is left open.
StartGatherer(g) ==
    /\ main = "gatherers"
    /\ routine[g] = "none"
    /\ routine' = [routine EXCEPT ![g] = "running"]
    /\ gatherers' = [gatherers EXCEPT ![NameOf[g]] = g]
    /\ UNCHANGED <<config, main, cancelled, groupErr, mainErr, returnErr,
                   readings, uploaded, clock>>

\* The wait for the caches goes on whether or not they are synced.
CachesAwaited ==
    /\ main = "gatherers"
    /\ \A g \in Gatherer : routine[g] # "none"
    /\ main' = "gather"
    /\ UNCHANGED <<config, group, gatherers, mainErr, returnErr, readings,
                   uploaded, clock>>

-----------------------------------------------------------------------------
(* The goroutines. *)

\* A goroutine returns an error: the API server (ListenAndServe fails), the
\* controller, or a gatherer's Run.
RoutineFails(x) ==
    /\ Running(x)
    /\ routine' = [routine EXCEPT ![x] = "done"]
    /\ groupErr' = TRUE
    /\ cancelled' = TRUE
    /\ UNCHANGED <<config, main, gatherers, mainErr, returnErr, readings,
                   uploaded, clock>>

\* Faulty: an informer runs under a context that is never cancelled.
RoutineReturnsUnlessBlocking(x) ==
    /\ Running(x)
    /\ x \notin Blocking
    /\ x = "api" => cancelled
    /\ routine' = [routine EXCEPT ![x] = "done"]
    /\ cancelled' = (cancelled \/ x = "venconn")
    /\ UNCHANGED <<config, main, gatherers, groupErr, mainErr, returnErr,
                   readings, uploaded, clock>>

\* The API server (listenAndServe) and the informers return nil only when gctx
\* is done; the other gatherers have nothing to run.
ReturnsWhenDone(x) == x = "api" \/ x \in Blocking

\* A goroutine returns nil.  The controller may at any time, and then Run's
\* cancel is called; a gatherer leaves the others running.
RoutineReturns(x) ==
    /\ Running(x)
    /\ ReturnsWhenDone(x) => cancelled
    /\ routine' = [routine EXCEPT ![x] = "done"]
    /\ cancelled' = (cancelled \/ x = "venconn")
    /\ UNCHANGED <<config, main, gatherers, groupErr, mainErr, returnErr,
                   readings, uploaded, clock>>

-----------------------------------------------------------------------------
(* Gathering: gatherData, and backoff.Retry around postData. *)

BeginRetry(data) ==
    /\ main' = "post"
    /\ readings' = data
    /\ uploaded' = FALSE
    /\ elapsed' = 0
    /\ posting' = 0

\* Faulty: strict mode is not looked at.
GatherLeniently ==
    /\ main = "gather"
    /\ ~config.input
    /\ sinceFetch' = 0
    /\ \E failed \in SUBSET {gatherers[n] : n \in Names} :
         BeginRetry({gatherers[n] : n \in Names} \ failed)
    /\ UNCHANGED <<config, group, gatherers, mainErr, returnErr, wait>>

\* Every gatherer in the map is fetched; the failures are skipped, or end Run
\* in strict mode.
Gather ==
    /\ main = "gather"
    /\ ~config.input
    /\ sinceFetch' = 0
    /\ \E failed \in SUBSET {gatherers[n] : n \in Names} :
         IF config.strict /\ failed # {}
         THEN /\ Return(TRUE)
              /\ UNCHANGED <<readings, uploaded, elapsed, posting>>
         ELSE /\ BeginRetry({gatherers[n] : n \in Names} \ failed)
              /\ UNCHANGED <<mainErr, cancelled>>
    /\ UNCHANGED <<config, routine, groupErr, gatherers, returnErr, wait>>

\* --input-path: the readings are read from a file instead.
ReadInput ==
    /\ main = "gather"
    /\ config.input
    /\ sinceFetch' = 0
    /\ \/ /\ Return(TRUE)
          /\ UNCHANGED <<readings, uploaded, elapsed, posting>>
       \/ /\ BeginRetry({})
          /\ UNCHANGED <<mainErr, cancelled>>
    /\ UNCHANGED <<config, routine, groupErr, gatherers, returnErr, wait>>

\* Faulty: the posted readings are not checked before the loop is left.
GiveUpQuietly ==
    /\ Return(FALSE)
    /\ UNCHANGED wait

\* Faulty: the upload is skipped and the loop goes on.
GiveUpAndSleep ==
    /\ main' = "sleep"
    /\ wait' = Period
    /\ UNCHANGED <<mainErr, cancelled>>

GiveUp ==
    /\ Return(TRUE)
    /\ UNCHANGED wait

PostSucceeds ==
    /\ main = "post"
    /\ uploaded' = TRUE
    /\ IF config.oneShot
       THEN Return(FALSE) /\ UNCHANGED wait
       ELSE /\ main' = "sleep"
            /\ wait' = Period
            /\ UNCHANGED <<mainErr, cancelled>>
    /\ UNCHANGED <<config, routine, gatherers, groupErr, returnErr, readings,
                   sinceFetch, elapsed, posting>>

\* Faulty: only the time already spent is held against the limit.
RetryAfterSlack(next) == elapsed <= BackoffMax

\* Retry gives up if the next attempt would begin after the limit.
RetryAfter(next) == elapsed + next <= BackoffMax

\* The attempt fails, at the latest when its own deadline has passed.
PostFails ==
    /\ main = "post"
    /\ IF cancelled
       THEN GiveUp
       ELSE \E next \in Backoffs :
              IF RetryAfter(next)
              THEN /\ main' = "retry"
                   /\ wait' = next
                   /\ UNCHANGED <<mainErr, cancelled>>
              ELSE GiveUp
    /\ UNCHANGED <<config, routine, gatherers, groupErr, returnErr, readings,
                   uploaded, sinceFetch, elapsed, posting>>

RetryPost ==
    /\ main = "retry"
    /\ wait = 0
    /\ main' = "post"
    /\ posting' = 0
    /\ UNCHANGED <<config, group, gatherers, mainErr, returnErr, readings,
                   uploaded, sinceFetch, elapsed, wait>>

\* Retry returns the cause of the cancellation.
RetryCancelled ==
    /\ main = "retry"
    /\ cancelled
    /\ GiveUp
    /\ UNCHANGED <<config, routine, gatherers, groupErr, returnErr, readings,
                   uploaded, sinceFetch, elapsed, posting>>

\* Faulty: nothing but gctx ends the wait.
SleepOverIfDone ==
    /\ main = "sleep"
    /\ wait = 0
    /\ cancelled
    /\ main' = "gather"
    /\ UNCHANGED <<config, group, gatherers, mainErr, returnErr, readings,
                   uploaded, clock>>

\* If the period is over and gctx is done, select takes either.
SleepOver ==
    /\ main = "sleep"
    /\ wait = 0
    /\ main' = "gather"
    /\ UNCHANGED <<config, group, gatherers, mainErr, returnErr, readings,
                   uploaded, clock>>

\* Faulty: a break instead of the return, which leaves the select only.
SleepCancelledBreaks ==
    /\ main = "sleep"
    /\ cancelled
    /\ main' = "gather"
    /\ UNCHANGED <<config, group, gatherers, mainErr, returnErr, readings,
                   uploaded, clock>>

SleepCancelled ==
    /\ main = "sleep"
    /\ cancelled
    /\ Return(FALSE)
    /\ UNCHANGED <<config, routine, gatherers, groupErr, returnErr, readings,
                   uploaded, clock>>

-----------------------------------------------------------------------------
(* The end, and the clock. *)

Exit ==
    /\ main = "stopping"
    /\ \A x \in Routine : ~Running(x)
    /\ main' = "exited"
    /\ returnErr' = (mainErr \/ groupErr)
    /\ UNCHANGED <<config, group, gatherers, mainErr, readings, uploaded, clock>>

\* When gctx is done, requests and waits end at once.
Tick ==
    /\ ~cancelled
    /\ \/ /\ main = "post"
          /\ posting < BackoffMax
          /\ posting' = posting + 1
          /\ elapsed' = elapsed + 1
          /\ UNCHANGED wait
       \/ /\ main = "retry"
          /\ wait > 0
          /\ wait' = wait - 1
          /\ elapsed' = elapsed + 1
          /\ UNCHANGED posting
       \/ /\ main = "sleep"
          /\ wait > 0
          /\ wait' = wait - 1
          /\ UNCHANGED <<posting, elapsed>>
    /\ sinceFetch' = sinceFetch + 1
    /\ UNCHANGED <<config, main, group, gatherers, mainErr, returnErr, readings,
                   uploaded>>

\* Run's own steps.
Step ==
    \/ StartServers \/ CachesAwaited \/ Gather \/ ReadInput
    \/ \E g \in Gatherer : StartGatherer(g)
    \/ PostSucceeds \/ PostFails \/ RetryPost \/ RetryCancelled
    \/ SleepOver \/ SleepCancelled
    \/ Exit

Next ==
    \/ Step
    \/ BootFails
    \/ \E x \in Routine : RoutineFails(x) \/ RoutineReturns(x)
    \/ Tick

Spec == Init /\ [][Next]_vars

\* Run goes on, a goroutine returns when gctx is done (the API server's
\* shutdown is limited to 3s), a request ends by its deadline; no goroutine
\* need fail.
Fairness ==
    /\ WF_vars(Step)
    /\ \A x \in Routine : WF_vars(cancelled /\ RoutineReturns(x))

FairSpec == Spec /\ Fairness /\ WF_vars(Tick)

-----------------------------------------------------------------------------
(* Properties. *)

TypeOK ==
    /\ config \in Config
    /\ main \in {"servers", "gatherers", "gather", "post", "retry", "sleep",
                 "stopping", "exited"}
    /\ routine \in [Routine -> {"none", "running", "done"}]
    /\ gatherers \in [Names -> Gatherer \cup {None}]
    /\ cancelled \in BOOLEAN /\ groupErr \in BOOLEAN
    /\ mainErr \in BOOLEAN /\ returnErr \in BOOLEAN
    /\ readings \subseteq Gatherer
    /\ uploaded \in BOOLEAN
    /\ sinceFetch \in Nat /\ elapsed \in Nat /\ posting \in Nat /\ wait \in Nat

\* The process ends without an error, and with no goroutine left, only after its
\* readings were uploaded, in a one-shot run or because the controller stopped
\* while the loop slept (for which Run returns nil); an upload that was given up,
\* or a goroutine that failed, while the loop slept, too, is an error.
CleanExit ==
    main = "exited" =>
        /\ \A x \in Routine : ~Running(x)
        /\ ~returnErr => uploaded /\ ~groupErr /\ (config.oneShot \/ config.venConn)

\* The attempt that is under way when gctx is done, or the one that begins after
\* it because a timer was ready, too, is the last: it is not retried, and the
\* loop does not gather again (run.go: the cancelled context "will cause this
\* blocking loop to exit instead of waiting for the time period").
LastAttempt ==
    [](cancelled /\ main = "post" => [](main \notin {"gather", "retry"}))

\* Two gathers are never further apart than the period and two times
\* --backoff-max-time: the last attempt begins before the limit and ends by
\* its own deadline.
FetchGapBounded == sinceFetch <= Period + 2 * BackoffMax

\* In strict mode what is uploaded has the data of all configured gatherers.
StrictUploadsComplete ==
    (config.strict /\ ~config.input /\ uploaded) => readings = Gatherer

\* The loop fetches from every configured gatherer (docs/datagatherers/
\* k8s-dynamic.md configures two under the name "k8s/pods", "to gather resources
\* from another cluster").
AllConfiguredFetched ==
    main \in {"gather", "post", "retry", "sleep"} =>
        \A g \in Gatherer : gatherers[NameOf[g]] = g

\* Once gctx is done, the process ends.
ShutsDown == cancelled ~> main = "exited"

\* The agent gathers again and again until it ends.
KeepsGathering == []<>(main = "gather" \/ main = "exited")
=============================================================================
