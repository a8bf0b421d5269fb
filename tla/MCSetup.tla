------------------------------ MODULE MCSetup ------------------------------
(* Every combination of a few options, with an environment in which at most *)
(* one thing is missing; every pair of periods for the smaller ones; every  *)
(* list of up to three gatherers; and whatever two gatherers find, with up  *)
(* to MaxItems cached items.                                                *)
EXTENDS Setup, FiniteSetsExt

CONSTANTS MaxOptions,      \* options given together
          MaxWithPeriods,  \* options given together with every pair of periods
          MaxItems         \* items in the cache of a dynamic gatherer

AtMost(n, S) == UNION {kSubset(k, S) : k \in 0 .. n}

Environments == {Facts} \cup {Facts \ {f} : f \in Facts}

MCInputs ==
    [given: AtMost(MaxOptions, Flags \cup FileFields), world: Environments,
     flagPeriod: {1}, filePeriod: {0}]
    \cup
    [given: AtMost(MaxWithPeriods, Flags \cup FileFields), world: {Facts},
     flagPeriod: -1 .. 1, filePeriod: -1 .. 1]

SomeGatherers ==
    {d \in Gatherer : /\ d.kind # "k8s-dynamic" \/ ~ d.named =>
                             d.include = {} /\ d.exclude = {}
                      /\ d.exclude \in {{}, {"n1"}}}

MCGathererLists == UNION {[1 .. n -> SomeGatherers] : n \in 0 .. 2}
                   \cup [1 .. 3 -> {d \in SomeGatherers : d.named /\ d.kind = "k8s-dynamic"}]

SomeSources ==
    [gatherer: {"oidc"}, config: Answers, jwks: Answers]
    \cup [gatherer: {"k8s-discovery"}, answered: BOOLEAN]
    \cup [gatherer: {"k8s-dynamic"}, items: UNION {[1 .. n -> CachedItem] : n \in 0 .. MaxItems}]
    \cup [gatherer: {"local"}, readable: BOOLEAN]
    \cup [gatherer: {"dummy"}, fails: BOOLEAN]

MCFindings == [GathererNames -> SomeSources]
============================================================================
