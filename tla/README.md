# A TLA+ verification of the Jetstack Secure / Discovery agent

This directory holds TLA+ models of the agent in this repository, TLC
configurations that check them on small instances, and TLAPS proofs of their
most important properties for all values of the constants.  The code is the
reference: every definition is a translation of Go source, and `PROJECT.json`
names for each of them the lines it stands for (`map`).

Contents:

1. The system: components, state, interaction, what is hard
2. The modules and how they correspond to the code
3. What the runs check and show, with their bounds
4. Fairness
5. What is proved, from what and how
6. Findings and observations
7. What is not modelled
8. Plan

To reproduce: `tlasany M.tla` parses a module, `tlc -config X.cfg MCM.tla`
model-checks it, `tlapm MProofs.tla` checks its proofs.


## 1. The system

The agent runs in a Kubernetes cluster.  Every `--period` it gathers resources
(Secrets, Pods, Ingresses, ...) through a list of configured *data gatherers*
and uploads the *readings* to one of several backends.

```
   Kubernetes API server
        | list/watch (client-go informers)
        v
  k8s-dynamic gatherers ---- cache of resources (go-cache, 5m expiry)
        |  Fetch: select, exclude, redact, encrypt <--- public key (JWKS)
        v                                                  ^
  gathering loop (errgroup, backoff.Retry) <---- other gatherers (discovery, oidc)
        |  PostDataReadings                                |
        v                                                  |
  upload client: OAuth | API token | key pair | NGTS | VenafiConnection | CyberArk | file
        ^
        | mode, credentials, addresses
  configuration: flags + file + environment, combined and validated
```

| Component | State it keeps | Operations | What makes it correct |
|---|---|---|---|
| **Resource cache** (`pkg/datagatherer/k8sdynamic/cache.go`, `dynamic.go`) | items keyed by uid, with a deletion time and an expiry; the informer's store | `onAdd`, `onUpdate`, `onDelete`, `Fetch`, expiry | all live objects are cached, every object and every deletion is reported at least once, deletions are not taken back, stale items go away |
| **Exclusion, redaction, encryption** (`dynamic.go`, `fieldfilter.go`, `internal/envelope`) | none of its own: works in place on objects the cache and the informer share | `excludeResources`, `redactList`, `Select`, `Redact`, `encryptDataField` | nothing but allow-listed data is uploaded in clear; redaction of what is redacted changes nothing; ciphertexts are whole |
| **Agent process** (`pkg/agent/run.go`) | an errgroup and its context, the map of gatherers, the readings, the retries' clock | boot, gather, post, retry, sleep, shut down | ends only for a reason and then completely; gathers at bounded intervals; strict mode is strict |
| **CyberArk session** (`internal/cyberark/*`, `internal/envelope/keyfetch`, `client_cyberark.go`) | three caches: services (1h), the key fetcher's token (15m), the key (15m) | discover, log in, fetch the key, convert, presign, PUT | credentials go where service discovery says, keys are recent, snapshots are whole, nothing cached blocks for ever |
| **Token clients** (`client_oauth.go`, `client_venafi_cloud.go`, `client_ngts.go`) | one access token with a deadline | renew, post | uploads do not arrive with an expired token; uploads go on after any failure |
| **Configuration** (`pkg/agent/config.go`, client constructors) | none: a function of flags, file and environment | choose the mode, combine, validate, create the client | what is accepted suffices for the client: no panic, no empty address, one key pair; what a mode ignores changes nothing |
| **RBAC generator** (`pkg/permissions/generate.go`) | none | `agent rbac` | once applied, the agent may list what it is configured to gather, and nothing else but excluded namespaces |
| **The agent as a whole** (the cache's informer, the loop, the backend, Kubernetes) | all in memory: a process that ends forgets its caches, marks and readings | crash, restart, lost answer, broken watch | what the backend is shown was true a short while ago and lacks nothing that lasts; what it was told to be deleted it is not shown again; its view becomes the cluster's again |
| **Readings** (`api/datareading.go`, the gatherers' `Fetch`, `client_file.go`, `echo.go`) | none | encode, write, read, decode by trying types in turn | what is decoded is what was gathered |
| VenafiConnection's controller, API token client, the API server, telemetry, commands, charts | little or none | | see section 7 |

**How they interact.**  Calls: the loop calls each gatherer's `Fetch` in turn,
then the client's `PostDataReadingsWithOptions` under `backoff.Retry`, all on
one goroutine.  Callbacks: the informer's goroutine calls the event handlers.
Shared state: the go-cache between handlers, janitor and `Fetch`; the objects
themselves, which the cache shares with the informer's store and which
redaction changes in place; the group's context between the loop and every
goroutine.  Messages: the HTTP requests of the clients.

**What is hard**, and what the properties are aimed at (`hazards` in
`PROJECT.json` has all 40, each at its line):

- *ordering and lost notifications*: after a broken watch a relist merges a
  delete and a create into one update, and turns a missed delete into a
  tombstone that the handler does not understand;
- *races against expiry*: live items are kept only by the resync, of which there
  is none in an outage, however long it lasts; deleted ones have to be fetched
  in time, while an upload with retries takes long;
- *in-place redaction*: repeated at every Fetch on its own result, interleaved
  with fresh copies from the informer, and with an encryption that may fail for
  one object of many;
- *shutdown*: a goroutine fails at any moment, the period ends in the same
  moment, and Run waits for every goroutine, after one last attempt at most;
- *caches with different lives*: services, tokens and keys change at the server
  while old values are still in use, across six requests under a deadline;
- *clocks of two machines*: the life of a token is counted from different
  moments by its server and its client;
- *combinations of options*: fourteen flags, a file and an environment select
  among seven modes, each with its own preconditions, and the options it takes no
  notice of must not matter;
- *a process that ends*: it may be killed between any two steps, an upload may
  arrive whose answer does not, and nothing of the agent's state is persisted;
- *readings without a type*: the decoder guesses from the names of the fields.


## 2. The modules and the code

| Module | Models | Abstraction of the data |
|---|---|---|
| `ResourceCache` | informer, event handlers, `Fetch`, expiry | an object is a uid and a version; time in ticks of about a minute |
| `GathererContract` | abstract: what a gatherer promises to the backend, by object | an object is what the next Fetch returns of it |
| `ClusterMirror` | abstract: what the backend may be shown of a cluster | a reading is a set of objects, each live or deleted |
| `Redaction` | what `Fetch` does to each object, and the upload of the result | an object is sets of keys |
| `AgentSystem` | `ResourceCache` and `AgentRun` composed, with the backend, failures, kills and restarts | the backend's view is a set of objects, each live or deleted |
| `AgentRun` | `Run` and its goroutines, `gatherAndOutputData`, `gatherData`, `postData` | readings are the set of gatherers whose data is in them |
| `CyberArk` | every request of the session and every cache | a snapshot is a set of resources per list; a ciphertext is named by its key |
| `TokenClient` | the three clients that renew a token | a token is its age, its known age and its life |
| `AgentConfig` | mode switch, `ValidateAndCombineConfig`, constructors (operators only) | a setting is the name of where it came from, `""` if it is empty |
| `Permissions` | the manifest and what a cluster allows (operators only) | a role is its resource and group |
| `DataReadings` | readings, their JSON and its decoding (operators only) | a JSON value is its shape and the names of its fields |
| `Setup` | the commands that use them: `agent` up to its first upload, `agent rbac` up to `kubectl apply`, `agent --output-path` and then `--input-path`, `echo` | |
| `MC...` | constants for TLC | |
| `...Proofs` | theorems and proofs, each extending its module | |

Operators whose comment begins with "Faulty:" are no part of a specification.
Each is the definition that follows it with one plausible bug; substituted for
it, it breaks the property named with it under `mutants` in `PROJECT.json`.

### ResourceCache

`server` is what the API server holds, `store` what the informer believes, and
`pending[n]` the notifications of name `n` not yet handled.  The informer
(client-go) is external; it is modelled as `newDataGathererWithClient`
configures it, with a resync every 60s.  It delivers the notifications of one
name in order; between names no order is assumed.  `Create`, `Modify` and
`Remove` change the server and, while the watch is established, put the change
in the store and notify it in the same step; `LoseWatch` and `Relist` model an
outage, which may last for any time: the reflector retries for ever, and nothing
in the code limits how long it does so in vain.  There is no resync meanwhile, so
an outage that outlasts the expiry empties the cache; `Lapsed` is that
condition, and `LiveObjectsCached` says that it is the only one.  A uid is one incarnation of a name (`NameOf`), which is what makes a
delete and a create of one name distinguishable from an update.  `Handle` runs
`OnAdd`, `OnUpdate`, `OnDelete` or `OnTombstone`.  `CarriedDeletion`
is the condition of `updateCacheGatheredResource` as it is written,
`deletedAt.IsZero() && !deletedAt.IsZero()`.  go-cache's `Get` and
`Items` ignore expired items and its janitor purges them: `Visible`,
`WithoutExpired`, `Janitor`.  `deletions`, `seen` and `reported` are history
variables.  `SteadySpec` is the specification without the outages.

### GathererContract

The abstract specification of the resource cache.  For each object: `Learn`,
then `Follow` its changes forwards, then `Delete`, and `Forget` only
when a `Fetch` has told the deletion; never back to an earlier step.
`ResourceCache` implements it while its watch never breaks: `Held` maps the cache
to what the contract holds of the included objects (the visible items under the
objects' own uids) and `reported` to what is told.  The property is
`KeepsContract`.  In the contract nothing expires and there are no notifications, resyncs or
keys: what the refinement shows is that these never get in the way.  With
an outage they do; two of the findings are the ways in which.

### AgentSystem

The composition extends `ResourceCache` and instantiates `AgentRun` for a single
k8s-dynamic gatherer that loops for ever; it models nothing of the two again.
A step of it is a step of one module while the other stutters, or of both:
`Gather` is `AgentRun`'s gather and `Fetch`, and takes what is then posted
into `carried`; `Elapse` is a tick of both.  The informer acts only while the
gatherer's goroutine runs, and ends with it (`EndsRoutine`).  `view` is what the
last upload to reach the backend said, and `told` the deletions that ever
reached it.  `PostFails` may or may not have delivered the readings: the answer
was lost, or too late.  `Start` is a new process, which has nothing but its
configuration; it follows the end of the last one (`Restart`) or comes in the
midst of it (`Crash`: no signal is handled).  The backend is external, and
modelled from what the agent relies on: an upload replaces what it knew of the
gatherer's resources.

`gone` and `settled` are history variables: how long ago the server held each
object, and what the server has held, with the watch established, since before
the last tick.  They restrict nothing, and only `ClusterMirror` speaks of them.

### ClusterMirror

The abstract specification of the whole: a cluster that changes, a watch on it
that comes and goes, and a backend that is shown readings.  It knows of no
cache, notification, resync, retry or process.  A reading (`Read`) is any set of
items of which this is true:

- what it says to be deleted is gone for good;
- what it has as live the cluster held at most `Life` ticks ago, whatever
  deletions the watch has missed;
- every wanted object that has been on a watched cluster since before the last
  tick is in it, as live and in its present version, whatever outages and
  restarts there were before;
- until a watch has broken (`broken`), no object in it is live that was told to
  be deleted before, or is in it twice, or is older than the last version shown.

It may be shown any number of times, until it is `Patience` old, even if the one
who shows it does not learn that it did.  `AgentSystem` implements it
(`MirrorsCluster`) with the expiry of items for `Life` and twice the limit of
the retries for `Patience`: the reading is what is posted, its age the time
since the gather, and a crash is a `Restart`.  What the backend is shown as live
has therefore been in the cluster within the last 5 + 20 minutes, with the
defaults.  The third clause takes from `ResourceCache` that the handlers do not
fall behind the clock by a whole tick.

### Redaction

A pointer is a pair of a resource and a copy: every notification with a new
object delivers a fresh copy, the cache points to the last one handled, and
`BeginFetch` collects pointers that `RedactItem` redacts one by one, each
possibly failing to get the key.  The handlers run in between.  `Upload` reads
the objects through the pointers, as the client does when it marshals the
readings; no other Fetch runs before the upload is over.  A resync re-delivers
the pointer the cache already has and so changes nothing.  The error returns of
`redactList` need an object that the API server does not serve, and are left
out.  The order of the steps in `RedactSecret` (encrypt, then the
time of the last change, then select, then strip annotations) is the code's, and
matters: each reads what the next removes.

### AgentRun

`routine` has the goroutines of the errgroup, `cancelled` is the state of the
group's context, and `main` is where `Run` is.  `Return` is what happens
when `Run` returns: the deferred cancel, then `group.Wait()`.  The parent
context is never cancelled and no signal is handled, so that a killed process
simply starts again from `Init`.  Goroutines may return an error at any time
(`RoutineFails`) or nil (`RoutineReturns`): the API server and an informer only
when the context is done (`ReturnsWhenDone`), the other gatherers at once, and the
VenafiConnection controller when it likes, whereupon the code calls `cancel`.
Ticks are minutes, the unit of the
defaults; boot, a gather and the shutdown take no tick, and no time passes once
the context is cancelled, because every wait then ends.  `RetryAfter` is the
rule of `backoff.Retry` (v5): give up if the next attempt would start after
`MaxElapsedTime`.  In `PostFails`, each wait the randomised backoff may choose is
a choice.

### CyberArk

All requests are made by the goroutine of the loop, so the caches are never
used concurrently; what interleaves with each request are the clock and the
services (`Move`, `RotateKey`).  A request is one step, with the service's
answer and what the code does with it; time passes before it.  `stage` is the
next request.  `DiscoverServices`, `KeyCached` and `TokenReusable` are the three
caches.  `retired[x]` counts the ticks since an identity API or a key was last
the current one.  An API that has moved may still answer at its old address
(the step succeeds) or not (`Refused`).  One Secret stands for all of a gather,
since the first one fetches the key and the others find it in the cache or fail
in the same way.
`Snapshot` is `convertDataReadings` with `minimizeSnapshot`.  `IsExcludable` has
the paths of `isExcludableSecret` by class of Secret: no client certificate,
`tls.crt` missing or unreadable, data or type missing.  The first two are excluded.
A snapshot without the cluster's ID (`HasClusterID`) is refused before the upload
URL is asked for.

### TokenClient

`OAuthClient` counts a token's life from when the answer arrived, the key pair
clients from just before they asked; that is the difference between
`RenewAccessToken` and `UpdateAccessToken`.  `age` is measured from the moment
the server issued the token (`Issue`), `known` from the client's moment.
`Arrive` is the moment at which the backend judges the token.
`VenafiCloudClient` and `NGTSClient` are one kind: their token handling is a
copy, line for line but for the parameters of the request.  The locks of the two
clients protect nothing here, since the only caller is the loop.

### Setup, AgentConfig, Permissions, DataReadings

The commands are deterministic once their input is given: `Init` chooses it.
`given` is the set of flags and fields given, `world` the set of true facts
about the environment and the files (`"goodServer"`, `"credentialsFile"`, ...).
`Combined` computes the settings of `CombinedConfig` by the names of
their sources, so that `UploadsAddressed` can say that none is empty.
`Valid` is every check that can refuse; `NewClient` the
constructors', with outcome `"mistake"` where the code says that
the caller, not the user, is at fault.  `Applied` is what Kubernetes makes of a
manifest in which two roles have one name.  `Effect` is all that comes of an
input, and `Concerns` the options that an output mode takes notice of, reading or
refusing them.  `Concerns` is the code's view; its comment and section 6 say where
the comments of `config.go` have another.  `VenConnPost` is the first upload of the
VenafiConnection client, with both of its "programmer mistakes": `"mistake"` for the
empty cluster name, `"tokenless"` for the empty access token.  A `Gatherer` has its
included and excluded namespaces; the manifest looks at the former only.

A `Source` is what a gatherer finds, and `Fetch` its reading.  `Marshal`
keeps of the JSON what a decoder can tell apart: the names of the fields that are
not left out, and of a listed resource whether it has a kind and a deletion
time.  `Unmarshal` is the first of the three types whose fields suffice, as in
`UnmarshalJSON`.  `SetTypeMeta` is in it because an unstructured object cannot be
decoded without its kind, which the typed informers lose.


## 3. What the runs check and show

Twelve runs; seven pass, five show that the code does otherwise than a doc, a
comment or a test says (section 6).

| Run | Question | Bounds |
|---|---|---|
| `ResourceCache_steady` | While the watch never breaks: is everything under its own key, every deletion marked, every object ever seen reported, and is the abstract contract kept? | two names, one of them not included; three incarnations; 2 versions; at most 2 pending notifications per name |
| `AgentSystem_faults` | With broken watches, failing goroutines, failed and unanswered uploads, and kills at any time: are live objects cached except in an outage longer than their life, which deletions may be lost, is what the backend is shown a mirror of the cluster, and does its view become the cluster's? | one name, two incarnations of one version, any 2 faults, at most one broken watch, for any time, 2 pending; expiry 2, period 1, backoff 1, gaps up to 3 |
| `ResourceCache_recreated`, `ResourceCache_missed_delete` | (violated) the same two claims that hold without outage | one name, two incarnations, 2 versions, one outage, 3 pending |
| `Redaction_kinds` | For every kind of resource and configuration: what may an upload hold, and what must it? | one resource, 3 copies, 2 payload keys, 3 metadata keys, 5 contents, all configurations |
| `Redaction_reencrypted` | (violated) is every ciphertext that of the whole data? | one copy suffices: the second Fetch of an unchanged Secret |
| `AgentRun_lifecycle` | When does the process end, how, what does the loop still do once its context is cancelled, and how long may it be without a gather? | an informer gatherer and one without Run; all 16 configurations; period 1, backoff 3, waits 1 and 2 |
| `AgentRun_same_name` | (violated) is every configured gatherer fetched? | two gatherers of one name |
| `CyberArk_session` | Where does the password go, with which keys are Secrets encrypted, are snapshots whole, and do uploads and encryption resume? | 2 URLs, 2 keys, 4 directories (moved, without inventory, without identity), 2 changes, 1 failure; lives 3, 2, 2; backoff 2; a gather that is whole, one of which a Fetch failed, and readings without a cluster ID; Secrets of every class |
| `TokenClient_renewal` | Do uploads arrive with valid tokens, and do they go on? | both kinds, lives 0, 2 and 6, timeout and margin 2, backoff 3, 2 failures |
| `Setup_commands` | Does what the validation accepts suffice for every client; do options that a mode takes no notice of change nothing; does the manifest grant what is configured, and what besides; are readings decoded as they were gathered? | every combination of up to 5 of the options, with at most one fact about the environment missing; every pair of periods from -1, 0, 1 with up to 4 options; every list of up to 3 gatherers over 2 groups, 2 resources, 2 namespaces, any of them included, one of them or none excluded; any two gatherers, with up to 2 cached items |
| `Setup_namespaced` | (violated) may every informer list what it lists? | as above |

**Why these bounds are enough.**

- *ResourceCache*: the hazards need two incarnations of one name, a third object
  to be disturbed by them, and queues long enough for a deletion, a creation and
  an update to be pending at once.  The expiry (2 ticks) is longer than the
  resync period (1) as in the code (5m and 60s), and `FetchGap` equal to the
  expiry is the tight case of the theorems' assumption.
- *AgentSystem*: the hazards need an object that is deleted and created again, an
  upload that lasts longer than an item lives (period 1 and twice a backoff of 1
  exceed the expiry of 2), and two faults, so that a process may end while an
  upload of its predecessor's state is the last that arrived, or a watch may
  break in either.  An outage lasts as long as it likes, so that every item may
  expire while the agent goes on gathering and uploading.  With one version and one name the run does not see that views
  never go back to an earlier version, or that only included resources are in
  them: these parts of `MirrorsCluster` rest on its proof alone, which is for any number of either.
  Uids are opaque, and nothing tells the two incarnations apart but the order
  in which they are created.  The run's `CONSTRAINT` has one of them first
  (`InOrder`), which leaves out only behaviours that are others with the two
  exchanged; it is no bound on a behaviour, and no fairness is assumed of the
  server whose steps it restricts.
- *Redaction*: objects do not influence each other, so one resource does; three
  copies let the cache move on while one copy is being redacted and another is
  still to be uploaded.  The theorems hold for any number of each.
- *AgentRun*: one goroutine of each behaviour.  With a backoff limit of 3 and waits
  of 1 and 2 Retry gives up after two or three attempts, and an attempt may begin
  at the limit.
- *CyberArk*: the relations between the lives matter, not the lives.  The
  services live longer than retries go on (1h and 10m), as 3 ticks do 2, so that
  a cached response can end an upload; the token and the key live equally long.  Two changes allow for a move and a move back, or a
  move and a rotation; one failure puts a retry or a missed key between
  any two requests.  One Secret of each class, and one deleted, are all that the
  minimisation tells apart.
- *TokenClient*: a life that is none, one that is below twice the timeout and one above it;
  timeout and margin are equal, as in the code (1m).  The cap on ages lies beyond
  all that is asserted, which an assumption states and TLC evaluates.
- *Setup*: with five options all seven modes reach an upload, and most have
  options left over that belong to another mode, which
  `IgnoredOptionsIrrelevant` takes away one by one.  Which of the two namespaces is
  excluded makes no difference, so one is.  Readings do not influence
  each other but in that one of them may make a file unreadable: two suffice.
  The theorems hold for all inputs and findings.

All bounds are constants named in the modules (`MaxVersion`, `MaxOutages`,
`QueueBound`, `MaxCopies`, `RetiredCap`, `MaxChanges`, `MaxFailures`, `AgeCap`,
`MaxFaults`,
`MaxOptions`, `MaxWithPeriods`, `MaxItems`).  No run uses symmetry sets, because most check
temporal properties; `AgentSystem_faults` orders its two uids instead.

Deadlock is checked where the system is to run for ever (`ResourceCache`,
`AgentSystem`, `Redaction`, `CyberArk`, `TokenClient`).  It is not for `AgentRun` and `Setup`:
a process, or a command, ends.


## 4. Fairness

Four of the passing runs check liveness.

- `AgentSystem` (`SysFairSpec`): the informer's goroutine lists, handles what is
  pending and resyncs (client-go's reflector retries for ever); the loop and the
  goroutines take their next step, and a container that has ended is started
  again; the clock goes on.  Nothing is assumed of the server, and nothing of
  any upload in particular: faults are finitely many by `MaxFaults`, and
  `BackendConverges` speaks of the time after the last of them and after the
  server's last change, which there is because versions and incarnations are
  bounded.
- `AgentRun`: `Run` takes its next step; a goroutine returns when the context is
  done (informers stop on it, `http.Server.Shutdown` is given 3s, the controller
  returns); time passes.  No goroutine need fail, and no upload need succeed:
  every request has a deadline.
- `CyberArk` and `TokenClient`: a request ends, one way or the other; time passes
  while the agent waits for it to; and Kubernetes restarts a container that has
  exited (the charts deploy the agent as a Deployment).  Failures and changes of
  the services are finitely many, by `MaxFailures` and `MaxChanges`; the liveness
  properties are about the time after the last of them, and demand explicitly
  that what a directory or a gather offers is then complete.

Time is never forced to pass while a request is under way: a request may take
any time up to its deadline, including none.


## 5. What is proved

TLAPS proves 38 theorems in eight modules, for all constants that satisfy the
assumptions the modules state.  All of them concern safety.

| Module | Theorems | Inductive invariant, and why it is needed |
|---|---|---|
| `ResourceCacheProofs` | `TypeCorrect`, `DeletionFinal`, `LiveStaysCached`, `DeletionsAreReported` | `IInv`: a working watch keeps store and server equal (`WatchedStore`); every object is under its own name (`PlacedAt`); the notifications of a name form a chain from what was handled to the store (`ChainedAt`); and a uid that a chain has passed does not come back (`GoneAt`, `Buried`).  That a deletion mark is never taken back follows only from the last: no code in the handlers sees to it.  The two others add a bound on the age of items. |
| `ContractProofs` | `OwnKeys`, `GoneAreMarked`, `SeenAreReported`, `CacheKeepsContract` | for `SteadySpec`, `SInv`: `IInv` above, notifications that join no two incarnations and go forwards (`FaithfulAt`), live items that are exactly what the handlers know (`KeyAt`), and objects told deleted that are nowhere any more (`ToldAt`).  The refinement is shown step by step: the server's and the informer's steps, and the janitor's, stutter; `Handle` is `Learn`, `Follow`, `Delete` or a stutter; `Fetch` is `Fetch`; a tick is `Forget`. |
| `AgentSystemProofs` | `SystemTypeCorrect`, `SystemKeepsMarks`, `SystemKeepsLive`, `DeletionsAreUploaded`, `DeletedStaysDeleted`, `BackendMirrorsCluster` | every step is a step of `ResourceCache`, leaves it alone, ends the informer or begins a process (`CacheStep`), and likewise of `AgentRun`; so both modules' invariants hold of the composition once they survive the two kinds of step neither has.  For `DeletionsUploaded` (`OnTime`, `Sent`): a marked item is younger than the process has been without a gather, and what is carried was marked.  For `NeverShownAgain` (`Unbroken`, `ClearOf`, `Consistent`): what is shown, carried or cached as live is not told, or its deletion is still to be handled.  For the refinement, `MirrorInv`, below. |
| `RedactionProofs` | `TypeCorrect`, `NothingSensitive`, `PublicDataKept`, `LastModifiedKept`, `OpaqueCiphertextKept` | every delivered object is `SoundObject`, from its delivery on; redaction of a sound object is sound and `ReadyObject` (`RedactedReady`); what is fetched but for `todo` is ready. Nothing more than soundness can be said of the cache, since a new copy may be in it at any time. |
| `AgentRunProofs` | `TypeCorrect`, `CleanExitsAreDue`, `CancelledLoopEnds`, `GapBetweenGathers`, `StrictUploadsAreComplete` | what is started is in the map (`Started`), `Run`'s result and the ends of goroutines are accounted for (`Outcome`), and the time since the last gather is split over attempt, wait and sleep (`Elapsed`). |
| `CyberArkProofs` | `TypeCorrect`, `PasswordStaysRecent`, `KeysStayRecent`, `SnapshotsAreWhole` | what is cached and within its life has been retired for no longer than it has been cached (`ServicesCachedWhileCurrent`, `KeyCachedWhileCurrent`); services in use were so when the attempt took them (`TakenWhileRecent`); from the login on the readings convert, and what was sent is their snapshot (`ConvertedInv`). |
| `TokenClientProofs` | `TypeCorrect`, `KeypairArrivesInTime`, `OAuthArrivesSoon` | what a key pair's client knows of its token's age is at least the age, an OAuth client's is less by at most the time an attempt may take (`KnownAge`); when an upload is sent the known age is within the life (`SentInTime`). |
| `SetupProofs` | `TypeCorrect`, `ValidationSuffices`, `OthersOptionsIgnored`, `ReadingsSurvive`, `UploadsNameTheCluster`, `OneKeyPair`, `ManifestGrantsAsConfigured` | the configuration in use was combined from a valid input, and the client made from it (`AgentInv`); the cluster has the manifest of the gatherers (`RbacInv`); the file is the encoding of what was found, and what is read is that again (`ReadingInv`).  The proofs are case distinctions over modes and types.  That options are ignored is shown lemma by lemma: the mode stays (`SameMode`), the validation (`SameValid`), the settings in use (`SameSettings`) and the client (`SameClient`). |

**`BackendMirrorsCluster`**, that `SysSpec` implements `ClusterMirror`, is the
result that says most.  Each clause of `Read` needs an invariant of its own, since
a reading is taken from the cache and the cache is several steps behind the cluster:

- `Fresh`: an item was handled no later than its age after the server still had
  its object, and what is notified is as recent as the clock.  It needs that the
  clock waits for the handlers and that an item's age restarts only with a notification.
- `Final`: a deletion that is marked, carried or told is of an object that has
  departed from server, store and queues, and cannot be created again.  Every
  deletion is marked under its own uid (`MarkedOwn`), although after an outage
  a live item may be under another's.
- `InOrder`: server, store, queue and cache are ordered by version, and each is ahead of
  what has been carried or shown, also of what an earlier process has shown.
- `Settled`: what has lasted for a tick of a watch has been handled, nothing else of its
  name is pending, and it is cached unexpired.  It rests on `ResyncPeriod <= Expiry`:
  while the watch holds, resyncs come in time.
- `Forwards`, until a watch has broken: the cache holds each object once and no older than what is carried,
  and what is carried is no older than what is in view.

`MirrorStep` then shows it action by action: changes of the server, the watch
and the clock are those of the mirror (`ServerChanges`, `WatchChanges`), a gather
is a `Read` (`GatherReads`), a post a `Show` or a `Drop` (`PostShows`), the end
of a process a `Restart`, and all else a stutter (`OthersStutter`).
`DeletedStaysDeleted` has no run of its own, since the mirror
implies it; its proof provides the invariant `Quiet` to `Forwards`.

Some theorems are conditional.  `DeletionsAreReported`, and `SeenAreReported` and
`CacheKeepsContract` of `ContractProofs`, assume that no two fetches are further
apart than an entry lives (`FetchGap <= Expiry`); `DeletionsAreUploaded` needs no
such premise, since the property itself says what a late gather loses.  The
theorems of `ContractProofs` are about a watch that does not break, as
`SteadySpec` says.  `ResourceCache` assumes `ResyncPeriod <= Expiry` (60s and 5m, both
constants of the code) and nothing of how long an outage lasts: `LiveStaysCached`,
`SystemKeepsLive` and `BackendMirrorsCluster` have no premise of their own.
`KeypairArrivesInTime` rests on `Timeout <= Margin`, an assumption of its module.
Section 6 says where the default settings fall short of the premise about fetches.
The other assumptions are that constants are natural numbers and that
model values are distinct.

**Only model-checked**: the liveness properties (`BackendConverges`, `ShutsDown`,
`KeepsGathering`, `UploadsResume`, `EncryptionResumes`, `UploadsGoOn`), which are
out of the prover's reach.  Every invariant and every action property of a
passing run is proved.  The five violations are TLC's counterexamples.


## 6. Findings and observations

`PROJECT.json` quotes for each finding the doc, comment or test it is held against.
First the five violated runs.

1. **A recreated object is cached under the uid of the one it replaced**
   (`ResourceCache_recreated`).  A relist after a broken watch delivers delete
   and create as one update, and `onUpdate` uses the old object's uid as key.
   The deletion of the old object is not reported.  It heals: the resync
   stores the object under its own uid, and the wrong entry expires
   (so does the backend's view of it, by `BackendConverges`).
2. **A deletion missed by the watch is never marked**
   (`ResourceCache_missed_delete`).  It arrives as a
   `DeletedFinalStateUnknown`, which `onDelete` logs and drops.  The
   object is uploaded as live until its entry expires, and no longer
   (`MirrorsCluster`, whose second clause is a bound on just this).
3. **A Secret that is fetched twice loses its ciphertext's private part**
   (`Redaction_reencrypted`).  Redaction changes the shared object, so the next
   Fetch encrypts only what the first has left.  For Secrets without
   allow-listed keys nothing is left to encrypt and the first ciphertext stays
   (`OpaqueCiphertextWhole` holds, and is proved); it also stays the ciphertext
   of the key of that time.
4. **Of two gatherers of one name only the last is fetched**
   (`AgentRun_same_name`), though a document configures two of one name.
5. **`include-namespaces` gatherers lack a permission** (`Setup_namespaced`).  The
   manifest binds their roles in the included namespaces only; their informers
   list all namespaces.

Seven more are comments that say otherwise than the code does.  There the code is
taken for what is meant, or at least for what there is: the property of a passing
run states what the code does, and would not hold of what the comment says.

6. **The cache does not hold "all resources watched"** (dynamic.go:371) once the API
   server could not be listed or watched for 5 minutes: nothing keeps live items
   from expiring then, and the agent uploads empty readings until the relist
   (`LiveObjectsCached` in `AgentSystem_faults`).
7. **A goroutine's end does not always cancel the context.**  run.go:268-270 has it
   that any exit "(with nil or error)" does.  A nil return of a gatherer's
   goroutine does not, on purpose (219-223); that of the VenafiConnection
   controller does, by an explicit call (155-156).  If every one did, any agent
   could end without an error (`CleanExit` in `AgentRun_lifecycle`).
8. **Secrets are not always kept in doubt.**  client_cyberark.go:302-304 and 332-333
   keep a Secret if it cannot be analysed or decoded; a TLS Secret whose `tls.crt`
   is missing, is not base64 or does not parse is excluded
   (`SentLastGathered` in `CyberArk_session`).
9. **`--credentials-file` is not ignored beside a key pair** (config.go:930-931) but
   refused (915-922) (`KeyPairUnambiguous` in `Setup_commands`).
10. **`cluster_id` is not only used in Jetstack Secure modes** (config.go:53, 421):
    with a Venafi Cloud key pair or a VenafiConnection it is the cluster's name if
    there is no other (728-741) (`IgnoredOptionsIrrelevant`).
11. **`--output-path` with `--one-shot` does not always write a file instead of
    uploading** (config.go:140-142, 269): any option that selects another mode
    goes first, and the file is then not written (`IgnoredOptionsIrrelevant`).
12. **Excluded namespaces get no `RoleBinding`s** (generate.go:19-22): a gatherer with
    `exclude-namespaces` gets a `ClusterRoleBinding`, which grants the excluded
    namespaces too (`GrantsAsConfigured`).

Further observations, each modelled as the code has it and covered by a weaker
property or a hazard's note:

- With the defaults two gathers may be 1 + 2 * 10 minutes apart
  (`FetchGapBounded` is tight), while an entry lives 5: during a long upload
  deletions can come and go unreported.  `DeletionsUploaded` says that this
  (`late`) and the end of the process are the only ways to lose one; after a
  restart the backend has to infer them from what is missing, since the new
  process never learns of them.
- The wait for the caches ends after 5s, synced or not: a first upload may be
  partial or empty, and replaces what the backend knew (`view`) until the next.
  It can lack only what has not been watched for a tick (`MirrorsCluster`).
- `getValidAccessToken` "returns a valid access token" (client_oauth.go:173),
  but a token counted from the arrival of the answer may have expired at the
  server; `OAuthBarelyExpired` bounds by how much.
- No refusal of an upload makes a client discard its token; with OAuth or a
  long life the retries end first, and the restart brings the new token.
- The key fetcher keeps the identity API found at boot: once it moves, Secrets go
  without ciphertext until the agent restarts.  `EncryptionResumes` claims
  only the case in which it did not move.  Its own login may go to an API
  long retired; `PasswordToRecentIdentity` is about uploads.
- Negative periods are accepted and mean 0; a positive flag with a negative
  field does, too (`NoProgrammerMistake` excepts them).
- Two gatherers for resources of one name in two API groups get one role between them
  (`RolesDistinct`), and kind `"k8s"` gets none.
- In the modes VenafiConnection, MachineHub and LocalFile a malformed `server`,
  which the mode makes no use of, is refused (`ParsedThoughIgnored`).  Of the
  options that the code of a mode otherwise takes no notice of (those not in
  `Concerns`) it is the only one that changes anything; this says nothing of
  options that a comment calls unused and the code uses (finding 10).
- With a Venafi Cloud key pair an `--api-token`, or the variable API_TOKEN, is ignored
  without a word, where NGTS refuses it; so are most options that would select
  a mode which comes later in the switch.
- The help of `--venafi-cloud` (config.go:236) says that it turns on the OAuth mode;
  with a credentials file it selects the key pair mode (490-491), and by itself no mode.
- An empty access token from the library that resolves a VenafiConnection is called
  a programmer mistake, but no validation could rule it out; the upload fails
  with that error (`"tokenless"` in `NoProgrammerMistake`).
- A file with a reading of the local or the dummy gatherer, or of an OIDC gatherer
  that got two empty documents, cannot be read back at all
  (`DecodedAsGathered`).
- A gatherer whose configuration does not decode runs with an empty one
  (`reMarshal`, config.go:1057, swallows both errors).


## 7. What is not modelled, and why

- *File, API token and VenafiConnection clients*: one request or file per
  upload.  What they demand of the configuration is in `AgentConfig`; the
  VenafiConnection client's tokens are renewed by a library, whose controller is a
  goroutine of `AgentRun`.
- *The dummy gatherer's count of attempts*: its `Fetch` may fail or not.
- *Cryptography*: a ciphertext is the pair of its plaintext and its key.
- *The data race on shared maps* (redaction deletes keys from an object whose
  metadata the informer's goroutine may be reading): its outcome is a crash
  of the Go runtime, listed as a hazard.
- *`--backoff-max-time=0`*: excluded by `TimeAssumption`; with it no attempt can succeed
  and none is the last.
- *The decision of a gather without an encryptor*: if it cannot be set up at boot,
  Secrets go without ciphertexts for the life of the process (`BootWithoutKeys`
  in `CyberArk`); the code asks for no more than a log entry.
- *Objects dropped by the exclusion patterns*: modelled as the code and its tests
  have it (`Redaction`); the chart's README says that they are kept without
  the keys.
- *Natively typed objects and `RedactFields`*: of those objects only managed fields and
  the last applied configuration are removed; other annotations named there
  are not.
- *Health and metrics handlers, telemetry header, command line wiring,
  logging, charts, test utilities*: no state on which the
  properties depend.
- *Formatting* of errors, YAML and JSON everywhere.


## 8. Plan

Built, in this order: `ResourceCache` (with `GathererContract` above it),
`Redaction`, `AgentRun`, `CyberArk`, `TokenClient`, `Setup` with `AgentConfig`
and `Permissions`; each with its runs and then its proofs.  Then
`AgentSystem`, the composition with its faults, restarts and backend;
`DataReadings`; and `ClusterMirror`, what the composition promises to the
backend, outages included.

Left, in order of what it would show:

1. `AgentSystem` with two gatherers, and with the CyberArk session as the
   client, so that a key fetch that fails meets a restart.
2. `--backoff-max-time=0`, as a specification of its own, since `AgentRun`'s
   bounds all rest on the limit.
