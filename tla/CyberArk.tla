------------------------------ MODULE CyberArk ------------------------------
(***************************************************************************)
(* The session with CyberArk's services (internal/cyberark, internal/      *)
(* envelope/keyfetch and pkg/client/client_cyberark.go).  A gather fetches *)
(* the key its Secrets are encrypted with; each attempt to upload discovers *)
(* the services of the tenant, converts and minimises the readings, logs in *)
(* with a new identity client, asks the inventory API for an upload URL and *)
(* PUTs the snapshot there.  Three caches outlive these calls: the services *)
(* discovered (1h), the token of the key fetcher's identity client (15m)   *)
(* and the key (15m).  All of it runs on the goroutine of the agent's loop; *)
(* what changes under its feet are the services and the clock.             *)
(*                                                                         *)
(* A request is one step: the service's answer, if there is one, and what  *)
(* the code does with it.  Time passes before it.  An API that has moved   *)
(* may still answer where it was, or not.                                  *)
(***************************************************************************)
EXTENDS Naturals, Sequences

CONSTANTS
    Endpoint,      \* URLs an API may have
    Directory,     \* the answers service discovery may give
    FirstDirectory,
    Key,           \* public keys the JWKS endpoint may serve
    FirstKey,
    None,          \* no URL, no key, nothing cached
    DiscoveryTTL,  \* life of the discovered services (1h)
    TokenTTL,      \* life of the key fetcher's token (15m)
    KeyTTL,        \* life of the key (15m)
    BackoffMax,    \* --backoff-max-time, for the retries and for each attempt
    RetryWait,     \* the wait between two attempts
    Period,        \* --period
    RetiredCap,    \* bound: retired counts no further
    MaxChanges,    \* bound: changes of the services
    MaxFailures,   \* bound: requests that fail though the service is there
    ListGatherers, \* the gatherers of resources: "ark/secrets", "ark/pods", ...
    Gathered       \* the readings a gather may have, see Reading

ASSUME TimeAssumption ==
    /\ DiscoveryTTL \in Nat \ {0} /\ TokenTTL \in Nat \ {0} /\ KeyTTL \in Nat \ {0}
    /\ BackoffMax \in Nat \ {0} /\ RetryWait \in Nat \ {0} /\ Period \in Nat \ {0}

\* What is asserted of retired is never beyond the count's bound.
ASSUME CapAssumption ==
    RetiredCap \in Nat /\ RetiredCap >= DiscoveryTTL + BackoffMax /\ RetiredCap >= KeyTTL

ASSUME EndpointAssumption ==
    /\ Endpoint \cap Key = {}
    /\ None \notin Endpoint \cup Key

\* The identity API and the inventory (discoverycontext) API of the tenant;
\* either may be missing.
Services == [identity : Endpoint \cup {None}, inventory : Endpoint \cup {None}]
NoServices == [identity |-> None, inventory |-> None]

ASSUME DirectoryAssumption ==
    Directory \subseteq Services /\ FirstDirectory \in Directory /\ FirstKey \in Key

ASSUME BoundAssumption == MaxChanges \in Nat /\ MaxFailures \in Nat

VARIABLES
    directory,      \* what service discovery answers now
    publicKey,      \* the key the JWKS endpoint serves now
    retired,        \* ticks since an identity API, or a key, was last current
    changes, failures,
    stage,          \* the request to make next, or what Run waits for
    cachedResponse, \* servicediscovery.Client: the services and their age
    identityClient, \* keyfetch.Client: the identity API it was created with
    tokenCached,    \* the token of that identity client and its age
    cachedKey,      \* keyfetch.Client: the key and its age
    services,       \* the result of DiscoverServices in use
    readings,       \* of the last gather
    cipherKey,      \* the key its Secrets were encrypted with
    sent,           \* the snapshot uploaded, while Run sleeps
    elapsed, posting, wait

server == <<directory, publicKey, changes>>
caches == <<cachedResponse, tokenCached, cachedKey>>
clock == <<elapsed, posting, wait>>
vars == <<directory, publicKey, retired, changes, failures, stage,
          cachedResponse, identityClient, tokenCached, cachedKey, services,
          readings, cipherKey, sent, elapsed, posting, wait>>

Current(x) == x = directory.identity \/ x = publicKey

KeyStages == {"keyDiscover", "keyLogin", "keyAdvance", "keyGet"}
PostStages == {"discover", "login", "advance", "presign", "put"}
Stages == KeyStages \cup PostStages \cup {"boot", "gather", "retry", "sleep", "exited"}

Init ==
    /\ directory = FirstDirectory
    /\ publicKey = FirstKey
    /\ retired = [x \in Endpoint \cup Key |-> 0]
    /\ changes = 0
    /\ failures = 0
    /\ stage = "boot"
    /\ cachedResponse = None
    /\ identityClient = None
    /\ tokenCached = None
    /\ cachedKey = None
    /\ services = NoServices
    /\ readings = <<>>
    /\ cipherKey = None
    /\ sent = None
    /\ elapsed = 0
    /\ posting = 0
    /\ wait = 0

-----------------------------------------------------------------------------
(* The snapshot.  An operator whose comment begins with "Faulty" is no part *)
(* of the specification: it is what the definition after it would be with  *)
(* a plausible bug in the code.                                            *)

\* An object by what the minimisation tells apart.  A TLS Secret has, in its
\* tls.crt, a client certificate; certificates that are none; or nothing to be
\* read, be tls.crt missing, of another type, or not to be decoded or parsed.
\* A doubtful Secret is one whose data or type is missing or malformed.
Class == {"client", "server", "unreadable", "doubtful", "plain"}
Item == [id : Nat, class : Class, deleted : BOOLEAN]
DataType == {"oidc", "discovery", "dynamic"}

\* clusterID: does the reading of "ark/discovery" have the cluster's ID?
Reading == [gatherer : STRING, type : DataType, items : SUBSET Item,
            clusterID : BOOLEAN]

\* A gather has one reading of each name, for they come from a map; items are
\* in the readings of resources only.
ASSUME ReadingAssumption ==
    /\ {"ark/oidc", "ark/discovery"} \cap ListGatherers = {}
    /\ Gathered \subseteq Seq(Reading)
    /\ \A rs \in Gathered :
         /\ \A i, j \in DOMAIN rs : rs[i].gatherer = rs[j].gatherer => i = j
         /\ \A i \in DOMAIN rs : rs[i].type # "dynamic" => rs[i].items = {}

Extractors == {"ark/oidc", "ark/discovery"} \cup ListGatherers
ExtractedType(gatherer) ==
    CASE gatherer = "ark/oidc" -> "oidc"
      [] gatherer = "ark/discovery" -> "discovery"
      [] OTHER -> "dynamic"

\* convertDataReadings returns no error: no reading is missing or unhandled,
\* and each has the data its extractor expects.
Converts(rs) ==
    /\ {rs[i].gatherer : i \in DOMAIN rs} = Extractors
    /\ \A i \in DOMAIN rs : rs[i].type = ExtractedType(rs[i].gatherer)

\* Faulty: deleted resources are not skipped.
ExtractAll(reading) == reading.items

Extract(reading) == {o \in reading.items : ~o.deleted}

\* isExcludableSecret.  The paths of isExcludableTLSSecret on which tls.crt
\* cannot be read exclude the Secret, as if it held no client certificate.
IsExcludable(o) == o.class \in {"server", "unreadable"}

Minimize(list) == {o \in list : ~IsExcludable(o)}

HasClusterID(rs) ==
    \E i \in DOMAIN rs : rs[i].gatherer = "ark/discovery" /\ rs[i].clusterID

\* The resources of each list; of two readings of a name, the last counts.
Snapshot(rs) ==
    [g \in ListGatherers |->
        LET last == CHOOSE i \in DOMAIN rs :
                      /\ rs[i].gatherer = g
                      /\ \A j \in DOMAIN rs : rs[j].gatherer = g => j <= i
        IN IF g = "ark/secrets" THEN Minimize(Extract(rs[last]))
           ELSE Extract(rs[last])]

-----------------------------------------------------------------------------
(* The services and the clock. *)

Move ==
    /\ changes < MaxChanges
    /\ \E d \in Directory \ {directory} : directory' = d
    /\ changes' = changes + 1
    /\ retired' = [x \in DOMAIN retired |->
         IF x = directory'.identity THEN 0 ELSE retired[x]]
    /\ UNCHANGED <<publicKey, failures, stage, caches, identityClient, services,
                   readings, cipherKey, sent, clock>>

RotateKey ==
    /\ changes < MaxChanges
    /\ \E k \in Key \ {publicKey} : publicKey' = k
    /\ changes' = changes + 1
    /\ retired' = [retired EXCEPT ![publicKey'] = 0]
    /\ UNCHANGED <<directory, failures, stage, caches, identityClient, services,
                   readings, cipherKey, sent, clock>>

\* The age of a cached value, which nothing reads once it is past its life.
Aged(cached, ttl) ==
    IF cached # None /\ cached.age < ttl THEN [cached EXCEPT !.age = @ + 1]
    ELSE cached

\* An attempt ends by its own deadline; a wait, when it is over.
Tick ==
    /\ stage \in PostStages => posting < BackoffMax
    /\ stage \in {"retry", "sleep"} => wait > 0
    /\ stage # "exited"
    /\ retired' = [x \in DOMAIN retired |->
         IF ~Current(x) /\ retired[x] < RetiredCap THEN retired[x] + 1
         ELSE retired[x]]
    /\ cachedResponse' = Aged(cachedResponse, DiscoveryTTL)
    /\ tokenCached' = Aged(tokenCached, TokenTTL)
    /\ cachedKey' = Aged(cachedKey, KeyTTL)
    /\ posting' = IF stage \in PostStages THEN posting + 1 ELSE posting
    /\ elapsed' = IF stage \in PostStages \cup {"retry"} THEN elapsed + 1 ELSE elapsed
    /\ wait' = IF stage \in {"retry", "sleep"} THEN wait - 1 ELSE wait
    /\ UNCHANGED <<server, failures, stage, identityClient, services, readings,
                   cipherKey, sent>>

-----------------------------------------------------------------------------
(* servicediscovery.Client *)

\* Faulty: the cached services are used without a look at their age.
DiscoverServicesOnce(result) ==
    IF cachedResponse # None
    THEN /\ result = cachedResponse.services
         /\ UNCHANGED cachedResponse
    ELSE /\ directory.identity # None
         /\ result = directory
         /\ cachedResponse' = [services |-> directory, age |-> 0]

DiscoveryCached == cachedResponse # None /\ cachedResponse.age < DiscoveryTTL

\* DiscoverServices returns result, from the cache or from the service.  A
\* response without the inventory API is cached like any other.
DiscoverServices(result) ==
    IF DiscoveryCached
    THEN /\ result = cachedResponse.services
         /\ UNCHANGED cachedResponse
    ELSE /\ directory.identity # None
         /\ result = directory
         /\ cachedResponse' = [services |-> directory, age |-> 0]

\* It cannot: the response has no identity API.
DiscoveryRefused == ~DiscoveryCached /\ directory.identity = None

-----------------------------------------------------------------------------
(* keyfetch.Client, in a gather *)

\* loadEncryptor: the key fetcher's identity client is created with the
\* identity API of this moment.
Boot ==
    /\ stage = "boot"
    /\ \E s \in Services :
         /\ DiscoverServices(s)
         /\ identityClient' = s.identity
    /\ stage' = "gather"
    /\ UNCHANGED <<server, retired, failures, tokenCached, cachedKey, services,
                   readings, cipherKey, sent, clock>>

\* The agent runs without an encryptor.
BootWithoutKeys ==
    /\ stage' = "gather"
    /\ UNCHANGED <<identityClient, services, cipherKey, clock>>

\* The upload of the readings begins.
BeginUpload ==
    /\ stage' = "discover"
    /\ services' = NoServices
    /\ UNCHANGED clock

\* Faulty: a key once fetched is used for good.
KeyCachedOnce == cachedKey # None

KeyCached == cachedKey # None /\ cachedKey.age < KeyTTL

\* FetchKey, up to its first request.  One Secret stands for all of a gather.
Gather ==
    /\ stage = "gather"
    /\ readings' \in Gathered
    /\ IF identityClient # None /\ ~KeyCached
       THEN /\ stage' = "keyDiscover"
            /\ UNCHANGED <<cipherKey, services, clock>>
       ELSE /\ cipherKey' = IF identityClient # None THEN cachedKey.key ELSE None
            /\ BeginUpload
    /\ UNCHANGED <<server, retired, failures, caches, identityClient, sent>>

KeyDiscover ==
    /\ stage = "keyDiscover"
    /\ \E s \in Services :
         /\ DiscoverServices(s)
         /\ services' = s
    /\ stage' = "keyLogin"
    /\ UNCHANGED <<server, retired, failures, tokenCached, cachedKey,
                   identityClient, readings, cipherKey, sent, clock>>

\* Faulty: the client has logged in before.
TokenReusableOnce == tokenCached # None

TokenReusable == tokenCached # None /\ tokenCached.age < TokenTTL

\* LoginUsernamePassword of the long-lived identity client, up to the answer
\* to StartAuthentication.
KeyLogin ==
    /\ stage = "keyLogin"
    /\ IF TokenReusable
       THEN stage' = "keyGet"
       ELSE stage' = "keyAdvance"
    /\ UNCHANGED <<server, retired, failures, caches, identityClient, services,
                   readings, cipherKey, sent, clock>>

\* AdvanceAuthentication.  A token may be empty, if the service's response has
\* none, and is cached nevertheless.
KeyAdvance ==
    /\ stage = "keyAdvance"
    /\ \/ /\ tokenCached' = [empty |-> FALSE, age |-> 0]
          /\ UNCHANGED failures
       \/ /\ failures < MaxFailures
          /\ tokenCached' = [empty |-> TRUE, age |-> 0]
          /\ failures' = failures + 1
    /\ stage' = "keyGet"
    /\ UNCHANGED <<server, retired, cachedResponse, cachedKey, identityClient,
                   services, readings, cipherKey, sent, clock>>

KeyGet ==
    /\ stage = "keyGet"
    /\ ~tokenCached.empty
    /\ services.inventory # None
    /\ cachedKey' = [key |-> publicKey, age |-> 0]
    /\ cipherKey' = publicKey
    /\ BeginUpload
    /\ UNCHANGED <<server, retired, failures, cachedResponse, tokenCached,
                   identityClient, readings, sent>>

\* Faulty: a gather does not go on without the key.
KeyFailsAndRetries ==
    /\ stage' = "keyDiscover"
    /\ UNCHANGED <<identityClient, cipherKey, services, clock>>

\* The Secrets are redacted without having been encrypted.
KeyFails ==
    /\ cipherKey' = None
    /\ BeginUpload
    /\ UNCHANGED identityClient

-----------------------------------------------------------------------------
(* CyberArkClient.PostDataReadingsWithOptions, and the retries around it *)

\* Faulty: the services are not looked at before the login.
DiscoverUnchecked ==
    /\ stage = "discover"
    /\ \E s \in Services :
         /\ DiscoverServices(s)
         /\ services' = s
    /\ Converts(readings)
    /\ stage' = "login"
    /\ UNCHANGED <<server, retired, failures, tokenCached, cachedKey,
                   identityClient, readings, cipherKey, sent, clock>>

Discover ==
    /\ stage = "discover"
    /\ \E s \in Services :
         /\ DiscoverServices(s)
         /\ s.inventory # None
         /\ services' = s
    /\ Converts(readings)
    /\ stage' = "login"
    /\ UNCHANGED <<server, retired, failures, tokenCached, cachedKey,
                   identityClient, readings, cipherKey, sent, clock>>

\* The services are discovered, but there is no inventory API among them or
\* the readings cannot be converted.
DiscoverInVain ==
    \E s \in Services :
        /\ DiscoverServices(s)
        /\ s.inventory = None \/ ~Converts(readings)

\* StartAuthentication, and AdvanceAuthentication, which sends the password.
Login ==
    /\ stage \in {"login", "advance"}
    /\ stage' = IF stage = "login" THEN "advance" ELSE "presign"
    /\ UNCHANGED <<server, retired, failures, caches, identityClient, services,
                   readings, cipherKey, sent, clock>>

\* PutSnapshot up to the answer of retrievePresignedUploadURL.  A snapshot
\* without the cluster's ID is refused before the request.
Presign ==
    /\ stage = "presign"
    /\ HasClusterID(readings)
    /\ stage' = "put"
    /\ UNCHANGED <<server, retired, failures, caches, identityClient, services,
                   readings, cipherKey, sent, clock>>

\* PutSnapshot's own request; the loop then waits for the period.
Put ==
    /\ stage = "put"
    /\ sent' = Snapshot(readings)
    /\ stage' = "sleep"
    /\ wait' = Period
    /\ services' = NoServices
    /\ elapsed' = 0
    /\ posting' = 0
    /\ UNCHANGED <<server, retired, failures, caches, identityClient, readings,
                   cipherKey>>

\* backoff.Retry waits for another attempt, or gives up, which ends the agent.
AttemptFails ==
    /\ IF elapsed + RetryWait <= BackoffMax
       THEN stage' = "retry" /\ wait' = RetryWait /\ UNCHANGED elapsed
       ELSE stage' = "exited" /\ elapsed' = 0 /\ UNCHANGED wait
    /\ services' = NoServices
    /\ posting' = 0
    /\ UNCHANGED <<identityClient, cipherKey>>

\* An error ends the operation it occurs in.
OperationFails ==
    \/ stage = "boot" /\ BootWithoutKeys
    \/ stage \in KeyStages /\ KeyFails
    \/ stage \in PostStages /\ AttemptFails

\* The service is not where the code looks for it, or has no answer it can use.
Refused ==
    /\ \/ /\ stage \in {"boot", "keyDiscover", "discover"}
          /\ DiscoveryRefused
          /\ UNCHANGED cachedResponse
       \/ /\ stage = "discover"
          /\ DiscoverInVain
       \/ /\ \/ /\ stage = "keyLogin"
                /\ ~TokenReusable
                /\ identityClient # directory.identity
             \/ /\ stage = "keyGet"
                /\ \/ tokenCached.empty
                   \/ services.inventory = None
                   \/ services.inventory # directory.inventory
             \/ stage = "keyAdvance" /\ identityClient # directory.identity
             \/ /\ stage \in {"login", "advance"}
                /\ services.identity # directory.identity
             \/ /\ stage = "presign"
                /\ \/ ~HasClusterID(readings)
                   \/ services.inventory # directory.inventory
          /\ UNCHANGED cachedResponse
    /\ OperationFails
    /\ UNCHANGED <<server, retired, failures, tokenCached, cachedKey, readings, sent>>

\* A request fails though the service is there: no connection, the deadline,
\* a status or body that is not accepted, a challenge other than a password.
RequestFails ==
    /\ failures < MaxFailures
    /\ failures' = failures + 1
    /\ stage \in {"boot", "keyDiscover", "discover"} => ~DiscoveryCached
    /\ stage = "keyLogin" => ~TokenReusable
    /\ stage = "presign" => HasClusterID(readings)
    /\ OperationFails
    /\ UNCHANGED <<server, retired, caches, readings, sent>>

Retry ==
    /\ stage = "retry"
    /\ wait = 0
    /\ stage' = "discover"
    /\ UNCHANGED <<server, retired, failures, caches, identityClient, services,
                   readings, cipherKey, sent, clock>>

SleepOver ==
    /\ stage = "sleep"
    /\ wait = 0
    /\ stage' = "gather"
    /\ sent' = None
    /\ UNCHANGED <<server, retired, failures, caches, identityClient, services,
                   readings, cipherKey, clock>>

\* The container is started again, with nothing of what it had.
Restart ==
    /\ stage = "exited"
    /\ stage' = "boot"
    /\ cachedResponse' = None
    /\ tokenCached' = None
    /\ cachedKey' = None
    /\ identityClient' = None
    /\ readings' = <<>>
    /\ cipherKey' = None
    /\ UNCHANGED <<server, retired, failures, services, sent, clock>>

-----------------------------------------------------------------------------
Step ==
    \/ Boot \/ Gather \/ KeyDiscover \/ KeyLogin \/ KeyAdvance \/ KeyGet
    \/ Discover \/ Login \/ Presign \/ Put
    \/ Refused \/ Retry \/ SleepOver \/ Restart

Next == Step \/ RequestFails \/ Tick \/ Move \/ RotateKey

Spec == Init /\ [][Next]_vars

\* Requests end, time passes while the agent waits for it, and a container that
\* has exited is started again.
FairSpec ==
    /\ Spec
    /\ WF_vars(Step)
    /\ WF_vars(stage \in {"retry", "sleep"} /\ Tick)

-----------------------------------------------------------------------------
(* Properties. *)

Cached(values) == {None} \cup values

TypeOK ==
    /\ directory \in Services
    /\ publicKey \in Key
    /\ retired \in [Endpoint \cup Key -> Nat]
    /\ changes \in Nat /\ failures \in Nat
    /\ stage \in Stages
    /\ cachedResponse \in Cached([services : Services, age : Nat])
    /\ identityClient \in Endpoint \cup {None}
    /\ tokenCached \in Cached([empty : BOOLEAN, age : Nat])
    /\ cachedKey \in Cached([key : Key, age : Nat])
    /\ services \in Services
    /\ readings \in Gathered \cup {<<>>}
    /\ cipherKey \in Key \cup {None}
    /\ elapsed \in Nat /\ posting \in Nat /\ wait \in Nat
    /\ stage \in {"login", "advance", "presign", "put"} =>
         services.identity # None /\ services.inventory # None

\* When an upload sends the password to an identity API, service discovery
\* named that API less than an hour before the attempt began.
PasswordToRecentIdentity ==
    stage = "advance" => retired[services.identity] < DiscoveryTTL + BackoffMax

\* When a Secret is encrypted, its key is served by the JWKS endpoint or was
\* so less than 15 minutes before.
EncryptsWithRecentKey ==
    [][(/\ stage \in KeyStages \cup {"gather"} /\ stage' = "discover"
        /\ cipherKey' # None) => retired[cipherKey'] < KeyTTL]_vars

\* What is uploaded names the cluster and has a list of every kind of resource,
\* which is what was gathered but for the deleted and for some TLS Secrets:
\* those without a client certificate, and also those whose tls.crt cannot be
\* read.  (The comments of the code promise that a Secret "is kept if there is
\* any doubt or if there is a problem decoding its contents",
\* client_cyberark.go:302-304, 332-333.  That is so of the doubtful only.)
SentLastGathered ==
    stage = "sleep" =>
        /\ HasClusterID(readings)
        /\ \A g \in Extractors : \E i \in DOMAIN readings : readings[i].gatherer = g
        /\ \A i \in DOMAIN readings :
             readings[i].gatherer \in ListGatherers =>
                 sent[readings[i].gatherer] =
                     {o \in readings[i].items :
                         /\ ~o.deleted
                         /\ readings[i].gatherer = "ark/secrets" =>
                              o.class \in {"client", "doubtful", "plain"}}

\* If from some time on the services stay where they are, and the gathers are
\* complete and name the cluster, the agent uploads again and again, whatever
\* its caches hold and though it may have to restart.
UploadsResume ==
    <>[](/\ directory.identity # None /\ directory.inventory # None
         /\ readings # <<>> => Converts(readings) /\ HasClusterID(readings))
        => []<>(stage = "sleep")

\* If from some time on the services stay where they are, and the identity API
\* is the one the key fetcher was created with, Secrets are encrypted again.
EncryptionResumes ==
    <>[](/\ identityClient # None /\ identityClient = directory.identity
         /\ directory.inventory # None)
        => []<>(cipherKey # None)
=============================================================================
