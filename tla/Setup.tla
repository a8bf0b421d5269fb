------------------------------- MODULE Setup -------------------------------
(***************************************************************************)
(* What an operator runs once, in phases:                                  *)
(*   `agent`       combines and validates flags, file and environment,     *)
(*                 creates the client of the output mode, and uploads;     *)
(*   `agent rbac`  validates the gatherers and prints the RBAC manifest,   *)
(*                 which the operator applies to the cluster;              *)
(*   `agent --one-shot --output-path` writes its readings to a file, and   *)
(*                 `agent --one-shot --input-path` reads them back;        *)
(*   `echo`        receives what an agent posts.                           *)
(* Each reads its input once; all there is to choose is the input.         *)
(***************************************************************************)
EXTENDS AgentConfig, Permissions, DataReadings

CONSTANTS Inputs,         \* flags, files and environments the agent is run with
          GathererLists,  \* the gatherers of the files `agent rbac` is run with
          GathererNames,  \* the names of the gatherers of an agent that gathers
          Findings        \* what they may find

ASSUME InputAssumption == Inputs \subseteq Input
ASSUME GathererAssumption == GathererLists \subseteq Seq(Gatherer)
ASSUME FindingAssumption == Findings \subseteq [GathererNames -> Source]

VARIABLES
    phase,      \* how far the command got
    input,      \* what `agent` was run with, or None
    config,     \* the CombinedConfig, or None
    sent,       \* the settings that the first upload carries, or None
    gatherers,  \* the gatherers that `agent rbac` was run with, or None
    manifest,   \* the manifest printed, or None
    cluster,    \* what the cluster allows, or None
    found,      \* what the gatherers find, or None
    file,       \* the file of --output-path, or None
    readings    \* the readings decoded from it, or None

agentVars == <<input, config, sent>>
rbacVars == <<gatherers, manifest, cluster>>
readingVars == <<found, file, readings>>

vars == <<phase, input, config, sent, gatherers, manifest, cluster, found, file, readings>>

Init ==
    /\ \/ phase = "agent" /\ input \in Inputs /\ gatherers = None /\ found = None
       \/ phase = "rbac" /\ input = None /\ gatherers \in GathererLists /\ found = None
       \/ phase = "gather" /\ input = None /\ gatherers = None /\ found \in Findings
    /\ config = None
    /\ sent = None
    /\ manifest = None
    /\ cluster = None
    /\ file = None
    /\ readings = None

-----------------------------------------------------------------------------
\* ValidateAndCombineConfig up to the client.
Combine ==
    /\ phase = "agent"
    /\ IF HasMode(input) /\ Valid(input)
       THEN phase' = "combined" /\ config' = Combined(input)
       ELSE phase' = "refused" /\ UNCHANGED config
    /\ UNCHANGED <<input, sent>> /\ UNCHANGED rbacVars /\ UNCHANGED readingVars

\* validateCredsAndCreateClient.
CreateClient ==
    /\ phase = "combined"
    /\ phase' = NewClient(input, config)
    /\ UNCHANGED agentVars /\ UNCHANGED rbacVars /\ UNCHANGED readingVars

\* The VenafiConnection client insists on a cluster name, fails if the
\* VenafiConnection does not lead to a backend that it supports, and takes an
\* empty access token for a mistake of the library it got the token from.
VenConnPost(i, c) ==
    IF c.clusterName = "" THEN "mistake"
    ELSE IF "supportedBackend" \notin i.world THEN "failed"
    ELSE IF "accessToken" \notin i.world THEN "tokenless"
    ELSE "uploaded"

\* The first upload.
Post ==
    /\ phase = "ready"
    /\ phase' = IF config.mode = "VenafiConnection" THEN VenConnPost(input, config)
                ELSE "uploaded"
    /\ sent' = IF phase' = "uploaded" THEN Address(config) ELSE sent
    /\ UNCHANGED <<input, config>> /\ UNCHANGED rbacVars /\ UNCHANGED readingVars

\* `agent rbac`.
GenerateRBAC ==
    /\ phase = "rbac"
    /\ IF GatherersValid(gatherers)
       THEN phase' = "printed" /\ manifest' = Manifest(gatherers)
       ELSE phase' = "refused" /\ UNCHANGED manifest
    /\ UNCHANGED <<gatherers, cluster>> /\ UNCHANGED agentVars /\ UNCHANGED readingVars

\* The operator applies the manifest to a cluster that has none of it yet.
Apply ==
    /\ phase = "printed"
    /\ phase' = "applied"
    /\ cluster' = Applied(manifest)
    /\ UNCHANGED <<gatherers, manifest>> /\ UNCHANGED agentVars /\ UNCHANGED readingVars

\* gatherData without --strict, and the upload of the LocalFile mode.
WriteFile ==
    /\ phase = "gather"
    /\ phase' = "written"
    /\ file' = MarshalAll(Gathered(found))
    /\ UNCHANGED <<found, readings>> /\ UNCHANGED agentVars /\ UNCHANGED rbacVars

\* gatherAndOutputData of an agent with --input-path.
ReadFile ==
    /\ phase = "written"
    /\ IF AllDecode(file)
       THEN phase' = "read" /\ readings' = UnmarshalAll(file)
       ELSE phase' = "unreadable" /\ UNCHANGED readings
    /\ UNCHANGED <<found, file>> /\ UNCHANGED agentVars /\ UNCHANGED rbacVars

\* The echo server handles an upload of the readings.
Echo ==
    /\ phase = "gather"
    /\ IF AllDecode(MarshalAll(Gathered(found)))
       THEN phase' = "echoed" /\ readings' = UnmarshalAll(MarshalAll(Gathered(found)))
       ELSE phase' = "unreadable" /\ UNCHANGED readings
    /\ UNCHANGED <<found, file>> /\ UNCHANGED agentVars /\ UNCHANGED rbacVars

Next == Combine \/ CreateClient \/ Post \/ GenerateRBAC \/ Apply
        \/ WriteFile \/ ReadFile \/ Echo

Spec == Init /\ [][Next]_vars

-----------------------------------------------------------------------------
(***************************************************************************)
(* Properties.                                                             *)
(***************************************************************************)

\* Every variable has its type.
TypeOK ==
    /\ phase \in {"agent", "combined", "ready", "uploaded", "failed",
                  "rbac", "printed", "applied", "refused", "mistake",
                  "tokenless", "gather", "written", "read", "echoed", "unreadable"}
    /\ input \in Input \cup {None}
    /\ config \in Config \cup {None}
    /\ sent \in (SUBSET Settings) \cup {None}
    /\ gatherers \in Seq(Gatherer) \cup {None}
    /\ manifest \in ManifestType \cup {None}
    /\ cluster \in ClusterType \cup {None}
    /\ found \in [GathererNames -> Source] \cup {None}
    /\ file = None \/ \E names \in SUBSET GathererNames : file \in [names -> JSON]
    /\ readings = None \/ \E names \in SUBSET GathererNames : readings \in [names -> Data]

\* The validation establishes what the rest of the program expects of the
\* configuration.  Whatever the input, the agent never stops with one of the
\* "programmer mistake" errors of the clients' constructors, nor with that of
\* the VenafiConnection client's upload about the cluster name, nor panics
\* because a mode has no client.  The upload's other "programmer mistake", an
\* empty access token, no validation of the input could rule out: it is met
\* only in VenafiConnection mode, if the library returns such a token for a
\* supported backend.  And an agent that keeps gathering waits between two
\* rounds: unless a period is negative, which nothing checks, the period it
\* accepts is positive.
NoProgrammerMistake ==
    /\ phase # "mistake"
    /\ phase = "tokenless" =>
           /\ Mode(input) = "VenafiConnection" /\ config.clusterName # ""
           /\ "supportedBackend" \in input.world /\ "accessToken" \notin input.world
    /\ config # None =>
           \/ "oneShot" \in input.given
           \/ input.flagPeriod < 0
           \/ input.filePeriod < 0
           \/ config.period > 0

\* Whatever the mode, and wherever its settings came from, the first upload
\* names its server and the cluster, and the organization or path where the
\* mode has one: none of the settings that the URL or the snapshot is made of
\* is empty.
UploadsAddressed == sent # None => "" \notin sent

\* In the key pair modes the agent never starts with two key pairs to choose
\* from.  A Venafi Cloud key pair is named by the flags, both of them, or by a
\* credentials file, and never by both: so --client-id with --credentials-file
\* is refused (config.go:915-922), although the comment of config.go:930-931
\* says that the file is ignored then.  With --ngts the key is that of the flag,
\* and a credentials file or an API token is refused.  (With a Venafi Cloud key
\* pair an API token, which may come from the variable API_TOKEN, is not: it is
\* ignored without a word, see IgnoredOptionsIrrelevant.)
KeyPairUnambiguous ==
    phase \in {"ready", "uploaded"} =>
        /\ config.mode = "VenafiCloudKeypair" =>
               IF "credentialsPath" \in input.given
               THEN KeypairFlags \cap input.given = {}
               ELSE KeypairFlags \subseteq input.given
        /\ config.mode = "NGTS" =>
               /\ "privateKeyPath" \in input.given
               /\ {"credentialsPath", "apiToken"} \cap input.given = {}

\* The options an output mode takes notice of: it uses or refuses them.  This is
\* what the code does, and the comments of config.go differ in two places.
\* cluster_id, "only used in Jetstack Secure modes" (53, 421), is the
\* cluster's name with a Venafi Cloud key pair or a VenafiConnection if
\* cluster_name is not set (728-741).  And --output-path, which "in conjunction
\* with --one-shot" makes the agent write a file "instead of uploading"
\* (140-142, 269), does so in LocalFile mode only: it gives way to any option
\* that selects another mode, and is then of no effect.
Concerns(mode) ==
    {"oneShot"} \cup
    CASE mode = "NGTS" ->
             (Flags \ {"venConnNS", "installNS", "outputPath"})
               \cup {"clusterName", "clusterID", "organizationID"}
      [] mode = "VenafiCloudKeypair" ->
             {"venafiCloud", "credentialsPath", "clientID", "privateKeyPath", "server",
              "endpoint", "uploadPath", "clusterName", "clusterID"}
      [] mode = "VenafiConnection" ->
             {"venConnName", "venConnNS", "installNS", "clusterName", "clusterID"}
      [] mode = "APIToken" -> {"apiToken", "server", "endpoint", "organizationID", "clusterID"}
      [] mode = "OAuth" -> {"credentialsPath", "server", "endpoint", "organizationID", "clusterID"}
      [] mode = "MachineHub" -> {"machineHub", "clusterName"}
      [] mode = "LocalFile" -> {"outputPath", "fileOutputPath"}

\* What comes of an input: the mode, how the client fares, where and how often
\* it uploads, and the VenafiConnection it uses.
Effect(i) ==
    IF ~ (HasMode(i) /\ Valid(i)) THEN [client |-> "refused"]
    ELSE LET c == Combined(i)
         IN  [mode |-> c.mode, client |-> NewClient(i, c), address |-> Address(c),
              period |-> c.period,
              connection |-> IF c.mode = "VenafiConnection"
                             THEN {c.installNS, c.venConnName, c.venConnNS} ELSE {}]

Without(i, option) == [i EXCEPT !.given = @ \ {option}]

\* A server that these modes ignore must be well formed all the same.
ParsedThoughIgnored(i) ==
    /\ Mode(i) \in {"VenafiConnection", "MachineHub", "LocalFile"}
    /\ {"server", "endpoint"} \cap i.given # {}
    /\ "goodServer" \notin i.world

\* An option that the selected mode takes no notice of, one for another mode
\* say, changes nothing: without it the agent would be refused, or do, the same.
\* The one exception is a malformed server.  (An input that selects no mode is
\* refused, and there is nothing to say of its options.)
IgnoredOptionsIrrelevant ==
    phase \in {"combined", "refused"} /\ input # None /\ HasMode(input) =>
        \A o \in input.given \ Concerns(Mode(input)) :
            \/ Effect(Without(input, o)) = Effect(input)
            \/ o \in {"server", "endpoint"} /\ ParsedThoughIgnored(input)

\* Do no two gatherers share the name of a resource but not its API group?
\* (The roles of two that do replace each other.)
RolesDistinct(list) ==
    \A i, j \in Dynamic(list) :
        list[i].resource = list[j].resource => list[i].group = list[j].group

Gatherers(list, group, resource) ==
    {i \in Dynamic(list) : list[i].group = group /\ list[i].resource = resource}

\* Does the configuration ask for a resource's objects in a namespace?
Configured(list, group, resource, ns) ==
    \E i \in Gatherers(list, group, resource) :
        \/ ns \in list[i].include
        \/ list[i].include = {} /\ ns \notin list[i].exclude

\* Does it say not to gather them there, but everywhere else?
Excluded(list, group, resource, ns) ==
    \E i \in Gatherers(list, group, resource) :
        list[i].include = {} /\ ns \in list[i].exclude

\* The manifest is sufficient, and minimal but for excluded namespaces: once it
\* is applied the agent may list a resource in a namespace exactly if a
\* "k8s-dynamic" gatherer is configured to gather it there, or is one of all
\* namespaces from which this one is excluded.  For the latter the manifest has
\* a ClusterRoleBinding, though generate.go:19-22 says such bindings are for
\* resources without included or excluded namespaces, and RoleBindings for those
\* with.
GrantsAsConfigured ==
    phase = "applied" /\ RolesDistinct(gatherers) =>
        \A g \in Groups, r \in Resources, ns \in Namespaces :
            MayListIn(cluster, g, r, ns) <=>
                Configured(gatherers, g, r, ns) \/ Excluded(gatherers, g, r, ns)

\* The informer of every gatherer lists its resource in all namespaces at once
\* (NamespaceAll), also when include-namespaces is set: the agent needs to be
\* allowed that for the gatherer to start.
InformersMayList ==
    phase = "applied" /\ RolesDistinct(gatherers) =>
        \A i \in Dynamic(gatherers) :
            MayListEverywhere(cluster, gatherers[i].group, gatherers[i].resource)

\* Readings survive the way through a file, or to a server, whose JSON says
\* nothing of their types: they are decoded as gathered, with every resource
\* and every deletion mark.  What cannot be decoded are only the readings of
\* the local and the dummy gatherer, which are of no such type, and that of an
\* OIDC gatherer which found neither document nor error.
DecodedAsGathered ==
    /\ phase \in {"read", "echoed"} => readings = Gathered(found)
    /\ phase = "unreadable" =>
           \E g \in DOMAIN Gathered(found) :
               LET data == Gathered(found)[g]
               IN  \/ data.type \in {"bytes", "nil"}
                   \/ data.type = "OIDCDiscoveryData" /\ data.fields = {}

============================================================================
