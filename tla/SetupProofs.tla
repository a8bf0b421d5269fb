---------------------------- MODULE SetupProofs ----------------------------
(***************************************************************************)
(* Proofs about the commands of Setup, for every input.                    *)
(*                                                                         *)
(* What the agent runs with was combined from an input that is valid, and  *)
(* its client was created from that: this is the inductive invariant for   *)
(* `agent`.  For `agent rbac` it is that what is printed is the manifest   *)
(* of the gatherers, and what the cluster has is that manifest, applied.   *)
(* For the readings it is that the file is the encoding of what was found, *)
(* and what is decoded from it what was found.                             *)
(***************************************************************************)
EXTENDS Setup, WellFoundedInduction, TLAPS

\* A set of natural numbers has a least one.
LEMMA LeastNatural ==
    ASSUME NEW S, S \subseteq Nat, S # {}
    PROVE  \E x \in S : \A y \in S : x <= y
<1>1. PICK x \in S : \A y \in S : ~ (<<y, x>> \in OpToRel(<, Nat))
  BY NatLessThanWellFounded, WFMin
<1>2. \A y \in S : ~ (y < x)
  BY <1>1 DEF OpToRel
<1>3. \A y \in S : x <= y
  BY <1>2
<1> QED BY <1>3

(***************************************************************************)
(* The output mode.                                                        *)
(***************************************************************************)

\* The switch picks the first of the modes asked for.
LEMMA FirstAsked ==
    ASSUME NEW i \in Input, HasMode(i)
    PROVE  /\ Mode(i) \in Asked(i)
           /\ \A n \in Asked(i) : Precedence[Mode(i)] <= Precedence[n]
<1>1. \E m \in Asked(i) : \A n \in Asked(i) : Precedence[m] <= Precedence[n]
  <2> DEFINE A == Asked(i)
  <2>1. A # {} /\ A \subseteq Modes
    BY DEF HasMode, Asked
  <2>2. \A m \in Modes : Precedence[m] \in 1 .. 7
    BY DEF Modes, Precedence
  <2> DEFINE ranks == {Precedence[m] : m \in A}
  <2>3. ranks \subseteq Nat /\ ranks # {}
    BY <2>1, <2>2
  <2>4. PICK x \in ranks : \A y \in ranks : x <= y
    <3> HIDE DEF ranks
    <3> QED BY <2>3, LeastNatural
  <2> QED BY <2>4
<1> QED BY <1>1 DEF Mode

\* What is known of the input once a mode is picked.
LEMMA ModeFacts ==
    ASSUME NEW i \in Input, HasMode(i)
    PROVE  /\ Mode(i) \in Modes
           /\ Mode(i) = "VenafiConnection" => "venConnName" \in i.given
           /\ Mode(i) = "LocalFile" => "outputPath" \in i.given \/ "fileOutputPath" \in i.given
           /\ "ngts" \in i.given => Mode(i) = "NGTS"
<1>1. Mode(i) \in Modes /\ AskedBy(i)[Mode(i)]
  BY FirstAsked DEF Asked
<1>2. "ngts" \in i.given => Mode(i) = "NGTS"
  <2> SUFFICES ASSUME "ngts" \in i.given PROVE Mode(i) = "NGTS"
    OBVIOUS
  <2>1. "NGTS" \in Asked(i)
    BY DEF Asked, AskedBy, Modes
  <2>2. Precedence[Mode(i)] <= Precedence["NGTS"]
    BY <2>1, FirstAsked
  <2> QED BY <1>1, <2>2 DEF Precedence, Modes
<1>3. Mode(i) = "VenafiConnection" => "venConnName" \in i.given
  <2>1. AskedBy(i)["VenafiConnection"] = ("venConnName" \in i.given)
    BY DEF AskedBy
  <2> QED BY <1>1, <2>1
<1>4. Mode(i) = "LocalFile" => "outputPath" \in i.given \/ "fileOutputPath" \in i.given
  <2>1. AskedBy(i)["LocalFile"]
            = ("outputPath" \in i.given \/ "fileOutputPath" \in i.given)
    BY DEF AskedBy
  <2> QED BY <1>1, <2>1
<1> QED BY <1>1, <1>2, <1>3, <1>4

LEMMA CombinedType ==
    ASSUME NEW i \in Input, HasMode(i)
    PROVE  Combined(i) \in Config
<1>1. Mode(i) \in Modes
  BY ModeFacts
<1>2. \A o \in Flags \cup FileFields : Value(i, o) \in Settings
  BY DEF Value, Settings
<1>3. Server(i) \in Settings
  BY DEF Server, Value, Settings, Flags, FileFields
<1>4. ClusterName(i) \in Settings
  BY DEF ClusterName, Value, Settings, FileFields
<1>5. InstallNS(i) \in Settings /\ VenConnNS(i) \in Settings
  BY DEF InstallNS, VenConnNS, Settings, Flags
<1>6. Period(i) \in Nat
  BY DEF Period, Input
<1>7. ASSUME NEW M, NEW v \in Settings PROVE OnlyIn(i, M, v) \in Settings
  BY DEF OnlyIn, Settings
<1>8. \A o \in {"uploadPath", "organizationID", "clusterID", "venConnName", "tsgID",
               "outputPath", "fileOutputPath"} : Value(i, o) \in Settings
  BY <1>2 DEF Flags, FileFields
<1>9. (IF "outputPath" \in i.given THEN "outputPath" ELSE Value(i, "fileOutputPath"))
        \in Settings
  BY <1>8 DEF Settings, Flags
<1> HIDE DEF Settings
<1> QED BY <1>1, <1>3, <1>4, <1>5, <1>6, <1>7, <1>8, <1>9 DEF Combined, Config

(***************************************************************************)
(* The manifest.                                                           *)
(***************************************************************************)

LEMMA DynamicGatherer ==
    ASSUME NEW gs \in Seq(Gatherer), NEW i \in Dynamic(gs)
    PROVE  i \in Nat /\ gs[i] \in Gatherer
BY DEF Dynamic

LEMMA ManifestTypeOK ==
    ASSUME NEW gs \in Seq(Gatherer)
    PROVE  Manifest(gs) \in ManifestType
<1>1. \A i \in Dynamic(gs) : i \in Nat /\ gs[i].group \in Groups /\ gs[i].resource \in Resources
  BY DynamicGatherer DEF Gatherer
<1>2. Roles(gs) \subseteq [at: Nat, group: Groups, resource: Resources]
  BY <1>1 DEF Roles, Role
<1>3. ClusterRoleBindings(gs) \subseteq Resources
  BY <1>1 DEF ClusterRoleBindings
<1>4. RoleBindings(gs) \subseteq Resources \X Namespaces
  BY DEF RoleBindings
<1> QED BY <1>2, <1>3, <1>4 DEF Manifest, ManifestType

\* Of a gatherer's roles the last is one of them: there are only so many.
LEMMA LastRoleExists ==
    ASSUME NEW gs \in Seq(Gatherer), NEW name,
           \E r \in Roles(gs) : r.resource = name
    PROVE  LastRole(Roles(gs), name) \in {r \in Roles(gs) : r.resource = name}
<1> DEFINE named == {r \in Roles(gs) : r.resource = name}
           before == {Len(gs) - r.at : r \in named}
<1>1. \A r \in named : r.at \in 1 .. Len(gs)
  BY DEF Roles, Role, Dynamic
<1>2. Len(gs) \in Nat
  OBVIOUS
<1>3. before \subseteq Nat /\ before # {}
  BY <1>1, <1>2
<1>5. PICK x \in before : \A y \in before : x <= y
  <2> HIDE DEF before
  <2> QED BY <1>3, LeastNatural
<1>4. PICK r \in named : x = Len(gs) - r.at
  BY <1>5
<1>6. \A s \in named : s.at <= r.at
  <2> SUFFICES ASSUME NEW s \in named PROVE s.at <= r.at
    OBVIOUS
  <2>1. Len(gs) - r.at <= Len(gs) - s.at
    BY <1>5, <1>4
  <2> QED BY <2>1, <1>1, <1>2
<1> QED BY <1>6 DEF LastRole

LEMMA AppliedType ==
    ASSUME NEW gs \in Seq(Gatherer)
    PROVE  Applied(Manifest(gs)) \in ClusterType
<1>1. Manifest(gs) \in ManifestType /\ Manifest(gs).roles = Roles(gs)
  BY ManifestTypeOK DEF Manifest
<1>2. \A r \in Roles(gs) : r.group \in Groups
  BY <1>1 DEF ManifestType
<1>3. \A name \in Resources :
        (\E r \in Roles(gs) : r.resource = name) => LastRole(Roles(gs), name).group \in Groups
  BY <1>2, LastRoleExists
<1> QED BY <1>1, <1>3 DEF Applied, ClusterType, ManifestType

(***************************************************************************)
(* What the cluster grants, of a manifest in which no two roles of one     *)
(* name differ: whichever of them is the last, it is for the configured    *)
(* group.                                                                  *)
(***************************************************************************)
LEMMA AppliedGrants ==
    ASSUME NEW gs \in Seq(Gatherer), RolesDistinct(gs),
           NEW g \in Groups, NEW r \in Resources, NEW ns \in Namespaces
    PROVE  MayListIn(Applied(Manifest(gs)), g, r, ns) <=>
               Configured(gs, g, r, ns) \/ Excluded(gs, g, r, ns)
<1> DEFINE c == Applied(Manifest(gs))
<1>1. \A i \in Dynamic(gs) : gs[i] \in Gatherer
  BY DynamicGatherer
<1>2. ASSUME NEW i \in Dynamic(gs), gs[i].resource = r
      PROVE  c.group[r] = gs[i].group
  <2>1. Role(gs[i], i) \in Roles(gs) /\ Role(gs[i], i).resource = r
    BY <1>2 DEF Roles, Role
  <2>2. PICK j \in Dynamic(gs) : LastRole(Roles(gs), r) = Role(gs[j], j) /\ gs[j].resource = r
    <3>1. LastRole(Roles(gs), r) \in {role \in Roles(gs) : role.resource = r}
      BY <2>1, LastRoleExists
    <3>2. PICK j \in Dynamic(gs) : LastRole(Roles(gs), r) = Role(gs[j], j)
      BY <3>1 DEF Roles
    <3> QED BY <3>1, <3>2 DEF Role
  <2>3. c.group[r] = LastRole(Roles(gs), r).group
    BY <2>1 DEF Applied, Manifest
  <2>4. gs[j].group = gs[i].group
    BY <2>2, <1>2 DEF RolesDistinct
  <2> QED BY <2>2, <2>3, <2>4 DEF Role
<1>3. c.everywhere = ClusterRoleBindings(gs) /\ c.within = RoleBindings(gs)
  BY DEF Applied, Manifest
<1>4. (Configured(gs, g, r, ns) \/ Excluded(gs, g, r, ns)) <=>
          \E i \in Dynamic(gs) : /\ gs[i].group = g /\ gs[i].resource = r
                                 /\ gs[i].include = {} \/ ns \in gs[i].include
  BY DEF Configured, Excluded, Gatherers
<1>5. ASSUME Configured(gs, g, r, ns) \/ Excluded(gs, g, r, ns) PROVE MayListIn(c, g, r, ns)
  <2>1. PICK i \in Dynamic(gs) : /\ gs[i].group = g /\ gs[i].resource = r
                                 /\ gs[i].include = {} \/ ns \in gs[i].include
    BY <1>5, <1>4
  <2>2. c.group[r] = g
    BY <2>1, <1>2
  <2>3. gs[i].include = {} => r \in c.everywhere
    BY <2>1, <1>3 DEF ClusterRoleBindings
  <2>4. ns \in gs[i].include => <<r, ns>> \in c.within
    BY <2>1, <1>3 DEF RoleBindings
  <2> QED BY <2>1, <2>2, <2>3, <2>4 DEF MayListIn
<1>6. ASSUME MayListIn(c, g, r, ns) PROVE Configured(gs, g, r, ns) \/ Excluded(gs, g, r, ns)
  <2>1. c.group[r] = g
    BY <1>6 DEF MayListIn
  <2>2. CASE r \in c.everywhere
    <3>1. PICK i \in Dynamic(gs) : gs[i].resource = r /\ gs[i].include = {}
      BY <2>2, <1>3 DEF ClusterRoleBindings
    <3> QED BY <3>1, <2>1, <1>2, <1>4
  <2>3. CASE <<r, ns>> \in c.within
    <3>1. PICK i \in Dynamic(gs) : gs[i].resource = r /\ ns \in gs[i].include
      BY <2>3, <1>3 DEF RoleBindings
    <3> QED BY <3>1, <2>1, <1>2, <1>4
  <2> QED BY <1>6, <2>2, <2>3 DEF MayListIn
<1> QED BY <1>5, <1>6

(***************************************************************************)
(* The client.                                                             *)
(***************************************************************************)

\* The server is known but in the modes that have another source for it.
LEMMA ServerKnown ==
    ASSUME NEW i \in Input, HasMode(i), Mode(i) \notin {"NGTS", "VenafiConnection"}
    PROVE  Server(i) # ""
BY DEF Server

\* What the validation has established when the client is created.
LEMMA NeverMistaken ==
    ASSUME NEW i \in Input, HasMode(i), Valid(i), NEW c, c = Combined(i)
    PROVE  NewClient(i, c) \in {"ready", "refused"}
<1>1. Mode(i) \in Modes /\ c.mode = Mode(i)
  BY ModeFacts DEF Combined
<1>2. CASE Mode(i) = "OAuth"
  <2>1. c.server # ""
    BY <1>2, ServerKnown DEF Combined
  <2> QED BY <1>1, <1>2, <2>1 DEF NewClient, OAuthClient, Unless
<1>3. CASE Mode(i) = "VenafiCloudKeypair"
  <2>1. "credentialsPath" \in i.given \/ KeypairFlags \cap i.given = {}
            \/ KeypairFlags \subseteq i.given
    <3>1. "ngts" \notin i.given
      BY <1>3, ModeFacts
    <3> QED BY <3>1 DEF HasMode, HalfKeypair, KeypairFlags
  <2> QED BY <1>1, <1>3, <2>1 DEF NewClient, VenafiCloudClient, Unless
<1>4. CASE Mode(i) = "VenafiConnection"
  <2>1. c.installNS # "" /\ c.venConnNS # ""
    BY <1>4 DEF Valid, InstallNSValid, Combined, OnlyIn, VenConnNS
  <2>2. c.venConnName # ""
    BY <1>4, ModeFacts DEF Combined, OnlyIn, Value
  <2> QED BY <1>1, <1>4, <2>1, <2>2 DEF NewClient, VenConnClient, Unless
<1>5. CASE Mode(i) \in {"APIToken", "LocalFile", "MachineHub", "NGTS"}
  BY <1>1, <1>5 DEF NewClient, CyberArkClient, NGTSClient, Unless
<1> QED BY <1>1, <1>2, <1>3, <1>4, <1>5 DEF Modes

\* What a client was created from names the server and the cluster.
LEMMA ReadyIsAddressed ==
    ASSUME NEW i \in Input, HasMode(i), Valid(i), NEW c, c = Combined(i),
           NewClient(i, c) = "ready"
    PROVE  "" \notin Address(c) /\ Address(c) \in SUBSET Settings
<1>1. Mode(i) \in Modes /\ c.mode = Mode(i)
  BY ModeFacts DEF Combined
<1>2. c \in Config
  BY CombinedType
<1>3. Address(c) \in SUBSET Settings
  <2> HIDE DEF Settings
  <2> QED BY <1>2 DEF Address, Config
<1>4. CASE Mode(i) \in JetstackSecure
  <2>1. c.server # ""
    BY <1>4, ServerKnown DEF Combined, JetstackSecure
  <2>2. c.organizationID # "" /\ c.clusterID # ""
    BY <1>4 DEF Valid, ClusterValid, JetstackSecure, Combined, OnlyIn, Value
  <2> QED BY <1>1, <1>3, <1>4, <2>1, <2>2 DEF Address, JetstackSecure
<1>5. CASE Mode(i) = "VenafiCloudKeypair"
  <2>1. c.server # ""
    BY <1>5, ServerKnown DEF Combined
  <2>2. c.uploadPath # "" /\ c.clusterName # ""
    BY <1>5 DEF Valid, UploadPathValid, ClusterValid, Combined, ClusterName, OnlyIn, Value
  <2> QED BY <1>1, <1>3, <1>5, <2>1, <2>2 DEF Address, JetstackSecure
<1>6. CASE Mode(i) = "NGTS"
  <2>1. c.server # "" \/ c.tsgID # ""
    <3>1. NGTSValid(i)
      BY <1>6 DEF Valid
    <3>2. "tsgID" \in i.given \/ "ngtsServerURL" \in i.given
      BY <3>1 DEF NGTSValid
    <3>3. c.server = Value(i, "ngtsServerURL") /\ c.tsgID = Value(i, "tsgID")
      BY <1>6 DEF Combined, Server, OnlyIn
    <3> QED BY <3>2, <3>3 DEF Value
  <2>2. c.clusterName # ""
    <3>1. "clusterName" \in i.given
      BY <1>6 DEF Valid, ClusterValid, JetstackSecure
    <3>2. c.clusterName = Value(i, "clusterName")
      BY <1>6 DEF Combined, ClusterName
    <3> QED BY <3>1, <3>2 DEF Value
  <2> QED BY <1>1, <1>3, <1>6, <2>1, <2>2 DEF Address, JetstackSecure
<1>7. CASE Mode(i) = "VenafiConnection"
  <2>1. c.clusterName # ""
    BY <1>7 DEF Valid, ClusterValid, Combined, ClusterName, Value
  <2> QED BY <1>1, <1>3, <1>7, <2>1 DEF Address, JetstackSecure
<1>8. CASE Mode(i) = "MachineHub"
  <2>1. "ARK_USERNAME" \in i.world
    BY <1>1, <1>8 DEF NewClient, CyberArkClient, Unless
  <2>2. c.clusterName # ""
    BY <1>8, <2>1 DEF Combined, ClusterName
  <2> QED BY <1>1, <1>3, <1>8, <2>2 DEF Address, JetstackSecure
<1>9. CASE Mode(i) = "LocalFile"
  <2>1. c.outputPath # ""
    BY <1>9, ModeFacts DEF Combined, Value
  <2> QED BY <1>1, <1>3, <1>9, <2>1 DEF Address, JetstackSecure
<1> QED BY <1>1, <1>3, <1>4, <1>5, <1>6, <1>7, <1>8, <1>9 DEF Modes, JetstackSecure

\* The period of an agent that keeps gathering is positive, if none of those
\* it was given is negative.
LEMMA PeriodPositive ==
    ASSUME NEW i \in Input, Valid(i)
    PROVE  \/ "oneShot" \in i.given
           \/ i.flagPeriod < 0
           \/ i.filePeriod < 0
           \/ Combined(i).period > 0
<1>1. "oneShot" \in i.given \/ i.flagPeriod # 0 \/ i.filePeriod # 0
  BY DEF Valid, PeriodValid
<1>2. Combined(i).period = Period(i)
  BY DEF Combined
<1> QED BY <1>1, <1>2 DEF Period, Input

(***************************************************************************)
(* Leaving out an option that does not concern the mode.                   *)
(***************************************************************************)

LEMMA WithoutFields ==
    ASSUME NEW i \in Input, NEW o
    PROVE  /\ Without(i, o) \in Input
           /\ Without(i, o).given = i.given \ {o}
           /\ Without(i, o).world = i.world
           /\ Without(i, o).flagPeriod = i.flagPeriod
           /\ Without(i, o).filePeriod = i.filePeriod
BY DEF Without, Input

LEMMA AskedModes ==
    ASSUME NEW i
    PROVE  /\ Asked(i) \subseteq Modes
           /\ "NGTS" \in Asked(i) <=> "ngts" \in i.given
           /\ "VenafiCloudKeypair" \in Asked(i) <=>
                  \/ {"venafiCloud", "credentialsPath"} \subseteq i.given
                  \/ {"clientID", "privateKeyPath"} \subseteq i.given
           /\ "VenafiConnection" \in Asked(i) <=> "venConnName" \in i.given
           /\ "APIToken" \in Asked(i) <=> "apiToken" \in i.given
           /\ "OAuth" \in Asked(i) <=>
                  "credentialsPath" \in i.given /\ "venafiCloud" \notin i.given
           /\ "MachineHub" \in Asked(i) <=> "machineHub" \in i.given
           /\ "LocalFile" \in Asked(i) <=>
                  "outputPath" \in i.given \/ "fileOutputPath" \in i.given
<1>1. \A m \in Modes : m \in Asked(i) <=> AskedBy(i)[m]
  BY DEF Asked
<1> QED BY <1>1 DEF Asked, AskedBy, Modes

\* The options that select a mode concern it.
LEMMA StillAsked ==
    ASSUME NEW i \in Input, HasMode(i), NEW o \in i.given \ Concerns(Mode(i))
    PROVE  Mode(i) \in Asked(Without(i, o))
<1> DEFINE j == Without(i, o)
<1>1. j.given = i.given \ {o}
  BY WithoutFields
<1>2. Mode(i) \in Asked(i) /\ Mode(i) \in Modes
  BY FirstAsked, ModeFacts
<1> SUFFICES Mode(i) \in Asked(j)
  OBVIOUS
<1> HIDE DEF j
<1>3. CASE Mode(i) = "NGTS"
  BY <1>1, <1>2, <1>3, AskedModes DEF Concerns, Flags
<1>4. CASE Mode(i) = "VenafiCloudKeypair"
  BY <1>1, <1>2, <1>4, AskedModes DEF Concerns
<1>5. CASE Mode(i) \in {"VenafiConnection", "APIToken"}
  BY <1>1, <1>2, <1>5, AskedModes DEF Concerns
<1>6. CASE Mode(i) \in {"OAuth", "MachineHub", "LocalFile"}
  BY <1>1, <1>2, <1>6, AskedModes DEF Concerns
<1> QED BY <1>2, <1>3, <1>4, <1>5, <1>6 DEF Modes

\* Which mode is selected does not depend on an option of another.
LEMMA SameMode ==
    ASSUME NEW i \in Input, HasMode(i), NEW o \in i.given \ Concerns(Mode(i))
    PROVE  HasMode(Without(i, o)) /\ Mode(Without(i, o)) = Mode(i)
<1> DEFINE j == Without(i, o)
<1>1. j \in Input /\ j.given = i.given \ {o}
  BY WithoutFields
<1>2. Mode(i) \in Asked(j)
  BY StillAsked
<1>3. Mode(i) \in Modes /\ Mode(i) \in Asked(i)
  BY FirstAsked, ModeFacts
<1>4. \A n \in Asked(i) : Precedence[Mode(i)] <= Precedence[n]
  BY FirstAsked
<1> HIDE DEF j
<1>5. ASSUME NEW n \in Asked(j) PROVE Precedence[Mode(i)] <= Precedence[n]
  <2>1. n \in Modes
    BY AskedModes
  <2>2. CASE n \in Asked(i)
    BY <2>2, <1>4
  <2>3. CASE n \notin Asked(i)
    \* Without --venafi-cloud, a credentials file asks for OAuth.
    <3>1. n = "OAuth" /\ {"venafiCloud", "credentialsPath"} \subseteq i.given
      BY <1>1, <2>1, <2>3, AskedModes DEF Modes
    <3>2. "VenafiCloudKeypair" \in Asked(i)
      BY <3>1, AskedModes
    <3>3. Precedence[Mode(i)] <= Precedence["VenafiCloudKeypair"]
      BY <3>2, <1>4
    <3> QED BY <3>1, <3>3, <1>3 DEF Precedence, Modes
  <2> QED BY <2>2, <2>3
<1>6. ~ HalfKeypair(j)
  <2>1. ~ HalfKeypair(i)
    BY DEF HasMode
  <2>2. CASE Mode(i) \in {"NGTS", "VenafiCloudKeypair"}
    BY <1>2, <2>2, AskedModes DEF HalfKeypair
  <2>3. CASE Mode(i) \notin {"NGTS", "VenafiCloudKeypair"}
    <3>1. "VenafiCloudKeypair" \notin Asked(i)
      BY <1>3, <1>4, <2>3 DEF Precedence, Modes
    <3>2. "NGTS" \notin Asked(i)
      BY <1>3, <1>4, <2>3 DEF Precedence, Modes
    <3>3. "clientID" \notin i.given /\ "privateKeyPath" \notin i.given
      BY <2>1, <3>1, <3>2, AskedModes DEF HalfKeypair
    <3> QED BY <1>1, <3>3 DEF HalfKeypair
  <2> QED BY <2>2, <2>3
<1>7. HasMode(j)
  BY <1>2, <1>6 DEF HasMode
<1>8. Mode(j) \in Modes /\ Precedence[Mode(j)] <= Precedence[Mode(i)]
      /\ Precedence[Mode(i)] <= Precedence[Mode(j)]
  BY <1>1, <1>2, <1>5, <1>7, FirstAsked, ModeFacts
<1>9. Mode(j) = Mode(i)
  BY <1>3, <1>8 DEF Precedence, Modes
<1> QED BY <1>7, <1>9 DEF j

\* Nor does the outcome of the validation.
LEMMA SameValid ==
    ASSUME NEW i \in Input, HasMode(i), NEW o \in i.given \ Concerns(Mode(i)),
           ~ (o \in {"server", "endpoint"} /\ ParsedThoughIgnored(i))
    PROVE  Valid(Without(i, o)) <=> Valid(i)
<1> DEFINE j == Without(i, o)
<1>1. /\ j.given = i.given \ {o} /\ j.world = i.world
      /\ j.flagPeriod = i.flagPeriod /\ j.filePeriod = i.filePeriod
  BY WithoutFields
<1>2. Mode(j) = Mode(i) /\ Mode(i) \in Modes
  BY SameMode, ModeFacts
<1> HIDE DEF j
<1>3. PeriodValid(j) <=> PeriodValid(i)
  <2>1. o # "oneShot"
    BY DEF Concerns
  <2> QED BY <1>1, <2>1 DEF PeriodValid
<1>4. ServerValid(j) <=> ServerValid(i)
  <2>1. CASE Mode(i) \in {"VenafiConnection", "MachineHub", "LocalFile"}
    BY <1>1, <1>2, <2>1 DEF ServerValid, CheckedServer, ParsedThoughIgnored
  <2>2. CASE Mode(i) = "NGTS"
    BY <1>1, <1>2, <2>2 DEF ServerValid, CheckedServer, Concerns, Flags
  <2>3. CASE Mode(i) \in {"VenafiCloudKeypair", "APIToken", "OAuth"}
    BY <1>1, <1>2, <2>3 DEF ServerValid, CheckedServer, Concerns
  <2> QED BY <1>2, <2>1, <2>2, <2>3 DEF Modes
<1>5. Mode(i) = "NGTS" => (NGTSValid(j) <=> NGTSValid(i))
  BY <1>1 DEF NGTSValid, Concerns, Flags
<1>6. Mode(i) = "VenafiCloudKeypair" => (UploadPathValid(j) <=> UploadPathValid(i))
  BY <1>1 DEF UploadPathValid, Concerns
<1>7. ClusterValid(j) <=> ClusterValid(i)
  <2>1. CASE Mode(i) \in {"NGTS", "VenafiCloudKeypair", "VenafiConnection"}
    BY <1>1, <1>2, <2>1 DEF ClusterValid, Concerns, JetstackSecure
  <2>2. CASE Mode(i) \in {"APIToken", "OAuth"}
    BY <1>1, <1>2, <2>2 DEF ClusterValid, Concerns, JetstackSecure
  <2>3. CASE Mode(i) \in {"MachineHub", "LocalFile"}
    BY <1>1, <1>2, <2>3 DEF ClusterValid, JetstackSecure
  <2> QED BY <1>2, <2>1, <2>2, <2>3 DEF Modes
<1>8. Mode(i) = "VenafiConnection" => (InstallNSValid(j) <=> InstallNSValid(i))
  BY <1>1 DEF InstallNSValid, InstallNS, Concerns
<1> QED BY <1>1, <1>2, <1>3, <1>4, <1>5, <1>6, <1>7, <1>8 DEF Valid, j

\* Nor do the settings that the mode uses.
LEMMA SameSettings ==
    ASSUME NEW i \in Input, HasMode(i), NEW o \in i.given \ Concerns(Mode(i)),
           NEW c, c = Combined(i), NEW d, d = Combined(Without(i, o))
    PROVE  /\ d.mode = c.mode /\ d.period = c.period
           /\ c.mode \notin {"MachineHub", "LocalFile"} => d.server = c.server
           /\ d.uploadPath = c.uploadPath
           /\ d.organizationID = c.organizationID /\ d.clusterID = c.clusterID
           /\ d.clusterName = c.clusterName /\ d.tsgID = c.tsgID
           /\ c.mode = "VenafiConnection" =>
                  /\ d.installNS = c.installNS
                  /\ d.venConnName = c.venConnName /\ d.venConnNS = c.venConnNS
           /\ c.mode = "LocalFile" => d.outputPath = c.outputPath
<1> DEFINE j == Without(i, o)
<1>1. /\ j.given = i.given \ {o} /\ j.world = i.world
      /\ j.flagPeriod = i.flagPeriod /\ j.filePeriod = i.filePeriod
  BY WithoutFields
<1>2. Mode(j) = Mode(i) /\ Mode(i) \in Modes
  BY SameMode, ModeFacts
<1> HIDE DEF j
<1>3. Period(j) = Period(i)
  <2>1. o # "oneShot"
    BY DEF Concerns
  <2> QED BY <1>1, <2>1 DEF Period
<1>4. Mode(i) \notin {"MachineHub", "LocalFile"} => Server(j) = Server(i)
  <2>1. CASE Mode(i) \in {"NGTS", "VenafiConnection"}
    BY <1>1, <1>2, <2>1 DEF Server, Value, Concerns, Flags
  <2>2. CASE Mode(i) \in {"VenafiCloudKeypair", "APIToken", "OAuth"}
    BY <1>1, <1>2, <2>2 DEF Server, Concerns
  <2> QED BY <1>2, <2>1, <2>2 DEF Modes
<1>5. ClusterName(j) = ClusterName(i)
  <2>1. CASE Mode(i) \in {"NGTS", "VenafiCloudKeypair", "VenafiConnection", "MachineHub"}
    BY <1>1, <1>2, <2>1 DEF ClusterName, Value, Concerns
  <2>2. CASE Mode(i) \in {"APIToken", "OAuth", "LocalFile"}
    BY <1>1, <1>2, <2>2 DEF ClusterName
  <2> QED BY <1>2, <2>1, <2>2 DEF Modes
<1>6. Mode(i) = "VenafiConnection" =>
          InstallNS(j) = InstallNS(i) /\ VenConnNS(j) = VenConnNS(i)
               /\ Value(j, "venConnName") = Value(i, "venConnName")
  BY <1>1 DEF InstallNS, VenConnNS, Value, Concerns
<1>7. Mode(i) = "LocalFile" =>
          (IF "outputPath" \in j.given THEN "outputPath" ELSE Value(j, "fileOutputPath"))
        = (IF "outputPath" \in i.given THEN "outputPath" ELSE Value(i, "fileOutputPath"))
  BY <1>1 DEF Value, Concerns
<1>8. OnlyIn(j, {"VenafiCloudKeypair"}, Value(j, "uploadPath"))
          = OnlyIn(i, {"VenafiCloudKeypair"}, Value(i, "uploadPath"))
  BY <1>1, <1>2 DEF OnlyIn, Value, Concerns
<1>9. OnlyIn(j, {"NGTS"}, Value(j, "tsgID")) = OnlyIn(i, {"NGTS"}, Value(i, "tsgID"))
  BY <1>1, <1>2 DEF OnlyIn, Value, Concerns, Flags
<1>10. /\ OnlyIn(j, JetstackSecure, Value(j, "organizationID"))
              = OnlyIn(i, JetstackSecure, Value(i, "organizationID"))
       /\ OnlyIn(j, JetstackSecure, Value(j, "clusterID"))
              = OnlyIn(i, JetstackSecure, Value(i, "clusterID"))
  BY <1>1, <1>2 DEF OnlyIn, Value, Concerns, JetstackSecure
<1>11. d = Combined(j)
  BY DEF j
<1>12. /\ d.mode = Mode(j) /\ d.period = Period(j) /\ d.server = Server(j)
       /\ d.uploadPath = OnlyIn(j, {"VenafiCloudKeypair"}, Value(j, "uploadPath"))
       /\ d.organizationID = OnlyIn(j, JetstackSecure, Value(j, "organizationID"))
       /\ d.clusterID = OnlyIn(j, JetstackSecure, Value(j, "clusterID"))
       /\ d.clusterName = ClusterName(j) /\ d.installNS = InstallNS(j)
       /\ d.venConnName = OnlyIn(j, {"VenafiConnection"}, Value(j, "venConnName"))
       /\ d.venConnNS = OnlyIn(j, {"VenafiConnection"}, VenConnNS(j))
       /\ d.tsgID = OnlyIn(j, {"NGTS"}, Value(j, "tsgID"))
       /\ d.outputPath = IF "outputPath" \in j.given THEN "outputPath"
                         ELSE Value(j, "fileOutputPath")
  BY <1>11 DEF Combined
<1>13. /\ c.mode = Mode(i) /\ c.period = Period(i) /\ c.server = Server(i)
       /\ c.uploadPath = OnlyIn(i, {"VenafiCloudKeypair"}, Value(i, "uploadPath"))
       /\ c.organizationID = OnlyIn(i, JetstackSecure, Value(i, "organizationID"))
       /\ c.clusterID = OnlyIn(i, JetstackSecure, Value(i, "clusterID"))
       /\ c.clusterName = ClusterName(i) /\ c.installNS = InstallNS(i)
       /\ c.venConnName = OnlyIn(i, {"VenafiConnection"}, Value(i, "venConnName"))
       /\ c.venConnNS = OnlyIn(i, {"VenafiConnection"}, VenConnNS(i))
       /\ c.tsgID = OnlyIn(i, {"NGTS"}, Value(i, "tsgID"))
       /\ c.outputPath = IF "outputPath" \in i.given THEN "outputPath"
                         ELSE Value(i, "fileOutputPath")
  BY DEF Combined
<1>14. c.mode = "VenafiConnection" =>
           /\ d.installNS = c.installNS
           /\ d.venConnName = c.venConnName /\ d.venConnNS = c.venConnNS
  BY <1>2, <1>6, <1>12, <1>13 DEF OnlyIn
<1> QED
  BY <1>2, <1>3, <1>4, <1>5, <1>7, <1>8, <1>9, <1>10, <1>12, <1>13, <1>14

\* Nor how the client fares that is created from them.
LEMMA SameClient ==
    ASSUME NEW i \in Input, HasMode(i), NEW o \in i.given \ Concerns(Mode(i)),
           NEW c, c = Combined(i), NEW d, d = Combined(Without(i, o))
    PROVE  NewClient(Without(i, o), d) = NewClient(i, c)
<1> DEFINE j == Without(i, o)
<1>1. j.given = i.given \ {o} /\ j.world = i.world
  BY WithoutFields
<1>2. c.mode = Mode(i) /\ Mode(i) \in Modes
  BY ModeFacts DEF Combined
<1>3. /\ d.mode = c.mode
      /\ c.mode \notin {"MachineHub", "LocalFile"} => d.server = c.server
      /\ d.tsgID = c.tsgID
      /\ c.mode = "VenafiConnection" =>
             /\ d.installNS = c.installNS
             /\ d.venConnName = c.venConnName /\ d.venConnNS = c.venConnNS
  BY SameSettings
<1> HIDE DEF j
<1>4. CASE Mode(i) \in {"OAuth", "VenafiConnection", "APIToken", "LocalFile", "MachineHub"}
  BY <1>1, <1>2, <1>3, <1>4 DEF NewClient, OAuthClient, VenConnClient, CyberArkClient, j
<1>5. CASE Mode(i) = "VenafiCloudKeypair"
  <2>1. /\ KeypairFlags \cap j.given = KeypairFlags \cap i.given
        /\ "credentialsPath" \in j.given <=> "credentialsPath" \in i.given
    BY <1>1, <1>5 DEF Concerns, KeypairFlags
  <2>2. KeypairFlags \subseteq j.given <=> KeypairFlags \subseteq i.given
    BY <2>1
  <2>3. VenafiCloudClient(j, d) = VenafiCloudClient(i, c)
    BY <1>1, <1>2, <1>3, <1>5, <2>1, <2>2 DEF VenafiCloudClient
  <2> QED BY <1>2, <1>3, <1>5, <2>3 DEF NewClient, j
<1>6. CASE Mode(i) = "NGTS"
  <2>1. /\ "privateKeyPath" \in j.given <=> "privateKeyPath" \in i.given
        /\ "clientID" \in j.given <=> "clientID" \in i.given
    BY <1>1, <1>6 DEF Concerns, Flags
  <2>2. NGTSClient(j, d) = NGTSClient(i, c)
    BY <1>1, <1>2, <1>3, <1>6, <2>1 DEF NGTSClient
  <2> QED BY <1>2, <1>3, <1>6, <2>2 DEF NewClient, j
<1> QED BY <1>2, <1>4, <1>5, <1>6 DEF Modes

\* So nothing that comes of the input does.
LEMMA SameEffect ==
    ASSUME NEW i \in Input, HasMode(i), NEW o \in i.given \ Concerns(Mode(i)),
           ~ (o \in {"server", "endpoint"} /\ ParsedThoughIgnored(i))
    PROVE  Effect(Without(i, o)) = Effect(i)
<1> DEFINE j == Without(i, o)
           c == Combined(i)
           d == Combined(j)
<1>1. HasMode(j) /\ (Valid(j) <=> Valid(i))
  BY SameMode, SameValid
<1>2. NewClient(j, d) = NewClient(i, c)
  BY SameClient
<1>3. /\ d.mode = c.mode /\ d.period = c.period
      /\ c.mode \notin {"MachineHub", "LocalFile"} => d.server = c.server
      /\ d.uploadPath = c.uploadPath
      /\ d.organizationID = c.organizationID /\ d.clusterID = c.clusterID
      /\ d.clusterName = c.clusterName /\ d.tsgID = c.tsgID
      /\ c.mode = "VenafiConnection" =>
             /\ d.installNS = c.installNS
             /\ d.venConnName = c.venConnName /\ d.venConnNS = c.venConnNS
      /\ c.mode = "LocalFile" => d.outputPath = c.outputPath
  BY SameSettings
<1>4. c.mode \in Modes
  BY ModeFacts DEF Combined
<1> HIDE DEF j, c, d
<1>5. Address(d) = Address(c)
  BY <1>3, <1>4 DEF Address, JetstackSecure, Modes
<1>6. (IF d.mode = "VenafiConnection" THEN {d.installNS, d.venConnName, d.venConnNS} ELSE {})
    = (IF c.mode = "VenafiConnection" THEN {c.installNS, c.venConnName, c.venConnNS} ELSE {})
  BY <1>3
<1>7. Effect(j) = Effect(i)
  <2>1. CASE ~ Valid(i)
    BY <1>1, <2>1 DEF Effect
  <2>2. CASE Valid(i)
    BY <1>1, <1>2, <1>3, <1>5, <1>6, <2>2 DEF Effect, c, d
  <2> QED BY <2>1, <2>2
<1> QED BY <1>7 DEF j

(***************************************************************************)
(* The readings.                                                           *)
(***************************************************************************)

\* What is made of a sequence element by element is a sequence.
LEMMA MappedSequence ==
    ASSUME NEW S, NEW T, NEW s \in Seq(S), NEW t,
           t = [k \in DOMAIN s |-> t[k]], \A k \in DOMAIN s : t[k] \in T
    PROVE  t \in Seq(T)
<1>1. DOMAIN s = 1 .. Len(s) /\ Len(s) \in Nat
  OBVIOUS
<1>2. t \in [1 .. Len(s) -> T]
  BY <1>1
<1> QED BY <1>1, <1>2

LEMMA FoundFields ==
    ASSUME NEW answer, NEW document \in OIDCFields, NEW error \in OIDCFields
    PROVE  answer \in Answers => Found(answer, document, error) \subseteq OIDCFields
BY DEF Found, Answers

\* The OIDC gatherer's reading has none but its own fields.
LEMMA OIDCReading ==
    ASSUME NEW s \in Source, s.gatherer = "oidc"
    PROVE  /\ Fetch(s) = Plain("OIDCDiscoveryData", Fetch(s).fields)
           /\ Fetch(s).fields \subseteq OIDCFields
           /\ Fetch(s).type = "OIDCDiscoveryData"
<1>1. s.config \in Answers /\ s.jwks \in Answers
  BY DEF Source
<1>2. Found(s.config, "openid_configuration", "openid_configuration_error") \subseteq OIDCFields
  BY <1>1, FoundFields DEF OIDCFields
<1>3. Found(s.jwks, "jwks", "jwks_error") \subseteq OIDCFields
  BY <1>1, FoundFields DEF OIDCFields
<1>4. Fetch(s) = FetchOIDC(s)
  BY DEF Fetch
<1> QED BY <1>2, <1>3, <1>4 DEF FetchOIDC, Plain

LEMMA FetchType ==
    ASSUME NEW s \in Source
    PROVE  Fetch(s) \in Data
<1>1. CASE s.gatherer = "oidc"
  <2>1. << >> \in Seq(Item)
    OBVIOUS
  <2> DEFINE fields == Fetch(s).fields
  <2>2. fields \in SUBSET (OIDCFields \cup DiscoveryFields)
    BY <1>1, OIDCReading
  <2>3. Fetch(s) = [type |-> "OIDCDiscoveryData", fields |-> fields, items |-> << >>]
    BY <1>1, OIDCReading DEF Plain
  <2> HIDE DEF fields
  <2> QED BY <2>1, <2>2, <2>3 DEF Data, ReadingType
<1>2. CASE s.gatherer \in {"k8s-discovery", "local", "dummy"}
  BY <1>2 DEF Fetch, FetchDiscovery, FetchLocal, FetchDummy, Plain, Data, ReadingType
<1>3. CASE s.gatherer = "k8s-dynamic"
  <2>1. s.items \in Seq(CachedItem)
    BY <1>3 DEF Source
  <2> DEFINE items == [k \in DOMAIN s.items |-> SetTypeMeta(s.items[k])]
  <2>3. \A k \in DOMAIN s.items : s.items[k] \in CachedItem
    BY <2>1
  <2>4. \A k \in DOMAIN s.items : items[k] \in Item
    BY <2>3 DEF SetTypeMeta, CachedItem, Item
  <2>5. items = [k \in DOMAIN s.items |-> items[k]]
    OBVIOUS
  <2>2. items \in Seq(Item)
    <3> HIDE DEF items
    <3> QED BY <2>1, <2>4, <2>5, MappedSequence
  <2> QED BY <1>3, <2>2 DEF Fetch, FetchDynamic, Data, ReadingType
<1> QED BY <1>1, <1>2, <1>3 DEF Source

LEMMA MarshalType ==
    ASSUME NEW data \in Data
    PROVE  Marshal(data) \in JSON
<1>1. CASE data.type \in {"OIDCDiscoveryData", "DiscoveryData"}
  BY <1>1 DEF Marshal, Object, Data, JSON, Shapes, JSONFields
<1>2. CASE data.type = "DynamicData"
  <2> DEFINE items == [k \in DOMAIN data.items |-> MarshalItem(data.items[k])]
  <2>2. data.items \in Seq(Item)
    BY DEF Data
  <2>3. \A k \in DOMAIN data.items : data.items[k] \in Item
    BY <2>2
  <2>4. \A k \in DOMAIN data.items : items[k] \in JSONItem
    BY <2>3 DEF MarshalItem, Item, JSONItem
  <2>5. items = [k \in DOMAIN data.items |-> items[k]]
    OBVIOUS
  <2>1. items \in Seq(JSONItem)
    <3> HIDE DEF items
    <3> QED BY <2>2, <2>4, <2>5, MappedSequence
  <2> QED BY <1>2, <2>1 DEF Marshal, JSON, Shapes, JSONFields
<1>3. CASE data.type \in {"bytes", "nil"}
  BY <1>3 DEF Marshal, JSON, Shapes
<1> QED BY <1>1, <1>2, <1>3 DEF Data, ReadingType

LEMMA GatheredType ==
    ASSUME NEW sources \in [GathererNames -> Source]
    PROVE  /\ DOMAIN Gathered(sources) \in SUBSET GathererNames
           /\ Gathered(sources) \in [DOMAIN Gathered(sources) -> Data]
           /\ MarshalAll(Gathered(sources)) \in [DOMAIN Gathered(sources) -> JSON]
<1>1. DOMAIN Gathered(sources) \in SUBSET GathererNames
  BY DEF Gathered
<1>2. \A g \in DOMAIN Gathered(sources) : Gathered(sources)[g] \in Data
  BY FetchType DEF Gathered
<1>3. \A g \in DOMAIN Gathered(sources) : Marshal(Gathered(sources)[g]) \in JSON
  BY <1>2, MarshalType
<1>4. Gathered(sources) \in [DOMAIN Gathered(sources) -> Data]
  BY <1>2 DEF Gathered
<1> QED BY <1>1, <1>3, <1>4 DEF MarshalAll

\* What a gatherer found is decoded as what it was, or not at all.
LEMMA RoundTrip ==
    ASSUME NEW s \in Source
    PROVE  /\ Decodes(Marshal(Fetch(s))) => Unmarshal(Marshal(Fetch(s))) = Fetch(s)
           /\ ~ Decodes(Marshal(Fetch(s))) =>
                  \/ Fetch(s).type \in {"bytes", "nil"}
                  \/ Fetch(s).type = "OIDCDiscoveryData" /\ Fetch(s).fields = {}
<1> DEFINE data == Fetch(s)
           json == Marshal(data)
<1>1. CASE s.gatherer = "oidc"
  <2>1. data.type = "OIDCDiscoveryData" /\ data.fields \subseteq OIDCFields
        /\ data = Plain("OIDCDiscoveryData", data.fields)
    BY <1>1, OIDCReading
  <2>2. json = Object(data.fields)
    BY <2>1 DEF Marshal
  <2>3. DecodesStrictly(json, OIDCFields) /\ json.fields = data.fields
    BY <2>1, <2>2 DEF DecodesStrictly, Object
  <2>4. Unmarshal(json) = data
    BY <2>1, <2>3 DEF Unmarshal
  <2>5. ~ Decodes(json) => data.fields = {}
    BY <2>2, <2>3 DEF Decodes, Empty, Object
  <2> QED BY <2>1, <2>4, <2>5
<1>2. CASE s.gatherer = "k8s-discovery"
  <2>1. data = Plain("DiscoveryData", DiscoveryFields)
    BY <1>2 DEF Fetch, FetchDiscovery
  <2>2. json = Object(DiscoveryFields)
    BY <2>1 DEF Marshal, Plain
  <2>3. ~ DecodesStrictly(json, OIDCFields) /\ DecodesStrictly(json, DiscoveryFields)
        /\ json.fields = DiscoveryFields
    BY <2>2 DEF DecodesStrictly, Object, OIDCFields, DiscoveryFields
  <2>4. Unmarshal(json) = data
    BY <2>1, <2>3 DEF Unmarshal
  <2>5. Decodes(json)
    BY <2>2, <2>3 DEF Decodes, Empty, Object, DiscoveryFields
  <2> QED BY <2>4, <2>5
<1>3. CASE s.gatherer = "k8s-dynamic"
  <2>1. s.items \in Seq(CachedItem)
    BY <1>3 DEF Source
  <2>2. /\ data.type = "DynamicData" /\ data.fields = {}
        /\ data.items = [k \in DOMAIN s.items |-> SetTypeMeta(s.items[k])]
        /\ data = [type |-> "DynamicData", fields |-> {}, items |-> data.items]
    BY <1>3 DEF Fetch, FetchDynamic
  <2>3. /\ json.shape = "object" /\ json.fields = {"items"}
        /\ json.items = [k \in DOMAIN data.items |-> MarshalItem(data.items[k])]
    BY <2>2 DEF Marshal
  <2>4. ~ DecodesStrictly(json, OIDCFields) /\ ~ DecodesStrictly(json, DiscoveryFields)
    BY <2>3 DEF DecodesStrictly, OIDCFields, DiscoveryFields
  <2>5. \A k \in DOMAIN data.items : data.items[k] \in Item /\ data.items[k].kinded
    <3>1. \A k \in DOMAIN s.items : s.items[k] \in CachedItem
      BY <2>1
    <3>2. \A k \in DOMAIN s.items :
              SetTypeMeta(s.items[k]) \in Item /\ SetTypeMeta(s.items[k]).kinded
      BY <3>1 DEF SetTypeMeta, CachedItem, Item
    <3> QED BY <2>2, <3>2
  <2>6. Decodes(json)
    BY <2>3, <2>5 DEF Decodes, Empty, DecodesDynamic, DecodesStrictly, MarshalItem
  <2>7. \A k \in DOMAIN data.items : UnmarshalItem(MarshalItem(data.items[k])) = data.items[k]
    BY <2>5 DEF UnmarshalItem, MarshalItem, Item
  <2>8. [k \in DOMAIN json.items |-> UnmarshalItem(json.items[k])] = data.items
    BY <2>2, <2>3, <2>7
  <2>9. Unmarshal(json) = data
    BY <2>2, <2>4, <2>8 DEF Unmarshal
  <2> QED BY <2>6, <2>9
<1>4. CASE s.gatherer \in {"local", "dummy"}
  <2>1. data.type \in {"bytes", "nil"}
    BY <1>4 DEF Fetch, FetchLocal, FetchDummy, Plain
  <2>2. json.shape # "object"
    BY <2>1 DEF Marshal
  <2>3. ~ Decodes(json)
    BY <2>2 DEF Decodes, DecodesStrictly, DecodesDynamic
  <2> QED BY <2>1, <2>3
<1> QED BY <1>1, <1>2, <1>3, <1>4 DEF Source

LEMMA RoundTripAll ==
    ASSUME NEW sources \in [GathererNames -> Source]
    PROVE  /\ AllDecode(MarshalAll(Gathered(sources))) =>
                  UnmarshalAll(MarshalAll(Gathered(sources))) = Gathered(sources)
           /\ ~ AllDecode(MarshalAll(Gathered(sources))) =>
                  \E g \in DOMAIN Gathered(sources) :
                      LET data == Gathered(sources)[g]
                      IN  \/ data.type \in {"bytes", "nil"}
                          \/ data.type = "OIDCDiscoveryData" /\ data.fields = {}
<1> DEFINE G == Gathered(sources)
           file_ == MarshalAll(G)
<1>1. \A g \in DOMAIN G : g \in GathererNames /\ G[g] = Fetch(sources[g])
  BY DEF Gathered
<1>2. DOMAIN file_ = DOMAIN G /\ \A g \in DOMAIN G : file_[g] = Marshal(Fetch(sources[g]))
  BY <1>1 DEF MarshalAll
<1>3. ASSUME AllDecode(file_) PROVE UnmarshalAll(file_) = G
  <2>1. \A g \in DOMAIN G : Unmarshal(file_[g]) = G[g]
    BY <1>1, <1>2, <1>3, RoundTrip DEF AllDecode
  <2>2. G = [g \in DOMAIN G |-> G[g]]
    BY DEF Gathered
  <2> QED BY <1>2, <2>1, <2>2 DEF UnmarshalAll
<1>4. ASSUME ~ AllDecode(file_)
      PROVE  \E g \in DOMAIN G : \/ G[g].type \in {"bytes", "nil"}
                                 \/ G[g].type = "OIDCDiscoveryData" /\ G[g].fields = {}
  BY <1>1, <1>2, <1>4, RoundTrip DEF AllDecode
<1> QED BY <1>3, <1>4

(***************************************************************************)
(* The invariant.                                                          *)
(***************************************************************************)

AgentInv ==
    /\ phase \in {"agent", "combined", "ready", "uploaded"} => input \in Input
    /\ phase \in {"combined", "ready", "uploaded"} =>
           HasMode(input) /\ Valid(input) /\ config = Combined(input)
    /\ phase \in {"ready", "uploaded"} => NewClient(input, config) = "ready"
    /\ phase = "tokenless" =>
           /\ Mode(input) = "VenafiConnection" /\ config.clusterName # ""
           /\ "supportedBackend" \in input.world /\ "accessToken" \notin input.world
    /\ config # None => input \in Input /\ Valid(input) /\ config = Combined(input)

RbacInv ==
    /\ phase \in {"rbac", "printed", "applied"} => gatherers \in Seq(Gatherer)
    /\ phase \in {"printed", "applied"} => manifest = Manifest(gatherers)
    /\ phase = "applied" => cluster = Applied(manifest)

ReadingInv ==
    /\ phase \in {"gather", "written", "read", "echoed", "unreadable"} =>
           found \in [GathererNames -> Source]
    /\ phase = "written" => file = MarshalAll(Gathered(found))
    /\ phase \in {"read", "echoed"} => readings = Gathered(found)
    /\ phase = "unreadable" => ~ AllDecode(MarshalAll(Gathered(found)))

IInv == TypeOK /\ AgentInv /\ RbacInv /\ ReadingInv /\ phase # "mistake" /\ UploadsAddressed

LEMMA InitIInv == Init => IInv
<1> SUFFICES ASSUME Init PROVE IInv
  OBVIOUS
<1> USE DEF Init
<1> USE InputAssumption, GathererAssumption, FindingAssumption
<1>1. TypeOK
  BY DEF TypeOK
<1>2. AgentInv /\ RbacInv /\ ReadingInv
  BY DEF AgentInv, RbacInv, ReadingInv
<1>3. phase # "mistake" /\ UploadsAddressed
  BY DEF UploadsAddressed
<1> QED BY <1>1, <1>2, <1>3 DEF IInv

LEMMA NextIInv == IInv /\ [Next]_vars => IInv'
<1> SUFFICES ASSUME IInv, [Next]_vars PROVE IInv'
  OBVIOUS
<1> USE DEF IInv, agentVars, rbacVars, readingVars
<1>1. CASE Combine
  <2> USE <1>1 DEF Combine
  <2>1. input \in Input
    BY DEF AgentInv
  <2>2. HasMode(input) => Combined(input) \in Config
    BY <2>1, CombinedType
  <2>3. TypeOK'
    BY <2>2 DEF TypeOK
  <2>4. AgentInv' /\ RbacInv' /\ ReadingInv'
    BY <2>1 DEF AgentInv, RbacInv, ReadingInv
  <2>5. phase' # "mistake" /\ UploadsAddressed'
    BY DEF UploadsAddressed
  <2> QED BY <2>3, <2>4, <2>5
<1>2. CASE CreateClient
  <2> USE <1>2 DEF CreateClient
  <2>1. phase' \in {"ready", "refused"}
    BY NeverMistaken DEF AgentInv
  <2>2. TypeOK'
    BY <2>1 DEF TypeOK
  <2>3. AgentInv' /\ RbacInv' /\ ReadingInv'
    BY <2>1 DEF AgentInv, RbacInv, ReadingInv
  <2>4. phase' # "mistake" /\ UploadsAddressed'
    BY <2>1 DEF UploadsAddressed
  <2> QED BY <2>2, <2>3, <2>4
<1>3. CASE Post
  <2> USE <1>3 DEF Post
  <2>1. "" \notin Address(config) /\ Address(config) \in SUBSET Settings
    BY ReadyIsAddressed DEF AgentInv
  <2>2. ~ (config.mode = "VenafiConnection" /\ config.clusterName = "")
    BY <2>1 DEF Address, JetstackSecure
  <2>3. \/ phase' = "failed" /\ sent' = sent
        \/ /\ phase' = "tokenless" /\ sent' = sent
           /\ config.mode = "VenafiConnection" /\ config.clusterName # ""
           /\ "supportedBackend" \in input.world /\ "accessToken" \notin input.world
        \/ phase' = "uploaded" /\ sent' = Address(config)
    BY <2>2 DEF VenConnPost
  <2> HIDE <1>3
  <2>4. /\ phase = "ready" /\ input' = input /\ config' = config
        /\ UNCHANGED rbacVars /\ UNCHANGED readingVars /\ config.mode = Mode(input)
    BY <1>3 DEF AgentInv, Combined
  <2>5. TypeOK'
    BY <2>1, <2>3, <2>4 DEF TypeOK
  <2>6. AgentInv' /\ RbacInv' /\ ReadingInv'
    BY <2>3, <2>4 DEF AgentInv, RbacInv, ReadingInv
  <2>7. phase' # "mistake" /\ UploadsAddressed'
    BY <2>1, <2>3, <2>4 DEF UploadsAddressed
  <2> QED BY <2>5, <2>6, <2>7
<1>4. CASE GenerateRBAC
  <2> USE <1>4 DEF GenerateRBAC
  <2>1. Manifest(gatherers) \in ManifestType
    BY ManifestTypeOK DEF RbacInv
  <2>2. TypeOK'
    BY <2>1 DEF TypeOK
  <2>3. AgentInv' /\ RbacInv' /\ ReadingInv'
    BY DEF AgentInv, RbacInv, ReadingInv
  <2>4. phase' # "mistake" /\ UploadsAddressed'
    BY DEF UploadsAddressed
  <2> QED BY <2>2, <2>3, <2>4
<1>5. CASE Apply
  <2> USE <1>5 DEF Apply
  <2>1. Applied(manifest) \in ClusterType
    BY AppliedType DEF RbacInv
  <2>2. TypeOK'
    BY <2>1 DEF TypeOK
  <2>3. AgentInv' /\ RbacInv' /\ ReadingInv'
    BY DEF AgentInv, RbacInv, ReadingInv
  <2>4. phase' # "mistake" /\ UploadsAddressed'
    BY DEF UploadsAddressed
  <2> QED BY <2>2, <2>3, <2>4
<1>6. CASE WriteFile
  <2> USE <1>6 DEF WriteFile
  <2>1. \E names \in SUBSET GathererNames : file' \in [names -> JSON]
    BY GatheredType DEF ReadingInv
  <2>2. TypeOK'
    BY <2>1 DEF TypeOK
  <2>3. AgentInv' /\ RbacInv' /\ ReadingInv'
    BY DEF AgentInv, RbacInv, ReadingInv
  <2>4. phase' # "mistake" /\ UploadsAddressed'
    BY DEF UploadsAddressed
  <2> QED BY <2>2, <2>3, <2>4
<1>7. CASE ReadFile \/ Echo
  <2>1. found \in [GathererNames -> Source] /\ found' = found /\ file' = file
        /\ phase \in {"gather", "written"} /\ UNCHANGED agentVars /\ UNCHANGED rbacVars
    BY <1>7 DEF ReadFile, Echo, ReadingInv
  <2>2. \/ /\ phase' \in {"read", "echoed"} /\ readings' = Gathered(found)
        \/ /\ phase' = "unreadable" /\ ~ AllDecode(MarshalAll(Gathered(found)))
           /\ readings' = readings
    BY <1>7, <2>1, RoundTripAll DEF ReadFile, Echo, ReadingInv
  <2>3. \E names \in SUBSET GathererNames : Gathered(found) \in [names -> Data]
    BY <2>1, GatheredType
  <2>4. TypeOK'
    BY <2>1, <2>2, <2>3 DEF TypeOK
  <2>5. AgentInv' /\ RbacInv'
    BY <2>1, <2>2 DEF AgentInv, RbacInv
  <2>6. ReadingInv'
    BY <2>1, <2>2 DEF ReadingInv
  <2>7. phase' # "mistake" /\ UploadsAddressed'
    BY <2>1, <2>2 DEF UploadsAddressed
  <2> QED BY <2>4, <2>5, <2>6, <2>7
<1>8. CASE UNCHANGED vars
  <2> USE <1>8 DEF vars
  <2>1. TypeOK'
    BY DEF TypeOK
  <2>2. AgentInv' /\ RbacInv' /\ ReadingInv'
    BY DEF AgentInv, RbacInv, ReadingInv
  <2>3. phase' # "mistake" /\ UploadsAddressed'
    BY DEF UploadsAddressed
  <2> QED BY <2>1, <2>2, <2>3
<1> QED BY <1>1, <1>2, <1>3, <1>4, <1>5, <1>6, <1>7, <1>8 DEF Next

LEMMA Invariance == Spec => []IInv
BY InitIInv, NextIInv, PTL DEF Spec

(***************************************************************************)
(* The theorems.                                                           *)
(***************************************************************************)

\* Every variable of the commands keeps its type.
THEOREM TypeCorrect == Spec => []TypeOK
<1>1. IInv => TypeOK
  BY DEF IInv
<1> QED BY <1>1, Invariance, PTL

\* No input makes the agent stop with a "programmer mistake" of its
\* configuration: the validation establishes what the constructors of the
\* clients expect, and the cluster name that the VenafiConnection client's
\* upload insists on.  That upload's other mistake, an empty access token, is
\* met only if a supported backend gives it one.  And the period of an agent
\* that keeps gathering is positive, unless one of those it was given is
\* negative.
THEOREM ValidationSuffices == Spec => []NoProgrammerMistake
<1>1. IInv => NoProgrammerMistake
  BY PeriodPositive DEF IInv, AgentInv, NoProgrammerMistake
<1> QED BY <1>1, Invariance, PTL

\* Of every input that selects a mode, an option that the mode takes no notice
\* of changes nothing, whatever the others are, but for a malformed server that
\* is parsed though ignored.
THEOREM OthersOptionsIgnored == Spec => []IgnoredOptionsIrrelevant
<1>1. IInv => IgnoredOptionsIrrelevant
  BY SameEffect DEF IInv, TypeOK, IgnoredOptionsIrrelevant
<1> QED BY <1>1, Invariance, PTL

\* Readings written by one agent and read by another, or by the echo server,
\* are decoded as what they were; only those without a type are not decoded.
THEOREM ReadingsSurvive == Spec => []DecodedAsGathered
<1>1. IInv => DecodedAsGathered
  BY RoundTripAll DEF IInv, ReadingInv, DecodedAsGathered
<1> QED BY <1>1, Invariance, PTL

\* Whatever the mode, the first upload's server and cluster are not empty.
THEOREM UploadsNameTheCluster == Spec => []UploadsAddressed
<1>1. IInv => UploadsAddressed
  BY DEF IInv
<1> QED BY <1>1, Invariance, PTL

\* In the key pair modes the agent starts with one key pair: that of the flags
\* or that of the credentials file, and with --ngts that of the flag, without a
\* credentials file and without an API token.
THEOREM OneKeyPair == Spec => []KeyPairUnambiguous
<1>1. IInv => KeyPairUnambiguous
  <2> SUFFICES ASSUME IInv, phase \in {"ready", "uploaded"}
               PROVE  /\ config.mode = "VenafiCloudKeypair" =>
                            IF "credentialsPath" \in input.given
                            THEN KeypairFlags \cap input.given = {}
                            ELSE KeypairFlags \subseteq input.given
                      /\ config.mode = "NGTS" =>
                            /\ "privateKeyPath" \in input.given
                            /\ {"credentialsPath", "apiToken"} \cap input.given = {}
    BY DEF KeyPairUnambiguous
  <2>1. /\ input \in Input /\ HasMode(input) /\ Valid(input)
        /\ config = Combined(input) /\ NewClient(input, config) = "ready"
    BY DEF IInv, AgentInv
  <2>2. config.mode = Mode(input)
    BY <2>1 DEF Combined
  <2>3. CASE config.mode = "NGTS"
    <3>1. NGTSValid(input)
      BY <2>1, <2>2, <2>3 DEF Valid
    <3> QED BY <2>3, <3>1 DEF NGTSValid
  <2>4. CASE config.mode = "VenafiCloudKeypair"
    <3>1. VenafiCloudClient(input, config) = "ready"
      BY <2>1, <2>4 DEF NewClient
    <3>2. CASE "credentialsPath" \in input.given
      BY <2>4, <3>1, <3>2 DEF VenafiCloudClient, Unless
    <3>3. CASE "credentialsPath" \notin input.given
      <4>1. KeypairFlags \cap input.given # {}
        BY <3>1, <3>3 DEF VenafiCloudClient
      <4>2. KeypairFlags \subseteq input.given
        BY <3>1, <3>3, <4>1 DEF VenafiCloudClient
      <4> QED BY <2>4, <3>3, <4>2
    <3> QED BY <3>2, <3>3
  <2> QED BY <2>3, <2>4
<1> QED BY <1>1, Invariance, PTL

\* Once the manifest is applied, the agent may list in each namespace what is
\* configured, and of what is not only the resources of gatherers from which the
\* namespace is excluded; provided that no two resources of one name are
\* configured.
THEOREM ManifestGrantsAsConfigured == Spec => []GrantsAsConfigured
<1>1. IInv => GrantsAsConfigured
  BY AppliedGrants DEF IInv, RbacInv, GrantsAsConfigured
<1> QED BY <1>1, Invariance, PTL

============================================================================
