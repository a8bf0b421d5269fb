---------------------------- MODULE AgentConfig ----------------------------
(***************************************************************************)
(* How the agent's flags, its configuration file and its environment       *)
(* become the settings it runs with and the client it uploads with:        *)
(* ValidateAndCombineConfig and validateCredsAndCreateClient in            *)
(* pkg/agent/config.go, and the constructors of pkg/client.                *)
(*                                                                         *)
(* A setting is a string in the code; here it is the name of the option,   *)
(* variable or default that it was taken from, and "" if it is empty.      *)
(* An input is a record: the options given (as flags or in the file), the  *)
(* facts about the environment that the code looks up, and the two         *)
(* periods, which are durations and may be negative.                       *)
(***************************************************************************)
EXTENDS Integers

Flags == {"ngts", "venafiCloud", "machineHub", "clientID", "privateKeyPath",
          "credentialsPath", "venConnName", "venConnNS", "apiToken", "installNS",
          "tsgID", "ngtsServerURL", "outputPath", "oneShot"}

FileFields == {"server", "endpoint", "organizationID", "clusterID",
               "clusterName", "uploadPath", "fileOutputPath"}

\* What the code finds outside: variables that are set, files that can be read
\* and parsed, texts that are well formed (of the server: the URL in use), and
\* of the VenafiConnection, its backend and the access token it leads to.
Facts == {"POD_NAMESPACE", "ARK_SUBDOMAIN", "ARK_USERNAME", "ARK_SECRET",
          "credentialsFile", "oauthClient", "privateKey", "clientIDFile",
          "kubeconfig", "goodServer", "goodUploadPath", "goodRegexes",
          "goodGatherers", "supportedBackend", "accessToken"}

Input == [given: SUBSET (Flags \cup FileFields), world: SUBSET Facts,
          flagPeriod: Int, filePeriod: Int]

\* The value of an option: "" if it was not given.
Value(i, option) == IF option \in i.given THEN option ELSE ""

-----------------------------------------------------------------------------
(***************************************************************************)
(* The output mode.                                                        *)
(***************************************************************************)

Modes == {"NGTS", "VenafiCloudKeypair", "VenafiConnection", "APIToken",
          "OAuth", "MachineHub", "LocalFile"}

\* The order in which the switch tries the modes.
Precedence == [NGTS |-> 1, VenafiCloudKeypair |-> 2, VenafiConnection |-> 3,
               APIToken |-> 4, OAuth |-> 5, MachineHub |-> 6, LocalFile |-> 7]

AskedBy(i) ==
    [NGTS |-> "ngts" \in i.given,
     VenafiCloudKeypair |-> \/ {"venafiCloud", "credentialsPath"} \subseteq i.given
                            \/ {"clientID", "privateKeyPath"} \subseteq i.given,
     VenafiConnection |-> "venConnName" \in i.given,
     APIToken |-> "apiToken" \in i.given,
     OAuth |-> "credentialsPath" \in i.given /\ "venafiCloud" \notin i.given,
     MachineHub |-> "machineHub" \in i.given,
     LocalFile |-> "outputPath" \in i.given \/ "fileOutputPath" \in i.given]

\* One of --client-id and --private-key-path without the other is refused
\* where they would have selected the mode.
HalfKeypair(i) ==
    /\ ("clientID" \in i.given) # ("privateKeyPath" \in i.given)
    /\ "ngts" \notin i.given
    /\ ~ {"venafiCloud", "credentialsPath"} \subseteq i.given

Asked(i) == {m \in Modes : AskedBy(i)[m]}

HasMode(i) == Asked(i) # {} /\ ~ HalfKeypair(i)

Mode(i) == CHOOSE m \in Asked(i) : \A n \in Asked(i) : Precedence[m] <= Precedence[n]

-----------------------------------------------------------------------------
(***************************************************************************)
(* The settings combined from the input.                                   *)
(***************************************************************************)

\* `server` wins over the deprecated `endpoint`; without either each mode has
\* its default.  NGTS takes only its own flag and VenafiConnection none.
Server(i) ==
    CASE Mode(i) = "NGTS" -> Value(i, "ngtsServerURL")
      [] Mode(i) = "VenafiConnection" -> ""
      [] OTHER -> IF "server" \in i.given THEN "server"
                  ELSE IF "endpoint" \in i.given THEN "endpoint"
                  ELSE IF Mode(i) = "VenafiCloudKeypair" THEN "api.venafi.cloud"
                  ELSE "preflight.jetstack.io"

\* Faulty: the server of the file is parsed whatever the mode.
CheckedServerOfFile(i) ==
    {"server", "endpoint", "ngtsServerURL"} \cap i.given

\* The server that is parsed, in the modes that ignore it too, but for NGTS.
CheckedServer(i) ==
    IF Mode(i) = "NGTS" THEN {"ngtsServerURL"} \cap i.given
    ELSE {"server", "endpoint"} \cap i.given

JetstackSecure == {"OAuth", "APIToken"}

ClusterName(i) ==
    CASE Mode(i) \in {"VenafiCloudKeypair", "VenafiConnection"} ->
             IF "clusterName" \in i.given THEN "clusterName" ELSE Value(i, "clusterID")
      [] Mode(i) = "MachineHub" ->
             IF "clusterName" \in i.given THEN "clusterName"
             ELSE IF "ARK_USERNAME" \in i.world THEN "ARK_USERNAME" ELSE ""
      [] Mode(i) = "NGTS" -> Value(i, "clusterName")
      [] OTHER -> ""

InstallNS(i) ==
    IF "installNS" \in i.given THEN "installNS"
    ELSE IF "POD_NAMESPACE" \in i.world THEN "POD_NAMESPACE" ELSE ""

VenConnNS(i) == IF "venConnNS" \in i.given THEN "venConnNS" ELSE InstallNS(i)

OnlyIn(i, modes, value) == IF Mode(i) \in modes THEN value ELSE ""

\* Faulty: the flag's value, whatever it is, unless it is 0.
PeriodOfFlag(i) ==
    IF "oneShot" \in i.given THEN 0
    ELSE IF i.flagPeriod = 0 THEN i.filePeriod ELSE i.flagPeriod

\* A combination that none of the switch's cases covers, such as a negative
\* --period, leaves 0 and is no error.
Period(i) ==
    IF "oneShot" \in i.given THEN 0
    ELSE IF i.flagPeriod = 0 /\ i.filePeriod > 0 THEN i.filePeriod
    ELSE IF i.flagPeriod > 0 /\ i.filePeriod >= 0 THEN i.flagPeriod
    ELSE 0

Combined(i) ==
    [mode |-> Mode(i),
     server |-> Server(i),
     uploadPath |-> OnlyIn(i, {"VenafiCloudKeypair"}, Value(i, "uploadPath")),
     organizationID |-> OnlyIn(i, JetstackSecure, Value(i, "organizationID")),
     clusterID |-> OnlyIn(i, JetstackSecure, Value(i, "clusterID")),
     clusterName |-> ClusterName(i),
     installNS |-> InstallNS(i),
     venConnName |-> OnlyIn(i, {"VenafiConnection"}, Value(i, "venConnName")),
     venConnNS |-> OnlyIn(i, {"VenafiConnection"}, VenConnNS(i)),
     tsgID |-> OnlyIn(i, {"NGTS"}, Value(i, "tsgID")),
     outputPath |-> IF "outputPath" \in i.given THEN "outputPath"
                    ELSE Value(i, "fileOutputPath"),
     period |-> Period(i)]

\* Where a setting may come from.
Settings == Flags \cup FileFields \cup
            {"", "POD_NAMESPACE", "ARK_USERNAME", "api.venafi.cloud", "preflight.jetstack.io"}

Config ==
    [mode: Modes, server: Settings, uploadPath: Settings, organizationID: Settings,
     clusterID: Settings, clusterName: Settings, installNS: Settings,
     venConnName: Settings, venConnNS: Settings, tsgID: Settings,
     outputPath: Settings, period: Nat]

-----------------------------------------------------------------------------
(***************************************************************************)
(* The validation: the settings are accepted if every part is.             *)
(***************************************************************************)

NGTSValid(i) ==
    /\ ("tsgID" \in i.given) # ("ngtsServerURL" \in i.given)
    /\ "privateKeyPath" \in i.given
    /\ i.given \cap {"machineHub", "venConnName", "credentialsPath", "apiToken",
                     "venafiCloud", "organizationID", "clusterID"} = {}

ServerValid(i) == CheckedServer(i) = {} \/ "goodServer" \in i.world

UploadPathValid(i) == "uploadPath" \in i.given /\ "goodUploadPath" \in i.world

\* Faulty: one of organization_id and cluster_id is enough.
ClusterHalfValid(i) ==
    CASE Mode(i) = "NGTS" -> "clusterName" \in i.given
      [] Mode(i) \in {"VenafiCloudKeypair", "VenafiConnection"} ->
             "clusterName" \in i.given \/ "clusterID" \in i.given
      [] Mode(i) \in JetstackSecure -> {"organizationID", "clusterID"} \cap i.given # {}
      [] OTHER -> TRUE

ClusterValid(i) ==
    CASE Mode(i) = "NGTS" -> "clusterName" \in i.given
      [] Mode(i) \in {"VenafiCloudKeypair", "VenafiConnection"} ->
             "clusterName" \in i.given \/ "clusterID" \in i.given
      [] Mode(i) \in JetstackSecure -> {"organizationID", "clusterID"} \subseteq i.given
      [] OTHER -> TRUE

PeriodValid(i) ==
    "oneShot" \in i.given \/ i.flagPeriod # 0 \/ i.filePeriod # 0

\* Faulty: the namespace of the VenafiConnection is checked instead.
VenConnNSValid(i) == VenConnNS(i) # ""

InstallNSValid(i) == InstallNS(i) # ""

Valid(i) ==
    /\ Mode(i) = "NGTS" => NGTSValid(i)
    /\ ServerValid(i)
    /\ Mode(i) = "VenafiCloudKeypair" => UploadPathValid(i)
    /\ ClusterValid(i)
    /\ "goodGatherers" \in i.world
    /\ PeriodValid(i)
    /\ Mode(i) = "VenafiConnection" => InstallNSValid(i)
    /\ "goodRegexes" \in i.world

-----------------------------------------------------------------------------
(***************************************************************************)
(* The client.  Each mode's constructor either builds the client, refuses  *)
(* what it was given, or finds a precondition broken that its caller was   *)
(* to establish: the code calls that a "programmer mistake".               *)
(***************************************************************************)

Outcomes == {"ready", "refused", "mistake"}

Unless(error, outcome) == IF error THEN "refused" ELSE outcome

OAuthClient(i, c) ==
    Unless("credentialsFile" \notin i.world,
           IF c.server = "" THEN "mistake"
           ELSE Unless("oauthClient" \notin i.world, "ready"))

KeypairFlags == {"clientID", "privateKeyPath"}

\* Faulty: the flags of the key pair silently win over a credentials file.
VenafiCloudClientOfFlags(i, c) ==
    IF KeypairFlags \subseteq i.given
    THEN Unless("privateKey" \notin i.world \/ c.server = "", "ready")
    ELSE Unless(\/ "credentialsPath" \notin i.given
                \/ ~ {"credentialsFile", "privateKey"} \subseteq i.world
                \/ c.server = "", "ready")

VenafiCloudClient(i, c) ==
    CASE "credentialsPath" \in i.given ->
             Unless(\/ KeypairFlags \cap i.given # {}
                    \/ "credentialsFile" \notin i.world
                    \/ "privateKey" \notin i.world
                    \/ c.server = "", "ready")
      [] "credentialsPath" \notin i.given /\ KeypairFlags \cap i.given = {} ->
             "refused"
      [] OTHER -> IF KeypairFlags \subseteq i.given
                  THEN Unless("privateKey" \notin i.world \/ c.server = "", "ready")
                  ELSE "mistake"

VenConnClient(i, c) ==
    Unless("kubeconfig" \notin i.world,
           IF "" \in {c.installNS, c.venConnName, c.venConnNS} THEN "mistake"
           ELSE "ready")

NGTSClient(i, c) ==
    Unless(\/ "privateKeyPath" \notin i.given
           \/ "clientID" \notin i.given /\ "clientIDFile" \notin i.world
           \/ (c.tsgID = "") = (c.server = "")
           \/ ~ {"privateKey", "goodServer"} \subseteq i.world, "ready")

CyberArkClient(i) ==
    Unless(~ {"ARK_SUBDOMAIN", "ARK_USERNAME", "ARK_SECRET"} \subseteq i.world, "ready")

NewClient(i, c) ==
    CASE c.mode = "OAuth" -> OAuthClient(i, c)
      [] c.mode = "VenafiCloudKeypair" -> VenafiCloudClient(i, c)
      [] c.mode = "VenafiConnection" -> VenConnClient(i, c)
      [] c.mode = "APIToken" -> Unless(c.server = "", "ready")
      [] c.mode = "LocalFile" -> "ready"
      [] c.mode = "MachineHub" -> CyberArkClient(i)
      [] c.mode = "NGTS" -> NGTSClient(i, c)
      [] OTHER -> "mistake"

(***************************************************************************)
(* What the client puts in the address of an upload, or, for a snapshot or *)
(* a file, what tells the cluster's data from others'.                     *)
(***************************************************************************)
Address(c) ==
    CASE c.mode \in JetstackSecure -> {c.server, c.organizationID, c.clusterID}
      [] c.mode = "VenafiCloudKeypair" -> {c.server, c.uploadPath, c.clusterName}
      [] c.mode = "NGTS" -> {IF c.server = "" THEN c.tsgID ELSE c.server, c.clusterName}
      [] c.mode \in {"VenafiConnection", "MachineHub"} -> {c.clusterName}
      [] OTHER -> {c.outputPath}

============================================================================
