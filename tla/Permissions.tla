---------------------------- MODULE Permissions ----------------------------
(***************************************************************************)
(* The RBAC manifest that `agent rbac` prints for the configured data      *)
(* gatherers (pkg/permissions/generate.go), and what a cluster to which it *)
(* is applied lets the agent list.                                         *)
(*                                                                         *)
(* A role and its bindings are named after the resource they are for,      *)
(* whatever its API group, so the resource stands for the name here.  The  *)
(* verbs are always get, list and watch, and the subject is always the     *)
(* agent's service account.                                                *)
(***************************************************************************)
EXTENDS Naturals, Sequences

CONSTANTS Groups,      \* API groups
          Resources,   \* names of resources
          Namespaces,
          None

ASSUME NoneAssumption == None \notin Groups

\* Of a gatherer's configuration, what its permissions are about.  That only
\* one of include-namespaces and exclude-namespaces may be set is checked when
\* the agent starts, and not by this command.
Gatherer == [kind: {"k8s-dynamic", "k8s", "other"}, named: BOOLEAN,
             group: Groups, resource: Resources,
             include: SUBSET Namespaces, exclude: SUBSET Namespaces]

\* ValidateDataGatherers; a gatherer without a kind does not parse.
GatherersValid(gatherers) == \A i \in DOMAIN gatherers : gatherers[i].named

\* The positions of the gatherers the manifest is for.
Dynamic(gatherers) == {i \in DOMAIN gatherers : gatherers[i].kind = "k8s-dynamic"}

(***************************************************************************)
(* The manifest: the roles, each with its place in the list, and the       *)
(* bindings, one in each namespace included if there are such, and cluster- *)
(* wide otherwise.  Excluded namespaces are not looked at.                 *)
(***************************************************************************)
Role(d, i) == [at |-> i, group |-> d.group, resource |-> d.resource]

Roles(gatherers) == {Role(gatherers[i], i) : i \in Dynamic(gatherers)}

\* Faulty: a cluster-wide binding for every gatherer.
ClusterRoleBindingsForAll(gatherers) == {gatherers[i].resource : i \in Dynamic(gatherers)}

ClusterRoleBindings(gatherers) ==
    {gatherers[i].resource : i \in {j \in Dynamic(gatherers) : gatherers[j].include = {}}}

RoleBindings(gatherers) ==
    {b \in Resources \X Namespaces :
        \E i \in Dynamic(gatherers) :
            b[1] = gatherers[i].resource /\ b[2] \in gatherers[i].include}

Manifest(gatherers) ==
    [roles |-> Roles(gatherers),
     clusterRoleBindings |-> ClusterRoleBindings(gatherers),
     roleBindings |-> RoleBindings(gatherers)]

ManifestType ==
    [roles: SUBSET [at: Nat, group: Groups, resource: Resources],
     clusterRoleBindings: SUBSET Resources,
     roleBindings: SUBSET (Resources \X Namespaces)]

(***************************************************************************)
(* The cluster after the manifest is applied.  Of two roles of one name    *)
(* the second replaces the first; the group it is for is all that a role   *)
(* adds to its name.                                                       *)
(***************************************************************************)
LastRole(roles, name) ==
    LET named == {r \in roles : r.resource = name}
    IN  CHOOSE r \in named : \A s \in named : s.at <= r.at

Applied(manifest) ==
    [group |-> [name \in Resources |->
                   IF \E r \in manifest.roles : r.resource = name
                   THEN LastRole(manifest.roles, name).group
                   ELSE None],
     everywhere |-> manifest.clusterRoleBindings,
     within |-> manifest.roleBindings]

ClusterType ==
    [group: [Resources -> Groups \cup {None}],
     everywhere: SUBSET Resources,
     within: SUBSET (Resources \X Namespaces)]

\* May the agent list a resource in all namespaces at once, and in one?
MayListEverywhere(cluster, group, resource) ==
    cluster.group[resource] = group /\ resource \in cluster.everywhere

MayListIn(cluster, group, resource, ns) ==
    /\ cluster.group[resource] = group
    /\ resource \in cluster.everywhere \/ <<resource, ns>> \in cluster.within

============================================================================
