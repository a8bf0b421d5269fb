----------------------------- MODULE MCCyberArk ------------------------------
(* Constants for model checking CyberArk. *)
EXTENDS CyberArk

CONSTANTS e1, e2, k1, k2

Endpoints == {e1, e2}
Keys == {k1, k2}

\* The APIs move, the inventory API is missing, the tenant suspended.
At(i, d) == [identity |-> i, inventory |-> d]
Directories == {At(e1, e1), At(e2, e2), At(e1, None), At(None, e1)}
Home == At(e1, e1)

Lists == {"ark/secrets", "ark/pods"}

Of(gatherer, items) ==
    [gatherer |-> gatherer, type |-> ExtractedType(gatherer), items |-> items,
     clusterID |-> gatherer = "ark/discovery"]

\* Secrets of each class, one of them deleted, and a pod that was deleted.
Secrets == {[id |-> 1, class |-> "client", deleted |-> FALSE],
            [id |-> 2, class |-> "server", deleted |-> FALSE],
            [id |-> 3, class |-> "plain", deleted |-> TRUE],
            [id |-> 4, class |-> "plain", deleted |-> FALSE],
            [id |-> 7, class |-> "unreadable", deleted |-> FALSE],
            [id |-> 8, class |-> "doubtful", deleted |-> FALSE]}
Pods == {[id |-> 5, class |-> "plain", deleted |-> TRUE],
         [id |-> 6, class |-> "plain", deleted |-> FALSE]}

Whole == <<Of("ark/oidc", {}), Of("ark/discovery", {}), Of("ark/secrets", Secrets),
           Of("ark/pods", Pods)>>

\* All readings; those of a gather in which a Fetch failed; and such as a file
\* given with --input-path may hold, where the cluster has no ID.
SomeReadings ==
    {Whole, <<Whole[1], Whole[3], Whole[4]>>, [Whole EXCEPT ![2].clusterID = FALSE]}
=============================================================================
