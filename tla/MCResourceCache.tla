--------------------------- MODULE MCResourceCache ---------------------------
(* Constants for model checking ResourceCache. *)
EXTENDS ResourceCache

CONSTANTS n1, n2, u1, u2, u3

\* Two incarnations of one name.
OneName == {n1}
TwoUids == {u1, u2}
OneNameOf == [u \in TwoUids |-> n1]

\* A second name, outside the included namespaces.
TwoNames == {n1, n2}
ThreeUids == {u1, u2, u3}
TwoNameOf == [u \in ThreeUids |-> IF u = u3 THEN n2 ELSE n1]
OnlyN1 == {n1}
=============================================================================
