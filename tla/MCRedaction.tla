----------------------------- MODULE MCRedaction -----------------------------
(* Constants for model checking Redaction. *)
EXTENDS Redaction

CONSTANTS r1, crt, key, applied, kapp, excl

OneResource == {r1}
Keys == {crt, key}
OnlyCrt == {crt}
MetaKeys == {applied, kapp, excl}
ToolKeys == {applied, kapp}
OnlyExcl == {excl}

\* A Secret without data, an opaque one whose value is also in annotations, a
\* TLS Secret with and without an annotation of a tool, an excluded one.
Contents ==
    {[data |-> None, meta |-> {}],
     [data |-> {key}, meta |-> ToolKeys],
     [data |-> Keys, meta |-> {}],
     [data |-> Keys, meta |-> {kapp}],
     [data |-> OnlyCrt, meta |-> OnlyExcl]}

AllConfigs ==
    {c \in [kind : Kinds, encrypting : BOOLEAN, lastModified : BOOLEAN] :
        c.kind # "Secret" => ~c.encrypting /\ ~c.lastModified}

SecretConfig == {[kind |-> "Secret", encrypting |-> TRUE, lastModified |-> TRUE]}
=============================================================================
