---------------------------- MODULE DataReadings ----------------------------
(***************************************************************************)
(* The readings of the data gatherers, their JSON, and the decoding of     *)
(* that JSON (api/datareading.go).  The agent decodes the file given with  *)
(* --input-path, which another agent may have written with --output-path,  *)
(* and the echo server what is posted to it.                               *)
(*                                                                         *)
(* Nothing in the JSON of a reading says which of the three types its data *)
(* is of.  Of a JSON value the model keeps its shape, the names of the     *)
(* fields it has if it is an object, and, of each of the items of a list   *)
(* of resources, whether the object in it says its kind and whether it is  *)
(* marked deleted.                                                         *)
(***************************************************************************)
EXTENDS Sequences

-----------------------------------------------------------------------------
(***************************************************************************)
(* What the gatherers find, and what their Fetch makes of it.              *)
(***************************************************************************)

\* The answer to one of the OIDC gatherer's two requests: "empty" is the
\* object without fields, or null.
Answers == {"document", "empty", "error"}

\* An object in the cache, from one of the typed informers or from a dynamic
\* one, whose objects are unstructured.
CachedItem == [typed: BOOLEAN, deleted: BOOLEAN]

Source == [gatherer: {"oidc"}, config: Answers, jwks: Answers]
          \cup [gatherer: {"k8s-discovery"}, answered: BOOLEAN]
          \cup [gatherer: {"k8s-dynamic"}, items: Seq(CachedItem)]
          \cup [gatherer: {"local"}, readable: BOOLEAN]
          \cup [gatherer: {"dummy"}, fails: BOOLEAN]

OIDCFields == {"openid_configuration", "openid_configuration_error", "jwks", "jwks_error"}

DiscoveryFields == {"cluster_id", "server_version"}

ReadingType == {"OIDCDiscoveryData", "DiscoveryData", "DynamicData", "bytes", "nil"}

\* An item of DynamicData: does the object in it have a kind, and DeletedAt a
\* time?
Item == [kinded: BOOLEAN, deleted: BOOLEAN]

\* The data of a reading; `fields` are those of a structure that are not empty.
Data == [type: ReadingType, fields: SUBSET (OIDCFields \cup DiscoveryFields),
         items: Seq(Item)]

Plain(type, fields) == [type |-> type, fields |-> fields, items |-> <<>>]

Found(answer, document, error) ==
    CASE answer = "document" -> {document}
      [] answer = "error" -> {error}
      [] answer = "empty" -> {}

\* Both requests are made, whatever becomes of the first, and an error is data.
FetchOIDC(s) ==
    Plain("OIDCDiscoveryData",
          Found(s.config, "openid_configuration", "openid_configuration_error")
            \cup Found(s.jwks, "jwks", "jwks_error"))

\* redactList gives a typed object the TypeMeta that its decoder has dropped.
SetTypeMeta(item) == [kinded |-> TRUE, deleted |-> item.deleted]

FetchDynamic(s) ==
    [type |-> "DynamicData", fields |-> {},
     items |-> [k \in DOMAIN s.items |-> SetTypeMeta(s.items[k])]]

FetchDiscovery == Plain("DiscoveryData", DiscoveryFields)

FetchLocal == Plain("bytes", {})

FetchDummy == Plain("nil", {})

\* Does Fetch return without an error?
Succeeds(s) ==
    /\ s.gatherer = "k8s-discovery" => s.answered
    /\ s.gatherer = "local" => s.readable
    /\ s.gatherer = "dummy" => ~ s.fails

Fetch(s) ==
    CASE s.gatherer = "oidc" -> FetchOIDC(s)
      [] s.gatherer = "k8s-discovery" -> FetchDiscovery
      [] s.gatherer = "k8s-dynamic" -> FetchDynamic(s)
      [] s.gatherer = "local" -> FetchLocal
      [] s.gatherer = "dummy" -> FetchDummy

\* The readings by the names of their gatherers.  A gatherer that fails leaves
\* none; the order of the others is that of a Go map.
Gathered(sources) ==
    [g \in {h \in DOMAIN sources : Succeeds(sources[h])} |-> Fetch(sources[g])]

-----------------------------------------------------------------------------
(***************************************************************************)
(* Encoding.                                                               *)
(***************************************************************************)

Shapes == {"object", "string", "null"}

JSONFields == OIDCFields \cup DiscoveryFields \cup {"items"}

\* The JSON of an item: `deleted_at` is left out if no time is set.
JSONItem == [fields: {{"resource"}, {"resource", "deleted_at"}}, kinded: BOOLEAN]

JSON == [shape: Shapes, fields: SUBSET JSONFields, items: Seq(JSONItem)]

MarshalItem(item) ==
    [fields |-> {"resource"} \cup (IF item.deleted THEN {"deleted_at"} ELSE {}),
     kinded |-> item.kinded]

Object(fields) == [shape |-> "object", fields |-> fields, items |-> <<>>]

\* The fields of OIDCDiscoveryData are left out if empty, bytes become a
\* string, and a reading without data is null.
Marshal(data) ==
    CASE data.type \in {"OIDCDiscoveryData", "DiscoveryData"} -> Object(data.fields)
      [] data.type = "DynamicData" ->
             [shape |-> "object", fields |-> {"items"},
              items |-> [k \in DOMAIN data.items |-> MarshalItem(data.items[k])]]
      [] data.type = "bytes" -> [shape |-> "string", fields |-> {}, items |-> <<>>]
      [] data.type = "nil" -> [shape |-> "null", fields |-> {}, items |-> <<>>]

MarshalAll(readings) == [g \in DOMAIN readings |-> Marshal(readings[g])]

-----------------------------------------------------------------------------
(***************************************************************************)
(* Decoding.                                                               *)
(***************************************************************************)

Empty(json) == json.shape = "null" \/ (json.shape = "object" /\ json.fields = {})

\* Faulty: unknown fields are no error.
DecodesLoosely(json, fields) == json.shape = "object"

\* An object decodes into a structure if that has all of its fields.
DecodesStrictly(json, fields) == json.shape = "object" /\ json.fields \subseteq fields

UnmarshalItem(item) ==
    [kinded |-> item.kinded, deleted |-> "deleted_at" \in item.fields]

\* The library refuses an unstructured object that does not say its kind.
DecodesDynamic(json) ==
    DecodesStrictly(json, {"items"}) /\ \A k \in DOMAIN json.items : json.items[k].kinded

\* Is the data not empty, and of one of the types?
Decodes(json) ==
    /\ ~ Empty(json)
    /\ \/ DecodesStrictly(json, OIDCFields)
       \/ DecodesStrictly(json, DiscoveryFields)
       \/ DecodesDynamic(json)

\* The first of the types that the data decodes into.
Unmarshal(json) ==
    IF DecodesStrictly(json, OIDCFields)
    THEN Plain("OIDCDiscoveryData", json.fields \cap OIDCFields)
    ELSE IF DecodesStrictly(json, DiscoveryFields)
    THEN Plain("DiscoveryData", json.fields \cap DiscoveryFields)
    ELSE [type |-> "DynamicData", fields |-> {},
          items |-> [k \in DOMAIN json.items |-> UnmarshalItem(json.items[k])]]

\* One reading that does not decode makes the file, or the body, unreadable.
AllDecode(file) == \A g \in DOMAIN file : Decodes(file[g])

UnmarshalAll(file) == [g \in DOMAIN file |-> Unmarshal(file[g])]

============================================================================
