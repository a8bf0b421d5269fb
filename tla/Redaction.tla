------------------------------- MODULE Redaction -------------------------------
(***************************************************************************)
(* What Fetch does to the resources it uploads: excludeResources and       *)
(* redactList of pkg/datagatherer/k8sdynamic/dynamic.go, with the          *)
(* encryption of Secret data, working in place on objects that the         *)
(* gatherer's cache and the informer share.                                *)
(*                                                                         *)
(* Every watch event, deletion or relist delivers a fresh copy of a        *)
(* resource, numbered from 1; the cache holds a pointer to the copy of the *)
(* last handled notification and a Fetch holds pointers of its own.  A     *)
(* resync hands the handlers the copy they already have, redacted or not,  *)
(* and so changes nothing here; expiry is the business of ResourceCache.   *)
(*                                                                         *)
(* A resource's payload is a set of keys: the entries of a Secret's data   *)
(* field, or the fields of a Route's spec.  Its metadata is the set of its *)
(* annotation and label keys.  redactList's error returns are left out: an *)
(* object that the API server serves has a kind and well-formed fields.    *)
(***************************************************************************)
EXTENDS Naturals

CONSTANTS
    Resource,    \* resources of the watched type, one uid each
    Config,      \* the gatherers: [kind, encrypting, lastModified]
    Key,         \* entries of data or spec
    Retained,    \* those in SecretSelectedFields or RouteSelectedFields
    MetaKey,     \* annotation and label keys
    Superfluous, \* the annotations of RedactFields
    LastApplied, \* kubectl's last-applied-configuration
    Excluded,    \* keys that match an ExcludeAnnotKeys or ExcludeLabelKeys regex
    Content,     \* what the API server may hold: [data, meta]
    None,        \* no copy; a field that is absent
    MaxCopies    \* bound: copies delivered of one resource

Kinds == {"Secret", "Route", "Native", "Other"}
Payload == (SUBSET Key) \cup {None}
Copy == 1..MaxCopies

\* orig is no field of the object: it is the data the copy was delivered with.
\* enc is what _encryptedData decrypts to, managed and modified tell whether
\* metadata.managedFields and _lastModifiedTime are there.
Object == [orig : Payload, data : Payload, enc : Payload, managed : BOOLEAN,
           modified : BOOLEAN, meta : SUBSET MetaKey]

Pointer == Resource \X Copy

ASSUME KeyAssumption ==
    /\ Retained \subseteq Key
    /\ Superfluous \subseteq MetaKey /\ Excluded \subseteq MetaKey
    /\ LastApplied \in Superfluous
    /\ \A keys \in SUBSET Key : keys # None
    /\ None \notin Object

ASSUME ContentAssumption ==
    Content \subseteq [data : Payload \ {{}}, meta : SUBSET MetaKey]

ASSUME ConfigAssumption ==
    Config \subseteq [kind : Kinds, encrypting : BOOLEAN, lastModified : BOOLEAN]

ASSUME CopyAssumption == MaxCopies \in Nat

VARIABLES
    config,    \* the gatherer's configuration
    heap,      \* the objects, by resource and copy
    delivered, \* copies of each resource the informer has delivered
    cached,    \* the copy the cache points to, 0 if none
    phase,     \* "idle", "redacting" or "fetched"
    listed,    \* the cache's items when Fetch began
    items,     \* those that excludeResources left, Fetch's result
    todo,      \* those not yet redacted
    sent       \* the last upload of each resource

vars == <<config, heap, delivered, cached, phase, listed, items, todo, sent>>

Init ==
    /\ config \in Config
    /\ heap = [r \in Resource |-> [c \in Copy |-> None]]
    /\ delivered = [r \in Resource |-> 0]
    /\ cached = [r \in Resource |-> 0]
    /\ phase = "idle"
    /\ listed = {}
    /\ items = {}
    /\ todo = {}
    /\ sent = [r \in Resource |-> None]

-----------------------------------------------------------------------------
(* The informer and its event handlers. *)

Fresh(content) ==
    [orig |-> content.data, data |-> content.data, enc |-> None,
     managed |-> TRUE, modified |-> FALSE, meta |-> content.meta]

Deliver(r) ==
    /\ delivered[r] < MaxCopies
    /\ \E content \in Content :
         heap' = [heap EXCEPT ![r][delivered[r] + 1] = Fresh(content)]
    /\ delivered' = [delivered EXCEPT ![r] = @ + 1]
    /\ UNCHANGED <<config, cached, phase, listed, items, todo, sent>>

\* onAdd, onUpdate and onDelete store the pointer they are given.
Handle(r) ==
    /\ cached[r] < delivered[r]
    /\ cached' = [cached EXCEPT ![r] = @ + 1]
    /\ UNCHANGED <<config, heap, delivered, phase, listed, items, todo, sent>>

-----------------------------------------------------------------------------
(* The redaction of one object.  An operator whose comment begins with     *)
(* "Faulty" is no part of the specification: it is what the definition after *)
(* it would be with a plausible bug in the code.                           *)

\* Faulty: no data is encrypted as an empty map.
EncryptDataFieldOrEmpty(o, keyFetched) ==
    IF keyFetched THEN [o EXCEPT !.enc = IF o.data = None THEN {} ELSE o.data]
    ELSE o

\* Without a data field, or without a key, an earlier _encryptedData stays.
EncryptDataField(o, keyFetched) ==
    IF o.data # None /\ keyFetched THEN [o EXCEPT !.enc = o.data] ELSE o

\* Faulty: an object without managedFields loses the time it has.
SetLastModifiedAnew(o) == [o EXCEPT !.modified = o.managed]

\* managedFields, which the API server always sets, are gone after the first
\* redaction of a copy; _lastModifiedTime is left as it is then.
SetLastModifiedTime(o) == [o EXCEPT !.modified = @ \/ o.managed]

\* Faulty: an allow-list over the data as a whole.
SelectAllOrNothing(o, keepEnc) ==
    [o EXCEPT !.data = IF o.data # None /\ o.data \subseteq Retained
                       THEN o.data ELSE None,
              !.enc = IF keepEnc THEN @ ELSE None,
              !.managed = FALSE]

\* The object keeps its allow-listed fields; a map with none of them is gone.
Select(o, keepEnc) ==
    [o EXCEPT !.data = IF o.data = None \/ o.data \cap Retained = {}
                       THEN None ELSE o.data \cap Retained,
              !.enc = IF keepEnc THEN @ ELSE None,
              !.managed = FALSE]

RedactSecret(o, keyFetched) ==
    LET encrypted == IF config.encrypting THEN EncryptDataField(o, keyFetched)
                     ELSE o
        timed == IF config.lastModified THEN SetLastModifiedTime(encrypted)
                 ELSE encrypted
    IN Select(timed, config.encrypting)

\* Redact and RemoveUnstructuredKeys, of every unstructured object.
Redact(o) ==
    [o EXCEPT !.managed = FALSE, !.meta = @ \ (Superfluous \cup Excluded)]

\* The objects of a shared informer factory: pods, nodes, deployments, ...
RedactNative(o) ==
    [o EXCEPT !.managed = FALSE, !.meta = @ \ ({LastApplied} \cup Excluded)]

Redacted(o, keyFetched) ==
    CASE config.kind = "Secret" -> Redact(RedactSecret(o, keyFetched))
      [] config.kind = "Route"  -> Redact(Select(o, FALSE))
      [] config.kind = "Other"  -> Redact(o)
      [] config.kind = "Native" -> RedactNative(o)

-----------------------------------------------------------------------------
(* Fetch and the upload. *)

\* resourceMatchesExclusionKeys
Matches(o) == config.kind # "Native" /\ o.meta \cap Excluded # {}

\* Faulty: what is excluded is redacted before it is dropped.
BeginFetchExcludeLast ==
    /\ phase = "idle"
    /\ phase' = "redacting"
    /\ listed' = {<<r, cached[r]>> : r \in {q \in Resource : cached[q] > 0}}
    /\ items' = {p \in listed' : ~Matches(heap[p[1]][p[2]])}
    /\ todo' = listed'
    /\ UNCHANGED <<config, heap, delivered, cached, sent>>

BeginFetch ==
    /\ phase = "idle"
    /\ phase' = "redacting"
    /\ listed' = {<<r, cached[r]>> : r \in {q \in Resource : cached[q] > 0}}
    /\ items' = {p \in listed' : ~Matches(heap[p[1]][p[2]])}
    /\ todo' = items'
    /\ UNCHANGED <<config, heap, delivered, cached, sent>>

\* One turn of redactList's loop.  Encryption may fetch a key over the network,
\* and fail: then the error is logged and the object redacted nevertheless.
RedactItem(p) ==
    /\ p \in todo
    /\ \E keyFetched \in BOOLEAN :
         heap' = [heap EXCEPT ![p[1]][p[2]] = Redacted(@, keyFetched)]
    /\ todo' = todo \ {p}
    /\ UNCHANGED <<config, delivered, cached, phase, listed, items, sent>>

EndFetch ==
    /\ phase = "redacting"
    /\ todo = {}
    /\ phase' = "fetched"
    /\ UNCHANGED <<config, heap, delivered, cached, listed, items, todo, sent>>

\* Faulty: what is uploaded is read from the cache.
UploadFromCache ==
    /\ phase = "fetched"
    /\ phase' = "idle"
    /\ sent' = [r \in Resource |-> IF \E p \in items : p[1] = r
                                   THEN heap[r][cached[r]] ELSE sent[r]]
    /\ UNCHANGED <<config, heap, delivered, cached, listed, items, todo>>

\* The items are marshalled after Fetch, through their pointers, and again for
\* every retry; no other Fetch runs until the upload is over.
Upload ==
    /\ phase = "fetched"
    /\ phase' = "idle"
    /\ sent' = [r \in Resource |->
         IF \E p \in items : p[1] = r
         THEN heap[r][(CHOOSE p \in items : p[1] = r)[2]] ELSE sent[r]]
    /\ UNCHANGED <<config, heap, delivered, cached, listed, items, todo>>

Next ==
    \/ \E r \in Resource : Deliver(r) \/ Handle(r)
    \/ BeginFetch
    \/ \E p \in Pointer : RedactItem(p)
    \/ EndFetch
    \/ Upload

Spec == Init /\ [][Next]_vars

-----------------------------------------------------------------------------
(* Properties. *)

TypeOK ==
    /\ config \in Config
    /\ heap \in [Resource -> [Copy -> Object \cup {None}]]
    /\ delivered \in [Resource -> 0..MaxCopies]
    /\ cached \in [Resource -> 0..MaxCopies]
    /\ phase \in {"idle", "redacting", "fetched"}
    /\ listed \subseteq Pointer
    /\ items \subseteq listed
    /\ todo \subseteq items
    /\ sent \in [Resource -> Object \cup {None}]

\* The keys the gatherer's kind of object must not be uploaded with.
HiddenKeys == IF config.kind \in {"Secret", "Route"} THEN Key \ Retained ELSE {}
HiddenMeta ==
    Excluded \cup IF config.kind = "Native" THEN {LastApplied} ELSE Superfluous

Clean(o) ==
    /\ o.data = None \/ o.data \cap HiddenKeys = {}
    /\ o.meta \cap HiddenMeta = {}
    /\ ~o.managed

\* What of an object's original data an upload may hold.
Public(data) ==
    IF data = None \/ data \ HiddenKeys = {} THEN None ELSE data \ HiddenKeys

\* Nothing outside the allow-list is ever uploaded in clear, whether or not the
\* encryption of a Secret fails, and whatever arrives while Fetch is at work
\* (redactList: "If encryption is enabled and _fails_, we MUST still redact the
\* data field").
NothingSensitiveSent == \A r \in Resource : sent[r] # None => Clean(sent[r])

\* Redacting the same object again and again leaves what it may upload: the
\* certificates of a Secret, all data of the kinds that are not redacted.
PublicDataSent ==
    \A r \in Resource : sent[r] # None => sent[r].data = Public(sent[r].orig)

\* _lastModifiedTime is in every upload of a Secret, though managedFields are
\* there on the first only (setLastModifiedTime: "This must be called before
\* Select(), which removes managedFields").
LastModifiedSent ==
    (config.kind = "Secret" /\ config.lastModified) =>
        \A r \in Resource : sent[r] # None => sent[r].modified

\* If a Secret has no allow-listed key, a ciphertext uploaded for it is that of
\* all its data, however often it was redacted before.
OpaqueCiphertextWhole ==
    \A r \in Resource :
        (/\ sent[r] # None
         /\ sent[r].enc # None
         /\ sent[r].orig # None
         /\ sent[r].orig \cap Retained = {}) => sent[r].enc = sent[r].orig

\* A ciphertext uploaded for a Secret is that of all its data (dynamic_test.go,
\* compareEncryptedData: "decrypted data does not match original data").
CiphertextWhole ==
    \A r \in Resource :
        (sent[r] # None /\ sent[r].enc # None) => sent[r].enc = sent[r].orig
=============================================================================
