--------------------------- MODULE RedactionProofs ---------------------------
(* Proofs about Redaction: what every upload is free of and what it keeps.  *)
(* The argument is about single objects: a delivered object is Sound from   *)
(* the start and every redaction leaves it Sound, and Ready once it has been *)
(* redacted; Fetch's result consists of objects redacted at least once.     *)
EXTENDS Redaction, TLAPS

-----------------------------------------------------------------------------
(* What redaction does to one object. *)

\* Of every object in the heap.
SoundObject(o) ==
    /\ o.orig # {}
    /\ o.data \in {o.orig, Public(o.orig)}
    /\ (config.kind = "Secret" /\ config.lastModified) =>
           (o.managed \/ o.modified)
    /\ (o.enc # None /\ o.orig \cap Retained = {}) => o.enc = o.orig

\* Of every object that has been redacted.
ReadyObject(o) ==
    /\ SoundObject(o)
    /\ Clean(o)
    /\ o.data = Public(o.orig)

LEMMA FreshSound ==
    ASSUME NEW content \in Content
    PROVE  Fresh(content) \in Object /\ SoundObject(Fresh(content))
<1>1. content.data \in Payload \ {{}} /\ content.meta \in SUBSET MetaKey
  BY ContentAssumption
<1>2. None \in Payload
  BY DEF Payload
<1>3. Fresh(content) \in Object
  BY <1>1, <1>2 DEF Fresh, Object
<1>4. SoundObject(Fresh(content))
  BY <1>1 DEF Fresh, SoundObject
<1> QED BY <1>3, <1>4

\* An object's fields.
LEMMA Fields ==
    ASSUME NEW o \in Object
    PROVE  /\ o.orig \in Payload /\ o.data \in Payload /\ o.enc \in Payload
           /\ o.managed \in BOOLEAN /\ o.modified \in BOOLEAN
           /\ o.meta \in SUBSET MetaKey
BY DEF Object

LEMMA SelectedFields ==
    ASSUME NEW o \in Object, NEW keepEnc \in BOOLEAN
    PROVE  LET s == Select(o, keepEnc) IN
           /\ s \in Object
           /\ s.orig = o.orig
           /\ s.data = IF o.data = None \/ o.data \cap Retained = {}
                       THEN None ELSE o.data \cap Retained
           /\ s.enc = IF keepEnc THEN o.enc ELSE None
           /\ s.managed = FALSE
           /\ s.modified = o.modified
           /\ s.meta = o.meta
<1> DEFINE kept == IF o.data = None \/ o.data \cap Retained = {}
                   THEN None ELSE o.data \cap Retained
            enc == IF keepEnc THEN o.enc ELSE None
<1>1. kept \in Payload /\ enc \in Payload
  BY Fields DEF Payload
<1> HIDE DEF kept, enc
<1>2. Select(o, keepEnc) =
        [o EXCEPT !.data = kept, !.enc = enc, !.managed = FALSE]
  BY DEF Select, kept, enc
<1>3. [o EXCEPT !.data = kept] \in Object
  BY <1>1 DEF Object
<1>4. [o EXCEPT !.data = kept, !.enc = enc] \in Object
  BY <1>1, <1>3 DEF Object
<1>5. [o EXCEPT !.data = kept, !.enc = enc, !.managed = FALSE] \in Object
  BY <1>1, <1>4 DEF Object
<1>6. Select(o, keepEnc).data = kept /\ Select(o, keepEnc).enc = enc
  BY <1>2 DEF Object
<1> QED BY <1>2, <1>5, <1>6 DEF kept, enc, Object

LEMMA EncryptedFields ==
    ASSUME NEW o \in Object, NEW k \in BOOLEAN
    PROVE  LET s == EncryptDataField(o, k) IN
           /\ s \in Object
           /\ s.orig = o.orig /\ s.data = o.data /\ s.managed = o.managed
           /\ s.modified = o.modified /\ s.meta = o.meta
           /\ s.enc = o.enc \/ (o.data # None /\ s.enc = o.data)
<1>1. CASE o.data # None /\ k
  <2>1. EncryptDataField(o, k) = [o EXCEPT !.enc = o.data]
    BY <1>1 DEF EncryptDataField
  <2> QED BY <2>1, <1>1, Fields DEF Object
<1>2. CASE ~(o.data # None /\ k)
  BY <1>2 DEF EncryptDataField
<1> QED BY <1>1, <1>2

LEMMA TimedFields ==
    ASSUME NEW o \in Object
    PROVE  LET s == SetLastModifiedTime(o) IN
           /\ s \in Object
           /\ s.orig = o.orig /\ s.data = o.data /\ s.managed = o.managed
           /\ s.enc = o.enc /\ s.meta = o.meta
           /\ s.modified = (o.modified \/ o.managed)
<1> DEFINE m == o.modified \/ o.managed
<1>1. m \in BOOLEAN
  OBVIOUS
<1> HIDE DEF m
<1>2. SetLastModifiedTime(o) = [o EXCEPT !.modified = m]
  BY DEF SetLastModifiedTime, m
<1> QED BY <1>1, <1>2 DEF Object, m

\* Redact and RedactNative: any set of keys may be taken from the metadata.
LEMMA StrippedFields ==
    ASSUME NEW o \in Object, NEW keys
    PROVE  LET s == [o EXCEPT !.managed = FALSE, !.meta = @ \ keys] IN
           /\ s \in Object
           /\ s.orig = o.orig /\ s.data = o.data /\ s.enc = o.enc
           /\ s.modified = o.modified /\ s.managed = FALSE
           /\ s.meta = o.meta \ keys
<1> DEFINE left == o.meta \ keys
<1>1. left \in SUBSET MetaKey
  BY Fields
<1> HIDE DEF left
<1>2. [o EXCEPT !.managed = FALSE, !.meta = @ \ keys]
        = [o EXCEPT !.managed = FALSE, !.meta = left]
  BY DEF left, Object
<1>3. [o EXCEPT !.managed = FALSE] \in Object
  BY DEF Object
<1>4. [o EXCEPT !.managed = FALSE, !.meta = left] \in Object
  BY <1>1, <1>3 DEF Object
<1> QED BY <1>2, <1>4 DEF Object, left

-----------------------------------------------------------------------------
(* One redaction, for each kind of resource. *)

LEMMA PublicOfSecret ==
    ASSUME config.kind \in {"Secret", "Route"},
           NEW o \in Object, SoundObject(o)
    PROVE  (IF o.data = None \/ o.data \cap Retained = {}
            THEN None ELSE o.data \cap Retained) = Public(o.orig)
<1>1. HiddenKeys = Key \ Retained
  BY DEF HiddenKeys
<1>2. o.orig \in Payload /\ o.data \in {o.orig, Public(o.orig)}
  BY Fields DEF SoundObject
<1>3. CASE o.orig = None
  BY <1>2, <1>3 DEF Public
<1>4. CASE o.orig # None
  <2>1. o.orig \subseteq Key
    BY <1>2, <1>4 DEF Payload
  <2>2. o.orig \ HiddenKeys = o.orig \cap Retained
    BY <1>1, <2>1, KeyAssumption
  <2>3. Public(o.orig) = IF o.orig \cap Retained = {} THEN None
                         ELSE o.orig \cap Retained
    BY <1>4, <2>2 DEF Public
  <2>4. (o.orig \cap Retained) \cap Retained = o.orig \cap Retained
    OBVIOUS
  <2> QED BY <1>2, <1>4, <2>3, <2>4
<1> QED BY <1>3, <1>4

LEMMA PublicIsClean ==
    ASSUME NEW o \in Object
    PROVE  Public(o.orig) = None \/ Public(o.orig) \cap HiddenKeys = {}
BY DEF Public

\* All the clauses of ReadyObject but those about managedFields and metadata.
AlmostReady(o) ==
    /\ o.orig # {}
    /\ o.data = Public(o.orig)
    /\ (config.kind = "Secret" /\ config.lastModified) => o.modified
    /\ (o.enc # None /\ o.orig \cap Retained = {}) => o.enc = o.orig

LEMMA StrippedReady ==
    ASSUME NEW o \in Object, AlmostReady(o), NEW keys, HiddenMeta \subseteq keys
    PROVE  LET s == [o EXCEPT !.managed = FALSE, !.meta = @ \ keys] IN
           s \in Object /\ ReadyObject(s)
<1> DEFINE s == [o EXCEPT !.managed = FALSE, !.meta = @ \ keys]
<1>1. /\ s \in Object
      /\ s.orig = o.orig /\ s.data = o.data /\ s.enc = o.enc
      /\ s.modified = o.modified /\ s.managed = FALSE
      /\ s.meta = o.meta \ keys
  BY StrippedFields
<1> HIDE DEF s
<1>2. s.meta \cap HiddenMeta = {}
  BY <1>1
<1>3. s.data = None \/ s.data \cap HiddenKeys = {}
  BY <1>1, PublicIsClean DEF AlmostReady
<1>4. Clean(s)
  BY <1>1, <1>2, <1>3 DEF Clean
<1>5. SoundObject(s)
  BY <1>1 DEF AlmostReady, SoundObject
<1>6. ReadyObject(s)
  BY <1>1, <1>4, <1>5 DEF AlmostReady, ReadyObject
<1> QED BY <1>1, <1>6 DEF s

LEMMA SecretReady ==
    ASSUME config \in Config, config.kind = "Secret",
           NEW o \in Object, SoundObject(o), NEW k \in BOOLEAN
    PROVE  RedactSecret(o, k) \in Object /\ AlmostReady(RedactSecret(o, k))
<1> DEFINE e == IF config.encrypting THEN EncryptDataField(o, k) ELSE o
           t == IF config.lastModified THEN SetLastModifiedTime(e) ELSE e
           s == Select(t, config.encrypting)
<1>0. config.encrypting \in BOOLEAN /\ config.lastModified \in BOOLEAN
  BY ConfigAssumption
<1>1. /\ e \in Object
      /\ e.orig = o.orig /\ e.data = o.data /\ e.managed = o.managed
      /\ e.modified = o.modified
      /\ e.enc = o.enc \/ (o.data # None /\ e.enc = o.data)
  BY EncryptedFields
<1> HIDE DEF e
<1>2. /\ t \in Object
      /\ t.orig = e.orig /\ t.data = e.data /\ t.enc = e.enc
      /\ config.lastModified => (e.managed \/ e.modified => t.modified)
  BY <1>1, TimedFields
<1> HIDE DEF t
<1>3. /\ s \in Object
      /\ s.orig = t.orig
      /\ s.data = IF t.data = None \/ t.data \cap Retained = {}
                  THEN None ELSE t.data \cap Retained
      /\ s.enc = t.enc \/ s.enc = None
      /\ s.modified = t.modified
  BY <1>0, <1>2, SelectedFields
<1> HIDE DEF s
<1>4. s.orig = o.orig /\ s.data = Public(s.orig)
  BY <1>1, <1>2, <1>3, PublicOfSecret
<1>5. s.orig # {} /\ (config.lastModified => s.modified)
  BY <1>1, <1>2, <1>3 DEF SoundObject
<1>6. ASSUME s.enc # None, o.orig \cap Retained = {}
      PROVE  s.enc = o.orig
  <2>1. CASE s.enc = o.enc
    BY <2>1, <1>6 DEF SoundObject
  <2>2. CASE o.data # None /\ s.enc = o.data
    <3>1. HiddenKeys = Key \ Retained
      BY DEF HiddenKeys
    <3>2. Public(o.orig) = None
      <4>1. o.orig = None \/ o.orig \subseteq Key
        BY Fields DEF Payload
      <4>2. CASE o.orig = None
        BY <4>2 DEF Public
      <4>3. CASE o.orig # None
        <5>1. o.orig \ HiddenKeys = {}
          BY <1>6, <3>1, <4>1, <4>3
        <5> QED BY <5>1 DEF Public
      <4> QED BY <4>2, <4>3
    <3> QED BY <2>2, <3>2 DEF SoundObject
  <2> QED BY <1>6, <2>1, <2>2, <1>1, <1>2, <1>3
<1>7. AlmostReady(s)
  BY <1>4, <1>5, <1>6 DEF AlmostReady
<1> QED BY <1>3, <1>7 DEF RedactSecret, s, t, e

LEMMA RouteReady ==
    ASSUME config.kind = "Route", NEW o \in Object, SoundObject(o)
    PROVE  Select(o, FALSE) \in Object /\ AlmostReady(Select(o, FALSE))
<1> DEFINE s == Select(o, FALSE)
<1>1. /\ s \in Object
      /\ s.orig = o.orig /\ s.enc = None
      /\ s.data = IF o.data = None \/ o.data \cap Retained = {}
                  THEN None ELSE o.data \cap Retained
  BY SelectedFields
<1> HIDE DEF s
<1>2. s.data = Public(s.orig)
  BY <1>1, PublicOfSecret
<1> QED BY <1>1, <1>2 DEF AlmostReady, SoundObject, s

LEMMA UnredactedReady ==
    ASSUME config.kind \in {"Other", "Native"},
           NEW o \in Object, SoundObject(o)
    PROVE  AlmostReady(o)
<1>1. HiddenKeys = {}
  BY DEF HiddenKeys
<1>2. Public(o.orig) = o.orig
  BY <1>1 DEF Public, SoundObject
<1> QED BY <1>2 DEF AlmostReady, SoundObject

LEMMA RedactedReady ==
    ASSUME config \in Config, NEW o \in Object, SoundObject(o),
           NEW k \in BOOLEAN
    PROVE  Redacted(o, k) \in Object /\ ReadyObject(Redacted(o, k))
<1>0. config.kind \in {"Secret", "Route", "Native", "Other"}
  BY ConfigAssumption DEF Kinds
<1>1. CASE config.kind = "Secret"
  <2>1. Redacted(o, k) = Redact(RedactSecret(o, k))
    BY <1>1 DEF Redacted
  <2>2. HiddenMeta \subseteq Superfluous \cup Excluded
    BY <1>1 DEF HiddenMeta
  <2>3. RedactSecret(o, k) \in Object /\ AlmostReady(RedactSecret(o, k))
    BY <1>1, SecretReady
  <2>4. Redact(RedactSecret(o, k)) \in Object /\ ReadyObject(Redact(RedactSecret(o, k)))
    BY <2>2, <2>3, StrippedReady DEF Redact
  <2> QED BY <2>1, <2>4
<1>2. CASE config.kind = "Route"
  <2>1. Redacted(o, k) = Redact(Select(o, FALSE))
    BY <1>2 DEF Redacted
  <2>2. HiddenMeta \subseteq Superfluous \cup Excluded
    BY <1>2 DEF HiddenMeta
  <2>3. Select(o, FALSE) \in Object /\ AlmostReady(Select(o, FALSE))
    BY <1>2, RouteReady
  <2>4. Redact(Select(o, FALSE)) \in Object /\ ReadyObject(Redact(Select(o, FALSE)))
    BY <2>2, <2>3, StrippedReady DEF Redact
  <2> QED BY <2>1, <2>4
<1>3. CASE config.kind = "Other"
  <2>1. Redacted(o, k) = Redact(o)
    BY <1>3 DEF Redacted
  <2>2. HiddenMeta \subseteq Superfluous \cup Excluded
    BY <1>3 DEF HiddenMeta
  <2>3. o \in Object /\ AlmostReady(o)
    BY <1>3, UnredactedReady
  <2>4. Redact(o) \in Object /\ ReadyObject(Redact(o))
    BY <2>2, <2>3, StrippedReady DEF Redact
  <2> QED BY <2>1, <2>4
<1>4. CASE config.kind = "Native"
  <2>1. Redacted(o, k) = RedactNative(o)
    BY <1>4 DEF Redacted
  <2>2. HiddenMeta \subseteq {LastApplied} \cup Excluded
    BY <1>4 DEF HiddenMeta
  <2>3. o \in Object /\ AlmostReady(o)
    BY <1>4, UnredactedReady
  <2>4. RedactNative(o) \in Object /\ ReadyObject(RedactNative(o))
    BY <2>2, <2>3, StrippedReady DEF RedactNative
  <2> QED BY <2>1, <2>4
<1> QED BY <1>0, <1>1, <1>2, <1>3, <1>4

-----------------------------------------------------------------------------
(* The inductive invariant. *)

DeliveredSound ==
    \A r \in Resource, c \in Copy : c <= delivered[r] =>
        heap[r][c] \in Object /\ SoundObject(heap[r][c])

PointersValid ==
    /\ \A r \in Resource : cached[r] <= delivered[r]
    /\ \A p \in listed : p[2] <= delivered[p[1]]

ResultReady == \A p \in items \ todo : ReadyObject(heap[p[1]][p[2]])

FetchedDone == phase = "fetched" => todo = {}

SentReady == \A r \in Resource : sent[r] # None => ReadyObject(sent[r])

IInv ==
    TypeOK /\ DeliveredSound /\ PointersValid /\ ResultReady /\ FetchedDone
    /\ SentReady

\* What holds of an object depends on the configuration only.
LEMMA SameConfig ==
    ASSUME config' = config, NEW o
    PROVE  /\ SoundObject(o)' <=> SoundObject(o)
           /\ ReadyObject(o)' <=> ReadyObject(o)
BY DEF SoundObject, ReadyObject, Clean, Public, HiddenKeys, HiddenMeta

LEMMA InitInv == Init => IInv
<1> SUFFICES ASSUME Init PROVE IInv
  OBVIOUS
<1>1. TypeOK
  BY CopyAssumption DEF Init, TypeOK
<1>2. DeliveredSound /\ PointersValid
  BY DEF Init, DeliveredSound, PointersValid, Copy
<1>3. ResultReady /\ FetchedDone /\ SentReady
  BY DEF Init, ResultReady, FetchedDone, SentReady
<1> QED BY <1>1, <1>2, <1>3 DEF IInv

LEMMA DeliverInv ==
    ASSUME IInv, NEW r \in Resource, Deliver(r)
    PROVE  IInv'
<1>0. /\ TypeOK /\ DeliveredSound /\ PointersValid /\ ResultReady
      /\ FetchedDone /\ SentReady
  BY DEF IInv
<1>1. PICK content \in Content :
        heap' = [heap EXCEPT ![r][delivered[r] + 1] = Fresh(content)]
  BY DEF Deliver
<1>2. Fresh(content) \in Object /\ SoundObject(Fresh(content))
  BY FreshSound
<1> DEFINE n == delivered[r] + 1
           o == Fresh(content)
<1>3. n \in Copy /\ delivered[r] \in Nat
  BY <1>0, CopyAssumption DEF Deliver, TypeOK, Copy
<1>4. config' = config /\ delivered' = [delivered EXCEPT ![r] = n]
  BY DEF Deliver
<1>5. heap' = [heap EXCEPT ![r] = [heap[r] EXCEPT ![n] = o]]
  BY <1>1, <1>0 DEF TypeOK
<1> HIDE DEF o
<1>6. /\ heap'[r][n] = o
      /\ \A q \in Resource, c \in Copy :
           <<q, c>> # <<r, n>> => heap'[q][c] = heap[q][c]
  BY <1>0, <1>3, <1>5 DEF TypeOK
<1>7. \A q \in Resource, c \in Copy :
        c <= delivered'[q] /\ <<q, c>> # <<r, n>> => c <= delivered[q]
  BY <1>0, <1>3, <1>4, CopyAssumption DEF TypeOK, Copy
<1>8. DeliveredSound'
  <2> SUFFICES ASSUME NEW q \in Resource, NEW c \in Copy,
                      c <= delivered'[q]
               PROVE  heap'[q][c] \in Object /\ SoundObject(heap'[q][c])
    BY <1>4, SameConfig DEF DeliveredSound
  <2>1. CASE <<q, c>> = <<r, n>>
    BY <2>1, <1>2, <1>6 DEF o
  <2>2. CASE <<q, c>> # <<r, n>>
    BY <2>2, <1>0, <1>6, <1>7 DEF DeliveredSound
  <2> QED BY <2>1, <2>2
<1>9. TypeOK'
  <2>1. heap' \in [Resource -> [Copy -> Object \cup {None}]]
    BY <1>0, <1>2, <1>3, <1>5 DEF TypeOK, o
  <2>2. delivered' \in [Resource -> 0..MaxCopies]
    BY <1>0, <1>3, <1>4, CopyAssumption DEF TypeOK, Copy
  <2> QED BY <1>0, <2>1, <2>2 DEF TypeOK, Deliver
<1>10. \A q \in Resource : delivered[q] <= delivered'[q]
  BY <1>0, <1>3, <1>4 DEF TypeOK
<1>11. \A p \in listed : p[1] \in Resource /\ p[2] \in Copy
  BY <1>0 DEF TypeOK, Pointer
<1>12. PointersValid'
  <2>1. \A q \in Resource : cached[q] \in Nat /\ delivered[q] \in Nat
                            /\ delivered'[q] \in Nat
    BY <1>0, <1>9 DEF TypeOK
  <2>2. \A c \in Copy : c \in Nat
    BY DEF Copy
  <2>3. \A q \in Resource : cached[q] <= delivered'[q]
    BY <1>0, <1>10, <2>1 DEF PointersValid
  <2>4. \A p \in listed : p[2] <= delivered'[p[1]]
    BY <1>0, <1>10, <1>11, <2>1, <2>2 DEF PointersValid
  <2> QED BY <2>3, <2>4 DEF PointersValid, Deliver
<1>13. ResultReady'
  <2> SUFFICES ASSUME NEW p \in items \ todo
               PROVE  ReadyObject(heap'[p[1]][p[2]])
    BY <1>4, SameConfig DEF ResultReady, Deliver
  <2>1. p \in listed /\ p[1] \in Resource /\ p[2] \in Copy
    BY <1>0, <1>11 DEF TypeOK
  <2>2. p[2] <= delivered[p[1]]
    BY <1>0, <2>1 DEF PointersValid
  <2>3. <<p[1], p[2]>> # <<r, n>>
    BY <2>1, <2>2, <1>3 DEF Copy
  <2> QED BY <1>0, <1>6, <2>1, <2>3 DEF ResultReady
<1>14. FetchedDone' /\ SentReady'
  BY <1>0, <1>4, SameConfig DEF FetchedDone, SentReady, Deliver
<1> QED BY <1>8, <1>9, <1>12, <1>13, <1>14 DEF IInv

LEMMA HandleInv ==
    ASSUME IInv, NEW r \in Resource, Handle(r)
    PROVE  IInv'
<1>0. /\ TypeOK /\ DeliveredSound /\ PointersValid /\ ResultReady
      /\ FetchedDone /\ SentReady
  BY DEF IInv
<1>1. config' = config
  BY DEF Handle
<1>2. cached[r] \in 0..MaxCopies /\ delivered[r] \in 0..MaxCopies
  BY <1>0 DEF TypeOK
<1>3. cached[r] + 1 \in 0..MaxCopies /\ cached[r] + 1 <= delivered[r]
  BY <1>2, CopyAssumption DEF Handle
<1>4. TypeOK'
  BY <1>0, <1>3 DEF TypeOK, Handle
<1>5. PointersValid'
  BY <1>0, <1>3 DEF TypeOK, PointersValid, Handle
<1>6. DeliveredSound' /\ ResultReady' /\ FetchedDone' /\ SentReady'
  BY <1>0, <1>1, SameConfig
     DEF DeliveredSound, ResultReady, FetchedDone, SentReady, Handle
<1> QED BY <1>4, <1>5, <1>6 DEF IInv

LEMMA BeginFetchInv ==
    ASSUME IInv, BeginFetch
    PROVE  IInv'
<1>0. /\ TypeOK /\ DeliveredSound /\ PointersValid /\ ResultReady
      /\ FetchedDone /\ SentReady
  BY DEF IInv
<1>1. config' = config /\ todo' = items' /\ items' \subseteq listed'
  BY DEF BeginFetch
<1>2. \A p \in listed' : \E r \in Resource : p = <<r, cached[r]>> /\ cached[r] > 0
  BY DEF BeginFetch
<1>3. \A r \in Resource : cached[r] > 0 => cached[r] \in Copy
  BY <1>0, CopyAssumption DEF TypeOK, Copy
<1>4. listed' \subseteq Pointer
  BY <1>2, <1>3 DEF Pointer
<1>5. TypeOK'
  BY <1>0, <1>1, <1>4 DEF TypeOK, BeginFetch
<1>6. PointersValid'
  BY <1>0, <1>2 DEF PointersValid, BeginFetch
<1>7. DeliveredSound' /\ SentReady'
  BY <1>0, <1>1, SameConfig DEF DeliveredSound, SentReady, BeginFetch
<1>8. ResultReady' /\ FetchedDone'
  BY <1>1 DEF ResultReady, FetchedDone, BeginFetch
<1> QED BY <1>5, <1>6, <1>7, <1>8 DEF IInv

LEMMA RedactItemInv ==
    ASSUME IInv, NEW p \in Pointer, RedactItem(p)
    PROVE  IInv'
<1>0. /\ TypeOK /\ DeliveredSound /\ PointersValid /\ ResultReady
      /\ FetchedDone /\ SentReady
  BY DEF IInv
<1>1. PICK k \in BOOLEAN :
        heap' = [heap EXCEPT ![p[1]][p[2]] = Redacted(@, k)]
  BY DEF RedactItem
<1> DEFINE r == p[1]
           n == p[2]
           o == Redacted(heap[r][n], k)
<1>2. r \in Resource /\ n \in Copy /\ p = <<r, n>>
  BY DEF Pointer
<1>3. p \in todo /\ p \in items /\ p \in listed
  BY <1>0 DEF RedactItem, TypeOK
<1>4. heap[r][n] \in Object /\ SoundObject(heap[r][n])
  BY <1>0, <1>2, <1>3 DEF PointersValid, DeliveredSound
<1>5. config \in Config
  BY <1>0 DEF TypeOK
<1>6. o \in Object /\ ReadyObject(o)
  BY <1>4, <1>5, RedactedReady
<1>7. heap' = [heap EXCEPT ![r] = [heap[r] EXCEPT ![n] = o]]
  BY <1>0, <1>1, <1>2 DEF TypeOK
<1> HIDE DEF o
<1>8. /\ heap'[r][n] = o
      /\ \A q \in Resource, c \in Copy :
           <<q, c>> # p => heap'[q][c] = heap[q][c]
  BY <1>0, <1>2, <1>7 DEF TypeOK
<1>9. config' = config /\ delivered' = delivered /\ items' = items
      /\ listed' = listed /\ todo' = todo \ {p} /\ cached' = cached
      /\ phase' = phase /\ sent' = sent
  BY DEF RedactItem
<1>10. TypeOK'
  <2>1. heap' \in [Resource -> [Copy -> Object \cup {None}]]
    BY <1>0, <1>2, <1>6, <1>7 DEF TypeOK
  <2> QED BY <1>0, <1>9, <2>1 DEF TypeOK
<1>11. DeliveredSound'
  <2> SUFFICES ASSUME NEW q \in Resource, NEW c \in Copy, c <= delivered[q]
               PROVE  heap'[q][c] \in Object /\ SoundObject(heap'[q][c])
    BY <1>9, SameConfig DEF DeliveredSound
  <2>1. CASE <<q, c>> = p
    BY <2>1, <1>2, <1>6, <1>8 DEF ReadyObject
  <2>2. CASE <<q, c>> # p
    BY <2>2, <1>0, <1>8 DEF DeliveredSound
  <2> QED BY <2>1, <2>2
<1>12. PointersValid'
  BY <1>0, <1>9 DEF PointersValid
<1>13. ResultReady'
  <2> SUFFICES ASSUME NEW x \in items \ (todo \ {p})
               PROVE  ReadyObject(heap'[x[1]][x[2]])
    BY <1>9, SameConfig DEF ResultReady
  <2>1. x[1] \in Resource /\ x[2] \in Copy /\ x = <<x[1], x[2]>>
    BY <1>0 DEF TypeOK, Pointer
  <2>2. CASE x = p
    BY <2>2, <1>6, <1>8
  <2>3. CASE x # p
    BY <2>1, <2>3, <1>0, <1>8 DEF ResultReady
  <2> QED BY <2>2, <2>3
<1>14. FetchedDone' /\ SentReady'
  BY <1>0, <1>9, SameConfig DEF FetchedDone, SentReady
<1> QED BY <1>10, <1>11, <1>12, <1>13, <1>14 DEF IInv

LEMMA EndFetchInv ==
    ASSUME IInv, EndFetch
    PROVE  IInv'
<1>0. /\ TypeOK /\ DeliveredSound /\ PointersValid /\ ResultReady
      /\ FetchedDone /\ SentReady
  BY DEF IInv
<1>1. config' = config
  BY DEF EndFetch
<1>2. TypeOK'
  BY <1>0 DEF TypeOK, EndFetch
<1>3. /\ DeliveredSound' /\ PointersValid' /\ ResultReady' /\ FetchedDone'
      /\ SentReady'
  BY <1>0, <1>1, SameConfig DEF DeliveredSound, PointersValid, ResultReady,
     FetchedDone, SentReady, EndFetch
<1> QED BY <1>2, <1>3 DEF IInv

LEMMA UploadInv ==
    ASSUME IInv, Upload
    PROVE  IInv'
<1>0. /\ TypeOK /\ DeliveredSound /\ PointersValid /\ ResultReady
      /\ FetchedDone /\ SentReady
  BY DEF IInv
<1>1. config' = config /\ phase' = "idle"
  BY DEF Upload
<1>2. todo = {}
  BY <1>0 DEF FetchedDone, Upload
<1>3. \A p \in items : /\ p[1] \in Resource /\ p[2] \in Copy
                        /\ heap[p[1]][p[2]] \in Object
                        /\ ReadyObject(heap[p[1]][p[2]])
  <2> SUFFICES ASSUME NEW p \in items
               PROVE  /\ p[1] \in Resource /\ p[2] \in Copy
                      /\ heap[p[1]][p[2]] \in Object
                      /\ ReadyObject(heap[p[1]][p[2]])
    OBVIOUS
  <2>1. p \in listed /\ p[1] \in Resource /\ p[2] \in Copy
    BY <1>0 DEF TypeOK, Pointer
  <2>2. heap[p[1]][p[2]] \in Object
    BY <1>0, <2>1 DEF PointersValid, DeliveredSound
  <2>3. ReadyObject(heap[p[1]][p[2]])
    BY <1>0, <1>2 DEF ResultReady
  <2> QED BY <2>1, <2>2, <2>3
<1>4. ASSUME NEW r \in Resource, sent'[r] # None, sent'[r] # sent[r]
      PROVE  sent'[r] \in Object /\ ReadyObject(sent'[r])
  <2>1. \E p \in items : p[1] = r
    BY <1>4 DEF Upload
  <2>2. PICK p \in items : p[1] = r /\ p = CHOOSE x \in items : x[1] = r
    BY <2>1
  <2>3. sent'[r] = heap[r][p[2]]
    BY <2>1, <2>2 DEF Upload
  <2> QED BY <1>3, <2>2, <2>3
<1>5. TypeOK'
  <2>1. sent' \in [Resource -> Object \cup {None}]
    <3>1. \A r \in Resource : sent'[r] \in Object \cup {None}
      BY <1>0, <1>4 DEF TypeOK
    <3>2. sent' = [r \in Resource |-> sent'[r]]
      BY DEF Upload
    <3> QED BY <3>1, <3>2
  <2> QED BY <1>0, <2>1 DEF TypeOK, Upload
<1>6. SentReady'
  BY <1>0, <1>1, <1>4, SameConfig DEF SentReady
<1>7. DeliveredSound' /\ PointersValid' /\ ResultReady' /\ FetchedDone'
  BY <1>0, <1>1, SameConfig DEF DeliveredSound, PointersValid, ResultReady,
     FetchedDone, Upload
<1> QED BY <1>5, <1>6, <1>7 DEF IInv

LEMMA NextInv == IInv /\ [Next]_vars => IInv'
<1> SUFFICES ASSUME IInv, [Next]_vars PROVE IInv'
  OBVIOUS
<1>1. CASE \E r \in Resource : Deliver(r) \/ Handle(r)
  BY <1>1, DeliverInv, HandleInv
<1>2. CASE BeginFetch
  BY <1>2, BeginFetchInv
<1>3. CASE \E p \in Pointer : RedactItem(p)
  BY <1>3, RedactItemInv
<1>4. CASE EndFetch
  BY <1>4, EndFetchInv
<1>5. CASE Upload
  BY <1>5, UploadInv
<1>6. CASE UNCHANGED vars
  <2>1. config' = config
    BY <1>6 DEF vars
  <2> QED BY <1>6, <2>1, SameConfig DEF IInv, TypeOK, DeliveredSound,
          PointersValid, ResultReady, FetchedDone, SentReady, vars
<1> QED BY <1>1, <1>2, <1>3, <1>4, <1>5, <1>6 DEF Next

LEMMA Invariance == Spec => []IInv
BY InitInv, NextInv, PTL DEF Spec

-----------------------------------------------------------------------------
\* Every variable keeps its type: Fetch's result is a part of what it listed,
\* and what is left to redact a part of the result.
THEOREM TypeCorrect == Spec => []TypeOK
<1>1. IInv => TypeOK
  BY DEF IInv
<1> QED BY <1>1, Invariance, PTL

\* No upload holds anything in clear that is not allow-listed, whatever
\* encryptions fail and whatever the informer delivers during a Fetch.
THEOREM NothingSensitive == Spec => []NothingSensitiveSent
<1>1. IInv => NothingSensitiveSent
  BY DEF IInv, SentReady, ReadyObject, NothingSensitiveSent
<1> QED BY <1>1, Invariance, PTL

\* What may be uploaded of an object is uploaded, however often the object was
\* redacted before.
THEOREM PublicDataKept == Spec => []PublicDataSent
<1>1. IInv => PublicDataSent
  BY DEF IInv, SentReady, ReadyObject, PublicDataSent
<1> QED BY <1>1, Invariance, PTL

\* The time of a Secret's last change is in every upload of it.
THEOREM LastModifiedKept == Spec => []LastModifiedSent
<1>1. IInv => LastModifiedSent
  BY DEF IInv, SentReady, ReadyObject, SoundObject, Clean, LastModifiedSent
<1> QED BY <1>1, Invariance, PTL

\* A ciphertext of a Secret without allow-listed keys never loses data.
THEOREM OpaqueCiphertextKept == Spec => []OpaqueCiphertextWhole
<1>1. IInv => OpaqueCiphertextWhole
  BY DEF IInv, SentReady, ReadyObject, SoundObject, OpaqueCiphertextWhole
<1> QED BY <1>1, Invariance, PTL
=============================================================================
