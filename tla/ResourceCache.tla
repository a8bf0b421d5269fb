---------------------------- MODULE ResourceCache ----------------------------
(***************************************************************************)
(* The dynamic data gatherer's resource cache: pkg/datagatherer/k8sdynamic *)
(* cache.go (the informer event handlers) and dynamic.go (Fetch), driven by *)
(* the shared informer the gatherer registers them with.                   *)
(*                                                                         *)
(* An API object is a pair of a uid and a version.  A uid is one           *)
(* incarnation of a namespaced name: it is created once, under NameOf[uid], *)
(* and a name that is deleted and created again gets another uid.          *)
(*                                                                         *)
(* The informer (client-go, outside the repository) keeps a store and hands *)
(* the handlers one notification per change, in order, from a goroutine of *)
(* its own.  While the watch is broken the server's changes are missed; a  *)
(* relist then notifies the difference between two lists: a name that is in *)
(* both gives an update, whatever its uids are, and a name that is gone    *)
(* gives a delete whose object is wrapped in a DeletedFinalStateUnknown.   *)
(*                                                                         *)
(* Time is counted in ticks.  Notifications are handled between two ticks: *)
(* a handler is one map write, a tick is of the order of a minute.         *)
(***************************************************************************)
EXTENDS Naturals, Sequences

CONSTANTS
    Name,         \* namespaced names of the watched resource type
    Uid,          \* incarnations of objects
    NameOf,       \* the name each uid is created under
    Included,     \* the names that lie in one of the included namespaces
    None,         \* no object, no cache entry
    Expiry,       \* ticks a cache entry lives after it was last set (5m)
    ResyncPeriod, \* ticks between two resyncs of the informer (60s)
    FetchGap,     \* longest time between two Fetch calls
    MaxVersion,   \* bound: versions of one object
    MaxOutages,   \* bound: broken watches in a behaviour
    QueueBound    \* bound: pending notifications of one name

Object == [uid : Uid, ver : 0..MaxVersion]
ObjectOrNone == Object \cup {None}

\* A notification of the informer.  old = None is an add, new = None a delete;
\* relisted tells whether it comes from a relist, where a delete is a tombstone.
Note == {m \in [old : ObjectOrNone, new : ObjectOrNone, relisted : BOOLEAN] :
            m.old # None \/ m.new # None}

\* A cached GatheredResource: deletedAt (a time in the code) is abstracted to
\* whether it is set, and the item's expiration to its age.
Entry == [obj : Object, deleted : BOOLEAN, age : 0..(Expiry + 1)]

ASSUME NameAssumption == NameOf \in [Uid -> Name] /\ Included \subseteq Name

ASSUME NoneAssumption == None \notin Object /\ None \notin Entry

ASSUME TimeAssumption ==
    /\ Expiry \in Nat /\ ResyncPeriod \in Nat /\ FetchGap \in Nat
    /\ ResyncPeriod <= Expiry

ASSUME BoundAssumption ==
    MaxVersion \in Nat /\ MaxOutages \in Nat /\ QueueBound \in Nat

VARIABLES
    server,      \* the objects the API server holds
    born,        \* the uids created so far
    watching,    \* the informer's watch is established
    outages,     \* how often it has broken
    store,       \* the informer's store
    pending,     \* notifications not yet handled, per name
    cache,       \* the gatherer's cache, by cache key
    sinceResync, \* ticks since the last resync or relist, up to Expiry + 1
    sinceFetch,  \* ticks since the last Fetch
    deletions,   \* history: the uids whose deletion was handled
    seen,        \* history: the uids a handler was given a live object of
    reported     \* history: <<uid, deleted>> of the items fetched so far

informerVars == <<watching, outages, store, pending, sinceResync>>
vars == <<server, born, watching, outages, store, pending, cache,
          sinceResync, sinceFetch, deletions, seen, reported>>

Has(o, u) == o # None /\ o.uid = u
NewEntry(o, d) == [obj |-> o, deleted |-> d, age |-> 0]
Visible(u) == cache[u] # None /\ cache[u].age <= Expiry

\* The object of name n according to the notifications handled so far.
Handled(n) == IF pending[n] = << >> THEN store[n] ELSE pending[n][1].old

-----------------------------------------------------------------------------
(* The API server and the informer. *)

Init ==
    /\ server = [n \in Name |-> None]
    /\ born = {}
    /\ watching = TRUE
    /\ outages = 0
    /\ store = [n \in Name |-> None]
    /\ pending = [n \in Name |-> << >>]
    /\ cache = [u \in Uid |-> None]
    /\ sinceResync = 0
    /\ sinceFetch = 0
    /\ deletions = {}
    /\ seen = {}
    /\ reported = {}

\* The server's object of name n becomes o; an established watch puts it in
\* the store and notifies the handlers.
Change(n, o) ==
    /\ Len(pending[n]) < QueueBound
    /\ server' = [server EXCEPT ![n] = o]
    /\ IF watching
       THEN /\ store' = [store EXCEPT ![n] = o]
            /\ pending' = [pending EXCEPT ![n] =
                 Append(@, [old |-> store[n], new |-> o, relisted |-> FALSE])]
       ELSE UNCHANGED <<store, pending>>
    /\ UNCHANGED <<watching, outages, cache, sinceResync, sinceFetch,
                   deletions, seen, reported>>

Create(u) ==
    /\ u \notin born
    /\ server[NameOf[u]] = None
    /\ born' = born \cup {u}
    /\ Change(NameOf[u], [uid |-> u, ver |-> 0])

Modify(n) ==
    /\ server[n] # None
    /\ server[n].ver < MaxVersion
    /\ UNCHANGED born
    /\ Change(n, [uid |-> server[n].uid, ver |-> server[n].ver + 1])

Remove(n) ==
    /\ server[n] # None
    /\ UNCHANGED born
    /\ Change(n, None)

LoseWatch ==
    /\ watching
    /\ outages < MaxOutages
    /\ watching' = FALSE
    /\ outages' = outages + 1
    /\ UNCHANGED <<server, born, store, pending, cache, sinceResync,
                   sinceFetch, deletions, seen, reported>>

\* Every name in list, the server's objects or the store's own, or in the
\* store is notified; the store becomes list.
NotifyAll(list, relisted) ==
    /\ \A n \in Name : Len(pending[n]) < QueueBound
    /\ store' = list
    /\ pending' = [n \in Name |->
         IF store[n] = None /\ list[n] = None
         THEN pending[n]
         ELSE Append(pending[n], [old |-> store[n], new |-> list[n],
                                  relisted |-> relisted])]
    /\ sinceResync' = 0

Relist ==
    /\ ~watching
    /\ watching' = TRUE
    /\ NotifyAll(server, TRUE)
    /\ UNCHANGED <<server, born, outages, cache, sinceFetch, deletions, seen,
                   reported>>

\* The store notifies an update of each of its objects to itself.  Resyncs
\* stop while the informer has no watch.
Resync ==
    /\ watching
    /\ sinceResync >= ResyncPeriod
    /\ NotifyAll(store, FALSE)
    /\ UNCHANGED <<server, born, watching, outages, cache, sinceFetch,
                   deletions, seen, reported>>

-----------------------------------------------------------------------------
(* The event handlers (cache.go).  An operator whose comment begins with   *)
(* "Faulty" is no part of the specification: it is what the definition after *)
(* it would be with a plausible bug in the code.                           *)

\* Faulty: one cache key per name instead of one per uid.
OnAddByName(new) ==
    /\ LET key == CHOOSE u \in Uid : NameOf[u] = NameOf[new.uid] IN
         cache' = [cache EXCEPT ![key] = NewEntry(new, FALSE)]
    /\ seen' = seen \cup {new.uid}
    /\ UNCHANGED deletions

OnAdd(new) ==
    /\ cache' = [cache EXCEPT ![new.uid] = NewEntry(new, FALSE)]
    /\ seen' = seen \cup {new.uid}
    /\ UNCHANGED deletions

\* updateCacheGatheredResource: the condition under which DeletedAt is carried
\* over from the cached item is deletedAt.IsZero() && !deletedAt.IsZero().
CarriedDeletion(key) ==
    Visible(key) /\ ~cache[key].deleted /\ cache[key].deleted

UpdatedResource(key, o) == NewEntry(o, CarriedDeletion(key))

\* Faulty: an update that changes nothing is skipped.
OnUpdateIfChanged(old, new) ==
    /\ cache' = IF old = new THEN cache
                ELSE [cache EXCEPT ![old.uid] = UpdatedResource(old.uid, new)]
    /\ seen' = seen \cup {new.uid}
    /\ UNCHANGED deletions

\* The new object is stored under the old object's uid.
OnUpdate(old, new) ==
    /\ cache' = [cache EXCEPT ![old.uid] = UpdatedResource(old.uid, new)]
    /\ seen' = seen \cup {new.uid}
    /\ UNCHANGED deletions

\* Faulty: the item loses its resource.
OnDeleteStrip(old) ==
    /\ cache' = [cache EXCEPT ![old.uid] = NewEntry(None, TRUE)]
    /\ deletions' = deletions \cup {old.uid}
    /\ UNCHANGED seen

\* Faulty: the item is taken out of the cache.
OnDeleteEvict(old) ==
    /\ cache' = [cache EXCEPT ![old.uid] = None]
    /\ deletions' = deletions \cup {old.uid}
    /\ UNCHANGED seen

\* Faulty: DeletedAt is not set.
OnDeleteUnmarked(old) ==
    /\ cache' = [cache EXCEPT ![old.uid] = UpdatedResource(old.uid, old)]
    /\ deletions' = deletions \cup {old.uid}
    /\ UNCHANGED seen

\* Faulty: the item keeps the expiration of its last update.
OnDeleteInPlace(old) ==
    /\ cache' = [cache EXCEPT ![old.uid] =
                    IF Visible(old.uid) THEN [@ EXCEPT !.deleted = TRUE]
                    ELSE NewEntry(old, TRUE)]
    /\ deletions' = deletions \cup {old.uid}
    /\ UNCHANGED seen

OnDelete(old) ==
    /\ cache' = [cache EXCEPT ![old.uid] = NewEntry(old, TRUE)]
    /\ deletions' = deletions \cup {old.uid}
    /\ UNCHANGED seen

\* A DeletedFinalStateUnknown has no uid: logCacheUpdateFailure, and no more.
OnTombstone == UNCHANGED <<cache, deletions, seen>>

Dispatch(note) ==
    \/ note.old = None /\ OnAdd(note.new)
    \/ note.old # None /\ note.new # None /\ OnUpdate(note.old, note.new)
    \/ /\ note.old # None /\ note.new = None
       /\ IF note.relisted THEN OnTombstone ELSE OnDelete(note.old)

\* Faulty: each notification is handled in a goroutine of its own.
HandleConcurrently(n) ==
    /\ \E i \in DOMAIN pending[n] :
         /\ Dispatch(pending[n][i])
         /\ pending' = [pending EXCEPT ![n] =
              SubSeq(@, 1, i - 1) \o SubSeq(@, i + 1, Len(@))]
    /\ UNCHANGED <<server, born, watching, outages, store, sinceResync,
                   sinceFetch, reported>>

Handle(n) ==
    /\ pending[n] # << >>
    /\ Dispatch(Head(pending[n]))
    /\ pending' = [pending EXCEPT ![n] = Tail(@)]
    /\ UNCHANGED <<server, born, watching, outages, store, sinceResync,
                   sinceFetch, reported>>

-----------------------------------------------------------------------------
(* Fetch, and the cache's own clock. *)

WithoutExpired == [u \in Uid |-> IF Visible(u) THEN cache[u] ELSE None]

\* The items Fetch returns: every unexpired one, deleted or not, whose
\* resource lies in an included namespace.
Items == {cache[u] : u \in {v \in Uid :
            Visible(v) /\ NameOf[cache[v].obj.uid] \in Included}}

Fetch ==
    /\ cache' = WithoutExpired
    /\ sinceFetch' = 0
    /\ reported' = reported \cup {<<i.obj.uid, i.deleted>> : i \in Items}
    /\ UNCHANGED <<server, born, informerVars, deletions, seen>>

\* go-cache's janitor, every 30s.
Janitor ==
    /\ cache' = WithoutExpired
    /\ UNCHANGED <<server, born, informerVars, sinceFetch, deletions, seen,
                   reported>>

\* Faulty: deleted items do not expire.
OlderUnlessDeleted(e) ==
    IF e = None THEN None
    ELSE [e EXCEPT !.age = IF @ <= Expiry /\ ~e.deleted THEN @ + 1 ELSE @]

\* Faulty: no item expires.
OlderNever(e) == e

Older(e) ==
    IF e = None THEN None
    ELSE [e EXCEPT !.age = IF @ <= Expiry THEN @ + 1 ELSE @]

\* The resync timer of an established watch is kept; an outage lasts as long as
\* it will, and is counted until it has outlasted the items.
Tick ==
    /\ \A n \in Name : pending[n] = << >>
    /\ sinceFetch < FetchGap
    /\ watching => sinceResync < ResyncPeriod
    /\ cache' = [u \in Uid |-> Older(cache[u])]
    /\ sinceResync' = IF sinceResync <= Expiry THEN sinceResync + 1 ELSE sinceResync
    /\ sinceFetch' = sinceFetch + 1
    /\ UNCHANGED <<server, born, watching, outages, store, pending, deletions,
                   seen, reported>>

-----------------------------------------------------------------------------
\* What happens while the watch never breaks.
SteadyNext ==
    \/ \E u \in Uid : Create(u)
    \/ \E n \in Name : Modify(n) \/ Remove(n) \/ Handle(n)
    \/ Resync
    \/ Fetch
    \/ Janitor
    \/ Tick

Next == SteadyNext \/ LoseWatch \/ Relist

SteadySpec == Init /\ [][SteadyNext]_vars

Spec == Init /\ [][Next]_vars

-----------------------------------------------------------------------------
(* Properties. *)

TypeOK ==
    /\ server \in [Name -> ObjectOrNone]
    /\ born \subseteq Uid
    /\ watching \in BOOLEAN
    /\ outages \in 0..MaxOutages
    /\ store \in [Name -> ObjectOrNone]
    /\ pending \in [Name -> Seq(Note)]
    /\ cache \in [Uid -> Entry \cup {None}]
    /\ sinceResync \in 0..(Expiry + 1)
    /\ sinceFetch \in 0..FetchGap
    /\ deletions \subseteq Uid
    /\ seen \subseteq Uid
    /\ reported \subseteq Uid \X BOOLEAN

\* The object of name n may be missing from the cache: no resync or relist has
\* set it again for longer than an item lives, or the relist that ends such an
\* outage is still to be handled.
Lapsed(n) ==
    \/ sinceResync > Expiry
    \/ pending[n] # << >> /\ pending[n][1].relisted

\* Every object the handlers know to be live is in the cache, unexpired and
\* not marked deleted: the resync sets it again before it expires, and neither
\* the clock nor an event of another object takes it out.  It may sit under
\* another incarnation's uid.  It may be missing only while an outage lasts
\* longer than an item lives, and the relist puts it back: dynamic.go's "cache
\* holds all resources watched by the data gatherer" holds up to that.
LiveObjectsCached ==
    \A n \in Name : Handled(n) # None =>
        \/ Lapsed(n)
        \/ \E u \in Uid : /\ Visible(u)
                          /\ cache[u].obj = Handled(n)
                          /\ ~cache[u].deleted

\* A cached item that is marked deleted is never turned back into a live one.
\* No code in the handlers sees to that (CarriedDeletion is never true): it
\* rests on the order of the informer's notifications.
DeletionMarkKept ==
    \A u \in Uid :
        (cache[u] # None /\ cache[u].deleted /\ cache'[u] # None)
            => cache'[u].deleted

DeletionMarkPermanent == [][DeletionMarkKept]_vars

\* Every object whose deletion was handled is reported as deleted by some
\* Fetch before it leaves the cache, however short it lived.
DeletionsReported ==
    \A u \in deletions : NameOf[u] \in Included =>
        \/ Visible(u) /\ cache[u].deleted /\ cache[u].obj.uid = u
        \/ <<u, TRUE>> \in reported

\* Every object a handler was given is in some Fetch result or still in the
\* cache to be in the next (dynamic.go: "**all** resources should be uploaded,
\* even short-lived secrets").
AllSeenReported ==
    \A u \in seen : NameOf[u] \in Included =>
        \/ \E v \in Uid : Visible(v) /\ cache[v].obj.uid = u
        \/ \E d \in BOOLEAN : <<u, d>> \in reported

\* An item is cached under the uid of its own object (cache.go: "The cache key
\* is the uid of the object").
CachedUnderOwnUid ==
    \A u \in Uid : Visible(u) => cache[u].obj.uid = u

\* Once the handlers have caught up with a working watch, an item whose object
\* is gone from the store is marked deleted (dynamic.go: the onDelete handler
\* "marks the object as deleted").
GoneIsMarkedDeleted ==
    \A u \in Uid :
        (/\ Visible(u)
         /\ watching
         /\ pending[NameOf[u]] = << >>
         /\ ~Has(store[NameOf[u]], cache[u].obj.uid))
        => cache[u].deleted

\* As the backend sees it, the cache is a gatherer that keeps the contract: of
\* the included objects it holds those visible, and tells what it reports.
Gathered == {u \in Uid : NameOf[u] \in Included}
Held ==
    [u \in Gathered |->
        IF Visible(u) THEN [ver |-> cache[u].obj.ver, deleted |-> cache[u].deleted]
        ELSE None]

Contract == INSTANCE GathererContract
    WITH Uid <- Gathered, Version <- 0..MaxVersion, held <- Held, told <- reported

ASSUME ItemAssumption == None \notin Contract!Item

\* While the watch never breaks, every step of the server, the informer, the
\* handlers, Fetch and the clock is one that the contract allows, or none: no
\* object is lost, goes back to an earlier version or comes back after its
\* deletion, and each deletion is reported before it is forgotten.
KeepsContract == Contract!Spec
=============================================================================
