--------------------------- MODULE ContractProofs ---------------------------
(***************************************************************************)
(* ResourceCache keeps the GathererContract while its watch never breaks,   *)
(* and with it the properties that an outage breaks.  The argument: without *)
(* a relist a notification never joins two incarnations of a name, so that *)
(* an item lies under the uid of its own object, and the live items are    *)
(* exactly the objects that the handlers know to be live.                  *)
(***************************************************************************)
EXTENDS ResourceCacheProofs

USE NameAssumption, NoneAssumption, TimeAssumption, BoundAssumption

-----------------------------------------------------------------------------
(* The inductive invariant. *)

\* A notification that no relist has made: of one object, and forwards.
Faithful(m) ==
    /\ ~m.relisted
    /\ (m.old # None /\ m.new # None) =>
           m.old.uid = m.new.uid /\ m.old.ver <= m.new.ver

FaithfulAt(n) == \A i \in 1..Len(pending[n]) : Faithful(pending[n][i])

\* An item is of the object it is cached under; it is marked if its deletion
\* was handled, and otherwise is of the object the handlers know.
KeyAt(u) ==
    cache[u] # None =>
        /\ cache[u].obj.uid = u
        /\ cache[u].deleted => u \in deletions
        /\ ~cache[u].deleted => Handled(NameOf[u]) = cache[u].obj

\* An object that was reported as deleted is nowhere any more.
ToldAt(u) == <<u, TRUE>> \in reported => u \in born /\ NowhereAt(NameOf[u], u)

\* An object that was seen is live still, or its deletion was handled.
SeenAt(u) == u \in seen => Has(Handled(NameOf[u]), u) \/ u \in deletions

SInv ==
    /\ IInv
    /\ watching
    /\ \A n \in Name : FaithfulAt(n)
    /\ \A u \in Uid : KeyAt(u) /\ ToldAt(u) /\ SeenAt(u)

LEMMA InitSInv == Init => SInv
  BY InitIInv DEF Init, SInv, FaithfulAt, KeyAt, ToldAt, SeenAt

-----------------------------------------------------------------------------
(* Its steps. *)

\* What the server and the informer add is faithful.
LEMMA InformerFaithful ==
  ASSUME IInv, watching, InformerNext
  PROVE  /\ watching' /\ UNCHANGED seen
         /\ \A n \in Name :
              \/ pending'[n] = pending[n]
              \/ \E m \in Note : Faithful(m) /\ pending'[n] = Append(pending[n], m)
<1> DEFINE Goal ==
      /\ watching' /\ UNCHANGED seen
      /\ \A n \in Name :
           \/ pending'[n] = pending[n]
           \/ \E m \in Note : Faithful(m) /\ pending'[n] = Append(pending[n], m)
<1>0. TypeOK /\ store = server
  BY DEF IInv, TInv, WatchedStore
<1>1. ASSUME NEW n \in Name, NEW o \in ObjectOrNone, Change(n, o),
             server[n] # None \/ o # None,
             (server[n] # None /\ o # None) =>
                 server[n].uid = o.uid /\ server[n].ver <= o.ver
      PROVE  Goal
  <2> DEFINE m == [old |-> store[n], new |-> o, relisted |-> FALSE]
  <2>1. m \in Note /\ Faithful(m)
    BY <1>0, <1>1 DEF Note, Faithful, TypeOK
  <2>2. /\ UNCHANGED <<watching, seen>>
        /\ pending' = [pending EXCEPT ![n] = Append(@, m)]
    BY <1>1 DEF Change
  <2>. QED
    BY <1>0, <2>1, <2>2 DEF TypeOK
<1>2. ASSUME NEW u \in Uid, Create(u) PROVE Goal
  <2> DEFINE o == [uid |-> u, ver |-> 0]
  <2>1. o \in Object /\ NameOf[u] \in Name /\ server[NameOf[u]] = None
    BY <1>2 DEF Create, Object
  <2>. QED
    BY <1>1, <1>2, <2>1 DEF Create, ObjectOrNone
<1>3. ASSUME NEW n \in Name, Modify(n) PROVE Goal
  <2> DEFINE o == [uid |-> server[n].uid, ver |-> server[n].ver + 1]
  <2>1. server[n] \in Object /\ server[n].ver < MaxVersion
    BY <1>0, <1>3 DEF Modify, TypeOK, ObjectOrNone
  <2>2. o \in Object /\ server[n].ver <= o.ver /\ server[n].uid = o.uid
    BY <2>1 DEF Object
  <2>3. Change(n, o)
    BY <1>3 DEF Modify
  <2> HIDE DEF o
  <2>. QED
    BY <1>1, <2>1, <2>2, <2>3 DEF ObjectOrNone
<1>4. ASSUME NEW n \in Name, Remove(n) PROVE Goal
  BY <1>1, <1>4 DEF Remove, ObjectOrNone
<1>5. ASSUME NEW n \in Name, Resync
      PROVE  \/ pending'[n] = pending[n]
             \/ \E m \in Note : Faithful(m) /\ pending'[n] = Append(pending[n], m)
  <2> DEFINE m == [old |-> store[n], new |-> store[n], relisted |-> FALSE]
  <2>1. pending'[n] = IF store[n] = None THEN pending[n] ELSE Append(pending[n], m)
    BY <1>5 DEF Resync, NotifyAll
  <2>2. ASSUME store[n] # None PROVE m \in Note /\ Faithful(m)
    BY <1>0, <2>2 DEF Note, Faithful, TypeOK, ObjectOrNone, Object
  <2>. QED
    BY <2>1, <2>2
<1>6. CASE Resync
  BY <1>5, <1>6 DEF Resync
<1>. QED
  BY <1>2, <1>3, <1>4, <1>6 DEF InformerNext, Relist

LEMMA InformerSInv ==
  ASSUME SInv, IInv', InformerNext
  PROVE  SInv'
<1>1. /\ watching' /\ UNCHANGED <<seen, cache, deletions, reported>>
      /\ \A n \in Name : Enqueues(n)
  BY InformerFaithful, InformerEnqueues DEF SInv
<1>2. ASSUME NEW n \in Name PROVE FaithfulAt(n)'
  <2>1. CASE pending'[n] = pending[n]
    BY <2>1 DEF SInv, FaithfulAt
  <2>2. ASSUME NEW m \in Note, Faithful(m), pending'[n] = Append(pending[n], m)
        PROVE  FaithfulAt(n)'
    <3>1. pending[n] \in Seq(Note)
      BY DEF SInv, IInv, TInv, TypeOK
    <3>2. /\ Len(pending[n]) \in Nat /\ Len(pending'[n]) = Len(pending[n]) + 1
          /\ pending'[n][Len(pending[n]) + 1] = m
          /\ \A i \in 1..Len(pending[n]) : pending'[n][i] = pending[n][i]
      BY <2>2, <3>1
    <3>3. \A i \in 1..Len(pending'[n]) : Faithful(pending'[n][i])
      BY <2>2, <3>2 DEF SInv, FaithfulAt
    <3>. QED
      BY <3>3 DEF FaithfulAt, Faithful
  <2>. QED
    BY <2>1, <2>2, InformerFaithful DEF SInv
<1>3. ASSUME NEW u \in Uid PROVE KeyAt(u)' /\ SeenAt(u)'
  <2>1. Handled(NameOf[u])' = Handled(NameOf[u])
    BY <1>1, EnqueueKeepsHandled DEF SInv
  <2>. QED
    BY <1>1, <2>1 DEF SInv, KeyAt, SeenAt
<1>4. ASSUME NEW u \in Uid PROVE ToldAt(u)'
  <2>1. u \in born /\ NowhereAt(NameOf[u], u)
          => u \in born' /\ NowhereAt(NameOf[u], u)'
    BY <1>1, EnqueueStep DEF SInv, IInv, TInv, Enqueues
  <2>. QED
    BY <1>1, <2>1 DEF SInv, ToldAt
<1>. QED
  BY <1>1, <1>2, <1>3, <1>4 DEF SInv

\* What a faithful notification does: it sets the new object, or marks the old
\* one, under the object's own uid.
LEMMA HandleEffect ==
  ASSUME SInv, NEW n \in Name, Handle(n)
  PROVE  LET note == pending[n][1] IN
         /\ note \in Note /\ Faithful(note) /\ pending[n] # << >>
         /\ Handled(n) = note.old /\ Handled(n)' = note.new
         /\ \A k \in Name \ {n} : Handled(k)' = Handled(k)
         /\ UNCHANGED <<watching, born, reported, sinceFetch>>
         /\ \/ /\ note.new \in Object
               /\ cache' = [cache EXCEPT ![note.new.uid] = NewEntry(note.new, FALSE)]
               /\ seen' = seen \cup {note.new.uid} /\ deletions' = deletions
            \/ /\ note.old \in Object /\ note.new = None
               /\ cache' = [cache EXCEPT ![note.old.uid] = NewEntry(note.old, TRUE)]
               /\ seen' = seen /\ deletions' = deletions \cup {note.old.uid}
<1> DEFINE note == pending[n][1]
<1>0. IInv /\ TypeOK
  BY DEF SInv, IInv, TInv
<1>1. /\ note \in Note /\ pending[n] # << >> /\ Dispatch(note)
      /\ \A k \in Name \ {n} : pending'[k] = pending[k]
      /\ UNCHANGED <<watching, born, store, reported, sinceFetch>>
  BY <1>0, HandleParts
<1>2. Faithful(note)
  BY <1>0, <1>1 DEF SInv, FaithfulAt, TypeOK
<1>3. Handled(n) = note.old /\ Handled(n)' = note.new
  BY <1>0, <1>1, HandledNext DEF Handled
<1>4. \A k \in Name \ {n} : Handled(k)' = Handled(k)
  BY <1>1 DEF Handled
<1>5. CASE note.old = None /\ OnAdd(note.new)
  <2>1. note.new \in Object
    BY <1>1, <1>5 DEF Note, ObjectOrNone
  <2>. QED
    BY <1>1, <1>2, <1>3, <1>4, <1>5, <2>1 DEF OnAdd
<1>6. CASE note.old # None /\ note.new # None /\ OnUpdate(note.old, note.new)
  <2>1. note.new \in Object /\ note.old.uid = note.new.uid
    BY <1>1, <1>2, <1>6 DEF Note, ObjectOrNone, Faithful
  <2>2. UpdatedResource(note.old.uid, note.new) = NewEntry(note.new, FALSE)
    BY CarriesNothing
  <2>. QED
    BY <1>1, <1>2, <1>3, <1>4, <1>6, <2>1, <2>2 DEF OnUpdate
<1>7. CASE /\ note.old # None /\ note.new = None
           /\ IF note.relisted THEN OnTombstone ELSE OnDelete(note.old)
  <2>1. note.old \in Object /\ OnDelete(note.old)
    BY <1>1, <1>2, <1>7 DEF Note, ObjectOrNone, Faithful
  <2>. QED
    BY <1>1, <1>2, <1>3, <1>4, <1>7, <2>1 DEF OnDelete
<1>. QED
  BY <1>1, <1>5, <1>6, <1>7 DEF Dispatch

\* An object that the handled notification speaks of, at its own name.
LEMMA NoteAt ==
  ASSUME SInv, NEW n \in Name, pending[n] # << >>, NEW u \in Uid,
         Has(pending[n][1].old, u) \/ Has(pending[n][1].new, u)
  PROVE  NameOf[u] = n
  BY KeyUnmarked DEF SInv

LEMMA HandleSInv ==
  ASSUME SInv, IInv', NEW n \in Name, Handle(n)
  PROVE  SInv'
<1> DEFINE note == pending[n][1]
<1>0. TypeOK /\ cache \in [Uid -> Entry \cup {None}]
  BY DEF SInv, IInv, TInv, TypeOK
<1>1. /\ note \in Note /\ Faithful(note) /\ pending[n] # << >>
      /\ Handled(n) = note.old /\ Handled(n)' = note.new
      /\ \A k \in Name \ {n} : Handled(k)' = Handled(k)
      /\ UNCHANGED <<watching, born, reported>>
  BY HandleEffect
<1>2. ASSUME NEW k \in Name PROVE FaithfulAt(k)'
  <2>1. CASE k = n
    <3>1. pending'[n] = Tail(pending[n]) /\ pending[n] \in Seq(Note)
      BY <1>0, HandleParts DEF SInv, TypeOK
    <3>2. \A i \in 1..Len(pending'[n]) : /\ i + 1 \in 1..Len(pending[n])
                                        /\ pending'[n][i] = pending[n][i + 1]
      BY <1>1, <3>1
    <3>3. \A i \in 1..Len(pending'[n]) : Faithful(pending'[n][i])
      BY <3>2 DEF SInv, FaithfulAt
    <3>. QED
      BY <2>1, <3>3 DEF FaithfulAt, Faithful
  <2>2. CASE k # n
    <3>1. pending'[k] = pending[k]
      BY <2>2, HandleParts DEF SInv
    <3>. QED
      BY <3>1 DEF SInv, FaithfulAt, Faithful
  <2>. QED
    BY <2>1, <2>2
<1>3. ASSUME NEW u \in Uid PROVE ToldAt(u)'
  BY <1>1, HandleLeaves DEF SInv, ToldAt
<1>4. ASSUME NEW u \in Uid, Has(Handled(NameOf[u]), u),
             ~Has(note.old, u)
      PROVE  Handled(NameOf[u])' = Handled(NameOf[u])
  BY <1>1, <1>4 DEF Has
<1>5. CASE /\ note.new \in Object
           /\ cache' = [cache EXCEPT ![note.new.uid] = NewEntry(note.new, FALSE)]
           /\ seen' = seen \cup {note.new.uid} /\ deletions' = deletions
  <2>0. note.new # None /\ note.new.uid \in Uid /\ Has(note.new, note.new.uid)
    BY <1>5 DEF Object, Has
  <2>1. NameOf[note.new.uid] = n
    BY <1>1, <2>0, NoteAt
  <2>2. ASSUME NEW u \in Uid, u # note.new.uid PROVE ~Has(note.old, u)
    BY <1>1, <2>0, <2>2 DEF Faithful, Has
  <2>3. ASSUME NEW u \in Uid PROVE KeyAt(u)'
    <3>1. CASE u = note.new.uid
      <4>1. cache'[u] = NewEntry(note.new, FALSE)
        BY <1>0, <1>5, <2>0, <3>1
      <4>. QED
        BY <1>1, <2>1, <3>1, <4>1 DEF KeyAt, NewEntry
    <3>2. CASE u # note.new.uid
      <4>1. cache'[u] = cache[u] /\ deletions' = deletions
        BY <1>0, <1>5, <3>2
      <4>2. (cache[u] # None /\ ~cache[u].deleted) => Has(Handled(NameOf[u]), u)
        <5>1. cache[u] # None => cache[u].obj \in Object
          BY <1>0 DEF Entry
        <5>. QED
          BY <5>1 DEF SInv, KeyAt, Has
      <4>. QED
        BY <1>4, <2>2, <3>2, <4>1, <4>2 DEF SInv, KeyAt
    <3>. QED
      BY <3>1, <3>2
  <2>4. ASSUME NEW u \in Uid PROVE SeenAt(u)'
    <3>1. CASE u = note.new.uid
      BY <1>1, <2>0, <2>1, <3>1 DEF SeenAt, Has
    <3>2. CASE u # note.new.uid
      BY <1>4, <1>5, <2>2, <3>2 DEF SInv, SeenAt, Has
    <3>. QED
      BY <3>1, <3>2
  <2>. QED
    BY <1>1, <1>2, <1>3, <2>3, <2>4 DEF SInv
<1>6. CASE /\ note.old \in Object /\ note.new = None
           /\ cache' = [cache EXCEPT ![note.old.uid] = NewEntry(note.old, TRUE)]
           /\ seen' = seen /\ deletions' = deletions \cup {note.old.uid}
  <2>0. note.old.uid \in Uid
    BY <1>6 DEF Object
  <2>2. ASSUME NEW u \in Uid, u # note.old.uid PROVE ~Has(note.old, u)
    BY <2>2 DEF Has
  <2>3. ASSUME NEW u \in Uid PROVE KeyAt(u)'
    <3>1. CASE u = note.old.uid
      <4>1. cache'[u] = NewEntry(note.old, TRUE) /\ u \in deletions'
        BY <1>0, <1>6, <2>0, <3>1
      <4>. QED
        BY <3>1, <4>1 DEF KeyAt, NewEntry
    <3>2. CASE u # note.old.uid
      <4>1. cache'[u] = cache[u] /\ deletions \subseteq deletions'
        BY <1>0, <1>6, <3>2
      <4>2. (cache[u] # None /\ ~cache[u].deleted) => Has(Handled(NameOf[u]), u)
        <5>1. cache[u] # None => cache[u].obj \in Object
          BY <1>0 DEF Entry
        <5>. QED
          BY <5>1 DEF SInv, KeyAt, Has
      <4>. QED
        BY <1>4, <2>2, <3>2, <4>1, <4>2 DEF SInv, KeyAt
    <3>. QED
      BY <3>1, <3>2
  <2>4. ASSUME NEW u \in Uid PROVE SeenAt(u)'
    BY <1>4, <1>6, <2>2 DEF SInv, SeenAt, Has
  <2>. QED
    BY <1>1, <1>2, <1>3, <2>3, <2>4 DEF SInv
<1>. QED
  BY <1>5, <1>6, HandleEffect

LEMMA FetchSInv ==
  ASSUME SInv, IInv', Fetch
  PROVE  SInv'
<1>0. TypeOK
  BY DEF SInv, IInv, TInv
<1>1. /\ UNCHANGED <<watching, born, server, store, pending, deletions, seen>>
      /\ cache' = WithoutExpired
      /\ reported' = reported \cup {<<i.obj.uid, i.deleted>> : i \in Items}
  BY DEF Fetch, informerVars
<1>2. ASSUME NEW u \in Uid, <<u, TRUE>> \in reported', <<u, TRUE>> \notin reported
      PROVE  Marked(u)
  <2>1. PICK v \in Uid : Visible(v) /\ cache[v].obj.uid = u /\ cache[v].deleted = TRUE
    BY <1>1, <1>2 DEF Items
  <2>. QED
    BY <2>1 DEF SInv, KeyAt, Visible, Marked
<1>3. ASSUME NEW u \in Uid PROVE ToldAt(u)'
  BY <1>1, <1>2 DEF SInv, IInv, Buried, ToldAt, NowhereAt
<1>4. ASSUME NEW u \in Uid PROVE KeyAt(u)' /\ SeenAt(u)'
  BY <1>1 DEF SInv, KeyAt, SeenAt, Handled, WithoutExpired
<1>. QED
  BY <1>1, <1>3, <1>4 DEF SInv, FaithfulAt, Faithful

\* Of the assumptions on time none is needed here.
LEMMA StepSInv == SInv /\ [SteadyNext]_vars => SInv'
<1> SUFFICES ASSUME SInv, [SteadyNext]_vars PROVE SInv'
  OBVIOUS
<1>0. IInv' /\ TypeOK
  BY StepIInv DEF SInv, IInv, TInv, Next
<1>1. CASE InformerNext
  BY <1>0, <1>1, InformerSInv
<1>2. ASSUME NEW n \in Name, Handle(n) PROVE SInv'
  BY <1>0, <1>2, HandleSInv
<1>4. CASE Fetch
  BY <1>0, <1>4, FetchSInv
<1>5. ASSUME UNCHANGED <<watching, born, server, store, pending, deletions, seen,
                         reported>>,
             \A u \in Uid : cache'[u] # None =>
                 /\ cache[u] # None /\ cache'[u].obj = cache[u].obj
                 /\ cache'[u].deleted = cache[u].deleted
      PROVE  SInv'
  <2>1. ASSUME NEW u \in Uid PROVE KeyAt(u)' /\ SeenAt(u)' /\ ToldAt(u)'
    BY <1>5 DEF SInv, KeyAt, SeenAt, ToldAt, Handled, NowhereAt
  <2>. QED
    BY <1>0, <1>5, <2>1 DEF SInv, FaithfulAt, Faithful
<1>6. CASE Janitor
  BY <1>5, <1>6 DEF Janitor, informerVars, WithoutExpired
<1>7. CASE Tick
  BY <1>0, <1>5, <1>7 DEF Tick, Older, TypeOK, Entry
<1>8. CASE UNCHANGED vars
  BY <1>5, <1>8 DEF vars
<1>. QED
  BY <1>1, <1>2, <1>4, <1>6, <1>7, <1>8 DEF SteadyNext, InformerNext

LEMMA SteadyInvariance == SteadySpec => []SInv
  BY InitSInv, StepSInv, PTL DEF SteadySpec

\* What the theorems about time, LiveStaysCached and DeletionsAreReported, rest
\* on, in the form that a step can use.
TInvs == (\A n \in Name : CachedAt(n)) /\ (\A u \in Uid : ReportedAt(u))

LEMMA TimedInvariance ==
  ASSUME FetchGap <= Expiry
  PROVE  SteadySpec => [](SInv /\ TInvs)
<1>1. Init => TInvs
  BY DEF Init, TInvs, CachedAt, Handled, ReportedAt
<1>2. SInv /\ SInv' /\ TInvs /\ [SteadyNext]_vars => TInvs'
  <2>1. (SInv => sinceFetch <= Expiry) /\ (SInv' => sinceResync' <= Expiry)
    BY DEF SInv, IInv, TInv, TypeOK, ResyncsInTime
  <2>. QED
    BY <2>1, StepCached, StepReported DEF SInv, IInv, TInv, TInvs, Next
<1>. QED
  BY <1>1, <1>2, StepSInv, InitSInv, PTL DEF SteadySpec

-----------------------------------------------------------------------------
(* What an outage breaks. *)

\* While the watch never breaks every item is cached under the uid of its own
\* object: onUpdate's key is right then.
THEOREM OwnKeys == SteadySpec => []CachedUnderOwnUid
<1>1. SInv => CachedUnderOwnUid
  BY DEF SInv, KeyAt, CachedUnderOwnUid, Visible
<1>. QED
  BY <1>1, SteadyInvariance, PTL

\* While the watch never breaks an object that is gone is marked deleted as soon
\* as the handlers have caught up.
THEOREM GoneAreMarked == SteadySpec => []GoneIsMarkedDeleted
<1>1. SInv => GoneIsMarkedDeleted
  <2> SUFFICES ASSUME SInv, NEW u \in Uid, Visible(u), pending[NameOf[u]] = << >>,
                      ~cache[u].deleted
               PROVE  Has(store[NameOf[u]], cache[u].obj.uid)
    BY DEF GoneIsMarkedDeleted
  <2>1. cache[u] # None /\ cache[u].obj = store[NameOf[u]] /\ cache[u].obj \in Object
    BY DEF SInv, IInv, TInv, TypeOK, KeyAt, Visible, Handled, Entry
  <2>. QED
    BY <2>1 DEF Has
<1>. QED
  BY <1>1, SteadyInvariance, PTL

\* While the watch never breaks, and if no two fetches are further apart than an
\* item lives, no object that was ever seen is missing from what is reported.
THEOREM SeenAreReported ==
  ASSUME FetchGap <= Expiry
  PROVE  SteadySpec => []AllSeenReported
<1>1. SInv /\ TInvs => AllSeenReported
  <2> SUFFICES ASSUME SInv, TInvs, NEW u \in seen, NameOf[u] \in Included
               PROVE  \/ \E v \in Uid : Visible(v) /\ cache[v].obj.uid = u
                      \/ <<u, TRUE>> \in reported
    BY DEF AllSeenReported
  <2>0. TypeOK /\ u \in Uid /\ NameOf[u] \in Name
    BY DEF SInv, IInv, TInv, TypeOK
  <2>1. CASE Has(Handled(NameOf[u]), u)
    <3>1. PICK v \in Uid : LiveAt(NameOf[u], v)
      BY <2>0, <2>1 DEF TInvs, CachedAt, Has
    <3>. QED
      BY <2>1, <3>1 DEF LiveAt, Visible, Has
  <2>2. CASE u \in deletions /\ <<u, TRUE>> \notin reported
    <3>1. Marked(u) /\ cache[u].obj.uid = u /\ cache[u].age <= sinceFetch
      BY <2>0, <2>2 DEF TInvs, ReportedAt
    <3>2. Visible(u)
      BY <2>0, <3>1 DEF Marked, Visible, TypeOK, Entry
    <3>. QED
      BY <2>0, <3>1, <3>2
  <2>. QED
    BY <2>0, <2>1, <2>2 DEF SInv, SeenAt
<1>. QED
  BY <1>1, TimedInvariance, PTL

-----------------------------------------------------------------------------
(* The refinement: every step is one of the contract's, or a stutter. *)

HeldOf(u) ==
    IF Visible(u) THEN [ver |-> cache[u].obj.ver, deleted |-> cache[u].deleted]
    ELSE None

\* If no object's item changes, but for its age, the contract stutters.
LEMMA Stutters ==
  ASSUME \A u \in Uid : HeldOf(u)' = HeldOf(u), UNCHANGED reported
  PROVE  UNCHANGED <<Held, reported>>
  BY DEF Held, HeldOf, Gathered

\* An object the handlers know to be live is held, under its own uid.
LEMMA LiveHeld ==
  ASSUME SInv, TInvs, NEW n \in Name, Handled(n) \in Object
  PROVE  LET u == Handled(n).uid IN
         /\ u \in Uid /\ NameOf[u] = n /\ Visible(u)
         /\ cache[u].obj = Handled(n) /\ cache[u].deleted = FALSE
<1>1. PICK v \in Uid : LiveAt(n, v)
  BY DEF TInvs, CachedAt
<1>2. v = Handled(n).uid /\ cache[v] \in Entry
  BY <1>1 DEF LiveAt, SInv, KeyAt, IInv, TInv, TypeOK
<1>. QED
  BY <1>1, <1>2 DEF LiveAt, Visible, Entry

\* What is held is not None.
LEMMA HeldIsItem ==
  ASSUME NEW o \in Object, NEW d \in BOOLEAN
  PROVE  [ver |-> o.ver, deleted |-> d] # None
  BY ItemAssumption DEF Contract!Item, Object

LEMMA HandleRefines ==
  ASSUME SInv, TInvs, NEW n \in Name, Handle(n)
  PROVE  \/ \E u \in Gathered : Contract!Learn(u) \/ Contract!Follow(u)
                                                 \/ Contract!Delete(u)
         \/ UNCHANGED <<Held, reported>>
<1> DEFINE note == pending[n][1]
<1>0. TypeOK /\ cache \in [Uid -> Entry \cup {None}]
  BY DEF SInv, IInv, TInv, TypeOK
<1>1. /\ note \in Note /\ Faithful(note) /\ pending[n] # << >>
      /\ Handled(n) = note.old /\ UNCHANGED reported
  BY HandleEffect
\* One object's item is all that changes.
<1>2. ASSUME NEW u \in Uid, NEW e \in Entry, cache' = [cache EXCEPT ![u] = e],
             e.age = 0
      PROVE  /\ HeldOf(u)' = [ver |-> e.obj.ver, deleted |-> e.deleted]
             /\ \A v \in Uid \ {u} : HeldOf(v)' = HeldOf(v)
             /\ u \in Gathered =>
                  Held' = [Held EXCEPT ![u] = [ver |-> e.obj.ver, deleted |-> e.deleted]]
             /\ u \notin Gathered => Held' = Held
  <2>1. cache'[u] = e /\ \A v \in Uid \ {u} : cache'[v] = cache[v]
    BY <1>0, <1>2
  <2>2. HeldOf(u)' = [ver |-> e.obj.ver, deleted |-> e.deleted]
    BY <1>2, <2>1 DEF HeldOf, Visible
  <2>3. \A v \in Uid \ {u} : HeldOf(v)' = HeldOf(v)
    BY <2>1 DEF HeldOf, Visible
  <2>4. Held = [v \in Gathered |-> HeldOf(v)] /\ Held' = [v \in Gathered |-> HeldOf(v)']
    BY DEF Held, HeldOf, Gathered
  <2>5. Gathered \subseteq Uid
    BY DEF Gathered
  <2> HIDE DEF HeldOf, Gathered, Held
  <2>. QED
    BY <2>2, <2>3, <2>4, <2>5
<1>3. CASE /\ note.new \in Object
           /\ cache' = [cache EXCEPT ![note.new.uid] = NewEntry(note.new, FALSE)]
  <2> DEFINE u == note.new.uid
             o == note.new
             item == [ver |-> o.ver, deleted |-> FALSE]
  <2>0. /\ u \in Uid /\ o.ver \in 0..MaxVersion /\ o # None /\ Has(o, u)
        /\ NewEntry(o, FALSE) \in Entry
        /\ NewEntry(o, FALSE).age = 0 /\ NewEntry(o, FALSE).obj = o
        /\ NewEntry(o, FALSE).deleted = FALSE
    BY <1>3, NewEntryType DEF Object, Has, NewEntry
  <2>1. /\ u \in Gathered => Held' = [Held EXCEPT ![u] = item]
        /\ u \notin Gathered => Held' = Held
    BY <1>2, <1>3, <2>0
  <2>2. NameOf[u] = n /\ ~Marked(u) /\ ~NowhereAt(n, u)
    <3>1. NameOf[u] = n /\ ~Marked(u)
      BY <1>1, <2>0, KeyUnmarked DEF SInv
    <3>2. 1 \in 1..Len(pending[n])
      BY <1>0, <1>1 DEF TypeOK
    <3>. QED
      BY <2>0, <3>1, <3>2 DEF NowhereAt
  <2>3. CASE u \notin Gathered
    BY <1>1, <2>1, <2>3
  <2>4. CASE u \in Gathered /\ note.old = None
    <3>1. ~Visible(u)
      <4>1. ASSUME Visible(u) PROVE Handled(n) \in Object
        BY <1>0, <2>0, <2>2, <4>1 DEF Visible, Marked, SInv, KeyAt, Entry
      <4>. QED
        BY <1>1, <2>4, <4>1
    <3>2. Held[u] = None
      BY <2>4, <3>1 DEF Held
    <3>3. <<u, TRUE>> \notin reported
      BY <2>0, <2>2 DEF SInv, ToldAt
    <3>4. Contract!Learn(u)
      BY <1>1, <2>0, <2>1, <2>4, <3>2, <3>3
         DEF Contract!Learn, Contract!Holds, Contract!ToldDeleted
    <3>. QED
      BY <2>4, <3>4
  <2>5. CASE u \in Gathered /\ note.old # None
    <3>1. note.old \in Object /\ note.old.uid = u /\ note.old.ver <= o.ver
      BY <1>1, <2>0, <2>5 DEF Note, ObjectOrNone, Faithful
    <3>2. Visible(u) /\ cache[u].obj = note.old /\ cache[u].deleted = FALSE
      <4>1. Handled(n) \in Object /\ Handled(n) = note.old /\ Handled(n).uid = u
        BY <1>1, <3>1
      <4> HIDE DEF note, u
      <4>. QED
        BY <4>1, LiveHeld
    <3>3. Held[u] = [ver |-> note.old.ver, deleted |-> FALSE]
      BY <2>5, <3>2 DEF Held
    <3>4. CASE note.old.ver = o.ver
      <4>1. Held' = Held
        BY <2>1, <2>5, <3>3, <3>4 DEF Held
      <4>. QED
        BY <1>1, <4>1
    <3>5. CASE note.old.ver # o.ver
      <4>1. o.ver > note.old.ver
        BY <2>0, <3>1, <3>5 DEF Object
      <4>2. Held[u] # None
        BY <3>1, <3>3, HeldIsItem
      <4>3. Held[u].deleted = FALSE /\ Held[u].ver = note.old.ver
        BY <3>3
      <4>4. Contract!Follow(u)
        BY <1>1, <2>0, <2>1, <2>5, <4>1, <4>2, <4>3
           DEF Contract!Follow, Contract!Live, Contract!Holds
      <4>. QED
        BY <2>5, <4>4
    <3>. QED
      BY <3>4, <3>5
  <2>. QED
    BY <2>3, <2>4, <2>5
<1>4. CASE /\ note.old \in Object /\ note.new = None
           /\ cache' = [cache EXCEPT ![note.old.uid] = NewEntry(note.old, TRUE)]
  <2> DEFINE u == note.old.uid
             o == note.old
  <2>0. /\ u \in Uid /\ NewEntry(o, TRUE) \in Entry
        /\ NewEntry(o, TRUE).age = 0 /\ NewEntry(o, TRUE).obj = o
        /\ NewEntry(o, TRUE).deleted = TRUE
    BY <1>4, NewEntryType DEF Object, NewEntry
  <2>1. /\ u \in Gathered => Held' = [Held EXCEPT ![u] = [ver |-> o.ver, deleted |-> TRUE]]
        /\ u \notin Gathered => Held' = Held
    <3>1. cache' = [cache EXCEPT ![u] = NewEntry(o, TRUE)]
      BY <1>4
    <3> HIDE DEF u, o
    <3>. QED
      BY <1>2, <2>0, <3>1
  <2>2. Visible(u) /\ cache[u].obj = o /\ cache[u].deleted = FALSE
    BY <1>1, <1>4, LiveHeld
  <2>3. CASE u \notin Gathered
    BY <1>1, <2>1, <2>3
  <2>4. CASE u \in Gathered
    <3>1. Held[u] = [ver |-> o.ver, deleted |-> FALSE]
      BY <2>2, <2>4 DEF Held
    <3>2. Held[u] # None
      BY <1>4, <3>1, HeldIsItem
    <3>3. Held[u].deleted = FALSE /\ Held[u].ver = o.ver
      BY <3>1
    <3>4. Contract!Delete(u)
      BY <1>1, <2>1, <2>4, <3>2, <3>3
         DEF Contract!Delete, Contract!Live, Contract!Holds
    <3>. QED
      BY <2>4, <3>4
  <2>. QED
    BY <2>3, <2>4
<1>. QED
  BY <1>3, <1>4, HandleEffect

LEMMA FetchRefines ==
  ASSUME SInv, Fetch
  PROVE  Contract!Fetch
<1> DEFINE mine == {<<i.obj.uid, i.deleted>> : i \in Items}
           theirs == {<<u, Held[u].deleted>> : u \in {v \in Gathered : Held[v] # None}}
<1>0. TypeOK /\ cache \in [Uid -> Entry \cup {None}]
  BY DEF SInv, IInv, TInv, TypeOK
<1>1. ASSUME NEW u \in Uid, Visible(u)
      PROVE  /\ cache[u] \in Entry /\ cache[u].obj.uid = u
             /\ [ver |-> cache[u].obj.ver, deleted |-> cache[u].deleted] # None
  <2>1. cache[u] \in Entry /\ cache[u].obj.uid = u
    BY <1>0, <1>1 DEF Visible, SInv, KeyAt
  <2>2. cache[u].obj \in Object /\ cache[u].deleted \in BOOLEAN
    BY <2>1 DEF Entry
  <2>. QED
    BY <2>1, <2>2, HeldIsItem
<1>2. ASSUME NEW u \in Gathered
      PROVE  /\ u \in Uid /\ NameOf[u] \in Included
             /\ Held[u] # None <=> Visible(u)
             /\ Visible(u) => Held[u].deleted = cache[u].deleted
  BY <1>1, <1>2 DEF Held, Gathered
<1>3. mine \subseteq theirs
  <2> SUFFICES ASSUME NEW v \in Uid, Visible(v), NameOf[cache[v].obj.uid] \in Included
               PROVE  <<cache[v].obj.uid, cache[v].deleted>> \in theirs
    BY DEF Items
  <2>1. v \in Gathered /\ cache[v].obj.uid = v
    BY <1>1 DEF Gathered
  <2>. QED
    BY <1>2, <2>1
<1>4. theirs \subseteq mine
  <2> SUFFICES ASSUME NEW u \in Gathered, Held[u] # None
               PROVE  <<u, Held[u].deleted>> \in mine
    OBVIOUS
  <2>1. cache[u] \in Items
    BY <1>1, <1>2 DEF Items
  <2>. QED
    BY <1>1, <1>2, <2>1
<1>5. UNCHANGED Held
  <2>1. cache' = WithoutExpired
    BY DEF Fetch
  <2>. QED
    BY <2>1 DEF Held, Visible, WithoutExpired, Gathered
<1>. QED
  BY <1>3, <1>4, <1>5 DEF Fetch, Contract!Fetch, Contract!Holds

LEMMA TickRefines ==
  ASSUME SInv, TInvs, SInv', TInvs', Tick, FetchGap <= Expiry
  PROVE  Contract!Forget
<1> DEFINE S == {u \in Gathered : Held[u] # None /\ Held'[u] = None}
<1>0. TypeOK /\ TypeOK' /\ cache \in [Uid -> Entry \cup {None}]
  BY DEF SInv, IInv, TInv, TypeOK
<1>1. /\ cache' = [u \in Uid |-> Older(cache[u])] /\ UNCHANGED <<reported, deletions>>
      /\ \A n \in Name : Handled(n)' = Handled(n)
  BY DEF Tick, Handled
<1>2. ASSUME NEW u \in Uid, Visible(u)
      PROVE  /\ cache[u] \in Entry /\ cache'[u] # None
             /\ cache'[u].obj = cache[u].obj /\ cache'[u].deleted = cache[u].deleted
             /\ cache[u].deleted \in BOOLEAN
             /\ [ver |-> cache[u].obj.ver, deleted |-> cache[u].deleted] # None
  <2>1. cache[u] \in Entry /\ cache[u] # None /\ cache[u].age <= Expiry
    BY <1>0, <1>2 DEF Visible
  <2>2. cache'[u] = [cache[u] EXCEPT !.age = @ + 1]
    BY <1>1, <2>1 DEF Older
  <2>3. cache'[u] # None /\ cache'[u].obj = cache[u].obj
        /\ cache'[u].deleted = cache[u].deleted
    BY <2>1, <2>2, OlderType, <1>1 DEF Entry
  <2>4. cache[u].obj \in Object /\ cache[u].deleted \in BOOLEAN
    BY <2>1 DEF Entry
  <2>. QED
    BY <2>1, <2>3, <2>4, HeldIsItem
<1>3. ASSUME NEW u \in Uid, ~Visible(u) PROVE ~Visible(u)'
  BY <1>0, <1>1, <1>3 DEF Visible, Older, Entry
\* A live item does not expire, and a deleted one not before it is told.
<1>4. ASSUME NEW u \in Uid, Visible(u), ~Visible(u)', NameOf[u] \in Included
      PROVE  cache[u].deleted = TRUE /\ <<u, TRUE>> \in reported
  <2>1. cache[u].deleted = TRUE
    <3> SUFFICES ASSUME cache[u].deleted = FALSE PROVE FALSE
      BY <1>2, <1>4
    <3>1. cache'[u] # None /\ ~cache'[u].deleted /\ cache'[u].obj \in Object
          /\ cache'[u].obj.uid = u
      BY <1>2, <1>4 DEF Entry, SInv, KeyAt, Visible
    <3>2. Handled(NameOf[u])' = cache'[u].obj
      BY <3>1 DEF SInv, KeyAt
    <3>3. Visible(u)'
      <4> DEFINE n == NameOf[u]
      <4>1. n \in Name /\ Handled(n)' \in Object /\ Handled(n)'.uid = u
        BY <3>1, <3>2
      <4>2. PICK v \in Uid : LiveAt(n, v)'
        BY <4>1 DEF TInvs, CachedAt
      <4>3. v = u
        BY <4>1, <4>2 DEF LiveAt, SInv, KeyAt
      <4>. QED
        BY <4>2, <4>3 DEF LiveAt, Visible
    <3>. QED
      BY <1>4, <3>3
  <2>2. u \in deletions'
    BY <1>1, <1>4, <2>1 DEF SInv, KeyAt, Visible
  <2>3. CASE Marked(u)' /\ cache'[u].age <= sinceFetch'
    BY <1>0, <1>4, <2>3 DEF Marked, Visible, TypeOK, Entry
  <2>. QED
    BY <1>1, <1>4, <2>1, <2>2, <2>3 DEF TInvs, ReportedAt
<1>5. ASSUME NEW u \in Gathered
      PROVE  /\ Held'[u] = IF u \in S THEN None ELSE Held[u]
             /\ u \in S => Held[u].deleted /\ <<u, TRUE>> \in reported
  <2>0. u \in Uid /\ NameOf[u] \in Included
    BY DEF Gathered
  <2>1. Held[u] = HeldOf(u) /\ Held'[u] = HeldOf(u)'
    BY DEF Held, HeldOf, Gathered
  <2>2. CASE ~Visible(u)
    BY <1>3, <2>0, <2>1, <2>2 DEF HeldOf
  <2>3. CASE Visible(u) /\ Visible(u)'
    BY <1>2, <2>0, <2>1, <2>3 DEF HeldOf
  <2>4. CASE Visible(u) /\ ~Visible(u)'
    <3>1. Held[u] = [ver |-> cache[u].obj.ver, deleted |-> cache[u].deleted]
          /\ Held[u] # None /\ Held'[u] = None
      BY <1>2, <2>0, <2>1, <2>4 DEF HeldOf
    <3>2. cache[u].deleted = TRUE /\ <<u, TRUE>> \in reported
      BY <1>4, <2>0, <2>4
    <3>3. Held[u].deleted = TRUE
      BY <3>1, <3>2
    <3>. QED
      BY <3>1, <3>2, <3>3
  <2>. QED
    BY <2>2, <2>3, <2>4
<1>6. Held' = [u \in Gathered |-> IF u \in S THEN None ELSE Held[u]]
  <2>1. Held' = [u \in Gathered |-> Held'[u]]
    BY DEF Held, Gathered
  <2> HIDE DEF S
  <2>. QED
    BY <1>5, <2>1
<1>7. S \in SUBSET {u \in Gathered : Held[u] # None /\ Held[u].deleted
                                      /\ <<u, TRUE>> \in reported}
  BY <1>5
<1> HIDE DEF S
<1>. QED
  BY <1>1, <1>6, <1>7 DEF Contract!Forget, Contract!Holds, Contract!ToldDeleted

LEMMA StepRefines ==
  ASSUME FetchGap <= Expiry, SInv, TInvs, SInv', TInvs', [SteadyNext]_vars
  PROVE  [Contract!Next]_<<Held, reported>>
<1>1. CASE InformerNext
  <2>1. UNCHANGED <<cache, reported>>
    BY <1>1, InformerEnqueues DEF SInv
  <2>. QED
    BY <2>1, Stutters DEF HeldOf, Visible
<1>2. ASSUME NEW n \in Name, Handle(n) PROVE [Contract!Next]_<<Held, reported>>
  BY <1>2, HandleRefines DEF Contract!Next
<1>4. CASE Fetch
  BY <1>4, FetchRefines DEF Contract!Next
<1>5. CASE Janitor
  BY <1>5, Stutters DEF Janitor, HeldOf, Visible, WithoutExpired
<1>6. CASE Tick
  BY <1>6, TickRefines DEF Contract!Next
<1>7. CASE UNCHANGED vars
  BY <1>7, Stutters DEF vars, HeldOf, Visible
<1>. QED
  BY <1>1, <1>2, <1>4, <1>5, <1>6, <1>7 DEF SteadyNext, InformerNext

\* While the watch never breaks, and if no two fetches are further apart than an
\* item lives, the cache keeps the contract: for any number of objects, every
\* behaviour of the informer, the handlers, Fetch and the clock is one the backend
\* may see.
THEOREM CacheKeepsContract ==
  ASSUME FetchGap <= Expiry
  PROVE  SteadySpec => KeepsContract
<1>1. Init => Contract!Init
  BY DEF Init, Contract!Init, Held, Visible, Gathered
<1>2. (SInv /\ TInvs) /\ (SInv /\ TInvs)' /\ [SteadyNext]_vars
          => [Contract!Next]_<<Held, reported>>
  BY StepRefines
<1>. QED
  BY <1>1, <1>2, TimedInvariance, PTL DEF SteadySpec, KeepsContract, Contract!Spec
=============================================================================
