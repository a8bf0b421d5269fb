------------------------- MODULE ResourceCacheProofs -------------------------
(***************************************************************************)
(* Proofs about ResourceCache, for any names, uids, namespaces and bounds. *)
(***************************************************************************)
EXTENDS ResourceCache, TLAPS

USE NameAssumption, NoneAssumption, TimeAssumption, BoundAssumption

-----------------------------------------------------------------------------
(* Type correctness. *)

\* An established watch keeps the store equal to the server's objects: the
\* first strengthening of TypeOK, which makes a deletion's old object known.
WatchedStore == watching => store = server

\* An established watch resyncs in time, and while there is none no notification
\* comes: after a longer time without resync all are handled.
ResyncsInTime ==
    sinceResync > ResyncPeriod => ~watching /\ \A n \in Name : pending[n] = << >>

TInv == TypeOK /\ WatchedStore /\ ResyncsInTime

\* What is appended to is not empty.
LEMMA AppendedNotEmpty ==
  ASSUME NEW S, NEW q \in Seq(S), NEW m \in S
  PROVE  Append(q, m) # << >>
<1>1. Len(Append(q, m)) # 0
  OBVIOUS
<1>2. Len(<< >>) = 0
  OBVIOUS
<1>. QED
  BY <1>1, <1>2

LEMMA InitType == Init => TInv
  BY DEF Init, TInv, TypeOK, WatchedStore, ResyncsInTime, ObjectOrNone

\* A new entry for an object of the right type is an entry of the right type.
LEMMA NewEntryType ==
  ASSUME NEW o \in Object, NEW d \in BOOLEAN
  PROVE  NewEntry(o, d) \in Entry
  BY DEF NewEntry, Entry

\* A change of the server keeps the informer's variables well typed.
LEMMA ChangeType ==
  ASSUME TInv, NEW n \in Name, NEW o \in ObjectOrNone, Change(n, o),
         server[n] # None \/ o # None
  PROVE  /\ server' \in [Name -> ObjectOrNone]
         /\ store' \in [Name -> ObjectOrNone]
         /\ pending' \in [Name -> Seq(Note)]
         /\ WatchedStore'
         /\ UNCHANGED <<watching, outages, cache, sinceResync, sinceFetch,
                        deletions, seen, reported>>
<1>1. CASE watching
  <2>1. [old |-> store[n], new |-> o, relisted |-> FALSE] \in Note
    BY <1>1 DEF TInv, TypeOK, WatchedStore, Note
  <2>2. Append(pending[n], [old |-> store[n], new |-> o, relisted |-> FALSE])
          \in Seq(Note)
    BY <2>1 DEF TInv, TypeOK
  <2>. QED
    BY <1>1, <2>2 DEF Change, TInv, TypeOK, WatchedStore
<1>2. CASE ~watching
  BY <1>2 DEF Change, TInv, TypeOK, WatchedStore
<1>. QED
  BY <1>1, <1>2

\* Notifying the difference to a list keeps them well typed, too.
LEMMA NotifyAllType ==
  ASSUME TypeOK, NEW list \in [Name -> ObjectOrNone], NEW r \in BOOLEAN,
         NotifyAll(list, r)
  PROVE  /\ store' \in [Name -> ObjectOrNone]
         /\ pending' \in [Name -> Seq(Note)]
         /\ sinceResync' \in 0..(Expiry + 1)
<1>1. ASSUME NEW n \in Name, ~(store[n] = None /\ list[n] = None)
      PROVE  Append(pending[n], [old |-> store[n], new |-> list[n],
                                 relisted |-> r]) \in Seq(Note)
  <2>1. [old |-> store[n], new |-> list[n], relisted |-> r] \in Note
    BY <1>1 DEF TypeOK, Note
  <2>. QED
    BY <2>1 DEF TypeOK
<1>. QED
  BY <1>1 DEF NotifyAll, TypeOK

\* Handling a notification keeps the cache and the histories well typed.
LEMMA DispatchType ==
  ASSUME TypeOK, NEW note \in Note, Dispatch(note)
  PROVE  /\ cache' \in [Uid -> Entry \cup {None}]
         /\ deletions' \subseteq Uid
         /\ seen' \subseteq Uid
<1>1. CASE note.old = None /\ OnAdd(note.new)
  <2>1. note.new \in Object
    BY <1>1 DEF Note, ObjectOrNone
  <2>2. NewEntry(note.new, FALSE) \in Entry /\ note.new.uid \in Uid
    BY <2>1, NewEntryType DEF Object
  <2>. QED
    BY <1>1, <2>2 DEF OnAdd, TypeOK
<1>2. CASE note.old # None /\ note.new # None /\ OnUpdate(note.old, note.new)
  <2>1. note.new \in Object /\ note.old.uid \in Uid /\ note.new.uid \in Uid
    BY <1>2 DEF Note, ObjectOrNone, Object
  <2>2. UpdatedResource(note.old.uid, note.new) \in Entry
    BY <2>1, NewEntryType DEF UpdatedResource, CarriedDeletion
  <2>. QED
    BY <1>2, <2>1, <2>2 DEF OnUpdate, TypeOK
<1>3. CASE /\ note.old # None /\ note.new = None
           /\ IF note.relisted THEN OnTombstone ELSE OnDelete(note.old)
  <2>1. note.old \in Object /\ note.old.uid \in Uid
    BY <1>3 DEF Note, ObjectOrNone, Object
  <2>2. NewEntry(note.old, TRUE) \in Entry
    BY <2>1, NewEntryType
  <2>. QED
    BY <1>3, <2>1, <2>2 DEF OnTombstone, OnDelete, TypeOK
<1>. QED
  BY <1>1, <1>2, <1>3 DEF Dispatch

LEMMA WithoutExpiredType ==
  ASSUME TypeOK
  PROVE  WithoutExpired \in [Uid -> Entry \cup {None}]
  BY DEF TypeOK, WithoutExpired

LEMMA OlderType ==
  ASSUME NEW e \in Entry \cup {None}
  PROVE  Older(e) \in Entry \cup {None}
  BY DEF Older, Entry

LEMMA StepInTime ==
  ASSUME TInv, [Next]_vars
  PROVE  ResyncsInTime'
<1>0. TypeOK /\ ResyncsInTime /\ sinceResync \in Nat
  BY DEF TInv, TypeOK
<1>1. ASSUME NEW n \in Name, NEW o, Change(n, o) PROVE ResyncsInTime'
  BY <1>0, <1>1 DEF Change, ResyncsInTime
<1>2. CASE (\E u \in Uid : Create(u)) \/ \E n \in Name : Modify(n) \/ Remove(n)
  <2>1. ASSUME NEW u \in Uid, Create(u) PROVE ResyncsInTime'
    BY <1>1, <2>1 DEF Create
  <2>2. ASSUME NEW n \in Name, Modify(n) \/ Remove(n) PROVE ResyncsInTime'
    BY <1>1, <2>2 DEF Modify, Remove
  <2>. QED
    BY <1>2, <2>1, <2>2
<1>3. CASE Relist \/ Resync
  BY <1>3 DEF Relist, Resync, NotifyAll, ResyncsInTime
<1>4. ASSUME NEW n \in Name, Handle(n) PROVE ResyncsInTime'
  BY <1>0, <1>4 DEF Handle, ResyncsInTime
<1>5. CASE LoseWatch \/ UNCHANGED vars
  BY <1>0, <1>5 DEF LoseWatch, vars, ResyncsInTime
<1>6. CASE Fetch \/ Janitor
  BY <1>0, <1>6 DEF Fetch, Janitor, informerVars, ResyncsInTime
<1>7. CASE Tick
  BY <1>0, <1>7 DEF Tick, ResyncsInTime
<1>. QED
  BY <1>2, <1>3, <1>4, <1>5, <1>6, <1>7 DEF Next, SteadyNext

LEMMA StepType == TInv /\ [Next]_vars => TInv'
<1> SUFFICES ASSUME TInv, [Next]_vars PROVE (TypeOK /\ WatchedStore)'
  BY StepInTime DEF TInv
<1> USE DEF TInv
<1>1. ASSUME NEW u \in Uid, Create(u) PROVE (TypeOK /\ WatchedStore)'
  <2>1. NameOf[u] \in Name /\ [uid |-> u, ver |-> 0] \in Object
    BY DEF Object
  <2>2. born' \subseteq Uid /\ Change(NameOf[u], [uid |-> u, ver |-> 0])
    BY <1>1 DEF Create, TypeOK
  <2>. QED
    BY <1>1, <2>1, ChangeType DEF Create, TypeOK, ObjectOrNone
<1>2. ASSUME NEW n \in Name, Modify(n) PROVE (TypeOK /\ WatchedStore)'
  <2>1. [uid |-> server[n].uid, ver |-> server[n].ver + 1] \in Object
    BY <1>2 DEF Modify, TypeOK, ObjectOrNone, Object
  <2>. QED
    BY <1>2, <2>1, ChangeType DEF Modify, TypeOK, ObjectOrNone
<1>3. ASSUME NEW n \in Name, Remove(n) PROVE (TypeOK /\ WatchedStore)'
  BY <1>3, ChangeType DEF Remove, TypeOK, ObjectOrNone
<1>4. ASSUME NEW n \in Name, Handle(n) PROVE (TypeOK /\ WatchedStore)'
  <2>1. Head(pending[n]) \in Note /\ Tail(pending[n]) \in Seq(Note)
    BY <1>4 DEF Handle, TypeOK
  <2>2. Dispatch(Head(pending[n]))
    BY <1>4 DEF Handle
  <2>3. /\ cache' \in [Uid -> Entry \cup {None}]
        /\ deletions' \subseteq Uid
        /\ seen' \subseteq Uid
    BY <2>1, <2>2, DispatchType
  <2>4. pending' \in [Name -> Seq(Note)]
    BY <1>4, <2>1 DEF Handle, TypeOK
  <2>5. UNCHANGED <<server, born, watching, outages, store, sinceResync,
                    sinceFetch, reported>>
    BY <1>4 DEF Handle
  <2>6. TypeOK'
    BY <2>3, <2>4, <2>5 DEF TypeOK
  <2>7. WatchedStore'
    BY <2>5 DEF WatchedStore
  <2>. QED
    BY <2>6, <2>7
<1>5. CASE LoseWatch
  <2>1. TypeOK'
    <3>1. outages' \in 0..MaxOutages
      BY <1>5 DEF LoseWatch, TypeOK
    <3>2. watching' \in BOOLEAN
      BY <1>5 DEF LoseWatch
    <3>3. UNCHANGED <<server, born, store, pending, cache, sinceResync,
                      sinceFetch, deletions, seen, reported>>
      BY <1>5 DEF LoseWatch
    <3>. QED
      BY <3>1, <3>2, <3>3 DEF TypeOK
  <2>. QED
    BY <1>5, <2>1 DEF LoseWatch, WatchedStore
<1>6. CASE Relist
  BY <1>6, NotifyAllType DEF Relist, NotifyAll, TypeOK, WatchedStore
<1>7. CASE Resync
  BY <1>7, NotifyAllType DEF Resync, NotifyAll, TypeOK, WatchedStore
<1>8. CASE Fetch
  <2>1. {<<i.obj.uid, i.deleted>> : i \in Items} \subseteq Uid \X BOOLEAN
    BY DEF Items, Visible, TypeOK, Entry, Object
  <2>. QED
    BY <1>8, <2>1, WithoutExpiredType DEF Fetch, informerVars, TypeOK, WatchedStore
<1>9. CASE Janitor
  BY <1>9, WithoutExpiredType DEF Janitor, informerVars, TypeOK, WatchedStore
<1>10. CASE Tick
  BY <1>10, OlderType DEF Tick, TypeOK, WatchedStore
<1>11. CASE UNCHANGED vars
  BY <1>11 DEF vars, TypeOK, WatchedStore
<1>. QED
  BY <1>1, <1>2, <1>3, <1>4, <1>5, <1>6, <1>7, <1>8, <1>9, <1>10, <1>11 DEF Next, SteadyNext

\* The variables keep their types: in particular the ages stay within what the
\* expiry can tell apart, and every pending notification has an object.
THEOREM TypeCorrect == Spec => []TypeOK
<1>1. TInv => TypeOK
  BY DEF TInv
<1>. QED
  BY <1>1, InitType, StepType, PTL DEF Spec

-----------------------------------------------------------------------------
(* The inductive invariant: what the order of the notifications implies.   *)

\* Objects are filed under the name of their uid, and their uid is taken.
At(o, n) == o = None \/ (o.uid \in born /\ NameOf[o.uid] = n)

PlacedAt(n) ==
    /\ At(server[n], n) /\ At(store[n], n)
    /\ \A i \in 1..Len(pending[n]) :
         At(pending[n][i].old, n) /\ At(pending[n][i].new, n)

\* Each notification starts where the one before it ends; the last one ends
\* at the store.
ChainedAt(n) ==
    /\ \A i \in 1..(Len(pending[n]) - 1) :
         pending[n][i + 1].old = pending[n][i].new
    /\ pending[n] # << >> => pending[n][Len(pending[n])].new = store[n]

\* A uid that a notification takes away does not come back later.
GoneAt(n) ==
    \A i \in 1..Len(pending[n]), u \in Uid :
        Has(pending[n][i].old, u) /\ ~Has(pending[n][i].new, u) =>
            /\ ~Has(server[n], u)
            /\ \A j \in i..Len(pending[n]) : ~Has(pending[n][j].new, u)

\* A uid whose item is marked deleted is nowhere any more.
NowhereAt(n, u) ==
    /\ ~Has(server[n], u) /\ ~Has(store[n], u)
    /\ \A i \in 1..Len(pending[n]) :
         ~Has(pending[n][i].old, u) /\ ~Has(pending[n][i].new, u)

Marked(u) == cache[u] # None /\ cache[u].deleted
Buried(u) == Marked(u) => u \in born /\ NowhereAt(NameOf[u], u)

IInv ==
    /\ TInv
    /\ \A n \in Name : PlacedAt(n) /\ ChainedAt(n) /\ GoneAt(n)
    /\ \A u \in Uid : Buried(u)

\* What a step of the server or the informer does to name n: nothing but a
\* change of the server's object, or one more notification, up to the store's
\* new object, which is the server's or the old one.
Enqueues(n) ==
    /\ born \subseteq born'
    /\ At(server[n], n)'
    /\ \A u \in born : Has(server'[n], u) => Has(server[n], u)
    /\ \/ pending'[n] = pending[n] /\ store'[n] = store[n]
       \/ \E m \in Note : /\ pending'[n] = Append(pending[n], m)
                          /\ m.old = store[n] /\ m.new = store'[n]
                          /\ m.new = server'[n] \/ m.new = m.old

LEMMA EnqueueStep ==
  ASSUME TypeOK, NEW n \in Name, PlacedAt(n), ChainedAt(n), GoneAt(n),
         Enqueues(n)
  PROVE  /\ PlacedAt(n)' /\ ChainedAt(n)' /\ GoneAt(n)'
         /\ \A u \in born : NowhereAt(n, u) => NowhereAt(n, u)'
<1>1. CASE pending'[n] = pending[n] /\ store'[n] = store[n]
  <2>1. PlacedAt(n)' /\ ChainedAt(n)'
    BY <1>1 DEF Enqueues, PlacedAt, ChainedAt, At
  <2>2. GoneAt(n)'
    <3> SUFFICES ASSUME NEW i \in 1..Len(pending[n]), NEW u \in Uid,
                        Has(pending[n][i].old, u), ~Has(pending[n][i].new, u)
                 PROVE  /\ ~Has(server'[n], u)
                        /\ \A j \in i..Len(pending[n]) : ~Has(pending[n][j].new, u)
      BY <1>1 DEF GoneAt
    <3>1. u \in born
      BY DEF PlacedAt, At, Has
    <3>. QED
      BY <3>1 DEF GoneAt, Enqueues
  <2>3. \A u \in born : NowhereAt(n, u) => NowhereAt(n, u)'
    BY <1>1 DEF Enqueues, NowhereAt
  <2>. QED
    BY <2>1, <2>2, <2>3
<1>2. ASSUME NEW m \in Note, pending'[n] = Append(pending[n], m),
             m.old = store[n], m.new = store'[n],
             m.new = server'[n] \/ m.new = m.old
      PROVE  /\ PlacedAt(n)' /\ ChainedAt(n)' /\ GoneAt(n)'
             /\ \A u \in born : NowhereAt(n, u) => NowhereAt(n, u)'
  <2> DEFINE q == pending[n]
             r == pending'[n]
  <2>1. /\ q \in Seq(Note) /\ Len(q) \in Nat /\ Len(r) = Len(q) + 1
        /\ r[Len(q) + 1] = m
        /\ \A i \in 1..Len(q) : r[i] = q[i]
        /\ q = << >> <=> Len(q) = 0
    BY <1>2 DEF TypeOK
  <2> HIDE DEF q, r
  <2> DEFINE AtNext(o) == o = None \/ (o.uid \in born' /\ NameOf[o.uid] = n)
  <2>2. AtNext(server'[n]) /\ AtNext(store'[n]) /\ AtNext(m.old) /\ AtNext(m.new)
    BY <1>2 DEF Enqueues, PlacedAt, At
  <2>3. PlacedAt(n)'
    <3>1. ASSUME NEW i \in 1..Len(q)
          PROVE  AtNext(q[i].old) /\ AtNext(q[i].new)
      BY DEF Enqueues, PlacedAt, At, q
    <3>2. ASSUME NEW i \in 1..Len(r)
          PROVE  AtNext(r[i].old) /\ AtNext(r[i].new)
      BY <2>1, <2>2, <3>1
    <3>. QED
      BY <2>2, <3>2 DEF PlacedAt, At, r
  <2>4. ChainedAt(n)'
    <3>1. ASSUME NEW i \in 1..(Len(r) - 1)
          PROVE  r[i + 1].old = r[i].new
      <4>1. CASE i < Len(q)
        <5>1. i \in 1..Len(q) /\ i + 1 \in 1..Len(q) /\ i \in 1..(Len(q) - 1)
          BY <4>1, <2>1
        <5>. QED
          BY <5>1, <2>1 DEF ChainedAt, q
      <4>2. CASE i = Len(q)
        <5>1. r[i] = q[Len(q)] /\ r[i + 1] = m
          BY <4>2, <2>1
        <5>. QED
          BY <4>2, <5>1, <1>2, <2>1 DEF ChainedAt, q
      <4>. QED
        BY <4>1, <4>2, <2>1
    <3>2. r[Len(r)].new = store'[n]
      BY <1>2, <2>1
    <3>. QED
      BY <3>1, <3>2 DEF ChainedAt, r
  <2>5. ASSUME NEW u \in born, ~Has(store[n], u), ~Has(server[n], u)
        PROVE  ~Has(m.new, u) /\ ~Has(m.old, u) /\ ~Has(server'[n], u)
    BY <1>2, <2>5 DEF Enqueues
  <2>6. GoneAt(n)'
    <3> SUFFICES ASSUME NEW i \in 1..Len(r), NEW u \in Uid,
                        Has(r[i].old, u), ~Has(r[i].new, u)
                 PROVE  /\ ~Has(server'[n], u)
                        /\ \A j \in i..Len(r) : ~Has(r[j].new, u)
      BY DEF GoneAt, r
    <3>1. CASE i = Len(q) + 1
      <4>1. r[i] = m /\ m.new = server'[n]
        BY <1>2, <2>1, <3>1
      <4>. QED
        BY <2>1, <3>1, <4>1
    <3>2. CASE i \in 1..Len(q)
      <4>1. /\ ~Has(server[n], u)
            /\ \A j \in i..Len(q) : ~Has(q[j].new, u)
        BY <2>1, <3>2 DEF GoneAt, q
      <4>2. u \in born
        BY <2>1, <3>2 DEF PlacedAt, At, Has, q
      <4>3. ~Has(store[n], u)
        <5>1. q # << >> /\ Len(q) \in i..Len(q)
          BY <2>1, <3>2
        <5>. QED
          BY <4>1, <5>1 DEF ChainedAt, q
      <4>4. ~Has(m.new, u) /\ ~Has(server'[n], u)
        BY <2>5, <4>1, <4>2, <4>3
      <4>5. ASSUME NEW j \in i..Len(r) PROVE ~Has(r[j].new, u)
        <5>1. CASE j = Len(q) + 1
          BY <2>1, <4>4, <5>1
        <5>2. CASE j \in i..Len(q)
          BY <2>1, <3>2, <4>1, <5>2
        <5>. QED
          BY <2>1, <3>2, <5>1, <5>2
      <4>. QED
        BY <4>4, <4>5
    <3>. QED
      BY <2>1, <3>1, <3>2
  <2>7. ASSUME NEW u \in born, NowhereAt(n, u) PROVE NowhereAt(n, u)'
    <3>1. ~Has(m.new, u) /\ ~Has(m.old, u) /\ ~Has(server'[n], u)
      BY <2>5, <2>7 DEF NowhereAt
    <3>2. ASSUME NEW i \in 1..Len(r)
          PROVE  ~Has(r[i].old, u) /\ ~Has(r[i].new, u)
      BY <2>1, <2>7, <3>1 DEF NowhereAt, q
    <3>. QED
      BY <1>2, <3>1, <3>2 DEF NowhereAt, r
  <2>. QED
    BY <2>3, <2>4, <2>6, <2>7
<1>. QED
  BY <1>1, <1>2 DEF Enqueues

\* Each step of the server or the informer is of that form at every name.
LEMMA ChangeEnqueues ==
  ASSUME TInv, NEW k \in Name, NEW o \in ObjectOrNone, Change(k, o),
         server[k] # None \/ o # None,
         born \subseteq born', At(o, k)',
         \A u \in born : Has(o, u) => Has(server[k], u),
         \A n \in Name : PlacedAt(n)
  PROVE  \A n \in Name : Enqueues(n)
<1> SUFFICES ASSUME NEW n \in Name PROVE Enqueues(n)
  OBVIOUS
<1>1. At(server[n], n)' /\ \A u \in born : Has(server'[n], u) => Has(server[n], u)
  BY DEF Change, PlacedAt, At, TInv, TypeOK
<1>2. CASE n = k /\ watching
  <2> DEFINE m == [old |-> store[n], new |-> o, relisted |-> FALSE]
  <2>1. m \in Note
    BY <1>2 DEF TInv, TypeOK, WatchedStore, Note
  <2>2. /\ pending'[n] = Append(pending[n], m)
        /\ m.old = store[n] /\ m.new = store'[n] /\ m.new = server'[n]
    BY <1>2 DEF Change, TInv, TypeOK
  <2>. QED
    BY <1>1, <2>1, <2>2 DEF Enqueues
<1>3. CASE ~(n = k /\ watching)
  <2>1. pending'[n] = pending[n] /\ store'[n] = store[n]
    BY <1>3 DEF Change, TInv, TypeOK
  <2>. QED
    BY <1>1, <2>1 DEF Enqueues
<1>. QED
  BY <1>2, <1>3

LEMMA NotifyAllEnqueues ==
  ASSUME TypeOK, NEW list \in [Name -> ObjectOrNone], NEW r \in BOOLEAN,
         NotifyAll(list, r), list = server \/ list = store,
         UNCHANGED <<server, born>>,
         \A n \in Name : PlacedAt(n)
  PROVE  \A n \in Name : Enqueues(n)
<1> SUFFICES ASSUME NEW n \in Name PROVE Enqueues(n)
  OBVIOUS
<1>1. At(server[n], n)' /\ \A u \in born : Has(server'[n], u) => Has(server[n], u)
  BY DEF PlacedAt, At
<1>2. CASE store[n] = None /\ list[n] = None
  BY <1>1, <1>2 DEF NotifyAll, Enqueues
<1>3. CASE ~(store[n] = None /\ list[n] = None)
  <2> DEFINE m == [old |-> store[n], new |-> list[n], relisted |-> r]
  <2>1. m \in Note
    BY <1>3 DEF TypeOK, Note
  <2>2. /\ pending'[n] = Append(pending[n], m)
        /\ m.old = store[n] /\ m.new = store'[n]
        /\ m.new = server'[n] \/ m.new = m.old
    BY <1>3 DEF NotifyAll
  <2>. QED
    BY <1>1, <2>1, <2>2 DEF Enqueues
<1>. QED
  BY <1>2, <1>3

\* Taking the first notification away keeps what the others say.
LEMMA TailStep ==
  ASSUME TypeOK, NEW n \in Name, pending[n] # << >>,
         PlacedAt(n), ChainedAt(n), GoneAt(n),
         pending'[n] = Tail(pending[n]), UNCHANGED <<server, born, store>>
  PROVE  /\ PlacedAt(n)' /\ ChainedAt(n)' /\ GoneAt(n)'
         /\ \A u \in Uid : NowhereAt(n, u) => NowhereAt(n, u)'
<1> DEFINE q == pending[n]
           r == pending'[n]
<1>0. /\ q \in Seq(Note) /\ Len(q) \in Nat \ {0} /\ Len(r) = Len(q) - 1
      /\ \A i \in 1..Len(r) : r[i] = q[i + 1]
      /\ r \in Seq(Note)
  BY DEF TypeOK
<1> HIDE DEF q, r
<1>1. /\ Len(q) \in Nat \ {0} /\ Len(r) = Len(q) - 1
      /\ \A i \in 1..Len(r) : r[i] = q[i + 1] /\ i + 1 \in 1..Len(q)
      /\ r = << >> <=> Len(r) = 0
  BY <1>0
<1>2. PlacedAt(n)'
  <2>1. \A i \in 1..Len(r) : At(r[i].old, n) /\ At(r[i].new, n)
    BY <1>1 DEF PlacedAt, q
  <2>. QED
    BY <2>1 DEF PlacedAt, At, r
<1>3. ChainedAt(n)'
  <2>1. ASSUME NEW i \in 1..(Len(r) - 1)
        PROVE  r[i + 1].old = r[i].new
    <3>1. i + 1 \in 1..(Len(q) - 1) /\ i \in 1..Len(r) /\ i + 1 \in 1..Len(r)
      BY <1>1
    <3>2. q[(i + 1) + 1].old = q[i + 1].new
      BY <3>1 DEF ChainedAt, q
    <3>. QED
      BY <1>1, <3>1, <3>2
  <2>2. r # << >> => r[Len(r)].new = store'[n]
    BY <1>1 DEF ChainedAt, q
  <2>. QED
    BY <2>1, <2>2 DEF ChainedAt, r
<1>4. GoneAt(n)'
  <2> SUFFICES ASSUME NEW i \in 1..Len(r), NEW u \in Uid,
                      Has(r[i].old, u), ~Has(r[i].new, u)
               PROVE  /\ ~Has(server[n], u)
                      /\ \A j \in i..Len(r) : ~Has(r[j].new, u)
    BY DEF GoneAt, r
  <2>1. /\ ~Has(server[n], u)
        /\ \A j \in (i + 1)..Len(q) : ~Has(q[j].new, u)
    BY <1>1 DEF GoneAt, q
  <2>2. ASSUME NEW j \in i..Len(r) PROVE ~Has(r[j].new, u)
    <3>1. j \in 1..Len(r) /\ j + 1 \in (i + 1)..Len(q)
      BY <1>1
    <3>. QED
      BY <1>1, <2>1, <3>1
  <2>. QED
    BY <2>1, <2>2
<1>5. ASSUME NEW u \in Uid, NowhereAt(n, u) PROVE NowhereAt(n, u)'
  <2>1. \A i \in 1..Len(r) : ~Has(r[i].old, u) /\ ~Has(r[i].new, u)
    BY <1>1, <1>5 DEF NowhereAt, q
  <2>. QED
    BY <1>5, <2>1 DEF NowhereAt, r
<1>. QED
  BY <1>2, <1>3, <1>4, <1>5

\* Handling the first notification marks at most the uid it takes away, which
\* the remaining notifications, the store and the server no longer hold.
LEMMA FirstGone ==
  ASSUME TypeOK, NEW n \in Name, pending[n] # << >>,
         ChainedAt(n), GoneAt(n), NEW u \in Uid,
         Has(pending[n][1].old, u), ~Has(pending[n][1].new, u),
         pending'[n] = Tail(pending[n]), UNCHANGED <<server, store>>
  PROVE  NowhereAt(n, u)'
<1> DEFINE q == pending[n]
           r == pending'[n]
<1>1. /\ q \in Seq(Note) /\ Len(q) \in Nat \ {0} /\ Len(r) = Len(q) - 1
      /\ \A i \in 1..Len(r) : r[i] = q[i + 1]
  BY DEF TypeOK
<1> HIDE DEF q, r
<1>2. ~Has(server[n], u) /\ \A j \in 1..Len(q) : ~Has(q[j].new, u)
  BY <1>1 DEF GoneAt, q
<1>3. ~Has(store[n], u)
  BY <1>1, <1>2 DEF ChainedAt, q
<1>4. ASSUME NEW i \in 1..Len(r)
      PROVE  ~Has(r[i].old, u) /\ ~Has(r[i].new, u)
  <2>1. i \in 1..(Len(q) - 1) /\ i + 1 \in 1..Len(q) /\ i \in 1..Len(q)
    BY <1>1
  <2>2. q[i + 1].old = q[i].new
    BY <2>1 DEF ChainedAt, q
  <2>. QED
    BY <1>1, <1>2, <2>1, <2>2
<1>. QED
  BY <1>2, <1>3, <1>4 DEF NowhereAt, r

\* The steps that leave the cache alone.
LEMMA InformerStep ==
  ASSUME IInv, TInv', UNCHANGED cache, \A n \in Name : Enqueues(n)
  PROVE  IInv'
<1>1. ASSUME NEW n \in Name
      PROVE  PlacedAt(n)' /\ ChainedAt(n)' /\ GoneAt(n)'
  BY EnqueueStep DEF IInv, TInv
<1>2. ASSUME NEW u \in Uid, Marked(u)' PROVE u \in born' /\ NowhereAt(NameOf[u], u)'
  <2>1. Marked(u) /\ u \in born /\ NowhereAt(NameOf[u], u) /\ NameOf[u] \in Name
    BY <1>2 DEF Marked, IInv, Buried
  <2>2. NowhereAt(NameOf[u], u)'
    BY <2>1, EnqueueStep DEF IInv, TInv
  <2>3. u \in born'
    BY <2>1 DEF Enqueues
  <2>. QED
    BY <2>2, <2>3
<1>. QED
  BY <1>1, <1>2 DEF IInv, Buried

\* updateCacheGatheredResource never carries DeletedAt over.
LEMMA CarriesNothing ==
  ASSUME NEW key, NEW o
  PROVE  UpdatedResource(key, o) = NewEntry(o, FALSE)
<1>1. CarriedDeletion(key) = FALSE
  BY Zenon DEF CarriedDeletion
<1>. QED
  BY <1>1 DEF UpdatedResource

\* What one notification does to the cache: the object it takes away is marked
\* deleted, or the object it brings is set live, under one key that has been
\* or is known at this name; or the cache stays as it is.
LEMMA DispatchEffect ==
  ASSUME TypeOK, NEW note \in Note, Dispatch(note)
  PROVE  \/ /\ note.new \in Object
            /\ \E key \in Uid :
                 /\ Has(note.old, key) \/ Has(note.new, key)
                 /\ cache' = [cache EXCEPT ![key] = NewEntry(note.new, FALSE)]
            /\ UNCHANGED deletions
         \/ /\ note.old \in Object /\ note.new = None
            /\ cache' = [cache EXCEPT ![note.old.uid] = NewEntry(note.old, TRUE)]
            /\ deletions' = deletions \cup {note.old.uid}
         \/ note.new = None /\ UNCHANGED <<cache, deletions>>
<1>1. CASE note.old = None /\ OnAdd(note.new)
  <2>1. note.new \in Object /\ note.new.uid \in Uid
    BY <1>1 DEF Note, ObjectOrNone, Object
  <2>2. Has(note.new, note.new.uid)
    BY <2>1 DEF Has
  <2>. QED
    BY <1>1, <2>1, <2>2 DEF OnAdd
<1>2. CASE note.old # None /\ note.new # None /\ OnUpdate(note.old, note.new)
  <2>1. note.new \in Object /\ note.old.uid \in Uid /\ Has(note.old, note.old.uid)
    BY <1>2 DEF Note, ObjectOrNone, Object, Has
  <2>2. UpdatedResource(note.old.uid, note.new) = NewEntry(note.new, FALSE)
    BY CarriesNothing
  <2>. QED
    BY <1>2, <2>1, <2>2 DEF OnUpdate
<1>3. CASE /\ note.old # None /\ note.new = None
           /\ IF note.relisted THEN OnTombstone ELSE OnDelete(note.old)
  <2>1. note.old \in Object
    BY <1>3 DEF Note, ObjectOrNone
  <2>. QED
    BY <1>3, <2>1 DEF OnTombstone, OnDelete
<1>. QED
  BY <1>1, <1>2, <1>3 DEF Dispatch

\* A key the first notification speaks of belongs to its name, and its item is
\* not marked.
LEMMA KeyUnmarked ==
  ASSUME IInv, NEW n \in Name, pending[n] # << >>, NEW u \in Uid,
         Has(pending[n][1].old, u) \/ Has(pending[n][1].new, u)
  PROVE  NameOf[u] = n /\ u \in born /\ ~Marked(u)
<1>1. 1 \in 1..Len(pending[n])
  BY DEF IInv, TInv, TypeOK
<1>2. NameOf[u] = n /\ u \in born
  BY <1>1 DEF IInv, PlacedAt, At, Has
<1>. QED
  BY <1>1, <1>2 DEF IInv, Buried, NowhereAt

\* The parts of Handle the following lemmas use.
LEMMA HandleParts ==
  ASSUME IInv, NEW n \in Name, Handle(n)
  PROVE  /\ pending[n] # << >> /\ pending[n][1] \in Note
         /\ Dispatch(pending[n][1])
         /\ pending'[n] = Tail(pending[n])
         /\ \A m \in Name \ {n} : pending'[m] = pending[m]
         /\ UNCHANGED <<server, born, watching, outages, store, sinceResync,
                        sinceFetch, reported>>
  BY DEF Handle, IInv, TInv, TypeOK

\* What is left of the notifications keeps what is said of them, at every name.
LEMMA HandleLeaves ==
  ASSUME IInv, NEW n \in Name, Handle(n), NEW m \in Name
  PROVE  /\ PlacedAt(m)' /\ ChainedAt(m)' /\ GoneAt(m)'
         /\ \A u \in Uid : NowhereAt(m, u) => NowhereAt(m, u)'
<1>1. /\ pending[n] # << >> /\ pending'[n] = Tail(pending[n])
      /\ \A k \in Name \ {n} : pending'[k] = pending[k]
      /\ UNCHANGED <<server, born, store>>
  BY HandleParts
<1>2. CASE m = n
  BY <1>1, <1>2, TailStep DEF IInv, TInv
<1>3. CASE m # n
  <2>1. UNCHANGED <<pending[m], server[m], store[m], born>>
    BY <1>1, <1>3
  <2>. QED
    BY <2>1 DEF IInv, PlacedAt, At, ChainedAt, GoneAt, NowhereAt
<1>. QED
  BY <1>2, <1>3

LEMMA HandleStep ==
  ASSUME IInv, TInv', NEW n \in Name, Handle(n)
  PROVE  IInv'
<1> DEFINE note == pending[n][1]
<1>1. /\ pending[n] # << >> /\ note \in Note /\ Dispatch(note)
      /\ pending'[n] = Tail(pending[n])
      /\ UNCHANGED <<server, born, store>>
  BY HandleParts
<1>2. ASSUME NEW m \in Name
      PROVE  /\ PlacedAt(m)' /\ ChainedAt(m)' /\ GoneAt(m)'
             /\ \A u \in Uid : NowhereAt(m, u) => NowhereAt(m, u)'
  BY HandleLeaves
<1>3. ASSUME NEW u \in Uid, Marked(u)' PROVE u \in born' /\ NowhereAt(NameOf[u], u)'
  <2>1. CASE Marked(u)
    BY <1>1, <1>2, <2>1 DEF IInv, Buried
  <2>2. CASE ~Marked(u)
    <3>1. cache'[u] # cache[u]
      BY <1>3, <2>2 DEF Marked
    <3>2. /\ note.old \in Object /\ note.new = None /\ u = note.old.uid
      <4>1. ASSUME NEW key \in Uid,
                   cache' = [cache EXCEPT ![key] = NewEntry(note.new, FALSE)]
            PROVE  FALSE
        BY <1>3, <3>1, <4>1 DEF Marked, NewEntry, IInv, TInv, TypeOK
      <4>. QED
        BY <1>1, <3>1, <4>1, DispatchEffect DEF IInv, TInv, TypeOK
    <3>3. Has(note.old, u) /\ ~Has(note.new, u)
      BY <3>2 DEF Has
    <3>4. NameOf[u] = n /\ u \in born
      BY <1>1, <3>3, KeyUnmarked
    <3>5. NowhereAt(n, u)'
      BY <1>1, <3>3, FirstGone DEF IInv, TInv
    <3>. QED
      BY <1>1, <3>4, <3>5
  <2>. QED
    BY <2>1, <2>2
<1>. QED
  BY <1>2, <1>3 DEF IInv, Buried

\* The steps that only age or drop items.
LEMMA AgeStep ==
  ASSUME IInv, TInv', UNCHANGED <<server, born, store, pending>>,
         \A u \in Uid : Marked(u)' => Marked(u)
  PROVE  IInv'
<1>1. ASSUME NEW n \in Name
      PROVE  PlacedAt(n)' /\ ChainedAt(n)' /\ GoneAt(n)'
  BY DEF IInv, PlacedAt, At, ChainedAt, GoneAt
<1>2. ASSUME NEW u \in Uid PROVE Buried(u)'
  BY DEF IInv, Buried, NowhereAt
<1>. QED
  BY <1>1, <1>2 DEF IInv

LEMMA InitIInv == Init => IInv
  BY InitType DEF Init, IInv, PlacedAt, At, ChainedAt, GoneAt, Buried, Marked

\* The steps of the server and the informer, but for the loss of the watch.
InformerNext ==
    \/ \E u \in Uid : Create(u)
    \/ \E n \in Name : Modify(n) \/ Remove(n)
    \/ Relist
    \/ Resync

LEMMA InformerEnqueues ==
  ASSUME IInv, InformerNext
  PROVE  /\ \A n \in Name : Enqueues(n)
         /\ UNCHANGED <<cache, sinceFetch, deletions, reported>>
         /\ \A n \in Name : \/ sinceResync' = sinceResync
                             \/ pending'[n] # << >>
                             \/ store[n] = None
<1> DEFINE Goal ==
      /\ \A n \in Name : Enqueues(n)
      /\ UNCHANGED <<cache, sinceFetch, deletions, reported>>
      /\ \A n \in Name : \/ sinceResync' = sinceResync
                          \/ pending'[n] # << >>
                          \/ store[n] = None
<1>0. TInv /\ TypeOK
  BY DEF IInv, TInv
<1>1. ASSUME NEW u \in Uid, Create(u) PROVE Goal
  <2> DEFINE o == [uid |-> u, ver |-> 0]
  <2>1. /\ NameOf[u] \in Name /\ o \in ObjectOrNone /\ o # None
        /\ Change(NameOf[u], o) /\ UNCHANGED cache
    BY <1>1 DEF Create, Change, Object, ObjectOrNone
  <2>2. /\ born \subseteq born' /\ At(o, NameOf[u])'
        /\ \A v \in born : Has(o, v) => Has(server[NameOf[u]], v)
    BY <1>1 DEF Create, At, Has
  <2>. QED
    BY <1>0, <2>1, <2>2, ChangeEnqueues DEF IInv, Change
<1>2. ASSUME NEW n \in Name, Modify(n) PROVE Goal
  <2>0. PICK o \in Object :
               o = [uid |-> server[n].uid, ver |-> server[n].ver + 1]
    <3>1. server[n] \in Object /\ server[n].ver < MaxVersion
      BY <1>0, <1>2 DEF Modify, TypeOK, ObjectOrNone
    <3>2. [uid |-> server[n].uid, ver |-> server[n].ver + 1] \in Object
      BY <3>1 DEF Object
    <3>. QED
      BY <3>2
  <2>1. /\ o \in ObjectOrNone /\ o.uid = server[n].uid /\ server[n] # None
        /\ Change(n, o) /\ UNCHANGED <<cache, born>>
    BY <1>2, <2>0 DEF Modify, Change, ObjectOrNone
  <2>2. /\ At(o, n)' /\ \A v \in born : Has(o, v) => Has(server[n], v)
    BY <1>0, <2>1 DEF IInv, PlacedAt, At, Has, TypeOK
  <2>. QED
    BY <1>0, <2>1, <2>2, ChangeEnqueues DEF IInv, Change
<1>3. ASSUME NEW n \in Name, Remove(n) PROVE Goal
  <2>1. /\ None \in ObjectOrNone /\ server[n] # None
        /\ Change(n, None) /\ UNCHANGED <<cache, born>>
    BY <1>3 DEF Remove, Change, ObjectOrNone
  <2>2. At(None, n)' /\ \A v \in born : Has(None, v) => Has(server[n], v)
    BY DEF At, Has
  <2>. QED
    BY <1>0, <2>1, <2>2, ChangeEnqueues DEF IInv, Change
<1>4. ASSUME NEW list \in [Name -> ObjectOrNone], NEW r \in BOOLEAN,
             NotifyAll(list, r)
      PROVE  \A n \in Name : pending'[n] # << >> \/ store[n] = None
  <2> SUFFICES ASSUME NEW n \in Name, store[n] # None PROVE pending'[n] # << >>
    OBVIOUS
  <2>1. [old |-> store[n], new |-> list[n], relisted |-> r] \in Note
    BY <1>0 DEF TypeOK, Note
  <2>2. \A m \in Note : Append(pending[n], m) # << >>
    <3>1. pending[n] \in Seq(Note)
      BY <1>0 DEF TypeOK
    <3>. QED
      BY <3>1, AppendedNotEmpty
  <2>3. pending'[n] = Append(pending[n], [old |-> store[n], new |-> list[n],
                                          relisted |-> r])
    BY <1>4 DEF NotifyAll
  <2>. QED
    BY <2>1, <2>2, <2>3
<1>5. CASE Relist
  <2>1. /\ server \in [Name -> ObjectOrNone] /\ NotifyAll(server, TRUE)
        /\ UNCHANGED <<server, born, cache, sinceFetch, deletions, reported>>
    BY <1>0, <1>5 DEF Relist, TypeOK
  <2>. QED
    BY <1>0, <1>4, <2>1, NotifyAllEnqueues DEF IInv
<1>6. CASE Resync
  <2>1. /\ store \in [Name -> ObjectOrNone] /\ NotifyAll(store, FALSE)
        /\ UNCHANGED <<server, born, cache, sinceFetch, deletions, reported>>
    BY <1>0, <1>6 DEF Resync, TypeOK
  <2>. QED
    BY <1>0, <1>4, <2>1, NotifyAllEnqueues DEF IInv
<1>. QED
  BY <1>1, <1>2, <1>3, <1>5, <1>6 DEF InformerNext

LEMMA StepIInv == IInv /\ [Next]_vars => IInv'
<1> SUFFICES ASSUME IInv, [Next]_vars PROVE IInv'
  OBVIOUS
<1>0. TInv /\ TInv' /\ TypeOK
  BY StepType DEF IInv, TInv
<1>1. CASE InformerNext
  BY <1>0, <1>1, InformerEnqueues, InformerStep
<1>2. ASSUME NEW n \in Name, Handle(n) PROVE IInv'
  BY <1>0, <1>2, HandleStep
<1>3. CASE LoseWatch
  BY <1>0, <1>3, AgeStep DEF LoseWatch, Marked
<1>4. CASE Fetch
  BY <1>0, <1>4, AgeStep DEF Fetch, informerVars, Marked, WithoutExpired
<1>5. CASE Janitor
  BY <1>0, <1>5, AgeStep DEF Janitor, informerVars, Marked, WithoutExpired
<1>6. CASE Tick
  <2>1. ASSUME NEW u \in Uid, Marked(u)' PROVE Marked(u)
    BY <1>0, <1>6, <2>1 DEF Tick, Marked, Older, TypeOK, Entry
  <2>. QED
    BY <1>0, <1>6, <2>1, AgeStep DEF Tick
<1>7. CASE UNCHANGED vars
  BY <1>0, <1>7, AgeStep DEF vars, Marked
<1>. QED
  BY <1>1, <1>2, <1>3, <1>4, <1>5, <1>6, <1>7 DEF Next, SteadyNext, InformerNext

LEMMA Inductive == Spec => []IInv
  BY InitIInv, StepIInv, PTL DEF Spec

-----------------------------------------------------------------------------
(* Deletion marks. *)

\* No step turns an item that is marked deleted back into a live one, although
\* the handlers never look at the mark: a notification that would do so would
\* speak of a uid that is nowhere any more.
LEMMA StepKeepsMark == IInv /\ [Next]_vars => DeletionMarkKept
<1> SUFFICES ASSUME IInv, [Next]_vars, NEW u \in Uid,
                    Marked(u), cache'[u] # None
             PROVE  cache'[u].deleted
  BY DEF DeletionMarkKept, Marked
<1>0. TypeOK
  BY DEF IInv, TInv
<1>1. ASSUME NEW n \in Name, Handle(n) PROVE cache'[u].deleted
  <2> DEFINE note == pending[n][1]
  <2>1. pending[n] # << >> /\ note \in Note /\ Dispatch(note)
    BY <1>1, HandleParts
  <2>2. CASE \E key \in Uid :
               /\ Has(note.old, key) \/ Has(note.new, key)
               /\ cache' = [cache EXCEPT ![key] = NewEntry(note.new, FALSE)]
    <3>1. PICK key \in Uid :
               /\ Has(note.old, key) \/ Has(note.new, key)
               /\ cache' = [cache EXCEPT ![key] = NewEntry(note.new, FALSE)]
      BY <2>2
    <3>2. key # u
      BY <2>1, <3>1, KeyUnmarked
    <3>. QED
      BY <1>0, <3>1, <3>2 DEF TypeOK, Marked
  <2>3. CASE /\ note.old \in Object
             /\ cache' = [cache EXCEPT ![note.old.uid] = NewEntry(note.old, TRUE)]
    BY <1>0, <2>3 DEF TypeOK, Marked, NewEntry
  <2>4. CASE UNCHANGED cache
    BY <2>4 DEF Marked
  <2>. QED
    BY <1>0, <2>1, <2>2, <2>3, <2>4, DispatchEffect
<1>2. CASE Fetch \/ Janitor
  BY <1>2 DEF Fetch, Janitor, WithoutExpired, Marked
<1>3. CASE Tick
  BY <1>0, <1>3 DEF Tick, Older, Marked, TypeOK, Entry
<1>4. CASE UNCHANGED cache
  BY <1>4 DEF Marked
<1>. QED
  BY <1>1, <1>2, <1>3, <1>4
     DEF Next, SteadyNext, Create, Modify, Remove, Change, LoseWatch, Relist, Resync, vars

\* A deletion, once handled, is final: for any number of names, incarnations
\* and outages, the mark stays until the item leaves the cache.
THEOREM DeletionFinal == Spec => DeletionMarkPermanent
<1>1. IInv /\ [Next]_vars => [DeletionMarkKept]_vars
  BY StepKeepsMark
<1>. QED
  BY <1>1, Inductive, PTL DEF Spec, DeletionMarkPermanent

-----------------------------------------------------------------------------
(* Live objects stay cached. *)

\* LiveObjectsCached with what makes it inductive: the item lies under a uid of
\* the object's own name and, once the notifications are handled, was set no
\* longer ago than the last resync.
LiveAt(n, u) ==
    /\ NameOf[u] = n
    /\ cache[u] # None /\ cache[u].obj = Handled(n) /\ ~cache[u].deleted
    /\ cache[u].age <= Expiry
    /\ pending[n] = << >> => cache[u].age <= sinceResync

CachedAt(n) == Handled(n) # None => \E u \in Uid : LiveAt(n, u)

LEMMA HandledNext ==
  ASSUME IInv, NEW n \in Name, Handle(n)
  PROVE  Handled(n)' = pending[n][1].new
<1> DEFINE q == pending[n]
           r == pending'[n]
<1>1. q # << >> /\ r = Tail(q) /\ store'[n] = store[n] /\ q \in Seq(Note)
  BY HandleParts DEF IInv, TInv, TypeOK
<1>2. /\ Len(q) \in Nat \ {0}
      /\ r = << >> => Len(q) = 1
      /\ r # << >> => r[1] = q[2] /\ 1 \in 1..(Len(q) - 1)
  <2> HIDE DEF q, r
  <2>1. /\ Len(q) \in Nat \ {0} /\ r \in Seq(Note) /\ Len(r) = Len(q) - 1
        /\ \A i \in 1..Len(r) : r[i] = q[i + 1]
    BY <1>1
  <2>2. r = << >> <=> Len(r) = 0
    BY <2>1
  <2>. QED
    BY <2>1, <2>2
<1>3. CASE r = << >>
  BY <1>1, <1>2, <1>3 DEF Handled, IInv, ChainedAt
<1>4. CASE r # << >>
  BY <1>1, <1>2, <1>4 DEF Handled, IInv, ChainedAt
<1>. QED
  BY <1>3, <1>4

\* A new notification does not change what is handled.
LEMMA EnqueueKeepsHandled ==
  ASSUME IInv, NEW n \in Name, Enqueues(n)
  PROVE  Handled(n)' = Handled(n)
<1>1. CASE pending'[n] = pending[n] /\ store'[n] = store[n]
  BY <1>1 DEF Handled
<1>2. ASSUME NEW m \in Note, pending'[n] = Append(pending[n], m),
             m.old = store[n]
      PROVE  Handled(n)' = Handled(n)
  <2> DEFINE q == pending[n]
  <2>1. q \in Seq(Note)
    BY DEF IInv, TInv, TypeOK
  <2>2. Append(q, m) # << >> /\ Append(q, m)[1] = IF q = << >> THEN m ELSE q[1]
    <3> HIDE DEF q
    <3>1. /\ Len(q) \in Nat /\ Len(Append(q, m)) = Len(q) + 1
          /\ Append(q, m)[Len(q) + 1] = m
          /\ \A i \in 1..Len(q) : Append(q, m)[i] = q[i]
      BY <2>1
    <3>2. q = << >> <=> Len(q) = 0
      BY <2>1
    <3>3. Append(q, m) # << >>
      BY <2>1
    <3>. QED
      BY <3>1, <3>2, <3>3
  <2>. QED
    BY <1>2, <2>2 DEF Handled
<1>. QED
  BY <1>1, <1>2 DEF Enqueues

\* Nor which notification comes first.
LEMMA HeadKept ==
  ASSUME IInv, NEW n \in Name, Enqueues(n), pending[n] # << >>
  PROVE  pending'[n] # << >> /\ pending'[n][1] = pending[n][1]
<1>1. pending[n] \in Seq(Note)
  BY DEF IInv, TInv, TypeOK
<1>2. ASSUME NEW m \in Note
      PROVE  Append(pending[n], m) # << >> /\ Append(pending[n], m)[1] = pending[n][1]
  <2>1. /\ Len(pending[n]) \in Nat /\ Len(pending[n]) # 0
        /\ \A i \in 1..Len(pending[n]) : Append(pending[n], m)[i] = pending[n][i]
    BY <1>1
  <2>. QED
    BY <1>1, <2>1, AppendedNotEmpty
<1>. QED
  BY <1>2 DEF Enqueues

\* Nor whether an object may be missing: the relist that ends an outage is then
\* the first to be handled.
LEMMA InformerKeepsLapse ==
  ASSUME IInv, InformerNext, NEW n \in Name, Lapsed(n), store[n] # None
  PROVE  Lapsed(n)'
<1>0. TypeOK /\ ResyncsInTime
  BY DEF IInv, TInv
<1>1. CASE pending[n] # << >> /\ pending[n][1].relisted
  BY <1>1, HeadKept, InformerEnqueues DEF Lapsed
<1>2. CASE sinceResync > Expiry
  <2>1. ~watching /\ pending[n] = << >>
    BY <1>0, <1>2 DEF ResyncsInTime, TypeOK
  <2>2. CASE sinceResync' = sinceResync
    BY <1>2, <2>2 DEF Lapsed
  <2>3. CASE Relist
    <3>1. [old |-> store[n], new |-> server[n], relisted |-> TRUE] \in Note
      BY <1>0 DEF TypeOK, Note
    <3>2. pending'[n] = Append(<< >>, [old |-> store[n], new |-> server[n],
                                      relisted |-> TRUE])
      BY <2>1, <2>3 DEF Relist, NotifyAll
    <3>. QED
      BY <3>1, <3>2 DEF Lapsed
  <2>. QED
    BY <2>1, <2>2, <2>3 DEF InformerNext, Create, Modify, Remove, Change, Resync
<1>. QED
  BY <1>1, <1>2 DEF Lapsed

\* It leaves the item no older than the last resync.
LEMMA EnqueueKeepsCached ==
  ASSUME IInv, NEW n \in Name, Enqueues(n), UNCHANGED cache,
         CachedAt(n), sinceResync' = sinceResync \/ pending'[n] # << >>
                                                \/ store[n] = None
  PROVE  CachedAt(n)'
<1>1. Handled(n)' = Handled(n)
  BY EnqueueKeepsHandled
<1>2. pending'[n] = << >> => pending[n] = << >> /\ store'[n] = store[n]
  <2>1. pending[n] \in Seq(Note)
    BY DEF IInv, TInv, TypeOK
  <2>2. \A m \in Note : Append(pending[n], m) # << >>
    BY <2>1, AppendedNotEmpty
  <2>. QED
    BY <2>2 DEF Enqueues
<1>3. CASE Handled(n) # None
  <2>1. PICK u \in Uid : LiveAt(n, u)
    BY <1>3 DEF CachedAt
  <2>2. pending'[n] = << >> => sinceResync' = sinceResync
    BY <1>2, <1>3 DEF Handled
  <2>3. LiveAt(n, u)'
    BY <1>1, <1>2, <2>1, <2>2 DEF LiveAt
  <2>. QED
    BY <2>3 DEF CachedAt
<1>. QED
  BY <1>1, <1>3 DEF CachedAt

\* What a notification brings is cached from then on.
LEMMA HandleCaches ==
  ASSUME IInv, NEW n \in Name, Handle(n)
  PROVE  CachedAt(n)'
<1> DEFINE note == pending[n][1]
<1>1. /\ pending[n] # << >> /\ note \in Note /\ Dispatch(note)
      /\ UNCHANGED <<store, sinceResync>> /\ TypeOK
  BY HandleParts DEF IInv, TInv
<1>2. Handled(n)' = note.new
  BY HandledNext
<1>3. CASE note.new # None
  <2>1. PICK key \in Uid :
             /\ Has(note.old, key) \/ Has(note.new, key)
             /\ cache' = [cache EXCEPT ![key] = NewEntry(note.new, FALSE)]
    BY <1>1, <1>3, DispatchEffect
  <2>2. NameOf[key] = n
    BY <1>1, <2>1, KeyUnmarked
  <2>3. cache'[key] = NewEntry(note.new, FALSE) /\ NewEntry(note.new, FALSE) \in Entry
    BY <1>1, <1>3, <2>1, NewEntryType DEF TypeOK, Note, ObjectOrNone
  <2>4. /\ cache'[key] # None /\ cache'[key].obj = note.new
        /\ ~cache'[key].deleted /\ cache'[key].age = 0
    <3>1. cache'[key] # None
      BY <2>3
    <3>. QED
      BY <2>3, <3>1 DEF NewEntry
  <2>5. cache'[key].age <= Expiry /\ cache'[key].age <= sinceResync'
    BY <1>1, <2>4 DEF TypeOK
  <2>6. LiveAt(n, key)'
    BY <1>2, <2>2, <2>4, <2>5 DEF LiveAt
  <2>. QED
    BY <2>6 DEF CachedAt
<1>. QED
  BY <1>2, <1>3 DEF CachedAt

LEMMA HandleKeepsCached ==
  ASSUME IInv, NEW m \in Name, Handle(m), NEW n \in Name, CachedAt(n)
  PROVE  CachedAt(n)'
<1> DEFINE note == pending[m][1]
<1>1. /\ pending[m] # << >> /\ note \in Note /\ Dispatch(note)
      /\ \A k \in Name \ {m} : pending'[k] = pending[k]
      /\ UNCHANGED <<store, sinceResync>> /\ TypeOK
  BY HandleParts DEF IInv, TInv
<1>2. CASE n = m
  BY <1>2, HandleCaches
<1>3. CASE n # m
  <2>1. Handled(n)' = Handled(n) /\ pending'[n] = pending[n]
    BY <1>1, <1>3 DEF Handled
  <2>2. ASSUME NEW u \in Uid, NameOf[u] = n PROVE cache'[u] = cache[u]
    <3>1. ASSUME NEW key \in Uid, Has(note.old, key) \/ Has(note.new, key)
          PROVE  key # u
      BY <1>1, <1>3, <2>2, <3>1, KeyUnmarked
    <3>2. note.old \in Object => note.old.uid \in Uid /\ Has(note.old, note.old.uid)
      BY DEF Object, Has
    <3>. QED
      BY <1>1, <3>1, <3>2, DispatchEffect DEF TypeOK
  <2>. QED
    BY <1>1, <2>1, <2>2 DEF CachedAt, LiveAt
<1>. QED
  BY <1>2, <1>3

LEMMA StepCached ==
  ASSUME IInv, [Next]_vars, Tick => sinceResync' <= Expiry,
         NEW n \in Name, CachedAt(n)
  PROVE  CachedAt(n)'
<1>0. TypeOK
  BY DEF IInv, TInv
<1>1. CASE InformerNext
  BY <1>1, InformerEnqueues, EnqueueKeepsCached
<1>2. ASSUME NEW m \in Name, Handle(m) PROVE CachedAt(n)'
  BY <1>2, HandleKeepsCached
<1>3. CASE LoseWatch \/ UNCHANGED vars
  BY <1>3 DEF LoseWatch, vars, CachedAt, LiveAt, Handled
<1>4. CASE Fetch \/ Janitor
  <2>1. UNCHANGED <<store, pending, sinceResync>> /\ cache' = WithoutExpired
    BY <1>4 DEF Fetch, Janitor, informerVars
  <2>2. ASSUME NEW u \in Uid, LiveAt(n, u) PROVE LiveAt(n, u)'
    BY <2>1, <2>2 DEF LiveAt, Handled, WithoutExpired, Visible
  <2>. QED
    BY <2>1, <2>2 DEF CachedAt, Handled
<1>5. CASE Tick
  <2>1. /\ UNCHANGED <<store, pending>> /\ pending[n] = << >>
        /\ sinceResync' = sinceResync + 1 /\ sinceResync' <= Expiry
        /\ cache' = [u \in Uid |-> Older(cache[u])]
    BY <1>0, <1>5 DEF Tick, TypeOK
  <2>2. ASSUME NEW u \in Uid, LiveAt(n, u) PROVE LiveAt(n, u)'
    <3>1. /\ cache[u] \in Entry /\ cache[u] # None /\ cache[u].age <= Expiry
          /\ cache[u].age <= sinceResync /\ cache[u].age \in Nat
      BY <1>0, <2>1, <2>2 DEF LiveAt, TypeOK, Entry
    <3>2. cache'[u] = [cache[u] EXCEPT !.age = @ + 1]
      BY <2>1, <3>1 DEF Older
    <3>3. /\ cache'[u].obj = cache[u].obj /\ cache'[u].deleted = cache[u].deleted
          /\ cache'[u].age = cache[u].age + 1 /\ cache'[u] # None
      BY <1>0, <3>1, <3>2, OlderType DEF Entry
    <3>4. cache'[u].age <= sinceResync' /\ cache'[u].age <= Expiry
      BY <1>0, <2>1, <3>1, <3>3 DEF TypeOK
    <3>. QED
      BY <2>1, <2>2, <3>3, <3>4 DEF LiveAt, Handled
  <2>. QED
    BY <2>1, <2>2 DEF CachedAt, Handled
<1>. QED
  BY <1>1, <1>2, <1>3, <1>4, <1>5 DEF Next, SteadyNext, InformerNext

\* An object is cached, or may be missing; if it is, the relist puts it back.
LEMMA StepLapses ==
  ASSUME IInv, [Next]_vars, NEW n \in Name, Lapsed(n) \/ CachedAt(n)
  PROVE  Lapsed(n)' \/ CachedAt(n)'
<1>0. /\ TypeOK /\ ResyncsInTime
      /\ pending[n] # << >> /\ Lapsed(n) => pending[n][1].relisted
  BY DEF IInv, TInv, TypeOK, ResyncsInTime, Lapsed
<1>1. CASE CachedAt(n)
  <2>1. CASE Tick => sinceResync' <= Expiry
    BY <1>1, <2>1, StepCached
  <2>2. CASE Tick /\ ~(sinceResync' <= Expiry)
    <3>1. sinceResync' \in Nat
      BY <1>0, <2>2 DEF Tick, TypeOK
    <3>. QED
      BY <2>2, <3>1 DEF Lapsed
  <2>. QED
    BY <2>1, <2>2
<1>2. ASSUME Lapsed(n), InformerNext PROVE Lapsed(n)' \/ CachedAt(n)'
  <2>0. Enqueues(n)
    BY <1>2, InformerEnqueues
  <2>1. CASE store[n] # None
    BY <1>2, <2>1, InformerKeepsLapse
  <2>2. CASE pending[n] # << >>
    BY <1>0, <1>2, <2>0, <2>2, HeadKept DEF Lapsed
  <2>3. CASE store[n] = None /\ pending[n] = << >>
    BY <2>0, <2>3, EnqueueKeepsHandled DEF Handled, CachedAt
  <2>. QED
    BY <2>1, <2>2, <2>3
<1>3. ASSUME Lapsed(n), NEW m \in Name, Handle(m) PROVE Lapsed(n)' \/ CachedAt(n)'
  <2>1. CASE m = n
    BY <1>3, <2>1, HandleCaches
  <2>2. CASE m # n
    BY <1>3, <2>2, HandleParts DEF Lapsed, IInv, TInv
  <2>. QED
    BY <2>1, <2>2
<1>4. ASSUME Lapsed(n), UNCHANGED <<pending, sinceResync>> PROVE Lapsed(n)'
  BY <1>4 DEF Lapsed
<1>5. ASSUME Lapsed(n), Tick PROVE Lapsed(n)'
  <2>1. pending[n] = << >>
    BY <1>5 DEF Tick
  <2>2. sinceResync > Expiry
    BY <1>5, <2>1 DEF Lapsed
  <2>3. sinceResync \in Nat /\ ~(sinceResync <= Expiry)
    BY <1>0, <2>2 DEF TypeOK
  <2>4. sinceResync' = sinceResync
    BY <1>5, <2>3 DEF Tick
  <2>. QED
    BY <2>2, <2>4 DEF Lapsed
<1>. QED
  BY <1>1, <1>2, <1>3, <1>4, <1>5
     DEF Next, SteadyNext, InformerNext, LoseWatch, Fetch, Janitor, informerVars, vars

\* Every object the handlers know to be live is cached, but for outages longer
\* than an item lives: for any number and any length of outages.
THEOREM LiveStaysCached == Spec => []LiveObjectsCached
<1> DEFINE AllCached == \A n \in Name : Lapsed(n) \/ CachedAt(n)
<1>1. Init => AllCached
  BY DEF Init, CachedAt, Handled
<1>2. IInv /\ AllCached /\ [Next]_vars => AllCached'
  BY StepLapses
<1>3. IInv /\ AllCached => LiveObjectsCached
  BY DEF CachedAt, LiveAt, LiveObjectsCached, Visible
<1>. QED
  BY <1>1, <1>2, <1>3, Inductive, PTL DEF Spec

-----------------------------------------------------------------------------
(* Deletions are reported. *)

\* DeletionsReported with its age: a deletion not yet reported was handled
\* since the last Fetch.
ReportedAt(u) ==
    (u \in deletions /\ NameOf[u] \in Included) =>
        \/ <<u, TRUE>> \in reported
        \/ Marked(u) /\ cache[u].obj.uid = u /\ cache[u].age <= sinceFetch

LEMMA StepReported ==
  ASSUME IInv, TypeOK', [Next]_vars, sinceFetch <= Expiry,
         NEW u \in Uid, ReportedAt(u)
  PROVE  ReportedAt(u)'
<1>0. TypeOK
  BY DEF IInv, TInv
<1>1. CASE InformerNext
  BY <1>1, InformerEnqueues DEF ReportedAt, Marked
<1>2. ASSUME NEW n \in Name, Handle(n) PROVE ReportedAt(u)'
  <2> DEFINE note == pending[n][1]
  <2>1. /\ pending[n] # << >> /\ note \in Note /\ Dispatch(note)
        /\ UNCHANGED <<sinceFetch, reported>>
    BY <1>2, HandleParts
  <2>2. CASE cache'[u] = cache[u] /\ deletions' = deletions
    BY <2>1, <2>2 DEF ReportedAt, Marked
  <2>3. ASSUME NEW key \in Uid, Has(note.old, key) \/ Has(note.new, key),
               cache' = [cache EXCEPT ![key] = NewEntry(note.new, FALSE)],
               UNCHANGED deletions
        PROVE  ReportedAt(u)'
    <3>1. ~Marked(key)
      BY <2>1, <2>3, KeyUnmarked
    <3>2. CASE u = key
      BY <2>1, <2>3, <3>1, <3>2 DEF ReportedAt
    <3>3. CASE u # key
      BY <1>0, <2>1, <2>2, <2>3, <3>3 DEF TypeOK
    <3>. QED
      BY <3>2, <3>3
  <2>4. ASSUME note.old \in Object,
               cache' = [cache EXCEPT ![note.old.uid] = NewEntry(note.old, TRUE)],
               deletions' = deletions \cup {note.old.uid}
        PROVE  ReportedAt(u)'
    <3>1. CASE u = note.old.uid
      <4>1. cache'[u] = NewEntry(note.old, TRUE) /\ NewEntry(note.old, TRUE) \in Entry
        BY <1>0, <2>4, <3>1, NewEntryType DEF TypeOK
      <4>2. /\ cache'[u] # None /\ cache'[u].deleted
            /\ cache'[u].obj.uid = u /\ cache'[u].age = 0
        <5>1. cache'[u] # None
          BY <4>1
        <5>. QED
          BY <3>1, <4>1, <5>1 DEF NewEntry
      <4>3. cache'[u].age <= sinceFetch'
        BY <1>0, <2>1, <4>2 DEF TypeOK
      <4>. QED
        BY <4>2, <4>3 DEF ReportedAt, Marked
    <3>2. CASE u # note.old.uid
      BY <1>0, <2>1, <2>4, <3>2 DEF ReportedAt, Marked, TypeOK
    <3>. QED
      BY <3>1, <3>2
  <2>5. CASE UNCHANGED <<cache, deletions>>
    BY <2>2, <2>5
  <2>. QED
    BY <1>0, <2>1, <2>3, <2>4, <2>5, DispatchEffect
<1>3. CASE LoseWatch \/ UNCHANGED vars
  BY <1>3 DEF LoseWatch, vars, ReportedAt, Marked
<1>4. ASSUME Marked(u), cache[u].age <= sinceFetch PROVE Visible(u)
  BY <1>0, <1>4 DEF Marked, Visible, TypeOK, Entry
<1>5. CASE Fetch
  <2>1. CASE <<u, TRUE>> \in reported
    BY <1>5, <2>1 DEF Fetch, ReportedAt
  <2>2. CASE /\ Marked(u) /\ cache[u].obj.uid = u /\ cache[u].age <= sinceFetch
             /\ NameOf[u] \in Included
    <3>1. cache[u] \in Items /\ cache[u].deleted = TRUE
      BY <1>0, <1>4, <2>2 DEF Items, Marked, TypeOK, Entry
    <3>2. <<u, TRUE>> \in {<<i.obj.uid, i.deleted>> : i \in Items}
      BY <2>2, <3>1
    <3>. QED
      BY <1>5, <3>2 DEF Fetch, ReportedAt
  <2>. QED
    BY <1>5, <2>1, <2>2 DEF Fetch, ReportedAt
<1>6. CASE Janitor
  BY <1>4, <1>6 DEF Janitor, ReportedAt, Marked, WithoutExpired
<1>7. CASE Tick
  <2>1. /\ UNCHANGED <<deletions, reported>> /\ sinceFetch' = sinceFetch + 1
        /\ cache' = [v \in Uid |-> Older(cache[v])]
    BY <1>7 DEF Tick
  <2>2. ASSUME Marked(u), cache[u].obj.uid = u, cache[u].age <= sinceFetch
        PROVE  Marked(u)' /\ cache'[u].obj.uid = u /\ cache'[u].age <= sinceFetch'
    <3>1. cache[u] \in Entry /\ cache[u] # None /\ cache[u].age <= Expiry
      BY <1>0, <1>4, <2>2 DEF Marked, Visible, TypeOK
    <3>2. cache'[u] = [cache[u] EXCEPT !.age = @ + 1]
      BY <2>1, <3>1 DEF Older
    <3>3. /\ cache'[u].obj = cache[u].obj /\ cache'[u].deleted = cache[u].deleted
          /\ cache'[u].age = cache[u].age + 1 /\ cache'[u] # None
      BY <1>0, <3>1, <3>2, OlderType DEF Entry
    <3>4. cache'[u].age <= sinceFetch'
      BY <1>0, <2>1, <2>2, <3>1, <3>3 DEF TypeOK, Entry
    <3>. QED
      BY <2>2, <3>3, <3>4 DEF Marked
  <2>. QED
    BY <2>1, <2>2 DEF ReportedAt
<1>. QED
  BY <1>1, <1>2, <1>3, <1>5, <1>6, <1>7 DEF Next, SteadyNext, InformerNext

\* If Fetch is called at least once per expiry, every handled deletion in an
\* included namespace is reported as such before its item leaves the cache.
THEOREM DeletionsAreReported ==
  ASSUME FetchGap <= Expiry
  PROVE  Spec => []DeletionsReported
<1> DEFINE AllReported == \A u \in Uid : ReportedAt(u)
<1>1. Init => AllReported
  BY DEF Init, ReportedAt
<1>2. IInv /\ IInv' /\ AllReported /\ [Next]_vars => AllReported'
  <2>1. IInv => sinceFetch <= Expiry
    BY DEF IInv, TInv, TypeOK
  <2>. QED
    BY <2>1, StepReported DEF IInv, TInv
<1>3. IInv /\ AllReported => DeletionsReported
  <2> SUFFICES ASSUME IInv, AllReported, NEW u \in deletions,
                      NameOf[u] \in Included, <<u, TRUE>> \notin reported
               PROVE  Visible(u) /\ cache[u].deleted /\ cache[u].obj.uid = u
    BY DEF DeletionsReported
  <2>1. TypeOK /\ u \in Uid
    BY DEF IInv, TInv, TypeOK
  <2>2. Marked(u) /\ cache[u].obj.uid = u /\ cache[u].age <= sinceFetch
    BY <2>1 DEF ReportedAt
  <2>. QED
    BY <2>1, <2>2 DEF TypeOK, Marked, Visible, Entry
<1>. QED
  BY <1>1, <1>2, <1>3, Inductive, PTL DEF Spec
=============================================================================
