--------------------------- MODULE CyberArkProofs ---------------------------
(***************************************************************************)
(* Proofs about the session with CyberArk's services.  The argument: an    *)
(* identity API, or a key, that is cached was current when it was cached,  *)
(* so it has been retired for no longer than it has been cached; services  *)
(* in use were within their life when the attempt took them, and have been *)
(* in use no longer than the attempt lasts.  Besides, the readings are     *)
(* converted before the login, and what is sent is their conversion.       *)
(***************************************************************************)
EXTENDS CyberArk, TLAPS

\* What is current has been retired for no time.
CurrentNotRetired ==
    /\ directory.identity # None => retired[directory.identity] = 0
    /\ retired[publicKey] = 0

\* What is cached and within its life was retired after it was cached.
ServicesCachedWhileCurrent ==
    (cachedResponse # None /\ cachedResponse.age < DiscoveryTTL) =>
        /\ cachedResponse.services.identity \in Endpoint
        /\ retired[cachedResponse.services.identity] <= cachedResponse.age

KeyCachedWhileCurrent ==
    (cachedKey # None /\ cachedKey.age < KeyTTL) =>
        retired[cachedKey.key] <= cachedKey.age

\* The services an attempt uses were within their life when it took them.
TakenWhileRecent ==
    stage \in {"login", "advance"} =>
        retired[services.identity] < DiscoveryTTL + posting

\* An attempt ends by its deadline; between attempts its clock is reset.
Deadline ==
    /\ posting <= BackoffMax
    /\ stage \notin PostStages => posting = 0

IInv ==
    /\ TypeOK
    /\ CurrentNotRetired
    /\ ServicesCachedWhileCurrent
    /\ KeyCachedWhileCurrent
    /\ TakenWhileRecent
    /\ Deadline

USE DEF Cached, Services, NoServices, Stages, KeyStages, PostStages

LEMMA Assumptions ==
    /\ DiscoveryTTL \in Nat /\ TokenTTL \in Nat /\ KeyTTL \in Nat
    /\ BackoffMax \in Nat /\ RetryWait \in Nat /\ Period \in Nat
    /\ DiscoveryTTL > 0 /\ KeyTTL > 0
    /\ None \notin Endpoint /\ None \notin Key /\ Endpoint \cap Key = {}
    /\ Directory \subseteq Services /\ FirstDirectory \in Directory
    /\ FirstKey \in Key
BY TimeAssumption, EndpointAssumption, DirectoryAssumption

LEMMA InitHolds == Init => IInv
<1> SUFFICES ASSUME Init PROVE IInv OBVIOUS
<1>1. TypeOK
  BY Assumptions DEF Init, TypeOK
<1>2. CurrentNotRetired /\ ServicesCachedWhileCurrent /\ KeyCachedWhileCurrent
  BY Assumptions DEF Init, CurrentNotRetired, ServicesCachedWhileCurrent,
     KeyCachedWhileCurrent
<1>3. TakenWhileRecent /\ Deadline
  BY Assumptions DEF Init, TakenWhileRecent, Deadline
<1> QED BY <1>1, <1>2, <1>3 DEF IInv

-----------------------------------------------------------------------------
(* DiscoverServices, and the steps by what they leave alone. *)

\* What DiscoverServices returns is recent, and so is what it leaves cached.
LEMMA Discovered ==
    ASSUME IInv, NEW s \in Services, DiscoverServices(s), UNCHANGED retired
    PROVE  /\ cachedResponse' \in Cached([services : Services, age : Nat])
           /\ ServicesCachedWhileCurrent'
           /\ s.identity \in Endpoint
           /\ retired[s.identity] < DiscoveryTTL
<1>1. CASE DiscoveryCached
  <2>1. s = cachedResponse.services /\ cachedResponse' = cachedResponse
    BY <1>1 DEF DiscoverServices
  <2>2. s.identity \in Endpoint /\ retired[s.identity] <= cachedResponse.age
    BY <1>1, <2>1 DEF IInv, ServicesCachedWhileCurrent, DiscoveryCached
  <2>3. retired[s.identity] < DiscoveryTTL
    BY <1>1, <2>2, Assumptions DEF DiscoveryCached, IInv, TypeOK
  <2>4. ServicesCachedWhileCurrent'
    BY <2>1 DEF IInv, ServicesCachedWhileCurrent
  <2> QED BY <2>1, <2>2, <2>3, <2>4 DEF IInv, TypeOK
<1>2. CASE ~DiscoveryCached
  <2>1. /\ directory.identity # None /\ s = directory
        /\ cachedResponse' = [services |-> directory, age |-> 0]
    BY <1>2 DEF DiscoverServices
  <2>2. s.identity \in Endpoint /\ retired[s.identity] = 0
    BY <2>1 DEF IInv, CurrentNotRetired
  <2>3. cachedResponse'.services = s /\ cachedResponse'.age = 0
    BY <2>1
  <2>4. ServicesCachedWhileCurrent'
    BY <2>2, <2>3 DEF ServicesCachedWhileCurrent
  <2>5. cachedResponse' \in [services : Services, age : Nat]
    BY <2>1
  <2> QED BY <2>2, <2>4, <2>5, Assumptions
<1> QED BY <1>1, <1>2

\* A step that leaves the services, the clock of what is retired and the two
\* caches alone, and takes no services.
LEMMA Elsewhere ==
    ASSUME IInv, TypeOK', UNCHANGED <<directory, publicKey, retired,
                                      cachedResponse, cachedKey>>,
           stage' \notin {"login", "advance"},
           posting' = posting \/ posting' = 0,
           stage' \notin PostStages => posting' = 0
    PROVE  IInv'
<1>1. CurrentNotRetired' /\ ServicesCachedWhileCurrent' /\ KeyCachedWhileCurrent'
  BY DEF IInv, CurrentNotRetired, ServicesCachedWhileCurrent, KeyCachedWhileCurrent
<1>2. TakenWhileRecent' /\ Deadline'
  BY Assumptions DEF IInv, TakenWhileRecent, Deadline
<1> QED BY <1>1, <1>2 DEF IInv

-----------------------------------------------------------------------------
(* The services and the clock. *)

LEMMA MoveStep == IInv /\ Move => IInv'
<1> SUFFICES ASSUME IInv, Move PROVE IInv' OBVIOUS
<1>1. PICK d \in Directory \ {directory} : directory' = d
  BY DEF Move
<1>2. d \in Services
  BY Assumptions
<1>3. \A x \in DOMAIN retired : retired'[x] = IF x = d.identity THEN 0 ELSE retired[x]
  BY <1>1 DEF Move
<1>4. DOMAIN retired = Endpoint \cup Key /\ retired' \in [Endpoint \cup Key -> Nat]
  BY <1>1 DEF Move, IInv, TypeOK
<1>5. \A x \in Endpoint \cup Key : retired'[x] <= retired[x]
  BY <1>3, <1>4 DEF IInv, TypeOK
<1>6. TypeOK'
  BY <1>1, <1>2, <1>4 DEF Move, caches, clock, IInv, TypeOK
<1>7. CurrentNotRetired'
  BY <1>1, <1>2, <1>3, <1>4, Assumptions DEF Move, IInv, TypeOK, CurrentNotRetired
<1>8. ServicesCachedWhileCurrent'
  BY <1>4, <1>5 DEF Move, caches, IInv, TypeOK, ServicesCachedWhileCurrent
<1>9. KeyCachedWhileCurrent'
  BY <1>4, <1>5 DEF Move, caches, IInv, TypeOK, KeyCachedWhileCurrent
<1>10. TakenWhileRecent' /\ Deadline'
  BY <1>4, <1>5, Assumptions DEF Move, clock, IInv, TypeOK, TakenWhileRecent, Deadline
<1> QED BY <1>6, <1>7, <1>8, <1>9, <1>10 DEF IInv

LEMMA RotateKeyStep == IInv /\ RotateKey => IInv'
<1> SUFFICES ASSUME IInv, RotateKey PROVE IInv' OBVIOUS
<1>1. PICK k \in Key \ {publicKey} : publicKey' = k
  BY DEF RotateKey
<1>2. retired' = [retired EXCEPT ![k] = 0]
  BY <1>1 DEF RotateKey
<1>3. retired' \in [Endpoint \cup Key -> Nat] /\ retired'[k] = 0
  BY <1>1, <1>2 DEF IInv, TypeOK
<1>4. \A x \in Endpoint \cup Key : retired'[x] <= retired[x]
  BY <1>2 DEF IInv, TypeOK
<1>5. \A x \in Endpoint : retired'[x] = retired[x]
  BY <1>1, <1>2, Assumptions DEF IInv, TypeOK
<1>6. TypeOK'
  BY <1>1, <1>3 DEF RotateKey, caches, clock, IInv, TypeOK
<1>7. CurrentNotRetired'
  BY <1>1, <1>3, <1>5, Assumptions DEF RotateKey, IInv, TypeOK, CurrentNotRetired
<1>8. ServicesCachedWhileCurrent'
  BY <1>5 DEF RotateKey, caches, IInv, ServicesCachedWhileCurrent
<1>9. KeyCachedWhileCurrent'
  BY <1>3, <1>4 DEF RotateKey, caches, IInv, TypeOK, KeyCachedWhileCurrent
<1>10. TakenWhileRecent' /\ Deadline'
  BY <1>3, <1>4, Assumptions
     DEF RotateKey, clock, IInv, TypeOK, TakenWhileRecent, Deadline
<1> QED BY <1>6, <1>7, <1>8, <1>9, <1>10 DEF IInv

LEMMA TickStep == IInv /\ Tick => IInv'
<1> SUFFICES ASSUME IInv, Tick PROVE IInv' OBVIOUS
<1> USE Assumptions
<1>1. /\ retired \in [Endpoint \cup Key -> Nat] /\ retired' \in [Endpoint \cup Key -> Nat]
      /\ \A x \in Endpoint \cup Key : retired'[x] <= retired[x] + 1
      /\ \A x \in Endpoint \cup Key : Current(x) => retired'[x] = retired[x]
  <2>1. RetiredCap \in Nat
    BY CapAssumption
  <2> QED BY <2>1 DEF Tick, IInv, TypeOK
<1>2. /\ cachedResponse' \in Cached([services : Services, age : Nat])
      /\ ServicesCachedWhileCurrent'
  <2>1. CASE cachedResponse = None
    BY <2>1 DEF Tick, Aged, ServicesCachedWhileCurrent
  <2>2. CASE cachedResponse # None /\ cachedResponse.age < DiscoveryTTL
    <3>1. cachedResponse \in [services : Services, age : Nat]
      BY <2>2 DEF IInv, TypeOK
    <3>2. cachedResponse' = [cachedResponse EXCEPT !.age = @ + 1]
      BY <2>2 DEF Tick, Aged
    <3>3. /\ cachedResponse'.services = cachedResponse.services
          /\ cachedResponse'.age = cachedResponse.age + 1
          /\ cachedResponse' \in [services : Services, age : Nat]
      BY <3>1, <3>2
    <3> QED BY <2>2, <3>1, <3>3, <1>1 DEF IInv, ServicesCachedWhileCurrent
  <2>3. CASE cachedResponse # None /\ ~(cachedResponse.age < DiscoveryTTL)
    <3>1. cachedResponse' = cachedResponse
      BY <2>3 DEF Tick, Aged
    <3> QED BY <2>3, <3>1 DEF IInv, TypeOK, ServicesCachedWhileCurrent
  <2> QED BY <2>1, <2>2, <2>3
<1>3. cachedKey' \in Cached([key : Key, age : Nat]) /\ KeyCachedWhileCurrent'
  <2>1. CASE cachedKey = None
    BY <2>1 DEF Tick, Aged, KeyCachedWhileCurrent
  <2>2. CASE cachedKey # None /\ cachedKey.age < KeyTTL
    <3>1. cachedKey \in [key : Key, age : Nat]
      BY <2>2 DEF IInv, TypeOK
    <3>2. cachedKey' = [cachedKey EXCEPT !.age = @ + 1]
      BY <2>2 DEF Tick, Aged
    <3>3. /\ cachedKey'.key = cachedKey.key /\ cachedKey'.age = cachedKey.age + 1
          /\ cachedKey' \in [key : Key, age : Nat]
      BY <3>1, <3>2
    <3> QED BY <2>2, <3>1, <3>3, <1>1 DEF IInv, KeyCachedWhileCurrent
  <2>3. CASE cachedKey # None /\ ~(cachedKey.age < KeyTTL)
    <3>1. cachedKey' = cachedKey
      BY <2>3 DEF Tick, Aged
    <3> QED BY <2>3, <3>1 DEF IInv, TypeOK, KeyCachedWhileCurrent
  <2> QED BY <2>1, <2>2, <2>3
<1>4. tokenCached' \in Cached([empty : BOOLEAN, age : Nat])
  <2>1. CASE tokenCached # None /\ tokenCached.age < TokenTTL
    <3>1. tokenCached \in [empty : BOOLEAN, age : Nat]
      BY <2>1 DEF IInv, TypeOK
    <3>2. tokenCached' = [tokenCached EXCEPT !.age = @ + 1]
      BY <2>1 DEF Tick, Aged
    <3> QED BY <3>1, <3>2
  <2>2. CASE ~(tokenCached # None /\ tokenCached.age < TokenTTL)
    BY <2>2 DEF Tick, Aged, IInv, TypeOK
  <2> QED BY <2>1, <2>2
<1>5. posting' \in Nat /\ elapsed' \in Nat /\ wait' \in Nat
  BY DEF Tick, IInv, TypeOK
<1>6. TypeOK'
  BY <1>1, <1>2, <1>3, <1>4, <1>5 DEF Tick, server, IInv, TypeOK
<1>7. CurrentNotRetired'
  BY <1>1 DEF Tick, server, IInv, TypeOK, CurrentNotRetired, Current
<1>8. TakenWhileRecent'
  <2> SUFFICES ASSUME stage \in {"login", "advance"}
               PROVE  retired'[services.identity] < DiscoveryTTL + posting'
    BY DEF Tick, TakenWhileRecent
  <2>1. services.identity \in Endpoint
    BY DEF IInv, TypeOK
  <2>2. posting' = posting + 1
    BY DEF Tick
  <2>3. retired[services.identity] < DiscoveryTTL + posting
    BY DEF IInv, TakenWhileRecent
  <2>4. /\ retired'[services.identity] <= retired[services.identity] + 1
        /\ retired[services.identity] \in Nat /\ retired'[services.identity] \in Nat
    BY <1>1, <2>1
  <2> QED BY <2>2, <2>3, <2>4 DEF IInv, TypeOK
<1>9. Deadline'
  BY DEF Tick, IInv, TypeOK, Deadline
<1> QED BY <1>2, <1>3, <1>6, <1>7, <1>8, <1>9 DEF IInv

-----------------------------------------------------------------------------
(* The steps of the agent. *)

\* A step that takes no services and leaves the server alone, whatever it does
\* with DiscoverServices.
LEMMA Besides ==
    ASSUME IInv, TypeOK', ServicesCachedWhileCurrent', KeyCachedWhileCurrent',
           UNCHANGED <<directory, publicKey, retired>>,
           stage' \notin {"login", "advance"},
           posting' = posting \/ posting' = 0,
           stage' \notin PostStages => posting' = 0
    PROVE  IInv'
<1>1. CurrentNotRetired'
  BY DEF IInv, CurrentNotRetired
<1>2. TakenWhileRecent' /\ Deadline'
  BY Assumptions DEF IInv, TakenWhileRecent, Deadline
<1> QED BY <1>1, <1>2 DEF IInv

\* The caches that are left alone stay recent.
LEMMA Kept ==
    ASSUME IInv, UNCHANGED retired
    PROVE  /\ UNCHANGED cachedResponse => ServicesCachedWhileCurrent'
           /\ UNCHANGED cachedKey => KeyCachedWhileCurrent'
BY DEF IInv, ServicesCachedWhileCurrent, KeyCachedWhileCurrent

LEMMA BootStep == IInv /\ Boot => IInv'
<1> SUFFICES ASSUME IInv, Boot PROVE IInv' OBVIOUS
<1>1. PICK s \in Services : DiscoverServices(s) /\ identityClient' = s.identity
  BY DEF Boot
<1>2. UNCHANGED retired
  BY DEF Boot
<1>3. /\ cachedResponse' \in Cached([services : Services, age : Nat])
      /\ ServicesCachedWhileCurrent' /\ s.identity \in Endpoint
  BY <1>1, <1>2, Discovered
<1>4. TypeOK'
  BY <1>1, <1>3 DEF Boot, server, clock, IInv, TypeOK
<1>5. KeyCachedWhileCurrent'
  BY <1>2, Kept DEF Boot
<1> QED BY <1>2, <1>3, <1>4, <1>5, Besides DEF Boot, server, clock, IInv, Deadline

LEMMA GatherStep == IInv /\ Gather => IInv'
<1> SUFFICES ASSUME IInv, Gather PROVE IInv' OBVIOUS
<1>1. cipherKey' \in Key \cup {None}
  <2>1. CASE identityClient # None /\ ~KeyCached
    BY <2>1 DEF Gather, IInv, TypeOK
  <2>2. CASE ~(identityClient # None /\ ~KeyCached) /\ identityClient # None
    BY <2>2 DEF Gather, KeyCached, IInv, TypeOK
  <2>3. CASE ~(identityClient # None /\ ~KeyCached) /\ identityClient = None
    BY <2>3 DEF Gather, IInv, TypeOK
  <2> QED BY <2>1, <2>2, <2>3
<1>2. /\ readings' \in Gathered /\ stage' \in {"keyDiscover", "discover"}
      /\ services' \in Services /\ UNCHANGED clock
  BY DEF Gather, BeginUpload, IInv, TypeOK
<1>3. TypeOK'
  BY <1>1, <1>2 DEF Gather, server, caches, clock, IInv, TypeOK
<1>4. stage = "gather" /\ UNCHANGED <<directory, publicKey, retired, cachedResponse, cachedKey>>
  BY DEF Gather, server, caches
<1> QED BY <1>2, <1>3, <1>4, Elsewhere DEF clock, IInv, Deadline

LEMMA KeyDiscoverStep == IInv /\ KeyDiscover => IInv'
<1> SUFFICES ASSUME IInv, KeyDiscover PROVE IInv' OBVIOUS
<1>1. PICK s \in Services : DiscoverServices(s) /\ services' = s
  BY DEF KeyDiscover
<1>2. UNCHANGED retired
  BY DEF KeyDiscover
<1>3. /\ cachedResponse' \in Cached([services : Services, age : Nat])
      /\ ServicesCachedWhileCurrent'
  BY <1>1, <1>2, Discovered
<1>4. TypeOK'
  BY <1>1, <1>3 DEF KeyDiscover, server, clock, IInv, TypeOK
<1>5. KeyCachedWhileCurrent'
  BY <1>2, Kept DEF KeyDiscover
<1> QED BY <1>2, <1>3, <1>4, <1>5, Besides DEF KeyDiscover, server, clock, IInv, Deadline

LEMMA KeyLoginStep == IInv /\ KeyLogin => IInv'
<1> SUFFICES ASSUME IInv, KeyLogin PROVE IInv' OBVIOUS
<1>1. TypeOK'
  BY DEF KeyLogin, server, caches, clock, IInv, TypeOK
<1> QED BY <1>1, Elsewhere DEF KeyLogin, server, caches, clock, IInv, Deadline

LEMMA KeyAdvanceStep == IInv /\ KeyAdvance => IInv'
<1> SUFFICES ASSUME IInv, KeyAdvance PROVE IInv' OBVIOUS
<1>1. \E b \in BOOLEAN : tokenCached' = [empty |-> b, age |-> 0]
  BY DEF KeyAdvance
<1>2. failures' = failures \/ failures' = failures + 1
  BY DEF KeyAdvance
<1>3. TypeOK'
  BY <1>1, <1>2 DEF KeyAdvance, server, clock, IInv, TypeOK
<1> QED BY <1>3, Elsewhere DEF KeyAdvance, server, clock, IInv, Deadline

LEMMA KeyGetStep == IInv /\ KeyGet => IInv'
<1> SUFFICES ASSUME IInv, KeyGet PROVE IInv' OBVIOUS
<1>1. cachedKey' = [key |-> publicKey, age |-> 0] /\ cipherKey' = publicKey
  BY DEF KeyGet
<1>2. KeyCachedWhileCurrent'
  <2>1. cachedKey'.key = publicKey /\ cachedKey'.age = 0 /\ retired' = retired
    BY <1>1 DEF KeyGet
  <2>2. retired[publicKey] = 0
    BY DEF IInv, CurrentNotRetired
  <2> QED BY <2>1, <2>2 DEF KeyCachedWhileCurrent
<1>3. TypeOK'
  BY <1>1 DEF KeyGet, BeginUpload, server, clock, IInv, TypeOK
<1>4. ServicesCachedWhileCurrent'
  BY Kept DEF KeyGet
<1> QED BY <1>2, <1>3, <1>4, Besides
    DEF KeyGet, BeginUpload, server, clock, IInv, Deadline

LEMMA DiscoverStep == IInv /\ Discover => IInv'
<1> SUFFICES ASSUME IInv, Discover PROVE IInv' OBVIOUS
<1>1. PICK s \in Services : DiscoverServices(s) /\ s.inventory # None /\ services' = s
  BY DEF Discover
<1>2. UNCHANGED <<directory, publicKey, retired, cachedKey, posting>> /\ stage = "discover"
  BY DEF Discover, server, clock
<1>3. /\ cachedResponse' \in Cached([services : Services, age : Nat])
      /\ ServicesCachedWhileCurrent'
      /\ s.identity \in Endpoint /\ retired[s.identity] < DiscoveryTTL
  BY <1>1, <1>2, Discovered
<1>4. TypeOK'
  BY <1>1, <1>3, Assumptions DEF Discover, server, clock, IInv, TypeOK
<1>5. KeyCachedWhileCurrent'
  BY <1>2, Kept
<1>6. CurrentNotRetired'
  BY <1>2 DEF IInv, CurrentNotRetired
<1>7. TakenWhileRecent'
  BY <1>1, <1>2, <1>3, Assumptions DEF IInv, TypeOK, TakenWhileRecent
<1>8. Deadline'
  BY <1>2 DEF Discover, IInv, Deadline
<1> QED BY <1>3, <1>4, <1>5, <1>6, <1>7, <1>8 DEF IInv

LEMMA LoginStep == IInv /\ Login => IInv'
<1> SUFFICES ASSUME IInv, Login PROVE IInv' OBVIOUS
<1>1. TypeOK'
  BY DEF Login, server, caches, clock, IInv, TypeOK
<1>2. CurrentNotRetired' /\ ServicesCachedWhileCurrent' /\ KeyCachedWhileCurrent'
  BY DEF Login, server, caches, IInv, CurrentNotRetired,
     ServicesCachedWhileCurrent, KeyCachedWhileCurrent
<1>3. TakenWhileRecent' /\ Deadline'
  BY DEF Login, clock, IInv, TakenWhileRecent, Deadline
<1> QED BY <1>1, <1>2, <1>3 DEF IInv

LEMMA PostSteps == IInv /\ (Presign \/ Put) => IInv'
<1> SUFFICES ASSUME IInv, Presign \/ Put PROVE IInv' OBVIOUS
<1>1. TypeOK'
  <2>1. CASE Presign
    BY <2>1 DEF Presign, server, caches, clock, IInv, TypeOK
  <2>2. CASE Put
    BY <2>2, Assumptions DEF Put, server, caches, IInv, TypeOK
  <2> QED BY <2>1, <2>2
<1> QED BY <1>1, Elsewhere
    DEF Presign, Put, server, caches, clock, IInv, Deadline

\* Whatever fails, the services and the keys that are cached are left alone.
LEMMA FailureStays ==
    ASSUME IInv, OperationFails
    PROVE  /\ stage' \in {"gather", "discover", "retry", "exited"}
           /\ identityClient' \in Endpoint \cup {None}
           /\ services' \in Services /\ cipherKey' \in Key \cup {None}
           /\ elapsed' \in Nat /\ posting' \in Nat /\ wait' \in Nat
           /\ posting' = posting \/ posting' = 0
           /\ stage' \notin PostStages => posting' = 0
<1>1. CASE stage = "boot" /\ BootWithoutKeys
  BY <1>1 DEF BootWithoutKeys, clock, IInv, TypeOK, Deadline
<1>2. CASE stage \in KeyStages /\ KeyFails
  BY <1>2 DEF KeyFails, BeginUpload, clock, IInv, TypeOK, Deadline
<1>3. CASE stage \in PostStages /\ AttemptFails
  BY <1>3, Assumptions DEF AttemptFails, IInv, TypeOK, Deadline
<1> QED BY <1>1, <1>2, <1>3 DEF OperationFails

LEMMA RefusedStep == IInv /\ Refused => IInv'
<1> SUFFICES ASSUME IInv, Refused PROVE IInv' OBVIOUS
<1>1. UNCHANGED <<directory, publicKey, retired, changes, failures, tokenCached,
                  cachedKey, readings, sent>> /\ OperationFails
  BY DEF Refused, server
<1>2. /\ cachedResponse' \in Cached([services : Services, age : Nat])
      /\ ServicesCachedWhileCurrent'
  <2>1. CASE UNCHANGED cachedResponse
    BY <1>1, <2>1, Kept DEF IInv, TypeOK
  <2>2. CASE DiscoverInVain
    BY <1>1, <2>2, Discovered DEF DiscoverInVain
  <2> QED BY <2>1, <2>2 DEF Refused
<1>3. KeyCachedWhileCurrent'
  BY <1>1, Kept
<1>4. TypeOK'
  BY <1>1, <1>2, FailureStays DEF IInv, TypeOK
<1> QED BY <1>1, <1>2, <1>3, <1>4, FailureStays, Besides

LEMMA RequestFailsStep == IInv /\ RequestFails => IInv'
<1> SUFFICES ASSUME IInv, RequestFails PROVE IInv' OBVIOUS
<1>1. /\ UNCHANGED <<directory, publicKey, retired, changes, cachedResponse,
                     tokenCached, cachedKey, readings, sent>>
      /\ OperationFails /\ failures' = failures + 1
  BY DEF RequestFails, server, caches
<1>2. TypeOK'
  BY <1>1, FailureStays DEF IInv, TypeOK
<1> QED BY <1>1, <1>2, FailureStays, Elsewhere

LEMMA WaitSteps == IInv /\ (Retry \/ SleepOver) => IInv'
<1> SUFFICES ASSUME IInv, Retry \/ SleepOver PROVE IInv' OBVIOUS
<1>1. TypeOK'
  BY DEF Retry, SleepOver, server, caches, clock, IInv, TypeOK
<1> QED BY <1>1, Elsewhere DEF Retry, SleepOver, server, caches, clock, IInv, Deadline

LEMMA RestartStep == IInv /\ Restart => IInv'
<1> SUFFICES ASSUME IInv, Restart PROVE IInv' OBVIOUS
<1>1. TypeOK'
  BY DEF Restart, server, clock, IInv, TypeOK
<1>2. ServicesCachedWhileCurrent' /\ KeyCachedWhileCurrent'
  BY DEF Restart, ServicesCachedWhileCurrent, KeyCachedWhileCurrent
<1> QED BY <1>1, <1>2, Besides DEF Restart, server, clock, IInv, Deadline

LEMMA NextStep == IInv /\ [Next]_vars => IInv'
<1> SUFFICES ASSUME IInv, [Next]_vars PROVE IInv' OBVIOUS
<1>1. CASE Step
  BY <1>1, BootStep, GatherStep, KeyDiscoverStep, KeyLoginStep, KeyAdvanceStep,
     KeyGetStep, DiscoverStep, LoginStep, PostSteps, RefusedStep, WaitSteps, RestartStep DEF Step
<1>2. CASE RequestFails \/ Tick \/ Move \/ RotateKey
  BY <1>2, RequestFailsStep, TickStep, MoveStep, RotateKeyStep
<1>3. CASE UNCHANGED vars
  BY <1>3 DEF vars, IInv, TypeOK, CurrentNotRetired, ServicesCachedWhileCurrent,
     KeyCachedWhileCurrent, TakenWhileRecent, Deadline
<1> QED BY <1>1, <1>2, <1>3 DEF Next

LEMMA Invariance == Spec => []IInv
BY InitHolds, NextStep, PTL DEF Spec

-----------------------------------------------------------------------------
(* The snapshot: what is uploaded was converted from the readings at hand. *)

ConvertedInv ==
    /\ stage \in {"login", "advance", "presign", "put", "sleep"} => Converts(readings)
    /\ stage \in {"put", "sleep"} => HasClusterID(readings)
    /\ stage = "sleep" => sent = Snapshot(readings)

LEMMA ConvertedInit == Init => ConvertedInv
BY DEF Init, ConvertedInv

LEMMA ConvertedStep == ConvertedInv /\ [Next]_vars => ConvertedInv'
<1> SUFFICES ASSUME ConvertedInv, [Next]_vars PROVE ConvertedInv'
  OBVIOUS
<1> USE DEF ConvertedInv
<1>1. CASE Boot \/ Gather \/ KeyDiscover \/ KeyLogin \/ KeyAdvance \/ KeyGet
  BY <1>1 DEF Boot, Gather, KeyDiscover, KeyLogin, KeyAdvance, KeyGet, BeginUpload
<1>2. CASE Discover
  <2>1. /\ stage = "discover" /\ stage' = "login" /\ Converts(readings)
        /\ readings' = readings
    BY <1>2 DEF Discover
  <2>2. Converts(readings)'
    BY <2>1 DEF Converts
  <2> QED BY <2>1, <2>2
<1>3. CASE Login
  <2>1. /\ stage \in {"login", "advance"} /\ stage' \in {"advance", "presign"}
        /\ readings' = readings
    BY <1>3 DEF Login
  <2> QED BY <2>1
<1>4. CASE Presign \/ Put
  <2>1. /\ stage \in {"presign", "put"} /\ readings' = readings
        /\ stage = "presign" => HasClusterID(readings)
        /\ stage' = "sleep" => sent' = Snapshot(readings)
    BY <1>4 DEF Presign, Put
  <2>2. Converts(readings)' /\ HasClusterID(readings)'
    BY <2>1 DEF Converts, HasClusterID
  <2> QED BY <2>1, <2>2
<1>5. CASE Refused \/ RequestFails
  <2>1. OperationFails
    BY <1>5 DEF Refused, RequestFails
  <2>2. stage' \in {"gather", "discover", "retry", "exited"}
    BY <2>1 DEF OperationFails, BootWithoutKeys, KeyFails, BeginUpload, AttemptFails
  <2> QED BY <2>2
<1>6. CASE Retry \/ SleepOver \/ Restart
  BY <1>6 DEF Retry, SleepOver, Restart
<1>7. CASE Tick \/ Move \/ RotateKey \/ UNCHANGED vars
  BY <1>7 DEF Tick, Move, RotateKey, vars
<1> QED BY <1>1, <1>2, <1>3, <1>4, <1>5, <1>6, <1>7 DEF Next, Step

LEMMA ConvertedInvariance == Spec => []ConvertedInv
BY ConvertedInit, ConvertedStep, PTL DEF Spec

\* The list of a gatherer is taken from its one reading.
LEMMA ListOfReading ==
    ASSUME NEW rs \in Gathered, Converts(rs), NEW i \in DOMAIN rs,
           rs[i].gatherer \in ListGatherers
    PROVE  Snapshot(rs)[rs[i].gatherer] =
               IF rs[i].gatherer = "ark/secrets" THEN Minimize(Extract(rs[i]))
               ELSE Extract(rs[i])
<1> DEFINE g == rs[i].gatherer
           last == CHOOSE k \in DOMAIN rs :
                      /\ rs[k].gatherer = g
                      /\ \A j \in DOMAIN rs : rs[j].gatherer = g => j <= k
<1>1. \A j \in DOMAIN rs : rs[j].gatherer = g => j = i
  BY ReadingAssumption
<1>2. DOMAIN rs \subseteq Nat
  <2>1. rs \in Seq(Reading)
    BY ReadingAssumption
  <2> QED BY <2>1
<1>3. i <= i
  BY <1>2
<1>4. last = i
  BY <1>1, <1>3
<1>5. Snapshot(rs)[g] = IF g = "ark/secrets" THEN Minimize(Extract(rs[last]))
                        ELSE Extract(rs[last])
  BY DEF Snapshot
<1> QED BY <1>4, <1>5

-----------------------------------------------------------------------------
(* The theorems. *)

\* Every variable keeps its type, and a snapshot is begun with services that
\* have both APIs.
THEOREM TypeCorrect == Spec => []TypeOK
<1>1. IInv => TypeOK
  BY DEF IInv
<1> QED BY <1>1, Invariance, PTL

\* The password of an upload goes to an identity API that service discovery
\* named less than DiscoveryTTL before the attempt began.
THEOREM PasswordStaysRecent == Spec => []PasswordToRecentIdentity
<1>1. IInv => PasswordToRecentIdentity
  <2> SUFFICES ASSUME IInv, stage = "advance"
               PROVE  retired[services.identity] < DiscoveryTTL + BackoffMax
    BY DEF PasswordToRecentIdentity
  <2>1. retired[services.identity] < DiscoveryTTL + posting /\ posting <= BackoffMax
    BY DEF IInv, TakenWhileRecent, Deadline
  <2>2. retired[services.identity] \in Nat
    BY DEF IInv, TypeOK
  <2> QED BY <2>1, <2>2, Assumptions DEF IInv, TypeOK
<1> QED BY <1>1, Invariance, PTL

\* A Secret is encrypted with a key that was current less than KeyTTL before.
THEOREM KeysStayRecent == Spec => EncryptsWithRecentKey
<1>1. ASSUME IInv, [Next]_vars,
             stage \in KeyStages \cup {"gather"}, stage' = "discover", cipherKey' # None
      PROVE  retired[cipherKey'] < KeyTTL
  <2>1. CASE Gather
    <3>1. identityClient # None /\ KeyCached /\ cipherKey' = cachedKey.key
      BY <2>1, <1>1 DEF Gather
    <3>2. cachedKey \in [key : Key, age : Nat]
      BY <1>1, <3>1 DEF KeyCached, IInv, TypeOK
    <3>3. retired[cipherKey'] <= cachedKey.age /\ cachedKey.age < KeyTTL
      BY <1>1, <3>1 DEF KeyCached, IInv, KeyCachedWhileCurrent
    <3>4. retired[cipherKey'] \in Nat
      BY <1>1, <3>1, <3>2 DEF IInv, TypeOK
    <3> QED BY <3>2, <3>3, <3>4, Assumptions
  <2>2. CASE KeyGet
    BY <1>1, <2>2, Assumptions DEF KeyGet, IInv, CurrentNotRetired
  <2>3. CASE Refused \/ RequestFails
    <3>1. OperationFails
      BY <2>3 DEF Refused, RequestFails
    <3> QED BY <3>1, <1>1 DEF OperationFails, BootWithoutKeys, KeyFails, AttemptFails
  <2>4. CASE Boot \/ KeyDiscover \/ KeyLogin \/ KeyAdvance \/ Discover \/ Login \/ Presign \/ Put
    BY <2>4, <1>1
       DEF Boot, KeyDiscover, KeyLogin, KeyAdvance, Discover, Login, Presign, Put
  <2>5. CASE Retry \/ SleepOver \/ Restart \/ Tick \/ Move \/ RotateKey \/ UNCHANGED vars
    BY <2>5, <1>1 DEF Retry, SleepOver, Restart, Tick, Move, RotateKey, vars
  <2> QED BY <1>1, <2>1, <2>2, <2>3, <2>4, <2>5 DEF Next, Step
<1>2. (IInv /\ [Next]_vars) =>
        [(stage \in KeyStages \cup {"gather"} /\ stage' = "discover"
          /\ cipherKey' # None) => retired[cipherKey'] < KeyTTL]_vars
  BY <1>1
<1> QED BY <1>2, Invariance, PTL DEF Spec, EncryptsWithRecentKey

\* What is uploaded names the cluster and has a list of every kind of resource,
\* and in it exactly the objects gathered but for the deleted ones and the TLS
\* Secrets whose tls.crt holds no client certificate or cannot be read.
THEOREM SnapshotsAreWhole == Spec => []SentLastGathered
<1>1. ASSUME TypeOK, ConvertedInv PROVE SentLastGathered
  <2> SUFFICES ASSUME stage = "sleep"
               PROVE  /\ HasClusterID(readings)
                      /\ \A g \in Extractors :
                             \E i \in DOMAIN readings : readings[i].gatherer = g
                      /\ \A i \in DOMAIN readings :
                             readings[i].gatherer \in ListGatherers =>
                                 sent[readings[i].gatherer] =
                                     {o \in readings[i].items :
                                         /\ ~o.deleted
                                         /\ readings[i].gatherer = "ark/secrets" =>
                                              o.class \in {"client", "doubtful", "plain"}}
    BY DEF SentLastGathered
  <2>1. Converts(readings) /\ sent = Snapshot(readings) /\ HasClusterID(readings)
    BY <1>1 DEF ConvertedInv
  <2>2. \A g \in Extractors : \E i \in DOMAIN readings : readings[i].gatherer = g
    BY <2>1 DEF Converts
  <2>3. readings \in Gathered
    <3>1. readings # << >>
      BY <2>2 DEF Extractors
    <3> QED BY <1>1, <3>1 DEF TypeOK
  <2>4. ASSUME NEW i \in DOMAIN readings, readings[i].gatherer \in ListGatherers
        PROVE  sent[readings[i].gatherer] =
                   {o \in readings[i].items :
                       /\ ~o.deleted
                       /\ readings[i].gatherer = "ark/secrets" =>
                            o.class \in {"client", "doubtful", "plain"}}
    <3>1. \A o \in readings[i].items : o.class \in Class
      <4>1. readings[i] \in Reading
        BY <2>3, ReadingAssumption
      <4> QED BY <4>1 DEF Reading, Item
    <3>2. sent[readings[i].gatherer] =
              IF readings[i].gatherer = "ark/secrets" THEN Minimize(Extract(readings[i]))
              ELSE Extract(readings[i])
      BY <2>1, <2>3, <2>4, ListOfReading
    <3>3. CASE readings[i].gatherer = "ark/secrets"
      BY <3>1, <3>2, <3>3 DEF Minimize, IsExcludable, Extract, Class
    <3>4. CASE readings[i].gatherer # "ark/secrets"
      BY <3>2, <3>4 DEF Extract
    <3> QED BY <3>3, <3>4
  <2> QED BY <2>1, <2>2, <2>4
<1>2. TypeOK /\ ConvertedInv => SentLastGathered
  BY <1>1
<1> QED BY <1>2, TypeCorrect, ConvertedInvariance, PTL
============
