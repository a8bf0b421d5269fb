-------------------------- MODULE TokenClientProofs --------------------------
(***************************************************************************)
(* Proofs about the clients that renew their token.  The argument: what a  *)
(* client with a key pair knows of the age of its token is never less than *)
(* the age; what an OAuthClient knows is less by no more than the time an  *)
(* attempt may take; and when an upload is sent the known age is within    *)
(* the life, by the margin or because the token is new.                    *)
(***************************************************************************)
EXTENDS TokenClient, TLAPS

\* Requests, and attempts, end in time.
InTime ==
    /\ stage \in UploadStages => request <= Timeout
    /\ stage \in AskStages =>
         request <= posting /\ (kind = "keypair" => request <= Timeout)
    /\ posting <= BackoffMax

\* The answer under way was made after it was asked for.
IssuedSinceAsked ==
    stage = "asked" => issued.age <= request /\ issued.known = 0

\* What the client knows of the age of its token.
KnownAge ==
    token # None =>
        /\ kind = "keypair" => token.age <= token.known
        /\ kind = "oauth" => token.age <= token.known + BackoffMax

\* An upload under way was sent with a token within its life, or a new one.
SentInTime ==
    stage = "upload" =>
        /\ kind = "keypair" =>
             \/ token.known + Margin <= token.life + request
             \/ token.known <= Timeout + request
        /\ kind = "oauth" => token.known <= token.life + request

IInv == TypeOK /\ InTime /\ IssuedSinceAsked /\ KnownAge /\ SentInTime

USE DEF Kinds, AskStages, UploadStages, AttemptStages, Stages, Token

LEMMA Assumptions ==
    /\ Kind \subseteq {"oauth", "keypair"}
    /\ Margin \in Nat /\ Timeout \in Nat /\ Timeout <= Margin
    /\ BackoffMax \in Nat /\ RetryWait \in Nat /\ Period \in Nat
    /\ Lives \subseteq Nat /\ AgeCap \in Nat
    /\ None \notin Token
BY KindAssumption, TimeAssumption, CapAssumption, NoneAssumption

LEMMA InitHolds == Init => IInv
<1> SUFFICES ASSUME Init PROVE IInv OBVIOUS
<1>1. TypeOK
  BY Assumptions DEF Init, TypeOK
<1> QED BY <1>1, Assumptions
        DEF Init, IInv, InTime, IssuedSinceAsked, KnownAge, SentInTime

-----------------------------------------------------------------------------
(* Steps by what they leave alone. *)

\* A failed attempt has no request under way.
LEMMA FailedAttempt ==
    ASSUME TypeOK, AttemptFails
    PROVE  /\ stage' \in {"retry", "exited"} /\ issued' = None
           /\ request' \in Nat /\ elapsed' \in Nat /\ wait' \in Nat
           /\ posting' = 0
BY Assumptions DEF AttemptFails, TypeOK

\* A step to a stage without a request, that leaves the token alone.
LEMMA NoRequest ==
    ASSUME IInv, TypeOK', UNCHANGED <<kind, token>>,
           stage' \notin AskStages \cup UploadStages,
           posting' = posting \/ posting' = 0
    PROVE  IInv'
<1>1. InTime'
  BY Assumptions DEF IInv, InTime
<1> QED BY <1>1 DEF IInv, IssuedSinceAsked, KnownAge, SentInTime

LEMMA FailSteps == IInv /\ (PostRefused \/ RequestFails) => IInv'
<1> SUFFICES ASSUME IInv, PostRefused \/ RequestFails PROVE IInv' OBVIOUS
<1>1. AttemptFails /\ UNCHANGED <<kind, token>> /\ failures' \in Nat
  BY DEF PostRefused, RequestFails, IInv, TypeOK
<1>2. TypeOK'
  BY <1>1, FailedAttempt DEF IInv, TypeOK
<1> QED BY <1>1, <1>2, FailedAttempt, NoRequest DEF IInv

LEMMA WaitSteps == IInv /\ (Gather \/ Post \/ Retry \/ SleepOver) => IInv'
<1> SUFFICES ASSUME IInv, Gather \/ Post \/ Retry \/ SleepOver PROVE IInv' OBVIOUS
<1>1. TypeOK'
  BY Assumptions DEF Gather, Post, Retry, SleepOver, clock, IInv, TypeOK
<1> QED BY <1>1, NoRequest DEF Gather, Post, Retry, SleepOver, clock

LEMMA RestartStep == IInv /\ Restart => IInv'
<1> SUFFICES ASSUME IInv, Restart PROVE IInv' OBVIOUS
<1>1. TypeOK'
  BY DEF Restart, clock, IInv, TypeOK
<1> QED BY <1>1 DEF Restart, clock, IInv, InTime, IssuedSinceAsked, KnownAge, SentInTime

-----------------------------------------------------------------------------
(* Asking for a token. *)

LEMMA AttemptStep == IInv /\ Attempt => IInv'
<1> SUFFICES ASSUME IInv, Attempt PROVE IInv' OBVIOUS
<1>1. UNCHANGED <<kind, token, issued, posting>> /\ request' = 0
  BY DEF Attempt, clock
<1>2. CASE stage' = "ask"
  <2>1. TypeOK'
    BY <1>1, <1>2 DEF Attempt, clock, IInv, TypeOK
  <2>2. InTime'
    BY <1>1, <1>2, Assumptions DEF IInv, TypeOK, InTime
  <2> QED BY <1>1, <1>2, <2>1, <2>2 DEF IInv, IssuedSinceAsked, KnownAge, SentInTime
<1>3. CASE stage' = "upload"
  <2>1. /\ kind = "oauth" => ~NeedsRenew
        /\ kind = "keypair" => ~NeedsUpdate
    BY <1>3 DEF Attempt
  <2>2. token # None /\ token \in Token
    BY <2>1, Assumptions DEF NeedsRenew, NeedsUpdate, IInv, TypeOK
  <2>3. TypeOK'
    BY <1>1, <1>3, <2>2 DEF Attempt, clock, IInv, TypeOK
  <2>4. InTime'
    BY <1>1, <1>3, Assumptions DEF IInv, TypeOK, InTime
  <2>5. /\ token' = token /\ kind' = kind /\ request' = 0
        /\ token.known \in Nat /\ token.life \in Nat
    BY <1>1, <2>2, Assumptions
  <2>6. /\ kind = "oauth" => token.known <= token.life
        /\ kind = "keypair" => token.known + Margin <= token.life
    BY <2>1, <2>5, Assumptions DEF NeedsRenew, NeedsUpdate
  <2>7. SentInTime'
    BY <2>5, <2>6, Assumptions DEF SentInTime
  <2> QED BY <1>1, <1>3, <2>3, <2>4, <2>7 DEF IInv, IssuedSinceAsked, KnownAge
<1> QED BY <1>2, <1>3 DEF Attempt

LEMMA IssueStep == IInv /\ Issue => IInv'
<1> SUFFICES ASSUME IInv, Issue PROVE IInv' OBVIOUS
<1>1. PICK l \in Lives, e \in BOOLEAN :
        issued' = [age |-> 0, known |-> 0, life |-> l, empty |-> e, revoked |-> FALSE]
  BY DEF Issue
<1>2. issued' \in Token /\ issued' # None /\ issued'.age = 0 /\ issued'.known = 0
  <2>1. issued' \in Token /\ issued'.age = 0 /\ issued'.known = 0
    BY <1>1
  <2> HIDE DEF Token
  <2> QED BY <2>1, Assumptions
<1>3. UNCHANGED <<kind, token, request, posting>> /\ failures' \in Nat
  BY DEF Issue, clock, IInv, TypeOK
<1>4. TypeOK'
  BY <1>2, <1>3 DEF Issue, clock, IInv, TypeOK
<1>5. InTime'
  BY <1>3 DEF Issue, IInv, InTime
<1>6. IssuedSinceAsked' /\ KnownAge' /\ SentInTime'
  BY <1>2, <1>3 DEF Issue, IInv, TypeOK, IssuedSinceAsked, KnownAge, SentInTime
<1> QED BY <1>4, <1>5, <1>6 DEF IInv

\* The upload is sent with a new token.
LEMMA SendStep ==
    ASSUME IInv, Send, UNCHANGED <<kind, failures>>,
           token' \in Token,
           kind = "oauth" => token'.life > 0,
           KnownAge', SentInTime'
    PROVE  IInv'
<1>1. TypeOK'
  BY Assumptions DEF Send, clock, IInv, TypeOK
<1>2. InTime' /\ IssuedSinceAsked'
  BY Assumptions DEF Send, clock, IInv, InTime, IssuedSinceAsked
<1> QED BY <1>1, <1>2 DEF IInv

LEMMA RenewStep == IInv /\ RenewAccessToken => IInv'
<1> SUFFICES ASSUME IInv, RenewAccessToken PROVE IInv' OBVIOUS
<1>1. /\ issued \in Token /\ issued.known = 0
      /\ issued.age \in Nat /\ issued.life \in Nat /\ request \in Nat /\ posting \in Nat
      /\ issued.age <= request /\ request <= posting /\ posting <= BackoffMax
  BY Assumptions DEF RenewAccessToken, IInv, TypeOK, IssuedSinceAsked, InTime
<1>2. CASE issued.life = 0
  <2>1. AttemptFails /\ UNCHANGED <<kind, token, failures>>
    BY <1>2 DEF RenewAccessToken
  <2>2. TypeOK'
    BY <2>1, FailedAttempt DEF IInv, TypeOK
  <2> QED BY <2>1, <2>2, FailedAttempt, NoRequest DEF IInv
<1>3. CASE issued.life # 0
  <2>1. Send /\ token' = issued /\ UNCHANGED <<kind, failures>> /\ kind = "oauth"
    BY <1>3 DEF RenewAccessToken
  <2>2. KnownAge'
    BY <1>1, <2>1, Assumptions DEF KnownAge
  <2>3. SentInTime'
    BY <1>1, <2>1 DEF Send, SentInTime
  <2> QED BY <1>1, <1>3, <2>1, <2>2, <2>3, SendStep
<1> QED BY <1>2, <1>3

LEMMA UpdateStep == IInv /\ UpdateAccessToken => IInv'
<1> SUFFICES ASSUME IInv, UpdateAccessToken PROVE IInv' OBVIOUS
<1>1. /\ issued \in Token /\ issued.age \in Nat /\ request \in Nat
      /\ issued.age <= request /\ request <= Timeout
  BY Assumptions DEF UpdateAccessToken, IInv, TypeOK, IssuedSinceAsked, InTime
<1>2. Send /\ UNCHANGED <<kind, failures>> /\ kind = "keypair"
  BY DEF UpdateAccessToken
<1>3. token' \in Token /\ token'.age = issued.age /\ token'.known = request
  BY <1>1 DEF UpdateAccessToken
<1>4. KnownAge'
  BY <1>1, <1>2, <1>3 DEF KnownAge
<1>5. SentInTime'
  BY <1>1, <1>2, <1>3, Assumptions DEF Send, SentInTime
<1> QED BY <1>2, <1>3, <1>4, <1>5, SendStep

-----------------------------------------------------------------------------
(* The backend and the clock. *)

LEMMA ArriveStep == IInv /\ Arrive => IInv'
<1> SUFFICES ASSUME IInv, Arrive PROVE IInv' OBVIOUS
<1>1. TypeOK'
  BY DEF Arrive, clock, IInv, TypeOK
<1>2. InTime'
  BY DEF Arrive, clock, IInv, InTime
<1> QED BY <1>1, <1>2 DEF Arrive, IInv, IssuedSinceAsked, KnownAge, SentInTime

LEMMA RevokeStep == IInv /\ Revoke => IInv'
<1> SUFFICES ASSUME IInv, Revoke PROVE IInv' OBVIOUS
<1>1. token \in Token
  BY DEF Revoke, IInv, TypeOK
<1>2. /\ token' \in Token
      /\ token'.age = token.age /\ token'.known = token.known /\ token'.life = token.life
  BY <1>1 DEF Revoke
<1>3. UNCHANGED <<kind, stage, issued, request, elapsed, posting, wait>> /\ failures' \in Nat
  BY DEF Revoke, clock, IInv, TypeOK
<1>4. TypeOK'
  BY <1>1, <1>2, <1>3, Assumptions DEF Revoke, IInv, TypeOK
<1>5. InTime' /\ IssuedSinceAsked'
  BY <1>3 DEF IInv, InTime, IssuedSinceAsked
<1>6. KnownAge' /\ SentInTime'
  BY <1>2, <1>3 DEF Revoke, IInv, KnownAge, SentInTime
<1> QED BY <1>4, <1>5, <1>6 DEF IInv

LEMMA Aging ==
    ASSUME NEW t \in Token
    PROVE  /\ t.age \in Nat /\ t.known \in Nat /\ t.life \in Nat
           /\ Aged(t) \in Token /\ AgedUnderWay(t) \in Token
           /\ Aged(t).age = Older(t.age) /\ Aged(t).known = Older(t.known)
           /\ Aged(t).life = t.life
           /\ AgedUnderWay(t).age = Older(t.age) /\ AgedUnderWay(t).known = t.known
<1>1. t # None
  <2> HIDE DEF Token
  <2> QED BY Assumptions
<1>2. t.age \in Nat /\ t.known \in Nat /\ t.life \in Nat
  BY Assumptions
<1>3. Older(t.age) \in Nat /\ Older(t.known) \in Nat
  BY <1>2 DEF Older
<1> HIDE DEF Older
<1>4. Aged(t) = [t EXCEPT !.age = Older(t.age), !.known = Older(t.known)]
  BY <1>1 DEF Aged
<1>5. AgedUnderWay(t) = [t EXCEPT !.age = Older(t.age)]
  BY <1>1 DEF AgedUnderWay
<1> QED BY <1>2, <1>3, <1>4, <1>5

\* A lag between two ages stays, or shrinks at the cap.
LEMMA Lag ==
    ASSUME NEW m \in Nat, NEW n \in Nat, NEW d \in Nat, m <= n + d
    PROVE  /\ Older(m) <= Older(n) + d
           /\ Older(m) <= m + 1
BY Assumptions DEF Older

LEMMA TickStep == IInv /\ Tick => IInv'
<1> SUFFICES ASSUME IInv, Tick PROVE IInv' OBVIOUS
<1>1. /\ UNCHANGED <<kind, stage, failures>>
      /\ request \in Nat /\ posting \in Nat /\ kind \in {"oauth", "keypair"}
  BY Assumptions DEF Tick, IInv, TypeOK
<1>2. /\ token = None => token' = None
      /\ token # None => token \in Token /\ token' = Aged(token) /\ token' # None
      /\ issued = None => issued' = None
      /\ issued # None => issued \in Token /\ issued' = AgedUnderWay(issued) /\ issued' # None
  BY Aging, Assumptions DEF Tick, IInv, TypeOK, Aged, AgedUnderWay
<1>3. TypeOK'
  <2>1. token' \in {None} \cup Token /\ issued' \in {None} \cup Token
    BY <1>2, Aging
  <2>2. stage \in UploadStages => token' # None
    BY <1>2 DEF IInv, TypeOK
  <2>3. stage = "asked" => issued' # None
    BY <1>2 DEF IInv, TypeOK
  <2>4. kind = "oauth" /\ token' # None => token'.life > 0
    BY <1>2, Aging DEF IInv, TypeOK
  <2>5. request' \in Nat /\ posting' \in Nat /\ elapsed' \in Nat /\ wait' \in Nat
    BY DEF Tick, IInv, TypeOK
  <2> QED BY <1>1, <2>1, <2>2, <2>3, <2>4, <2>5 DEF IInv, TypeOK
<1>4. InTime'
  BY <1>1, Assumptions DEF Tick, IInv, InTime
<1>5. IssuedSinceAsked'
  <2> SUFFICES ASSUME stage = "asked" PROVE issued'.age <= request' /\ issued'.known = 0
    BY <1>1 DEF IssuedSinceAsked
  <2>1. issued \in Token /\ issued' = AgedUnderWay(issued)
    BY <1>2 DEF IInv, TypeOK
  <2>2. issued.age <= request /\ issued.known = 0 /\ request' = request + 1
    BY DEF Tick, IInv, IssuedSinceAsked
  <2>3. issued.age \in Nat
    BY <2>1, Aging
  <2>4. Older(issued.age) <= issued.age + 1 /\ Older(issued.age) \in Nat
    BY <2>3, Assumptions DEF Older
  <2> QED BY <1>1, <2>1, <2>2, <2>3, <2>4, Aging
<1>6. KnownAge'
  <2> SUFFICES ASSUME token' # None
               PROVE  /\ kind = "keypair" => token'.age <= token'.known
                      /\ kind = "oauth" => token'.age <= token'.known + BackoffMax
    BY <1>1 DEF KnownAge
  <2>1. token \in Token /\ token' = Aged(token) /\ token # None
    BY <1>2
  <2>2. /\ token'.age = Older(token.age) /\ token'.known = Older(token.known)
        /\ token.age \in Nat /\ token.known \in Nat
        /\ Older(token.age) \in Nat /\ Older(token.known) \in Nat
    BY <2>1, Aging, Assumptions DEF Older
  <2>3. CASE kind = "keypair"
    BY <2>1, <2>2, <2>3, Assumptions DEF IInv, KnownAge, Older
  <2>4. CASE kind = "oauth"
    <3>1. token.age <= token.known + BackoffMax
      BY <2>1, <2>4 DEF IInv, KnownAge
    <3>2. Older(token.age) <= Older(token.known) + BackoffMax
      BY <2>2, <3>1, Assumptions, Lag
    <3> QED BY <2>2, <2>4, <3>2
  <2> QED BY <1>1, <2>3, <2>4
<1>7. SentInTime'
  <2> SUFFICES ASSUME stage = "upload" PROVE SentInTime'
    BY <1>1 DEF SentInTime
  <2>1. token \in Token /\ token' = Aged(token)
    BY <1>2 DEF IInv, TypeOK
  <2>2. /\ token'.known <= token.known + 1 /\ token'.life = token.life
        /\ token.known \in Nat /\ token'.known \in Nat /\ token.life \in Nat
    <3>1. /\ token'.known = Older(token.known) /\ token'.life = token.life
          /\ token.known \in Nat /\ token.life \in Nat
      BY <2>1, Aging
    <3> QED BY <3>1, Assumptions DEF Older
  <2>3. request' = request + 1
    BY DEF Tick
  <2> QED BY <1>1, <2>2, <2>3, Assumptions DEF IInv, SentInTime
<1> QED BY <1>3, <1>4, <1>5, <1>6, <1>7 DEF IInv

LEMMA NextStep == IInv /\ [Next]_vars => IInv'
<1> SUFFICES ASSUME IInv, [Next]_vars PROVE IInv' OBVIOUS
<1>1. CASE Next
  BY <1>1, AttemptStep, IssueStep, RenewStep, UpdateStep, ArriveStep, RevokeStep,
     TickStep, FailSteps, WaitSteps, RestartStep DEF Next, Step
<1>2. CASE UNCHANGED vars
  BY <1>2 DEF vars, IInv, TypeOK, InTime, IssuedSinceAsked, KnownAge, SentInTime
<1> QED BY <1>1, <1>2

LEMMA Invariance == Spec => []IInv
BY InitHolds, NextStep, PTL DEF Spec

-----------------------------------------------------------------------------
(* The theorems. *)

\* Every variable keeps its type, and an OAuthClient holds no token without a
\* life.
THEOREM TypeCorrect == Spec => []TypeOK
<1>1. IInv => TypeOK
  BY DEF IInv
<1> QED BY <1>1, Invariance, PTL

\* An upload that arrives was sent by this step.
LEMMA OnlyArrivalRefuses ==
    ASSUME IInv, [Next]_vars, stage = "upload", stage' = "refused"
    PROVE  Arrive
<1>1. CASE Step
  BY <1>1 DEF Step, Gather, Attempt, RenewAccessToken, UpdateAccessToken, Post,
     PostRefused, Retry, SleepOver, Restart, Issue
<1>2. CASE RequestFails
  BY <1>2, FailedAttempt DEF RequestFails, IInv
<1>3. CASE Revoke \/ Tick \/ UNCHANGED vars
  BY <1>3 DEF Revoke, Tick, vars
<1> QED BY <1>1, <1>2, <1>3 DEF Next

\* A key pair's token that lives for twice the timeout has not expired when the
\* upload arrives.
THEOREM KeypairArrivesInTime == Spec => KeypairNeverExpired
<1>1. ASSUME IInv, [Next]_vars, stage = "upload", stage' = "refused", kind = "keypair"
      PROVE  token.empty \/ token.revoked \/ token.life < 2 * Timeout
  <2>1. Arrive
    BY <1>1, OnlyArrivalRefuses
  <2>2. /\ token \in Token /\ token.age \in Nat /\ token.known \in Nat /\ token.life \in Nat
        /\ request \in Nat
    BY <1>1, Assumptions DEF IInv, TypeOK
  <2>3. /\ token.age <= token.known /\ request <= Timeout
        /\ \/ token.known + Margin <= token.life + request
           \/ token.known <= Timeout + request
    BY <1>1, <2>2, Assumptions DEF IInv, KnownAge, InTime, SentInTime
  <2>4. token.life >= 2 * Timeout => token.age <= token.life
    BY <2>2, <2>3, Assumptions
  <2>5. token.empty \/ token.revoked \/ ~(token.age <= token.life)
    BY <1>1, <2>1 DEF Arrive, Valid
  <2> QED BY <2>2, <2>4, <2>5, Assumptions
<1>2. (IInv /\ [Next]_vars) =>
        [(stage = "upload" /\ stage' = "refused" /\ kind = "keypair") =>
           \/ token.empty \/ token.revoked
           \/ token.life < 2 * Timeout]_vars
  BY <1>1
<1> QED BY <1>2, Invariance, PTL DEF Spec, KeypairNeverExpired

\* An OAuthClient's token expired only shortly before the upload arrives.
THEOREM OAuthArrivesSoon == Spec => OAuthBarelyExpired
<1>1. ASSUME IInv, [Next]_vars, stage = "upload", stage' = "refused", kind = "oauth"
      PROVE  \/ token.empty \/ token.revoked
             \/ token.age <= token.life + BackoffMax + Timeout
  <2>1. /\ token \in Token /\ token.age \in Nat /\ token.known \in Nat /\ token.life \in Nat
        /\ request \in Nat
    BY <1>1, Assumptions DEF IInv, TypeOK
  <2>2. /\ token.age <= token.known + BackoffMax /\ request <= Timeout
        /\ token.known <= token.life + request
    BY <1>1, <2>1, Assumptions DEF IInv, KnownAge, InTime, SentInTime
  <2> QED BY <2>1, <2>2, Assumptions
<1>2. (IInv /\ [Next]_vars) =>
        [(stage = "upload" /\ stage' = "refused" /\ kind = "oauth") =>
           \/ token.empty \/ token.revoked
           \/ token.age <= token.life + BackoffMax + Timeout]_vars
  BY <1>1
<1> QED BY <1>2, Invariance, PTL DEF Spec, OAuthBarelyExpired
=============================================================================
