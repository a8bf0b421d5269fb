---------------------------- MODULE TokenClient -----------------------------
(***************************************************************************)
(* The upload clients that authenticate with a bearer token they renew:    *)
(* OAuthClient (pkg/client/client_oauth.go), with a password, and          *)
(* VenafiCloudClient and NGTSClient (client_venafi_cloud.go and            *)
(* client_ngts.go, one the copy of the other), with a key pair.  An upload *)
(* asks the authorization server for a token if the client has none it     *)
(* takes for valid, and POSTs the readings with it.  A refused upload is   *)
(* retried, with the same token while the client takes it for valid, until *)
(* the retries give up, which ends the agent.                              *)
(*                                                                         *)
(* The two servers act while a request is under way: what counts is the    *)
(* age of a token when the upload arrives, and the client knows only when  *)
(* it asked for the token and when the answer came.                        *)
(***************************************************************************)
EXTENDS Naturals

CONSTANTS
    Kind,         \* the kinds of client considered: "oauth", "keypair"
    None,         \* no token
    Lives,        \* the lives a token may have (expires_in)
    Margin,       \* a key pair's token is renewed this long before it expires (1m)
    Timeout,      \* of the http.Client (1m)
    BackoffMax,   \* --backoff-max-time, for the retries and for each attempt
    RetryWait,    \* the wait between two attempts
    Period,       \* --period
    AgeCap,       \* bound: the age of a token counts no further
    MaxFailures   \* bound: requests that fail, tokens revoked, empty tokens

Kinds == {"oauth", "keypair"}

ASSUME KindAssumption == Kind \subseteq Kinds

\* The margin is there for the upload to arrive in time.
ASSUME TimeAssumption ==
    /\ Margin \in Nat /\ Timeout \in Nat /\ Timeout <= Margin
    /\ BackoffMax \in Nat \ {0} /\ RetryWait \in Nat \ {0} /\ Period \in Nat \ {0}
    /\ Lives \subseteq Nat

\* A token is past its life, and past all that is asserted of it, at the cap.
ASSUME CapAssumption ==
    /\ AgeCap \in Nat
    /\ \A l \in Lives : AgeCap > l + BackoffMax + Timeout

ASSUME FailureAssumption == MaxFailures \in Nat

VARIABLES
    kind,      \* the client of this agent
    stage,     \* the request under way, or what Run waits for
    token,     \* accessToken of the client
    issued,    \* the token in the answer to a renewal
    request,   \* ticks since the request under way was made
    failures,
    elapsed, posting, wait

clock == <<elapsed, posting, wait>>
vars == <<kind, stage, token, issued, request, failures, elapsed, posting, wait>>

\* age: since the server issued it; known: since the time from which the
\* client counts its life.
Token == [age : Nat, known : Nat, life : Lives, empty : BOOLEAN, revoked : BOOLEAN]

ASSUME NoneAssumption == None \notin Token

\* The requests of an attempt, and the point each has reached.
AskStages == {"ask", "asked"}
UploadStages == {"upload", "accepted", "refused"}
AttemptStages == {"attempt"} \cup AskStages \cup UploadStages
Stages == AttemptStages \cup {"gather", "retry", "sleep", "exited"}

Init ==
    /\ kind \in Kind
    /\ stage = "gather"
    /\ token = None
    /\ issued = None
    /\ request = 0
    /\ failures = 0
    /\ elapsed = 0
    /\ posting = 0
    /\ wait = 0

-----------------------------------------------------------------------------
(* The client.  An operator whose comment begins with "Faulty" is no part  *)
(* of the specification: it is what the definition after it would be with  *)
(* a plausible bug in the code.                                            *)

\* Faulty: only a client without a token asks for one.
NeedsRenewOnce == token = None \/ token.empty

\* accessToken.needsRenew of OAuthClient.
NeedsRenew == token = None \/ token.empty \/ token.known > token.life

\* Faulty: only a client without a token asks for one.
NeedsUpdateOnce == token = None

\* needsUpdate of VenafiCloudClient and NGTSClient.  A token without a value
\* is a token.
NeedsUpdate == token = None \/ token.known + Margin > token.life

Gather ==
    /\ stage = "gather"
    /\ stage' = "attempt"
    /\ UNCHANGED <<kind, token, issued, request, failures, clock>>

\* PostDataReadingsWithOptions, up to its first request.
Attempt ==
    /\ stage = "attempt"
    /\ stage' = IF (kind = "oauth" /\ NeedsRenew) \/ (kind = "keypair" /\ NeedsUpdate)
                THEN "ask" ELSE "upload"
    /\ request' = 0
    /\ UNCHANGED <<kind, token, issued, failures, clock>>

\* backoff.Retry waits for another attempt, or gives up, which ends the agent.
AttemptFails ==
    /\ IF elapsed + RetryWait <= BackoffMax
       THEN stage' = "retry" /\ wait' = RetryWait /\ UNCHANGED elapsed
       ELSE stage' = "exited" /\ elapsed' = 0 /\ UNCHANGED wait
    /\ issued' = None
    /\ request' = 0
    /\ posting' = 0

\* The upload is sent with the token just stored.
Send ==
    /\ stage' = "upload"
    /\ issued' = None
    /\ request' = 0
    /\ UNCHANGED clock

\* Faulty: a token without a life is stored.
RenewAccessTokenUnchecked ==
    /\ stage = "asked" /\ kind = "oauth"
    /\ token' = issued
    /\ Send
    /\ UNCHANGED <<kind, failures>>

\* OAuthClient counts the life of a token from when it got the answer.
RenewAccessToken ==
    /\ stage = "asked" /\ kind = "oauth"
    /\ IF issued.life = 0
       THEN AttemptFails /\ UNCHANGED token
       ELSE Send /\ token' = issued
    /\ UNCHANGED <<kind, failures>>

\* Faulty: the time is taken when the answer has come.
UpdateAccessTokenLate ==
    /\ stage = "asked" /\ kind = "keypair"
    /\ token' = issued
    /\ Send
    /\ UNCHANGED <<kind, failures>>

\* The others count it from just before they asked.
UpdateAccessToken ==
    /\ stage = "asked" /\ kind = "keypair"
    /\ token' = [issued EXCEPT !.known = request]
    /\ Send
    /\ UNCHANGED <<kind, failures>>

\* The upload was accepted; the loop waits for the period.
Post ==
    /\ stage = "accepted"
    /\ stage' = "sleep"
    /\ wait' = Period
    /\ request' = 0
    /\ elapsed' = 0
    /\ posting' = 0
    /\ UNCHANGED <<kind, token, issued, failures>>

\* It was refused; the client keeps its token.
PostRefused ==
    /\ stage = "refused"
    /\ AttemptFails
    /\ UNCHANGED <<kind, token, failures>>

\* A request fails, or its answer is lost or cannot be used.
RequestFails ==
    /\ stage \in AskStages \cup UploadStages
    /\ failures < MaxFailures
    /\ failures' = failures + 1
    /\ AttemptFails
    /\ UNCHANGED <<kind, token>>

Retry ==
    /\ stage = "retry"
    /\ wait = 0
    /\ stage' = "attempt"
    /\ UNCHANGED <<kind, token, issued, request, failures, clock>>

SleepOver ==
    /\ stage = "sleep"
    /\ wait = 0
    /\ stage' = "gather"
    /\ UNCHANGED <<kind, token, issued, request, failures, clock>>

\* The container is started again, and its client has no token.
Restart ==
    /\ stage = "exited"
    /\ stage' = "gather"
    /\ token' = None
    /\ UNCHANGED <<kind, issued, request, failures, clock>>

-----------------------------------------------------------------------------
(* The servers and the clock. *)

\* The authorization server answers; exceptionally without a token.
Issue ==
    /\ stage = "ask"
    /\ \E l \in Lives :
         \/ /\ issued' = [age |-> 0, known |-> 0, life |-> l,
                          empty |-> FALSE, revoked |-> FALSE]
            /\ UNCHANGED failures
         \/ /\ failures < MaxFailures
            /\ failures' = failures + 1
            /\ issued' = [age |-> 0, known |-> 0, life |-> l,
                          empty |-> TRUE, revoked |-> FALSE]
    /\ stage' = "asked"
    /\ UNCHANGED <<kind, token, request, clock>>

Valid(t) == ~t.empty /\ ~t.revoked /\ t.age <= t.life

\* The upload arrives at the backend.
Arrive ==
    /\ stage = "upload"
    /\ stage' = IF Valid(token) THEN "accepted" ELSE "refused"
    /\ UNCHANGED <<kind, token, issued, request, failures, clock>>

Revoke ==
    /\ token # None
    /\ ~token.revoked
    /\ failures < MaxFailures
    /\ failures' = failures + 1
    /\ token' = [token EXCEPT !.revoked = TRUE]
    /\ UNCHANGED <<kind, stage, issued, request, clock>>

Older(n) == IF n < AgeCap THEN n + 1 ELSE n

\* An answer under way has no known age: the life is counted when it is there.
Aged(t) ==
    IF t = None THEN None ELSE [t EXCEPT !.age = Older(@), !.known = Older(@)]
AgedUnderWay(t) ==
    IF t = None THEN None ELSE [t EXCEPT !.age = Older(@)]

\* A request ends by its client's timeout, of which OAuthClient's request for a
\* token has none; and every request ends with its attempt.
Tick ==
    /\ stage \in AttemptStages => posting < BackoffMax
    /\ (stage \in UploadStages \/ (stage \in AskStages /\ kind = "keypair"))
         => request < Timeout
    /\ stage \in {"retry", "sleep"} => wait > 0
    /\ stage # "exited"
    /\ token' = Aged(token)
    /\ issued' = AgedUnderWay(issued)
    /\ request' = IF stage \in AskStages \cup UploadStages THEN request + 1 ELSE request
    /\ posting' = IF stage \in AttemptStages THEN posting + 1 ELSE posting
    /\ elapsed' = IF stage \in AttemptStages \cup {"retry"} THEN elapsed + 1 ELSE elapsed
    /\ wait' = IF stage \in {"retry", "sleep"} THEN wait - 1 ELSE wait
    /\ UNCHANGED <<kind, stage, failures>>

-----------------------------------------------------------------------------
Step ==
    \/ Gather \/ Attempt \/ RenewAccessToken \/ UpdateAccessToken
    \/ Post \/ PostRefused \/ Retry \/ SleepOver \/ Restart
    \/ Issue \/ Arrive

Next == Step \/ RequestFails \/ Revoke \/ Tick

Spec == Init /\ [][Next]_vars

\* Requests end, time passes while the agent waits for it, and a container that
\* has exited is started again.
FairSpec ==
    /\ Spec
    /\ WF_vars(Step)
    /\ WF_vars(stage \in {"retry", "sleep"} /\ Tick)

-----------------------------------------------------------------------------
(* Properties. *)

\* An OAuthClient holds no token without a life: it would hold it for valid
\* and never use it in time.
TypeOK ==
    /\ kind \in Kind
    /\ stage \in Stages
    /\ token \in {None} \cup Token
    /\ issued \in {None} \cup Token
    /\ stage = "asked" => issued # None
    /\ stage \in UploadStages => token # None
    /\ kind = "oauth" /\ token # None => token.life > 0
    /\ request \in Nat /\ failures \in Nat
    /\ elapsed \in Nat /\ posting \in Nat /\ wait \in Nat

\* A client with a key pair never has an upload refused because its token has
\* expired, if tokens live for twice the timeout or longer: the margin covers
\* the way of the upload, and the way of the token is counted as part of its
\* life.
KeypairNeverExpired ==
    [][(stage = "upload" /\ stage' = "refused" /\ kind = "keypair") =>
        \/ token.empty \/ token.revoked
        \/ token.life < 2 * Timeout]_vars

\* An OAuthClient may, but only shortly after: no longer than the token was on
\* its way, and the upload.
OAuthBarelyExpired ==
    [][(stage = "upload" /\ stage' = "refused" /\ kind = "oauth") =>
        \/ token.empty \/ token.revoked
        \/ token.age <= token.life + BackoffMax + Timeout]_vars

\* If from some time on tokens live long enough, uploads are accepted again and
\* again, whatever was revoked, lost or empty before; and with a key pair the
\* agent does not have to exit for it any more.
UploadsGoOn ==
    <>[](\A t \in {token, issued} \ {None} : t.life >= BackoffMax + Timeout)
        => /\ []<>(stage = "sleep")
           /\ kind = "keypair" => <>[](stage # "exited")
=============================================================================
