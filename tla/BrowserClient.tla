---------------------------- MODULE BrowserClient ----------------------------
(***************************************************************************)
(* AegisClient in one page (js-sdk/src), with TokenManager and             *)
(* RequestInterceptor, against what the node server answers it: the page's *)
(* own requests take the cached token or wait for the one telemetry        *)
(* submission in flight, and a challenged fetch waits for the one solution *)
(* in flight and is sent once more.  Every action is a stretch between     *)
(* awaits.  A request is judged when it is sent; its answer takes time, as *)
(* do those of submissions and solutions, which may also fail.  Tokens     *)
(* carry the time they have left, so behaviours need not end.              *)
(***************************************************************************)
EXTENDS Integers

CONSTANTS
  Requests,       \* the page's fetches, with bodies that can be sent again
  Required,       \* those to token-required paths
  Ttl,            \* lifetime of a token
  Skew,           \* how long before its end the client takes it for expired
  MaxDelay,       \* bound: the longest an answer with a token is under way
  NoToken,
  None, Sent,     \* no call in flight; a call the server has not answered
  MaxOps          \* bound: calls of stop and reset, and lost records

ASSUME ClientAssumption ==
  /\ Required \subseteq Requests
  /\ Ttl \in Nat /\ Skew \in Nat /\ MaxDelay \in Nat /\ MaxOps \in Nat
  /\ Skew < Ttl

VARIABLES
  initialized,
  token,          \* TokenManager: what the token says, and when it ends for whom
  inFlight,       \* the shared submission: None, Sent, or the token on its way
  challengeInFlight,   \* the shared solution, likewise
  requests,       \* for each request, where it is
  onRecord,       \* the server's record of the session holds telemetry
  ops             \* bound

vars == <<initialized, token, inFlight, challengeInFlight, requests, onRecord, ops>>

\* Lifetimes on the server's clock (exp is floored to a second; negative when it
\* has passed) and on the client's, which starts to count when it receives the
\* token.  History: by how much its answer's delay exceeded the skew.
Token(pow, tel, left, until, late) ==
  [pow |-> pow, tel |-> tel, left |-> left, until |-> until, late |-> late]
Answer(pow, tel, left) == [pow |-> pow, tel |-> tel, left |-> left, age |-> 0]

Beyond(delay) == IF delay > Skew THEN delay - Skew ELSE 0
Expired == -(Beyond(MaxDelay) + 1)
Lefts == Expired..Ttl
Answers == [pow : BOOLEAN, tel : BOOLEAN, left : Lefts, age : 0..MaxDelay]

ASSUME NoneAssumption == None # Sent /\ {None, Sent} \cap Answers = {}

Idle == [pc |-> "idle", verdict |-> "none", hooked |-> FALSE, retried |-> FALSE]

Init ==
  /\ initialized = TRUE
  /\ token = NoToken
  /\ inFlight = None
  /\ challengeInFlight = None
  /\ requests = [r \in Requests |-> Idle]
  /\ onRecord = FALSE
  /\ ops = 0

---------------------------------------------------------------------------
(* The server.                                                             *)

\* evaluate(): what a request with token t (or none) is answered when its score
\* calls for a challenge (middling) or not; blocks end a request as allows do.
Verdict(r, t, middling) ==
  LET valid == t # NoToken /\ t.left >= 0
      pow == valid /\ t.pow
      hasTelemetry == valid /\ (~t.pow \/ t.tel)
  IN IF (middling /\ ~pow) \/ (r \in Required /\ ~hasTelemetry)
     THEN "challenge" ELSE "allow"

\* handleTelemetry(): the record is saved and a token issued.
AnswerTelemetry ==
  /\ inFlight = Sent
  /\ \E left \in {Ttl - 1, Ttl} : inFlight' = Answer(FALSE, FALSE, left)
  /\ onRecord' = TRUE
  /\ UNCHANGED <<initialized, token, challengeInFlight, requests, ops>>

\* handleChallenge(): the solution is right; the token copies the mark.
AnswerChallenge ==
  /\ challengeInFlight = Sent
  /\ \E left \in {Ttl - 1, Ttl} : challengeInFlight' = Answer(TRUE, onRecord, left)
  /\ UNCHANGED <<initialized, token, inFlight, requests, onRecord, ops>>

Operation == ops < MaxOps /\ ops' = ops + 1

\* The record expires, is overwritten, or its store cannot be reached.
LoseRecord ==
  /\ onRecord
  /\ Operation
  /\ onRecord' = FALSE
  /\ UNCHANGED <<initialized, token, inFlight, challengeInFlight, requests>>

---------------------------------------------------------------------------
(* The client.                                                             *)

\* Mutants: tokens are kept to their very end; the skew has the wrong sign.
UntilEnd == Ttl
PastEnd == Ttl + Skew

\* TokenManager.set(): ttlMs - skewMs.
ValidFor == Ttl - Skew

\* TokenManager.get() of token t.
Usable(t) == t # NoToken /\ t.until > 0

\* r is sent with token t and judged.
Judged(r, t, retried) ==
  {[pc |-> "sent", verdict |-> Verdict(r, t, middling), hooked |-> TRUE,
    retried |-> retried] : middling \in BOOLEAN}
Parked(pc, retried) == [Idle EXCEPT !.pc = pc, !.hooked = TRUE, !.retried = retried]

\* Mutant: a call in flight is joined, but none is ever made.
OnlyJoined(call) == call

\* Join the call in flight or make it.
Joined(call) == IF call = None THEN Sent ELSE call

\* getToken() of an initialized client, for the requests rs: each is sent with
\* the cached token t or waits for the submission, which is started if need be.
GetToken(rs, t, retried) ==
  IF Usable(t)
  THEN /\ \E sent \in [rs -> UNION {Judged(r, t, retried) : r \in rs}] :
            /\ \A r \in rs : sent[r] \in Judged(r, t, retried)
            /\ requests' = [r \in Requests |-> IF r \in rs THEN sent[r] ELSE requests[r]]
       /\ UNCHANGED inFlight
  ELSE /\ requests' = [r \in Requests |->
                         IF r \in rs THEN Parked("waiting", retried) ELSE requests[r]]
       /\ inFlight' = IF rs # {} THEN Joined(inFlight) ELSE inFlight

\* Mutant: the wrapped fetch does not look at enabled.
AlwaysHooked == TRUE

\* The interceptor is enabled.
Hooked == initialized

\* The page sends r.
Send(r) ==
  /\ requests[r].pc = "idle"
  /\ IF Hooked
     THEN initialized' = TRUE /\ GetToken({r}, token, FALSE)
     ELSE /\ \E plain \in Judged(r, NoToken, FALSE) :
               requests' = [requests EXCEPT ![r] = [plain EXCEPT !.hooked = FALSE]]
          /\ UNCHANGED <<initialized, inFlight>>
  /\ UNCHANGED <<token, challengeInFlight, onRecord, ops>>

\* A challenged fetch joins the solution in flight or starts one; any other
\* answer, and the one to a retry, goes to the page.
Receive(r) ==
  LET retry == requests[r].verdict = "challenge" /\ requests[r].hooked /\ ~requests[r].retried
  IN /\ requests[r].pc = "sent"
     /\ requests' = [requests EXCEPT ![r] = IF retry THEN Parked("challenged", FALSE) ELSE Idle]
     /\ challengeInFlight' =
          IF retry THEN Joined(challengeInFlight) ELSE challengeInFlight
     /\ UNCHANGED <<initialized, token, inFlight, onRecord, ops>>

At(pc) == {r \in Requests : requests[r].pc = pc}

Received(a) == Token(a.pow, a.tel, a.left, ValidFor, Beyond(a.age))

\* Send the requests that wait for a submission, with its token t or none.
Resume(t) ==
  \E sent \in [At("waiting") -> UNION {Judged(r, t, b) : r \in Requests, b \in BOOLEAN}] :
    /\ \A r \in At("waiting") : sent[r] \in Judged(r, t, requests[r].retried)
    /\ requests' = [r \in Requests |-> IF r \in At("waiting") THEN sent[r] ELSE requests[r]]

\* Mutant: inFlight is not cleared.
StillInFlight == inFlight

\* inFlight after the submission has ended, either way.
Cleared == None

SubmissionArrives ==
  /\ inFlight \notin {None, Sent}
  /\ token' = Received(inFlight)
  /\ inFlight' = Cleared
  /\ Resume(token')
  /\ UNCHANGED <<initialized, challengeInFlight, onRecord, ops>>

SubmissionFails ==
  /\ inFlight # None
  /\ inFlight' = Cleared
  /\ Resume(NoToken)
  /\ UNCHANGED <<initialized, token, challengeInFlight, onRecord, ops>>

\* The challenged fetches are sent again with the new token.  If the client was
\* stopped meanwhile, the first of them starts it again and waits for that.
ChallengeArrives ==
  /\ challengeInFlight \notin {None, Sent}
  /\ token' = Received(challengeInFlight)
  /\ challengeInFlight' = None
  /\ initialized' = (initialized \/ At("challenged") # {})
  /\ \E first \in SUBSET At("challenged") :
       /\ first = {} <=> initialized \/ At("challenged") = {}
       /\ \A r, q \in first : r = q
       /\ \E sent \in [At("challenged") -> UNION {Judged(r, token', TRUE) : r \in Requests}] :
            /\ \A r \in At("challenged") : sent[r] \in Judged(r, token', TRUE)
            /\ requests' = [r \in Requests |->
                              CASE r \in first -> Parked("starting", TRUE)
                                [] r \in At("challenged") \ first -> sent[r]
                                [] OTHER -> requests[r]]
  /\ UNCHANGED <<inFlight, onRecord, ops>>

Started(r) ==
  /\ requests[r].pc = "starting"
  /\ GetToken({r}, token, TRUE)
  /\ UNCHANGED <<initialized, token, challengeInFlight, onRecord, ops>>

\* The page gets the 403.
ChallengeFails ==
  /\ challengeInFlight # None
  /\ challengeInFlight' = None
  /\ requests' = [r \in Requests |-> IF r \in At("challenged") THEN Idle ELSE requests[r]]
  /\ UNCHANGED <<initialized, token, inFlight, onRecord, ops>>

Stop ==
  /\ initialized
  /\ Operation
  /\ initialized' = FALSE
  /\ UNCHANGED <<token, inFlight, challengeInFlight, requests, onRecord>>

Start ==
  /\ ~initialized
  /\ initialized' = TRUE
  /\ UNCHANGED <<token, inFlight, challengeInFlight, requests, onRecord, ops>>

Reset ==
  /\ Operation
  /\ token' = NoToken
  /\ UNCHANGED <<initialized, inFlight, challengeInFlight, requests, onRecord>>

Down(n, floor) == IF n > floor THEN n - 1 ELSE n
Delayed(a) == IF a \in {None, Sent} THEN a
              ELSE [a EXCEPT !.left = Down(@, Expired), !.age = @ + 1]

Tick ==
  /\ \A a \in {inFlight, challengeInFlight} \ {None, Sent} : a.age < MaxDelay
  /\ token' = IF token = NoToken THEN token
              ELSE [token EXCEPT !.left = Down(@, Expired), !.until = Down(@, 0)]
  /\ inFlight' = Delayed(inFlight)
  /\ challengeInFlight' = Delayed(challengeInFlight)
  /\ UNCHANGED <<initialized, requests, onRecord, ops>>

Next ==
  \/ \E r \in Requests : Send(r) \/ Receive(r) \/ Started(r)
  \/ AnswerTelemetry \/ SubmissionArrives \/ SubmissionFails
  \/ AnswerChallenge \/ ChallengeArrives \/ ChallengeFails
  \/ LoseRecord \/ Stop \/ Start \/ Reset \/ Tick

Spec == Init /\ [][Next]_vars

\* The page goes on, the browser delivers answers, time passes; submissions and
\* solutions may fail again and again, but not all of them and not just those that
\* one request waits for.
Fairness ==
  /\ WF_vars(Tick)
  /\ \A r \in Requests :
       /\ WF_vars(Send(r)) /\ WF_vars(Receive(r)) /\ WF_vars(Started(r))
       /\ SF_vars(AnswerTelemetry /\ requests[r].pc = "waiting")
       /\ SF_vars(SubmissionArrives /\ requests[r].pc = "waiting")
       /\ SF_vars(AnswerChallenge /\ requests[r].pc = "challenged")
       /\ SF_vars(ChallengeArrives /\ requests[r].pc = "challenged")

FairSpec == Spec /\ Fairness

---------------------------------------------------------------------------
(* Properties.                                                             *)

Tokens ==
  [pow : BOOLEAN, tel : BOOLEAN, left : Lefts, until : 0..Ttl,
   late : 0..Beyond(MaxDelay)]
Stages == [pc : {"idle", "waiting", "sent", "challenged", "starting"},
           verdict : {"none", "allow", "challenge"}, hooked : BOOLEAN, retried : BOOLEAN]

\* Type invariant.
TypeOK ==
  /\ initialized \in BOOLEAN /\ onRecord \in BOOLEAN
  /\ token \in {NoToken} \cup Tokens
  /\ inFlight \in {None, Sent} \cup Answers
  /\ challengeInFlight \in {None, Sent} \cup Answers
  /\ requests \in [Requests -> Stages]

\* A token that the client still takes for valid is valid on the server, whatever
\* flooring exp has cost it, if its answer took no longer than the skew; if the
\* answer was slower (no call has a time-out), it has expired there by no more
\* than the time beyond the skew.
CachedTokenAccepted == Usable(token) => token.left >= -token.late

\* Nobody waits for an answer that is not under way.
NobodyForgotten ==
  /\ At("waiting") # {} => inFlight # None
  /\ At("challenged") # {} => challengeInFlight # None

\* A stopped client comes back only by start(), or with the answer to a challenge
\* that a fetch had met before.
StaysStopped ==
  [][~initialized /\ initialized' =>
       requests' = requests \/ \E r \in Requests : requests[r].pc = "challenged"]_vars

GetsThrough(r) == []<>(requests[r].verdict = "allow")

\* A page that goes on fetching is let through again and again, unless the client
\* stays stopped; on a token-required path also unless it has given up submitting
\* telemetry.
LetThrough ==
  <>[]initialized =>
    \A r \in Requests : \/ GetsThrough(r)
                        \/ r \in Required /\ <>[](inFlight = None)

\* The same without the exception: getToken() submits "fresh telemetry when needed".
FreshTelemetryWhenNeeded ==
  <>[]initialized => \A r \in Requests : GetsThrough(r)
=============================================================================
