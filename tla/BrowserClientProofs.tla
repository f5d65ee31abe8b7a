------------------------- MODULE BrowserClientProofs -------------------------
(***************************************************************************)
(* Proofs about BrowserClient, for any requests, lifetimes and delays that *)
(* ClientAssumption allows: what the client keeps in its cache is accepted *)
(* by the server, and nobody waits for a call that has not been made.      *)
(***************************************************************************)
EXTENDS BrowserClient, TLAPS

\* Judging a request gives a stage at which it has been sent.
LEMMA JudgedSent ==
  ASSUME NEW r \in Requests, NEW t, NEW b \in BOOLEAN, NEW s \in Judged(r, t, b)
  PROVE  s \in Stages /\ s.pc = "sent"
  <1>1. PICK middling \in BOOLEAN :
          s = [pc |-> "sent", verdict |-> Verdict(r, t, middling), hooked |-> TRUE,
               retried |-> b]
    BY DEF Judged
  <1>2. Verdict(r, t, middling) \in {"allow", "challenge"}
    BY DEF Verdict
  <1> QED
    BY <1>1, <1>2 DEF Stages

LEMMA ParkedStage ==
  ASSUME NEW pc \in {"waiting", "challenged", "starting"}, NEW b \in BOOLEAN
  PROVE  Parked(pc, b) \in Stages /\ Parked(pc, b).pc = pc
  BY DEF Parked, Idle, Stages

LEMMA IdleStage == Idle \in Stages /\ Idle.pc = "idle"
  BY DEF Idle, Stages

\* Every step moves requests between stages in one of few ways: r keeps its
\* stage, is sent, or is parked where the step says.
Moved(r, pcs) ==
  requests'[r] \in Stages /\ (requests'[r] = requests[r] \/ requests'[r].pc \in pcs)

\* getToken() for one request.
LEMMA GetTokenMoves ==
  ASSUME TypeOK, NEW q \in Requests, NEW t, NEW b \in BOOLEAN, GetToken({q}, t, b)
  PROVE  /\ requests' \in [Requests -> Stages]
         /\ \A r \in Requests : Moved(r, {"sent", "waiting"})
         /\ inFlight' \in {None, Sent} \cup Answers
         /\ inFlight # None => inFlight' # None
         /\ \A r \in Requests : requests'[r].pc = "waiting" =>
              requests'[r] = requests[r] \/ inFlight' # None
  <1>1. CASE Usable(t)
    <2>1. PICK sent \in [{q} -> UNION {Judged(r, t, b) : r \in {q}}] :
            /\ sent[q] \in Judged(q, t, b)
            /\ requests' = [r \in Requests |-> IF r \in {q} THEN sent[r] ELSE requests[r]]
      BY <1>1 DEF GetToken
    <2>2. sent[q] \in Stages /\ sent[q].pc = "sent"
      BY <2>1, JudgedSent
    <2>3. inFlight' = inFlight
      BY <1>1 DEF GetToken
    <2> QED
      BY <2>1, <2>2, <2>3 DEF Moved, TypeOK
  <1>2. CASE ~Usable(t)
    <2>1. requests' = [r \in Requests |->
                         IF r \in {q} THEN Parked("waiting", b) ELSE requests[r]]
      BY <1>2 DEF GetToken
    <2>2. inFlight' = Joined(inFlight)
      BY <1>2 DEF GetToken
    <2>3. inFlight' \in {None, Sent} \cup Answers /\ inFlight' # None
      BY <2>2, NoneAssumption DEF Joined, TypeOK
    <2>4. Parked("waiting", b) \in Stages /\ Parked("waiting", b).pc = "waiting"
      BY ParkedStage
    <2> QED
      BY <2>1, <2>3, <2>4 DEF Moved, TypeOK
  <1> QED
    BY <1>1, <1>2

\* The end of a submission.
LEMMA ResumeMoves ==
  ASSUME TypeOK, NEW t, Resume(t)
  PROVE  /\ requests' \in [Requests -> Stages]
         /\ \A r \in Requests : Moved(r, {"sent"}) /\ requests'[r].pc # "waiting"
  <1>1. PICK sent \in [At("waiting") -> UNION {Judged(r, t, b) : r \in Requests, b \in BOOLEAN}] :
          /\ \A r \in At("waiting") : sent[r] \in Judged(r, t, requests[r].retried)
          /\ requests' = [r \in Requests |-> IF r \in At("waiting") THEN sent[r] ELSE requests[r]]
    BY DEF Resume
  <1>2. ASSUME NEW r \in At("waiting") PROVE sent[r] \in Stages /\ sent[r].pc = "sent"
    <2>1. r \in Requests /\ requests[r].retried \in BOOLEAN
      BY DEF At, TypeOK, Stages
    <2> QED
      BY <1>1, <2>1, JudgedSent
  <1>3. \A r \in Requests : r \in At("waiting") <=> requests[r].pc = "waiting"
    BY DEF At
  <1> QED
    BY <1>1, <1>2, <1>3 DEF Moved, TypeOK

\* The end of a solved challenge.
LEMMA ChallengeMoves ==
  ASSUME TypeOK, ChallengeArrives
  PROVE  /\ requests' \in [Requests -> Stages]
         /\ \A r \in Requests : /\ Moved(r, {"sent", "starting"})
                               /\ requests'[r].pc # "challenged"
  <1>1. PICK first \in SUBSET At("challenged"),
             sent \in [At("challenged") -> UNION {Judged(r, token', TRUE) : r \in Requests}] :
          /\ \A r \in At("challenged") : sent[r] \in Judged(r, token', TRUE)
          /\ requests' = [r \in Requests |->
                            CASE r \in first -> Parked("starting", TRUE)
                              [] r \in At("challenged") \ first -> sent[r]
                              [] OTHER -> requests[r]]
    BY DEF ChallengeArrives
  <1>2. ASSUME NEW r \in At("challenged") PROVE sent[r] \in Stages /\ sent[r].pc = "sent"
    <2>1. r \in Requests
      BY DEF At
    <2> QED
      BY <1>1, <2>1, JudgedSent
  <1>3. \A r \in Requests : r \in At("challenged") <=> requests[r].pc = "challenged"
    BY DEF At
  <1>4. Parked("starting", TRUE) \in Stages /\ Parked("starting", TRUE).pc = "starting"
    BY ParkedStage
  <1>5. ASSUME NEW r \in Requests
        PROVE  /\ requests'[r] \in Stages /\ requests'[r].pc # "challenged"
               /\ requests'[r] = requests[r] \/ requests'[r].pc \in {"sent", "starting"}
    <2>1. CASE r \in first
      BY <1>1, <1>4, <2>1
    <2>2. CASE r \in At("challenged") \ first
      BY <1>1, <1>2, <2>2
    <2>3. CASE r \notin At("challenged")
      BY <1>1, <1>3, <2>3 DEF TypeOK
    <2> QED
      BY <2>1, <2>2, <2>3
  <1> QED
    BY <1>1, <1>5 DEF Moved

---------------------------------------------------------------------------
(* Type correctness.                                                       *)

LEMMA Constants ==
  /\ Ttl \in Nat /\ Skew \in Nat /\ MaxDelay \in Nat
  /\ Skew < Ttl
  /\ Expired \in Int /\ Expired <= -1 /\ Beyond(MaxDelay) \in Nat
  /\ Expired = -(Beyond(MaxDelay) + 1) /\ Expired + MaxDelay <= Ttl - 1
  BY ClientAssumption DEF Expired, Beyond

LEMMA BeyondTyped ==
  ASSUME NEW delay \in 0..MaxDelay
  PROVE  /\ Beyond(delay) \in 0..Beyond(MaxDelay)
         /\ Beyond(delay) >= delay - Skew
  BY ClientAssumption DEF Beyond

LEMMA AnswerTyped ==
  ASSUME NEW p \in BOOLEAN, NEW m \in BOOLEAN, NEW left \in {Ttl - 1, Ttl}
  PROVE  Answer(p, m, left) \in Answers
  BY Constants DEF Answer, Answers, Lefts

LEMMA ReceivedTyped ==
  ASSUME NEW a \in Answers
  PROVE  Received(a) \in Tokens
  BY Constants, BeyondTyped DEF Received, Token, Tokens, Answers, ValidFor, Lefts

LEMMA DelayedTyped ==
  ASSUME NEW a \in {None, Sent} \cup Answers, a \notin {None, Sent} => a.age < MaxDelay
  PROVE  Delayed(a) \in {None, Sent} \cup Answers /\ (a # None => Delayed(a) # None)
  <1>1. CASE a \in {None, Sent}
    BY <1>1 DEF Delayed
  <1>2. CASE a \notin {None, Sent}
    <2>1. a \in Answers /\ a.age \in 0..MaxDelay /\ a.left \in Lefts
      BY <1>2 DEF Answers
    <2>2. a.age + 1 \in 0..MaxDelay /\ Down(a.left, Expired) \in Lefts
      BY <1>2, <2>1, Constants DEF Down, Lefts
    <2>3. Delayed(a) \in Answers
      BY <1>2, <2>1, <2>2 DEF Delayed, Answers
    <2> QED
      BY <2>3, NoneAssumption
  <1> QED
    BY <1>1, <1>2

LEMMA TickedTyped ==
  ASSUME NEW t \in Tokens
  PROVE  [t EXCEPT !.left = Down(@, Expired), !.until = Down(@, 0)] \in Tokens
  <1>1. t.left \in Lefts /\ t.until \in 0..Ttl
    BY DEF Tokens
  <1>2. Down(t.left, Expired) \in Lefts /\ Down(t.until, 0) \in 0..Ttl
    BY <1>1, Constants DEF Down, Lefts
  <1> QED
    BY <1>2 DEF Tokens

LEMMA InitTypeOK == Init => TypeOK
  BY IdleStage DEF Init, TypeOK

LEMMA NextTypeOK == TypeOK /\ [Next]_vars => TypeOK'
  <1> SUFFICES ASSUME TypeOK, [Next]_vars PROVE TypeOK'
    OBVIOUS
  <1>1. ASSUME NEW r \in Requests, Send(r) PROVE TypeOK'
    <2>1. CASE Hooked
      <3>1. GetToken({r}, token, FALSE) /\ initialized' = TRUE
        BY <1>1, <2>1 DEF Send
      <3>2. requests' \in [Requests -> Stages] /\ inFlight' \in {None, Sent} \cup Answers
        BY <3>1, GetTokenMoves
      <3> QED
        BY <1>1, <3>1, <3>2 DEF Send, TypeOK
    <2>2. CASE ~Hooked
      <3>1. PICK plain \in Judged(r, NoToken, FALSE) :
              requests' = [requests EXCEPT ![r] = [plain EXCEPT !.hooked = FALSE]]
        BY <1>1, <2>2 DEF Send
      <3>2. plain \in Stages
        BY JudgedSent
      <3>3. [plain EXCEPT !.hooked = FALSE] \in Stages
        BY <3>2 DEF Stages
      <3> QED
        BY <1>1, <2>2, <3>1, <3>3 DEF Send, TypeOK
    <2> QED
      BY <2>1, <2>2
  <1>2. ASSUME NEW r \in Requests, Receive(r) PROVE TypeOK'
    <2>1. requests' \in [Requests -> Stages]
      BY <1>2, ParkedStage, IdleStage DEF Receive, TypeOK
    <2>2. challengeInFlight' \in {None, Sent} \cup Answers
      BY <1>2 DEF Receive, TypeOK, Joined
    <2> QED
      BY <1>2, <2>1, <2>2 DEF Receive, TypeOK
  <1>3. ASSUME NEW r \in Requests, Started(r) PROVE TypeOK'
    <2>1. requests' \in [Requests -> Stages] /\ inFlight' \in {None, Sent} \cup Answers
      BY <1>3, GetTokenMoves DEF Started
    <2> QED
      BY <1>3, <2>1 DEF Started, TypeOK
  <1>4. CASE AnswerTelemetry
    BY <1>4, AnswerTyped DEF AnswerTelemetry, TypeOK
  <1>5. CASE SubmissionArrives
    <2>1. inFlight \in Answers /\ token' = Received(inFlight)
      BY <1>5 DEF SubmissionArrives, TypeOK
    <2>2. token' \in Tokens
      BY <2>1, ReceivedTyped
    <2>3. requests' \in [Requests -> Stages]
      BY <1>5, ResumeMoves DEF SubmissionArrives
    <2> QED
      BY <1>5, <2>2, <2>3 DEF SubmissionArrives, Cleared, TypeOK
  <1>6. CASE SubmissionFails
    <2>1. requests' \in [Requests -> Stages]
      BY <1>6, ResumeMoves DEF SubmissionFails
    <2> QED
      BY <1>6, <2>1 DEF SubmissionFails, Cleared, TypeOK
  <1>7. CASE AnswerChallenge
    BY <1>7, AnswerTyped DEF AnswerChallenge, TypeOK
  <1>8. CASE ChallengeArrives
    <2>1. challengeInFlight \in Answers /\ token' = Received(challengeInFlight)
      BY <1>8 DEF ChallengeArrives, TypeOK
    <2>2. token' \in Tokens
      BY <2>1, ReceivedTyped
    <2>3. requests' \in [Requests -> Stages]
      BY <1>8, ChallengeMoves
    <2>4. initialized' \in BOOLEAN
      BY <1>8 DEF ChallengeArrives, TypeOK
    <2> QED
      BY <1>8, <2>2, <2>3, <2>4 DEF ChallengeArrives, TypeOK
  <1>9. CASE ChallengeFails
    BY <1>9, IdleStage DEF ChallengeFails, TypeOK
  <1>10. CASE LoseRecord \/ Stop \/ Start \/ Reset
    BY <1>10 DEF LoseRecord, Stop, Start, Reset, Operation, TypeOK
  <1>11. CASE Tick
    <2>1. inFlight' \in {None, Sent} \cup Answers
      BY <1>11, DelayedTyped DEF Tick, TypeOK
    <2>2. challengeInFlight' \in {None, Sent} \cup Answers
      BY <1>11, DelayedTyped DEF Tick, TypeOK
    <2>3. token' \in {NoToken} \cup Tokens
      <3>1. CASE token = NoToken
        BY <1>11, <3>1 DEF Tick
      <3>2. CASE token # NoToken
        BY <1>11, <3>2, TickedTyped DEF Tick, TypeOK
      <3> QED
        BY <3>1, <3>2
    <2> QED
      BY <1>11, <2>1, <2>2, <2>3 DEF Tick, TypeOK
  <1>12. CASE UNCHANGED vars
    BY <1>12 DEF vars, TypeOK
  <1> QED
    BY <1>1, <1>2, <1>3, <1>4, <1>5, <1>6, <1>7, <1>8, <1>9, <1>10, <1>11, <1>12 DEF Next

\* The type invariant.
THEOREM TypeCorrect == Spec => []TypeOK
  BY InitTypeOK, NextTypeOK, PTL DEF Spec

---------------------------------------------------------------------------
(* Nobody waits for a call that has not been made.                         *)

\* The parts of NobodyForgotten, request by request.
LEMMA Waits ==
  NobodyForgotten <=>
    \A r \in Requests : /\ requests[r].pc = "waiting" => inFlight # None
                        /\ requests[r].pc = "challenged" => challengeInFlight # None
  BY DEF NobodyForgotten, At

LEMMA InitForgotten == Init => NobodyForgotten
  BY Waits, IdleStage DEF Init

LEMMA NextForgotten == TypeOK /\ NobodyForgotten /\ [Next]_vars => NobodyForgotten'
  <1> SUFFICES ASSUME TypeOK, NobodyForgotten, [Next]_vars,
                      NEW r \in Requests
               PROVE  /\ requests'[r].pc = "waiting" => inFlight' # None
                      /\ requests'[r].pc = "challenged" => challengeInFlight' # None
    BY DEF NobodyForgotten, At
  <1>0. /\ requests[r].pc = "waiting" => inFlight # None
        /\ requests[r].pc = "challenged" => challengeInFlight # None
    BY Waits
  <1>1. ASSUME NEW q \in Requests, Send(q) \/ Started(q)
        PROVE  /\ requests'[r].pc = "waiting" => inFlight' # None
               /\ requests'[r].pc = "challenged" => challengeInFlight' # None
    <2>1. challengeInFlight' = challengeInFlight
      BY <1>1 DEF Send, Started
    <2>2. ASSUME NEW t, NEW b \in BOOLEAN, GetToken({q}, t, b)
          PROVE  /\ requests'[r].pc = "waiting" => inFlight' # None
                 /\ requests'[r].pc = "challenged" => requests[r].pc = "challenged"
      <3>1. Moved(r, {"sent", "waiting"})
        BY <2>2, GetTokenMoves
      <3>2. requests'[r].pc = "waiting" => requests'[r] = requests[r] \/ inFlight' # None
        BY <2>2, GetTokenMoves
      <3>3. inFlight # None => inFlight' # None
        BY <2>2, GetTokenMoves
      <3> QED
        BY <3>1, <3>2, <3>3, <1>0 DEF Moved
    <2>3. CASE Send(q) /\ ~Hooked
      <3>1. PICK plain \in Judged(q, NoToken, FALSE) :
              requests' = [requests EXCEPT ![q] = [plain EXCEPT !.hooked = FALSE]]
        BY <2>3 DEF Send
      <3>2. plain \in Stages /\ plain.pc = "sent"
        BY JudgedSent
      <3>3. [plain EXCEPT !.hooked = FALSE].pc = "sent"
        BY <3>2 DEF Stages
      <3>4. requests'[r] = requests[r] \/ requests'[r].pc = "sent"
        BY <3>1, <3>3 DEF TypeOK
      <3> QED
        BY <2>1, <2>3, <3>4, <1>0 DEF Send
    <2>4. CASE ~(Send(q) /\ ~Hooked)
      <3>1. GetToken({q}, token, FALSE) \/ GetToken({q}, token, TRUE)
        BY <1>1, <2>4 DEF Send, Started
      <3> QED
        BY <2>1, <2>2, <3>1, <1>0
    <2> QED
      BY <2>3, <2>4
  <1>2. ASSUME NEW q \in Requests, Receive(q)
        PROVE  /\ requests'[r].pc = "waiting" => inFlight' # None
               /\ requests'[r].pc = "challenged" => challengeInFlight' # None
    <2> DEFINE retry == requests[q].verdict = "challenge" /\ requests[q].hooked
                          /\ ~requests[q].retried
    <2>1. inFlight' = inFlight
      BY <1>2 DEF Receive
    <2>2. challengeInFlight' = IF retry THEN Joined(challengeInFlight) ELSE challengeInFlight
      BY <1>2 DEF Receive
    <2>3. requests' = [requests EXCEPT ![q] = IF retry THEN Parked("challenged", FALSE) ELSE Idle]
      BY <1>2 DEF Receive
    <2>4. CASE retry
      <3>1. challengeInFlight' # None
        BY <2>2, <2>4, NoneAssumption DEF Joined
      <3>2. requests'[r] = requests[r] \/ requests'[r].pc = "challenged"
        BY <2>3, <2>4, ParkedStage DEF TypeOK
      <3> QED
        BY <2>1, <3>1, <3>2, <1>0
    <2>5. CASE ~retry
      <3>1. requests'[r] = requests[r] \/ requests'[r].pc = "idle"
        BY <2>3, <2>5, IdleStage DEF TypeOK
      <3> QED
        BY <2>1, <2>2, <2>5, <3>1, <1>0
    <2> QED
      BY <2>4, <2>5
  <1>3. CASE SubmissionArrives \/ SubmissionFails
    <2>1. requests'[r].pc # "waiting" /\ Moved(r, {"sent"})
      BY <1>3, ResumeMoves DEF SubmissionArrives, SubmissionFails
    <2>2. challengeInFlight' = challengeInFlight
      BY <1>3 DEF SubmissionArrives, SubmissionFails
    <2> QED
      BY <2>1, <2>2, <1>0 DEF Moved
  <1>4. CASE ChallengeArrives
    <2>1. requests'[r].pc # "challenged" /\ Moved(r, {"sent", "starting"})
      BY <1>4, ChallengeMoves
    <2>2. inFlight' = inFlight
      BY <1>4 DEF ChallengeArrives
    <2> QED
      BY <2>1, <2>2, <1>0 DEF Moved
  <1>5. CASE ChallengeFails
    <2>1. requests'[r] = IF requests[r].pc = "challenged" THEN Idle ELSE requests[r]
      BY <1>5 DEF ChallengeFails, At
    <2> QED
      BY <1>5, <2>1, <1>0, IdleStage DEF ChallengeFails
  <1>6. CASE AnswerTelemetry
    <2>1. inFlight' \in Answers
      BY <1>6, AnswerTyped DEF AnswerTelemetry
    <2> QED
      BY <1>6, <2>1, <1>0, NoneAssumption DEF AnswerTelemetry
  <1>7. CASE AnswerChallenge
    <2>1. challengeInFlight' \in Answers
      BY <1>7, AnswerTyped DEF AnswerChallenge, TypeOK
    <2> QED
      BY <1>7, <2>1, <1>0, NoneAssumption DEF AnswerChallenge
  <1>8. CASE Tick
    <2>1. inFlight # None => inFlight' # None
      BY <1>8, DelayedTyped DEF Tick, TypeOK
    <2>2. challengeInFlight # None => challengeInFlight' # None
      BY <1>8, DelayedTyped DEF Tick, TypeOK
    <2> QED
      BY <1>8, <2>1, <2>2, <1>0 DEF Tick
  <1>9. CASE LoseRecord \/ Stop \/ Start \/ Reset \/ UNCHANGED vars
    BY <1>9, <1>0 DEF LoseRecord, Stop, Start, Reset, vars
  <1> QED
    BY <1>1, <1>2, <1>3, <1>4, <1>5, <1>6, <1>7, <1>8, <1>9 DEF Next

\* A request that waits has a submission or a solution on its way.
THEOREM NoneForgotten == Spec => []NobodyForgotten
  BY InitTypeOK, NextTypeOK, InitForgotten, NextForgotten, PTL DEF Spec

---------------------------------------------------------------------------
(* A cached token is accepted.                                             *)

\* Why: an answer has lost at most a tick more than it has been under way, and a
\* usable token has a tick more on the server than in the cache, less that tick and
\* what its answer's delay exceeded the skew by.
Timely(a) == a \in {None, Sent} \/ a.left >= Ttl - 1 - a.age
Lasting(t) ==
  t = NoToken \/ t.until = 0 \/ t.left >= t.until - 1 - t.late

TimeInv ==
  TypeOK /\ Timely(inFlight) /\ Timely(challengeInFlight) /\ Lasting(token)

LEMMA AnswerTimely ==
  ASSUME NEW p \in BOOLEAN, NEW m \in BOOLEAN, NEW left \in {Ttl - 1, Ttl}
  PROVE  Timely(Answer(p, m, left))
  BY Constants DEF Timely, Answer

LEMMA ReceivedLasts ==
  ASSUME NEW a \in Answers, Timely(a)
  PROVE  Lasting(Received(a))
  <1>1. a.left >= Ttl - 1 - a.age /\ a.age \in 0..MaxDelay /\ a.left \in Int
    BY NoneAssumption, Constants DEF Timely, Answers, Lefts
  <1>2. a.left >= (Ttl - Skew) - 1 - Beyond(a.age)
    BY <1>1, Constants, BeyondTyped
  <1> QED
    BY <1>2 DEF Lasting, Received, Token, ValidFor

LEMMA DelayedTimely ==
  ASSUME NEW a \in {None, Sent} \cup Answers, Timely(a)
  PROVE  Timely(Delayed(a))
  <1>1. CASE a \in {None, Sent}
    BY <1>1 DEF Delayed, Timely
  <1>2. CASE a \notin {None, Sent}
    <2>1. a \in Answers /\ a.left >= Ttl - 1 - a.age
      BY <1>2 DEF Timely
    <2>2. a.left \in Lefts /\ a.age \in 0..MaxDelay
      BY <2>1 DEF Answers
    <2>3. Down(a.left, Expired) >= Ttl - 1 - (a.age + 1)
      BY <2>1, <2>2, Constants DEF Down, Lefts
    <2>4. Delayed(a).left = Down(a.left, Expired) /\ Delayed(a).age = a.age + 1
      BY <1>2, <2>1 DEF Delayed, Answers
    <2> QED
      BY <2>3, <2>4 DEF Timely
  <1> QED
    BY <1>1, <1>2

LEMMA TickedLasts ==
  ASSUME NEW t \in Tokens, Lasting(t), t # NoToken
  PROVE  Lasting([t EXCEPT !.left = Down(@, Expired), !.until = Down(@, 0)])
  <1>1. t.left \in Lefts /\ t.until \in 0..Ttl /\ t.late \in 0..Beyond(MaxDelay)
    BY DEF Tokens
  <1>2. t.until = 0 \/ t.left >= t.until - 1 - t.late
    BY DEF Lasting
  <1>3. \/ Down(t.until, 0) = 0
        \/ Down(t.left, Expired) >= Down(t.until, 0) - 1 - t.late
    BY <1>1, <1>2, Constants DEF Down, Lefts
  <1> QED
    BY <1>3 DEF Lasting, Tokens

LEMMA InitTimeInv == Init => TimeInv
  BY InitTypeOK DEF Init, TimeInv, Timely, Lasting

LEMMA NextTimeInv == TimeInv /\ [Next]_vars => TimeInv'
  <1> SUFFICES ASSUME TypeOK, Timely(inFlight), Timely(challengeInFlight), Lasting(token),
                      [Next]_vars
               PROVE  Timely(inFlight)' /\ Timely(challengeInFlight)' /\ Lasting(token)'
    BY NextTypeOK DEF TimeInv
  <1> USE DEF Timely, Lasting
  <1>1. ASSUME NEW r \in Requests, Send(r) \/ Started(r) \/ Receive(r)
        PROVE  Timely(inFlight)' /\ Timely(challengeInFlight)' /\ Lasting(token)'
    BY <1>1 DEF Send, Started, Receive, GetToken, Joined
  <1>2. CASE AnswerTelemetry \/ AnswerChallenge
    BY <1>2, AnswerTimely DEF AnswerTelemetry, AnswerChallenge, TypeOK
  <1>3. CASE SubmissionArrives
    BY <1>3, ReceivedLasts DEF SubmissionArrives, Cleared, TypeOK
  <1>4. CASE ChallengeArrives
    BY <1>4, ReceivedLasts DEF ChallengeArrives, TypeOK
  <1>5. CASE SubmissionFails \/ ChallengeFails
    BY <1>5 DEF SubmissionFails, ChallengeFails, Cleared
  <1>6. CASE LoseRecord \/ Stop \/ Start \/ Reset \/ UNCHANGED vars
    BY <1>6 DEF LoseRecord, Stop, Start, Reset, vars
  <1>7. CASE Tick
    BY <1>7, DelayedTimely, TickedLasts DEF Tick, TypeOK
  <1> QED
    BY <1>1, <1>2, <1>3, <1>4, <1>5, <1>6, <1>7 DEF Next

LEMMA AcceptedFromTimeInv == TimeInv => CachedTokenAccepted
  BY Constants DEF TimeInv, TypeOK, Tokens, Lefts, Lasting, CachedTokenAccepted, Usable

\* However long answers take, the server still accepts a token that the client
\* takes from its cache, or has stopped to no sooner than the answer's delay beyond
\* the skew ago.
THEOREM CachedTokensAccepted == Spec => []CachedTokenAccepted
  BY InitTimeInv, NextTimeInv, AcceptedFromTimeInv, PTL DEF Spec

---------------------------------------------------------------------------
(* A stopped client stays stopped.                                         *)

\* Only start() and the answer to a challenge initialize a stopped client.
THEOREM NotStartedByFetches == Spec => StaysStopped
  <1> DEFINE Restarted == ~initialized /\ initialized' =>
               requests' = requests \/ \E r \in Requests : requests[r].pc = "challenged"
  <1>1. [Next]_vars => [Restarted]_vars
    <2> SUFFICES ASSUME Next, ~initialized, initialized'
                 PROVE  requests' = requests \/ At("challenged") # {}
      BY DEF At
    <2>1. ASSUME NEW r \in Requests, Send(r) \/ Receive(r) \/ Started(r)
          PROVE  FALSE
      BY <2>1 DEF Send, Hooked, Receive, Started
    <2>2. CASE AnswerTelemetry \/ SubmissionArrives \/ SubmissionFails \/ AnswerChallenge
                 \/ ChallengeFails \/ LoseRecord \/ Stop \/ Start \/ Reset \/ Tick
      BY <2>2 DEF AnswerTelemetry, SubmissionArrives, SubmissionFails, AnswerChallenge,
                  ChallengeFails, LoseRecord, Stop, Start, Reset, Tick
    <2>3. CASE ChallengeArrives
      BY <2>3 DEF ChallengeArrives
    <2> QED
      BY <2>1, <2>2, <2>3 DEF Next
  <1> QED
    BY <1>1, PTL DEF Spec, StaysStopped
=============================================================================
