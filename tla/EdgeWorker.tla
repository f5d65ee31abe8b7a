------------------------------ MODULE EdgeWorker ------------------------------
(***************************************************************************)
(* The Cloudflare worker (edge-cloudflare/src/worker.ts, token.ts) in      *)
(* front of AegisNode.evaluate() (server-node/src/AegisNode.ts).  Both     *)
(* verify the token, each by its own clock and at its own time, and the    *)
(* origin may have forgotten the session by then.  AEGIS_MODE is 'monitor' *)
(* and every request is forwarded, so the origin also judges those that    *)
(* the edge would have denied; thresholds and paths are the same for both. *)
(*                                                                         *)
(* The worker's own rate limit (IsolateRateLimiter in worker.ts) follows:  *)
(* a window per address, of which only the latest calls are kept, for      *)
(* maxKeys addresses; the first one inserted makes room, however recently  *)
(* it called.                                                              *)
(***************************************************************************)
EXTENDS Integers, Sequences, FiniteSets, FiniteSetsExt

CONSTANTS
  EdgeSids, AnySid, NoSid,
  Second,     \* clock ticks of a second
  TokenTtl,   \* tokenTtl, seconds
  Lag,        \* ticks by which the origin's clock is behind the edge's
  EdgeTime    \* bound: the clock stops there

ASSUME EdgeAssumption ==
  /\ Second \in Nat \ {0} /\ TokenTtl \in Nat \ {0} /\ EdgeTime \in Nat
  /\ Lag \in Int /\ Lag < Second
  /\ NoSid \notin EdgeSids \cup {AnySid} /\ AnySid \notin EdgeSids

VARIABLES
  clock,      \* at the edge
  alive,      \* sessions the origin remembers
  held,       \* the token a client holds
  request,    \* the request
  edge, origin   \* what they made of it

edgeVars == <<clock, alive, held, request, edge, origin>>

\* Scores are abstracted to the verdict they lead to.
Verdicts == <<"allow", "challenge", "block">>
Rank(v) == CHOOSE n \in 1..3 : Verdicts[n] = v

NoToken == [sid |-> NoSid, score |-> "allow", verdict |-> "allow",
            pow |-> FALSE, tel |-> FALSE, iat |-> 0]
ForwardedRequests ==
  [path : {"excluded", "endpoint", "required", "open"},
   cookie : EdgeSids \cup {NoSid}, sameAgent : BOOLEAN]
NoRequest == [path |-> "none", cookie |-> NoSid, sameAgent |-> TRUE]

EdgeInit ==
  /\ clock = 0 /\ alive = EdgeSids
  /\ held = NoToken /\ request = NoRequest
  /\ edge = "none" /\ origin = "none"

OriginClock == clock - Lag

-----------------------------------------------------------------------------
(* The tokens, and the time that passes *)

\* From telemetry: the session's score and the verdict it led to; from a
\* solved challenge: the telemetry score, if any, and always "allow".
Issue(token) ==
  /\ held = NoToken /\ request = NoRequest /\ OriginClock >= 0
  /\ token.iat = OriginClock \div Second
  /\ IF token.pow THEN /\ token.verdict = "allow"
                       /\ ~token.tel => token.score = "allow"
     ELSE token.verdict = token.score /\ ~token.tel
  /\ held' = token
  /\ UNCHANGED <<clock, alive, request, edge, origin>>

Tokens ==
  [sid : EdgeSids \cup {AnySid}, score : {"allow", "challenge", "block"},
   verdict : {"allow", "challenge", "block"}, pow : BOOLEAN, tel : BOOLEAN,
   iat : 0..(EdgeTime - Lag) \div Second]

Forget(sid) ==
  /\ sid \in alive
  /\ alive' = alive \ {sid}
  /\ UNCHANGED <<clock, held, request, edge, origin>>

EdgeTick ==
  /\ clock < EdgeTime
  /\ clock' = clock + 1
  /\ UNCHANGED <<alive, held, request, edge, origin>>

-----------------------------------------------------------------------------
(* At the edge *)

\* Mutant: a token expires one second early.
OutEarly(seconds) == seconds - held.iat > TokenTtl \/ seconds >= held.iat + TokenTtl

\* Both times are whole seconds.
OutAtEdge(seconds) ==
  seconds - held.iat > TokenTtl \/ seconds > held.iat + TokenTtl

\* verifyAegisToken() returns the claims (a token that is held is well formed,
\* signed and sealed).
VerifyAegisToken == held # NoToken /\ ~OutAtEdge(clock \div Second)

BoundTo(sid) == held.sid \in {AnySid, sid}
CoversTelemetry == ~held.pow \/ held.tel

AcceptedAtEdge(rq) ==
  /\ VerifyAegisToken
  /\ rq.sameAgent /\ BoundTo(rq.cookie)

\* decide(), for a request that is or is not over the rate limit.
EdgeDecision(rq, limited) ==
  CASE rq.path = "excluded" -> "pass"
    [] rq.path # "excluded" /\ limited -> "rate_limited"
    [] rq.path = "endpoint" /\ ~limited -> "pass"
    [] OTHER ->
         IF AcceptedAtEdge(rq) /\ "block" \in {held.verdict, held.score} THEN "block"
         ELSE IF rq.path = "required" /\ ~(AcceptedAtEdge(rq) /\ CoversTelemetry)
         THEN "challenge" ELSE "pass"

\* A request arrives, with the token if the client holds one, and is forwarded.
Decide(rq, limited) ==
  /\ request = NoRequest
  /\ request' = rq /\ edge' = EdgeDecision(rq, limited)
  /\ UNCHANGED <<clock, alive, held, origin>>

-----------------------------------------------------------------------------
(* At the origin *)

\* verifyToken() takes whole seconds too, evaluate() does not.
OutAtOrigin ==
  \/ OriginClock \div Second - held.iat > TokenTtl
  \/ OriginClock > (held.iat + TokenTtl) * Second

\* A session the origin does not know gets a new id, to which no token is bound.
SessionId == IF request.cookie \in alive THEN request.cookie ELSE NoSid

AcceptedAtOrigin ==
  /\ held # NoToken /\ ~OutAtOrigin
  /\ request.sameAgent /\ BoundTo(SessionId)

\* noisyOr(): the score is at least that of the token and of the rest.
Level(rest) == IF AcceptedAtOrigin /\ Rank(held.score) > Rank(rest)
               THEN held.score ELSE rest

\* `rest' is all the other evidence, a refused token included.
Evaluate(rest) ==
  LET level == Level(rest)
      verdict == IF level = "challenge" /\ AcceptedAtOrigin /\ held.pow
                 THEN "allow" ELSE level
      telemetry == AcceptedAtOrigin /\ CoversTelemetry
  IN  /\ edge # "none" /\ origin = "none"
      /\ request.path \in {"required", "open"}
      /\ origin' = IF verdict = "allow" /\ ~telemetry /\ request.path = "required"
                   THEN "challenge" ELSE verdict
      /\ UNCHANGED <<clock, alive, held, request, edge>>

EdgeNext ==
  \/ \E token \in Tokens : Issue(token)
  \/ \E sid \in EdgeSids : Forget(sid)
  \/ EdgeTick
  \/ \E rq \in ForwardedRequests, limited \in BOOLEAN : Decide(rq, limited)
  \/ \E rest \in {"allow", "challenge", "block"} : Evaluate(rest)

EdgeSpec == EdgeInit /\ [][EdgeNext]_edgeVars

-----------------------------------------------------------------------------
\* Type invariant: a request is judged at the origin only after the edge.
EdgeTypeOK ==
  /\ clock \in 0..EdgeTime /\ alive \subseteq EdgeSids
  /\ held = NoToken \/ held \in Tokens
  /\ edge \in {"none", "pass", "rate_limited", "challenge", "block"}
  /\ origin \in {"none", "allow", "challenge", "block"}
  /\ origin # "none" => edge # "none"

\* Its own rate limit aside, which the origin cannot know (rate_limited), the
\* edge denies nothing that the origin would have let through: a token that
\* it takes for expired, for another client's or for proof of work alone is not
\* accepted by the origin either, although that has another clock, decides
\* later and rounds differently; and a request it blocks for its token is one
\* the origin blocks, unless the token ran out or its session was forgotten on
\* the way.
EdgeAgrees ==
  origin # "none" =>
    /\ edge = "challenge" => origin # "allow"
    /\ edge = "block" => origin = "block" \/ OutAtOrigin \/ held.sid \notin alive \cup {AnySid}

-----------------------------------------------------------------------------
(* The limit of an isolate *)

CONSTANTS
  Clients,     \* addresses
  MaxCalls,    \* max; 0 turns the limit off
  Window,      \* windowMs
  Addresses,   \* maxKeys
  IsolateTime, MaxMade    \* bounds: the clock, the calls

ASSUME IsolateAssumption ==
  /\ {Window, Addresses} \subseteq Nat \ {0}
  /\ {MaxCalls, IsolateTime, MaxMade} \subseteq Nat

VARIABLES
  at,         \* Date.now()
  recent,     \* hits, in the order of insertion
  log,        \* history: per key, all its calls since it was last forgotten
  later,      \* history: per key, those that called since its first call
  answered,   \* history: the last answer, and the calls it was about
  made

isolateVars == <<at, recent, log, later, answered, made>>

IsolateInit ==
  /\ at = 1 /\ recent = <<>> /\ made = 0
  /\ log = [k \in Clients |-> <<>>] /\ later = [k \in Clients |-> {}]
  /\ answered = [allowed |-> TRUE, calls |-> 0]

Known(k) == \E i \in DOMAIN recent : recent[i].key = k
Times(k) == IF Known(k)
            THEN recent[CHOOSE i \in DOMAIN recent : recent[i].key = k].times
            ELSE <<>>
\* filter(), as a function over the positions.
InWindow(times) ==
  LET kept[i \in 0..Len(times)] ==
        IF i = 0 THEN <<>>
        ELSE IF times[i] > at - Window THEN Append(kept[i - 1], times[i])
        ELSE kept[i - 1]
  IN  kept[Len(times)]

\* Mutant: too few calls are kept.
KeptTooFew(times) == SubSeq(times, Max({1, Len(times) - MaxCalls + 2}), Len(times))

\* The slice: one call more than the limit is enough to tell that it is exceeded.
Kept(times) == SubSeq(times, Max({1, Len(times) - MaxCalls}), Len(times))

Stored(k, times) ==
  IF Known(k)
  THEN [i \in DOMAIN recent |->
          IF recent[i].key = k THEN [recent[i] EXCEPT !.times = times] ELSE recent[i]]
  ELSE Append(IF Len(recent) >= Addresses THEN Tail(recent) ELSE recent,
              [key |-> k, times |-> times])

\* A key is forgotten once Addresses others came after it, and starts anew.
Forgotten(k) == ~Known(k) /\ Cardinality(later[k]) >= Addresses
Since(k) == IF Forgotten(k) THEN <<>> ELSE log[k]

Allow(k) ==
  LET times == Append(InWindow(Times(k)), at)
      calls == Append(Since(k), at)
  IN  /\ made < MaxMade
      /\ recent' = IF MaxCalls = 0 THEN recent ELSE Stored(k, Kept(times))
      /\ log' = [log EXCEPT ![k] = calls]
      /\ later' = [x \in Clients |->
           IF x = k THEN (IF Len(Since(k)) = 0 THEN {} ELSE later[k])
           ELSE later[x] \cup {k}]
      /\ answered' = [allowed |-> MaxCalls = 0 \/ Len(times) <= MaxCalls,
                      calls |-> Cardinality({i \in DOMAIN calls : calls[i] > at - Window})]
      /\ made' = made + 1
      /\ UNCHANGED at

IsolateTick ==
  /\ at < IsolateTime
  /\ at' = at + 1
  /\ UNCHANGED <<recent, log, later, answered, made>>

IsolateNext == (\E k \in Clients : Allow(k)) \/ IsolateTick

IsolateSpec == IsolateInit /\ [][IsolateNext]_isolateVars

-----------------------------------------------------------------------------
\* Type invariant: a key is stored once, with at most one call over the limit.
IsolateTypeOK ==
  /\ at \in 1..IsolateTime /\ made \in 0..MaxMade
  /\ Len(recent) <= Addresses
  /\ \A i, j \in DOMAIN recent : recent[i].key = recent[j].key => i = j
  /\ \A i \in DOMAIN recent : Len(recent[i].times) \in 1..(MaxCalls + 1)

\* A call is denied exactly if the address made more than max calls, denied
\* ones included, in the last windowMs - although only max + 1 of them are
\* kept; an address is only forgotten after maxKeys others came.
IsolateLimitHolds ==
  MaxCalls > 0 => (answered.allowed <=> answered.calls <= MaxCalls)
=============================================================================
