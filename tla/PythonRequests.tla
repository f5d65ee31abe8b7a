---------------------------- MODULE PythonRequests ----------------------------
(***************************************************************************)
(* Requests of one browser to Python processes that share a store          *)
(* (server-python/aegis_shield/middleware.py).  The session is loaded when *)
(* a request begins and written back whole: at once when it is denied, and *)
(* after the application has answered when it is not.  Scores are          *)
(* abstracted to the verdict they lead to; mode is 'enforce', and no token *)
(* runs out.                                                               *)
(***************************************************************************)
EXTENDS Integers, Sequences, PartialFunctions

CONSTANTS
  MaxVisits,   \* bound: the requests that are sent
  MaxMishaps,  \* bound: requests that overlap with others, and faults
  MaxListed    \* how many request times a session keeps (500)

ASSUME VisitsAssumption ==
  {MaxVisits, MaxMishaps} \subseteq Nat /\ MaxListed \in Nat \ {0}

VARIABLES
  framework,   \* "django", "flask" or "fastapi"
  failOpen,    \* fail_open: a request that cannot be analysed is let through
  stored,      \* the sessions in the store
  drawn,       \* how many session ids were drawn
  jar,         \* the browser's aegis_sid cookie, or 0
  badge,       \* the browser's token
  visits,      \* the requests, in the order of their arrival
  mishaps,     \* overlapping requests, outages, expiries, exceptions
  scoredIn,    \* history: sessions whose telemetry was scored
  upset        \* history: sessions with overlapping requests or a fault

visitVars ==
  <<framework, failOpen, stored, drawn, jar, badge, visits, mishaps, scoredIn, upset>>

settings == <<framework, failOpen>>
NoBadge == [sid |-> 0, pow |-> FALSE, tel |-> FALSE]
NewSession == [times |-> <<>>, tel |-> FALSE]

VisitsInit ==
  /\ framework \in {"django", "flask", "fastapi"} /\ failOpen \in BOOLEAN
  /\ stored = NoEntries /\ drawn = 0
  /\ jar = 0 /\ badge = NoBadge /\ visits = <<>>
  /\ mishaps = 0 /\ scoredIn = {} /\ upset = {}

\* Requests that hold a copy they have still to write.
Writers(sid) ==
  {r \in DOMAIN visits : /\ visits[r].pc \in {"given", "allowed", "denied"}
                         /\ visits[r].kind # "challenge" /\ visits[r].sid = sid}

-----------------------------------------------------------------------------
Mishap == mishaps < MaxMishaps /\ mishaps' = mishaps + 1

\* A call of the store works, or does not.
StoreCall(works) == IF works THEN UNCHANGED mishaps ELSE Mishap

\* A request arrives with the browser's cookie and token: _session() loads the
\* stored session, or makes a new one if the store has none or does not answer,
\* and record_request(save=False) adds the request to the copy, which drops
\* the oldest beyond MaxListed.
Begin(kind, works) ==
  LET r == Len(visits) + 1
      known == works /\ jar \in DOMAIN stored
      sid == IF known THEN jar ELSE drawn + 1
      record == IF known THEN stored[sid] ELSE NewSession
      alone == \A q \in DOMAIN visits : visits[q].pc = "done"
  IN  /\ Len(visits) < MaxVisits
      /\ jar = 0 => works
      /\ IF alone THEN StoreCall(works) ELSE works /\ Mishap
      /\ drawn' = IF known THEN drawn ELSE sid
      /\ visits' = Append(visits,
           [kind |-> kind, pc |-> "given", sid |-> sid, isNew |-> ~known,
            badge |-> badge, verdict |-> "none", failed |-> FALSE,
            record |-> IF kind = "challenge" THEN record
                       ELSE [record EXCEPT !.times =
                               NewestOnly(Append(@, r), MaxListed)]])
      /\ upset' = IF kind # "challenge" /\ Writers(sid) # {}
                  THEN upset \cup {sid} ELSE upset
      /\ UNCHANGED <<settings, stored, jar, badge, scoredIn>>

\* save(): a write that fails is logged and dropped.
SaveSession(sid, record, works) ==
  /\ StoreCall(works)
  /\ IF works THEN stored' = Put(stored, sid, record) /\ UNCHANGED upset
     ELSE upset' = upset \cup {sid} /\ UNCHANGED stored
NotSaved == UNCHANGED <<stored, upset, mishaps>>

\* The answer sets the cookie if the session is another than the one it named.
CookieSet(r) == jar' = IF visits[r].isNew THEN visits[r].sid ELSE jar

\* (A request that was answered keeps its session and its verdict only.)
Finished(r) ==
  [visits EXCEPT ![r].pc = "done", ![r].badge = NoBadge, ![r].record = NewSession,
                 ![r].isNew = FALSE]

\* The challenge: the token for a solved one says whether the session sent
\* telemetry.  The session itself is not written.
Challenge(r, solved) ==
  /\ visits[r].kind = "challenge" /\ visits[r].pc = "given"
  /\ badge' = IF solved
               THEN [sid |-> visits[r].sid, pow |-> TRUE, tel |-> visits[r].record.tel]
               ELSE badge
  /\ visits' = Finished(r)
  /\ CookieSet(r)
  /\ UNCHANGED <<settings, stored, drawn, mishaps, scoredIn, upset>>

\* Telemetry is scored, refused (400, 413, 429), or scoring fails (500).
TelemetryScored(r, works) ==
  /\ visits[r].kind = "telemetry" /\ visits[r].pc = "given"
  /\ SaveSession(visits[r].sid, [visits[r].record EXCEPT !.tel = TRUE], works)
  /\ scoredIn' = scoredIn \cup {visits[r].sid}
  /\ badge' = [sid |-> visits[r].sid, pow |-> FALSE, tel |-> TRUE]
  /\ visits' = Finished(r)
  /\ CookieSet(r)
  /\ UNCHANGED <<settings, drawn>>

TelemetryRefused(r, works) ==
  /\ visits[r].kind = "telemetry" /\ visits[r].pc = "given"
  /\ SaveSession(visits[r].sid, visits[r].record, works)
  /\ visits' = Finished(r)
  /\ CookieSet(r)
  /\ UNCHANGED <<settings, drawn, badge, scoredIn>>

TelemetryFails(r) ==
  /\ visits[r].kind = "telemetry" /\ visits[r].pc = "given"
  /\ Mishap
  /\ upset' = upset \cup {visits[r].sid}
  /\ visits' = Finished(r)
  /\ CookieSet(r)
  /\ UNCHANGED <<settings, stored, drawn, badge, scoredIn>>

-----------------------------------------------------------------------------
(* Protected requests *)

Vouched(r) == visits[r].badge # NoBadge /\ visits[r].badge.sid = visits[r].sid

\* Mutant: a token of any kind stands for telemetry.
AnyBadge(r) == Vouched(r)

TelemetryVouched(r) == Vouched(r) /\ (~visits[r].badge.pow \/ visits[r].badge.tel)

\* evaluate(), when all the evidence together leads to `level'.
VerdictOf(r, level) ==
  LET verdict == IF level = "challenge" /\ Vouched(r) /\ visits[r].badge.pow
                 THEN "allow" ELSE level
  IN  IF visits[r].kind = "required" /\ ~TelemetryVouched(r) /\ verdict = "allow"
      THEN "challenge" ELSE verdict

\* Mutant: a challenged request is taken for one that reaches the application.
BlockedOnly(verdict) == verdict = "block"

\* record_risk(save=...): denied requests are stored at once.
StoredAtOnce(verdict) == verdict \in {"block", "challenge"}

EvaluateVisit(r, level, works) ==
  LET verdict == VerdictOf(r, level)
  IN  /\ visits[r].kind \in {"page", "required"} /\ visits[r].pc = "given"
      /\ IF StoredAtOnce(verdict) THEN SaveSession(visits[r].sid, visits[r].record, works)
         ELSE works /\ NotSaved
      /\ visits' = [visits EXCEPT ![r].verdict = verdict,
           ![r].pc = IF verdict = "allow" THEN "allowed" ELSE "denied"]
      /\ UNCHANGED <<settings, drawn, jar, badge, scoredIn>>

\* An exception: the request is let through or challenged, whatever its path
\* requires, by a result that names no session.
AnalysisFails(r) ==
  LET verdict == IF failOpen THEN "allow" ELSE "challenge"
  IN  /\ visits[r].kind \in {"page", "required"} /\ visits[r].pc = "given"
      /\ Mishap
      /\ upset' = upset \cup {visits[r].sid}
      /\ visits' = [visits EXCEPT ![r].verdict = verdict, ![r].failed = TRUE,
           ![r].pc = IF verdict = "allow" THEN "allowed" ELSE "denied"]
      /\ UNCHANGED <<settings, stored, drawn, jar, badge, scoredIn>>

\* The adapter reports the status (record_response) and answers; Flask's
\* after_request hook also runs for a denial.  Without a session in the result
\* nothing is stored.
RecordResponse(r, works) ==
  /\ visits[r].pc \in {"allowed", "denied"}
  /\ IF ~visits[r].failed /\ (visits[r].pc = "allowed" \/ framework = "flask")
     THEN SaveSession(visits[r].sid, visits[r].record, works) ELSE works /\ NotSaved
  /\ visits' = Finished(r)
  /\ CookieSet(r)
  /\ UNCHANGED <<settings, drawn, badge, scoredIn>>

\* An ASGI application raises before it starts its answer.
ApplicationRaises(r) ==
  /\ framework = "fastapi" /\ visits[r].pc = "allowed"
  /\ Mishap
  /\ upset' = upset \cup {visits[r].sid}
  /\ visits' = Finished(r)
  /\ UNCHANGED <<settings, stored, drawn, jar, badge, scoredIn>>

-----------------------------------------------------------------------------
(* The store's TTL *)

SessionExpires(sid) ==
  /\ sid \in DOMAIN stored
  /\ Mishap
  /\ stored' = Without(stored, {sid}) /\ upset' = upset \cup {sid}
  /\ UNCHANGED <<settings, drawn, jar, badge, visits, scoredIn>>

VisitsNext ==
  \/ \E kind \in {"page", "required", "telemetry", "challenge"}, works \in BOOLEAN :
       Begin(kind, works)
  \/ \E r \in DOMAIN visits :
       \/ TelemetryFails(r) \/ AnalysisFails(r) \/ ApplicationRaises(r)
       \/ \E works \in BOOLEAN :
            \/ Challenge(r, works) \/ RecordResponse(r, works)
            \/ TelemetryScored(r, works) \/ TelemetryRefused(r, works)
            \/ \E level \in {"allow", "challenge", "block"} :
                 EvaluateVisit(r, level, works)
  \/ \E sid \in DOMAIN stored : SessionExpires(sid)

VisitsSpec == VisitsInit /\ [][VisitsNext]_visitVars

-----------------------------------------------------------------------------
\* Type invariant: a session that is stored, or named by the browser, was drawn.
VisitsTypeOK ==
  /\ drawn \in 0..MaxVisits /\ mishaps \in 0..MaxMishaps
  /\ DOMAIN stored \subseteq 1..drawn
  /\ jar \in 0..drawn /\ badge.sid \in 0..drawn
  /\ \A sid \in DOMAIN stored :
       LET times == stored[sid].times
       IN  Len(times) <= MaxListed /\ \A i \in DOMAIN times : times[i] \in DOMAIN visits

\* A list has a request, or it is full of later ones.
Listed(r, times) ==
  \/ \E i \in DOMAIN times : times[i] = r
  \/ Len(times) = MaxListed /\ \A i \in DOMAIN times : times[i] > r

\* "Stored once per request" (middleware.py:227): when a request has been
\* answered, allowed or denied, by any adapter, it is in the stored session,
\* whichever requests came before and after it, until MaxListed later ones
\* have taken its place - unless others of the session overlapped with it or
\* something failed.
RequestsKept ==
  \A r \in DOMAIN visits :
    visits[r].pc = "done" /\ visits[r].kind # "challenge"
      /\ visits[r].sid \notin upset
    => visits[r].sid \in DOMAIN stored /\ Listed(r, stored[visits[r].sid].times)

\* A request of a token-required path that reached the application was made in
\* a session whose telemetry was scored, in whatever way its token was earned -
\* or its analysis failed and fail_open, the default, let it through.
EvidenceBehindTokens ==
  \A r \in DOMAIN visits :
    visits[r].kind = "required" /\ visits[r].verdict = "allow"
      => visits[r].sid \in scoredIn \/ (visits[r].failed /\ failOpen)

\* Both, of every request.
VisitsKept == RequestsKept /\ EvidenceBehindTokens
=============================================================================
