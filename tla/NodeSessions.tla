---------------------------- MODULE NodeSessions ----------------------------
(***************************************************************************)
(* AegisNode (server-node/src/AegisNode.ts) on several instances that      *)
(* share a store, serving one browser.  An instance's engine knows the     *)
(* sessions it created; the session record lives in the store and is read, *)
(* changed and written back with other requests in between.  Scores are    *)
(* abstracted to the class they fall in, records to the requests whose     *)
(* times and scores they keep and the telemetry they remember.  mode is    *)
(* 'enforce'.                                                              *)
(***************************************************************************)
EXTENDS Integers, FiniteSets, PartialFunctions

CONSTANTS
  Instances,
  Sids,         \* bound: the session ids that can be drawn
  Requests,     \* bound: the requests of the browser, each sent once
  None,
  Anonymous,    \* the session id when there is no session
  Sequential,   \* TRUE: the browser waits for an answer before it goes on
  MaxFaults,    \* bound: outages, expiries, evictions, failed analyses
  MaxTimes,     \* how many request times a record keeps (500)
  MaxRisk       \* how many scores a record keeps (100)

ASSUME NodeAssumption ==
  /\ Sequential \in BOOLEAN /\ MaxFaults \in Nat
  /\ MaxTimes \in Nat \ {0} /\ MaxRisk \in Nat \ {0}
  /\ None \notin Sids \cup Requests /\ Anonymous \notin Sids \cup {None}

VARIABLES
  engine,     \* per instance, the session ids its engine knows
  issued,     \* session ids drawn so far (random UUIDs)
  storeUp,    \* the store answers
  records,    \* the session records in the store
  cookie,     \* the browser's aegis_sid cookie
  token,      \* the browser's token, from telemetry or a solved challenge
  reqs,       \* the requests
  faults,
  scored,     \* history: sessions whose telemetry has been scored
  saved,      \* history: per session, the requests whose record was saved,
              \* in order
  lastTel,    \* history: per session, the last telemetry saved and not expired
  disturbed   \* history: sessions with overlapping requests or a fault

vars == <<engine, issued, storeUp, records, cookie, token, reqs, faults,
          scored, saved, lastTel, disturbed>>

Kinds == {"page", "required", "telemetry", "pow"}
NewRecord == [times |-> <<>>, risk |-> <<>>, tel |-> None]
NewRequest ==
  [pc |-> "new", kind |-> "page", at |-> None, cookie |-> None, token |-> None,
   sid |-> None, record |-> NewRecord, failed |-> FALSE, mismatch |-> FALSE,
   verdict |-> None]

Init ==
  /\ engine = [i \in Instances |-> {}]
  /\ issued = {} /\ storeUp = TRUE /\ records = NoEntries
  /\ cookie = None /\ token = None
  /\ reqs = [r \in Requests |-> NewRequest]
  /\ faults = 0
  /\ scored = {} /\ disturbed = {}
  /\ saved = [s \in Sids |-> <<>>]
  /\ lastTel = [s \in Sids |-> None]

history == <<scored, saved, lastTel, disturbed>>
browser == <<cookie, token>>

-----------------------------------------------------------------------------
\* The browser sends a request with the cookie and the token it has; the load
\* balancer picks the instance.
InFlight(r) == reqs[r].pc \notin {"new", "done"}

Send(r, kind, i) ==
  /\ reqs[r].pc = "new"
  /\ Sequential => \A q \in Requests : ~InFlight(q)
  /\ reqs' = [reqs EXCEPT ![r].pc = "sent", ![r].kind = kind, ![r].at = i,
                          ![r].cookie = cookie, ![r].token = token]
  /\ UNCHANGED <<engine, issued, storeUp, records, browser, faults, history>>

\* engine.analyze(): the engine resumes a session it knows, and otherwise
\* opens one under a new id.
Analyzed(r, sid) ==
  /\ sid \in Sids
  /\ IF reqs[r].cookie \in engine[reqs[r].at]
     THEN sid = reqs[r].cookie ELSE sid \notin issued

Analyze(r, sid) ==
  /\ reqs[r].pc = "sent" /\ reqs[r].kind # "pow"
  /\ Analyzed(r, sid)
  /\ engine' = [engine EXCEPT ![reqs[r].at] = @ \cup {sid}]
  /\ issued' = issued \cup {sid}
  /\ reqs' = [reqs EXCEPT ![r].pc = "tracked", ![r].sid = sid]
  /\ UNCHANGED <<storeUp, records, browser, faults, history>>

\* A module throws: the engine fails open, without a session token.
AnalyzeFails(r) ==
  /\ reqs[r].pc = "sent" /\ reqs[r].kind # "pow"
  /\ faults < MaxFaults
  /\ faults' = faults + 1
  /\ reqs' = [reqs EXCEPT ![r].pc = "read", ![r].sid = Anonymous,
                          ![r].failed = TRUE]
  /\ UNCHANGED <<engine, issued, storeUp, records, browser, history>>

\* Mutant: the stored record is not used.
NeverRead(sid) == NewRecord

\* session(): the record as the store has it (a new one if the store does not
\* have it or does not answer), with this request added to the copy.
ReadRecord(sid) ==
  IF storeUp /\ sid \in DOMAIN records THEN records[sid] ELSE NewRecord

Overlapping(r) ==
  {reqs[q].sid : q \in {q \in Requests \ {r} :
                          reqs[q].pc = "read" /\ reqs[q].sid = reqs[r].sid}}

GetRecord(r) ==
  LET sid == reqs[r].sid
      rec == ReadRecord(sid)
  IN  /\ reqs[r].pc = "tracked"
      /\ reqs' = [reqs EXCEPT ![r].pc = "read",
                    ![r].record = [rec EXCEPT !.times = Append(@, r)]]
      /\ disturbed' = disturbed \cup Overlapping(r)
                      \cup (IF storeUp THEN {} ELSE {sid})
      /\ UNCHANGED <<engine, issued, storeUp, records, browser, faults,
                     scored, saved, lastTel>>

\* The copy as save() writes it: this request's score is added to it, and the
\* oldest times and scores are dropped.
Scored(r) ==
  LET rec == reqs[r].record
  IN  [times |-> NewestOnly(rec.times, MaxTimes),
       risk  |-> NewestOnly(Append(rec.risk, r), MaxRisk),
       tel   |-> IF reqs[r].kind = "telemetry" THEN r ELSE rec.tel]

\* save(): a write that fails is dropped.
Save(r) ==
  LET sid == reqs[r].sid
  IN  IF sid = Anonymous
      THEN UNCHANGED <<records, saved, lastTel, disturbed>>
      ELSE IF storeUp
      THEN /\ records' = Put(records, sid, Scored(r))
           /\ saved' = [saved EXCEPT ![sid] = Append(@, r)]
           /\ lastTel' = IF reqs[r].kind = "telemetry"
                         THEN [lastTel EXCEPT ![sid] = r] ELSE lastTel
           /\ UNCHANGED disturbed
      ELSE /\ disturbed' = disturbed \cup {sid}
           /\ UNCHANGED <<records, saved, lastTel>>

\* Mutant: the cookie is set although there is no session.
SetAnyCookie(r) == cookie' = reqs[r].sid

\* The answer sets a cookie when another session served the request than the
\* one it named.  (Saving and answering are one step: answers that overtake
\* each other differ only if their sessions, and so their records, do.)
SetCookie(r) ==
  cookie' = IF reqs[r].sid \in {Anonymous, reqs[r].cookie}
            THEN cookie ELSE reqs[r].sid

\* handleTelemetry(): scores, remembers the score in the record, issues a token.
AnswerTelemetry(r) ==
  /\ reqs[r].pc = "read" /\ reqs[r].kind = "telemetry"
  /\ scored' = scored \cup {reqs[r].sid}
  /\ Save(r)
  /\ token' = [sid |-> reqs[r].sid, pow |-> FALSE, tel |-> FALSE]
  /\ SetCookie(r)
  /\ reqs' = [reqs EXCEPT ![r].pc = "done"]
  /\ UNCHANGED <<engine, issued, storeUp, faults>>

\* evaluate(): what the token says of this session.
Mismatched(r) ==
  /\ reqs[r].token # None
  /\ reqs[r].token.sid # Anonymous
  /\ reqs[r].token.sid # reqs[r].sid

Claims(r, expired) ==
  IF reqs[r].token = None \/ expired \/ Mismatched(r) THEN None ELSE reqs[r].token

\* The class of the fused score; a mismatch alone scores 60, above the
\* challenge threshold of 50.
Scores(r, expired) ==
  IF Mismatched(r) /\ ~expired THEN {"challenge", "block"}
  ELSE {"allow", "challenge", "block"}

\* Mutant: any token counts as telemetry.
AnyToken(claims) == claims # None

HasTelemetry(claims) == claims # None /\ (claims.pow => claims.tel)
SolvedPow(claims) == claims # None /\ claims.pow

Verdict(r, score, claims) ==
  IF score = "block" THEN "block"
  ELSE IF score = "challenge" /\ ~SolvedPow(claims) THEN "challenge"
  ELSE IF reqs[r].kind = "required" /\ ~HasTelemetry(claims) THEN "challenge"
  ELSE "allow"

AnswerRequest(r, score, expired) ==
  /\ reqs[r].pc = "read" /\ reqs[r].kind \in {"page", "required"}
  /\ score \in Scores(r, expired)
  /\ Save(r)
  /\ SetCookie(r)
  /\ reqs' = [reqs EXCEPT ![r].pc = "done",
                ![r].mismatch = Mismatched(r) /\ ~expired,
                ![r].verdict = Verdict(r, score, Claims(r, expired))]
  /\ UNCHANGED <<engine, issued, storeUp, token, faults, scored>>

\* handleChallenge(): burn the challenge in the store, or answer 503.
Redeem(r) ==
  /\ reqs[r].pc = "sent" /\ reqs[r].kind = "pow"
  /\ reqs' = [reqs EXCEPT ![r].pc = IF storeUp THEN "solved" ELSE "done"]
  /\ UNCHANGED <<engine, issued, storeUp, records, browser, faults, history>>

\* The token for a solved challenge carries the telemetry the record remembers.
IssuePowToken(r) ==
  LET sid == IF reqs[r].cookie = None THEN Anonymous ELSE reqs[r].cookie
  IN  /\ reqs[r].pc = "solved"
      /\ token' = [sid |-> sid, pow |-> TRUE, tel |-> ReadRecord(sid).tel # None]
      /\ reqs' = [reqs EXCEPT ![r].pc = "done", ![r].sid = sid]
      /\ UNCHANGED <<engine, issued, storeUp, records, cookie, faults, history>>

-----------------------------------------------------------------------------
\* What goes wrong around the instances.
Fault == faults < MaxFaults /\ faults' = faults + 1

StoreGoesDown ==
  /\ storeUp /\ Fault
  /\ storeUp' = FALSE
  /\ UNCHANGED <<engine, issued, records, browser, reqs, history>>

StoreComesBack ==
  /\ ~storeUp
  /\ storeUp' = TRUE
  /\ UNCHANGED <<engine, issued, records, browser, reqs, faults, history>>

\* The record's time to live passes; its history starts anew.
RecordExpires(sid) ==
  /\ sid \in DOMAIN records /\ Fault
  /\ records' = Without(records, {sid})
  /\ lastTel' = [lastTel EXCEPT ![sid] = None]
  /\ disturbed' = disturbed \cup {sid}
  /\ UNCHANGED <<engine, issued, storeUp, browser, reqs, scored, saved>>

\* An engine evicts or expires a session, or its process restarts.
EngineForgets(i, lost) ==
  /\ lost # {} /\ Fault
  /\ engine' = [engine EXCEPT ![i] = @ \ lost]
  /\ UNCHANGED <<issued, storeUp, records, browser, reqs, history>>

Next ==
  \/ \E r \in Requests, kind \in Kinds, i \in Instances : Send(r, kind, i)
  \/ \E r \in Requests, sid \in Sids : Analyze(r, sid)
  \/ \E r \in Requests :
       \/ AnalyzeFails(r) \/ GetRecord(r) \/ AnswerTelemetry(r)
       \/ Redeem(r) \/ IssuePowToken(r)
  \/ \E r \in Requests, score \in {"allow", "challenge", "block"},
        expired \in BOOLEAN : AnswerRequest(r, score, expired)
  \/ StoreGoesDown \/ StoreComesBack
  \/ \E sid \in Sids : RecordExpires(sid)
  \/ \E i \in Instances : \E lost \in SUBSET engine[i] : EngineForgets(i, lost)

Spec == Init /\ [][Next]_vars

-----------------------------------------------------------------------------
Done(r) == reqs[r].pc = "done"
Records == [times : Seq(Requests), risk : Seq(Requests), tel : Requests \cup {None}]

\* Type invariant; every session id in use was drawn by an engine, and the
\* time of a request is in at most the record of the session it was given.
TypeOK ==
  /\ issued \subseteq Sids /\ storeUp \in BOOLEAN /\ faults \in 0..MaxFaults
  /\ \A i \in Instances : engine[i] \subseteq issued
  /\ DOMAIN records \subseteq issued /\ cookie \in issued \cup {None}
  /\ \A s \in DOMAIN records :
       /\ records[s] \in Records
       /\ Len(records[s].times) <= MaxTimes /\ Len(records[s].risk) <= MaxRisk
       /\ \A i \in DOMAIN records[s].times : reqs[records[s].times[i]].sid = s
  /\ token # None => token.sid \in issued \cup {Anonymous}

\* Without overlapping requests, outages and expiry nothing is lost but what
\* save() drops by age: the session record holds the times of the last
\* MaxTimes requests saved, the scores of the last MaxRisk, and the latest
\* telemetry.
UndisturbedComplete ==
  \A s \in Sids \ disturbed :
    /\ s \in DOMAIN records <=> saved[s] # <<>>
    /\ s \in DOMAIN records =>
         /\ records[s].times = NewestOnly(saved[s], MaxTimes)
         /\ records[s].risk = NewestOnly(saved[s], MaxRisk)
         /\ records[s].tel = lastTel[s]

\* A token-required path lets a request through only on behavioural evidence
\* that was scored for this very session (or for a client without one): proof
\* of work alone never replaces it, whatever was lost or raced.
EvidenceBehindAllow ==
  \A r \in Requests :
    Done(r) /\ reqs[r].kind = "required" /\ reqs[r].verdict = "allow" =>
      /\ reqs[r].token # None
      /\ reqs[r].token.sid \in scored \cap {reqs[r].sid, Anonymous}

\* "So any number of replicas behave like one": a browser that sends the
\* cookie and token it was given stays in its session, and its token is not
\* taken for another client's.
SessionContinues ==
  \A r \in Requests :
    Done(r) /\ reqs[r].kind # "pow" /\ reqs[r].cookie # None =>
      reqs[r].sid = reqs[r].cookie /\ ~reqs[r].mismatch

\* "A lost update drops one request time": it does not drop the telemetry
\* score, which the next challenge token and token-required paths rely on.
TelemetryKept ==
  \A s \in Sids :
    lastTel[s] # None => s \in DOMAIN records /\ records[s].tel # None
=============================================================================
