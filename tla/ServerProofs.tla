----------------------------- MODULE ServerProofs -----------------------------
(***************************************************************************)
(* Proofs about the parts of a server that module MCServer puts together:  *)
(* the session records of several instances (NodeSessions), the way of a   *)
(* request through the adapters (RequestFlow), the records kept in memory  *)
(* (LocalRecords), the worker in front of the origin (EdgeWorker) and a    *)
(* Python server (PythonRequests), for any instances, sessions, requests   *)
(* and number of faults.                                                   *)
(***************************************************************************)
EXTENDS NodeSessions, RequestFlow, LocalRecords, EdgeWorker, PythonRequests, TLAPS

---------------------------------------------------------------------------
(* Lists that keep their newest entries: the end of all that was appended. *)

IsEnd(end, list) ==
  /\ Len(end) <= Len(list)
  /\ \A i \in 1..Len(end) : end[i] = list[Len(list) - Len(end) + i]

LEMMA NewestFacts ==
  ASSUME NEW S, NEW list \in Seq(S), NEW cap \in Nat
  PROVE  /\ NewestOnly(list, cap) \in Seq(S)
         /\ Len(NewestOnly(list, cap)) = IF Len(list) > cap THEN cap ELSE Len(list)
         /\ IsEnd(NewestOnly(list, cap), list)
  <1> DEFINE n == Len(list)
  <1>1. n \in Nat /\ \A i \in 1..n : list[i] \in S
    OBVIOUS
  <1>2. CASE n > cap
    <2>1. NewestOnly(list, cap) = SubSeq(list, n - cap + 1, n)
      BY <1>2 DEF NewestOnly
    <2>2. n - cap + 1 \in 1..n + 1
      BY <1>1, <1>2
    <2>3. /\ SubSeq(list, n - cap + 1, n) \in Seq(S)
          /\ Len(SubSeq(list, n - cap + 1, n)) = cap
          /\ \A i \in 1..cap : SubSeq(list, n - cap + 1, n)[i] = list[n - cap + i]
      BY <1>1, <1>2, <2>2
    <2> QED
      BY <1>1, <1>2, <2>1, <2>3 DEF IsEnd
  <1>3. CASE ~(n > cap)
    <2>1. NewestOnly(list, cap) = list
      BY <1>3 DEF NewestOnly
    <2> QED
      BY <1>1, <1>3, <2>1 DEF IsEnd
  <1> QED
    BY <1>2, <1>3

\* Two ends of a list of the same length are the same.
LEMMA EndsEqual ==
  ASSUME NEW S, NEW a \in Seq(S), NEW b \in Seq(S), NEW list \in Seq(S),
         IsEnd(a, list), IsEnd(b, list), Len(a) = Len(b)
  PROVE  a = b
  BY DEF IsEnd

LEMMA EndGrows ==
  ASSUME NEW S, NEW end \in Seq(S), NEW list \in Seq(S), NEW x \in S, IsEnd(end, list)
  PROVE  IsEnd(Append(end, x), Append(list, x))
  BY DEF IsEnd

LEMMA EndOfEnd ==
  ASSUME NEW S, NEW a \in Seq(S), NEW b \in Seq(S), NEW list \in Seq(S),
         IsEnd(a, b), IsEnd(b, list)
  PROVE  IsEnd(a, list)
  BY DEF IsEnd

\* Dropping the oldest before and after an entry is added, or only after it.
LEMMA NewestAppended ==
  ASSUME NEW S, NEW list \in Seq(S), NEW x \in S, NEW cap \in Nat \ {0}
  PROVE  NewestOnly(Append(NewestOnly(list, cap), x), cap) = NewestOnly(Append(list, x), cap)
  <1> DEFINE short == NewestOnly(list, cap)
             left == NewestOnly(Append(short, x), cap)
             right == NewestOnly(Append(list, x), cap)
  <1>1. /\ short \in Seq(S) /\ IsEnd(short, list)
        /\ Len(short) = IF Len(list) > cap THEN cap ELSE Len(list)
    BY NewestFacts
  <1> HIDE DEF short
  <1>2. Append(list, x) \in Seq(S) /\ Append(short, x) \in Seq(S)
    BY <1>1
  <1>3. /\ left \in Seq(S) /\ IsEnd(left, Append(short, x))
        /\ Len(left) = IF Len(Append(short, x)) > cap THEN cap ELSE Len(Append(short, x))
    BY <1>2, NewestFacts
  <1>4. /\ right \in Seq(S) /\ IsEnd(right, Append(list, x))
        /\ Len(right) = IF Len(Append(list, x)) > cap THEN cap ELSE Len(Append(list, x))
    BY <1>2, NewestFacts
  <1> HIDE DEF left, right
  <1>5. IsEnd(left, Append(list, x))
    BY <1>1, <1>2, <1>3, EndGrows, EndOfEnd
  <1>6. Len(left) = Len(right)
    BY <1>1, <1>3, <1>4
  <1>7. left = right
    BY <1>2, <1>3, <1>4, <1>5, <1>6, EndsEqual
  <1> QED
    BY <1>7 DEF left, right, short

---------------------------------------------------------------------------
(* NodeSessions: a token-required path lets a request through only on      *)
(* telemetry that was scored for its session, and a session whose requests *)
(* do not overlap and that no fault befalls has a complete record.         *)

SessionTokens == [sid : Sids \cup {Anonymous, None}, pow : BOOLEAN, tel : BOOLEAN]
RequestStates ==
  [pc : {"new", "sent", "tracked", "read", "solved", "done"}, kind : Kinds,
   at : Instances \cup {None}, cookie : Sids \cup {None}, token : SessionTokens \cup {None},
   sid : Sids \cup {Anonymous, None}, record : Records, failed : BOOLEAN,
   mismatch : BOOLEAN, verdict : {None, "allow", "challenge", "block"}]

\* What the proof needs to know of the types.
Typed ==
  /\ cookie \in Sids \cup {None}
  /\ token \in SessionTokens \cup {None}
  /\ DOMAIN records \subseteq Sids
  /\ \A s \in DOMAIN records : records[s] \in Records
  /\ reqs \in [Requests -> RequestStates]

\* A token that speaks for telemetry belongs to a session that was scored.
Backed(t) == t # None /\ (t.pow => t.tel) => t.sid \in scored

\* So does a record that remembers telemetry, in the store or in a request.
RecordsBacked == \A s \in DOMAIN records : records[s].tel # None => s \in scored

CopyBacked(r) ==
  reqs[r].record.tel # None => /\ reqs[r].sid \in scored
                               /\ reqs[r].pc \in {"read", "done"}

Allowed(r) ==
  Done(r) /\ reqs[r].kind = "required" /\ reqs[r].verdict = "allow" =>
    /\ reqs[r].token # None
    /\ reqs[r].token.sid \in scored \cap {reqs[r].sid, Anonymous}

RequestOK(r) ==
  /\ Backed(reqs[r].token)
  /\ CopyBacked(r)
  /\ reqs[r].pc = "solved" => reqs[r].kind = "pow"
  /\ reqs[r].pc \in {"tracked", "read"} => reqs[r].sid \in Sids \cup {Anonymous}
  /\ Allowed(r)

IInv ==
  Typed /\ Backed(token) /\ RecordsBacked /\ \A r \in Requests : RequestOK(r)

---------------------------------------------------------------------------
LEMMA InitIInv == Init => IInv
  <1> SUFFICES ASSUME Init PROVE IInv
    OBVIOUS
  <1>1. NewRecord \in Records /\ NewRecord.tel = None
    <2>1. <<>> \in Seq(Requests)
      OBVIOUS
    <2> QED
      BY <2>1 DEF NewRecord, Records
  <1>2. NewRequest \in RequestStates
    BY <1>1 DEF NewRequest, RequestStates, Kinds
  <1>3. records = NoEntries /\ DOMAIN NoEntries = {}
    BY DEF Init, NoEntries
  <1>4. Typed
    BY <1>2, <1>3 DEF Init, Typed
  <1>5. ASSUME NEW r \in Requests PROVE RequestOK(r)
    <2>1. reqs[r] = NewRequest
      BY DEF Init
    <2> QED
      BY <1>1, <2>1 DEF NewRequest, RequestOK, Backed, CopyBacked, Allowed, Done
  <1> QED
    BY <1>3, <1>4, <1>5 DEF Init, IInv, Backed, RecordsBacked

\* What a step leaves alone stays backed, because scored only grows.
LEMMA SessionUntouched ==
  ASSUME NEW r \in Requests, RequestOK(r), reqs'[r] = reqs[r], scored \subseteq scored'
  PROVE  RequestOK(r)'
  BY DEF RequestOK, Backed, CopyBacked, Allowed, Done

\* The record a request reads is backed.
LEMMA ReadBacked ==
  ASSUME IInv, NEW sid
  PROVE  ReadRecord(sid) \in Records /\ (ReadRecord(sid).tel # None => sid \in scored)
  <1>1. NewRecord \in Records /\ NewRecord.tel = None
    <2>1. <<>> \in Seq(Requests)
      OBVIOUS
    <2> QED
      BY <2>1 DEF NewRecord, Records
  <1> QED
    BY <1>1 DEF IInv, Typed, RecordsBacked, ReadRecord

\* What is written, with this request's score, is a record.
LEMMA ScoredFacts ==
  ASSUME NEW r \in Requests, reqs[r].record \in Records
  PROVE  /\ Scored(r) \in Records
         /\ Scored(r).times = NewestOnly(reqs[r].record.times, MaxTimes)
         /\ Scored(r).risk = NewestOnly(Append(reqs[r].record.risk, r), MaxRisk)
         /\ Scored(r).tel = IF reqs[r].kind = "telemetry" THEN r ELSE reqs[r].record.tel
  <1> DEFINE rec == reqs[r].record
             times == NewestOnly(rec.times, MaxTimes)
             risk == NewestOnly(Append(rec.risk, r), MaxRisk)
             tel == IF reqs[r].kind = "telemetry" THEN r ELSE rec.tel
  <1>1. rec.times \in Seq(Requests) /\ rec.risk \in Seq(Requests) /\ tel \in Requests \cup {None}
    BY DEF Records
  <1>2. Append(rec.risk, r) \in Seq(Requests)
    BY <1>1
  <1>3. times \in Seq(Requests) /\ risk \in Seq(Requests)
    BY <1>1, <1>2, NewestFacts, NodeAssumption
  <1>4. Scored(r) = [times |-> times, risk |-> risk, tel |-> tel]
    BY DEF Scored
  <1> HIDE DEF times, risk, tel
  <1>5. Scored(r) \in Records /\ Scored(r).times = times /\ Scored(r).risk = risk /\ Scored(r).tel = tel
    BY <1>1, <1>3, <1>4 DEF Records
  <1> QED
    BY <1>5 DEF times, risk, tel

\* A step that saves nothing and issues no token: one request goes on, to a
\* state that is typed and backed.
LEMMA OneMoves ==
  ASSUME IInv, NEW r \in Requests, NEW new \in RequestStates,
         reqs' = [reqs EXCEPT ![r] = new], RequestOK(r)',
         UNCHANGED <<records, browser, scored>>
  PROVE  IInv'
  <1>1. Typed'
    BY DEF IInv, Typed, browser
  <1>2. Backed(token)' /\ RecordsBacked'
    BY DEF IInv, Backed, RecordsBacked, browser
  <1>3. ASSUME NEW q \in Requests PROVE RequestOK(q)'
    <2>1. CASE q = r
      BY <2>1
    <2>2. CASE q # r
      BY <2>2, SessionUntouched DEF IInv, Typed
    <2> QED
      BY <2>1, <2>2
  <1> QED
    BY <1>1, <1>2, <1>3 DEF IInv

\* save() keeps what is remembered backed.
LEMMA SaveBacked ==
  ASSUME IInv, NEW r \in Requests, reqs[r].pc = "read", Scored(r) \in Records,
         Scored(r).tel # None => reqs[r].sid \in scored',
         scored \subseteq scored', Save(r)
  PROVE  /\ DOMAIN records' \subseteq Sids
         /\ \A s \in DOMAIN records' : records'[s] \in Records
         /\ RecordsBacked'
  <1>1. reqs[r].sid \in Sids \cup {Anonymous}
    BY DEF IInv, RequestOK
  <1>2. CASE records' = records
    BY <1>2 DEF IInv, Typed, RecordsBacked
  <1>3. CASE records' # records
    <2>1. reqs[r].sid \in Sids /\ records' = Put(records, reqs[r].sid, Scored(r))
      BY <1>1, <1>3 DEF Save
    <2> QED
      BY <2>1 DEF Put, IInv, Typed, RecordsBacked
  <1> QED
    BY <1>2, <1>3

\* A request that is answered: its session may be scored, its record saved.
LEMMA SessionAnswered ==
  ASSUME IInv, NEW r \in Requests, NEW new \in RequestStates, Scored(r) \in Records,
         reqs[r].pc = "read", Scored(r).tel # None => reqs[r].sid \in scored',
         scored \subseteq scored', Save(r), SetCookie(r),
         reqs' = [reqs EXCEPT ![r] = new], RequestOK(r)',
         token' \in SessionTokens \cup {None}, Backed(token)'
  PROVE  IInv'
  <1>1. /\ DOMAIN records' \subseteq Sids
        /\ \A s \in DOMAIN records' : records'[s] \in Records
        /\ RecordsBacked'
    BY SaveBacked
  <1>2. cookie' \in Sids \cup {None}
    BY DEF SetCookie, IInv, Typed, RequestOK
  <1>3. Typed'
    BY <1>1, <1>2 DEF IInv, Typed
  <1>4. ASSUME NEW q \in Requests PROVE RequestOK(q)'
    <2>1. CASE q = r
      BY <2>1
    <2>2. CASE q # r
      BY <2>2, SessionUntouched DEF IInv, Typed
    <2> QED
      BY <2>1, <2>2
  <1> QED
    BY <1>1, <1>3, <1>4 DEF IInv

---------------------------------------------------------------------------
(* One lemma per action that does more than move one request.              *)

LEMMA SendStep ==
  ASSUME IInv, NEW r \in Requests, NEW kind \in Kinds, NEW i \in Instances, Send(r, kind, i)
  PROVE  IInv'
  <1> DEFINE new == [reqs[r] EXCEPT !.pc = "sent", !.kind = kind, !.at = i,
                                    !.cookie = cookie, !.token = token]
  <1>1. reqs[r] \in RequestStates /\ reqs[r].pc = "new"
    BY DEF IInv, Typed, Send
  <1>2. new \in RequestStates
    BY <1>1 DEF RequestStates, IInv, Typed
  <1>3. reqs' = [reqs EXCEPT ![r] = new]
    BY <1>1 DEF Send, IInv, Typed
  <1>4. reqs'[r] = new
    BY <1>3 DEF IInv, Typed
  <1>5. RequestOK(r)'
    <2>1. /\ new.pc = "sent" /\ new.token = token
          /\ new.record = reqs[r].record
      BY <1>1 DEF RequestStates
    <2>2. reqs[r].record.tel = None
      BY <1>1 DEF IInv, RequestOK, CopyBacked
    <2>3. Backed(token) /\ scored' = scored
      BY DEF IInv, Send, history
    <2> QED
      BY <1>4, <2>1, <2>2, <2>3 DEF RequestOK, CopyBacked, Allowed, Done, Backed
  <1> QED
    BY <1>2, <1>3, <1>5, OneMoves DEF Send, history

LEMMA AnalyzeStep ==
  ASSUME IInv, NEW r \in Requests, NEW sid \in Sids, Analyze(r, sid)
  PROVE  IInv'
  <1> DEFINE new == [reqs[r] EXCEPT !.pc = "tracked", !.sid = sid]
  <1>1. reqs[r] \in RequestStates /\ reqs[r].pc = "sent"
    BY DEF IInv, Typed, Analyze
  <1>2. new \in RequestStates
    BY <1>1 DEF RequestStates
  <1>3. reqs' = [reqs EXCEPT ![r] = new]
    BY <1>1 DEF Analyze, IInv, Typed
  <1>4. reqs'[r] = new
    BY <1>3 DEF IInv, Typed
  <1>5. RequestOK(r)'
    <2>1. /\ new.pc = "tracked" /\ new.token = reqs[r].token /\ new.sid = sid
          /\ new.record = reqs[r].record
      BY <1>1 DEF RequestStates
    <2>2. reqs[r].record.tel = None /\ Backed(reqs[r].token)
      BY <1>1 DEF IInv, RequestOK, CopyBacked
    <2>3. scored' = scored
      BY DEF Analyze, history
    <2> QED
      BY <1>4, <2>1, <2>2, <2>3 DEF RequestOK, CopyBacked, Allowed, Done, Backed
  <1> QED
    BY <1>2, <1>3, <1>5, OneMoves DEF Analyze, history

LEMMA AnalyzeFailsStep ==
  ASSUME IInv, NEW r \in Requests, AnalyzeFails(r)
  PROVE  IInv'
  <1> DEFINE new == [reqs[r] EXCEPT !.pc = "read", !.sid = Anonymous, !.failed = TRUE]
  <1>1. reqs[r] \in RequestStates /\ reqs[r].pc = "sent"
    BY DEF IInv, Typed, AnalyzeFails
  <1>2. new \in RequestStates
    BY <1>1 DEF RequestStates
  <1>3. reqs' = [reqs EXCEPT ![r] = new]
    BY <1>1 DEF AnalyzeFails, IInv, Typed
  <1>4. reqs'[r] = new
    BY <1>3 DEF IInv, Typed
  <1>5. RequestOK(r)'
    <2>1. /\ new.pc = "read" /\ new.token = reqs[r].token /\ new.sid = Anonymous
          /\ new.record = reqs[r].record
      BY <1>1 DEF RequestStates
    <2>2. reqs[r].record.tel = None /\ Backed(reqs[r].token)
      BY <1>1 DEF IInv, RequestOK, CopyBacked
    <2>3. scored' = scored
      BY DEF AnalyzeFails, history
    <2> QED
      BY <1>4, <2>1, <2>2, <2>3 DEF RequestOK, CopyBacked, Allowed, Done, Backed
  <1> QED
    BY <1>2, <1>3, <1>5, OneMoves DEF AnalyzeFails, history

LEMMA GetRecordStep ==
  ASSUME IInv, NEW r \in Requests, GetRecord(r)
  PROVE  IInv'
  <1> DEFINE rec == ReadRecord(reqs[r].sid)
             copy == [rec EXCEPT !.times = Append(@, r)]
             new == [reqs[r] EXCEPT !.pc = "read", !.record = copy]
  <1>1. reqs[r] \in RequestStates /\ reqs[r].pc = "tracked"
    BY DEF IInv, Typed, GetRecord
  <1>2. rec \in Records /\ (rec.tel # None => reqs[r].sid \in scored)
    BY ReadBacked
  <1>3. copy \in Records /\ copy.tel = rec.tel
    <2> HIDE DEF rec
    <2>1. rec.times \in Seq(Requests)
      BY <1>2 DEF Records
    <2>2. Append(rec.times, r) \in Seq(Requests)
      BY <2>1
    <2> QED
      BY <1>2, <2>2 DEF Records
  <1>4. reqs' = [reqs EXCEPT ![r] = new]
    BY <1>1 DEF GetRecord, IInv, Typed
  <1> HIDE DEF copy, rec
  <1>5. new \in RequestStates
    BY <1>1, <1>3 DEF RequestStates
  <1>6. reqs'[r] = new
    BY <1>4 DEF IInv, Typed
  <1>7. RequestOK(r)'
    <2>1. /\ new.pc = "read" /\ new.token = reqs[r].token /\ new.sid = reqs[r].sid
          /\ new.record = copy
      BY <1>1 DEF RequestStates
    <2>2. Backed(reqs[r].token) /\ reqs[r].sid \in Sids \cup {Anonymous}
      BY <1>1 DEF IInv, RequestOK
    <2>3. scored' = scored
      BY DEF GetRecord
    <2> QED
      BY <1>2, <1>3, <1>6, <2>1, <2>2, <2>3 DEF RequestOK, CopyBacked, Allowed, Done, Backed
  <1> QED
    BY <1>4, <1>5, <1>7, OneMoves DEF GetRecord

LEMMA RedeemStep ==
  ASSUME IInv, NEW r \in Requests, Redeem(r)
  PROVE  IInv'
  <1> DEFINE next == IF storeUp THEN "solved" ELSE "done"
             new == [reqs[r] EXCEPT !.pc = next]
  <1>1. reqs[r] \in RequestStates /\ reqs[r].pc = "sent" /\ reqs[r].kind = "pow"
    BY DEF IInv, Typed, Redeem
  <1>2. next \in {"solved", "done"}
    OBVIOUS
  <1>3. reqs' = [reqs EXCEPT ![r] = new]
    BY <1>1 DEF Redeem, IInv, Typed
  <1> HIDE DEF next
  <1>4. new \in RequestStates
    BY <1>1, <1>2 DEF RequestStates
  <1>5. reqs'[r] = new
    BY <1>3 DEF IInv, Typed
  <1>6. RequestOK(r)'
    <2>1. /\ new.pc = next /\ new.token = reqs[r].token /\ new.kind = "pow"
          /\ new.record = reqs[r].record
      BY <1>1 DEF RequestStates
    <2>2. reqs[r].record.tel = None /\ Backed(reqs[r].token)
      BY <1>1 DEF IInv, RequestOK, CopyBacked
    <2>3. scored' = scored
      BY DEF Redeem, history
    <2> QED
      BY <1>2, <1>5, <2>1, <2>2, <2>3 DEF RequestOK, CopyBacked, Allowed, Done, Backed
  <1> QED
    BY <1>3, <1>4, <1>6, OneMoves DEF Redeem, history

\* A pow token carries the mark only if the record it was read from is backed.
LEMMA IssueStep ==
  ASSUME IInv, NEW r \in Requests, IssuePowToken(r)
  PROVE  IInv'
  <1> DEFINE sid == IF reqs[r].cookie = None THEN Anonymous ELSE reqs[r].cookie
             rec == ReadRecord(sid)
             new == [reqs[r] EXCEPT !.pc = "done", !.sid = sid]
  <1>1. /\ reqs[r] \in RequestStates /\ reqs[r].pc = "solved" /\ reqs[r].kind = "pow"
        /\ reqs[r].record.tel = None /\ Backed(reqs[r].token)
    BY DEF IInv, Typed, IssuePowToken, RequestOK, CopyBacked
  <1>2. sid \in Sids \cup {Anonymous}
    BY <1>1 DEF RequestStates
  <1>3. rec.tel # None => sid \in scored
    BY ReadBacked
  <1>4. token' = [sid |-> sid, pow |-> TRUE, tel |-> rec.tel # None]
    BY DEF IssuePowToken
  <1>5. reqs' = [reqs EXCEPT ![r] = new]
    BY <1>1 DEF IssuePowToken, IInv, Typed
  <1>6. UNCHANGED <<records, cookie, scored>>
    BY DEF IssuePowToken, history
  <1> HIDE DEF sid, rec
  <1>7. token' \in SessionTokens /\ Backed(token)'
    BY <1>2, <1>3, <1>4, <1>6 DEF SessionTokens, Backed
  <1>8. new \in RequestStates
    BY ZenonT(40), <1>1, <1>2 DEF RequestStates
  <1>9. reqs'[r] = new
    BY <1>5 DEF IInv, Typed
  <1>10. RequestOK(r)'
    <2>1. /\ new.pc = "done" /\ new.token = reqs[r].token /\ new.kind = "pow"
          /\ new.record = reqs[r].record
      BY <1>1 DEF RequestStates
    <2> QED
      BY <1>1, <1>6, <1>9, <2>1 DEF RequestOK, CopyBacked, Allowed, Done, Backed
  <1>11. Typed'
    BY <1>5, <1>6, <1>7, <1>8 DEF IInv, Typed
  <1>12. ASSUME NEW q \in Requests PROVE RequestOK(q)'
    <2>1. CASE q = r
      BY <1>10, <2>1
    <2>2. CASE q # r
      BY <1>5, <1>6, <2>2, SessionUntouched DEF IInv, Typed
    <2> QED
      BY <2>1, <2>2
  <1> QED
    BY <1>6, <1>7, <1>11, <1>12 DEF IInv, RecordsBacked

LEMMA TelemetryStep ==
  ASSUME IInv, NEW r \in Requests, AnswerTelemetry(r)
  PROVE  IInv'
  <1> DEFINE new == [reqs[r] EXCEPT !.pc = "done"]
  <1>1. /\ reqs[r] \in RequestStates /\ reqs[r].pc = "read" /\ reqs[r].kind = "telemetry"
        /\ Backed(reqs[r].token) /\ CopyBacked(r)
    BY DEF IInv, Typed, AnswerTelemetry, RequestOK
  <1>2. reqs[r].record \in Records /\ new \in RequestStates
    BY <1>1 DEF RequestStates
  <1>0. Scored(r) \in Records
    BY <1>2, ScoredFacts
  <1>3. reqs[r].sid \in scored' /\ scored \subseteq scored'
    BY DEF AnswerTelemetry
  <1>4. reqs' = [reqs EXCEPT ![r] = new]
    BY <1>1 DEF AnswerTelemetry, IInv, Typed
  <1>5. reqs'[r] = new
    BY <1>4 DEF IInv, Typed
  <1>6. RequestOK(r)'
    <2>1. /\ new.pc = "done" /\ new.token = reqs[r].token /\ new.kind = "telemetry"
          /\ new.record = reqs[r].record /\ new.sid = reqs[r].sid
      BY <1>1 DEF RequestStates
    <2> QED
      BY <1>1, <1>3, <1>5, <2>1 DEF RequestOK, CopyBacked, Allowed, Done, Backed
  <1>7. token' \in SessionTokens /\ Backed(token)'
    <2>1. token' = [sid |-> reqs[r].sid, pow |-> FALSE, tel |-> FALSE]
      BY DEF AnswerTelemetry
    <2> QED
      BY <1>1, <1>3, <2>1 DEF SessionTokens, Backed, RequestStates
  <1>8. Save(r) /\ SetCookie(r)
    BY DEF AnswerTelemetry
  <1> HIDE DEF new
  <1> QED
    BY <1>0, <1>1, <1>2, <1>3, <1>4, <1>6, <1>7, <1>8, SessionAnswered

\* What lets a request through on a token-required path.
LEMMA AllowedOnEvidence ==
  ASSUME NEW r \in Requests, NEW score, NEW expired \in BOOLEAN,
         Backed(reqs[r].token), reqs[r].kind = "required",
         Verdict(r, score, Claims(r, expired)) = "allow"
  PROVE  /\ reqs[r].token # None
         /\ reqs[r].token.sid \in scored \cap {reqs[r].sid, Anonymous}
  <1>1. HasTelemetry(Claims(r, expired))
    BY DEF Verdict
  <1>2. Claims(r, expired) # None
    BY <1>1 DEF HasTelemetry
  <1>3. /\ Claims(r, expired) = reqs[r].token
        /\ reqs[r].token # None /\ ~Mismatched(r)
    BY <1>2 DEF Claims
  <1>4. reqs[r].token.pow => reqs[r].token.tel
    BY <1>1, <1>3 DEF HasTelemetry
  <1>5. reqs[r].token.sid \in scored
    BY <1>3, <1>4 DEF Backed
  <1> QED
    BY <1>3, <1>5 DEF Mismatched

LEMMA RequestStep ==
  ASSUME IInv, NEW r \in Requests, NEW score \in {"allow", "challenge", "block"},
         NEW expired \in BOOLEAN, AnswerRequest(r, score, expired)
  PROVE  IInv'
  <1> DEFINE verdict == Verdict(r, score, Claims(r, expired))
             mismatch == Mismatched(r) /\ ~expired
             new == [reqs[r] EXCEPT !.pc = "done", !.mismatch = mismatch, !.verdict = verdict]
  <1>1. /\ reqs[r] \in RequestStates /\ reqs[r].pc = "read"
        /\ Backed(reqs[r].token) /\ CopyBacked(r)
    BY DEF IInv, Typed, AnswerRequest, RequestOK
  <1>2. verdict \in {"allow", "challenge", "block"}
    BY DEF Verdict
  <1>3. reqs[r].kind = "required" /\ verdict = "allow" =>
          /\ reqs[r].token # None
          /\ reqs[r].token.sid \in scored \cap {reqs[r].sid, Anonymous}
    BY <1>1, AllowedOnEvidence
  <1>4. mismatch \in BOOLEAN
    BY DEF Mismatched
  <1>5. reqs' = [reqs EXCEPT ![r] = new]
    BY <1>1 DEF AnswerRequest, IInv, Typed
  <1> HIDE DEF verdict, mismatch
  <1>6. new \in RequestStates
    BY <1>1, <1>2, <1>4 DEF RequestStates
  <1>7. reqs'[r] = new
    BY <1>5 DEF IInv, Typed
  <1>8. scored' = scored /\ token' = token /\ Save(r) /\ SetCookie(r)
    BY DEF AnswerRequest
  <1>9. RequestOK(r)'
    <2>1. /\ new.pc = "done" /\ new.token = reqs[r].token /\ new.kind = reqs[r].kind
          /\ new.record = reqs[r].record /\ new.sid = reqs[r].sid /\ new.verdict = verdict
      BY <1>1 DEF RequestStates
    <2> QED
      BY <1>1, <1>3, <1>7, <1>8, <2>1 DEF RequestOK, CopyBacked, Allowed, Done, Backed
  <1>10. token' \in SessionTokens \cup {None} /\ Backed(token)'
    BY <1>8 DEF IInv, Typed, Backed
  <1>11. /\ Scored(r) \in Records
         /\ Scored(r).tel # None => reqs[r].sid \in scored'
    <2>1. reqs[r].record \in Records /\ reqs[r].kind # "telemetry"
      BY <1>1 DEF RequestStates, AnswerRequest
    <2>2. Scored(r) \in Records /\ Scored(r).tel = reqs[r].record.tel
      BY <2>1, ScoredFacts
    <2> QED
      BY <1>1, <1>8, <2>2 DEF CopyBacked
  <1> HIDE DEF new
  <1> QED
    BY <1>1, <1>5, <1>6, <1>8, <1>9, <1>10, <1>11, SessionAnswered

LEMMA FaultStep ==
  ASSUME IInv,
         \/ StoreGoesDown \/ StoreComesBack
         \/ \E sid \in Sids : RecordExpires(sid)
         \/ \E i \in Instances : \E lost \in SUBSET engine[i] : EngineForgets(i, lost)
         \/ UNCHANGED vars
  PROVE  IInv'
  <1>1. UNCHANGED <<browser, reqs, scored>>
    BY DEF StoreGoesDown, StoreComesBack, RecordExpires, EngineForgets, vars, history, browser
  <1>2. \/ records' = records
        \/ \E sid \in Sids : records' = Without(records, {sid})
    BY DEF StoreGoesDown, StoreComesBack, RecordExpires, EngineForgets, vars
  <1>3. /\ DOMAIN records' \subseteq DOMAIN records
        /\ \A s \in DOMAIN records' : records'[s] = records[s]
    BY <1>2 DEF Without
  <1>4. Typed' /\ RecordsBacked'
    BY <1>1, <1>3 DEF IInv, Typed, RecordsBacked, browser
  <1>5. Backed(token)'
    BY <1>1 DEF IInv, Backed, browser
  <1>6. ASSUME NEW q \in Requests PROVE RequestOK(q)'
    BY <1>1, SessionUntouched DEF IInv
  <1> QED
    BY <1>4, <1>5, <1>6 DEF IInv

LEMMA NextIInv == IInv /\ [Next]_vars => IInv'
  BY SendStep, AnalyzeStep, AnalyzeFailsStep, GetRecordStep, RedeemStep, IssueStep,
     TelemetryStep, RequestStep, FaultStep
  DEF Next

LEMMA EvidenceFromIInv == IInv => EvidenceBehindAllow
  BY DEF IInv, RequestOK, Allowed, EvidenceBehindAllow

\* Every request that a token-required path lets through carries a token of a
\* session whose telemetry was scored, its own or the anonymous one.
THEOREM EvidenceAlways == Spec => []EvidenceBehindAllow
  BY InitIInv, NextIInv, EvidenceFromIInv, PTL DEF Spec

---------------------------------------------------------------------------
(* Undisturbed sessions.  A request that has read a record is to write its *)
(* copy back, so the copy must still be all there is, with the request     *)
(* added: nobody else may be about to write, and nothing may have been     *)
(* saved since.                                                            *)

HistoryTyped ==
  /\ saved \in [Sids -> Seq(Requests)]
  /\ lastTel \in [Sids -> Requests \cup {None}]

Reading(r, s) == reqs[r].pc = "read" /\ reqs[r].sid = s

RecordComplete(s) ==
  /\ s \in DOMAIN records <=> saved[s] # <<>>
  /\ s \in DOMAIN records =>
       /\ records[s].times = NewestOnly(saved[s], MaxTimes)
       /\ records[s].risk = NewestOnly(saved[s], MaxRisk)
       /\ records[s].tel = lastTel[s]

NothingRemembered(s) == s \notin DOMAIN records => lastTel[s] = None

CopyCurrent(r, s) ==
  Reading(r, s) =>
    /\ reqs[r].record.times = Append(NewestOnly(saved[s], MaxTimes), r)
    /\ reqs[r].record.risk = NewestOnly(saved[s], MaxRisk)
    /\ reqs[r].record.tel = lastTel[s]

OneReader(s) == \A q, r \in Requests : Reading(q, s) /\ Reading(r, s) => q = r

CompleteAt(s) ==
  /\ RecordComplete(s) /\ NothingRemembered(s)
  /\ OneReader(s) /\ \A r \in Requests : CopyCurrent(r, s)

CompleteInv == HistoryTyped /\ \A s \in Sids \ disturbed : CompleteAt(s)

LEMMA InitComplete == Init => CompleteInv
  <1> SUFFICES ASSUME Init PROVE CompleteInv
    OBVIOUS
  <1>1. DOMAIN records = {}
    BY DEF Init, NoEntries
  <1>2. \A r \in Requests : reqs[r].pc = "new"
    BY DEF Init, NewRequest
  <1> QED
    BY <1>1, <1>2
    DEF Init, CompleteInv, HistoryTyped, CompleteAt, RecordComplete, NothingRemembered,
        OneReader, CopyCurrent, Reading

\* A step that leaves the store's content alone, and after which no request
\* reads a session that it did not read before.
LEMMA NobodyReads ==
  ASSUME CompleteInv, UNCHANGED <<records, saved, lastTel>>,
         disturbed \subseteq disturbed',
         \A r \in Requests, s \in Sids :
           Reading(r, s)' => Reading(r, s) /\ reqs'[r].record = reqs[r].record
  PROVE  CompleteInv'
  <1>1. HistoryTyped'
    BY DEF CompleteInv, HistoryTyped
  <1>2. ASSUME NEW s \in Sids \ disturbed' PROVE CompleteAt(s)'
    <2>1. CompleteAt(s)
      BY DEF CompleteInv
    <2>2. RecordComplete(s)' /\ NothingRemembered(s)'
      BY <2>1 DEF CompleteAt, RecordComplete, NothingRemembered
    <2>3. OneReader(s)'
      BY <2>1 DEF CompleteAt, OneReader
    <2>4. ASSUME NEW r \in Requests PROVE CopyCurrent(r, s)'
      BY <2>1 DEF CompleteAt, CopyCurrent
    <2> QED
      BY <2>2, <2>3, <2>4 DEF CompleteAt
  <1> QED
    BY <1>1, <1>2 DEF CompleteInv

\* One request moves on, to a place where it reads no session's record.
LEMMA ReaderLeaves ==
  ASSUME IInv, NEW r \in Requests, NEW new, reqs' = [reqs EXCEPT ![r] = new],
         new.pc # "read" \/ new.sid \notin Sids
  PROVE  \A q \in Requests, s \in Sids :
           Reading(q, s)' => q # r /\ Reading(q, s) /\ reqs'[q].record = reqs[q].record
  BY DEF IInv, Typed, Reading

\* What is read is what is stored: a session without a fault is read while the
\* store answers, and not while another request holds a copy.
LEMMA GetRecordComplete ==
  ASSUME IInv, CompleteInv, NEW r \in Requests, GetRecord(r)
  PROVE  CompleteInv'
  <1> DEFINE sid == reqs[r].sid
             rec == ReadRecord(sid)
             copy == [rec EXCEPT !.times = Append(@, r)]
             new == [reqs[r] EXCEPT !.pc = "read", !.record = copy]
  <1>1. reqs[r] \in RequestStates /\ reqs[r].pc = "tracked" /\ sid \in Sids \cup {Anonymous}
    BY DEF IInv, Typed, GetRecord, RequestOK
  <1>2. rec \in Records
    BY ReadBacked
  <1>3. reqs' = [reqs EXCEPT ![r] = new]
    BY <1>1 DEF GetRecord, IInv, Typed
  <1>4. /\ UNCHANGED <<records, saved, lastTel>> /\ disturbed \subseteq disturbed'
        /\ Overlapping(r) \subseteq disturbed'
        /\ ~storeUp => sid \in disturbed'
    BY DEF GetRecord
  <1>5. copy.times = Append(rec.times, r) /\ copy.risk = rec.risk /\ copy.tel = rec.tel
    <2> HIDE DEF rec
    <2> QED
      BY <1>2 DEF Records
  <1> HIDE DEF copy
  <1>6. new.pc = "read" /\ new.sid = sid /\ new.record = copy
    BY <1>1 DEF RequestStates
  <1>7. reqs'[r] = new /\ \A q \in Requests \ {r} : reqs'[q] = reqs[q]
    BY <1>3 DEF IInv, Typed
  <1>8. HistoryTyped'
    BY <1>4 DEF CompleteInv, HistoryTyped
  <1>9. ASSUME NEW s \in Sids \ disturbed' PROVE CompleteAt(s)'
    <2>1. CompleteAt(s)
      BY <1>4 DEF CompleteInv
    <2>2. RecordComplete(s)' /\ NothingRemembered(s)'
      BY <1>4, <2>1 DEF CompleteAt, RecordComplete, NothingRemembered
    <2>3. s = sid => \A q \in Requests \ {r} : ~Reading(q, s)
      BY <1>4 DEF Overlapping, Reading
    <2>4. OneReader(s)'
      BY <1>6, <1>7, <2>1, <2>3 DEF CompleteAt, OneReader, Reading
    <2>5. ASSUME NEW q \in Requests PROVE CopyCurrent(q, s)'
      <3>1. CASE q # r
        BY <1>4, <1>7, <2>1, <3>1 DEF CompleteAt, CopyCurrent, Reading
      <3>2. CASE q = r /\ s = sid
        <4>1. storeUp
          BY <1>4, <3>2
        <4>2. rec = IF s \in DOMAIN records THEN records[s] ELSE NewRecord
          BY <3>2, <4>1 DEF ReadRecord
        <4>3. /\ rec.times = NewestOnly(saved[s], MaxTimes)
              /\ rec.risk = NewestOnly(saved[s], MaxRisk) /\ rec.tel = lastTel[s]
          <5>1. CASE s \in DOMAIN records
            BY <2>1, <4>2, <5>1 DEF CompleteAt, RecordComplete
          <5>2. CASE s \notin DOMAIN records
            <6>1. saved[s] = <<>> /\ lastTel[s] = None /\ rec = NewRecord
              BY <2>1, <4>2, <5>2 DEF CompleteAt, RecordComplete, NothingRemembered
            <6>2. NewestOnly(<<>>, MaxTimes) = <<>> /\ NewestOnly(<<>>, MaxRisk) = <<>>
              BY NodeAssumption DEF NewestOnly
            <6> QED
              BY <6>1, <6>2 DEF NewRecord
          <5> QED
            BY <5>1, <5>2
        <4> QED
          BY <1>4, <1>5, <1>6, <1>7, <3>2, <4>3 DEF CopyCurrent
      <3>3. CASE q = r /\ s # sid
        BY <1>6, <1>7, <3>3 DEF CopyCurrent, Reading
      <3> QED
        BY <3>1, <3>2, <3>3
    <2> QED
      BY <2>2, <2>4, <2>5 DEF CompleteAt
  <1> QED
    BY <1>8, <1>9 DEF CompleteInv

\* save() and the answer: what is written is what was stored, and this request.
LEMMA SaveComplete ==
  ASSUME IInv, CompleteInv, NEW r \in Requests, reqs[r].pc = "read", Save(r),
         NEW new, reqs' = [reqs EXCEPT ![r] = new], new.pc = "done"
  PROVE  CompleteInv'
  <1> DEFINE sid == reqs[r].sid
             rec == Scored(r)
  <1>1. sid \in Sids \cup {Anonymous} /\ reqs \in [Requests -> RequestStates]
    BY DEF IInv, RequestOK, Typed
  <1>0. /\ rec.times = NewestOnly(reqs[r].record.times, MaxTimes)
        /\ rec.risk = NewestOnly(Append(reqs[r].record.risk, r), MaxRisk)
        /\ rec.tel = IF reqs[r].kind = "telemetry" THEN r ELSE reqs[r].record.tel
    <2>1. reqs[r].record \in Records
      BY <1>1 DEF RequestStates
    <2> QED
      BY <2>1, ScoredFacts
  <1> HIDE DEF rec
  <1>2. \A q \in Requests, s \in Sids :
          Reading(q, s)' => q # r /\ Reading(q, s) /\ reqs'[q].record = reqs[q].record
    BY ReaderLeaves
  <1>3. CASE UNCHANGED <<records, saved, lastTel>> /\ disturbed \subseteq disturbed'
    BY <1>2, <1>3, NobodyReads
  <1>4. CASE storeUp /\ sid # Anonymous
    <2>1. /\ sid \in Sids
          /\ records' = Put(records, sid, rec)
          /\ saved' = [saved EXCEPT ![sid] = Append(@, r)]
          /\ lastTel' = IF reqs[r].kind = "telemetry"
                        THEN [lastTel EXCEPT ![sid] = r] ELSE lastTel
          /\ disturbed' = disturbed
      BY <1>1, <1>4 DEF Save, rec
    <2>0. saved[sid] \in Seq(Requests) /\ Append(saved[sid], r) \in Seq(Requests)
      <3>1. saved[sid] \in Seq(Requests)
        BY <2>1 DEF CompleteInv, HistoryTyped
      <3> QED
        BY <3>1
    <2>2. HistoryTyped'
      BY <2>0, <2>1 DEF CompleteInv, HistoryTyped
    <2>3. /\ saved'[sid] = Append(saved[sid], r)
          /\ lastTel'[sid] = IF reqs[r].kind = "telemetry" THEN r ELSE lastTel[sid]
          /\ \A s \in Sids \ {sid} : saved'[s] = saved[s] /\ lastTel'[s] = lastTel[s]
      BY <2>1 DEF CompleteInv, HistoryTyped
    <2>4. /\ DOMAIN records' = DOMAIN records \cup {sid}
          /\ records'[sid] = rec
          /\ \A s \in DOMAIN records \ {sid} : records'[s] = records[s]
      BY <2>1 DEF Put
    <2>5. ASSUME NEW s \in Sids \ disturbed' PROVE CompleteAt(s)'
      <3>1. CompleteAt(s)
        BY <2>1 DEF CompleteInv
      <3>2. OneReader(s)'
        BY <1>2, <3>1 DEF CompleteAt, OneReader
      <3>3. CASE s # sid
        <4>1. RecordComplete(s)' /\ NothingRemembered(s)'
          BY <2>3, <2>4, <3>1, <3>3 DEF CompleteAt, RecordComplete, NothingRemembered
        <4>2. ASSUME NEW q \in Requests PROVE CopyCurrent(q, s)'
          BY <1>2, <2>3, <3>1, <3>3 DEF CompleteAt, CopyCurrent
        <4> QED
          BY <3>2, <4>1, <4>2 DEF CompleteAt
      <3>4. CASE s = sid
        <4>0. /\ reqs[r].record.times = Append(NewestOnly(saved[s], MaxTimes), r)
              /\ reqs[r].record.risk = NewestOnly(saved[s], MaxRisk)
              /\ reqs[r].record.tel = lastTel[s]
          BY <3>1, <3>4 DEF CompleteAt, CopyCurrent, Reading
        <4>1. /\ rec.times = NewestOnly(saved'[s], MaxTimes)
              /\ rec.risk = NewestOnly(saved'[s], MaxRisk) /\ rec.tel = lastTel'[s]
          <5>1. /\ NewestOnly(Append(NewestOnly(saved[s], MaxTimes), r), MaxTimes)
                     = NewestOnly(Append(saved[s], r), MaxTimes)
                /\ NewestOnly(Append(NewestOnly(saved[s], MaxRisk), r), MaxRisk)
                     = NewestOnly(Append(saved[s], r), MaxRisk)
            BY <2>0, <3>4, NewestAppended, NodeAssumption
          <5> QED
            BY <1>0, <2>3, <3>4, <4>0, <5>1
        <4>4. saved'[s] # <<>>
          BY <2>0, <2>3, <3>4
        <4>2. RecordComplete(s)' /\ NothingRemembered(s)'
          BY <2>3, <2>4, <3>4, <4>1, <4>4 DEF RecordComplete, NothingRemembered
        <4>3. ASSUME NEW q \in Requests PROVE ~Reading(q, s)'
          BY <1>2, <3>1, <3>4 DEF CompleteAt, OneReader, Reading
        <4> QED
          BY <3>2, <4>2, <4>3 DEF CompleteAt, CopyCurrent
      <3> QED
        BY <3>3, <3>4
    <2> QED
      BY <2>2, <2>5 DEF CompleteInv
  <1> QED
    BY <1>3, <1>4 DEF Save

\* The record's history starts anew, and the session counts as disturbed.
LEMMA ExpiresComplete ==
  ASSUME CompleteInv, NEW sid \in Sids, RecordExpires(sid)
  PROVE  CompleteInv'
  <1>1. /\ DOMAIN records' = DOMAIN records \ {sid}
        /\ \A s \in Sids \ {sid} : s \in DOMAIN records => records'[s] = records[s]
    BY DEF RecordExpires, Without
  <1>2. /\ lastTel' = [lastTel EXCEPT ![sid] = None]
        /\ disturbed' = disturbed \cup {sid}
        /\ saved' = saved /\ reqs' = reqs
    BY DEF RecordExpires
  <1>3. HistoryTyped'
    BY <1>2 DEF CompleteInv, HistoryTyped
  <1>4. ASSUME NEW s \in Sids \ disturbed' PROVE CompleteAt(s)'
    <2>1. s # sid /\ CompleteAt(s) /\ lastTel'[s] = lastTel[s]
      BY <1>2 DEF CompleteInv, HistoryTyped
    <2> QED
      BY <1>1, <1>2, <2>1
      DEF CompleteAt, RecordComplete, NothingRemembered, OneReader, CopyCurrent, Reading
  <1> QED
    BY <1>3, <1>4 DEF CompleteInv

LEMMA NextComplete == IInv /\ CompleteInv /\ [Next]_vars => CompleteInv'
  <1> SUFFICES ASSUME IInv, CompleteInv, [Next]_vars PROVE CompleteInv'
    OBVIOUS
  <1>1. reqs \in [Requests -> RequestStates]
    BY DEF IInv, Typed
  <1>2. ASSUME NEW r \in Requests, NEW kind \in Kinds, NEW i \in Instances, Send(r, kind, i)
        PROVE  CompleteInv'
    BY <1>1, <1>2, NobodyReads DEF Send, history, Reading
  <1>3. ASSUME NEW r \in Requests, NEW sid \in Sids, Analyze(r, sid) PROVE CompleteInv'
    BY <1>1, <1>3, NobodyReads DEF Analyze, history, Reading
  <1>4. ASSUME NEW r \in Requests, AnalyzeFails(r) PROVE CompleteInv'
    BY <1>1, <1>4, NobodyReads, NodeAssumption DEF AnalyzeFails, history, Reading
  <1>5. ASSUME NEW r \in Requests, Redeem(r) PROVE CompleteInv'
    BY <1>1, <1>5, NobodyReads DEF Redeem, history, Reading
  <1>6. ASSUME NEW r \in Requests, IssuePowToken(r) PROVE CompleteInv'
    BY <1>1, <1>6, NobodyReads DEF IssuePowToken, history, Reading
  <1>7. ASSUME NEW r \in Requests, AnswerTelemetry(r) PROVE CompleteInv'
    <2> DEFINE new == [reqs[r] EXCEPT !.pc = "done"]
    <2>1. reqs' = [reqs EXCEPT ![r] = new] /\ new.pc = "done"
      BY <1>1, <1>7 DEF AnswerTelemetry, RequestStates
    <2>2. reqs[r].pc = "read" /\ Save(r)
      BY <1>7 DEF AnswerTelemetry
    <2> HIDE DEF new
    <2> QED
      BY <2>1, <2>2, SaveComplete
  <1>8. ASSUME NEW r \in Requests, NEW score \in {"allow", "challenge", "block"},
               NEW expired \in BOOLEAN, AnswerRequest(r, score, expired)
        PROVE  CompleteInv'
    <2> DEFINE mismatch == Mismatched(r) /\ ~expired
               verdict == Verdict(r, score, Claims(r, expired))
               new == [reqs[r] EXCEPT !.pc = "done", !.mismatch = mismatch,
                                      !.verdict = verdict]
    <2>1. /\ reqs[r].pc = "read" /\ Save(r)
          /\ reqs' = [reqs EXCEPT ![r] = new]
      BY <1>1, <1>8 DEF AnswerRequest
    <2> HIDE DEF mismatch, verdict
    <2>2. new.pc = "done"
      BY <1>1 DEF RequestStates
    <2> HIDE DEF new
    <2> QED
      BY <2>1, <2>2, SaveComplete
  <1>9. ASSUME NEW r \in Requests, GetRecord(r) PROVE CompleteInv'
    BY <1>9, GetRecordComplete
  <1>10. ASSUME NEW sid \in Sids, RecordExpires(sid) PROVE CompleteInv'
    BY <1>10, ExpiresComplete
  <1>11. CASE \/ StoreGoesDown \/ StoreComesBack \/ UNCHANGED vars
              \/ \E i \in Instances : \E lost \in SUBSET engine[i] : EngineForgets(i, lost)
    <2>1. UNCHANGED <<reqs, records, saved, lastTel, disturbed>>
      BY <1>11 DEF StoreGoesDown, StoreComesBack, EngineForgets, vars, history
    <2> QED
      BY <2>1, NobodyReads DEF Reading
  <1> QED
    BY <1>2, <1>3, <1>4, <1>5, <1>6, <1>7, <1>8, <1>9, <1>10, <1>11 DEF Next

LEMMA UndisturbedFromInv == CompleteInv => UndisturbedComplete
  BY DEF CompleteInv, CompleteAt, RecordComplete, UndisturbedComplete

\* The record of a session that served its requests one after the other, with
\* the store up and no expiry, holds the times of the last MaxTimes requests
\* saved, the scores of the last MaxRisk and the latest telemetry, whichever
\* instances served them and whatever save() dropped before.
THEOREM UndisturbedAlways == Spec => []UndisturbedComplete
  <1>1. Init => IInv /\ CompleteInv
    BY InitIInv, InitComplete
  <1>2. (IInv /\ CompleteInv) /\ [Next]_vars => (IInv /\ CompleteInv)'
    BY NextIInv, NextComplete
  <1> QED
    BY <1>1, <1>2, UndisturbedFromInv, PTL DEF Spec

---------------------------------------------------------------------------
(* RequestFlow: every request is answered once.                            *)

FlowRequest ==
  [pc : {"new", "protected", "endpoint", "lookup", "decided", "app", "done"},
   via : Adapters \cup {Absent}, sid : FlowSids \cup {Absent},
   token : FlowSids \cup {Absent},
   verdict : {Absent, "allow", "challenge", "block"},
   handled : Nat, answers : Nat, watched : BOOLEAN, thrown : BOOLEAN,
   late : BOOLEAN]

\* Before the adapter acts, nothing has been handled or thrown to it, and
\* before the analysis ends there is no verdict.
Untouched(q) ==
  /\ q.pc \in {"new", "protected", "endpoint", "lookup", "decided"} =>
       q.handled = 0 /\ ~q.thrown
  /\ q.pc \in {"new", "protected", "endpoint", "lookup"} => q.verdict = Absent

OnceOK(q) ==
  /\ q \in FlowRequest /\ Untouched(q)
  /\ q.answers = (IF q.pc = "done" THEN 1 ELSE 0) + (IF q.late THEN 1 ELSE 0)
  /\ q.late => /\ q.thrown
               /\ \/ q.via = "generic" /\ q.handled = 2
                  \/ q.via = "express" /\ q.verdict \in Denied
  /\ q.handled <= (IF q.via = "generic" /\ q.thrown THEN 2 ELSE 1)
  /\ q.verdict \in Denied /\ q.handled > 0 => q.thrown

OnceInv ==
  /\ flow = [r \in FlowRequests |-> flow[r]]
  /\ \A r \in FlowRequests : OnceOK(flow[r])

\* What OnceOK depends on, besides the adapter.
Core(q, pc, verdict, handled, answers, thrown, late) ==
  /\ q \in FlowRequest
  /\ q.pc = pc /\ q.verdict = verdict /\ q.handled = handled
  /\ q.answers = answers /\ q.thrown = thrown /\ q.late = late

LEMMA NewCore == Core(New, "new", Absent, 0, 0, FALSE, FALSE)
  BY DEF Core, New, FlowRequest, Absent

LEMMA NewOK == OnceOK(New)
  BY NewCore DEF Core, OnceOK, Untouched, Denied, Absent

LEMMA HandledCore ==
  ASSUME NEW q \in FlowRequest
  PROVE  /\ Core(Handled(q), "app", q.verdict, q.handled + 1, q.answers, q.thrown, q.late)
         /\ Handled(q).via = q.via
  <1> DEFINE n == q.handled + 1
  <1>1. n \in Nat
    BY DEF FlowRequest
  <1>2. Handled(q) = [q EXCEPT !.pc = "app", !.handled = n]
    BY DEF Handled
  <1> HIDE DEF n
  <1> DEFINE x == [q EXCEPT !.pc = "app", !.handled = n]
  <1>3. Core(x, "app", q.verdict, n, q.answers, q.thrown, q.late) /\ x.via = q.via
    BY <1>1 DEF Core, FlowRequest
  <1> QED
    BY <1>2, <1>3 DEF n

LEMMA AnsweredCore ==
  ASSUME NEW q \in FlowRequest
  PROVE  /\ Core(Answered(q), "done", q.verdict, q.handled, q.answers + 1, q.thrown, q.late)
         /\ Answered(q).via = q.via
  <1> DEFINE n == q.answers + 1
  <1>1. n \in Nat
    BY DEF FlowRequest
  <1>2. Answered(q) = [q EXCEPT !.pc = "done", !.answers = n]
    BY DEF Answered
  <1> HIDE DEF n
  <1> DEFINE x == [q EXCEPT !.pc = "done", !.answers = n]
  <1>3. Core(x, "done", q.verdict, q.handled, n, q.thrown, q.late) /\ x.via = q.via
    BY <1>1 DEF Core, FlowRequest
  <1> QED
    BY <1>2, <1>3 DEF n

LEMMA LateCore ==
  ASSUME NEW q \in FlowRequest
  PROVE  /\ Core(Late(q), q.pc, q.verdict, q.handled, q.answers + 1, TRUE, TRUE)
         /\ Late(q).via = q.via
  <1> DEFINE n == q.answers + 1
  <1>1. n \in Nat
    BY DEF FlowRequest
  <1>2. Late(q) = [q EXCEPT !.thrown = TRUE, !.late = TRUE, !.answers = n]
    BY DEF Late
  <1> HIDE DEF n
  <1> DEFINE x == [q EXCEPT !.thrown = TRUE, !.late = TRUE, !.answers = n]
  <1>3. Core(x, q.pc, q.verdict, q.handled, n, TRUE, TRUE) /\ x.via = q.via
    BY <1>1 DEF Core, FlowRequest
  <1> QED
    BY <1>2, <1>3 DEF n

LEMMA WatchedCore ==
  ASSUME NEW q \in FlowRequest
  PROVE  /\ Core(Watched(q), q.pc, q.verdict, q.handled, q.answers, q.thrown, q.late)
         /\ Watched(q).via = q.via
  BY DEF Core, FlowRequest, Watched

LEMMA ThrownCore ==
  ASSUME NEW q \in FlowRequest
  PROVE  /\ Core([q EXCEPT !.thrown = TRUE],
                 q.pc, q.verdict, q.handled, q.answers, TRUE, q.late)
         /\ Core([q EXCEPT !.thrown = TRUE, !.token = Absent],
                 q.pc, q.verdict, q.handled, q.answers, TRUE, q.late)
         /\ [q EXCEPT !.thrown = TRUE].via = q.via
         /\ [q EXCEPT !.thrown = TRUE, !.token = Absent].via = q.via
  BY DEF Core, FlowRequest

LEMMA FailOpenCore ==
  ASSUME NEW q \in FlowRequest
  PROVE  Core(FailOpen(q), "decided", "allow", q.handled, q.answers, q.thrown, q.late)
  BY DEF Core, FlowRequest, FailOpen

LEMMA EndCore ==
  ASSUME NEW q \in FlowRequest, NEW verdict \in {"allow", "challenge", "block"}
  PROVE  Core([q EXCEPT !.pc = "decided", !.verdict = verdict, !.token = q.sid],
              "decided", verdict, q.handled, q.answers, q.thrown, q.late)
  BY DEF Core, FlowRequest

LEMMA LookUpCore ==
  ASSUME NEW q \in FlowRequest
  PROVE  Core([q EXCEPT !.pc = "lookup"],
              "lookup", q.verdict, q.handled, q.answers, q.thrown, q.late)
  BY DEF Core, FlowRequest

\* The application's handler runs: for the first time unless a plain server's
\* threw, and for a denied request only if something threw.
LEMMA HandledOK ==
  ASSUME NEW q \in FlowRequest,
         q.answers = IF q.late THEN 1 ELSE 0,
         q.handled = 0 \/ (q.handled = 1 /\ q.via = "generic" /\ q.thrown),
         q.verdict \in Denied => q.thrown,
         q.late => /\ q.thrown
                   /\ \/ q.via = "generic" /\ q.handled = 1
                      \/ q.via = "express" /\ q.verdict \in Denied
  PROVE  OnceOK(Handled(q))
  <1>1. /\ Core(Handled(q), "app", q.verdict, q.handled + 1, q.answers, q.thrown, q.late)
        /\ Handled(q).via = q.via
    BY HandledCore
  <1>2. q.handled \in Nat /\ q.answers \in Nat
    BY DEF FlowRequest
  <1> QED
    BY <1>1, <1>2 DEF Core, OnceOK, Untouched

\* What was thrown before an answer: nothing has been handled yet, or a plain
\* server's handler threw.
LEMMA ThrownOK ==
  ASSUME NEW q \in FlowRequest, q.answers = 0, ~q.late,
         q.handled = 0 \/ (q.handled = 1 /\ q.via = "generic")
  PROVE  /\ OnceOK(Handled([q EXCEPT !.thrown = TRUE]))
         /\ OnceOK(Handled([q EXCEPT !.thrown = TRUE, !.token = Absent]))
         /\ OnceOK(Handled([Watched(q) EXCEPT !.thrown = TRUE]))
  <1>1. ASSUME NEW x \in FlowRequest, x.answers = 0, ~x.late, x.thrown,
               x.handled = q.handled, x.via = q.via
        PROVE  OnceOK(Handled(x))
    BY <1>1, HandledOK
  <1>2. /\ OnceOK(Handled([q EXCEPT !.thrown = TRUE]))
        /\ OnceOK(Handled([q EXCEPT !.thrown = TRUE, !.token = Absent]))
    BY <1>1, ThrownCore DEF Core
  <1> DEFINE w == Watched(q)
  <1>3. w \in FlowRequest /\ w.answers = 0 /\ ~w.late /\ w.handled = q.handled /\ w.via = q.via
    BY WatchedCore DEF Core
  <1> HIDE DEF w
  <1>4. OnceOK(Handled([w EXCEPT !.thrown = TRUE]))
    BY <1>1, <1>3, ThrownCore DEF Core
  <1> QED
    BY <1>2, <1>4 DEF w

\* What was thrown after one.
LEMMA LateOK ==
  ASSUME NEW q \in FlowRequest, q.answers = 0,
         \/ q.handled = 1 /\ q.via = "generic"
         \/ q.handled = 0 /\ q.via = "express" /\ q.verdict \in Denied
  PROVE  OnceOK(Handled(Late(q)))
  <1> DEFINE x == Late(q)
  <1>1. /\ Core(x, q.pc, q.verdict, q.handled, q.answers + 1, TRUE, TRUE)
        /\ x.via = q.via
    BY LateCore
  <1> HIDE DEF x
  <1>2. OnceOK(Handled(x))
    BY <1>1, HandledOK DEF Core
  <1> QED
    BY <1>2 DEF x

\* A step replaces the state of one request.
LEMMA OneStep ==
  ASSUME OnceInv, NEW r \in FlowRequests, NEW q, OnceOK(q), Step(r, q)
  PROVE  OnceInv'
  BY DEF OnceInv, Step

LEMMA ReceiveOnce ==
  ASSUME OnceInv, NEW r \in FlowRequests, NEW adapter \in Adapters,
         NEW sid \in FlowSids, Receive(r, adapter, sid)
  PROVE  OnceInv'
  <1>1. /\ Core([New EXCEPT !.via = adapter, !.pc = "protected", !.sid = sid],
                "protected", Absent, 0, 0, FALSE, FALSE)
        /\ Core([New EXCEPT !.via = adapter, !.pc = "endpoint"],
                "endpoint", Absent, 0, 0, FALSE, FALSE)
        /\ Core([New EXCEPT !.via = adapter], "new", Absent, 0, 0, FALSE, FALSE)
    BY NewCore DEF Core, FlowRequest
  <1>2. OnceOK(Handled([New EXCEPT !.via = adapter]))
    BY <1>1, HandledOK DEF Core, Denied, Absent
  <1>3. /\ OnceOK([New EXCEPT !.via = adapter, !.pc = "protected", !.sid = sid])
        /\ OnceOK([New EXCEPT !.via = adapter, !.pc = "endpoint"])
    BY <1>1 DEF Core, OnceOK, Untouched, Denied, Absent
  <1> QED
    BY <1>2, <1>3, OneStep DEF Receive

LEMMA NextOnce ==
  ASSUME OnceInv, [FlowNext]_flowVars
  PROVE  OnceInv'
  <1>1. CASE InitEngine \/ Shutdown \/ UNCHANGED flowVars
    BY <1>1 DEF OnceInv, InitEngine, Shutdown, flowVars
  <1>2. ASSUME NEW r \in FlowRequests, NEW adapter \in Adapters,
               NEW sid \in FlowSids, Receive(r, adapter, sid)
        PROVE  OnceInv'
    BY <1>2, ReceiveOnce
  <1>3. ASSUME NEW r \in FlowRequests
        PROVE  OnceOK(flow[r]) /\ flow[r] \in FlowRequest
    BY DEF OnceInv, OnceOK
  <1>4. ASSUME NEW r \in FlowRequests, AnswerEndpoint(r) \/ EndpointThrows(r)
        PROVE  OnceInv'
    <2>1. /\ flow[r].pc = "endpoint" /\ flow[r].answers = 0 /\ ~flow[r].late
          /\ flow[r].handled = 0
      BY <1>3, <1>4 DEF AnswerEndpoint, EndpointThrows, OnceOK, Untouched
    <2>2. OnceOK(Answered(flow[r]))
      BY <1>3, <2>1, AnsweredCore DEF Core, OnceOK, Untouched, Denied, Absent
    <2>3. OnceOK(Handled([flow[r] EXCEPT !.thrown = TRUE]))
      BY <1>3, <2>1, ThrownOK
    <2> QED
      BY <1>4, <2>2, <2>3, OneStep DEF AnswerEndpoint, EndpointThrows, Answered
  <1>5. ASSUME NEW r \in FlowRequests, StartAnalysis(r) \/ AnalysisThrows(r)
        PROVE  OnceInv'
    <2>1. flow[r].pc \in {"protected", "lookup"}
      BY <1>5 DEF StartAnalysis, AnalysisThrows
    <2>2. OnceOK(FailOpen(flow[r]))
      BY <1>3, <2>1, FailOpenCore DEF Core, OnceOK, Untouched, Denied
    <2>3. OnceOK([flow[r] EXCEPT !.pc = "lookup"])
      BY <1>3, <2>1, LookUpCore DEF Core, OnceOK, Untouched, Denied, Absent
    <2> QED
      BY <1>5, <2>2, <2>3, OneStep DEF StartAnalysis, AnalysisThrows
  <1>6. ASSUME NEW r \in FlowRequests,
               NEW verdict \in {"allow", "challenge", "block"}, EndAnalysis(r, verdict)
        PROVE  OnceInv'
    <2>1. flow[r].pc = "lookup"
      BY SMTT(30), <1>6 DEF EndAnalysis
    <2> DEFINE q == [flow[r] EXCEPT !.pc = "decided", !.verdict = verdict,
                                    !.token = flow[r].sid]
    <2>2. Core(q, "decided", verdict, flow[r].handled, flow[r].answers, flow[r].thrown,
               flow[r].late)
      BY <1>3, EndCore
    <2>3. Step(r, q)
      BY <1>6 DEF EndAnalysis
    <2> HIDE DEF q
    <2>4. OnceOK(q)
      BY <1>3, <2>1, <2>2 DEF Core, OnceOK, Untouched
    <2> QED
      BY <2>3, <2>4, OneStep
  <1>7. ASSUME NEW r \in FlowRequests, flow[r].pc = "decided"
        PROVE  /\ Core(Watched(flow[r]), "decided", flow[r].verdict, 0, 0, FALSE, FALSE)
               /\ Watched(flow[r]).via = flow[r].via
               /\ flow[r].answers = 0 /\ flow[r].handled = 0 /\ ~flow[r].late
    <2>1. /\ flow[r].answers = 0 /\ flow[r].handled = 0
          /\ ~flow[r].thrown /\ ~flow[r].late
      BY <1>3, <1>7 DEF OnceOK, Untouched
    <2> QED
      BY <1>3, <1>7, <2>1, WatchedCore DEF Core, FlowRequest
  <1>8. ASSUME NEW r \in FlowRequests, Act(r)
        PROVE  OnceInv'
    <2> DEFINE w == Watched(flow[r])
    <2>1. Core(w, "decided", flow[r].verdict, 0, 0, FALSE, FALSE)
      BY <1>7, <1>8 DEF Act
    <2> HIDE DEF w
    <2>2. OnceOK(Answered(w))
      BY <2>1, AnsweredCore DEF Core, OnceOK, Untouched
    <2>3. flow[r].verdict \notin Denied => OnceOK(Handled(w))
      BY <2>1, HandledOK DEF Core
    <2> QED
      BY <1>8, <2>2, <2>3, OneStep DEF Act, w
  <1>9. ASSUME NEW r \in FlowRequests, CallbackThrows(r) \/ HandlerThrows(r)
        PROVE  OnceInv'
    <2>1. /\ flow[r].answers = 0 /\ ~flow[r].late
          /\ flow[r].handled = 0 \/ (flow[r].handled = 1 /\ flow[r].via = "generic")
      <3>1. CASE CallbackThrows(r)
        BY <1>7, <3>1 DEF CallbackThrows
      <3>2. CASE HandlerThrows(r)
        BY <1>3, <3>2 DEF HandlerThrows, OnceOK
      <3> QED
        BY <1>9, <3>1, <3>2
    <2> QED
      BY <1>3, <1>9, <2>1, ThrownOK, OneStep DEF CallbackThrows, HandlerThrows
  <1>10. ASSUME NEW r \in FlowRequests, DenyThrowsLate(r)
         PROVE  OnceInv'
    <2> DEFINE w == Watched(flow[r])
    <2>1. /\ Core(w, "decided", flow[r].verdict, 0, 0, FALSE, FALSE) /\ w.via = "express"
          /\ flow[r].verdict \in Denied /\ Step(r, Handled(Late(w)))
      BY <1>7, <1>10 DEF DenyThrowsLate
    <2> HIDE DEF w
    <2>2. OnceOK(Handled(Late(w)))
      BY <2>1, LateOK DEF Core
    <2> QED
      BY <2>1, <2>2, OneStep
  <1>11. ASSUME NEW r \in FlowRequests, HandlerThrowsLate(r)
         PROVE  OnceInv'
    <2>1. /\ flow[r].handled = 1 /\ flow[r].via = "generic" /\ flow[r].answers = 0
          /\ Step(r, Handled(Late(flow[r])))
      BY <1>3, <1>11 DEF HandlerThrowsLate, OnceOK
    <2> QED
      BY <1>3, <2>1, LateOK, OneStep
  <1>12. ASSUME NEW r \in FlowRequests, Respond(r)
         PROVE  OnceInv'
    <2>1. flow[r].pc = "app" /\ Step(r, Answered(flow[r]))
      BY <1>12 DEF Respond
    <2>2. /\ Core(Answered(flow[r]), "done", flow[r].verdict, flow[r].handled,
                  flow[r].answers + 1, flow[r].thrown, flow[r].late)
          /\ Answered(flow[r]).via = flow[r].via
      BY <1>3, AnsweredCore
    <2>3. OnceOK(Answered(flow[r]))
      BY <1>3, <2>1, <2>2 DEF Core, OnceOK, Untouched
    <2> QED
      BY <2>1, <2>3, OneStep
  <1> QED
    BY <1>1, <1>2, <1>4, <1>5, <1>6, <1>8, <1>9, <1>10, <1>11, <1>12 DEF FlowNext

\* However errors are thrown, no request is forgotten, none is answered twice
\* but one whose onDeny() or plain server's handler answered before it threw,
\* a denied one does not reach the application unless something threw, and only
\* a plain server's handler that threw runs twice.
THEOREM AnsweredOnceAlways == FlowSpec => []AnsweredOnce
  <1>1. FlowInit => OnceInv
    BY NewOK DEF FlowInit, OnceInv
  <1>2. OnceInv /\ [FlowNext]_flowVars => OnceInv'
    BY NextOnce
  <1>3. OnceInv => AnsweredOnce
    BY DEF OnceInv, OnceOK, AnsweredOnce
  <1> QED
    BY <1>1, <1>2, <1>3, PTL DEF FlowSpec

---------------------------------------------------------------------------
(* RequestFlow: statuses land on the requests they belong to.             *)

Past == {"decided", "app", "done"}
Open == {"decided", "app"}
Waiting(q) == q.pc \in Open /\ q.answers = 0
Entry == [request : FlowRequests, status : FlowRequests \cup {NoStatus}]

\* A token is of the request's own session, and given once it is observed.
TokenOK(q) ==
  /\ q.token # Absent => q.token = q.sid /\ q.pc \in Past
  /\ q.pc \in {"protected", "lookup"} => q.sid # Absent

\* A request that waits for its answer is the latest of its session.
Latest(h, r) ==
  /\ Len(h) >= 1 /\ h[Len(h)].request = r /\ h[Len(h)].status = NoStatus

\* The history of one session: each of its requests once, each status once ...
EntriesOK(s) ==
  LET h == histories[s]
  IN  /\ \A i \in 1..Len(h) :
           /\ flow[h[i].request].sid = s /\ flow[h[i].request].pc \in Past
           /\ h[i].status # NoStatus => flow[h[i].status].answers > 0
      /\ \A i, j \in 1..Len(h) :
           /\ h[i].request = h[j].request => i = j
           /\ h[i].status # NoStatus /\ h[i].status = h[j].status => i = j

\* ... and without overlap each status with its request.
InOrder(s) ==
  LET h == histories[s]
  IN  /\ \A i \in 1..Len(h) :
           h[i].status \in {NoStatus, h[i].request}
      /\ \A i \in 1..Len(h) :
           LET q == flow[h[i].request]
           IN  q.answers > 0 /\ q.watched /\ q.token # Absent => h[i].status # NoStatus
      /\ \A r \in FlowRequests :
           flow[r].token = s /\ Waiting(flow[r]) => Latest(h, r)

StatusInv ==
  /\ OnceInv
  /\ \A r \in FlowRequests : TokenOK(flow[r])
  /\ histories \in [FlowSids -> Seq(Entry)]
  /\ crossed \subseteq FlowSids
  /\ \A s \in FlowSids : EntriesOK(s) /\ (s \notin crossed => InOrder(s))

\* What observe() keeps: the entries before the new one, but for the oldest.
LEMMA ObservedFacts ==
  ASSUME NEW h \in Seq(Entry), NEW e \in Entry
  PROVE  LET o == B!Observed(h, e)
         IN  /\ o \in Seq(Entry) /\ Len(o) \in Nat /\ Len(o) >= 1 /\ o[Len(o)] = e
             /\ \E d \in {0, 1} : \A i \in 1..Len(o) : i # Len(o) =>
                  i + d \in 1..Len(h) /\ o[i] = h[i + d]
  <1> DEFINE all == Append(h, e)
  <1>1. /\ all \in Seq(Entry) /\ Len(all) = Len(h) + 1 /\ Len(h) \in Nat
        /\ all[Len(h) + 1] = e /\ \A i \in 1..Len(h) : all[i] = h[i]
    OBVIOUS
  <1>2. HistorySize \in Nat \ {0}
    BY FlowAssumption
  <1>3. CASE Len(all) > HistorySize
    <2>1. B!Observed(h, e) = Tail(all)
      BY <1>3 DEF B!Observed
    <2> HIDE DEF all
    <2>2. /\ Tail(all) \in Seq(Entry) /\ Len(Tail(all)) = Len(h) /\ Len(h) >= 1
          /\ \A i \in 1..Len(h) : Tail(all)[i] = all[i + 1]
      BY <1>1, <1>2, <1>3
    <2>3. Tail(all)[Len(h)] = e
      BY <1>1, <2>2
    <2>4. \A i \in 1..Len(h) : i # Len(h) => i + 1 \in 1..Len(h) /\ Tail(all)[i] = h[i + 1]
      BY <1>1, <2>2
    <2> QED
      BY <2>1, <2>2, <2>3, <2>4, <1>1
  <1>4. CASE ~(Len(all) > HistorySize)
    <2>1. B!Observed(h, e) = all
      BY <1>4 DEF B!Observed
    <2>2. \A i \in 1..Len(all) : i # Len(all) => i + 0 \in 1..Len(h) /\ all[i] = h[i + 0]
      BY <1>1
    <2> QED
      BY <1>1, <2>1, <2>2
  <1> QED
    BY <1>3, <1>4

\* recordResponse() changes the latest entry, if that has no status yet.
LEMMA AnsweredFacts ==
  ASSUME NEW h \in Seq(Entry), NEW r \in FlowRequests
  PROVE  LET o == B!Answered(h, r)
         IN  \/ o = h /\ (Len(h) = 0 \/ h[Len(h)].status # NoStatus)
             \/ /\ o \in Seq(Entry) /\ Len(o) = Len(h) /\ Len(h) \in Nat /\ Len(h) >= 1
                /\ h[Len(h)].status = NoStatus
                /\ o[Len(h)].request = h[Len(h)].request /\ o[Len(h)].status = r
                /\ \A i \in 1..Len(h) : i # Len(h) => o[i] = h[i]
  <1> DEFINE n == Len(h)
  <1>1. n \in Nat /\ (h = <<>> <=> n = 0) /\ \A i \in 1..n : h[i] \in Entry
    OBVIOUS
  <1> DEFINE o == B!Answered(h, r)
  <1>2. CASE n >= 1 /\ h[n].status = NoStatus
    <2> DEFINE new == [h[n] EXCEPT !.status = r]
    <2>1. o = [h EXCEPT ![n] = new]
      BY <1>1, <1>2 DEF B!Answered
    <2>2. new \in Entry /\ new.request = h[n].request /\ new.status = r
      BY <1>1, <1>2 DEF Entry
    <2> HIDE DEF new, o
    <2>3. /\ o \in Seq(Entry) /\ Len(o) = n /\ o[n] = new
          /\ \A i \in 1..n : i # n => o[i] = h[i]
      BY <1>1, <1>2, <2>1, <2>2
    <2> HIDE DEF n
    <2>4. \/ o = h /\ (n = 0 \/ h[n].status # NoStatus)
          \/ /\ o \in Seq(Entry) /\ Len(o) = n /\ n \in Nat /\ n >= 1
             /\ h[n].status = NoStatus
             /\ o[n].request = h[n].request /\ o[n].status = r
             /\ \A i \in 1..n : i # n => o[i] = h[i]
      BY <1>1, <1>2, <2>2, <2>3
    <2> QED
      BY <2>4 DEF o, n
  <1>3. CASE ~(n >= 1 /\ h[n].status = NoStatus)
    <2>1. B!Answered(h, r) = h
      BY <1>1, <1>3 DEF B!Answered
    <2> QED
      BY <1>1, <1>3, <2>1
  <1> QED
    BY <1>2, <1>3

\* The entries of the histories, by their types.
LEMMA EntryFacts ==
  ASSUME StatusInv, NEW s \in FlowSids
  PROVE  /\ histories[s] \in Seq(Entry) /\ Len(histories[s]) \in Nat
         /\ \A i \in 1..Len(histories[s]) :
              /\ histories[s][i].request \in FlowRequests
              /\ histories[s][i].status \in FlowRequests \cup {NoStatus}
         /\ EntriesOK(s) /\ (s \notin crossed => InOrder(s))
  <1>1. histories[s] \in Seq(Entry)
    BY DEF StatusInv
  <1>2. \A i \in 1..Len(histories[s]) : histories[s][i] \in Entry
    BY <1>1
  <1> QED
    BY <1>1, <1>2 DEF StatusInv, Entry

\* What a step of one request changes of the requests.
LEMMA StepFacts ==
  ASSUME StatusInv, NEW r \in FlowRequests, NEW q, TokenOK(q), Step(r, q), OnceInv'
  PROVE  /\ flow'[r] = q /\ \A p \in FlowRequests \ {r} : flow'[p] = flow[p]
         /\ \A p \in FlowRequests : TokenOK(flow'[p])
  <1>1. flow'[r] = q /\ \A p \in FlowRequests \ {r} : flow'[p] = flow[p]
    BY DEF StatusInv, OnceInv, Step
  <1> QED
    BY <1>1 DEF StatusInv

\* A request goes on without being observed or reported.
LEMMA MoveKeeps ==
  ASSUME StatusInv, NEW r \in FlowRequests, NEW q, TokenOK(q), Step(r, q), OnceInv',
         UNCHANGED <<histories, crossed>>,
         flow[r].answers > 0 => q.answers > 0,
         flow[r].pc \in Past => q.pc \in Past /\ q.sid = flow[r].sid,
         q.answers > 0 /\ q.watched /\ q.token # Absent =>
           flow[r].answers > 0 /\ flow[r].watched /\ flow[r].token # Absent,
         q.token # Absent /\ Waiting(q) => Waiting(flow[r]) /\ flow[r].token = q.token
  PROVE  StatusInv'
  <1>1. /\ flow'[r] = q /\ \A p \in FlowRequests \ {r} : flow'[p] = flow[p]
        /\ \A p \in FlowRequests : TokenOK(flow'[p])
    BY StepFacts
  <1>2. ASSUME NEW s \in FlowSids
        PROVE  EntriesOK(s)' /\ (s \notin crossed' => InOrder(s)')
    <2> DEFINE h == histories[s]
    <2>1. /\ h' = h /\ Len(h) \in Nat
          /\ \A i \in 1..Len(h) : /\ h[i].request \in FlowRequests
                                  /\ h[i].status \in FlowRequests \cup {NoStatus}
      BY EntryFacts
    <2>2. EntriesOK(s)
      BY EntryFacts
    <2>3. \A i \in 1..Len(h) :
            /\ flow'[h[i].request].sid = s /\ flow'[h[i].request].pc \in Past
            /\ h[i].status # NoStatus => flow'[h[i].status].answers > 0
      BY <1>1, <2>1, <2>2 DEF EntriesOK
    <2>4. EntriesOK(s)'
      BY <2>1, <2>2, <2>3 DEF EntriesOK
    <2>5. ASSUME s \notin crossed PROVE InOrder(s)'
      <3>1. InOrder(s)
        BY <2>5, EntryFacts
      <3>2. ASSUME NEW i \in 1..Len(h), flow'[h[i].request].answers > 0,
                   flow'[h[i].request].watched, flow'[h[i].request].token # Absent
            PROVE  h[i].status # NoStatus
        BY <1>1, <2>1, <3>1, <3>2 DEF InOrder
      <3>3. ASSUME NEW p \in FlowRequests, flow'[p].token = s, Waiting(flow'[p])
            PROVE  Latest(h, p)
        <4>1. s # Absent
          BY FlowAssumption DEF Absent
        <4> QED
          BY <1>1, <3>1, <3>3, <4>1 DEF InOrder
      <3> HIDE DEF h
      <3>4. \A i \in 1..Len(h) : h[i].status \in {NoStatus, h[i].request}
        BY <3>1 DEF InOrder, h
      <3> QED
        BY <2>1, <3>2, <3>3, <3>4 DEF InOrder, h
    <2> QED
      BY <2>4, <2>5
  <1> QED
    BY <1>1, <1>2 DEF StatusInv

\* A request is observed: none of its session waits for an answer, or the
\* session's requests overlap.
LEMMA ObserveKeeps ==
  ASSUME StatusInv, NEW r \in FlowRequests, NEW q, TokenOK(q), Step(r, q), OnceInv',
         Observe(r), flow[r].pc = "lookup", q.pc = "decided", q.answers = 0,
         q.sid = flow[r].sid, q.token \in {Absent, q.sid}
  PROVE  StatusInv'
  <1> DEFINE e == [request |-> r, status |-> NoStatus]
  <1>1. /\ flow'[r] = q /\ \A p \in FlowRequests \ {r} : flow'[p] = flow[p]
        /\ \A p \in FlowRequests : TokenOK(flow'[p])
    BY StepFacts
  <1>0. flow[r].sid \in FlowSids /\ e \in Entry /\ flow[r].token = Absent
    <2>1. flow[r] \in FlowRequest /\ TokenOK(flow[r])
      BY DEF StatusInv, OnceInv, OnceOK
    <2> QED
      BY <2>1 DEF TokenOK, FlowRequest, Entry, Past
  <1>2. PICK s \in FlowSids : s = flow[r].sid /\ e \in Entry /\ flow[r].token = Absent
    BY <1>0
  <1>3. /\ histories' = [histories EXCEPT ![s] = B!Observed(histories[s], e)]
        /\ crossed' = IF Unanswered(s) # {} THEN crossed \cup {s} ELSE crossed
    BY <1>2 DEF Observe
  <1> HIDE DEF e
  <1>4. /\ histories' \in [FlowSids -> Seq(Entry)]
        /\ histories'[s] = B!Observed(histories[s], e)
        /\ \A t \in FlowSids \ {s} : histories'[t] = histories[t]
        /\ crossed' \subseteq FlowSids /\ crossed \subseteq crossed'
    <2>1. B!Observed(histories[s], e) \in Seq(Entry)
      BY <1>2, EntryFacts, ObservedFacts
    <2> QED
      BY <1>2, <1>3, <2>1 DEF StatusInv
  <1>13. flow[r].answers = 0
    <2>1. OnceOK(flow[r])
      BY DEF StatusInv, OnceInv
    <2> QED
      BY <2>1 DEF OnceOK, Untouched
  <1>5. ASSUME NEW t \in FlowSids, NEW i \in 1..Len(histories[t])
        PROVE  /\ histories[t][i].request \in FlowRequests \ {r}
               /\ histories[t][i].status \in (FlowRequests \ {r}) \cup {NoStatus}
    BY SMTT(30), <1>5, <1>13, EntryFacts DEF EntriesOK, Past
  <1>6. ASSUME NEW t \in FlowSids, t # s
        PROVE  EntriesOK(t)' /\ (t \notin crossed' => InOrder(t)')
    <2> DEFINE h == histories[t]
    <2>1. h' = h /\ EntriesOK(t) /\ (t \notin crossed' => InOrder(t))
      BY <1>4, <1>6, EntryFacts
    <2>2. \A i \in 1..Len(h) :
            /\ flow'[h[i].request] = flow[h[i].request]
            /\ h[i].status # NoStatus => flow'[h[i].status] = flow[h[i].status]
      BY <1>1, <1>5
    <2>3. EntriesOK(t)'
      BY <2>1, <2>2 DEF EntriesOK
    <2>4. \A p \in FlowRequests : flow'[p].token = t => p # r
      BY <1>1, <1>2, <1>6, FlowAssumption DEF Absent
    <2>5. ASSUME InOrder(t) PROVE InOrder(t)'
      <3>1. \A p \in FlowRequests :
              flow'[p].token = t /\ Waiting(flow'[p]) => Latest(h, p)
        BY <1>1, <2>4, <2>5 DEF InOrder
      <3>2. \A i \in 1..Len(h) :
              LET x == flow'[h[i].request]
              IN  x.answers > 0 /\ x.watched /\ x.token # Absent => h[i].status # NoStatus
        BY <2>2, <2>5 DEF InOrder
      <3>3. \A i \in 1..Len(h) : h[i].status \in {NoStatus, h[i].request}
        BY <2>5 DEF InOrder
      <3> QED
        BY <2>1, <3>1, <3>2, <3>3 DEF InOrder
    <2> QED
      BY <2>1, <2>3, <2>5
  <1> DEFINE h == histories[s]
             o == B!Observed(h, e)
  <1>7. /\ o \in Seq(Entry) /\ Len(o) \in Nat /\ Len(o) >= 1 /\ o[Len(o)] = e
        /\ \E d \in {0, 1} : \A i \in 1..Len(o) : i # Len(o) =>
             i + d \in 1..Len(h) /\ o[i] = h[i + d]
    BY <1>2, EntryFacts, ObservedFacts
  <1>8. histories'[s] = o /\ Len(h) \in Nat
    BY <1>2, <1>4, EntryFacts
  <1> HIDE DEF h, o
  <1>9. PICK d \in {0, 1} : \A i \in 1..Len(o) : i # Len(o) =>
             i + d \in 1..Len(h) /\ o[i] = h[i + d]
    BY <1>7
  <1>10. e.request = r /\ e.status = NoStatus
    BY DEF e
  <1>11. EntriesOK(s)'
    <2>1. EntriesOK(s)
      BY <1>2, EntryFacts
    <2>2. ASSUME NEW i \in 1..Len(o)
          PROVE  /\ flow'[o[i].request].sid = s /\ flow'[o[i].request].pc \in Past
                 /\ o[i].status # NoStatus => flow'[o[i].status].answers > 0
      <3>1. CASE i = Len(o)
        BY <1>1, <1>7, <1>2, <1>10, <3>1 DEF Past
      <3>2. CASE i # Len(o)
        <4>1. i + d \in 1..Len(h) /\ o[i] = h[i + d]
          BY <1>9, <3>2
        <4>2. /\ h[i + d].request \in FlowRequests \ {r}
              /\ h[i + d].status \in (FlowRequests \ {r}) \cup {NoStatus}
          BY <1>2, <1>5, <4>1 DEF h
        <4> QED
          BY <1>1, <2>1, <4>1, <4>2 DEF EntriesOK, h
      <3> QED
        BY <3>1, <3>2
    <2>3. ASSUME NEW i \in 1..Len(o), NEW j \in 1..Len(o)
          PROVE  /\ o[i].request = o[j].request => i = j
                 /\ o[i].status # NoStatus /\ o[i].status = o[j].status => i = j
      <3>1. CASE i # Len(o) /\ j # Len(o)
        <4>1. /\ i + d \in 1..Len(h) /\ o[i] = h[i + d]
              /\ j + d \in 1..Len(h) /\ o[j] = h[j + d]
          BY <1>9, <3>1
        <4>2. /\ h[i + d].request = h[j + d].request => i + d = j + d
              /\ h[i + d].status # NoStatus /\ h[i + d].status = h[j + d].status
                   => i + d = j + d
          BY <2>1, <4>1 DEF EntriesOK, h
        <4> QED
          BY <1>7, <4>1, <4>2
      <3>2. ASSUME NEW k \in 1..Len(o), k # Len(o)
            PROVE  o[k].request # r
        BY ZenonT(40), <1>2, <1>5, <1>9, <3>2 DEF h
      <3>3. o[Len(o)].request = r /\ o[Len(o)].status = NoStatus
        BY <1>7, <1>10
      <3> QED
        BY <3>1, <3>2, <3>3
    <2> QED
      BY <1>8, <2>2, <2>3 DEF EntriesOK
  <1>12. ASSUME s \notin crossed' PROVE InOrder(s)'
    <2>1. s \notin crossed /\ Unanswered(s) = {} /\ InOrder(s)
      BY <1>2, <1>3, <1>12, EntryFacts
    <2>2. ASSUME NEW i \in 1..Len(o)
          PROVE  /\ o[i].status \in {NoStatus, o[i].request}
                 /\ LET x == flow'[o[i].request]
                    IN  x.answers > 0 /\ x.watched /\ x.token # Absent
                          => o[i].status # NoStatus
      <3>1. CASE i = Len(o)
        BY <1>1, <1>7, <1>10, <3>1
      <3>2. CASE i # Len(o)
        <4>1. i + d \in 1..Len(h) /\ o[i] = h[i + d]
          BY <1>9, <3>2
        <4>2. flow'[h[i + d].request] = flow[h[i + d].request]
          BY <1>1, <1>2, <1>5, <4>1 DEF h
        <4> QED
          BY <2>1, <4>1, <4>2 DEF InOrder, h
      <3> QED
        BY <3>1, <3>2
    <2>3. ASSUME NEW p \in FlowRequests, flow'[p].token = s, Waiting(flow'[p])
          PROVE  Latest(o, p)
      <3>1. p = r
        BY <1>1, <2>1, <2>3 DEF Unanswered, Open, Waiting
      <3> QED
        BY <1>7, <1>10, <3>1 DEF Latest
    <2> QED
      BY <1>8, <2>2, <2>3 DEF InOrder
  <1> QED
    BY <1>1, <1>2, <1>4, <1>6, <1>11, <1>12 DEF StatusInv

\* A request is answered and its status reported: it is the latest of its
\* session, unless that one's requests overlapped.
LEMMA ReportKeeps ==
  ASSUME StatusInv, NEW r \in FlowRequests, NEW q, TokenOK(q), Step(r, q), OnceInv',
         Report(r), crossed' = crossed, Waiting(flow[r]), q.pc \in Past,
         q.answers > 0,
         q.sid = flow[r].sid, q.token = flow[r].token, q.token # Absent
  PROVE  StatusInv'
  <1>1. /\ flow'[r] = q /\ \A p \in FlowRequests \ {r} : flow'[p] = flow[p]
        /\ \A p \in FlowRequests : TokenOK(flow'[p])
    BY StepFacts
  <1>0. flow[r].token \in FlowSids /\ flow[r].sid = flow[r].token
    BY DEF StatusInv, OnceInv, OnceOK, FlowRequest, TokenOK
  <1>2. PICK s \in FlowSids : s = flow[r].token /\ s = flow[r].sid
    BY <1>0
  <1> DEFINE h == histories[s]
             o == B!Answered(h, r)
  <1>3. /\ h \in Seq(Entry) /\ Len(h) \in Nat /\ EntriesOK(s)
        /\ (s \notin crossed => InOrder(s))
        /\ \A i \in 1..Len(h) : /\ h[i].request \in FlowRequests
                                /\ h[i].status \in FlowRequests \cup {NoStatus}
    BY EntryFacts
  <1>4. \/ o = h /\ (Len(h) = 0 \/ h[Len(h)].status # NoStatus)
        \/ /\ o \in Seq(Entry) /\ Len(o) = Len(h) /\ Len(h) >= 1
           /\ h[Len(h)].status = NoStatus
           /\ o[Len(h)].request = h[Len(h)].request /\ o[Len(h)].status = r
           /\ \A i \in 1..Len(h) : i # Len(h) => o[i] = h[i]
    BY <1>3, AnsweredFacts
  <1> HIDE DEF o
  <1>5. /\ histories' \in [FlowSids -> Seq(Entry)] /\ histories'[s] = o
        /\ \A t \in FlowSids \ {s} : histories'[t] = histories[t]
    <2>1. histories' = [histories EXCEPT ![s] = o]
      BY <1>2 DEF Report, o
    <2>2. o \in Seq(Entry)
      BY <1>3, <1>4
    <2> QED
      BY <2>1, <2>2 DEF StatusInv
  \* r's status is new to the histories, and r is no other session's.
  <1>6. ASSUME NEW t \in FlowSids, NEW i \in 1..Len(histories[t])
        PROVE  /\ histories[t][i].request \in FlowRequests
               /\ histories[t][i].status \in (FlowRequests \ {r}) \cup {NoStatus}
               /\ flow'[histories[t][i].request].sid = t
               /\ flow'[histories[t][i].request].pc \in Past
               /\ histories[t][i].status # NoStatus =>
                    flow'[histories[t][i].status].answers > 0
    BY <1>1, <1>6, EntryFacts DEF EntriesOK, Waiting
  <1>7. ASSUME NEW t \in FlowSids, t # s
        PROVE  EntriesOK(t)' /\ (t \notin crossed' => InOrder(t)')
    <2> DEFINE g == histories[t]
    <2>1. g' = g /\ EntriesOK(t) /\ (t \notin crossed' => InOrder(t))
      BY <1>5, <1>7, EntryFacts
    <2>2. \A i \in 1..Len(g) :
            g[i].request # r /\ flow'[g[i].request] = flow[g[i].request]
      <3> SUFFICES ASSUME NEW i \in 1..Len(g)
                   PROVE  g[i].request # r /\ flow'[g[i].request] = flow[g[i].request]
        OBVIOUS
      <3>1. g[i].request \in FlowRequests /\ flow'[g[i].request].sid = t
        BY <1>6
      <3> QED
        BY <1>1, <1>2, <1>7, <3>1
    <2>3. EntriesOK(t)'
      <3> HIDE DEF g
      <3>1. \A i \in 1..Len(g) :
              /\ flow'[g[i].request].sid = t /\ flow'[g[i].request].pc \in Past
              /\ g[i].status # NoStatus => flow'[g[i].status].answers > 0
        BY <1>6 DEF g
      <3> QED
        BY <2>1, <3>1 DEF EntriesOK, g
    <2>4. ASSUME InOrder(t) PROVE InOrder(t)'
      <3>1. \A p \in FlowRequests :
              flow'[p].token = t /\ Waiting(flow'[p]) => Latest(g, p)
        BY <1>1, <1>2, <1>7, <2>4 DEF InOrder
      <3>2. \A i \in 1..Len(g) :
              LET x == flow'[g[i].request]
              IN  x.answers > 0 /\ x.watched /\ x.token # Absent => g[i].status # NoStatus
        BY <2>2, <2>4 DEF InOrder
      <3>3. \A i \in 1..Len(g) : g[i].status \in {NoStatus, g[i].request}
        BY <2>4 DEF InOrder
      <3> QED
        BY <2>1, <3>1, <3>2, <3>3 DEF InOrder
    <2> QED
      BY <2>1, <2>3, <2>4
  <1>8. /\ Len(o) = Len(h)
        /\ \A i \in 1..Len(h) : o[i].request = h[i].request
        /\ \A i \in 1..Len(h) :
             \/ o[i].status = h[i].status
             \/ i = Len(h) /\ h[i].status = NoStatus /\ o[i].status = r
    <2> HIDE DEF h
    <2>1. CASE o = h
      BY <2>1
    <2>2. CASE o # h
      BY <1>3, <1>4, <2>2
    <2> QED
      BY <2>1, <2>2
  <1>9. EntriesOK(s)'
    <2>1. \A i \in 1..Len(o) :
            /\ flow'[o[i].request].sid = s /\ flow'[o[i].request].pc \in Past
            /\ o[i].status # NoStatus => flow'[o[i].status].answers > 0
      BY <1>1, <1>6, <1>8
    <2>2. ASSUME NEW i \in 1..Len(o), NEW j \in 1..Len(o)
          PROVE  /\ o[i].request = o[j].request => i = j
                 /\ o[i].status # NoStatus /\ o[i].status = o[j].status => i = j
      <3>1. /\ h[i].request = h[j].request => i = j
            /\ h[i].status # NoStatus /\ h[i].status = h[j].status => i = j
            /\ h[i].status # r /\ h[j].status # r
        BY <1>3, <1>6, <1>8, FlowAssumption DEF EntriesOK
      <3> HIDE DEF h
      <3> QED
        BY <1>8, <3>1
    <2> QED
      BY <1>5, <2>1, <2>2 DEF EntriesOK
  <1>10. ASSUME s \notin crossed' PROVE InOrder(s)'
    <2>1. InOrder(s)
      BY <1>3, <1>10
    <2>2. Latest(h, r)
      BY <1>2, <2>1 DEF InOrder
    <2> HIDE DEF h
    <2>3. /\ Len(h) >= 1 /\ h[Len(h)].request = r /\ o[Len(h)].status = r
          /\ \A i \in 1..Len(h) : i # Len(h) => o[i] = h[i] /\ o[i].request # r
      <3>1. \A i, j \in 1..Len(h) : h[i].request = h[j].request => i = j
        BY <1>3 DEF EntriesOK, h
      <3> QED
        BY <1>3, <1>4, <2>2, <3>1 DEF Latest
    <2>4. ASSUME NEW i \in 1..Len(o)
          PROVE  /\ o[i].status \in {NoStatus, o[i].request}
                 /\ LET x == flow'[o[i].request]
                    IN  x.answers > 0 /\ x.watched /\ x.token # Absent
                          => o[i].status # NoStatus
      <3>1. CASE i = Len(h)
        BY <1>8, <2>3, <3>1, FlowAssumption
      <3>2. CASE i # Len(h)
        <4>1. o[i] = h[i] /\ h[i].request # r /\ i \in 1..Len(h)
          BY <1>8, <2>3, <3>2
        <4>2. flow'[h[i].request] = flow[h[i].request]
          BY <1>1, <1>3, <4>1
        <4> QED
          BY <2>1, <4>1, <4>2 DEF InOrder, h
      <3> QED
        BY <3>1, <3>2
    <2>5. ASSUME NEW p \in FlowRequests, flow'[p].token = s, Waiting(flow'[p])
          PROVE  Latest(o, p)
      <3>1. p # r /\ Latest(h, p)
        BY <1>1, <2>1, <2>5 DEF InOrder, Waiting, h
      <3> QED
        BY <2>2, <3>1 DEF Latest
    <2> QED
      BY <1>5, <2>4, <2>5 DEF InOrder
  <1> QED
    BY <1>1, <1>5, <1>7, <1>9, <1>10 DEF StatusInv

\* What StatusInv depends on.
Side(q, pc, sid, owner, watched, answers) ==
  /\ q \in FlowRequest
  /\ q.pc = pc /\ q.sid = sid /\ q.token = owner /\ q.watched = watched
  /\ q.answers = answers

LEMMA Sides ==
  ASSUME NEW q \in FlowRequest
  PROVE  /\ Side(Handled(q), "app", q.sid, q.token, q.watched, q.answers)
         /\ Side(Answered(q), "done", q.sid, q.token, q.watched, q.answers + 1)
         /\ Side(Late(q), q.pc, q.sid, q.token, q.watched, q.answers + 1)
         /\ Side(Watched(q), q.pc, q.sid, q.token, TRUE, q.answers)
         /\ Side(FailOpen(q), "decided", q.sid, q.token, q.watched, q.answers)
         /\ Side([q EXCEPT !.pc = "lookup"], "lookup", q.sid, q.token, q.watched, q.answers)
         /\ Side([q EXCEPT !.thrown = TRUE], q.pc, q.sid, q.token, q.watched, q.answers)
         /\ Side([q EXCEPT !.thrown = TRUE, !.token = Absent],
                 q.pc, q.sid, Absent, q.watched, q.answers)
         /\ \A verdict \in {"allow", "challenge", "block"} :
              Side([q EXCEPT !.pc = "decided", !.verdict = verdict, !.token = q.sid],
                   "decided", q.sid, q.sid, q.watched, q.answers)
  <1>1. Side(Handled(q), "app", q.sid, q.token, q.watched, q.answers)
    <2>1. q.handled + 1 \in Nat
      BY DEF FlowRequest
    <2> QED
      BY <2>1 DEF Side, FlowRequest, Handled
  <1>2. Side(Answered(q), "done", q.sid, q.token, q.watched, q.answers + 1)
    <2> DEFINE n == q.answers + 1
    <2>1. n \in Nat /\ Answered(q) = [q EXCEPT !.pc = "done", !.answers = n]
      BY DEF FlowRequest, Answered
    <2> HIDE DEF n
    <2>2. Side(Answered(q), "done", q.sid, q.token, q.watched, n)
      BY <2>1 DEF Side, FlowRequest
    <2> QED
      BY <2>2 DEF n
  <1>3. Side(Late(q), q.pc, q.sid, q.token, q.watched, q.answers + 1)
    <2> DEFINE n == q.answers + 1
    <2>1. n \in Nat /\ Late(q) = [q EXCEPT !.thrown = TRUE, !.late = TRUE, !.answers = n]
      BY DEF FlowRequest, Late
    <2> HIDE DEF n
    <2>2. Side(Late(q), q.pc, q.sid, q.token, q.watched, n)
      BY <2>1 DEF Side, FlowRequest
    <2> QED
      BY <2>2 DEF n
  <1>4. Side(Watched(q), q.pc, q.sid, q.token, TRUE, q.answers)
    BY DEF Side, FlowRequest, Watched
  <1>5. Side(FailOpen(q), "decided", q.sid, q.token, q.watched, q.answers)
    BY DEF Side, FlowRequest, FailOpen
  <1>6. /\ Side([q EXCEPT !.pc = "lookup"], "lookup", q.sid, q.token, q.watched, q.answers)
        /\ Side([q EXCEPT !.thrown = TRUE], q.pc, q.sid, q.token, q.watched, q.answers)
    BY DEF Side, FlowRequest
  <1>7. Side([q EXCEPT !.thrown = TRUE, !.token = Absent],
             q.pc, q.sid, Absent, q.watched, q.answers)
    BY DEF Side, FlowRequest
  <1>8. ASSUME NEW verdict \in {"allow", "challenge", "block"}
        PROVE  Side([q EXCEPT !.pc = "decided", !.verdict = verdict, !.token = q.sid],
                    "decided", q.sid, q.sid, q.watched, q.answers)
    BY DEF Side, FlowRequest
  <1> QED
    BY <1>1, <1>2, <1>3, <1>4, <1>5, <1>6, <1>7, <1>8

\* The answers of a request by the place it is at.
LEMMA AnswersByPlace ==
  ASSUME StatusInv, NEW r \in FlowRequests
  PROVE  /\ flow[r] \in FlowRequest /\ TokenOK(flow[r]) /\ flow[r].answers \in Nat
         /\ flow[r].answers = (IF flow[r].pc = "done" THEN 1 ELSE 0)
                                + (IF flow[r].late THEN 1 ELSE 0)
         /\ flow[r].pc \notin {"app", "done"} => flow[r].answers = 0
  BY DEF StatusInv, OnceInv, OnceOK, Untouched, FlowRequest

LEMMA ReceiveStatus ==
  ASSUME StatusInv, OnceInv', NEW r \in FlowRequests, NEW adapter \in Adapters,
         NEW sid \in FlowSids, Receive(r, adapter, sid)
  PROVE  StatusInv'
  <1> DEFINE fresh == [New EXCEPT !.via = adapter]
             judged == [New EXCEPT !.via = adapter, !.pc = "protected", !.sid = sid]
             endpoint == [New EXCEPT !.via = adapter, !.pc = "endpoint"]
  <1>1. /\ fresh \in FlowRequest /\ fresh.token = Absent /\ fresh.answers = 0
        /\ Side(judged, "protected", sid, Absent, FALSE, 0)
        /\ Side(endpoint, "endpoint", Absent, Absent, FALSE, 0)
    BY DEF New, Side, FlowRequest, Absent
  <1>2. sid # Absent
    BY FlowAssumption DEF Absent
  <1>3. /\ flow[r].pc = "new" /\ UNCHANGED <<histories, crossed>>
        /\ \/ Step(r, judged) \/ Step(r, Handled(fresh)) \/ Step(r, endpoint)
    BY DEF Receive
  <1>7. flow[r].answers = 0
    BY <1>3, AnswersByPlace
  <1> HIDE DEF fresh, judged, endpoint
  <1>4. CASE Step(r, judged)
    BY <1>1, <1>2, <1>3, <1>4, <1>7, MoveKeeps DEF Side, TokenOK, Past, Open, Waiting
  <1>5. CASE Step(r, endpoint)
    BY <1>1, <1>3, <1>5, <1>7, MoveKeeps DEF Side, TokenOK, Past, Open, Waiting
  <1>6. CASE Step(r, Handled(fresh))
    <2>1. /\ Handled(fresh).token = Absent /\ Handled(fresh).pc = "app"
          /\ Handled(fresh).answers = 0
      BY ZenonT(40), <1>1, Sides DEF Side
    <2> QED
      BY SMTT(30), <1>3, <1>6, <1>7, <2>1, MoveKeeps DEF TokenOK, Past, Open, Waiting
  <1> QED
    BY <1>3, <1>4, <1>5, <1>6

\* The request is past its analysis and stays with its session; its status is
\* reported as it is answered, if it is watched and has a session.
LEMMA AnswerKeeps ==
  ASSUME StatusInv, OnceInv', NEW r \in FlowRequests, NEW q, Step(r, q),
         crossed' = crossed, Waiting(flow[r]), q.pc \in {"app", "done"},
         NEW watched \in BOOLEAN,
         Side(q, q.pc, flow[r].sid, flow[r].token, watched, 1),
         IF watched THEN Report(r) ELSE UNCHANGED histories
  PROVE  StatusInv'
  <1>1. flow[r] \in FlowRequest /\ TokenOK(flow[r]) /\ flow[r].answers = 0
    BY AnswersByPlace DEF Waiting
  <1>2. TokenOK(q) /\ q.answers > 0 /\ q.pc \in Past /\ ~Waiting(q)
    BY <1>1 DEF Side, TokenOK, Past, Waiting
  <1>3. CASE watched /\ flow[r].token # Absent
    BY <1>2, <1>3, ReportKeeps DEF Side
  <1>4. CASE ~(watched /\ flow[r].token # Absent)
    BY <1>1, <1>2, <1>4, MoveKeeps DEF Side, Report
  <1> QED
    BY <1>3, <1>4

LEMMA ThrowsStatus ==
  ASSUME StatusInv, OnceInv', NEW r \in FlowRequests,
         CallbackThrows(r) \/ HandlerThrows(r) \/ DenyThrowsLate(r) \/ HandlerThrowsLate(r)
  PROVE  StatusInv'
  <1> DEFINE f == flow[r]
  <1>1. f \in FlowRequest /\ TokenOK(f) /\ f.answers \in Nat /\ crossed' = crossed
    BY AnswersByPlace DEF CallbackThrows, HandlerThrows, DenyThrowsLate, HandlerThrowsLate
  <1>2. f.pc \in Open /\ f.answers = 0
    <2>1. f.pc \in Open
      BY DEF CallbackThrows, HandlerThrows, DenyThrowsLate, HandlerThrowsLate, Open
    <2>2. OnceOK(f) /\ (f.late => f.thrown)
      BY DEF StatusInv, OnceInv, OnceOK
    <2>3. f.pc = "decided" \/ ~f.thrown
      BY DEF CallbackThrows, HandlerThrows, DenyThrowsLate, HandlerThrowsLate
    <2> QED
      BY <2>1, <2>2, <2>3, AnswersByPlace DEF Open
  <1> DEFINE x == [f EXCEPT !.thrown = TRUE]
             y == [f EXCEPT !.thrown = TRUE, !.token = Absent]
             z == Watched(f)
             w == [z EXCEPT !.thrown = TRUE]
             u == Late(f)
             v == Late(z)
  <1> HIDE DEF f
  <1>3. /\ Side(x, f.pc, f.sid, f.token, f.watched, 0)
        /\ Side(y, f.pc, f.sid, Absent, f.watched, 0)
        /\ Side(z, f.pc, f.sid, f.token, TRUE, 0)
        /\ Side(u, f.pc, f.sid, f.token, f.watched, 1)
    <2>1. f.answers + 1 = 1
      BY <1>2
    <2> QED
      BY <1>1, <1>2, <2>1, Sides, Zenon
  <1> HIDE DEF x, y, z, u
  <1>4. Side(w, f.pc, f.sid, f.token, TRUE, 0) /\ Side(v, f.pc, f.sid, f.token, TRUE, 1)
    <2>1. z \in FlowRequest /\ z.answers + 1 = 1
      BY <1>3 DEF Side
    <2>2. /\ Side(w, z.pc, z.sid, z.token, z.watched, z.answers)
          /\ Side(v, z.pc, z.sid, z.token, z.watched, z.answers + 1)
      BY <2>1, Sides
    <2> QED
      BY <1>3, <2>1, <2>2, Zenon DEF Side
  <1> HIDE DEF v, w
  <1>5. ASSUME NEW a, NEW owner, NEW watched, NEW n, Side(a, f.pc, f.sid, owner, watched, n)
        PROVE  Side(Handled(a), "app", f.sid, owner, watched, n)
    <2>1. a \in FlowRequest
      BY SMTT(30), <1>5 DEF Side
    <2>2. Side(Handled(a), "app", a.sid, a.token, a.watched, a.answers)
      BY <2>1, Sides
    <2> QED
      BY <1>5, <2>2, Zenon DEF Side
  <1>6. ASSUME NEW a, NEW owner \in {f.token, Absent}, NEW watched,
               Side(a, f.pc, f.sid, owner, watched, 0), Step(r, Handled(a)),
               UNCHANGED histories
        PROVE  StatusInv'
    <2> DEFINE q == Handled(a)
    <2>1. Side(q, "app", f.sid, owner, watched, 0)
      BY <1>5, <1>6
    <2> HIDE DEF q
    <2>2. /\ q.pc = "app" /\ q.sid = f.sid /\ q.token = owner /\ q.answers = 0
      BY <2>1 DEF Side
    <2>3. TokenOK(q) /\ q.pc \in Past /\ (q.token # Absent => q.token = f.token)
      BY <1>1, <2>2 DEF TokenOK, Past, Open
    <2>4. Step(r, q)
      BY <1>6 DEF q
    <2> QED
      BY <1>1, <1>2, <1>6, <2>2, <2>3, <2>4, MoveKeeps DEF Waiting, f
  <1>7. ASSUME NEW a, NEW watched \in BOOLEAN,
               Side(a, f.pc, f.sid, f.token, watched, 1), Step(r, Handled(a)),
               IF watched THEN Report(r) ELSE UNCHANGED histories
        PROVE  StatusInv'
    <2> DEFINE q == Handled(a)
    <2>1. Side(q, "app", f.sid, f.token, watched, 1)
      BY <1>5, <1>7
    <2> HIDE DEF q
    <2>2. q.pc = "app" /\ Side(q, q.pc, flow[r].sid, flow[r].token, watched, 1)
      BY <2>1 DEF Side, f
    <2>3. Step(r, q) /\ Waiting(flow[r])
      BY <1>2, <1>7 DEF q, Waiting, f
    <2> QED
      BY <1>1, <1>7, <2>2, <2>3, AnswerKeeps
  <1>8. CASE CallbackThrows(r) \/ HandlerThrows(r)
    <2>1. /\ UNCHANGED histories
          /\ Step(r, Handled(x)) \/ Step(r, Handled(y)) \/ Step(r, Handled(w))
      BY <1>8 DEF CallbackThrows, HandlerThrows, x, y, z, w, f
    <2> QED
      BY <1>3, <1>4, <1>6, <2>1
  <1>9. CASE DenyThrowsLate(r)
    <2>1. Step(r, Handled(v)) /\ Report(r)
      BY <1>9 DEF DenyThrowsLate, v, z, f
    <2> QED
      BY <1>4, <1>7, <2>1
  <1>10. CASE HandlerThrowsLate(r)
    <2>1. /\ Step(r, Handled(u)) /\ f.watched \in BOOLEAN
          /\ IF f.watched THEN Report(r) ELSE UNCHANGED histories
      BY <1>1, <1>10 DEF HandlerThrowsLate, u, f, FlowRequest
    <2> QED
      BY <1>3, <1>7, <2>1
  <1> QED
    BY <1>8, <1>9, <1>10

LEMMA NextStatus ==
  ASSUME StatusInv, [FlowNext]_flowVars
  PROVE  StatusInv'
  <1>1. OnceInv'
    BY NextOnce DEF StatusInv
  <1>2. CASE InitEngine \/ Shutdown \/ UNCHANGED flowVars
    <2>1. flow' = flow /\ histories' = histories /\ crossed' = crossed
      BY <1>2 DEF InitEngine, Shutdown, flowVars
    <2> QED
      BY SMTT(30), <1>1, <2>1 DEF StatusInv, EntriesOK, InOrder
  <1>3. ASSUME NEW r \in FlowRequests
        PROVE  /\ flow[r] \in FlowRequest /\ TokenOK(flow[r]) /\ flow[r].answers \in Nat
               /\ flow[r].pc \notin {"app", "done"} => flow[r].answers = 0
    BY AnswersByPlace
  <1>4. ASSUME NEW r \in FlowRequests, AnswerEndpoint(r) \/ EndpointThrows(r)
        PROVE  StatusInv'
    <2>1. /\ flow[r].pc = "endpoint" /\ flow[r].token = Absent /\ flow[r].answers = 0
          /\ UNCHANGED <<histories, crossed>>
      BY <1>3, <1>4 DEF AnswerEndpoint, EndpointThrows, TokenOK, Past
    <2>2. /\ Answered(flow[r]).token = Absent /\ Answered(flow[r]).pc = "done"
          /\ Answered(flow[r]).sid = flow[r].sid
          /\ Handled([flow[r] EXCEPT !.thrown = TRUE]).token = Absent
          /\ Handled([flow[r] EXCEPT !.thrown = TRUE]).pc = "app"
      <3> DEFINE x == [flow[r] EXCEPT !.thrown = TRUE]
      <3>1. x \in FlowRequest /\ x.token = Absent
        BY ZenonT(40), <1>3, <2>1, Sides DEF Side
      <3> HIDE DEF x
      <3>2. Handled(x).token = Absent /\ Handled(x).pc = "app"
        BY ZenonT(40), <3>1, Sides DEF Side
      <3>3. /\ Answered(flow[r]).token = Absent /\ Answered(flow[r]).pc = "done"
            /\ Answered(flow[r]).sid = flow[r].sid
        BY ZenonT(40), <1>3, <2>1, Sides DEF Side
      <3> QED
        BY SMTT(30), <3>2, <3>3 DEF x
    <2>3. \/ Step(r, Answered(flow[r])) \/ Step(r, Handled([flow[r] EXCEPT !.thrown = TRUE]))
      BY <1>4 DEF AnswerEndpoint, EndpointThrows, Answered
    <2> QED
      BY <1>1, <2>1, <2>2, <2>3, MoveKeeps DEF TokenOK, Past
  <1>5. ASSUME NEW r \in FlowRequests, StartAnalysis(r)
        PROVE  StatusInv'
    <2>1. /\ flow[r].pc = "protected" /\ flow[r].token = Absent /\ flow[r].sid # Absent
          /\ flow[r].answers = 0 /\ UNCHANGED <<histories, crossed>>
      BY <1>3, <1>5 DEF StartAnalysis, TokenOK, Past
    <2>2. /\ Side(FailOpen(flow[r]), "decided", flow[r].sid, Absent, flow[r].watched, 0)
          /\ Side([flow[r] EXCEPT !.pc = "lookup"], "lookup", flow[r].sid, Absent,
                  flow[r].watched, 0)
      BY ZenonT(40), <1>3, <2>1, Sides DEF Side
    <2>3. Step(r, FailOpen(flow[r])) \/ Step(r, [flow[r] EXCEPT !.pc = "lookup"])
      BY <1>5 DEF StartAnalysis
    <2> QED
      BY <1>1, <2>1, <2>2, <2>3, MoveKeeps DEF Side, TokenOK, Past
  <1>6. ASSUME NEW r \in FlowRequests, AnalysisThrows(r)
        PROVE  StatusInv'
    <2>1. flow[r].pc = "lookup" /\ flow[r].token = Absent /\ flow[r].answers = 0
      BY <1>3, <1>6 DEF AnalysisThrows, TokenOK, Past
    <2>2. Side(FailOpen(flow[r]), "decided", flow[r].sid, Absent, flow[r].watched, 0)
      BY <1>3, <2>1, Sides
    <2>3. /\ Step(r, FailOpen(flow[r]))
          /\ UNCHANGED <<histories, crossed>> \/ Observe(r)
      BY <1>6 DEF AnalysisThrows
    <2> QED
      BY <1>1, <2>1, <2>2, <2>3, MoveKeeps, ObserveKeeps DEF Side, TokenOK, Past
  <1>7. ASSUME NEW r \in FlowRequests,
               NEW verdict \in {"allow", "challenge", "block"}, EndAnalysis(r, verdict)
        PROVE  StatusInv'
    <2> DEFINE q == [flow[r] EXCEPT !.pc = "decided", !.verdict = verdict,
                                    !.token = flow[r].sid]
    <2>1. flow[r].pc = "lookup" /\ flow[r].answers = 0 /\ Step(r, q) /\ Observe(r)
      BY SMTT(30), <1>3, <1>7 DEF EndAnalysis
    <2>2. Side(q, "decided", flow[r].sid, flow[r].sid, flow[r].watched, 0)
      BY <1>3, <2>1, Sides
    <2> HIDE DEF q
    <2> QED
      BY <1>1, <2>1, <2>2, ObserveKeeps DEF Side, TokenOK, Past
  <1>8. ASSUME NEW r \in FlowRequests, Act(r)
        PROVE  StatusInv'
    <2>1. flow[r].pc = "decided" /\ flow[r].answers = 0 /\ crossed' = crossed
      BY <1>3, <1>8 DEF Act
    <2>2. /\ Side(Answered(Watched(flow[r])), "done", flow[r].sid, flow[r].token, TRUE, 1)
          /\ Side(Handled(Watched(flow[r])), "app", flow[r].sid, flow[r].token, TRUE, 0)
      <3> DEFINE x == Watched(flow[r])
      <3>1. Side(x, "decided", flow[r].sid, flow[r].token, TRUE, 0)
        BY <1>3, <2>1, Sides
      <3> HIDE DEF x
      <3>2. x \in FlowRequest /\ x.answers + 1 = 1
        BY SMTT(30), <3>1 DEF Side
      <3>3. /\ Side(Answered(x), "done", x.sid, x.token, x.watched, x.answers + 1)
            /\ Side(Handled(x), "app", x.sid, x.token, x.watched, x.answers)
        BY <3>2, Sides
      <3>4. /\ Side(Answered(x), "done", flow[r].sid, flow[r].token, TRUE, 1)
            /\ Side(Handled(x), "app", flow[r].sid, flow[r].token, TRUE, 0)
        BY <3>1, <3>2, <3>3, Zenon DEF Side
      <3> QED
        BY <3>4 DEF x
    <2>3. CASE Step(r, Handled(Watched(flow[r]))) /\ histories' = histories
      BY <1>1, <1>3, <2>1, <2>2, <2>3, MoveKeeps DEF Side, TokenOK, Past, Open, Waiting
    <2>4. CASE Step(r, Answered(Watched(flow[r]))) /\ Report(r)
      <3> DEFINE q == Answered(Watched(flow[r]))
      <3>1. q.pc = "done" /\ Side(q, q.pc, flow[r].sid, flow[r].token, TRUE, 1)
        BY <2>2 DEF Side
      <3>2. Waiting(flow[r])
        BY <2>1 DEF Waiting, Open
      <3> HIDE DEF q
      <3>3. Step(r, q)
        BY <2>4 DEF q
      <3> QED
        BY <1>1, <2>1, <2>4, <3>1, <3>2, <3>3, AnswerKeeps
    <2> QED
      BY <1>8, <2>3, <2>4 DEF Act
  <1>9. ASSUME NEW r \in FlowRequests,
               \/ CallbackThrows(r) \/ HandlerThrows(r)
               \/ DenyThrowsLate(r) \/ HandlerThrowsLate(r)
        PROVE  StatusInv'
    BY <1>1, <1>9, ThrowsStatus
  <1>10. ASSUME NEW r \in FlowRequests, Respond(r)
         PROVE  StatusInv'
    <2> DEFINE q == Answered(flow[r])
    <2>1. /\ flow[r].pc = "app" /\ crossed' = crossed /\ Step(r, q)
          /\ IF flow[r].watched /\ ~flow[r].late THEN Report(r) ELSE UNCHANGED histories
      BY SMTT(30), <1>10 DEF Respond
    <2>2. Side(q, "done", flow[r].sid, flow[r].token, flow[r].watched, flow[r].answers + 1)
      BY <1>3, Sides
    <2> HIDE DEF q
    <2>3. flow[r].answers = (IF flow[r].late THEN 1 ELSE 0) /\ flow[r].watched \in BOOLEAN
      BY <1>3, <2>1, AnswersByPlace DEF FlowRequest
    <2>4. CASE flow[r].late
      <3>1. /\ UNCHANGED histories /\ flow[r].answers > 0 /\ q.answers > 0
            /\ q.pc = "done" /\ q.token = flow[r].token /\ q.sid = flow[r].sid
            /\ q.watched = flow[r].watched /\ TokenOK(q)
        BY <1>3, <2>1, <2>2, <2>3, <2>4 DEF Side, TokenOK, Past
      <3> QED
        BY <1>1, <2>1, <3>1, MoveKeeps DEF Past, Open, Waiting
    <2>5. CASE ~flow[r].late
      <3>1. /\ q.pc = "done" /\ Waiting(flow[r])
            /\ IF flow[r].watched THEN Report(r) ELSE UNCHANGED histories
        BY <2>1, <2>2, <2>3, <2>5 DEF Side, Waiting, Open
      <3>2. flow[r].answers + 1 = 1
        BY <2>3, <2>5
      <3>3. Side(q, q.pc, flow[r].sid, flow[r].token, flow[r].watched, 1)
        BY <2>2, <3>1, <3>2
      <3> QED
        BY <1>1, <2>1, <2>3, <3>1, <3>3, AnswerKeeps
    <2> QED
      BY <2>4, <2>5
  <1> QED
    BY <1>1, <1>2, <1>4, <1>5, <1>6, <1>7, <1>8, <1>9, <1>10, ReceiveStatus DEF FlowNext

\* A status is counted once, and lands on its own request or on a later one of
\* a session whose requests overlapped; without overlap none is lost, whatever
\* is thrown and however often the engine is restarted, for any number of
\* requests and sessions and any length of the histories.
THEOREM StatusesBelongAlways == FlowSpec => []StatusesBelong
  <1>1. FlowInit => StatusInv
    <2> SUFFICES ASSUME FlowInit PROVE StatusInv
      OBVIOUS
    <2>1. OnceInv
      BY NewOK DEF FlowInit, OnceInv
    <2>2. \A r \in FlowRequests : flow[r] = New
      BY DEF FlowInit
    <2>3. New.pc = "new" /\ New.token = Absent
      BY DEF New
    <2>4. histories \in [FlowSids -> Seq(Entry)] /\ \A s \in FlowSids : histories[s] = <<>>
      BY DEF FlowInit
    <2>5. \A s \in FlowSids : EntriesOK(s) /\ InOrder(s)
      BY <2>2, <2>3, <2>4 DEF EntriesOK, InOrder, Open, Waiting
    <2> QED
      BY <2>1, <2>2, <2>3, <2>4, <2>5 DEF StatusInv, TokenOK, FlowInit
  <1>2. StatusInv => StatusesBelong
    <2> SUFFICES ASSUME StatusInv, NEW s \in FlowSids
                 PROVE  LET h == histories[s]
                            given == {i \in DOMAIN h : h[i].status # NoStatus}
                        IN  /\ \A i, j \in given : h[i].status = h[j].status => i = j
                            /\ \A i \in given : h[i].status = h[i].request \/ s \in crossed
                            /\ s \notin crossed =>
                                 \A i \in DOMAIN h :
                                   LET q == flow[h[i].request]
                                   IN  q.answers > 0 /\ q.watched /\ q.token # Absent
                                         => i \in given
      BY DEF StatusesBelong
    <2>1. /\ DOMAIN histories[s] = 1..Len(histories[s])
          /\ EntriesOK(s) /\ (s \notin crossed => InOrder(s))
      BY EntryFacts
    <2> QED
      BY <2>1, Zenon DEF EntriesOK, InOrder
  <1> QED
    BY <1>1, <1>2, NextStatus, PTL DEF FlowSpec

---------------------------------------------------------------------------
(* LocalRecords: what requests recorded is in the stored object.           *)

Record == [times : Seq(LocalRequests), risk : Seq(LocalRequests), telemetry : BOOLEAN]
LocalRequest ==
  [pc : {"new", "missing", "found", "tracked", "done"}, sid : LocalSids \cup {"none"},
   record : Nat, telemetry : BOOLEAN]

LocalTyped ==
  /\ heap \in Seq(Record)
  /\ local \in [LocalSids -> 0..Len(heap)]
  /\ serving \in [LocalRequests -> LocalRequest]
  /\ \A r \in LocalRequests :
       /\ serving[r].record \in 0..Len(heap)
       /\ serving[r].record = 0 <=> serving[r].pc \in {"new", "missing"}
       /\ serving[r].pc # "new" => serving[r].sid \in LocalSids

\* A record is of one session only, that of the requests that hold it; the times
\* it has are of requests that hold it, those it has too many of still served.
TimesOwned(o) ==
  \A i \in 1..Len(heap[o].times) :
    /\ serving[heap[o].times[i]].record = o
    /\ i > KeptTimes => serving[heap[o].times[i]].pc = "tracked"

Owned ==
  /\ \A s, t \in LocalSids : local[s] # 0 /\ local[s] = local[t] => s = t
  /\ \A r \in LocalRequests, s \in LocalSids :
       local[s] # 0 /\ serving[r].record = local[s] => serving[r].sid = s

AllTimesOwned == \A o \in 1..Len(heap) : TimesOwned(o)

\* A request holds the stored record unless that was lost or replaced.
HoldsStored ==
  \A r \in LocalRequests :
    serving[r].record # 0 /\ serving[r].sid \notin torn =>
      serving[r].record = local[serving[r].sid]

Recorded ==
  \A r \in LocalRequests :
    serving[r].pc = "done" /\ serving[r].telemetry => heap[serving[r].record].telemetry

\* The lists of a stored record are the ends of what was recorded.
TimesKept(times, all) ==
  IsEnd(times, all) /\ (Len(times) = Len(all) \/ Len(times) >= KeptTimes)

ListsKept(s) ==
  IF local[s] = 0 THEN tracked[s] = <<>> /\ finished[s] = <<>>
  ELSE /\ TimesKept(heap[local[s]].times, tracked[s])
       /\ heap[local[s]].risk = NewestOnly(finished[s], KeptRisk)

RecordTyped ==
  /\ tracked \in [LocalSids -> Seq(LocalRequests)]
  /\ finished \in [LocalSids -> Seq(LocalRequests)]
AllListsKept == \A s \in LocalSids \ torn : ListsKept(s)

StoredInv ==
  /\ LocalTyped /\ Owned /\ HoldsStored /\ Recorded
  /\ AllTimesOwned /\ RecordTyped /\ AllListsKept

LEMMA CountedHolds ==
  ASSUME StoredInv, NEW o \in 1..Len(heap), NEW i \in 1..Len(heap[o].times)
  PROVE  /\ heap[o].times[i] \in LocalRequests
         /\ serving[heap[o].times[i]].record = o
         /\ i > KeptTimes => serving[heap[o].times[i]].pc = "tracked"
  <1>1. heap[o] \in Record
    BY DEF StoredInv, LocalTyped
  <1>2. heap[o].times \in Seq(LocalRequests)
    BY <1>1 DEF Record
  <1>3. heap[o].times[i] \in LocalRequests
    BY <1>2
  <1>4. TimesOwned(o)
    BY DEF StoredInv, AllTimesOwned
  <1> QED
    BY <1>3, <1>4 DEF TimesOwned

LEMMA InitStored == LocalInit => StoredInv
  <1> SUFFICES ASSUME LocalInit PROVE StoredInv
    OBVIOUS
  <1>1. heap = <<>> /\ Len(heap) = 0 /\ heap \in Seq(Record)
    BY DEF LocalInit
  <1>2. LocalTyped
    BY <1>1 DEF LocalInit, LocalTyped, Idle, LocalRequest
  <1>3. Owned /\ HoldsStored /\ Recorded
    BY <1>1 DEF LocalInit, Owned, HoldsStored, Recorded, Idle
  <1>4. \A s \in LocalSids : ListsKept(s)
    BY DEF LocalInit, ListsKept
  <1>5. RecordTyped /\ AllTimesOwned
    BY <1>1 DEF LocalInit, RecordTyped, AllTimesOwned
  <1> QED
    BY <1>2, <1>3, <1>4, <1>5 DEF StoredInv, AllListsKept

LEMMA LookUpStored ==
  ASSUME StoredInv, NEW r \in LocalRequests, NEW s \in LocalSids,
         NEW telemetry \in BOOLEAN, LookUp(r, s, telemetry)
  PROVE  StoredInv'
  <1> DEFINE q == [pc |-> IF local[s] = 0 THEN "missing" ELSE "found", sid |-> s,
                   record |-> local[s], telemetry |-> telemetry]
  <1>1. /\ serving' = [serving EXCEPT ![r] = q] /\ serving[r].pc = "new"
        /\ heap' = heap /\ local' = local /\ torn' = torn
        /\ tracked' = tracked /\ finished' = finished
    BY DEF LookUp
  <1>2. /\ q \in LocalRequest /\ q.record = local[s] /\ q.sid = s
        /\ q.pc \in {"missing", "found"} /\ (q.pc = "missing" <=> local[s] = 0)
    BY DEF StoredInv, LocalTyped, LocalRequest
  <1> HIDE DEF q
  <1>3. serving'[r] = q /\ \A p \in LocalRequests \ {r} : serving'[p] = serving[p]
    BY <1>1 DEF StoredInv, LocalTyped
  <1>4. serving[r].record = 0
    BY <1>1 DEF StoredInv, LocalTyped
  <1>5. LocalTyped'
    BY <1>1, <1>2, <1>3 DEF StoredInv, LocalTyped
  <1>9. AllTimesOwned' /\ RecordTyped'
    <2>1. ASSUME NEW o \in 1..Len(heap) PROVE TimesOwned(o)'
      <3>1. ASSUME NEW i \in 1..Len(heap[o].times)
            PROVE  serving'[heap[o].times[i]] = serving[heap[o].times[i]]
        <4>1. heap[o].times[i] \in LocalRequests /\ serving[heap[o].times[i]].record = o
          BY CountedHolds
        <4> QED
          BY <1>3, <1>4, <4>1
      <3>2. TimesOwned(o)
        BY DEF StoredInv, AllTimesOwned
      <3> QED
        BY <1>1, <3>1, <3>2 DEF TimesOwned
    <2> QED
      BY <1>1, <2>1 DEF StoredInv, AllTimesOwned, RecordTyped
  <1>6. Owned'
    BY <1>1, <1>2, <1>3, <1>4 DEF StoredInv, LocalTyped, Owned, Record
  <1>7. HoldsStored' /\ Recorded'
    BY <1>1, <1>2, <1>3 DEF StoredInv, HoldsStored, Recorded
  <1>8. AllListsKept'
    BY <1>1 DEF StoredInv, AllListsKept, ListsKept
  <1> QED
    BY <1>5, <1>6, <1>7, <1>8, <1>9 DEF StoredInv

LEMMA CreateStored ==
  ASSUME StoredInv, NEW r \in LocalRequests, Create(r)
  PROVE  StoredInv'
  <1> DEFINE s == serving[r].sid
             n == Len(heap) + 1
             empty == NewObject
  <1>0. <<>> \in Seq(LocalRequests)
    OBVIOUS
  <1>1. /\ heap \in Seq(Record) /\ empty \in Record /\ Len(heap) \in Nat
        /\ heap' = Append(heap, empty)
    BY <1>0 DEF StoredInv, LocalTyped, Create, Record, NewObject
  <1>2. /\ heap' \in Seq(Record) /\ Len(heap') = n
        /\ heap'[n] = empty /\ \A o \in 1..Len(heap) : heap'[o] = heap[o]
    BY <1>1
  <1>3. /\ local' = [local EXCEPT ![s] = n] /\ serving[r].pc = "missing"
        /\ serving' = [serving EXCEPT ![r].pc = "found", ![r].record = n]
        /\ torn' = IF local[s] = 0 THEN torn ELSE torn \cup {s}
        /\ tracked' = tracked /\ finished' = finished
    BY <1>2 DEF Create
  <1>4. empty.times = <<>> /\ empty.risk = <<>>
    BY DEF NewObject
  <1>5. s \in LocalSids /\ serving[r].record = 0 /\ n \in Nat \ {0}
    BY <1>1, <1>3 DEF StoredInv, LocalTyped
  <1> HIDE DEF n, empty
  <1>6. /\ serving'[r] = [serving[r] EXCEPT !.pc = "found", !.record = n]
        /\ \A p \in LocalRequests \ {r} : serving'[p] = serving[p]
        /\ serving' = [p \in LocalRequests |-> serving'[p]]
    BY <1>3 DEF StoredInv, LocalTyped
  <1>7. /\ serving'[r] \in LocalRequest /\ serving'[r].pc = "found"
        /\ serving'[r].record = n /\ serving'[r].sid = s
    BY <1>5, <1>6 DEF StoredInv, LocalTyped, LocalRequest
  <1>8. local'[s] = n /\ \A t \in LocalSids \ {s} : local'[t] = local[t]
    BY <1>3, <1>5 DEF StoredInv, LocalTyped
  <1>9. 1..n = (1..Len(heap)) \cup {n} /\ n \notin 0..Len(heap) /\ n = Len(heap')
    BY <1>1, <1>2 DEF n
  <1>10. LocalTyped'
    <2>1. \A p \in LocalRequests : serving'[p] \in LocalRequest
      BY <1>6, <1>7 DEF StoredInv, LocalTyped
    <2>2. serving' \in [LocalRequests -> LocalRequest]
      BY <1>6, <2>1
    <2>3. 0..Len(heap) \subseteq 0..n /\ n \in 0..n
      BY <1>1 DEF n
    <2>4. local' \in [LocalSids -> 0..n]
      BY <1>3, <1>5, <2>3 DEF StoredInv, LocalTyped
    <2>5. \A p \in LocalRequests :
            /\ serving'[p].record \in 0..n
            /\ serving'[p].record = 0 <=> serving'[p].pc \in {"new", "missing"}
            /\ serving'[p].pc # "new" => serving'[p].sid \in LocalSids
      BY <1>5, <1>6, <1>7, <2>3 DEF StoredInv, LocalTyped
    <2> QED
      BY <1>2, <1>9, <2>2, <2>4, <2>5 DEF LocalTyped
  <1>11. Owned'
    <2>1. \A t, u \in LocalSids : local'[t] # 0 /\ local'[t] = local'[u] => t = u
      BY <1>8, <1>9 DEF StoredInv, LocalTyped, Owned
    <2>2. \A p \in LocalRequests, t \in LocalSids :
            local'[t] # 0 /\ serving'[p].record = local'[t] => serving'[p].sid = t
      <3> SUFFICES ASSUME NEW p \in LocalRequests, NEW t \in LocalSids,
                          local'[t] # 0, serving'[p].record = local'[t]
                   PROVE  serving'[p].sid = t
        OBVIOUS
      <3>1. serving[p].record # n /\ local[t] # n
        BY <1>9 DEF StoredInv, LocalTyped
      <3>2. CASE t = s
        <4>1. p = r
          BY <1>6, <1>8, <3>1, <3>2
        <4> QED
          BY <1>7, <3>2, <4>1
      <3>3. CASE t # s
        <4>1. p # r
          BY <1>7, <1>8, <3>1, <3>3
        <4> QED
          BY <1>6, <1>8, <3>3, <4>1 DEF StoredInv, Owned
      <3> QED
        BY <3>2, <3>3
    <2> QED
      BY <2>1, <2>2 DEF Owned
  <1>15. AllTimesOwned' /\ RecordTyped'
    <2>3. ASSUME NEW o \in 1..Len(heap) PROVE TimesOwned(o)'
      <3>1. ASSUME NEW i \in 1..Len(heap[o].times)
            PROVE  serving'[heap[o].times[i]] = serving[heap[o].times[i]]
        <4>1. heap[o].times[i] \in LocalRequests /\ serving[heap[o].times[i]].record = o
          BY CountedHolds
        <4> QED
          BY <1>5, <1>6, <4>1
      <3>2. TimesOwned(o) /\ heap'[o] = heap[o]
        BY <1>2 DEF StoredInv, AllTimesOwned
      <3> QED
        BY <3>1, <3>2 DEF TimesOwned
    <2>5. ASSUME NEW o \in 1..Len(heap'), o = n PROVE TimesOwned(o)'
      <3>1. Len(heap'[o].times) = 0
        BY <1>2, <1>4, <2>5
      <3> QED
        BY <3>1 DEF TimesOwned
    <2> QED
      BY <1>2, <1>3, <1>9, <2>3, <2>5 DEF StoredInv, AllTimesOwned, RecordTyped
  <1>12. HoldsStored'
    <2> SUFFICES ASSUME NEW p \in LocalRequests, serving'[p].record # 0,
                        serving'[p].sid \notin torn'
                 PROVE  serving'[p].record = local'[serving'[p].sid]
      BY DEF HoldsStored
    <2>1. CASE p = r
      BY <1>7, <1>8, <2>1
    <2>2. CASE p # r
      <3>1. /\ serving[p].record # 0 /\ serving[p].sid \notin torn
            /\ serving[p].record = local[serving[p].sid] /\ serving[p].sid \in LocalSids
        BY <1>3, <1>6, <2>2 DEF StoredInv, HoldsStored, LocalTyped
      <3>2. serving[p].sid # s
        BY <1>3, <1>6, <2>2, <3>1
      <3> QED
        BY <1>6, <1>8, <2>2, <3>1, <3>2
    <2> QED
      BY <2>1, <2>2
  <1>13. Recorded'
    <2> SUFFICES ASSUME NEW p \in LocalRequests, serving'[p].pc = "done"
                 PROVE  /\ serving'[p] = serving[p]
                        /\ heap'[serving'[p].record] = heap[serving[p].record]
      BY <1>6 DEF StoredInv, Recorded
    <2>1. p # r
      BY <1>7
    <2>2. serving'[p] = serving[p] /\ serving[p].record \in 1..Len(heap)
      BY <1>1, <1>6, <2>1 DEF StoredInv, LocalTyped
    <2> QED
      BY <1>2, <2>2
  <1>14. ASSUME NEW u \in LocalSids \ torn' PROVE ListsKept(u)'
    <2>1. ListsKept(u)
      BY <1>3 DEF StoredInv, AllListsKept
    <2>2. CASE u = s
      <3>1. local[s] = 0 /\ tracked[s] = <<>> /\ finished[s] = <<>>
        BY <1>3, <2>1, <2>2 DEF ListsKept
      <3>2. /\ IsEnd(<<>>, <<>>) /\ Len(<<>>) = 0
            /\ NewestOnly(<<>>, KeptRisk) = <<>>
        BY LocalAssumption DEF IsEnd, NewestOnly
      <3> QED
        BY <1>2, <1>3, <1>4, <1>5, <1>8, <2>2, <3>1, <3>2 DEF ListsKept, TimesKept
    <2>3. CASE u # s
      <3>1. local[u] \in 0..Len(heap) /\ local'[u] = local[u]
        BY <1>8, <2>3 DEF StoredInv, LocalTyped
      <3>2. local[u] # 0 => heap'[local[u]] = heap[local[u]]
        BY <1>1, <1>2, <3>1
      <3> QED
        BY <1>3, <2>1, <3>1, <3>2 DEF ListsKept
    <2> QED
      BY <2>2, <2>3
  <1> QED
    BY <1>10, <1>11, <1>12, <1>13, <1>14, <1>15 DEF StoredInv, AllListsKept

\* How the lists of a record change, and those of its session.
TimesFrom(r, pc, new) ==
  /\ pc = "done" => Len(new.times) <= KeptTimes
  /\ \A i \in 1..Len(new.times) :
       \/ new.times[i] = r
       \/ \E j \in 1..Len(heap[serving[r].record].times) :
            /\ new.times[i] = heap[serving[r].record].times[j]
            /\ i > KeptTimes => j > KeptTimes

ListsFollow(r, new) ==
  /\ tracked' \in [LocalSids -> Seq(LocalRequests)]
  /\ finished' \in [LocalSids -> Seq(LocalRequests)]
  /\ \A u \in LocalSids \ {serving[r].sid} :
       tracked'[u] = tracked[u] /\ finished'[u] = finished[u]
  /\ TimesKept(heap[serving[r].record].times, tracked[serving[r].sid])
     => TimesKept(new.times, tracked'[serving[r].sid])
  /\ heap[serving[r].record].risk = NewestOnly(finished[serving[r].sid], KeptRisk)
     => new.risk = NewestOnly(finished'[serving[r].sid], KeptRisk)

\* session() and the scores change the record a request holds, in place.
LEMMA ChangeStored ==
  ASSUME StoredInv, NEW r \in LocalRequests, NEW pc \in {"tracked", "done"},
         NEW new \in Record, serving[r].pc \in {"found", "tracked"},
         heap' = [heap EXCEPT ![serving[r].record] = new],
         serving' = [serving EXCEPT ![r].pc = pc],
         local' = local, torn' = torn,
         heap[serving[r].record].telemetry => new.telemetry,
         pc = "done" => (serving[r].telemetry => new.telemetry),
         TimesFrom(r, pc, new), ListsFollow(r, new)
  PROVE  StoredInv'
  <1> DEFINE o == serving[r].record
  <1>1. heap \in Seq(Record) /\ Len(heap) \in Nat /\ o \in 1..Len(heap)
    BY DEF StoredInv, LocalTyped
  <1>2. /\ heap' \in Seq(Record) /\ Len(heap') = Len(heap)
        /\ heap'[o] = new /\ \A i \in 1..Len(heap) \ {o} : heap'[i] = heap[i]
    BY <1>1
  <1>3. /\ serving'[r] = [serving[r] EXCEPT !.pc = pc]
        /\ \A p \in LocalRequests \ {r} : serving'[p] = serving[p]
        /\ serving' = [p \in LocalRequests |-> serving'[p]]
    BY DEF StoredInv, LocalTyped
  <1>4. /\ serving'[r] \in LocalRequest /\ serving'[r].pc = pc
        /\ serving'[r].record = o /\ serving'[r].sid = serving[r].sid
        /\ serving'[r].telemetry = serving[r].telemetry
    BY ZenonT(40), <1>3 DEF StoredInv, LocalTyped, LocalRequest
  <1>5. \A p \in LocalRequests : /\ serving'[p] \in LocalRequest
                                 /\ serving'[p].record = serving[p].record
                                 /\ serving'[p].sid = serving[p].sid
    BY <1>3, <1>4 DEF StoredInv, LocalTyped
  <1> HIDE DEF o
  <1>6. LocalTyped'
    <2>1. serving' \in [LocalRequests -> LocalRequest]
      BY <1>3, <1>5
    <2>2. \A p \in LocalRequests :
            /\ serving'[p].record \in 0..Len(heap)
            /\ serving'[p].record = 0 <=> serving'[p].pc \in {"new", "missing"}
            /\ serving'[p].pc # "new" => serving'[p].sid \in LocalSids
      BY <1>1, <1>3, <1>4 DEF StoredInv, LocalTyped
    <2> QED
      BY <1>2, <2>1, <2>2 DEF StoredInv, LocalTyped
  <1>11. AllTimesOwned'
    <2>0. ASSUME NEW i \in 1..Len(heap), NEW j \in 1..Len(heap[i].times)
          PROVE  /\ serving'[heap[i].times[j]].record = i
                 /\ j > KeptTimes /\ heap[i].times[j] # r =>
                      serving'[heap[i].times[j]].pc = "tracked"
      <3>1. /\ heap[i].times[j] \in LocalRequests
            /\ serving[heap[i].times[j]].record = i
            /\ j > KeptTimes => serving[heap[i].times[j]].pc = "tracked"
        BY CountedHolds
      <3> QED
        BY <1>3, <1>5, <3>1
    <2>1. ASSUME NEW i \in 1..Len(heap') PROVE TimesOwned(i)'
      <3>1. CASE i = o
        <4>1. heap'[i] = new
          BY <1>2, <3>1
        <4> SUFFICES ASSUME NEW k \in 1..Len(new.times)
                     PROVE  /\ serving'[new.times[k]].record = i
                            /\ k > KeptTimes => serving'[new.times[k]].pc = "tracked"
          BY <4>1 DEF TimesOwned
        <4>2. Len(new.times) \in Nat
          BY DEF Record
        <4>3. k > KeptTimes => pc = "tracked"
          BY <4>2, LocalAssumption DEF TimesFrom
        <4>4. CASE new.times[k] = r
          BY <1>4, <3>1, <4>3, <4>4
        <4>5. CASE new.times[k] # r
          <5>1. PICK j \in 1..Len(heap[o].times) :
                  new.times[k] = heap[o].times[j] /\ (k > KeptTimes => j > KeptTimes)
            BY <4>5 DEF o, TimesFrom
          <5> QED
            BY <1>1, <2>0, <3>1, <4>5, <5>1
        <4> QED
          BY <4>4, <4>5
      <3>2. CASE i # o
        <4>1. heap'[i] = heap[i] /\ i \in 1..Len(heap)
          BY <1>2, <3>2
        <4>2. ASSUME NEW j \in 1..Len(heap[i].times) PROVE heap[i].times[j] # r
          <5>1. serving'[heap[i].times[j]].record = i
            BY <2>0, <4>1
          <5> QED
            BY <1>4, <3>2, <5>1
        <4> QED
          BY <2>0, <4>1, <4>2 DEF TimesOwned
      <3> QED
        BY <3>1, <3>2
    <2> QED
      BY <2>1 DEF AllTimesOwned
  <1>7. Owned'
    <2>2. \A p \in LocalRequests, s \in LocalSids :
            local'[s] # 0 /\ serving'[p].record = local'[s] => serving'[p].sid = s
      BY <1>5 DEF StoredInv, Owned
    <2>3. \A s, t \in LocalSids : local'[s] # 0 /\ local'[s] = local'[t] => s = t
      BY DEF StoredInv, Owned
    <2> QED
      BY <2>2, <2>3 DEF Owned
  <1>8. HoldsStored'
    BY <1>5 DEF StoredInv, HoldsStored
  <1>9. Recorded'
    <2> SUFFICES ASSUME NEW p \in LocalRequests, serving'[p].pc = "done",
                        serving'[p].telemetry
                 PROVE  heap'[serving'[p].record].telemetry
      BY DEF Recorded
    <2>1. CASE p = r
      BY <1>2, <1>4, <2>1 DEF o
    <2>2. CASE p # r
      <3>1. serving'[p] = serving[p] /\ serving[p].record \in 1..Len(heap)
        <4>1. serving[p].record \in 0..Len(heap) /\ serving[p].record # 0
          BY <1>3, <2>2 DEF StoredInv, LocalTyped
        <4> QED
          BY <1>1, <1>3, <2>2, <4>1
      <3>2. heap[serving[p].record].telemetry
        BY <1>3, <2>2 DEF StoredInv, Recorded
      <3>3. CASE serving[p].record = o
        BY <1>2, <3>1, <3>2, <3>3 DEF o
      <3>4. CASE serving[p].record # o
        BY <1>2, <3>1, <3>2, <3>4
      <3> QED
        BY <3>3, <3>4
    <2> QED
      BY <2>1, <2>2
  <1>10. ASSUME NEW u \in LocalSids \ torn' PROVE ListsKept(u)'
    <2>1. ListsKept(u)
      BY DEF StoredInv, AllListsKept
    <2>2. CASE u = serving[r].sid
      <3>1. local[u] = o /\ o # 0
        BY <1>1, <2>2 DEF StoredInv, HoldsStored, o
      <3>2. /\ TimesKept(heap[o].times, tracked[u])
            /\ heap[o].risk = NewestOnly(finished[u], KeptRisk)
        BY <2>1, <3>1 DEF ListsKept
      <3>3. TimesKept(new.times, tracked'[u]) /\ new.risk = NewestOnly(finished'[u], KeptRisk)
        BY <2>2, <3>2 DEF o, ListsFollow
      <3> QED
        BY <1>2, <3>1, <3>3 DEF ListsKept
    <2>3. CASE u # serving[r].sid
      <3>1. local[u] # 0 => local[u] # o /\ local[u] \in 1..Len(heap)
        BY <1>1, <2>3 DEF StoredInv, Owned, LocalTyped, o
      <3>2. local[u] # 0 => heap'[local[u]] = heap[local[u]]
        BY <1>2, <3>1
      <3>3. tracked'[u] = tracked[u] /\ finished'[u] = finished[u] /\ local'[u] = local[u]
        BY <2>3 DEF ListsFollow
      <3> QED
        BY <2>1, <3>2, <3>3 DEF ListsKept
    <2> QED
      BY <2>2, <2>3
  <1> QED
    BY <1>6, <1>7, <1>8, <1>9, <1>10, <1>11
    DEF StoredInv, AllListsKept, RecordTyped, ListsFollow

LEMMA NextStored ==
  ASSUME StoredInv, [LocalNext]_localVars
  PROVE  StoredInv'
  <1>1. ASSUME NEW r \in LocalRequests, serving[r].pc \in {"found", "tracked"}
        PROVE  /\ serving[r].record \in DOMAIN heap
               /\ heap[serving[r].record] \in Record
               /\ serving[r].telemetry \in BOOLEAN
    <2>1. /\ heap \in Seq(Record) /\ serving[r] \in LocalRequest
          /\ serving[r].record \in 0..Len(heap) /\ serving[r].record # 0
      BY <1>1 DEF StoredInv, LocalTyped
    <2>2. serving[r].record \in 1..Len(heap) /\ serving[r].telemetry \in BOOLEAN
      BY <2>1 DEF LocalRequest
    <2> QED
      BY <2>1, <2>2
  <1>2. ASSUME NEW r \in LocalRequests, Track(r)
        PROVE  StoredInv'
    <2> DEFINE old == heap[serving[r].record]
               s == serving[r].sid
               new == [old EXCEPT !.times = Append(@, r)]
    <2>1. old \in Record /\ serving[r].pc = "found" /\ serving[r].record \in DOMAIN heap
      BY <1>1, <1>2 DEF Track
    <2>2. heap' = [heap EXCEPT ![serving[r].record] = new]
      BY <1>2, <2>1 DEF Track
    <2>0. /\ serving' = [serving EXCEPT ![r].pc = "tracked"]
          /\ local' = local /\ torn' = torn /\ finished' = finished
          /\ tracked' = [tracked EXCEPT ![s] = Append(@, r)]
      BY <1>2 DEF Track
    <2>4. /\ s \in LocalSids /\ tracked \in [LocalSids -> Seq(LocalRequests)]
          /\ finished \in [LocalSids -> Seq(LocalRequests)]
      BY <2>1 DEF StoredInv, LocalTyped, RecordTyped
    <2> HIDE DEF old
    <2>5. old.times \in Seq(LocalRequests)
      BY <2>1 DEF Record
    <2>6. Append(old.times, r) \in Seq(LocalRequests)
      BY <2>5
    <2>3. /\ new \in Record /\ new.times = Append(old.times, r)
          /\ new.risk = old.risk /\ new.telemetry = old.telemetry
      BY <2>1, <2>6 DEF Record
    <2> HIDE DEF new
    <2>7. tracked[s] \in Seq(LocalRequests) /\ Append(tracked[s], r) \in Seq(LocalRequests)
      <3>1. tracked[s] \in Seq(LocalRequests)
        BY <2>4
      <3> QED
        BY <3>1
    <2> HIDE DEF s
    <2>8. /\ tracked' \in [LocalSids -> Seq(LocalRequests)]
          /\ tracked'[s] = Append(tracked[s], r)
          /\ \A u \in LocalSids \ {s} : tracked'[u] = tracked[u]
      BY <2>0, <2>4, <2>7
    <2>9. TimesKept(old.times, tracked[s]) => TimesKept(new.times, tracked'[s])
      BY <2>3, <2>5, <2>7, <2>8, EndGrows, LocalAssumption DEF TimesKept
    <2>10. ASSUME NEW i \in 1..Len(new.times)
           PROVE  \/ new.times[i] = r
                  \/ \E j \in 1..Len(old.times) :
                       new.times[i] = old.times[j] /\ (i > KeptTimes => j > KeptTimes)
      BY <2>3, <2>5
    <2>11. TimesFrom(r, "tracked", new)
      BY <2>10 DEF TimesFrom, old
    <2>12. ListsFollow(r, new)
      BY <2>0, <2>3, <2>4, <2>8, <2>9 DEF ListsFollow, old, s
    <2> QED
      BY <2>0, <2>1, <2>2, <2>3, <2>11, <2>12, ChangeStored DEF old
  <1>3. ASSUME NEW r \in LocalRequests, Finish(r)
        PROVE  StoredInv'
    <2> DEFINE old == heap[serving[r].record]
               s == serving[r].sid
               both == old.telemetry \/ serving[r].telemetry
               times == NewestOnly(old.times, KeptTimes)
               risk == NewestOnly(Append(old.risk, r), KeptRisk)
               new == [old EXCEPT !.times = times, !.risk = risk, !.telemetry = both]
    <2>1. /\ old \in Record /\ serving[r].pc = "tracked" /\ both \in BOOLEAN
          /\ serving[r].record \in DOMAIN heap
      BY <1>1, <1>3 DEF Finish, StoredInv, Recorded
    <2>2. heap' = [heap EXCEPT ![serving[r].record] = new]
      <3> DEFINE o == serving[r].record
      <3>1. heap' = [heap EXCEPT ![o].times = times, ![o].risk = risk, ![o].telemetry = both]
        BY <1>3 DEF Finish
      <3> HIDE DEF o, both, times, risk
      <3> QED
        BY <2>1, <3>1 DEF o
    <2>0. /\ serving' = [serving EXCEPT ![r].pc = "done"]
          /\ local' = local /\ torn' = torn /\ tracked' = tracked
          /\ finished' = [finished EXCEPT ![s] = Append(@, r)]
      BY <1>3 DEF Finish
    <2>4. /\ s \in LocalSids /\ tracked \in [LocalSids -> Seq(LocalRequests)]
          /\ finished \in [LocalSids -> Seq(LocalRequests)]
      BY <2>1 DEF StoredInv, LocalTyped, RecordTyped
    <2> HIDE DEF old, both
    <2>5. /\ old.times \in Seq(LocalRequests) /\ old.risk \in Seq(LocalRequests)
          /\ finished[s] \in Seq(LocalRequests) /\ tracked[s] \in Seq(LocalRequests)
      BY <2>1, <2>4 DEF Record
    <2>6. Append(old.risk, r) \in Seq(LocalRequests) /\ Append(finished[s], r) \in Seq(LocalRequests)
      BY <2>5
    <2>7. /\ times \in Seq(LocalRequests) /\ risk \in Seq(LocalRequests)
          /\ Len(times) = IF Len(old.times) > KeptTimes THEN KeptTimes ELSE Len(old.times)
          /\ IsEnd(times, old.times)
      BY <2>5, <2>6, NewestFacts, LocalAssumption
    <2>11. old.risk = NewestOnly(finished[s], KeptRisk) =>
             risk = NewestOnly(Append(finished[s], r), KeptRisk)
      BY <2>5, NewestAppended, LocalAssumption
    <2> HIDE DEF times, risk
    <2>3. /\ new \in Record /\ new.times = times
          /\ new.risk = risk /\ new.telemetry = both
      BY <2>1, <2>7 DEF Record
    <2> HIDE DEF new, s
    <2>8. /\ finished' \in [LocalSids -> Seq(LocalRequests)]
          /\ finished'[s] = Append(finished[s], r)
          /\ \A u \in LocalSids \ {s} : finished'[u] = finished[u]
      BY <2>0, <2>4, <2>6
    <2>9. TimesKept(old.times, tracked[s]) => TimesKept(new.times, tracked[s])
      BY <2>3, <2>5, <2>7, EndOfEnd, LocalAssumption DEF TimesKept
    <2>12. Len(times) <= KeptTimes
      BY <2>5, <2>7, LocalAssumption
    <2>10. ASSUME NEW i \in 1..Len(new.times)
           PROVE  \E j \in 1..Len(old.times) :
                    new.times[i] = old.times[j] /\ (i > KeptTimes => j > KeptTimes)
      <3>1. i \in 1..Len(times) /\ Len(times) \in Nat /\ ~(i > KeptTimes)
        BY <2>3, <2>7, <2>12, LocalAssumption
      <3> DEFINE j == Len(old.times) - Len(times) + i
      <3>2. j \in 1..Len(old.times) /\ times[i] = old.times[j]
        BY SMTT(30), <2>5, <2>7, <3>1 DEF IsEnd
      <3> QED
        BY <2>3, <3>1, <3>2
    <2>13. TimesFrom(r, "done", new)
      BY <2>3, <2>10, <2>12 DEF TimesFrom, old
    <2>14. ListsFollow(r, new)
      BY <2>0, <2>3, <2>4, <2>8, <2>9, <2>11 DEF ListsFollow, old, s
    <2> QED
      BY <2>0, <2>1, <2>2, <2>3, <2>13, <2>14, ChangeStored DEF old, both
  <1>4. ASSUME NEW s \in LocalSids, Lose(s)
        PROVE  StoredInv'
    <2>1. /\ heap' = heap /\ serving' = serving /\ torn' = torn \cup {s}
          /\ tracked' = tracked /\ finished' = finished
          /\ local' = [local EXCEPT ![s] = 0]
      BY <1>4 DEF Lose
    <2>2. local'[s] = 0 /\ \A t \in LocalSids \ {s} : local'[t] = local[t]
      BY <2>1 DEF StoredInv, LocalTyped
    <2>3. LocalTyped'
      BY <2>1 DEF StoredInv, LocalTyped
    <2>4. Owned'
      BY <2>1, <2>2 DEF StoredInv, Owned
    <2>8. AllTimesOwned' /\ RecordTyped'
      <3>1. \A o : TimesOwned(o)' <=> TimesOwned(o)
        BY <2>1 DEF TimesOwned
      <3> QED
        BY <2>1, <3>1 DEF StoredInv, AllTimesOwned, RecordTyped
    <2>5. HoldsStored'
      BY <2>1, <2>2 DEF StoredInv, LocalTyped, HoldsStored
    <2>6. Recorded'
      BY <2>1 DEF StoredInv, Recorded
    <2>7. AllListsKept'
      BY <2>1, <2>2 DEF StoredInv, AllListsKept, ListsKept
    <2> QED
      BY <2>3, <2>4, <2>5, <2>6, <2>7, <2>8 DEF StoredInv
  <1>5. CASE UNCHANGED localVars
    <2>1. LocalTyped' /\ Owned' /\ HoldsStored' /\ Recorded'
      BY <1>5 DEF localVars, StoredInv, LocalTyped, Owned, HoldsStored, Recorded
    <2>2. AllTimesOwned' /\ RecordTyped' /\ AllListsKept'
      BY <1>5 DEF localVars, StoredInv, AllTimesOwned, TimesOwned, RecordTyped,
                  AllListsKept, ListsKept
    <2> QED
      BY <2>1, <2>2 DEF StoredInv
  <1> QED
    BY <1>2, <1>3, <1>4, <1>5, LookUpStored, CreateStored DEF LocalNext

LEMMA StoredObjectFromInv == StoredInv => StoredObject
  <1> SUFFICES ASSUME StoredInv, NEW s \in LocalSids
               PROVE  /\ local[s] # 0 =>
                           \A i \in DOMAIN heap[local[s]].times :
                             serving[heap[local[s]].times[i]].sid = s
                      /\ s \notin torn =>
                           /\ tracked[s] # <<>> => local[s] # 0
                           /\ local[s] # 0 =>
                                /\ StoredTimes(s, heap[local[s]].times)
                                /\ heap[local[s]].risk = NewestOnly(finished[s], KeptRisk)
                                /\ \A r \in LocalRequests :
                                     serving[r].sid = s /\ serving[r].pc = "done"
                                       /\ serving[r].telemetry => heap[local[s]].telemetry
    BY DEF StoredObject
  <1> DEFINE times == heap[local[s]].times
  <1>1. ASSUME local[s] # 0
        PROVE  /\ local[s] \in 1..Len(heap) /\ times \in Seq(LocalRequests)
               /\ DOMAIN times = 1..Len(times)
    <2>1. local[s] \in 1..Len(heap) /\ heap[local[s]] \in Record
      BY <1>1 DEF StoredInv, LocalTyped
    <2> QED
      BY <2>1 DEF Record
  <1>2. ASSUME local[s] # 0, NEW i \in DOMAIN times
        PROVE  serving[times[i]].sid = s /\ (i > KeptTimes => serving[times[i]].pc = "tracked")
    <2>1. /\ times[i] \in LocalRequests /\ serving[times[i]].record = local[s]
          /\ i > KeptTimes => serving[times[i]].pc = "tracked"
      BY <1>1, <1>2, CountedHolds
    <2> QED
      BY <1>2, <2>1 DEF StoredInv, Owned
  <1>3. ASSUME s \notin torn PROVE ListsKept(s)
    BY <1>3 DEF StoredInv, AllListsKept
  <1>4. ASSUME s \notin torn, local[s] # 0 PROVE StoredTimes(s, times)
    <2> DEFINE end == NewestOnly(tracked[s], Len(times))
    <2>1. TimesKept(times, tracked[s]) /\ tracked[s] \in Seq(LocalRequests)
      BY <1>3, <1>4 DEF ListsKept, StoredInv, RecordTyped
    <2>2. Len(times) \in Nat /\ Len(times) <= Len(tracked[s]) /\ Len(tracked[s]) \in Nat
      BY <1>1, <1>4, <2>1 DEF TimesKept, IsEnd
    <2>3. end \in Seq(LocalRequests) /\ Len(end) = Len(times) /\ IsEnd(end, tracked[s])
      BY <2>1, <2>2, NewestFacts
    <2> HIDE DEF end, times
    <2>4. times = end
      BY <1>1, <1>4, <2>1, <2>3, EndsEqual DEF TimesKept
    <2>5. IsEnd(tracked[s], tracked[s])
      BY <2>1 DEF IsEnd
    <2>6. times = tracked[s] \/ Len(times) >= KeptTimes
      BY <1>1, <1>4, <2>1, <2>5, EndsEqual DEF TimesKept
    <2> QED
      BY <1>2, <1>4, <2>4, <2>6 DEF StoredTimes, end
  <1>5. ASSUME s \notin torn, NEW r \in LocalRequests, serving[r].sid = s,
               serving[r].pc = "done", serving[r].telemetry
        PROVE  heap[local[s]].telemetry
    BY <1>5 DEF StoredInv, LocalTyped, HoldsStored, Recorded
  <1> QED
    BY <1>2, <1>3, <1>4, <1>5 DEF ListsKept

\* Without a store, what requests recorded, together or one after the other, is
\* in their session's stored record - the newest times and scores that save()
\* leaves of it - and in no other one, unless that record was lost, or two
\* requests found none and both created one.
THEOREM StoredObjectAlways == LocalSpec => []StoredObject
  <1> QED
    BY InitStored, NextStored, StoredObjectFromInv, PTL DEF LocalSpec

---------------------------------------------------------------------------
(* EdgeWorker: the edge denies nothing that the origin would let through.  *)

\* Why the edge challenged a request: the token was not accepted for it or
\* covers no telemetry, and a token that was out stays out.
ChallengedFor ==
  /\ request.path = "required"
  /\ \/ held = NoToken \/ ~CoversTelemetry
     \/ ~request.sameAgent \/ ~BoundTo(request.cookie)
     \/ OutAtEdge(clock \div Second)

BlockedFor ==
  /\ held # NoToken /\ request.sameAgent /\ BoundTo(request.cookie)
  /\ "block" \in {held.verdict, held.score}

HeldOK ==
  held # NoToken =>
    /\ held.sid \in EdgeSids \cup {AnySid} /\ held.iat \in Int
    /\ held.score \in {"allow", "challenge", "block"}
    /\ held.verdict = IF held.pow THEN "allow" ELSE held.score

EdgeInv ==
  /\ clock \in Int /\ HeldOK
  /\ edge # "none" => request # NoRequest
  /\ origin # "none" => edge # "none"
  /\ edge = "challenge" => ChallengedFor
  /\ edge = "block" => BlockedFor
  /\ EdgeAgrees

\* Rounding down to whole seconds keeps the order, and is exact at whole ones.
LEMMA DivFacts ==
  ASSUME NEW x \in Int, NEW n \in Nat \ {0}
  PROVE  /\ x \div n \in Int
         /\ n * (x \div n) <= x /\ x < n * (x \div n) + n
  <1> DEFINE q == x \div n
             m == x % n
  <1>1. x = n * q + m /\ m \in 0..(n - 1) /\ q \in Int
    OBVIOUS
  <1>2. n * q \in Int
    BY <1>1
  <1> HIDE DEF q, m
  <1>3. n * q <= x /\ x < n * q + n
    BY <1>1, <1>2
  <1> QED
    BY <1>1, <1>3 DEF q

LEMMA DivMonotone ==
  ASSUME NEW x \in Int, NEW y \in Int, NEW n \in Nat \ {0}, x <= y
  PROVE  x \div n <= y \div n
  <1> DEFINE p == x \div n
             q == y \div n
  <1>1. p \in Int /\ q \in Int /\ n * p <= x /\ y < n * q + n
    BY DivFacts
  <1> HIDE DEF p, q
  <1>2. ASSUME q + 1 <= p PROVE FALSE
    <2>1. n * (q + 1) <= n * p /\ n * (q + 1) = n * q + n
      BY <1>1, <1>2
    <2>2. n * p \in Int /\ n * q \in Int
      BY <1>1
    <2> HIDE DEF p, q
    <2> DEFINE np == n * p
               nq == n * q
    <2>3. np \in Int /\ nq \in Int /\ nq + n <= np /\ np <= x /\ y < nq + n
      BY <1>1, <2>1, <2>2
    <2> HIDE DEF np, nq
    <2> QED
      BY <2>3
  <1>3. p <= q
    BY <1>1, <1>2
  <1> QED
    BY <1>3 DEF p, q

\* A token the edge takes for expired is expired at the origin, too: that lags
\* behind by less than a second.
LEMMA EdgeOutOriginOut ==
  ASSUME clock \in Int, held.iat \in Int, OutAtEdge(clock \div Second)
  PROVE  OutAtOrigin
  <1> DEFINE seconds == clock \div Second
             end == held.iat + TokenTtl
             whole == Second * end
  <1>1. /\ Second \in Nat \ {0} /\ TokenTtl \in Nat /\ Lag \in Int /\ Lag < Second
    BY EdgeAssumption
  <1>2. seconds \in Int /\ Second * seconds <= clock
    BY <1>1, DivFacts
  <1>3. seconds >= end + 1 /\ end \in Int
    BY <1>1, <1>2 DEF OutAtEdge
  <1> HIDE DEF seconds, end
  <1>4. /\ Second * (end + 1) <= Second * seconds
        /\ Second * (end + 1) = whole + Second /\ whole \in Int
        /\ Second * seconds \in Int /\ end * Second = whole
    BY <1>1, <1>2, <1>3
  <1> DEFINE reached == Second * seconds
  <1>5. /\ whole + Second <= reached /\ reached <= clock
        /\ whole \in Int /\ reached \in Int
    BY <1>2, <1>4
  <1> HIDE DEF whole, reached
  <1>6. clock - Lag > whole
    BY <1>1, <1>5
  <1> QED
    BY <1>4, <1>6 DEF OutAtOrigin, OriginClock, end

\* What is out stays out.
LEMMA OutStaysOut ==
  ASSUME clock \in Int, clock' = clock + 1, held' = held, held.iat \in Int
  PROVE  /\ OutAtEdge(clock \div Second) => OutAtEdge(clock \div Second)'
         /\ OutAtOrigin => OutAtOrigin'
  <1>1. Second \in Nat \ {0} /\ TokenTtl \in Nat /\ Lag \in Int /\ Second \in Int
    BY EdgeAssumption
  <1> DEFINE read == clock - Lag
             readNext == clock' - Lag
  <1>2. /\ clock \in Int /\ clock' \in Int /\ clock <= clock'
        /\ read \in Int /\ readNext \in Int /\ read <= readNext
    BY <1>1
  <1> HIDE DEF read, readNext
  <1> DEFINE s0 == clock \div Second
             s1 == clock' \div Second
             t0 == read \div Second
             t1 == readNext \div Second
             end == (held.iat + TokenTtl) * Second
  <1>3. s0 \in Int /\ s1 \in Int /\ s0 <= s1
    BY <1>1, <1>2, DivFacts, DivMonotone
  <1>4. t0 \in Int /\ t1 \in Int /\ t0 <= t1
    BY <1>1, <1>2, DivFacts, DivMonotone
  <1>5. end \in Int
    BY <1>1
  <1>6. OriginClock = read /\ OriginClock' = readNext
    BY DEF OriginClock, read, readNext
  <1>7. OutAtOrigin <=> (t0 - held.iat > TokenTtl \/ read > end)
    BY <1>6, Zenon DEF OutAtOrigin
  <1>8. OutAtOrigin' <=> (t1 - held.iat > TokenTtl \/ readNext > end)
    <2>1. OutAtOrigin' <=> \/ OriginClock' \div Second - held'.iat > TokenTtl
                           \/ OriginClock' > (held'.iat + TokenTtl) * Second
      BY Zenon DEF OutAtOrigin
    <2>2. held'.iat = held.iat
      OBVIOUS
    <2> QED
      BY <1>6, <2>1, <2>2, Zenon
  <1>9. OutAtEdge(s0) <=> (s0 - held.iat > TokenTtl \/ s0 > held.iat + TokenTtl)
    BY DEF OutAtEdge
  <1>10. OutAtEdge(clock \div Second)'
           <=> (s1 - held.iat > TokenTtl \/ s1 > held.iat + TokenTtl)
    <2>1. OutAtEdge(clock \div Second)'
            <=> \/ clock' \div Second - held'.iat > TokenTtl
                \/ clock' \div Second > held'.iat + TokenTtl
      BY Zenon DEF OutAtEdge
    <2>2. held'.iat = held.iat
      OBVIOUS
    <2> QED
      BY <2>1, <2>2, Zenon
  <1> HIDE DEF s0, s1, t0, t1, end
  <1>11. OutAtOrigin => OutAtOrigin'
    BY <1>1, <1>2, <1>4, <1>5, <1>7, <1>8
  <1>12. OutAtEdge(s0) => OutAtEdge(clock \div Second)'
    BY <1>1, <1>3, <1>9, <1>10
  <1> QED
    BY <1>11, <1>12, Zenon DEF s0

LEMMA InitAgrees == EdgeInit => EdgeInv
  BY EdgeAssumption DEF EdgeInit, EdgeInv, HeldOK, NoToken, NoRequest, EdgeAgrees

LEMMA IssueAgrees ==
  ASSUME EdgeInv, NEW new \in Tokens, Issue(new)
  PROVE  EdgeInv'
  <1>1. edge = "none" /\ edge' = edge /\ clock' = clock /\ held' = new
    BY DEF EdgeInv, Issue
  <1>2. HeldOK'
    BY EdgeAssumption, <1>1 DEF Issue, Tokens, HeldOK, OriginClock
  <1>3. origin' = "none"
    BY <1>1 DEF EdgeInv, Issue
  <1> QED
    BY <1>1, <1>2, <1>3 DEF EdgeInv, EdgeAgrees

LEMMA ForgetAgrees ==
  ASSUME EdgeInv, NEW sid \in EdgeSids, Forget(sid)
  PROVE  EdgeInv'
  <1>1. /\ alive' = alive \ {sid}
        /\ clock' = clock /\ held' = held /\ request' = request
        /\ edge' = edge /\ origin' = origin
    BY DEF Forget
  <1>2. OutAtOrigin' <=> OutAtOrigin
    BY <1>1 DEF OutAtOrigin, OriginClock
  <1>3. (ChallengedFor' <=> ChallengedFor) /\ (BlockedFor' <=> BlockedFor)
    BY <1>1 DEF ChallengedFor, BlockedFor, OutAtEdge, BoundTo, CoversTelemetry
  <1>4. EdgeAgrees'
    BY <1>1, <1>2 DEF EdgeInv, EdgeAgrees
  <1> QED
    BY <1>1, <1>3, <1>4 DEF EdgeInv, HeldOK

LEMMA TickAgrees ==
  ASSUME EdgeInv, EdgeTick
  PROVE  EdgeInv'
  <1>1. /\ clock \in Int /\ clock' = clock + 1 /\ clock' \in Int
        /\ alive' = alive /\ held' = held /\ request' = request
        /\ edge' = edge /\ origin' = origin
    BY DEF EdgeInv, EdgeTick
  <1>2. held.iat \in Int
    BY DEF EdgeInv, HeldOK, NoToken
  <1>3. /\ OutAtEdge(clock \div Second) => OutAtEdge(clock \div Second)'
        /\ OutAtOrigin => OutAtOrigin'
    BY <1>1, <1>2, OutStaysOut
  <1>4. ChallengedFor => ChallengedFor'
    BY <1>1, <1>3, Zenon DEF ChallengedFor, BoundTo, CoversTelemetry
  <1>5. BlockedFor' <=> BlockedFor
    BY <1>1 DEF BlockedFor, BoundTo
  <1>6. EdgeAgrees'
    BY <1>1, <1>3 DEF EdgeInv, EdgeAgrees
  <1>7. HeldOK'
    BY <1>1 DEF EdgeInv, HeldOK
  <1> QED
    BY <1>1, <1>4, <1>5, <1>6, <1>7 DEF EdgeInv

LEMMA DecideAgrees ==
  ASSUME EdgeInv, NEW rq \in ForwardedRequests, NEW limited \in BOOLEAN,
         Decide(rq, limited)
  PROVE  EdgeInv'
  <1>1. /\ request = NoRequest /\ request' = rq
        /\ edge = "none" /\ edge' = EdgeDecision(rq, limited)
        /\ clock' = clock /\ alive' = alive /\ held' = held /\ origin' = origin
    BY DEF EdgeInv, Decide
  <1>2. rq # NoRequest
    BY DEF ForwardedRequests, NoRequest
  <1>3. (OutAtEdge(clock \div Second)' <=> OutAtEdge(clock \div Second))
    BY <1>1 DEF OutAtEdge
  <1>4. edge' = "challenge" =>
          rq.path = "required" /\ ~(AcceptedAtEdge(rq) /\ CoversTelemetry)
    BY <1>1 DEF EdgeDecision
  <1>5. edge' = "block" =>
          AcceptedAtEdge(rq) /\ "block" \in {held.verdict, held.score}
    BY <1>1 DEF EdgeDecision
  <1>6. edge' = "challenge" => ChallengedFor'
    BY <1>1, <1>3, <1>4
    DEF ChallengedFor, AcceptedAtEdge, VerifyAegisToken, BoundTo, CoversTelemetry
  <1>7. edge' = "block" => BlockedFor'
    BY <1>1, <1>5 DEF BlockedFor, AcceptedAtEdge, VerifyAegisToken, BoundTo
  <1>8. origin = "none"
    BY <1>1 DEF EdgeInv
  <1> QED
    BY <1>1, <1>2, <1>6, <1>7, <1>8 DEF EdgeInv, HeldOK, EdgeAgrees

LEMMA Ranks == Rank("allow") = 1 /\ Rank("challenge") = 2 /\ Rank("block") = 3
  BY DEF Rank, Verdicts

\* A token that the origin accepts is bound to the session of its cookie, which
\* is known there.
LEMMA AcceptedIsBound ==
  ASSUME EdgeInv, AcceptedAtOrigin
  PROVE  BoundTo(request.cookie)
  <1>1. held # NoToken /\ BoundTo(SessionId)
    BY DEF AcceptedAtOrigin
  <1>2. held.sid \in EdgeSids \cup {AnySid}
    BY <1>1 DEF EdgeInv, HeldOK
  <1> QED
    BY <1>1, <1>2, EdgeAssumption DEF BoundTo, SessionId

LEMMA EvaluateAgrees ==
  ASSUME EdgeInv, NEW rest \in {"allow", "challenge", "block"}, Evaluate(rest)
  PROVE  EdgeInv'
  <1>1. /\ clock' = clock /\ alive' = alive /\ held' = held
        /\ request' = request /\ edge' = edge /\ edge # "none"
    BY DEF Evaluate
  <1>2. /\ OutAtOrigin' <=> OutAtOrigin
        /\ ChallengedFor' <=> ChallengedFor
        /\ BlockedFor' <=> BlockedFor
    BY <1>1 DEF OutAtOrigin, OriginClock, ChallengedFor, BlockedFor, OutAtEdge,
                BoundTo, CoversTelemetry
  <1>3. ASSUME edge = "challenge" PROVE origin' # "allow"
    <2>1. ChallengedFor /\ clock \in Int
      BY <1>3 DEF EdgeInv
    <2>2. ~(AcceptedAtOrigin /\ CoversTelemetry)
      <3> SUFFICES ASSUME AcceptedAtOrigin, CoversTelemetry PROVE FALSE
        OBVIOUS
      <3>1. held # NoToken /\ ~OutAtOrigin /\ request.sameAgent /\ BoundTo(request.cookie)
        BY AcceptedIsBound DEF AcceptedAtOrigin
      <3>2. OutAtEdge(clock \div Second)
        BY <2>1, <3>1 DEF ChallengedFor
      <3>3. held.iat \in Int
        BY <3>1 DEF EdgeInv, HeldOK
      <3> QED
        BY <2>1, <3>1, <3>2, <3>3, EdgeOutOriginOut
    <2>3. request.path = "required"
      BY <2>1 DEF ChallengedFor
    <2> QED
      BY <2>2, <2>3, Zenon DEF Evaluate
  <1>4. ASSUME edge = "block", ~OutAtOrigin, held.sid \in alive \cup {AnySid}
        PROVE  origin' = "block"
    <2>1. /\ held # NoToken /\ request.sameAgent /\ BoundTo(request.cookie)
          /\ "block" \in {held.verdict, held.score}
      BY <1>4 DEF EdgeInv, BlockedFor
    <2>2. held.score = "block"
      BY <2>1 DEF EdgeInv, HeldOK
    <2>3. AcceptedAtOrigin
      BY <1>4, <2>1 DEF AcceptedAtOrigin, BoundTo, SessionId
    <2>4. Level(rest) = "block"
      BY <2>2, <2>3, Ranks DEF Level
    <2> QED
      BY <2>4 DEF Evaluate
  <1>5. EdgeAgrees'
    BY <1>1, <1>2, <1>3, <1>4 DEF EdgeAgrees
  <1> QED
    BY <1>1, <1>2, <1>5 DEF EdgeInv, HeldOK

\* The edge challenges no request that the origin would let through, and blocks
\* none, but for a token that ran out or whose session the origin forgot,
\* whatever the sessions, the tokens' lifetime and the difference of the clocks
\* as long as the origin's is less than a second behind.
THEOREM EdgeAgreesAlways == EdgeSpec => []EdgeAgrees
  <1>1. ASSUME EdgeInv, [EdgeNext]_edgeVars PROVE EdgeInv'
    <2>1. CASE UNCHANGED edgeVars
      BY <1>1, <2>1 DEF edgeVars, EdgeInv, HeldOK, ChallengedFor, BlockedFor, BoundTo,
         CoversTelemetry, OutAtEdge, EdgeAgrees, OutAtOrigin, OriginClock
    <2> QED
      BY <1>1, <2>1, IssueAgrees, ForgetAgrees, TickAgrees, DecideAgrees,
         EvaluateAgrees DEF EdgeNext
  <1>2. EdgeInv => EdgeAgrees
    BY DEF EdgeInv
  <1> QED
    BY <1>1, <1>2, InitAgrees, PTL DEF EdgeSpec

---------------------------------------------------------------------------
(* PythonRequests: every answered request is stored, and a token-required  *)
(* path is open to sessions with telemetry only.                           *)

Badges == [sid : Nat, pow : BOOLEAN, tel : BOOLEAN]
Sessions == [times : Seq(Nat), tel : BOOLEAN]
Visit ==
  [kind : {"page", "required", "telemetry", "challenge"},
   pc : {"given", "allowed", "denied", "done"},
   sid : Nat, isNew : BOOLEAN, badge : Badges, record : Sessions,
   verdict : {"allow", "challenge", "block", "none"}, failed : BOOLEAN]

\* A list of requests, the oldest first, none later than the n-th.
InTurn(times, n) ==
  /\ Len(times) <= MaxListed
  /\ \A i \in 1..Len(times) : times[i] <= n
  /\ \A i, j \in 1..Len(times) : i < j => times[i] < times[j]

ListsInTurn ==
  /\ \A sid \in DOMAIN stored : InTurn(stored[sid].times, Len(visits))
  /\ \A r \in 1..Len(visits) : InTurn(visits[r].record.times, Len(visits))

\* Sessions are drawn before they are stored or used.
VisitsShape ==
  /\ drawn \in Nat /\ badge \in Badges /\ visits \in Seq(Visit)
  /\ DOMAIN stored \subseteq 1..drawn
  /\ \A sid \in DOMAIN stored : stored[sid] \in Sessions
  /\ \A r \in 1..Len(visits) :
       /\ visits[r].sid \in 1..drawn
       /\ visits[r].kind = "challenge" => visits[r].pc \in {"given", "done"}

\* What stands for telemetry does so for a session that sent it: a token, a
\* stored session, and what a request holds of them.
Earned(b, S) == b # NoBadge /\ (b.pow => b.tel) => b.sid \in S
VisitEarned(q, S) ==
  /\ Earned(q.badge, S)
  /\ q.record.tel => q.sid \in S
  /\ q.kind = "required" /\ q.verdict = "allow" => q.sid \in S \/ (q.failed /\ failOpen)

EarnedInv ==
  /\ Earned(badge, scoredIn)
  /\ \A sid \in DOMAIN stored : stored[sid].tel => sid \in scoredIn
  /\ \A r \in 1..Len(visits) : VisitEarned(visits[r], scoredIn)

(* A request that will write its copy of the session holds all that is     *)
(* stored, with itself added, and it is the only one.                      *)
Writing(q, sid) == q.kind # "challenge" /\ q.pc # "done" /\ q.sid = sid
InStore(r, sid) == sid \in DOMAIN stored /\ Listed(r, stored[sid].times)
CopyWhole(r) ==
  LET q == visits[r]
  IN  /\ Listed(r, q.record.times)
      /\ \A p \in Nat : InStore(p, q.sid) => Listed(p, q.record.times)
      /\ \A p \in 1..Len(visits) : Writing(visits[p], q.sid) => p = r
VisitKept(r) ==
  LET q == visits[r]
  IN  q.kind # "challenge" /\ q.sid \notin upset =>
        /\ ~q.failed
        /\ q.pc \in {"denied", "done"} => InStore(r, q.sid)
        /\ q.pc # "done" => CopyWhole(r)

KeptInv == \A r \in 1..Len(visits) : VisitKept(r)

VisitsInv == VisitsShape /\ ListsInTurn /\ EarnedInv /\ KeptInv

\* A request that is added to a list is in it, as those are that were there.
LEMMA EmptyList == InTurn(<<>>, 0) /\ \A p \in Nat : ~Listed(p, <<>>)
  BY VisitsAssumption DEF InTurn, Listed

LEMMA AddedToList ==
  ASSUME NEW times \in Seq(Nat), NEW n \in Nat, InTurn(times, n)
  PROVE  LET more == NewestOnly(Append(times, n + 1), MaxListed)
         IN  /\ more \in Seq(Nat) /\ InTurn(more, n + 1) /\ Listed(n + 1, more)
             /\ \A p \in Nat : Listed(p, times) => Listed(p, more)
  <1>a. SUFFICES ASSUME NEW all, all = Append(times, n + 1),
                        NEW more, more = NewestOnly(all, MaxListed)
               PROVE  /\ more \in Seq(Nat) /\ InTurn(more, n + 1) /\ Listed(n + 1, more)
                      /\ \A p \in Nat : Listed(p, times) => Listed(p, more)
    OBVIOUS
  <1>1. /\ all \in Seq(Nat) /\ Len(all) = Len(times) + 1 /\ Len(times) \in Nat
        /\ \A i \in 1..Len(times) : all[i] = times[i] /\ times[i] \in Nat
        /\ all[Len(times) + 1] = n + 1 /\ DOMAIN times = 1..Len(times)
    BY <1>a
  <1>0. Len(times) \in Nat /\ Len(all) = Len(times) + 1 /\ DOMAIN times = 1..Len(times)
    BY <1>1
  <1>2. MaxListed \in Nat /\ MaxListed \in Nat \ {0} /\ Len(times) <= MaxListed
    BY VisitsAssumption DEF InTurn
  <1>3. \A i \in 1..Len(times) : times[i] <= n
    BY DEF InTurn
  <1>4. CASE Len(times) < MaxListed
    <2>1. more = all
      BY <1>a, <1>1, <1>2, <1>4 DEF NewestOnly
    <2>2. InTurn(all, n + 1)
      <3>1. \A i \in 1..Len(all) : all[i] <= n + 1
        <4> TAKE i \in 1..Len(all)
        <4>1. i \in 1..Len(times) \/ i = Len(times) + 1
          BY <1>0
        <4>2. CASE i \in 1..Len(times)
          BY <1>1, <1>3, <4>2
        <4> QED
          BY <1>1, <4>1, <4>2
      <3>2. \A i, j \in 1..Len(all) : i < j => all[i] < all[j]
        <4> TAKE i, j \in 1..Len(all)
        <4> SUFFICES ASSUME i < j PROVE all[i] < all[j]
          OBVIOUS
        <4>1. CASE j \in 1..Len(times) /\ i \in 1..Len(times)
          BY <1>1, <4>1 DEF InTurn
        <4>2. CASE j = Len(times) + 1 /\ i \in 1..Len(times)
          BY <1>1, <1>3, <4>2
        <4>3. i \in 1..Len(times) /\ (j \in 1..Len(times) \/ j = Len(times) + 1)
          BY SMTT(30), <1>0
        <4> QED
          BY <4>1, <4>2, <4>3
      <3> QED
        BY <1>1, <1>2, <1>4, <3>1, <3>2 DEF InTurn
    <2>3. DOMAIN all = 1..Len(times) + 1
      BY <1>1
    <2>4. Listed(n + 1, all)
      <3>1. Len(times) + 1 \in DOMAIN all /\ all[Len(times) + 1] = n + 1
        BY <1>0, <1>1, <2>3
      <3>2. \E i \in DOMAIN all : all[i] = n + 1
        BY ONLY <3>1, Zenon
      <3> QED
        BY ONLY <3>2, Zenon DEF Listed
    <2>5. ASSUME NEW p \in Nat, Listed(p, times) PROVE Listed(p, all)
      <3>1. PICK i \in 1..Len(times) : times[i] = p
        <4>0. \A x, y \in Nat : x < y => x # y
          OBVIOUS
        <4>1. Len(times) # MaxListed /\ DOMAIN times = 1..Len(times)
          BY ONLY <1>0, <1>2, <1>4, <4>0
        <4>2. \E i \in DOMAIN times : times[i] = p
          BY <2>5, <4>1 DEF Listed
        <4> QED
          BY <4>1, <4>2
      <3>2. i \in DOMAIN all /\ all[i] = p
        BY <1>1, <2>3, <3>1
      <3> QED
        BY <3>2 DEF Listed
    <2> QED
      BY <1>1, <2>1, <2>2, <2>4, <2>5
  <1>5. CASE Len(times) = MaxListed
    <2>1. /\ more \in Seq(Nat) /\ Len(more) = MaxListed /\ IsEnd(more, all)
      <3>1. /\ more \in Seq(Nat) /\ IsEnd(more, all)
            /\ Len(more) = IF Len(all) > MaxListed THEN MaxListed ELSE Len(all)
        BY <1>a, <1>1, <1>2, NewestFacts
      <3>2. Len(all) > MaxListed
        BY <1>1, <1>2, <1>5
      <3> QED
        BY <3>1, <3>2
    <2>2. DOMAIN more = 1..MaxListed /\ \A i \in 1..MaxListed : more[i] = all[i + 1]
      <3>1. Len(all) - Len(more) = 1
        BY <1>1, <1>2, <1>5, <2>1
      <3>2. \A i \in 1..Len(more) : more[i] = all[1 + i]
        BY <2>1, <3>1 DEF IsEnd
      <3>3. DOMAIN more = 1..MaxListed /\ \A i \in 1..MaxListed : 1 + i = i + 1
        BY <1>2, <2>1
      <3> QED
        BY <2>1, <3>2, <3>3
    <2>3. /\ \A i \in 1..MaxListed : i < MaxListed => more[i] = times[i + 1]
          /\ more[MaxListed] = n + 1
      <3>1. \A i \in 1..MaxListed : i < MaxListed => i + 1 \in 1..Len(times)
        BY <1>2, <1>5
      <3>2. MaxListed \in 1..MaxListed
        BY <1>2
      <3> QED
        BY <1>1, <1>2, <1>5, <2>2, <3>1, <3>2
    <2>4. InTurn(more, n + 1)
      <3>1. \A i \in 1..MaxListed : more[i] <= n + 1
        <4> TAKE i \in 1..MaxListed
        <4>1. CASE i < MaxListed
          BY <1>2, <1>3, <1>5, <2>3, <4>1
        <4>2. CASE i = MaxListed
          BY <2>3, <4>2
        <4> QED
          BY <1>2, <4>1, <4>2
      <3>2. \A i, j \in 1..MaxListed : i < j => more[i] < more[j]
        <4> TAKE i, j \in 1..MaxListed
        <4> SUFFICES ASSUME i < j PROVE more[i] < more[j]
          OBVIOUS
        <4>1. i < MaxListed /\ more[i] = times[i + 1] /\ i + 1 \in 1..Len(times)
          BY <1>2, <1>5, <2>3
        <4>2. CASE j < MaxListed
          <5>1. more[j] = times[j + 1] /\ j + 1 \in 1..Len(times) /\ i + 1 < j + 1
            BY <1>2, <1>5, <2>3, <4>2
          <5> QED
            BY <4>1, <5>1 DEF InTurn
        <4>3. CASE j = MaxListed
          BY <1>1, <1>3, <2>3, <4>1, <4>3
        <4> QED
          BY <1>2, <4>2, <4>3
      <3> QED
        BY <1>2, <2>1, <3>1, <3>2 DEF InTurn
    <2>5. Listed(n + 1, more)
      <3>1. MaxListed \in DOMAIN more
        BY <1>2, <2>2
      <3> QED
        BY <2>3, <3>1 DEF Listed
    <2>6. ASSUME NEW p \in Nat, Listed(p, times) PROVE Listed(p, more)
      <3>1. 1 \in 1..Len(times) /\ times[1] \in Nat
        BY <1>1, <1>2, <1>5
      <3>2. CASE p <= times[1]
        <4>1. \A i \in 1..MaxListed : more[i] > p
          <5> TAKE i \in 1..MaxListed
          <5>1. CASE i < MaxListed
            <6>1. /\ more[i] = times[i + 1] /\ i + 1 \in 1..Len(times) /\ 1 < i + 1
                  /\ times[i + 1] \in Nat
              BY <1>1, <1>2, <1>5, <2>3, <5>1
            <6>2. times[1] < times[i + 1]
              BY <3>1, <6>1 DEF InTurn
            <6> QED
              BY <3>1, <3>2, <6>1, <6>2
          <5>2. CASE i = MaxListed
            BY <1>3, <2>3, <3>1, <3>2, <5>2
          <5> QED
            BY <1>2, <5>1, <5>2
        <4> QED
          BY <2>1, <2>2, <4>1 DEF Listed
      <3>3. CASE p > times[1]
        <4>1. PICK i \in 1..Len(times) : times[i] = p
          <5>1. ~(\A i \in DOMAIN times : times[i] > p)
            BY <1>1, <3>1, <3>3
          <5> QED
            BY <1>1, <2>6, <5>1 DEF Listed
        <4>2. i # 1
          BY <3>1, <3>3, <4>1
        <4>3. i - 1 \in 1..MaxListed /\ i - 1 < MaxListed /\ (i - 1) + 1 = i
          BY <1>2, <1>5, <4>1, <4>2
        <4>4. more[i - 1] = p
          BY <2>3, <4>1, <4>3
        <4> QED
          BY <2>2, <4>3, <4>4 DEF Listed
      <3> QED
        BY <3>1, <3>2, <3>3
    <2> QED
      BY <2>1, <2>4, <2>5, <2>6
  <1>6. Len(times) < MaxListed \/ Len(times) = MaxListed
    <2>1. \A x, y \in Nat : x <= y => x < y \/ x = y
      OBVIOUS
    <2> QED
      BY ONLY <1>0, <1>2, <2>1
  <1> QED
    BY <1>4, <1>5, <1>6

LEMMA InitVisits == VisitsInit => VisitsInv
  <1> SUFFICES ASSUME VisitsInit PROVE VisitsInv
    OBVIOUS
  <1>1. visits = <<>> /\ Len(visits) = 0 /\ DOMAIN stored = {} /\ drawn = 0
        /\ badge = NoBadge
    BY DEF VisitsInit, NoEntries
  <1>2. VisitsShape /\ ListsInTurn
    BY <1>1 DEF VisitsShape, ListsInTurn, NoBadge, Badges
  <1>3. EarnedInv
    BY <1>1 DEF EarnedInv, Earned
  <1>4. KeptInv
    BY <1>1 DEF KeptInv
  <1> QED
    BY <1>2, <1>3, <1>4 DEF VisitsInv

(* One request moves: what changes in it, and what is stored.              *)
OneMoved(r, q) ==
  /\ q \in Visit /\ q.sid = visits[r].sid /\ q.kind = visits[r].kind
  /\ visits[r].pc # "done" /\ (q.kind = "challenge" => q.pc = "done")
  /\ q.failed => visits[r].failed \/ q.sid \in upset'
  /\ q.record \in {visits[r].record, NewSession}
  /\ visits' = [visits EXCEPT ![r] = q]

\* What is written is the request's copy, perhaps with telemetry noted.
Written(r, record, works) ==
  IF works
  THEN /\ record \in Sessions /\ record.times = visits[r].record.times
       /\ stored' = Put(stored, visits[r].sid, record) /\ upset' = upset
  ELSE stored' = stored /\ upset' = upset \cup {visits[r].sid}

LEMMA MovedShape ==
  ASSUME VisitsShape, NEW r \in 1..Len(visits), NEW q, OneMoved(r, q),
         drawn' = drawn, badge' \in Badges,
         \/ stored' = stored
         \/ \E record \in Sessions : stored' = Put(stored, visits[r].sid, record)
  PROVE  VisitsShape' /\ Len(visits') = Len(visits) /\ visits'[r] = q
         /\ \A p \in 1..Len(visits) : p # r => visits'[p] = visits[p]
  <1>1. /\ visits' \in Seq(Visit) /\ Len(visits') = Len(visits) /\ visits'[r] = q
        /\ \A p \in 1..Len(visits) : p # r => visits'[p] = visits[p]
    BY DEF VisitsShape, OneMoved
  <1>2. \A p \in 1..Len(visits') :
          /\ visits'[p].sid \in 1..drawn'
          /\ visits'[p].kind = "challenge" => visits'[p].pc \in {"given", "done"}
    BY <1>1 DEF VisitsShape, OneMoved
  <1>3. DOMAIN stored' \subseteq 1..drawn' /\ \A sid \in DOMAIN stored' : stored'[sid] \in Sessions
    <2>1. CASE stored' = stored
      BY <2>1 DEF VisitsShape
    <2>2. CASE \E record \in Sessions : stored' = Put(stored, visits[r].sid, record)
      BY <2>2 DEF VisitsShape, Put
    <2> QED
      BY <2>1, <2>2
  <1> QED
    BY <1>1, <1>2, <1>3 DEF VisitsShape

\* The request wrote its copy, or failed to: it and the others are still kept.
LEMMA WrittenKept ==
  ASSUME VisitsShape, KeptInv, NEW r \in 1..Len(visits), NEW q, OneMoved(r, q),
         visits[r].kind # "challenge",
         NEW record, NEW works \in BOOLEAN, Written(r, record, works),
         q.pc # "done" => q.record = visits[r].record
  PROVE  KeptInv'
  <1> DEFINE s == visits[r].sid
  <1>1. /\ Len(visits') = Len(visits) /\ visits'[r] = q
        /\ \A p \in 1..Len(visits) : p # r => visits'[p] = visits[p]
    BY DEF VisitsShape, OneMoved
  <1>2. q.sid = s /\ q.kind = visits[r].kind /\ visits[r].pc # "done"
    BY DEF OneMoved
  <1>0. q.failed => visits[r].failed \/ q.sid \in upset'
    BY DEF OneMoved
  <1> HIDE DEF OneMoved
  <1>3. CASE ~works
    <2>1. stored' = stored /\ upset' = upset \cup {s}
      BY <1>3 DEF Written
    <2>2. ASSUME NEW p \in 1..Len(visits), visits[p].sid # s
          PROVE  VisitKept(p)'
      <3>1. visits'[p] = visits[p] /\ VisitKept(p)
        BY <1>1, <2>2 DEF KeptInv
      <3>2. \A j \in 1..Len(visits) :
              Writing(visits'[j], visits[p].sid) <=> Writing(visits[j], visits[p].sid)
        BY <1>1, <1>2, <2>2 DEF Writing
      <3> QED
        BY <1>1, <2>1, <3>1, <3>2 DEF VisitKept, CopyWhole, InStore
    <2>3. ASSUME NEW p \in 1..Len(visits), visits[p].sid = s
          PROVE  VisitKept(p)'
      <3>1. visits'[p].sid = s /\ s \in upset'
        BY <1>1, <1>2, <2>1, <2>3
      <3> QED
        BY <3>1 DEF VisitKept
    <2> QED
      BY <1>1, <2>2, <2>3 DEF KeptInv
  <1>4. CASE works
    <2>1. /\ DOMAIN stored' = DOMAIN stored \cup {s} /\ stored'[s] = record
          /\ \A t \in DOMAIN stored : t # s => stored'[t] = stored[t]
          /\ upset' = upset /\ record.times = visits[r].record.times
      BY <1>4 DEF Written, Put
    <2>2. ASSUME NEW p \in 1..Len(visits), visits[p].sid # s
          PROVE  VisitKept(p)'
      <3>1. visits'[p] = visits[p] /\ VisitKept(p)
        BY <1>1, <2>2 DEF KeptInv
      <3>2. \A j \in 1..Len(visits) :
              Writing(visits'[j], visits[p].sid) <=> Writing(visits[j], visits[p].sid)
        BY <1>1, <1>2, <2>2 DEF Writing
      <3> QED
        BY <1>1, <2>1, <2>2, <3>1, <3>2 DEF VisitKept, CopyWhole, InStore
    <2>3. ASSUME NEW p \in 1..Len(visits), visits[p].sid = s,
                 visits[p].kind # "challenge", s \notin upset
          PROVE  VisitKept(p)'
      <3>1. CopyWhole(r)
        BY <1>2, <2>3 DEF KeptInv, VisitKept
      <3>0. p \in Nat
        BY DEF VisitsShape
      <3>2. Listed(p, record.times)
        <4>1. CASE p = r
          BY <2>1, <3>1, <4>1 DEF CopyWhole
        <4>2. CASE p # r
          <5>1. ~Writing(visits[p], s)
            BY <3>1, <4>2 DEF CopyWhole
          <5>2. InStore(p, s)
            BY <2>3, <5>1 DEF Writing, KeptInv, VisitKept
          <5> QED
            BY <2>1, <3>0, <3>1, <5>2 DEF CopyWhole
        <4> QED
          BY <4>1, <4>2
      <3>3. s \in DOMAIN stored' /\ Listed(p, stored'[s].times)
        BY <2>1, <3>2
      <3>4. visits'[p].pc # "done" => p = r /\ q.pc # "done"
        BY <1>1, <2>3, <3>1 DEF CopyWhole, Writing
      <3>5. visits'[p].pc # "done" => CopyWhole(p)'
        <4> SUFFICES ASSUME visits'[p].pc # "done" PROVE CopyWhole(p)'
          OBVIOUS
        <4>1. visits'[r] = q /\ q.record.times = record.times /\ q.sid = s
          BY <1>1, <1>2, <2>1, <3>4
        <4>2. \A j \in 1..Len(visits) : Writing(visits'[j], s) => j = r
          BY <1>1, <3>1 DEF CopyWhole, Writing
        <4>3. \A j \in Nat : InStore(j, s)' => Listed(j, visits'[r].record.times)
          BY <2>1, <4>1 DEF InStore, Listed
        <4> QED
          BY <1>1, <2>1, <3>2, <3>4, <4>1, <4>2, <4>3 DEF CopyWhole
      <3>6. visits'[p].sid = s
        BY <1>1, <1>2, <2>3
      <3>7. ~visits'[p].failed
        <4>1. ~visits[p].failed /\ ~visits[r].failed
          BY <1>2, <2>3 DEF KeptInv, VisitKept
        <4> QED
          BY <1>0, <1>1, <1>2, <2>1, <2>3, <4>1
      <3> QED
        BY <3>3, <3>5, <3>6, <3>7 DEF VisitKept, InStore
    <2>4. ASSUME NEW p \in 1..Len(visits), visits[p].sid = s,
                 visits[p].kind = "challenge" \/ s \in upset
          PROVE  VisitKept(p)'
      <3>1. /\ visits'[p].sid = s /\ upset' = upset
            /\ visits'[p].kind = visits[p].kind
        BY <1>1, <1>2, <2>1, <2>4
      <3> QED
        BY <2>4, <3>1 DEF VisitKept
    <2> QED
      BY <1>1, <2>2, <2>3, <2>4 DEF KeptInv
  <1> QED
    BY <1>3, <1>4

\* The request moved without writing: it may be over if nobody looks for it in
\* the store (upset, a challenge) or it was there before.
LEMMA UnwrittenKept ==
  ASSUME VisitsShape, KeptInv, NEW r \in 1..Len(visits), NEW q, OneMoved(r, q),
         stored' = stored, upset \subseteq upset',
         \/ visits[r].kind = "challenge"
         \/ visits[r].sid \in upset'
         \/ visits[r].pc = "denied" /\ q.pc = "done"
         \/ q.pc = "allowed" /\ q.record = visits[r].record
  PROVE  KeptInv'
  <1> DEFINE s == visits[r].sid
  <1>1. /\ Len(visits') = Len(visits) /\ visits'[r] = q
        /\ \A p \in 1..Len(visits) : p # r => visits'[p] = visits[p]
    BY DEF VisitsShape, OneMoved
  <1>2. q.sid = s /\ q.kind = visits[r].kind /\ visits[r].pc # "done"
    BY DEF OneMoved
  <1>0. q.failed => visits[r].failed \/ q.sid \in upset'
    BY DEF OneMoved
  <1>3. \A j \in 1..Len(visits), t \in Nat :
          Writing(visits'[j], t) => Writing(visits[j], t)
    BY <1>1, <1>2 DEF Writing
  <1>4. ASSUME NEW p \in 1..Len(visits), p # r
        PROVE  VisitKept(p)'
    <2>1. visits'[p] = visits[p] /\ VisitKept(p) /\ visits[p].sid \in Nat
      BY <1>1, <1>4 DEF KeptInv, VisitsShape
    <2> QED
      BY <1>1, <1>3, <2>1 DEF VisitKept, CopyWhole, InStore
  <1>5. VisitKept(r)'
    <2>1. visits[r].sid \in Nat /\ VisitKept(r)
      BY DEF KeptInv, VisitsShape
    <2>2. CASE q.kind = "challenge" \/ s \in upset'
      BY <1>1, <1>2, <2>2 DEF VisitKept
    <2>3. CASE q.kind # "challenge" /\ s \notin upset' /\ visits[r].pc = "denied"
               /\ q.pc = "done"
      <3>1. InStore(r, s)
        BY <1>2, <2>1, <2>3 DEF VisitKept
      <3> QED
        BY <1>0, <1>1, <1>2, <2>1, <2>3, <3>1 DEF VisitKept, InStore
    <2>4. CASE q.kind # "challenge" /\ s \notin upset' /\ q.pc = "allowed"
               /\ q.record = visits[r].record
      <3>1. CopyWhole(r)
        BY <1>2, <2>1, <2>4 DEF VisitKept
      <3>2. CopyWhole(r)'
        <4>1. visits'[r].sid = s /\ visits'[r].record = visits[r].record /\ Len(visits') = Len(visits)
          BY <1>1, <1>2, <2>4
        <4>2. \A p, t \in Nat : InStore(p, t)' => InStore(p, t)
          BY DEF InStore
        <4>3. \A p \in 1..Len(visits) : Writing(visits'[p], s) => Writing(visits[p], s)
          BY <1>3, <2>1
        <4>4. (\A p \in Nat : InStore(p, visits[r].sid) => Listed(p, visits[r].record.times))'
          BY <2>1, <3>1, <4>1, <4>2 DEF CopyWhole
        <4> QED
          BY <3>1, <4>1, <4>3, <4>4 DEF CopyWhole
      <3> QED
        BY <1>0, <1>1, <1>2, <2>1, <2>4, <3>2 DEF VisitKept
    <2> QED
      BY <1>2, <2>2, <2>3, <2>4
  <1> QED
    BY <1>1, <1>4, <1>5 DEF KeptInv
\* A request arrives.
LEMMA BeginVisits ==
  ASSUME VisitsInv, NEW kind \in {"page", "required", "telemetry", "challenge"},
         NEW works \in BOOLEAN, Begin(kind, works)
  PROVE  VisitsInv'
  <1> SUFFICES ASSUME NEW r, r = Len(visits) + 1 PROVE VisitsInv'
    OBVIOUS
  <1> DEFINE reused == works /\ jar \in DOMAIN stored
             sid == IF reused THEN jar ELSE drawn + 1
             loaded == IF reused THEN stored[sid] ELSE NewSession
             q == [kind |-> kind, pc |-> "given", sid |-> sid, isNew |-> ~reused,
                   badge |-> badge, verdict |-> "none", failed |-> FALSE,
                   record |-> IF kind = "challenge" THEN loaded
                              ELSE [loaded EXCEPT !.times =
                                      NewestOnly(Append(@, r), MaxListed)]]
  <1>1. /\ visits' = Append(visits, q)
        /\ drawn' = IF reused THEN drawn ELSE sid
        /\ upset' = IF kind # "challenge" /\ Writers(sid) # {}
                    THEN upset \cup {sid} ELSE upset
        /\ stored' = stored /\ badge' = badge /\ scoredIn' = scoredIn
        /\ failOpen' = failOpen
    BY DEF Begin, settings
  <1>2. VisitsShape /\ ListsInTurn /\ EarnedInv /\ KeptInv
    BY DEF VisitsInv
  <1>3. loaded \in Sessions /\ sid \in 1..drawn' /\ drawn' \in Nat /\ drawn <= drawn'
    BY <1>1, <1>2 DEF VisitsShape, NewSession, Sessions
  <1>n. Len(visits) \in Nat /\ r = Len(visits) + 1 /\ MaxListed \in Nat \ {0}
    BY <1>2, VisitsAssumption DEF VisitsShape
  <1>4. reused => sid \in DOMAIN stored /\ loaded = stored[sid]
    OBVIOUS
  <1>5. ~reused => sid \notin DOMAIN stored /\ loaded = NewSession
                  /\ \A p \in 1..Len(visits) : visits[p].sid # sid
    BY <1>2 DEF VisitsShape
  <1>t. InTurn(loaded.times, Len(visits))
    <2>1. InTurn(<<>>, Len(visits))
      BY <1>n DEF InTurn
    <2> QED
      BY <1>2, <1>4, <1>5, <2>1 DEF ListsInTurn, NewSession
  <1> HIDE DEF reused, loaded, sid
  <1> DEFINE more == NewestOnly(Append(loaded.times, r), MaxListed)
  <1>m. /\ more \in Seq(Nat) /\ InTurn(more, r) /\ Listed(r, more)
        /\ \A p \in Nat : Listed(p, loaded.times) => Listed(p, more)
    <2>1. loaded.times \in Seq(Nat)
      BY <1>3 DEF Sessions
    <2> QED
      BY <1>n, <1>t, <2>1, AddedToList
  <1>6. /\ q \in Visit /\ q.sid = sid /\ q.kind = kind /\ q.pc = "given"
        /\ q.badge = badge /\ q.verdict = "none" /\ q.record.tel = loaded.tel
        /\ ~q.failed
        /\ kind # "challenge" => q.record.times = more
        /\ kind = "challenge" => q.record = loaded
    <2>1. more \in Seq(Nat)
      BY <1>m
    <2> HIDE DEF more
    <2>2. /\ q.record \in Sessions /\ q.record.tel = loaded.tel
          /\ kind # "challenge" => q.record.times = more
          /\ kind = "challenge" => q.record = loaded
      BY <1>3, <2>1 DEF Sessions, more
    <2>3. badge \in Badges /\ sid \in Nat
      BY <1>2, <1>3 DEF VisitsShape
    <2> QED
      BY <2>2, <2>3 DEF Visit
  <1> HIDE DEF more
  <1> HIDE DEF q
  <1>7. /\ visits' \in Seq(Visit) /\ Len(visits') = r /\ visits'[r] = q
        /\ \A p \in 1..Len(visits) : visits'[p] = visits[p] /\ p # r
        /\ 1..r = 1..Len(visits) \cup {r} /\ r \in Nat
    BY <1>1, <1>2, <1>6 DEF VisitsShape
  <1>8. VisitsShape'
    BY <1>1, <1>2, <1>3, <1>6, <1>7 DEF VisitsShape
  <1>l. ListsInTurn'
    <2>1. \A times : InTurn(times, Len(visits)) => InTurn(times, r) \/ ~(times \in Seq(Nat))
      BY <1>n DEF InTurn
    <2>2. \A s \in DOMAIN stored : stored[s].times \in Seq(Nat)
      BY <1>2 DEF VisitsShape, Sessions
    <2>3. \A p \in 1..Len(visits) : visits[p].record.times \in Seq(Nat)
      <3> TAKE p \in 1..Len(visits)
      <3>1. visits[p] \in Visit
        BY <1>2 DEF VisitsShape
      <3> QED
        BY <3>1 DEF Visit, Sessions
    <2>4. InTurn(q.record.times, r)
      <3>1. loaded.times \in Seq(Nat)
        BY <1>3 DEF Sessions
      <3> QED
        BY <1>6, <1>m, <1>t, <2>1, <3>1
    <2> QED
      BY <1>1, <1>2, <1>7, <2>1, <2>2, <2>3, <2>4 DEF ListsInTurn
  <1>9. EarnedInv'
    <2>1. VisitEarned(q, scoredIn)
      <3>1. loaded.tel => sid \in scoredIn
        BY <1>2, <1>4, <1>5 DEF EarnedInv, NewSession
      <3> QED
        BY <1>2, <1>6, <3>1 DEF VisitEarned, EarnedInv, Earned
    <2> QED
      BY <1>1, <1>2, <1>7, <2>1 DEF EarnedInv, VisitEarned
  <1>10. ASSUME NEW p \in 1..Len(visits)
         PROVE  VisitKept(p)'
    <2>1. VisitKept(p) /\ visits'[p] = visits[p] /\ p # r
      BY <1>2, <1>7 DEF KeptInv
    <2>2. CASE visits[p].kind # "challenge" /\ visits[p].sid \notin upset'
      <3>1. visits[p].sid \notin upset
        BY <1>1, <2>2
      <3>2. visits[p].pc # "done" => ~Writing(q, visits[p].sid)
        <4> SUFFICES ASSUME visits[p].pc # "done", Writing(q, visits[p].sid) PROVE FALSE
          OBVIOUS
        <4>1. visits[p].sid = sid /\ kind # "challenge" /\ visits[p] \in Visit
          BY <1>2, <1>6 DEF Writing, VisitsShape
        <4>2. p \in Writers(sid)
          BY <1>2, <2>2, <4>1 DEF Writers, Visit, VisitsShape
        <4> QED
          BY <1>1, <2>2, <4>1, <4>2
      <3>3. CopyWhole(p) /\ visits[p].pc # "done" => CopyWhole(p)'
        <4> SUFFICES ASSUME CopyWhole(p), visits[p].pc # "done" PROVE CopyWhole(p)'
          OBVIOUS
        <4>1. \A j, t \in Nat : InStore(j, t)' => InStore(j, t)
          BY <1>1 DEF InStore
        <4>2. visits[p].sid \in Nat
          BY <1>2 DEF VisitsShape
        <4>3. (\A j \in Nat : InStore(j, visits[p].sid) => Listed(j, visits[p].record.times))'
          BY <2>1, <4>1, <4>2 DEF CopyWhole
        <4>4. \A j \in 1..Len(visits') : Writing(visits'[j], visits'[p].sid) => j = p
          BY <1>7, <2>1, <3>2 DEF CopyWhole
        <4> QED
          BY <2>1, <4>3, <4>4 DEF CopyWhole
      <3> QED
        BY <1>1, <2>1, <2>2, <3>1, <3>3 DEF VisitKept, InStore
    <2> QED
      BY <2>1, <2>2 DEF VisitKept
  <1>11. VisitKept(r)'
    <2> SUFFICES ASSUME kind # "challenge", sid \notin upset' PROVE CopyWhole(r)'
      BY <1>6, <1>7 DEF VisitKept, InStore
    <2>1. \A p \in 1..Len(visits) : ~Writing(visits[p], sid)
      <3> SUFFICES ASSUME NEW p \in 1..Len(visits), Writing(visits[p], sid) PROVE FALSE
        OBVIOUS
      <3>1. visits[p] \in Visit /\ p \in DOMAIN visits
        BY <1>2 DEF VisitsShape
      <3>2. visits[p].pc \in {"given", "allowed", "denied"}
        BY <3>1 DEF Writing, Visit
      <3>3. p \in Writers(sid)
        BY <3>1, <3>2 DEF Writers, Writing
      <3> QED
        BY <1>1, <3>3
    <2>2. \A p \in Nat : InStore(p, sid) => Listed(p, q.record.times)
      BY <1>4, <1>5, <1>6, <1>m DEF InStore
    <2>3. \A p \in 1..Len(visits') : Writing(visits'[p], sid) => p = r
      BY <1>7, <2>1
    <2> QED
      BY <1>1, <1>6, <1>7, <1>m, <2>2, <2>3 DEF CopyWhole, InStore
  <1>12. KeptInv'
    BY <1>7, <1>10, <1>11 DEF KeptInv
  <1> QED
    BY <1>8, <1>l, <1>9, <1>12 DEF VisitsInv

\* What stands for telemetry still does after a request moved, if what is new
\* does.
LEMMA MovedEarned ==
  ASSUME VisitsShape, EarnedInv, NEW r \in 1..Len(visits), NEW q, OneMoved(r, q),
         failOpen' = failOpen, scoredIn \subseteq scoredIn', Earned(badge', scoredIn'),
         VisitEarned(q, scoredIn'),
         \/ stored' = stored
         \/ \E record \in Sessions : /\ stored' = Put(stored, visits[r].sid, record)
                                     /\ record.tel => visits[r].sid \in scoredIn'
  PROVE  EarnedInv'
  <1>1. /\ Len(visits') = Len(visits) /\ visits'[r] = q
        /\ \A p \in 1..Len(visits) : p # r => visits'[p] = visits[p]
    BY DEF VisitsShape, OneMoved
  <1>2. \A p \in 1..Len(visits') : VisitEarned(visits'[p], scoredIn')
    BY <1>1 DEF EarnedInv, VisitEarned, Earned
  <1>3. \A sid \in DOMAIN stored' : stored'[sid].tel => sid \in scoredIn'
    BY DEF EarnedInv, Put
  <1> QED
    BY <1>2, <1>3 DEF EarnedInv, VisitEarned

\* The lists stay in turn: what is written is a request's own.
LEMMA MovedInTurn ==
  ASSUME VisitsShape, ListsInTurn, NEW r \in 1..Len(visits), NEW q, OneMoved(r, q),
         \/ stored' = stored
         \/ \E record \in Sessions : /\ stored' = Put(stored, visits[r].sid, record)
                                     /\ record.times = visits[r].record.times
  PROVE  ListsInTurn'
  <1>1. /\ Len(visits') = Len(visits) /\ visits'[r] = q
        /\ \A p \in 1..Len(visits) : p # r => visits'[p] = visits[p]
    BY DEF VisitsShape, OneMoved
  <1>2. InTurn(<<>>, Len(visits))
    BY VisitsAssumption DEF InTurn
  <1>3. InTurn(q.record.times, Len(visits))
    BY <1>2 DEF OneMoved, NewSession, ListsInTurn
  <1>4. \A sid \in DOMAIN stored' : InTurn(stored'[sid].times, Len(visits))
    BY DEF ListsInTurn, Put
  <1> QED
    BY <1>1, <1>3, <1>4 DEF ListsInTurn

LEMMA Moved ==
  ASSUME VisitsInv, NEW r \in 1..Len(visits), NEW q, OneMoved(r, q),
         drawn' = drawn, failOpen' = failOpen, badge' \in Badges, scoredIn \subseteq scoredIn',
         Earned(badge', scoredIn'), VisitEarned(q, scoredIn'),
         \/ /\ stored' = stored /\ upset \subseteq upset'
            /\ \/ visits[r].kind = "challenge"
               \/ visits[r].sid \in upset'
               \/ visits[r].pc = "denied" /\ q.pc = "done"
               \/ q.pc = "allowed" /\ q.record = visits[r].record
         \/ /\ visits[r].kind # "challenge"
            /\ q.pc # "done" => q.record = visits[r].record
            /\ \E record \in Sessions, works \in BOOLEAN :
                 /\ Written(r, record, works)
                 /\ record.tel => visits[r].sid \in scoredIn'
  PROVE  VisitsInv'
  <1>1. VisitsShape /\ ListsInTurn /\ EarnedInv /\ KeptInv
    BY DEF VisitsInv
  <1>2. KeptInv'
    BY <1>1, WrittenKept, UnwrittenKept
  <1>3. \/ stored' = stored
        \/ \E record \in Sessions : /\ stored' = Put(stored, visits[r].sid, record)
                                    /\ record.times = visits[r].record.times
                                    /\ record.tel => visits[r].sid \in scoredIn'
    BY DEF Written
  <1>4. VisitsShape'
    BY <1>1, <1>3, MovedShape
  <1>5. EarnedInv'
    BY <1>1, <1>3, MovedEarned
  <1>6. ListsInTurn'
    BY <1>1, <1>3, MovedInTurn
  <1> QED
    BY <1>2, <1>4, <1>5, <1>6 DEF VisitsInv

\* A request that is answered keeps nothing that a promise could rest on.
Over(q) == [q EXCEPT !.pc = "done", !.badge = NoBadge, !.record = NewSession,
                     !.isNew = FALSE]

LEMMA OverFacts ==
  ASSUME NEW q \in Visit, NEW S, VisitEarned(q, S)
  PROVE  /\ Over(q) \in Visit /\ Over(q).sid = q.sid /\ Over(q).kind = q.kind
         /\ Over(q).pc = "done" /\ VisitEarned(Over(q), S)
         /\ Over(q).failed = q.failed /\ Over(q).record = NewSession
  <1>1. NoBadge \in Badges /\ NewSession \in Sessions
    BY DEF NoBadge, NewSession, Badges, Sessions
  <1>2. /\ Over(q) \in Visit /\ Over(q).sid = q.sid /\ Over(q).kind = q.kind
        /\ Over(q).pc = "done" /\ Over(q).failed = q.failed
        /\ Over(q).verdict = q.verdict
        /\ Over(q).badge = NoBadge /\ Over(q).record = NewSession
    BY <1>1 DEF Over, Visit
  <1>3. VisitEarned(Over(q), S)
    BY <1>2 DEF VisitEarned, Earned, NewSession
  <1> QED
    BY <1>2, <1>3

LEMMA FinishedFacts ==
  ASSUME VisitsInv, NEW r \in 1..Len(visits), visits[r].pc # "done",
         visits' = Finished(r), scoredIn \subseteq scoredIn'
  PROVE  /\ OneMoved(r, Over(visits[r])) /\ VisitEarned(Over(visits[r]), scoredIn')
         /\ Over(visits[r]).pc = "done" /\ visits[r] \in Visit
  <1>1. visits[r] \in Visit /\ VisitEarned(visits[r], scoredIn)
    BY DEF VisitsInv, VisitsShape, EarnedInv
  <1>2. VisitEarned(visits[r], scoredIn')
    BY <1>1 DEF VisitEarned, Earned
  <1>3. visits' = [visits EXCEPT ![r] = Over(visits[r])]
    BY DEF Finished, Over
  <1> QED
    BY <1>1, <1>2, <1>3, OverFacts DEF OneMoved

LEMMA SavedIsWritten ==
  ASSUME NEW r, NEW record \in Sessions, NEW works \in BOOLEAN,
         record.times = visits[r].record.times,
         SaveSession(visits[r].sid, record, works)
  PROVE  Written(r, record, works)
  BY DEF SaveSession, Written

LEMMA VisitStep ==
  ASSUME VisitsInv, NEW r \in 1..Len(visits), NEW works \in BOOLEAN,
         NEW level \in {"allow", "challenge", "block"},
         \/ TelemetryFails(r) \/ AnalysisFails(r) \/ ApplicationRaises(r)
         \/ Challenge(r, works) \/ RecordResponse(r, works)
         \/ TelemetryScored(r, works) \/ TelemetryRefused(r, works)
         \/ EvaluateVisit(r, level, works)
  PROVE  VisitsInv'
  <1> DEFINE q == visits[r]
             s == q.sid
  <1>1. /\ q \in Visit /\ VisitEarned(q, scoredIn) /\ badge \in Badges
        /\ Earned(badge, scoredIn) /\ s \in Nat
        /\ q.record \in Sessions /\ q.badge \in Badges
    <2>1. q \in Visit /\ VisitEarned(q, scoredIn)
      BY DEF VisitsInv, VisitsShape, EarnedInv
    <2>2. q.sid \in Nat /\ q.record \in Sessions /\ q.badge \in Badges
      BY <2>1 DEF Visit
    <2> QED
      BY <2>1, <2>2 DEF VisitsInv, VisitsShape, EarnedInv
  <1>0. failOpen' = failOpen
    BY DEF TelemetryFails, AnalysisFails, ApplicationRaises, Challenge, RecordResponse,
       TelemetryScored, TelemetryRefused, EvaluateVisit, settings
  <1>2. CASE TelemetryFails(r) \/ ApplicationRaises(r)
    <2>1. /\ q.pc # "done" /\ visits' = Finished(r) /\ upset' = upset \cup {s}
          /\ stored' = stored /\ drawn' = drawn /\ badge' = badge
          /\ scoredIn' = scoredIn
      BY <1>2 DEF TelemetryFails, ApplicationRaises
    <2> QED
      BY <1>0, <1>1, <2>1, FinishedFacts, Moved
  <1>8. CASE AnalysisFails(r)
    <2> DEFINE verdict == IF failOpen THEN "allow" ELSE "challenge"
               next == [q EXCEPT !.verdict = verdict, !.failed = TRUE,
                                 !.pc = IF verdict = "allow" THEN "allowed" ELSE "denied"]
    <2>1. /\ q.kind \in {"page", "required"} /\ q.pc = "given"
          /\ upset' = upset \cup {s} /\ stored' = stored /\ drawn' = drawn
          /\ visits' = [visits EXCEPT ![r] = next]
          /\ badge' = badge /\ scoredIn' = scoredIn
      BY <1>8 DEF AnalysisFails
    <2>2. /\ next \in Visit /\ next.sid = s /\ next.kind = q.kind
          /\ next.record = q.record /\ next.badge = q.badge /\ next.failed
          /\ next.verdict = "allow" => failOpen
      BY <1>1 DEF Visit
    <2> HIDE DEF next
    <2>3. OneMoved(r, next) /\ VisitEarned(next, scoredIn')
      BY <1>1, <2>1, <2>2 DEF OneMoved, VisitEarned
    <2> QED
      BY <1>0, <1>1, <2>1, <2>3, Moved
  <1>3. CASE Challenge(r, works)
    <2>1. /\ q.pc # "done" /\ visits' = Finished(r) /\ upset' = upset
          /\ q.kind = "challenge"
          /\ stored' = stored /\ drawn' = drawn /\ scoredIn' = scoredIn
          /\ badge' = IF works THEN [sid |-> s, pow |-> TRUE, tel |-> q.record.tel]
                      ELSE badge
      BY <1>3 DEF Challenge
    <2>2. badge' \in Badges /\ Earned(badge', scoredIn')
      BY <1>1, <2>1 DEF Badges, Sessions, Earned, VisitEarned
    <2> QED
      BY <1>0, <2>1, <2>2, FinishedFacts, Moved
  <1>4. CASE RecordResponse(r, works)
    <2>1. /\ q.pc \in {"allowed", "denied"} /\ visits' = Finished(r)
          /\ drawn' = drawn /\ badge' = badge /\ scoredIn' = scoredIn
          /\ \/ SaveSession(s, q.record, works)
             \/ (q.pc = "denied" \/ q.failed) /\ NotSaved
      BY <1>4 DEF RecordResponse
    <2>2. OneMoved(r, Over(q)) /\ VisitEarned(Over(q), scoredIn') /\ Over(q).pc = "done"
      BY <2>1, FinishedFacts
    <2>3. CASE SaveSession(s, q.record, works)
      <3>1. Written(r, q.record, works)
        BY <1>1, <2>3, SavedIsWritten
      <3>2. q.record.tel => s \in scoredIn'
        BY <1>1, <2>1 DEF VisitEarned
      <3>3. CASE q.kind # "challenge"
        BY <1>0, <1>1, <2>1, <2>2, <3>1, <3>2, <3>3, Moved
      <3> QED
        BY <2>1, <3>3 DEF VisitsInv, VisitsShape
    <2>4. CASE (q.pc = "denied" \/ q.failed) /\ NotSaved
      <3>1. q.failed => q.kind = "challenge" \/ s \in upset
        BY DEF VisitsInv, KeptInv, VisitKept
      <3>2. stored' = stored /\ upset' = upset
        BY <2>4 DEF NotSaved
      <3> QED
        BY <1>0, <1>1, <2>1, <2>2, <2>4, <3>1, <3>2, Moved
    <2> QED
      BY <2>1, <2>3, <2>4
  <1>5. CASE TelemetryScored(r, works)
    <2> DEFINE record == [q.record EXCEPT !.tel = TRUE]
    <2>1. /\ q.kind = "telemetry" /\ q.pc # "done" /\ visits' = Finished(r)
          /\ SaveSession(s, record, works) /\ drawn' = drawn
          /\ scoredIn' = scoredIn \cup {s}
          /\ badge' = [sid |-> s, pow |-> FALSE, tel |-> TRUE]
      BY <1>5 DEF TelemetryScored
    <2>2. badge' \in Badges /\ Earned(badge', scoredIn')
      BY <1>1, <2>1 DEF Badges, Earned
    <2>3. record \in Sessions /\ record.times = q.record.times /\ s \in scoredIn'
      BY <1>1, <2>1 DEF Sessions
    <2> HIDE DEF record
    <2>4. Written(r, record, works)
      BY <2>1, <2>3, SavedIsWritten
    <2> QED
      BY <1>0, <2>1, <2>2, <2>3, <2>4, FinishedFacts, Moved
  <1>6. CASE TelemetryRefused(r, works)
    <2>1. /\ q.kind = "telemetry" /\ q.pc # "done" /\ visits' = Finished(r)
          /\ SaveSession(s, q.record, works) /\ drawn' = drawn
          /\ scoredIn' = scoredIn /\ badge' = badge
      BY <1>6 DEF TelemetryRefused
    <2>2. Written(r, q.record, works)
      BY <1>1, <2>1, SavedIsWritten
    <2>3. q.record.tel => s \in scoredIn'
      BY <1>1, <2>1 DEF VisitEarned
    <2> QED
      BY <1>0, <1>1, <2>1, <2>2, <2>3, FinishedFacts, Moved
  <1>7. CASE EvaluateVisit(r, level, works)
    <2> DEFINE verdict == VerdictOf(r, level)
               next == [q EXCEPT !.verdict = verdict,
                                 !.pc = IF verdict = "allow" THEN "allowed" ELSE "denied"]
    <2>1. /\ q.kind \in {"page", "required"} /\ q.pc = "given"
          /\ IF StoredAtOnce(verdict) THEN SaveSession(s, q.record, works) ELSE NotSaved
          /\ visits' = [visits EXCEPT ![r] = next]
          /\ drawn' = drawn /\ badge' = badge /\ scoredIn' = scoredIn
      BY <1>7 DEF EvaluateVisit
    <2>2. verdict \in {"allow", "challenge", "block"}
      BY DEF VerdictOf
    <2>3. q.kind = "required" /\ verdict = "allow" => s \in scoredIn
      BY <1>1 DEF VerdictOf, TelemetryVouched, Vouched, VisitEarned, Earned, Badges
    <2> HIDE DEF verdict
    <2>4. /\ next \in Visit /\ next.sid = s /\ next.kind = q.kind
          /\ next.record = q.record /\ next.badge = q.badge
          /\ next.verdict = verdict /\ next.failed = q.failed
          /\ next.pc = IF verdict = "allow" THEN "allowed" ELSE "denied"
      BY <1>1, <2>2 DEF Visit
    <2> HIDE DEF next
    <2>5. OneMoved(r, next) /\ VisitEarned(next, scoredIn')
      BY <1>1, <2>1, <2>3, <2>4 DEF OneMoved, VisitEarned
    <2>6. CASE StoredAtOnce(verdict)
      <3>1. Written(r, q.record, works)
        BY <1>1, <2>1, <2>6, SavedIsWritten
      <3>2. q.record.tel => s \in scoredIn'
        BY <1>1, <2>1 DEF VisitEarned
      <3> QED
        BY <1>0, <1>1, <2>1, <2>4, <2>5, <3>1, <3>2, Moved
    <2>7. CASE ~StoredAtOnce(verdict)
      <3>1. verdict = "allow" /\ stored' = stored /\ upset' = upset
        BY <2>1, <2>2, <2>7 DEF StoredAtOnce, NotSaved
      <3> QED
        BY <1>0, <1>1, <2>1, <2>4, <2>5, <3>1, Moved
    <2> QED
      BY <2>6, <2>7
  <1> QED
    BY <1>2, <1>3, <1>4, <1>5, <1>6, <1>7, <1>8

LEMMA ExpiresVisits ==
  ASSUME VisitsInv, NEW sid \in DOMAIN stored, SessionExpires(sid)
  PROVE  VisitsInv'
  <1>1. /\ DOMAIN stored' = DOMAIN stored \ {sid} /\ upset' = upset \cup {sid}
        /\ \A t \in DOMAIN stored' : stored'[t] = stored[t]
        /\ drawn' = drawn /\ badge' = badge /\ visits' = visits
        /\ scoredIn' = scoredIn /\ failOpen' = failOpen
    BY DEF SessionExpires, Without, settings
  <1>2. VisitsShape' /\ ListsInTurn' /\ EarnedInv'
    BY <1>1 DEF VisitsInv, VisitsShape, ListsInTurn, EarnedInv, VisitEarned
  <1>3. ASSUME NEW r \in 1..Len(visits)
        PROVE  VisitKept(r)'
    <2>1. VisitKept(r)
      BY DEF VisitsInv, KeptInv
    <2>2. \A p : \A t : t # sid => (InStore(p, t)' <=> InStore(p, t))
      BY <1>1 DEF InStore
    <2>3. CASE visits[r].sid = sid
      BY <1>1, <2>3 DEF VisitKept
    <2>4. CASE visits[r].sid # sid
      BY <1>1, <2>1, <2>2, <2>4 DEF VisitKept, CopyWhole
    <2> QED
      BY <2>3, <2>4
  <1> QED
    BY <1>1, <1>2, <1>3 DEF VisitsInv, KeptInv

LEMMA NextVisitsInv == VisitsInv /\ [VisitsNext]_visitVars => VisitsInv'
  <1> SUFFICES ASSUME VisitsInv, [VisitsNext]_visitVars PROVE VisitsInv'
    OBVIOUS
  <1>1. DOMAIN visits = 1..Len(visits)
    BY DEF VisitsInv, VisitsShape
  <1>2. CASE UNCHANGED visitVars
    BY <1>2 DEF visitVars, VisitsInv, VisitsShape, ListsInTurn, EarnedInv, VisitEarned,
       KeptInv, VisitKept, CopyWhole, InStore
  <1>3. ASSUME NEW r \in DOMAIN visits, TelemetryFails(r) \/ AnalysisFails(r) \/ ApplicationRaises(r)
        PROVE  VisitsInv'
    BY <1>1, <1>3, VisitStep
  <1>4. ASSUME NEW r \in DOMAIN visits, NEW works \in BOOLEAN,
               \/ Challenge(r, works) \/ RecordResponse(r, works)
               \/ TelemetryScored(r, works) \/ TelemetryRefused(r, works)
        PROVE  VisitsInv'
    BY <1>1, <1>4, VisitStep
  <1>5. ASSUME NEW r \in DOMAIN visits, NEW works \in BOOLEAN,
               NEW level \in {"allow", "challenge", "block"},
               EvaluateVisit(r, level, works)
        PROVE  VisitsInv'
    BY <1>1, <1>5, VisitStep
  <1> QED
    BY <1>2, <1>3, <1>4, <1>5, BeginVisits, ExpiresVisits DEF VisitsNext

\* Whatever answers a request of a Python server, it is in the stored session
\* when it ends and until MaxListed later ones have taken its place, unless the
\* session's requests overlap or something fails; and a token-required path
\* lets a request through only in a session whose telemetry was scored, or by
\* fail_open: for any number of requests, faults and overlaps.
THEOREM VisitsKeptAlways == VisitsSpec => []VisitsKept
  <1>1. VisitsInv => VisitsKept
    <2> SUFFICES ASSUME VisitsInv PROVE VisitsKept
      OBVIOUS
    <2>1. DOMAIN visits = 1..Len(visits)
      BY DEF VisitsInv, VisitsShape
    <2>2. RequestsKept
      BY <2>1 DEF VisitsInv, KeptInv, VisitKept, InStore, RequestsKept
    <2>3. EvidenceBehindTokens
      BY <2>1 DEF VisitsInv, EarnedInv, VisitEarned, EvidenceBehindTokens
    <2> QED
      BY <2>2, <2>3 DEF VisitsKept
  <1> QED
    BY <1>1, InitVisits, NextVisitsInv, PTL DEF VisitsSpec
=============================================================================
