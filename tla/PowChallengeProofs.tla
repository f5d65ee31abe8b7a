------------------------- MODULE PowChallengeProofs -------------------------
(***************************************************************************)
(* Proofs about PowChallenge: no challenge id gets through to scrypt twice *)
(* with any number of instances, challenges and calls, any clock skew, and *)
(* any call duration that the slack covers.                                *)
(***************************************************************************)
EXTENDS PowChallenge, TLAPS

\* Multiplying by a positive number keeps order.
LEMMA TimesMonotone ==
  ASSUME NEW a \in Int, NEW b \in Int, NEW s \in Nat \ {0}, a <= b
  PROVE  a * s <= b * s
  OBVIOUS

\* What rounding down to seconds gives.
LEMMA Floor ==
  ASSUME NEW t \in Nat, NEW s \in Nat \ {0}
  PROVE  /\ t \div s \in Nat
         /\ (t \div s) * s <= t
         /\ t < (t \div s + 1) * s
  <1>1. t \div s \in Nat
    OBVIOUS
  <1>2. t = s * (t \div s) + (t % s) /\ t % s \in 0..(s - 1)
    OBVIOUS
  <1> QED
    BY <1>1, <1>2

\* A time is not past second e exactly when it is before the next second.
LEMMA NotPast ==
  ASSUME NEW t \in Nat, NEW e \in Nat
  PROVE  SecondsOf(t) <= e <=> t < (e + 1) * Second
  <1> DEFINE q == t \div Second
  <1>1. Second \in Nat \ {0}
    BY PowAssumption
  <1>2. q \in Nat /\ q * Second <= t /\ t < (q + 1) * Second
    BY <1>1, Floor
  <1> HIDE DEF q
  <1>3. ASSUME q <= e PROVE t < (e + 1) * Second
    <2>1. (q + 1) * Second <= (e + 1) * Second
      BY <1>1, <1>2, <1>3, TimesMonotone
    <2> QED
      BY <2>1, <1>1, <1>2
  <1>4. ASSUME q > e PROVE ~(t < (e + 1) * Second)
    <2>1. (e + 1) * Second <= q * Second
      BY <1>1, <1>2, <1>4, TimesMonotone
    <2> QED
      BY <2>1, <1>1, <1>2
  <1> QED
    BY <1>2, <1>3, <1>4 DEF SecondsOf, q

\* A sum of seconds in ticks.
LEMMA Distribute ==
  ASSUME NEW a \in Int, NEW b \in Int, NEW s \in Int
  PROVE  (a + b) * s = a * s + b * s
  OBVIOUS

\* The constants as numbers, and the slack they leave.
LEMMA ConstantFacts ==
  /\ Second \in Nat \ {0} /\ Slack \in Nat /\ Ttl \in Nat
  /\ MaxSkew \in Nat /\ MaxDelay \in Nat
  /\ Slack * Second \in Nat /\ Ttl * Second \in Nat
  /\ MaxSkew + MaxDelay + Second <= Slack * Second
  /\ \A i \in Instances : Skew[i] \in Nat /\ Skew[i] <= MaxSkew
  /\ Nobody \notin Instances
  <1>1. Slack * Second \in Nat /\ Ttl * Second \in Nat
    BY PowAssumption
  <1> QED
    BY <1>1, PowAssumption

-----------------------------------------------------------------------------
\* The initial state.
LEMMA InitInv == Init => IInv
  <1> SUFFICES ASSUME Init PROVE IInv
    OBVIOUS
  <1> USE ConstantFacts DEF Init
  <1>1. TypeOK
    BY DEF TypeOK, IsMap, NoEntries, Idle
  <1>2. \A p \in Instances \cup {Nobody}, id \in Ids : hashed[p][id] = 0
    OBVIOUS
  <1>3. AtMostOnce /\ ClaimsOutlive /\ NoncesOutlive
    BY <1>2 DEF AtMostOnce, ClaimsOutlive, NoncesOutlive
  <1>4. PendingInTime
    BY DEF PendingInTime
  <1> QED
    BY <1>1, <1>3, <1>4 DEF IInv

\* issue() adds a challenge and changes none.
LEMMA IssueInv ==
  ASSUME IInv, NEW i \in Instances, NEW id \in Ids, Issue(i, id)
  PROVE  IInv'
  <1> USE ConstantFacts
  <1> DEFINE e == SecondsOf(Clock(i)) + Ttl
  <1>1. TypeOK /\ AtMostOnce /\ ClaimsOutlive /\ PendingInTime /\ NoncesOutlive
    BY DEF IInv
  <1>2. Clock(i) \in Nat /\ Clock(i) <= now + MaxSkew
    BY <1>1 DEF TypeOK, Clock
  <1>3. SecondsOf(Clock(i)) \in Nat /\ SecondsOf(Clock(i)) * Second <= Clock(i)
    BY <1>2, Floor DEF SecondsOf
  <1>4. e \in Nat /\ e * Second <= now + MaxSkew + Ttl * Second
    <2>1. e * Second = SecondsOf(Clock(i)) * Second + Ttl * Second
      BY <1>3, Distribute
    <2>2. SecondsOf(Clock(i)) * Second \in Nat /\ now \in Nat
      BY <1>1, <1>3 DEF TypeOK
    <2> QED
      BY <1>2, <1>3, <2>1, <2>2
  <1> HIDE DEF e
  <1>5. /\ exp' = Put(exp, id, e) /\ id \notin DOMAIN exp
        /\ UNCHANGED <<now, once, nonces, calls, hashed>>
    BY DEF Issue, e
  <1>6. IsMap(exp, Nat)
    BY <1>1 DEF TypeOK
  <1>7. /\ IsMap(exp', Nat) /\ DOMAIN exp' = DOMAIN exp \cup {id}
        /\ exp'[id] = e /\ \A x \in DOMAIN exp : exp'[x] = exp[x]
    <2>1. /\ IsMap(Put(exp, id, e), Nat)
          /\ DOMAIN Put(exp, id, e) = DOMAIN exp \cup {id}
          /\ Put(exp, id, e)[id] = e
          /\ \A x \in DOMAIN exp : x # id => Put(exp, id, e)[x] = exp[x]
      BY <1>4, <1>6 DEF IsMap, Put
    <2> QED
      BY <1>5, <2>1
  <1>8. TypeOK'
    BY <1>1, <1>4, <1>5, <1>7 DEF TypeOK
  <1>9. AtMostOnce' /\ ClaimsOutlive'
    BY <1>1, <1>5, <1>7 DEF AtMostOnce, ClaimsOutlive
  <1>10. PendingInTime'
    BY <1>1, <1>5, <1>7 DEF PendingInTime
  <1>11. NoncesOutlive'
    BY <1>1, <1>5, <1>7 DEF NoncesOutlive, Clock
  <1> QED
    BY <1>8, <1>9, <1>10, <1>11 DEF IInv

\* What the lemmas on steps use of a typed state.
LEMMA TypeFacts ==
  ASSUME IInv
  PROVE  /\ now \in Nat /\ IsMap(exp, Nat) /\ IsMap(once, Int)
         /\ \A i \in Instances : Clock(i) \in Nat /\ Clock(i) <= now + MaxSkew
                                 /\ now <= Clock(i)
         /\ \A p \in Instances \cup {Nobody}, id \in Ids :
              hashed[p][id] \in Nat /\ hashed[p][id] <= 1
         /\ \A c \in Calls : calls[c] # Idle => calls[c] \in CallRecords
  <1>1. TypeOK /\ AtMostOnce
    BY DEF IInv
  <1>2. now \in Nat /\ IsMap(exp, Nat) /\ IsMap(once, Int)
    BY <1>1 DEF TypeOK
  <1>3. \A i \in Instances : Clock(i) \in Nat /\ Clock(i) <= now + MaxSkew
                             /\ now <= Clock(i)
    BY <1>2, ConstantFacts DEF Clock
  <1>4. \A p \in Instances \cup {Nobody}, id \in Ids :
          hashed[p][id] \in Nat /\ hashed[p][id] <= 1
    BY <1>1 DEF TypeOK, AtMostOnce
  <1>5. \A c \in Calls : calls[c] # Idle => calls[c] \in CallRecords
    BY <1>1 DEF TypeOK
  <1> QED
    BY <1>2, <1>3, <1>4, <1>5

\* A challenge accepted now has not reached its last moment.
LEMMA AcceptedInTime ==
  ASSUME IInv, NEW i \in Instances, NEW id \in Ids, NotExpired(i, id)
  PROVE  /\ id \in DOMAIN exp /\ exp[id] \in Nat
         /\ Clock(i) < (exp[id] + 1) * Second
  <1>1. id \in DOMAIN exp /\ SecondsOf(Clock(i)) <= exp[id]
    BY DEF NotExpired
  <1>2. exp[id] \in Nat
    BY <1>1, TypeFacts DEF IsMap
  <1> QED
    BY <1>1, <1>2, NotPast, TypeFacts

\* verify() records a call that is in time, and how long its claim must last.
LEMMA VerifyInv ==
  ASSUME IInv, NEW c \in Calls, NEW i \in Instances, NEW id \in Ids,
         Verify(c, i, id)
  PROVE  IInv'
  <1> USE ConstantFacts
  <1> DEFINE call == [pc |-> "claiming", id |-> id, at |-> i,
                      since |-> now, ttl |-> ClaimFor(i, id)]
  <1>1. TypeOK /\ AtMostOnce /\ ClaimsOutlive /\ PendingInTime /\ NoncesOutlive
    BY DEF IInv
  <1>2. /\ NotExpired(i, id)
        /\ calls' = [calls EXCEPT ![c] = call]
        /\ UNCHANGED <<now, exp, once, nonces, hashed>>
    BY DEF Verify
  <1>3. /\ id \in DOMAIN exp /\ exp[id] \in Nat
        /\ Clock(i) < (exp[id] + 1) * Second
    BY <1>2, AcceptedInTime
  <1>4. now \in Nat /\ Clock(i) \in Nat /\ now <= Clock(i)
        /\ Clock(i) <= now + MaxSkew
    BY TypeFacts
  <1>5. (exp[id] + Slack) * Second \in Int /\ (exp[id] + 1) * Second \in Int
    BY <1>3
  <1>6. /\ ClaimFor(i, id) \in Int
        /\ now + ClaimFor(i, id) >= (exp[id] + Slack) * Second - MaxSkew
    <2> DEFINE end == (exp[id] + Slack) * Second
    <2>1. end \in Int /\ ClaimFor(i, id) = end - Clock(i)
      BY <1>5 DEF ClaimFor
    <2> HIDE DEF end
    <2>2. ClaimFor(i, id) \in Int /\ now + ClaimFor(i, id) >= end - MaxSkew
      BY <2>1, <1>4
    <2> QED
      BY <2>2 DEF end
  <1>7. call \in CallRecords
    BY <1>4, <1>6 DEF CallRecords
  <1>8. TypeOK'
    BY <1>1, <1>2, <1>7 DEF TypeOK
  <1>9. AtMostOnce' /\ ClaimsOutlive'
    BY <1>1, <1>2 DEF AtMostOnce, ClaimsOutlive
  <1>10. PendingInTime'
    <2>1. ASSUME NEW d \in Calls, calls'[d] # Idle
          PROVE  /\ calls'[d].id \in DOMAIN exp
                 /\ calls'[d].since <= now /\ now <= calls'[d].since + MaxDelay
                 /\ calls'[d].since < (exp[calls'[d].id] + 1) * Second
                 /\ calls'[d].since + calls'[d].ttl
                      >= (exp[calls'[d].id] + Slack) * Second - MaxSkew
      <3>1. calls \in [Calls -> CallRecords \cup {Idle}]
        BY <1>1 DEF TypeOK
      <3>2. CASE d = c
        <4>1. calls'[d] = call
          BY <1>2, <3>1, <3>2
        <4>2. now < (exp[id] + 1) * Second /\ now <= now + MaxDelay
          BY <1>3, <1>4, <1>5
        <4> QED
          BY <1>3, <1>4, <1>6, <4>1, <4>2
      <3>3. CASE d # c
        <4>1. calls'[d] = calls[d]
          BY <1>2, <3>1, <3>3
        <4> QED
          BY <1>1, <2>1, <4>1 DEF PendingInTime
      <3> QED
        BY <3>2, <3>3
    <2> QED
      BY <1>2, <2>1 DEF PendingInTime, Idle
  <1>11. NoncesOutlive'
    BY <1>1, <1>2 DEF NoncesOutlive, Clock
  <1> QED
    BY <1>8, <1>9, <1>10, <1>11 DEF IInv

-----------------------------------------------------------------------------
\* What a claim in the store, answered in time or not, does to the claims.
ClaimGood(f, id) ==
  id \in DOMAIN f /\ f[id] >= (exp[id] + Slack) * Second - MaxSkew

Claiming(c) == AfterClaim(once, calls[c].id, now, calls[c].ttl)

\* A pending call, with its record's fields typed.
LEMMA PendingFacts ==
  ASSUME IInv, NEW c \in Calls, calls[c] # Idle
  PROVE  /\ calls[c].id \in Ids /\ calls[c].ttl \in Int
         /\ calls[c].since \in Nat
         /\ calls[c].id \in DOMAIN exp /\ exp[calls[c].id] \in Nat
         /\ calls[c].since <= now /\ now <= calls[c].since + MaxDelay
         /\ calls[c].since < (exp[calls[c].id] + 1) * Second
         /\ calls[c].since + calls[c].ttl
              >= (exp[calls[c].id] + Slack) * Second - MaxSkew
  <1>1. calls[c] \in CallRecords
    BY TypeFacts
  <1>2. calls[c].id \in Ids /\ calls[c].ttl \in Int /\ calls[c].since \in Nat
    BY <1>1 DEF CallRecords
  <1>3. PendingInTime
    BY DEF IInv
  <1>4. /\ calls[c].id \in DOMAIN exp
        /\ calls[c].since <= now /\ now <= calls[c].since + MaxDelay
        /\ calls[c].since < (exp[calls[c].id] + 1) * Second
        /\ calls[c].since + calls[c].ttl
             >= (exp[calls[c].id] + Slack) * Second - MaxSkew
    BY <1>3 DEF PendingInTime
  <1>5. exp[calls[c].id] \in Nat
    BY <1>4, TypeFacts DEF IsMap
  <1> QED
    BY <1>2, <1>4, <1>5

\* A call that is still pending finds the claim of an id that went through.
LEMMA StillClaimed ==
  ASSUME IInv, NEW c \in Calls, calls[c] # Idle,
         hashed[Nobody][calls[c].id] >= 1
  PROVE  Claimed(once, calls[c].id, now)
  <1> DEFINE id == calls[c].id
             e == exp[id] * Second
             slack == Slack * Second
             end == (exp[id] + Slack) * Second
             last == (exp[id] + 1) * Second
             s == calls[c].since
  <1>1. /\ id \in Ids /\ s \in Nat /\ exp[id] \in Nat
        /\ now <= s + MaxDelay /\ s < last
    BY PendingFacts
  <1>2. id \in DOMAIN once /\ once[id] >= end - MaxSkew
    BY <1>1 DEF IInv, ClaimsOutlive
  <1>3. once[id] \in Int /\ now \in Nat
    BY <1>2, TypeFacts DEF IsMap
  <1>4. end = e + slack
    BY <1>1, ConstantFacts, Distribute
  <1>5. last = e + Second
    BY <1>1, ConstantFacts, Distribute
  <1>6. e \in Int /\ slack \in Nat /\ MaxSkew + MaxDelay + Second <= slack
    BY <1>1, ConstantFacts
  <1> HIDE DEF id, e, slack, end, last, s
  <1>7. once[id] > now
    BY <1>1, <1>2, <1>3, <1>4, <1>5, <1>6, ConstantFacts
  <1> QED
    BY <1>2, <1>7 DEF Claimed, id

\* Executing a claim keeps the good claims and makes a good one.
LEMMA ClaimEffect ==
  ASSUME IInv, NEW c \in Calls, calls[c] # Idle
  PROVE  /\ IsMap(Claiming(c), Int)
         /\ \A x \in Ids : ClaimGood(once, x) => ClaimGood(Claiming(c), x)
         /\ ~Claimed(once, calls[c].id, now) =>
              ClaimGood(Claiming(c), calls[c].id)
  <1> DEFINE id == calls[c].id
             g == Claiming(c)
  <1>1. /\ id \in Ids /\ calls[c].ttl \in Int /\ calls[c].since \in Nat
        /\ exp[id] \in Nat /\ calls[c].since <= now
        /\ calls[c].since + calls[c].ttl >= (exp[id] + Slack) * Second - MaxSkew
    BY PendingFacts
  <1>2. IsMap(once, Int) /\ now \in Nat
    BY TypeFacts
  <1>3. /\ IsMap(g, Int)
        /\ DOMAIN g = DOMAIN once \cup {id}
        /\ \A x \in DOMAIN once : x # id => g[x] = once[x]
        /\ Claimed(once, id, now) => g = once
        /\ ~Claimed(once, id, now) => g[id] = now + calls[c].ttl
    <2> DEFINE ttl == calls[c].ttl
    <2>1. id \in Ids /\ ttl \in Int
      BY <1>1
    <2> HIDE DEF id, ttl
    <2>2. /\ IsMap(AfterClaim(once, id, now, ttl), Int)
          /\ DOMAIN AfterClaim(once, id, now, ttl) = DOMAIN once \cup {id}
          /\ \A x \in DOMAIN once :
               x # id => AfterClaim(once, id, now, ttl)[x] = once[x]
          /\ Claimed(once, id, now) => AfterClaim(once, id, now, ttl) = once
          /\ ~Claimed(once, id, now) =>
               AfterClaim(once, id, now, ttl)[id] = now + ttl
      <3>1. CASE Claimed(once, id, now)
        <4>1. AfterClaim(once, id, now, ttl) = once
          BY <3>1 DEF AfterClaim
        <4>2. id \in DOMAIN once
          BY <3>1 DEF Claimed
        <4> QED
          BY <1>2, <3>1, <4>1, <4>2
      <3>2. CASE ~Claimed(once, id, now)
        <4>1. AfterClaim(once, id, now, ttl) = Put(once, id, now + ttl)
          BY <3>2 DEF AfterClaim
        <4>2. now + ttl \in Int
          BY <1>2, <2>1
        <4>3. /\ IsMap(Put(once, id, now + ttl), Int)
              /\ DOMAIN Put(once, id, now + ttl) = DOMAIN once \cup {id}
              /\ Put(once, id, now + ttl)[id] = now + ttl
              /\ \A x \in DOMAIN once :
                   x # id => Put(once, id, now + ttl)[x] = once[x]
          BY <1>2, <2>1, <4>2 DEF IsMap, Put
        <4> QED
          BY <3>2, <4>1, <4>3
      <3> QED
        BY <3>1, <3>2
    <2>3. g = AfterClaim(once, id, now, ttl)
      BY DEF Claiming, id, ttl
    <2> QED
      BY <2>2, <2>3 DEF ttl
  <1>4. ~Claimed(once, id, now) => ClaimGood(g, id)
    <2> DEFINE end == (exp[id] + Slack) * Second - MaxSkew
    <2>1. end \in Int
      BY <1>1, ConstantFacts
    <2>2. calls[c].since + calls[c].ttl >= end
      BY <1>1
    <2> HIDE DEF end
    <2>3. now + calls[c].ttl >= end
      BY <1>1, <1>2, <2>1, <2>2
    <2> QED
      BY <1>3, <2>3 DEF ClaimGood, end
  <1>5. ASSUME NEW x \in Ids, ClaimGood(once, x) PROVE ClaimGood(g, x)
    <2>1. CASE x # id
      BY <1>3, <1>5, <2>1 DEF ClaimGood
    <2>2. CASE x = id
      BY <1>3, <1>4, <1>5, <2>2 DEF ClaimGood
    <2> QED
      BY <2>1, <2>2
  <1> QED
    BY <1>3, <1>4, <1>5

\* Pending calls stay in time when one of them ends.
LEMMA EndOfCall ==
  ASSUME IInv, NEW c \in Calls, calls' = [calls EXCEPT ![c] = Idle],
         UNCHANGED <<now, exp>>
  PROVE  calls' \in [Calls -> CallRecords \cup {Idle}] /\ PendingInTime'
  <1>1. calls \in [Calls -> CallRecords \cup {Idle}] /\ PendingInTime
    BY DEF IInv, TypeOK
  <1>2. calls' \in [Calls -> CallRecords \cup {Idle}]
    BY <1>1
  <1>3. \A d \in Calls : calls'[d] # Idle => calls'[d] = calls[d]
    BY <1>1
  <1>4. PendingInTime'
    BY <1>1, <1>3 DEF PendingInTime, Idle
  <1> QED
    BY <1>2, <1>4

\* A claim executed: the first one for its id goes on to scrypt.
LEMMA ClaimInv ==
  ASSUME IInv, NEW c \in Calls, Claim(c)
  PROVE  IInv'
  <1> DEFINE id == calls[c].id
  <1>1. TypeOK /\ AtMostOnce /\ ClaimsOutlive /\ NoncesOutlive
    BY DEF IInv
  <1>2. /\ calls[c] # Idle
        /\ once' = Claiming(c)
        /\ calls' = [calls EXCEPT ![c] = Idle]
        /\ UNCHANGED <<now, exp, nonces>>
    BY DEF Claim, Claiming
  <1>3. id \in Ids /\ id \in DOMAIN exp
    BY <1>2, PendingFacts
  <1>4. /\ IsMap(Claiming(c), Int)
        /\ \A x \in Ids : ClaimGood(once, x) => ClaimGood(Claiming(c), x)
        /\ ~Claimed(once, id, now) => ClaimGood(Claiming(c), id)
    BY <1>2, ClaimEffect
  <1>5. hashed[Nobody][id] >= 1 => Claimed(once, id, now)
    BY <1>2, StillClaimed
  <1>6. /\ hashed \in [Instances \cup {Nobody} -> [Ids -> Nat]]
        /\ \A p \in Instances \cup {Nobody}, x \in Ids :
             hashed[p][x] \in Nat /\ hashed[p][x] <= 1
    BY <1>1, TypeFacts DEF TypeOK
  <1>7. /\ hashed' \in [Instances \cup {Nobody} -> [Ids -> Nat]]
        /\ \A p \in Instances \cup {Nobody}, x \in Ids :
             p # Nobody \/ x # id => hashed'[p][x] = hashed[p][x]
        /\ hashed'[Nobody][id] <= 1
        /\ hashed'[Nobody][id] >= 1 =>
             hashed[Nobody][id] >= 1 \/ ~Claimed(once, id, now)
    <2>1. CASE Claimed(once, id, now)
      <3>1. hashed' = hashed
        BY <2>1 DEF Claim
      <3> QED
        BY <1>3, <1>6, <3>1
    <2>2. CASE ~Claimed(once, id, now)
      <3>1. hashed' = [hashed EXCEPT ![Nobody][id] = hashed[Nobody][id] + 1]
        BY <2>2 DEF Claim
      <3>2. hashed[Nobody][id] = 0
        BY <1>3, <1>5, <1>6, <2>2
      <3> HIDE DEF id
      <3> QED
        BY <1>3, <1>6, <2>2, <3>1, <3>2
    <2> QED
      BY <2>1, <2>2
  <1>8. calls' \in [Calls -> CallRecords \cup {Idle}] /\ PendingInTime'
    BY <1>2, EndOfCall
  <1>9. TypeOK'
    BY <1>1, <1>2, <1>4, <1>7, <1>8 DEF TypeOK
  <1>10. AtMostOnce'
    BY <1>6, <1>7 DEF AtMostOnce
  <1>11. ClaimsOutlive'
    <2>1. ASSUME NEW x \in Ids, hashed'[Nobody][x] >= 1
          PROVE  x \in DOMAIN exp /\ ClaimGood(Claiming(c), x)
      <3>1. CASE hashed[Nobody][x] >= 1
        <4>1. x \in DOMAIN exp /\ ClaimGood(once, x)
          BY <1>1, <3>1 DEF ClaimsOutlive, ClaimGood
        <4> QED
          BY <1>4, <4>1
      <3>2. CASE ~(hashed[Nobody][x] >= 1)
        <4>1. x = id /\ ~Claimed(once, id, now)
          BY <1>7, <2>1, <3>2
        <4> QED
          BY <1>3, <1>4, <4>1
      <3> QED
        BY <3>1, <3>2
    <2> QED
      BY <1>2, <2>1 DEF ClaimsOutlive, ClaimGood
  <1>12. NoncesOutlive'
    <2>1. \A i \in Instances : i # Nobody
      BY ConstantFacts
    <2> QED
      BY <1>1, <1>2, <1>7, <2>1 DEF NoncesOutlive, Clock
  <1> QED
    BY <1>8, <1>9, <1>10, <1>11, <1>12 DEF IInv

\* A claim whose answer is lost may still have been executed.
LEMMA StoreFailsInv ==
  ASSUME IInv, NEW c \in Calls, StoreFails(c)
  PROVE  IInv'
  <1>1. TypeOK /\ AtMostOnce /\ ClaimsOutlive /\ NoncesOutlive
    BY DEF IInv
  <1>2. /\ calls[c] # Idle
        /\ once' = once \/ once' = Claiming(c)
        /\ calls' = [calls EXCEPT ![c] = Idle]
        /\ UNCHANGED <<now, exp, nonces, hashed>>
    BY DEF StoreFails, Claiming
  <1>3. /\ IsMap(Claiming(c), Int)
        /\ \A x \in Ids : ClaimGood(once, x) => ClaimGood(Claiming(c), x)
    BY <1>2, ClaimEffect
  <1>4. calls' \in [Calls -> CallRecords \cup {Idle}] /\ PendingInTime'
    BY <1>2, EndOfCall
  <1>5. TypeOK'
    BY <1>1, <1>2, <1>3, <1>4 DEF TypeOK
  <1>6. ClaimsOutlive'
    <2>1. ASSUME NEW x \in Ids, hashed[Nobody][x] >= 1
          PROVE  x \in DOMAIN exp /\ ClaimGood(once', x)
      <3>1. x \in DOMAIN exp /\ ClaimGood(once, x)
        BY <1>1, <2>1 DEF ClaimsOutlive, ClaimGood
      <3> QED
        BY <1>2, <1>3, <3>1
    <2> QED
      BY <1>2, <2>1 DEF ClaimsOutlive, ClaimGood
  <1>7. AtMostOnce' /\ NoncesOutlive'
    BY <1>1, <1>2 DEF AtMostOnce, NoncesOutlive, Clock
  <1> QED
    BY <1>4, <1>5, <1>6, <1>7 DEF IInv

-----------------------------------------------------------------------------
\* An entry made now in a NonceCache lasts for the rest of the challenge.
LEMMA NonceLasts ==
  ASSUME IInv, NEW i \in Instances, NEW id \in DOMAIN exp
  PROVE  Clock(i) + MaxAge >= (exp[id] + 1) * Second
  <1> DEFINE e == exp[id] * Second
             ttl == Ttl * Second
             slack == Slack * Second
             last == (exp[id] + 1) * Second
  <1>1. exp[id] \in Nat /\ now \in Nat /\ Clock(i) \in Nat /\ now <= Clock(i)
    BY TypeFacts DEF IsMap
  <1>2. e <= now + MaxSkew + ttl
    BY DEF IInv, TypeOK
  <1>3. last = e + Second
    BY <1>1, ConstantFacts, Distribute
  <1>4. MaxAge = ttl + slack
    BY DEF MaxAge
  <1>5. e \in Int /\ ttl \in Nat /\ slack \in Nat /\ MaxSkew + Second <= slack
    BY <1>1, ConstantFacts
  <1> HIDE DEF e, ttl, slack, last
  <1>6. Clock(i) + MaxAge >= last
    BY <1>1, <1>2, <1>3, <1>4, <1>5, ConstantFacts
  <1> QED
    BY <1>6 DEF last

\* verify() without a store lets through an id only if it never did before.
LEMMA VerifyAloneInv ==
  ASSUME IInv, NEW i \in Instances, NEW id \in Ids, VerifyAlone(i, id)
  PROVE  IInv'
  <1>1. TypeOK /\ ClaimsOutlive /\ PendingInTime /\ NoncesOutlive
    BY DEF IInv
  <1>2. /\ NotExpired(i, id) /\ id \notin DOMAIN nonces[i]
        /\ nonces' = [nonces EXCEPT ![i] = Put(nonces[i], id, Clock(i))]
        /\ hashed' = [hashed EXCEPT ![i][id] = hashed[i][id] + 1]
        /\ UNCHANGED <<now, exp, once, calls>>
    BY DEF VerifyAlone
  <1>3. /\ id \in DOMAIN exp /\ exp[id] \in Nat
        /\ Clock(i) < (exp[id] + 1) * Second
    BY <1>2, AcceptedInTime
  <1>4. Clock(i) \in Nat /\ (exp[id] + 1) * Second \in Nat
    BY <1>3, ConstantFacts, TypeFacts
  <1>5. /\ hashed \in [Instances \cup {Nobody} -> [Ids -> Nat]]
        /\ \A p \in Instances \cup {Nobody}, x \in Ids :
             hashed[p][x] \in Nat /\ hashed[p][x] <= 1
    BY <1>1, TypeFacts DEF TypeOK
  <1>6. hashed[i][id] = 0
    <2>1. ~(hashed[i][id] >= 1)
      <3> SUFFICES ASSUME hashed[i][id] >= 1 PROVE FALSE
        OBVIOUS
      <3>1. Clock(i) >= (exp[id] + 1) * Second
        BY <1>1, <1>2 DEF NoncesOutlive
      <3> QED
        BY <1>3, <1>4, <3>1
    <2> QED
      BY <1>5, <2>1
  <1>7. /\ hashed' \in [Instances \cup {Nobody} -> [Ids -> Nat]]
        /\ hashed'[i][id] = 1
        /\ \A p \in Instances \cup {Nobody}, x \in Ids :
             p # i \/ x # id => hashed'[p][x] = hashed[p][x]
    BY <1>2, <1>5, <1>6
  <1> DEFINE mine == Put(nonces[i], id, Clock(i))
  <1>8. /\ IsMap(mine, Nat) /\ DOMAIN mine = DOMAIN nonces[i] \cup {id}
        /\ mine[id] = Clock(i)
        /\ \A x \in DOMAIN nonces[i] : x # id => mine[x] = nonces[i][x]
    <2>1. IsMap(nonces[i], Nat)
      BY <1>1 DEF TypeOK
    <2> QED
      BY <1>4, <2>1 DEF IsMap, Put
  <1>9. /\ nonces'[i] = mine
        /\ \A j \in Instances : j # i => nonces'[j] = nonces[j]
        /\ nonces' = [j \in Instances |-> nonces'[j]]
    BY <1>1, <1>2 DEF TypeOK
  <1> HIDE DEF mine
  <1>10. TypeOK'
    <2>1. \A j \in Instances : IsMap(nonces'[j], Nat)
      BY <1>1, <1>8, <1>9 DEF TypeOK
    <2> QED
      BY <1>1, <1>2, <1>7, <1>9, <2>1 DEF TypeOK
  <1>11. AtMostOnce'
    BY <1>5, <1>7 DEF AtMostOnce
  <1>12. ClaimsOutlive' /\ PendingInTime'
    <2>1. i # Nobody
      BY ConstantFacts
    <2> QED
      BY <1>1, <1>2, <1>7, <2>1 DEF ClaimsOutlive, PendingInTime
  <1>13. NoncesOutlive'
    <2>1. ASSUME NEW j \in Instances, NEW x \in Ids, hashed'[j][x] >= 1
          PROVE  /\ x \in DOMAIN exp
                 /\ x \notin DOMAIN nonces'[j] =>
                      Clock(j) >= (exp[x] + 1) * Second
                 /\ x \in DOMAIN nonces'[j] =>
                      nonces'[j][x] + MaxAge >= (exp[x] + 1) * Second
      <3>1. CASE j = i /\ x = id
        <4>1. nonces'[j][x] = Clock(i) /\ x \in DOMAIN nonces'[j]
          BY <1>8, <1>9, <3>1
        <4>2. Clock(i) + MaxAge >= (exp[id] + 1) * Second
          BY <1>3, NonceLasts
        <4> QED
          BY <1>3, <3>1, <4>1, <4>2
      <3>2. CASE ~(j = i /\ x = id)
        <4>1. hashed[j][x] >= 1
          BY <1>7, <2>1, <3>2
        <4>2. /\ x \in DOMAIN nonces'[j] <=> x \in DOMAIN nonces[j]
              /\ x \in DOMAIN nonces[j] => nonces'[j][x] = nonces[j][x]
          BY <1>8, <1>9, <3>2
        <4> QED
          BY <1>1, <4>1, <4>2 DEF NoncesOutlive
      <3> QED
        BY <3>1, <3>2
    <2> QED
      BY <1>2, <2>1 DEF NoncesOutlive, Clock
  <1> QED
    BY <1>10, <1>11, <1>12, <1>13 DEF IInv

\* The cleanup of a NonceCache forgets only ids whose challenge has expired.
LEMMA CleanupInv ==
  ASSUME IInv, NEW i \in Instances, Cleanup(i)
  PROVE  IInv'
  <1>1. TypeOK /\ AtMostOnce /\ ClaimsOutlive /\ PendingInTime /\ NoncesOutlive
    BY DEF IInv
  <1> DEFINE kept == Without(nonces[i], Old(i))
  <1>2. /\ nonces' = [nonces EXCEPT ![i] = kept]
        /\ UNCHANGED <<now, exp, once, calls, hashed>>
    BY DEF Cleanup
  <1>3. /\ IsMap(kept, Nat) /\ DOMAIN kept = DOMAIN nonces[i] \ Old(i)
        /\ \A x \in DOMAIN kept : kept[x] = nonces[i][x]
    <2>1. IsMap(nonces[i], Nat)
      BY <1>1 DEF TypeOK
    <2> QED
      BY <2>1 DEF IsMap, Without
  <1>4. /\ nonces'[i] = kept
        /\ \A j \in Instances : j # i => nonces'[j] = nonces[j]
        /\ nonces' = [j \in Instances |-> nonces'[j]]
    BY <1>1, <1>2 DEF TypeOK
  <1> HIDE DEF kept
  <1>5. TypeOK'
    <2>1. \A j \in Instances : IsMap(nonces'[j], Nat)
      BY <1>1, <1>3, <1>4 DEF TypeOK
    <2> QED
      BY <1>1, <1>2, <1>4, <2>1 DEF TypeOK
  <1>6. AtMostOnce' /\ ClaimsOutlive' /\ PendingInTime'
    BY <1>1, <1>2 DEF AtMostOnce, ClaimsOutlive, PendingInTime
  <1>7. ASSUME NEW j \in Instances, NEW x \in Ids, hashed[j][x] >= 1
        PROVE  /\ x \in DOMAIN exp
               /\ x \notin DOMAIN nonces'[j] =>
                    Clock(j) >= (exp[x] + 1) * Second
               /\ x \in DOMAIN nonces'[j] =>
                    nonces'[j][x] + MaxAge >= (exp[x] + 1) * Second
    <2>1. /\ x \in DOMAIN exp
          /\ x \notin DOMAIN nonces[j] => Clock(j) >= (exp[x] + 1) * Second
          /\ x \in DOMAIN nonces[j] =>
               nonces[j][x] + MaxAge >= (exp[x] + 1) * Second
      BY <1>1, <1>7 DEF NoncesOutlive
    <2>2. CASE j # i
      BY <1>4, <2>1, <2>2
    <2>3. CASE j = i /\ x \in Old(i)
      <3> DEFINE last == (exp[x] + 1) * Second
      <3>1. /\ x \in DOMAIN nonces[i] /\ x \notin DOMAIN nonces'[j]
            /\ nonces[i][x] < Clock(i) - MaxAge
        BY <1>3, <1>4, <2>3 DEF Old
      <3>2. exp[x] \in Nat /\ nonces[i][x] \in Nat /\ Clock(i) \in Nat
        BY <1>1, <2>1, <3>1, TypeFacts DEF TypeOK, IsMap
      <3>3. MaxAge \in Nat /\ last \in Nat
        BY <3>2, ConstantFacts DEF MaxAge
      <3>4. nonces[i][x] + MaxAge >= last
        BY <2>1, <2>3, <3>1
      <3> HIDE DEF last
      <3>5. Clock(i) >= last
        BY <3>1, <3>2, <3>3, <3>4
      <3> QED
        BY <2>1, <2>3, <3>1, <3>5 DEF last
    <2>4. CASE j = i /\ x \notin Old(i)
      BY <1>3, <1>4, <2>1, <2>4
    <2> QED
      BY <2>2, <2>3, <2>4
  <1>8. NoncesOutlive'
    BY <1>2, <1>7 DEF NoncesOutlive, Clock
  <1> QED
    BY <1>5, <1>6, <1>8 DEF IInv

\* Time passes.
LEMMA TickInv ==
  ASSUME IInv, Tick
  PROVE  IInv'
  <1>1. TypeOK /\ AtMostOnce /\ ClaimsOutlive /\ PendingInTime /\ NoncesOutlive
    BY DEF IInv
  <1>2. /\ now' = now + 1
        /\ \A c \in Calls : calls[c] # Idle => now < calls[c].since + MaxDelay
        /\ UNCHANGED <<exp, once, nonces, calls, hashed>>
    BY DEF Tick
  <1>3. now \in Nat /\ now' \in Nat
    BY <1>1, <1>2 DEF TypeOK
  <1>4. \A id \in DOMAIN exp : exp[id] * Second <= now' + MaxSkew + Ttl * Second
    <2>1. ASSUME NEW id \in DOMAIN exp
          PROVE  exp[id] * Second <= now' + MaxSkew + Ttl * Second
      <3> DEFINE e == exp[id] * Second
                 ttl == Ttl * Second
      <3>1. exp[id] \in Nat
        BY TypeFacts DEF IsMap
      <3>2. e \in Int /\ ttl \in Nat
        BY <3>1, ConstantFacts
      <3>3. e <= now + MaxSkew + ttl
        BY <1>1 DEF TypeOK
      <3> HIDE DEF e, ttl
      <3>4. e <= now' + MaxSkew + ttl
        BY <1>2, <1>3, <3>2, <3>3, ConstantFacts
      <3> QED
        BY <3>4 DEF e, ttl
    <2> QED
      BY <2>1
  <1>5. TypeOK'
    BY <1>1, <1>2, <1>3, <1>4 DEF TypeOK
  <1>6. AtMostOnce' /\ ClaimsOutlive'
    BY <1>1, <1>2 DEF AtMostOnce, ClaimsOutlive
  <1>7. PendingInTime'
    <2>1. ASSUME NEW c \in Calls, calls[c] # Idle
          PROVE  calls[c].since <= now' /\ now' <= calls[c].since + MaxDelay
      <3>1. calls[c].since \in Nat /\ calls[c].since <= now
        BY <2>1, PendingFacts
      <3> QED
        BY <1>2, <1>3, <2>1, <3>1, ConstantFacts
    <2> QED
      BY <1>1, <1>2, <2>1 DEF PendingInTime, Idle
  <1>8. NoncesOutlive'
    <2>1. ASSUME NEW i \in Instances, NEW x \in DOMAIN exp,
                 Clock(i) >= (exp[x] + 1) * Second
          PROVE  Clock(i)' >= (exp[x] + 1) * Second
      <3> DEFINE last == (exp[x] + 1) * Second
      <3>1. last \in Int
        BY TypeFacts, ConstantFacts DEF IsMap
      <3>2. Clock(i) >= last
        BY <2>1
      <3> HIDE DEF last
      <3>3. Clock(i)' >= last
        BY <1>2, <1>3, <3>1, <3>2, ConstantFacts DEF Clock
      <3> QED
        BY <3>3 DEF last
    <2> QED
      BY <1>1, <1>2, <2>1 DEF NoncesOutlive
  <1> QED
    BY <1>5, <1>6, <1>7, <1>8 DEF IInv

-----------------------------------------------------------------------------
\* The inductive invariant holds in every behaviour.
THEOREM Invariance == Spec => []IInv
  <1>1. Init => IInv
    BY InitInv
  <1>2. IInv /\ [Next]_vars => IInv'
    <2> SUFFICES ASSUME IInv, [Next]_vars PROVE IInv'
      OBVIOUS
    <2>1. CASE \E i \in Instances, id \in Ids : Issue(i, id) \/ VerifyAlone(i, id)
      BY <2>1, IssueInv, VerifyAloneInv
    <2>2. CASE \E c \in Calls, i \in Instances, id \in Ids : Verify(c, i, id)
      BY <2>2, VerifyInv
    <2>3. CASE \E c \in Calls : Claim(c) \/ StoreFails(c)
      BY <2>3, ClaimInv, StoreFailsInv
    <2>4. CASE \E i \in Instances : Cleanup(i)
      BY <2>4, CleanupInv
    <2>5. CASE Tick
      BY <2>5, TickInv
    <2>6. CASE UNCHANGED vars
      BY <2>6 DEF vars, IInv, TypeOK, AtMostOnce, ClaimsOutlive, PendingInTime,
                  NoncesOutlive, Clock
    <2> QED
      BY <2>1, <2>2, <2>3, <2>4, <2>5, <2>6 DEF Next
  <1> QED
    BY <1>1, <1>2, PTL DEF Spec

\* The state of the challenger is well formed, and no challenge expires later
\* than its time to live allows on any clock.
THEOREM TypeCorrect == Spec => []TypeOK
  <1>1. IInv => TypeOK
    BY DEF IInv
  <1> QED
    BY <1>1, Invariance, PTL

\* MemoryHardChallenge.ts: "one scrypt per issued challenge, at most", for any
\* number of instances and calls, with a store and (per instance) without.
THEOREM OncePerChallenge == Spec => []AtMostOnce
  <1>1. IInv => AtMostOnce
    BY DEF IInv
  <1> QED
    BY <1>1, Invariance, PTL
=============================================================================
