---------------------------- MODULE PowChallenge ----------------------------
(***************************************************************************)
(* MemoryHardChallenger (core/src/security/MemoryHardChallenge.ts) on      *)
(* several server instances, each with a clock of its own.  Before the     *)
(* expensive scrypt, verify() burns the challenge id: with claimOnce() in  *)
(* the shared store, or, without a store, in the instance's NonceCache     *)
(* (core/src/utils/crypto.ts).  Signatures and the work itself are left    *)
(* out: the challenges here are the genuine ones.                          *)
(***************************************************************************)
EXTENDS Store

CONSTANTS
  Instances, Ids, Calls,
  Skew,        \* per instance, how far its clock is ahead of the store's
  Sharing,     \* the instances that are given a (shared) store
  Nobody,      \* no instance; the place where the store keeps its claims
  Second,      \* ticks in a second (1000)
  Ttl,         \* ttlSeconds (120)
  Slack,       \* seconds a burnt id is kept beyond the expiry (60)
  MaxSkew,
  MaxDelay,    \* bound: how long a call to the store may take
  MaxTime      \* bound: the clock stops there

\* The last conjunct is the assumption the code makes silently: its 60 seconds
\* cover the spread of the clocks, a slow call to the store, and the second
\* that comparing floored seconds adds to the life of a challenge.
ASSUME PowAssumption ==
  /\ Sharing \subseteq Instances /\ Nobody \notin Instances
  /\ Second \in Nat \ {0} /\ Ttl \in Nat /\ Slack \in Nat
  /\ MaxSkew \in Nat /\ MaxDelay \in Nat /\ MaxTime \in Nat
  /\ Skew \in [Instances -> 0..MaxSkew]
  /\ MaxSkew + MaxDelay + Second <= Slack * Second

VARIABLES
  now,      \* the store's clock
  exp,      \* the issued challenges: from id to expiry, in seconds
  once,     \* the claims in the store: from id to expiry of the claim
  nonces,   \* per instance, its NonceCache: from id to time of use
  calls,    \* the calls of verify() in progress
  hashed    \* history: how often an id got through to scrypt, per place

vars == <<now, exp, once, nonces, calls, hashed>>

Clock(i) == now + Skew[i]
\* Mutant: ticks taken for seconds.
TicksOf(t) == t

SecondsOf(t) == t \div Second

Idle == [pc |-> "idle"]

Init ==
  /\ now = 0
  /\ exp = NoEntries
  /\ once = NoEntries
  /\ nonces = [i \in Instances |-> NoEntries]
  /\ calls = [c \in Calls |-> Idle]
  /\ hashed = [p \in Instances \cup {Nobody} |-> [id \in Ids |-> 0]]

Issue(i, id) ==
  /\ id \notin DOMAIN exp
  /\ exp' = Put(exp, id, SecondsOf(Clock(i)) + Ttl)
  /\ UNCHANGED <<now, once, nonces, calls, hashed>>

NotExpired(i, id) == id \in DOMAIN exp /\ SecondsOf(Clock(i)) <= exp[id]

\* Mutant: the claim ends with the challenge.
ClaimForLife(i, id) == exp[id] * Second - Clock(i)

\* How long the claim is to last, by the clock of the verifying instance.
ClaimFor(i, id) == (exp[id] + Slack) * Second - Clock(i)

\* verify() with a store, up to the call of claimOnce().
Verify(c, i, id) ==
  /\ i \in Sharing
  /\ calls[c] = Idle
  /\ NotExpired(i, id)
  /\ calls' = [calls EXCEPT ![c] =
                 [pc |-> "claiming", id |-> id, at |-> i,
                  since |-> now, ttl |-> ClaimFor(i, id)]]
  /\ UNCHANGED <<now, exp, once, nonces, hashed>>

\* The store executes the claim.  The first one goes on to scrypt, whatever
\* comes of it; to the others verify() answers "replay".
Claim(c) ==
  LET id == calls[c].id
  IN  /\ calls[c] # Idle
      /\ once' = AfterClaim(once, id, now, calls[c].ttl)
      /\ hashed' = IF Claimed(once, id, now) THEN hashed
                   ELSE [hashed EXCEPT ![Nobody][id] = @ + 1]
      /\ calls' = [calls EXCEPT ![c] = Idle]
      /\ UNCHANGED <<now, exp, nonces>>

\* The connection fails and verify() rejects (the node answers 503); the
\* store has executed the claim or never will.
StoreFails(c) ==
  /\ calls[c] # Idle
  /\ once' \in {once, AfterClaim(once, calls[c].id, now, calls[c].ttl)}
  /\ calls' = [calls EXCEPT ![c] = Idle]
  /\ UNCHANGED <<now, exp, nonces, hashed>>

\* verify() without a store: hasBeenUsed() in the same turn.
VerifyAlone(i, id) ==
  /\ i \notin Sharing
  /\ NotExpired(i, id)
  /\ id \notin DOMAIN nonces[i]
  /\ nonces' = [nonces EXCEPT ![i] = Put(nonces[i], id, Clock(i))]
  /\ hashed' = [hashed EXCEPT ![i][id] = @ + 1]
  /\ UNCHANGED <<now, exp, once, calls>>

\* NonceCache.cleanup(), at any time: a timer with a phase of its own runs it.
MaxAge == Ttl * Second + Slack * Second
Old(i) == {id \in DOMAIN nonces[i] : nonces[i][id] < Clock(i) - MaxAge}

Cleanup(i) ==
  /\ nonces' = [nonces EXCEPT ![i] = Without(nonces[i], Old(i))]
  /\ UNCHANGED <<now, exp, once, calls, hashed>>

\* Time passes; no call to the store takes longer than MaxDelay.
Tick ==
  /\ now < MaxTime
  /\ \A c \in Calls : calls[c] # Idle => now < calls[c].since + MaxDelay
  /\ now' = now + 1
  /\ UNCHANGED <<exp, once, nonces, calls, hashed>>

Next ==
  \/ \E i \in Instances, id \in Ids : Issue(i, id) \/ VerifyAlone(i, id)
  \/ \E c \in Calls, i \in Instances, id \in Ids : Verify(c, i, id)
  \/ \E c \in Calls : Claim(c) \/ StoreFails(c)
  \/ \E i \in Instances : Cleanup(i)
  \/ Tick

Spec == Init /\ [][Next]_vars

-----------------------------------------------------------------------------
IsMap(f, S) == DOMAIN f \subseteq Ids /\ f \in [DOMAIN f -> S]

CallRecords ==
  [pc : {"claiming"}, id : Ids, at : Instances, since : Nat, ttl : Int]

\* Type invariant; an expiry is in seconds and lies at most Ttl ahead.
TypeOK ==
  /\ now \in Nat
  /\ IsMap(exp, Nat) /\ IsMap(once, Int)
  /\ \A id \in DOMAIN exp : exp[id] * Second <= now + MaxSkew + Ttl * Second
  /\ nonces = [i \in Instances |-> nonces[i]]
  /\ \A i \in Instances : IsMap(nonces[i], Nat)
  /\ calls \in [Calls -> CallRecords \cup {Idle}]
  /\ hashed \in [Instances \cup {Nobody} -> [Ids -> Nat]]

\* "One scrypt per issued challenge, at most": no id gets through to scrypt
\* twice, across all instances with a store and within each without one,
\* although claims and nonces expire, clocks differ and calls are slow.
AtMostOnce ==
  \A p \in Instances \cup {Nobody}, id \in Ids : hashed[p][id] <= 1

\* Why: the claim of an id outlives its last valid moment on every clock,
ClaimsOutlive ==
  \A id \in Ids : hashed[Nobody][id] >= 1 =>
    /\ id \in DOMAIN exp /\ id \in DOMAIN once
    /\ once[id] >= (exp[id] + Slack) * Second - MaxSkew

\* a call in progress found its challenge valid at most MaxDelay ago,
PendingInTime ==
  \A c \in Calls : calls[c] # Idle =>
    /\ calls[c].id \in DOMAIN exp
    /\ calls[c].since <= now /\ now <= calls[c].since + MaxDelay
    /\ calls[c].since < (exp[calls[c].id] + 1) * Second
    /\ calls[c].since + calls[c].ttl
         >= (exp[calls[c].id] + Slack) * Second - MaxSkew

\* and a NonceCache forgets an id only after its last valid moment.
NoncesOutlive ==
  \A i \in Instances, id \in Ids : hashed[i][id] >= 1 =>
    /\ id \in DOMAIN exp
    /\ id \notin DOMAIN nonces[i] => Clock(i) >= (exp[id] + 1) * Second
    /\ id \in DOMAIN nonces[i] =>
         nonces[i][id] + MaxAge >= (exp[id] + 1) * Second

IInv == TypeOK /\ AtMostOnce /\ ClaimsOutlive /\ PendingInTime /\ NoncesOutlive
=============================================================================
