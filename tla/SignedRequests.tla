--------------------------- MODULE SignedRequests ---------------------------
(***************************************************************************)
(* AntiTamper (core/src/security/AntiTamper.ts): requests between trusted  *)
(* parties carry a timestamp and a nonce under a signature, and a request  *)
(* is accepted once.  verify() keeps the nonces in the process;            *)
(* verifyAsync() claims them in the store, when there is one, with a call  *)
(* that takes time.  The clocks of the signers differ from the verifier's. *)
(* Other fields of the signed string are left out: the requests here are   *)
(* genuine ones, delivered repeatedly.                                     *)
(***************************************************************************)
EXTENDS Store

CONSTANTS
  Nonces, SignedCalls,
  Offsets,          \* how far signers' clocks are ahead of the verifier's
  SignedSecond,     \* ticks in a second (1000)
  MaxSkewSeconds,   \* 300
  SignedDelay,      \* bound: how long a call to the store may take
  SignedTime        \* bound: the clock stops there

\* A call to the store takes less than a nonce is kept (ten minutes) by a second:
\* one whose answer came later could find its own claim expired.

ASSUME SignedAssumption ==
  /\ SignedSecond \in Nat \ {0} /\ MaxSkewSeconds \in Nat \ {0}
  /\ Offsets \subseteq Nat /\ SignedDelay \in Nat /\ SignedTime \in Nat
  /\ SignedDelay <= (2 * MaxSkewSeconds - 1) * SignedSecond

VARIABLES
  time,
  hasStore,   \* whether the AntiTamper was given a store
  signed,     \* from the nonces of signed requests to their timestamps
  usedNonces, \* the NonceCache: from nonce to time of use
  claims,     \* the claims in the store: from nonce to expiry
  waiting,    \* the calls of verifyAsync() waiting for the store
  accepted    \* history: where (in the cache, in the store) and per nonce, the
              \* times its request was accepted

signedVars == <<time, hasStore, signed, usedNonces, claims, waiting, accepted>>

Floored(t) == t \div SignedSecond
Places == {"cache", "store"}
NotWaiting == [pc |-> "idle"]

SignedInit ==
  /\ time = 0
  /\ hasStore \in BOOLEAN
  /\ signed = NoEntries /\ usedNonces = NoEntries /\ claims = NoEntries
  /\ waiting = [c \in SignedCalls |-> NotWaiting]
  /\ accepted = [p \in Places |-> [n \in Nonces |-> <<>>]]

\* signRequest() on a machine whose clock is d ahead.
Sign(n, d) ==
  /\ n \notin DOMAIN signed
  /\ signed' = Put(signed, n, Floored(time + d))
  /\ UNCHANGED <<time, hasStore, usedNonces, claims, waiting, accepted>>

\* check(): the timestamp is within the allowed skew.
Timely(n) ==
  /\ n \in DOMAIN signed
  /\ Floored(time) - signed[n] \in -MaxSkewSeconds..MaxSkewSeconds

\* Mutant: nonces are kept for the skew to one side only.
KeptHalf == MaxSkewSeconds * SignedSecond

\* For how long a nonce is kept, in the cache and in the store.
Kept == MaxSkewSeconds * 2 * SignedSecond

Accept(p, n) == accepted' = [accepted EXCEPT ![p][n] = Append(@, time)]

VerifySigned(n) ==
  /\ Timely(n)
  /\ n \notin DOMAIN usedNonces
  /\ usedNonces' = Put(usedNonces, n, time)
  /\ Accept("cache", n)
  /\ UNCHANGED <<time, hasStore, signed, claims, waiting>>

\* verifyAsync() up to the call of claimOnce(); without a store it is verify().
VerifyAsync(c, n) ==
  /\ hasStore
  /\ waiting[c] = NotWaiting
  /\ Timely(n)
  /\ waiting' =
       [waiting EXCEPT ![c] = [pc |-> "claiming", nonce |-> n, since |-> time]]
  /\ UNCHANGED <<time, hasStore, signed, usedNonces, claims, accepted>>

\* The store executes the claim; a repeat is rejected as a replay.
ClaimNonce(c) ==
  LET n == waiting[c].nonce
  IN  /\ waiting[c] # NotWaiting
      /\ claims' = AfterClaim(claims, n, time, Kept)
      /\ IF Claimed(claims, n, time) THEN UNCHANGED accepted ELSE Accept("store", n)
      /\ waiting' = [waiting EXCEPT ![c] = NotWaiting]
      /\ UNCHANGED <<time, hasStore, signed, usedNonces>>

\* The connection fails and verifyAsync() rejects; the store has executed the
\* claim or never will.
ClaimFails(c) ==
  /\ waiting[c] # NotWaiting
  /\ claims' \in {claims, AfterClaim(claims, waiting[c].nonce, time, Kept)}
  /\ waiting' = [waiting EXCEPT ![c] = NotWaiting]
  /\ UNCHANGED <<time, hasStore, signed, usedNonces, accepted>>

\* NonceCache.cleanup() (core/src/utils/crypto.ts), by a timer of any phase.
OldNonces == {n \in DOMAIN usedNonces : usedNonces[n] < time - Kept}

ForgetNonces ==
  /\ usedNonces' = Without(usedNonces, OldNonces)
  /\ UNCHANGED <<time, hasStore, signed, claims, waiting, accepted>>

\* Time passes; no call to the store takes longer than SignedDelay.
SignedTick ==
  /\ time < SignedTime
  /\ \A c \in SignedCalls :
       waiting[c] # NotWaiting => time < waiting[c].since + SignedDelay
  /\ time' = time + 1
  /\ UNCHANGED <<hasStore, signed, usedNonces, claims, waiting, accepted>>

SignedNext ==
  \/ \E n \in Nonces, d \in Offsets : Sign(n, d)
  \/ \E n \in Nonces : VerifySigned(n)
  \/ \E c \in SignedCalls, n \in Nonces : VerifyAsync(c, n)
  \/ \E c \in SignedCalls : ClaimNonce(c) \/ ClaimFails(c)
  \/ ForgetNonces
  \/ SignedTick

SignedSpec == SignedInit /\ [][SignedNext]_signedVars

-----------------------------------------------------------------------------
\* Type invariant; a cached nonce was used in the past, a claimed one is
\* claimed for at most Kept.
SignedTypeOK ==
  /\ time \in 0..SignedTime /\ hasStore \in BOOLEAN
  /\ DOMAIN signed \cup DOMAIN usedNonces \cup DOMAIN claims \subseteq Nonces
  /\ \A n \in DOMAIN signed : signed[n] \in Nat
  /\ \A n \in DOMAIN usedNonces : usedNonces[n] \in 0..time
  /\ \A n \in DOMAIN claims : claims[n] \in Kept..(time + Kept)
  /\ \A c \in SignedCalls :
       waiting[c] = NotWaiting \/ waiting[c].nonce \in DOMAIN signed
  /\ \A p \in Places, n \in Nonces : accepted[p][n] \in Seq(0..time)

\* "A request is rejected when ... the nonce was already used within that
\* window": the same method of one AntiTamper accepts a request at most once.
NonceUsedOnce ==
  \A p \in Places, n \in Nonces : Len(accepted[p][n]) <= 1

\* The last moment at which a check of n's timestamp may still be under way.
LastSecond(n) == (signed[n] + MaxSkewSeconds) * SignedSecond
Late(p) == IF p = "store" THEN SignedDelay ELSE 0

\* What the code does ensure: a second acceptance comes when the nonce has been
\* kept for its time and in the last second of the timestamp's window (or as
\* much later as the call to the store takes), so the first one came as early
\* in the window: the signer was ahead by the whole allowed skew.  And there
\* is no third.
RepeatOnlyInLastSecond ==
  \A p \in Places, n \in Nonces : Len(accepted[p][n]) > 1 =>
    /\ Len(accepted[p][n]) = 2
    /\ accepted[p][n][2] - accepted[p][n][1] >= Kept
    /\ accepted[p][n][2] \in
         LastSecond(n) .. (LastSecond(n) + SignedSecond - 1 + Late(p))
=============================================================================
