--------------------------- MODULE MCIntelligence ---------------------------
(***************************************************************************)
(* What a server believes of its clients and why, in one run; the initial  *)
(* state picks a part, the others stay idle.                               *)
(*                                                                         *)
(* Challenges: two instances that share a store and whose clocks are       *)
(* MaxSkew apart, a third one on its own, two calls at a time and seconds  *)
(* of two ticks, with the slack exactly as long as PowAssumption demands.  *)
(* Signed requests: seconds of three ticks and a skew of one second, so    *)
(* that a timestamp's window is three seconds long; signers are on time or *)
(* up to the whole skew ahead.  The clocks run past the end of the first   *)
(* claims and nonces, and of the last windows.                             *)
(* Feeds: one that lists an address, a range that covers another one, or   *)
(* both; entries by hand for the other address, the range and a built-in   *)
(* pattern (in ThreatOverlap for the address of the feed).  The timer is   *)
(* faster than the feed's minimal interval, which is longer than the       *)
(* timeout of a download, as in the defaults.                              *)
(* Exit list: three versions, one of them without a public address.        *)
(* Trackers: three addresses, one without a subnet, and one fingerprint.   *)
(* QUIC: a ClientHello of five bytes in pieces that overlap, and hellos    *)
(* with GREASE values in every list.                                       *)
(* Scoring: requests that differ from an ordinary one in up to two facts.  *)
(* Visits: five of a session that keeps four, to pages with three numbers. *)
(***************************************************************************)
EXTENDS PowChallenge, SignedRequests, ThreatIntel, ExternalLists,
        AddressTrackers, RiskScoring, VisitPatterns, QuicHandshake, TLC

CONSTANTS
  i1, i2, i3, a, b, r, p, f,
  Parts        \* those that are explored

ClockSkew == i1 :> 0 @@ i2 :> 1 @@ i3 :> 1
RangeCovers == r :> {a}
PublishedLists == f :> {{b}, {r}, {b, r}}
ExitLists == << {"a", "r", "s"}, {"s"}, {"a", "b"} >>
Subnets == [ip \in {"a", "b", "d"} |-> IF ip = "d" THEN "none" ELSE "net"]

Initial(pieces) == [kind |-> "initial", frames |-> pieces]
HelloPackets ==
  {Initial(<< <<0, 2>> >>), Initial(<< <<3, 2>>, <<0, 1>> >>),
   Initial(<< <<1, 3>> >>), Initial(<< <<4, 1>>, <<2, 2>> >>)}
  \cup {[kind |-> "garbled", frames |-> << <<0, 2>> >>]}
  \cup {[kind |-> k, frames |-> <<>>] : k \in {"long", "short", "broken"}}
LibraryHello ==
  [sni |-> TRUE, ciphers |-> 1, extensions |-> 2, b |-> <<4865>>, c |-> <<>>,
   sigs |-> <<>>]

V4(w, x, y, z) ==
  [v6 |-> FALSE, loopback |-> FALSE, octets |-> <<w, x, y, z>>, leading |-> 0]
V6(n) ==
  [v6 |-> TRUE, loopback |-> FALSE, octets |-> <<0, 0, 0, 0>>, leading |-> n]
Page ==
  [names |-> {"host", "user-agent", "accept", "accept-language", "referer",
              "sec-ch-ua"},
   extra |-> 6, hostFirst |-> TRUE, bot |-> FALSE, chrome |-> 140,
   acceptsAny |-> FALSE, document |-> TRUE, closes |-> FALSE,
   secureApi |-> FALSE]
Human ==
  [isHeadless |-> FALSE, isAntiDetect |-> FALSE, mouse |-> 40,
   straight |-> FALSE, noTremor |-> FALSE, keys |-> 20, shortDwell |-> FALSE,
   uniform |-> FALSE, scrolls |-> 3, programmatic |-> FALSE, touches |-> 0]
Ordinary ==
  [ip |-> V4(8, 8, 8, 8), known |-> {}, listed |-> {}, source |-> "manual",
   headers |-> Page, tls |-> {}, http2 |-> {}, trap |-> FALSE, filled |-> 0,
   severity |-> 90, findings |-> 0, anomalies |-> {}, patterns |-> {},
   behaviour |-> {Human}, tooFast |-> FALSE, auth |-> TRUE]

\* An ordinary request in which one fact is another one.
Otherwise(q) ==
  {[q EXCEPT !.ip = ip] : ip \in {V4(192, 0, 2, 1), V4(10, 0, 0, 1),
                                  V4(3, 127, 1, 1), V6(2001), V6(0)}}
  \cup {[q EXCEPT !.known = k] : k \in {{"tor"}, {"vpn"}}}
  \cup {[q EXCEPT !.listed = {20, 90}], [q EXCEPT !.trap = TRUE],
        [q EXCEPT !.filled = 2], [q EXCEPT !.findings = 1],
        [q EXCEPT !.anomalies = {"ip", "device"}],
        [q EXCEPT !.patterns = {"timer_regular", "no_referer"}],
        [q EXCEPT !.tooFast = TRUE], [q EXCEPT !.auth = FALSE]}
  \cup {[q EXCEPT !.headers = h] :
          h \in {[Page EXCEPT !.hostFirst = FALSE],
                 [Page EXCEPT !.chrome = 80, !.names = @ \cup {"connection"},
                              !.closes = TRUE],
                 [Page EXCEPT !.names = {"host", "user-agent", "accept"},
                              !.extra = 1, !.chrome = 0, !.acceptsAny = TRUE,
                              !.secureApi = TRUE],
                 [Page EXCEPT !.names = {"host"}, !.extra = 40, !.bot = TRUE]}}
  \cup {[q EXCEPT !.tls = {[known |-> "python", outdated |-> TRUE,
                            weak |-> TRUE, noH2 |-> TRUE,
                            proxyLatency |-> FALSE]}],
        [q EXCEPT !.http2 = {[profile |-> "curl", oddOrder |-> TRUE]}]}
  \cup {[q EXCEPT !.behaviour = {d}] :
          d \in {[Human EXCEPT !.isHeadless = TRUE, !.mouse = 0, !.keys = 0,
                               !.scrolls = 0],
                 [Human EXCEPT !.isAntiDetect = TRUE, !.straight = TRUE,
                               !.noTremor = TRUE, !.shortDwell = TRUE]}}

JudgedRequests ==
  {Ordinary} \cup UNION {Otherwise(q) : q \in {Ordinary} \cup Otherwise(Ordinary)}

VARIABLE part       \* the part of this behaviour

InitAny ==
  /\ part \in Parts
  /\ Init
  /\ SignedInit /\ (part # "signatures" => hasStore)
  /\ ThreatInit /\ (part # "feeds" => ~persist /\ published[f] = {b})
  /\ ListsInit
  /\ TrackersInit /\ (sweeping <=> part = "prints")
  /\ IF part = "hellos" THEN QuicInit ELSE QuicInitWith({}, {}, {})
  /\ RiskInit /\ (part # "scores" => request = Ordinary)
  /\ VisitInit

NextChallenges ==
  /\ part = "challenges" /\ Next
  /\ UNCHANGED <<part, signedVars, threatVars, listVars, trackerVars, quicVars,
                 riskVars, visitVars>>
NextSignatures ==
  /\ part = "signatures" /\ SignedNext
  /\ UNCHANGED <<part, vars, threatVars, listVars, trackerVars, quicVars,
                 riskVars, visitVars>>
NextThreats ==
  /\ part = "feeds" /\ ThreatNext
  /\ UNCHANGED <<part, vars, signedVars, listVars, trackerVars, quicVars,
                 riskVars, visitVars>>
NextOutside ==
  /\ \/ part = "exit list" /\ TorNext
     \/ part = "places" /\ GeoNext
  /\ UNCHANGED <<part, vars, signedVars, threatVars, trackerVars, quicVars,
                 riskVars, visitVars>>
NextTrackers ==
  /\ \/ part = "rates" /\ RatesNext
     \/ part = "proxies" /\ ProxyNext /\ Len(log') < MaxLog
     \/ part = "prints" /\ PrintsNext
     \/ part \in {"rates", "proxies", "prints"} /\ ClockNext
  /\ UNCHANGED <<part, vars, signedVars, threatVars, listVars, quicVars,
                 riskVars, visitVars>>
NextQuic ==
  /\ \/ part = "datagrams" /\ AssemblerNext
     \/ part = "hellos" /\ other = hello /\ Reconnect
  /\ UNCHANGED <<part, vars, signedVars, threatVars, listVars, trackerVars,
                 riskVars, visitVars>>
NextScores ==
  /\ part = "scores" /\ Analyze
  /\ UNCHANGED <<part, vars, signedVars, threatVars, listVars, trackerVars,
                 quicVars, visitVars>>
NextVisits ==
  /\ part = "visits" /\ Visit
  /\ UNCHANGED <<part, vars, signedVars, threatVars, listVars, trackerVars,
                 quicVars, riskVars>>

NextAny ==
  \/ NextChallenges \/ NextSignatures \/ NextThreats \/ NextOutside
  \/ NextTrackers \/ NextQuic \/ NextScores \/ NextVisits

SpecAny ==
  InitAny
  /\ [][NextAny]_<<part, vars, signedVars, threatVars, listVars, trackerVars,
                   quicVars, riskVars, visitVars>>

\* The fairness that FeedsCatchUp needs (ThreatIntel).
FairSpecAny == SpecAny /\ FeedFairness

\* Type invariant of the part that is not idle.
PartsTypeOK ==
  /\ part = "challenges" => TypeOK
  /\ part = "signatures" => SignedTypeOK
  /\ part = "feeds" => ThreatTypeOK
  /\ part \in {"exit list", "places"} => ListsTypeOK
  /\ part \in {"rates", "proxies", "prints"} => TrackersTypeOK
  /\ part \in {"datagrams", "hellos"} => QuicTypeOK
=============================================================================
