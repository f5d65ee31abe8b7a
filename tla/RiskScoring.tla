------------------------------ MODULE RiskScoring ------------------------------
(***************************************************************************)
(* The detection signals that core's stateless analyzers derive from one   *)
(* request, and how the engine turns them into a score, a verdict and      *)
(* threat categories: RiskScorer.ts, and decide() and classifyThreats() of *)
(* DetectionEngine.ts.                                                     *)
(*                                                                         *)
(* A signal's value and confidence are percentages, its weight is in       *)
(* tenths.  Headers, paths and payloads are reduced to the facts that the  *)
(* rules test; addresses keep their bits.  Scores are in hundredths of a   *)
(* point, so a score within 0.01 of a rounding boundary may come out one   *)
(* point lower.                                                            *)
(*                                                                         *)
(* The state machine is analyze() on one request: module after module adds *)
(* its signals.                                                            *)
(***************************************************************************)
EXTENDS Integers, Sequences, FiniteSets, FiniteSetsExt

CONSTANTS
  Judged,                       \* the requests looked at, as records of facts
  Block, Challenge, Monitor     \* config.thresholds

\* Severities and counts are numbers, and a request has finitely many of each;
\* its patterns are those of PatternSignal.
ASSUME RiskAssumption ==
  /\ {Block, Challenge, Monitor} \subseteq 0..100
  /\ \A r \in Judged :
       /\ r.listed \subseteq 0..100 /\ r.severity \in 0..100 /\ r.findings \in Nat
       /\ IsFiniteSet(r.tls) /\ IsFiniteSet(r.http2) /\ IsFiniteSet(r.behaviour)
       /\ r.patterns \subseteq {"timer_regular", "sequential_ids", "crawl_breadth",
                                "error_probing", "no_referer", "no_assets"}

VARIABLES request, signals, next

riskVars == <<request, signals, next>>

-----------------------------------------------------------------------------
(* Signals *)

Signal(category, type, value, confidence, weight) ==
  [category |-> category, type |-> type, value |-> value,
   confidence |-> confidence, weight |-> weight]

If(condition, signal) == IF condition THEN {signal} ELSE {}

-----------------------------------------------------------------------------
(* Addresses: four octets, or for IPv6 the number that parseInt() reads at  *)
(* the beginning of the text (0 if it begins with a letter or a colon).     *)

\* ipToLong(): an IPv6 text is one "octet".
ipToLong(ip) ==
  IF ip.v6 THEN <<0, 0, ip.leading \div 256, ip.leading % 256>> ELSE ip.octets

\* ipInCidr(): the first bits of both are the same.
ipInCidr(ip, range) ==
  \A i \in 1..4 :
    LET beyond == 2 ^ (8 - Min({8, Max({0, range.bits - 8 * (i - 1)})}))
    IN  ipToLong(ip)[i] \div beyond = range.net[i] \div beyond

Cidr(a, b, c, d, bits) == [net |-> <<a, b, c, d>>, bits |-> bits]

\* isPrivateIP(): loopback counts in IPv6, too.
isPrivateIP(ip) ==
  \/ ip.v6 /\ ip.loopback
  \/ \E range \in {Cidr(10, 0, 0, 0, 8), Cidr(100, 64, 0, 0, 10),
                   Cidr(127, 0, 0, 0, 8), Cidr(169, 254, 0, 0, 16),
                   Cidr(172, 16, 0, 0, 12), Cidr(192, 168, 0, 0, 16)} :
       ipInCidr(ip, range)

isBogonIP(ip) ==
  \E range \in {Cidr(0, 0, 0, 0, 8), Cidr(192, 0, 0, 0, 24),
                Cidr(192, 0, 2, 0, 24), Cidr(198, 18, 0, 0, 15),
                Cidr(198, 51, 100, 0, 24), Cidr(203, 0, 113, 0, 24),
                Cidr(224, 0, 0, 0, 4), Cidr(240, 0, 0, 0, 4),
                Cidr(255, 255, 255, 255, 32)} :
    ipInCidr(ip, range)

\* matchDatacenter(), whichever the provider is.
DATACENTER_RANGES ==
  {Cidr(a, 0, 0, 0, 8) : a \in {3, 13, 18, 20, 34, 35, 52, 54}}
  \cup {Cidr(40, 64, 0, 0, 10)}
  \cup {Cidr(net[1], net[2], 0, 0, 16) : net \in
          {<<104, 131>>, <<138, 68>>, <<159, 65>>, <<167, 172>>, <<88, 198>>,
           <<136, 243>>, <<144, 76>>, <<148, 251>>, <<51, 38>>, <<51, 68>>,
           <<51, 75>>, <<51, 77>>, <<45, 32>>, <<45, 63>>, <<64, 176>>,
           <<108, 61>>, <<45, 33>>, <<45, 56>>, <<50, 116>>, <<66, 175>>}}
matchDatacenter(ip) == \E range \in DATACENTER_RANGES : ipInCidr(ip, range)

\* IPAnalyzer.analyze(), but for the request rate (module AddressTrackers).  listed,
\* allowed, tor and vpn: what the lists and the resolver say of the address.
IpSignals(ip, known) ==
  IF "allowed" \in known THEN {}
  ELSE LET network(type, value, confidence) ==
             Signal("network", type, value, confidence, 10)
       IN  If("blocked" \in known, network("ip.blocklisted", 100, 100))
           \cup If(~isPrivateIP(ip) /\ isBogonIP(ip), network("ip.bogon", 90, 95))
           \cup If("tor" \in known, network("ip.tor", 85, 98))
           \cup If(matchDatacenter(ip), network("ip.datacenter", 60, 90))
           \cup If("vpn" \in known, network("ip.vpn", 50, 80))

\* ThreatDatabase.toSignal() of an entry that was found.
ThreatSignal(severity, source) ==
  Signal("reputation", "threat.ip", severity,
         IF source = "manual" THEN 95 ELSE 80, IF severity >= 80 THEN 15 ELSE 10)

-----------------------------------------------------------------------------
(* Headers: the names of the headers that are there, and what is in them.   *)

Protocol(type, value, confidence, weight) ==
  Signal("protocol", type, value, confidence, weight)

\* HeaderAnalyzer.analyze().  chrome is the version the user agent claims, or
\* 0; extra the number of further headers.
HeaderSignals(h) ==
  LET missing == {"host", "user-agent", "accept", "accept-language"} \ h.names
      ua == "user-agent" \in h.names
      count == Cardinality(h.names) + h.extra
      navigation == "sec-fetch-dest" \in h.names => h.document
  IN  If(missing # {}, Protocol("headers.missing_essential",
                                80 + 5 * Cardinality(missing), 95, 15))
      \cup If(~ua, Protocol("headers.ua_empty", 100, 100, 20))
      \cup If(ua /\ h.bot, Protocol("headers.ua_known_bot", 100, 100, 20))
      \cup If(ua /\ h.chrome \in 1..89, Protocol("headers.ua_outdated", 70, 80, 12))
      \cup If("accept" \in h.names /\ h.acceptsAny /\ navigation,
              Protocol("headers.accept_generic", 60, 70, 10))
      \cup If("host" \in h.names /\ ~h.hostFirst,
              Protocol("headers.order_anomaly", 30, 40, 11))
      \cup If(ua /\ h.chrome >= 110 /\ "sec-ch-ua" \notin h.names,
              Protocol("headers.missing_client_hints", 85, 90, 15))
      \cup If("connection" \in h.names /\ h.closes,
              Protocol("headers.connection_close", 40, 60, 8))
      \cup If("referer" \notin h.names /\ h.secureApi,
              Protocol("headers.missing_referer_on_api", 75, 85, 13))
      \cup If(count < 5, Protocol("headers.count_too_low", 80, 90, 12))
      \cup If(count > 30, Protocol("headers.count_too_high", 70, 85, 11))

\* TLSFingerprinter.analyze(), but for the shared fingerprints (module
\* AddressTrackers): a signature that is known, and what the handshake offers.
TlsSignals(tls, modern) ==
  If(tls.known = "python", Protocol("tls.ja3_match", 85, 95, 15))
  \cup If(tls.known = "curl", Protocol("tls.ja3_match", 60, 95, 15))
  \cup If(tls.outdated, Protocol("tls.outdated_version", 70, 90, 12))
  \cup If(tls.weak, Protocol("tls.weak_ciphers", 65, 80, 10))
  \cup If(modern /\ tls.noH2, Protocol("tls.missing_alpn_h2", 75, 85, 12))
  \cup If(tls.proxyLatency, Protocol("tls.ja4l_latency_proxy", 60, 70, 10))

\* HTTP2Fingerprinter.analyze(): a profile that matches counts even when it is
\* a browser's; curl has the default settings.
Http2Signals(http2, chrome) ==
  If(http2.profile \in {"Chrome", "Firefox"},
     Protocol("http2.fingerprint_match", 0, 95, 14))
  \cup If(http2.profile = "curl", Protocol("http2.fingerprint_match", 70, 95, 14))
  \cup If(http2.profile = "curl" /\ chrome,
          Protocol("http2.ua_inconsistency", 85, 90, 16))
  \cup If(http2.oddOrder, Protocol("http2.pseudo_header_anomaly", 50, 70, 10))

-----------------------------------------------------------------------------
(* Payload, session and behaviour *)

\* HoneypotDetector.checkRequest(), as the engine calls it (without timing):
\* one signal for each hidden field that is filled, of two at most here.
HoneypotSignals(trap, filled) ==
  If(trap, Signal("behavioral", "honeypot.trap_endpoint", 90, 95, 20))
  \cup If(filled >= 1, Signal("behavioral", "honeypot.form_filled", 100, 98, 20))
  \cup If(filled >= 2,
          Signal("behavioral", "honeypot.form_filled_again", 100, 98, 20))

\* InputValidator.analyze(): the more findings, the more confident.
InputSignals(severity, findings) ==
  If(findings > 0, Signal("payload", "input.threat", severity,
                          Min({95, 60 + 10 * findings}), 13))

\* SessionManager.detectSessionAnomalies().
SessionSignals(anomalies) ==
  If("ip" \in anomalies, Signal("reputation", "session.ip_changed", 70, 70, 12))
  \cup If("device" \in anomalies,
          Signal("device", "session.fingerprint_changed", 85, 85, 14))
  \cup If("velocity" \in anomalies,
          Signal("behavioral", "session.velocity_spike", 75, 80, 12))

\* What BotBehaviorAnalyzer.analyze() says of the patterns it finds (module
\* BotBehavior), here with the least confidence it gives them.
PatternSignal(pattern) ==
  LET behavioral(type, value, confidence) ==
        Signal("behavioral", type, value, confidence, 11)
  IN  CASE pattern = "timer_regular"  -> behavioral("session.timer_regular", 65, 70)
        [] pattern = "sequential_ids" -> behavioral("session.sequential_ids", 70, 75)
        [] pattern = "crawl_breadth"  -> behavioral("session.crawl_breadth", 50, 60)
        [] pattern = "error_probing"  -> behavioral("session.error_probing", 60, 70)
        [] pattern = "no_referer"     -> behavioral("session.no_referer", 40, 50)
        [] pattern = "no_assets"      -> behavioral("session.no_assets", 55, 60)

\* analyzeBehavior() of the SDK's summary; mouse, keys, scrolls and touches
\* are event counts.
analyzeBehavior(data) ==
  LET behavioral(type, value, confidence, weight) ==
        Signal("behavioral", type, value, confidence, weight)
  IN  If(data.isHeadless, Signal("device", "behavior.headless_browser", 95, 90, 15))
      \cup If(data.isAntiDetect,
              Signal("device", "behavior.antidetect_browser", 80, 70, 12))
      \cup If(data.mouse >= 10 /\ data.straight,
              behavioral("behavior.mouse_linear", 70, 70, 10))
      \cup If(data.mouse >= 20 /\ data.noTremor,
              behavioral("behavior.mouse_no_tremor", 55, 60, 10))
      \cup If(data.keys >= 10 /\ data.shortDwell,
              behavioral("behavior.key_dwell_too_short", 75, 75, 10))
      \cup If(data.keys >= 10 /\ data.uniform,
              behavioral("behavior.typing_uniform", 65, 70, 10))
      \cup If(data.scrolls > 0 /\ data.programmatic,
              behavioral("behavior.programmatic_scroll", 50, 60, 10))
      \cup If(data.mouse + data.keys + data.scrolls + data.touches = 0,
              behavioral("behavior.no_interaction", 40, 50, 8))

-----------------------------------------------------------------------------
(* The score *)

\* In the order of the composite score.
Categories ==
  <<"network", "protocol", "behavioral", "device", "reputation", "payload">>

\* groupByCategory()
In(category, found) == {s \in found : s.category = category}

\* The values v[x] of the members of S, added up one by one.
AnyOf(T) == CHOOSE x \in T : TRUE
SumOf(v, S) ==
  LET sum[T \in SUBSET S] ==
        IF T = {} THEN 0 ELSE v[AnyOf(T)] + sum[T \ {AnyOf(T)}]
  IN  sum[S]

\* calculateCategoryScore(): the weighted mean, each value discounted by its
\* confidence.
CategoryScore(found) ==
  LET total == SumOf([s \in found |-> s.weight], found)
      score == SumOf([s \in found |-> s.value * s.confidence * s.weight], found)
  IN  IF total > 0 THEN score \div total ELSE 0

\* Mutant: the mean of the categories that found anything.
Averaged(found) ==
  LET busy == {i \in DOMAIN Categories : In(Categories[i], found) # {}}
      score == [i \in busy |-> CategoryScore(In(Categories[i], found))]
  IN  IF busy = {} THEN 0 ELSE SumOf(score, busy) \div Cardinality(busy)

\* The noisy-or of the categories: what is left of "benign" after each of them,
\* in ten-thousandths.
Whole == 10000
Clamped(n, most) == Min({most, Max({0, n})})
Left(found, i) == Whole - Clamped(CategoryScore(In(Categories[i], found)), Whole)
Fused(found) ==
  LET benign[i \in 0..Len(Categories)] ==
        IF i = 0 THEN Whole ELSE (benign[i - 1] * Left(found, i)) \div Whole
  IN  Whole - benign[Len(Categories)]

\* applyCriticalBoosting(): the only types with "headless" in their names are
\* the SDK's.
Headless(found) ==
  \E s \in found : s.type = "behavior.headless_browser" /\ s.value > 50
Critical(found) == \E s \in found : s.value >= 95 /\ s.confidence >= 90
ManyHigh(found) == Cardinality({s \in found : s.value >= 70}) >= 3
Boosted(score, found) ==
  LET floor == IF Headless(found) THEN Max({score, 8500}) ELSE score
      once == IF Critical(found) THEN (floor * 12) \div 10 ELSE floor
  IN  IF ManyHigh(found) THEN (once * 11) \div 10 ELSE once

\* calculateCompositeScore(): in points, rounded and clamped.
Score(found) == Clamped((Boosted(Fused(found), found) + 50) \div 100, 100)

-----------------------------------------------------------------------------
(* Verdicts and threats *)

\* decide()
decide(score, mode) ==
  CASE mode = "monitor" -> IF score >= Monitor THEN "monitor" ELSE "allow"
    [] mode = "strict"  -> IF score >= Max({Challenge, Block - 15}) THEN "block"
                           ELSE IF score >= Monitor THEN "challenge" ELSE "allow"
    [] mode = "enforce" -> IF score >= Block THEN "block"
                           ELSE IF score >= Challenge THEN "challenge" ELSE "allow"

\* classifyThreats(), with the OWASP names of the categories.
Threats(found, auth) ==
  LET has(types) == \E s \in found : s.type \in types
      when(types, threat) == IF has(types) THEN {threat} ELSE {}
  IN  when({"rate_limit.exceeded"},
           IF auth THEN "credential stuffing" ELSE "denial of service")
      \cup when({"honeypot.form_filled"},
                IF auth THEN "account creation" ELSE "spamming")
      \cup when({"honeypot.trap_endpoint", "threat.user-agent",
                 "session.sequential_ids", "session.crawl_breadth"}, "scraping")
      \cup when({"input.threat", "session.error_probing"},
                "vulnerability scanning")
      \cup (IF auth THEN when({"behavior.headless_browser"}, "credential stuffing")
                    ELSE {})

-----------------------------------------------------------------------------
(* analyze() *)

\* checkRateLimits(); in the other modes than monitor, analyze() ends with it.
RateSignal == Signal("network", "rate_limit.exceeded", 100, 100, 20)

\* What each module finds, in the order of analyze().
Findings(r) ==
  << If(r.tooFast, RateSignal), IpSignals(r.ip, r.known),
     {ThreatSignal(severity, r.source) : severity \in r.listed},
     HeaderSignals(r.headers),
     UNION {TlsSignals(tls, r.headers.chrome > 0) : tls \in r.tls},
     UNION {Http2Signals(h, r.headers.chrome > 0) : h \in r.http2},
     HoneypotSignals(r.trap, r.filled), InputSignals(r.severity, r.findings),
     SessionSignals(r.anomalies), {PatternSignal(p) : p \in r.patterns},
     UNION {analyzeBehavior(data) : data \in r.behaviour} >>

RiskInit == request \in Judged /\ signals = {} /\ next = 1

Analyze ==
  /\ next <= Len(Findings(request))
  /\ next' = next + 1
  /\ signals' = signals \cup Findings(request)[next]
  /\ UNCHANGED request

RiskSpec == RiskInit /\ [][Analyze]_riskVars

-----------------------------------------------------------------------------
Severity(verdict) ==
  CASE verdict = "allow" -> 0 [] verdict = "monitor" -> 1
    [] verdict = "challenge" -> 2 [] verdict = "block" -> 3

\* "Evidence from another layer can only raise the score" (RiskScorer.ts:11):
\* signals of categories that had none lower neither the score nor, in any
\* mode, the verdict, and hide no threat, whatever they do to the boosts.
EvidenceRaises ==
  [][ /\ signals' # signals
      /\ {s.category : s \in signals' \ signals}
           \cap {s.category : s \in signals} = {}
      => /\ Score(signals') >= Score(signals)
         /\ \A mode \in {"monitor", "strict", "enforce"} :
              Severity(decide(Score(signals'), mode))
                >= Severity(decide(Score(signals), mode))
         /\ Threats(signals, request.auth) \subseteq Threats(signals', request.auth)
    ]_riskVars

\* "For IPv6, we would need different logic.  This handles IPv4"
\* (IPAnalyzer.ts:217): the ranges say nothing of an IPv6 address.
RangesLeaveIPv6Alone ==
  next = 3 /\ request.ip.v6 /\ request.known = {} =>
    \A s \in signals : s.type \notin {"ip.bogon", "ip.datacenter"}
=============================================================================
