--------------------------- MODULE AddressTrackers ---------------------------
(***************************************************************************)
(* What the analyzers remember of addresses between requests, all of it    *)
(* pruned lazily: the request rates of IPAnalyzer, the subnet rotations    *)
(* and traffic flows of ResidentialProxyDetector, and the addresses seen   *)
(* behind a TLS fingerprint by TLSFingerprinter.  The three analyzers      *)
(* share nothing but the clock; `log', a history variable, lists what each *)
(* of them has looked at, and `raised' the signals of the latest one.      *)
(***************************************************************************)
EXTENDS Integers, Sequences, FiniteSets, FiniteSetsExt, BoundedMap

CONSTANTS
  Ips, Prints, NoPrint,
  Kinds,             \* of requests: "page", "api", "asset"
  SubnetOf,          \* the /24 of an IPv4 address, NoSubnet for IPv6
  NoSubnet,
  Minute, Hour,      \* of the rates
  MostPerMinute,     \* the rate that raises ip.high_velocity (60)
  RotationSpan,      \* how long an address counts as rotated (5 minutes)
  MostRotations,     \* addresses before a rotation is rapid (3)
  FlowSpan,          \* age a flow needs to be judged (10 seconds)
  ManyCalls,         \* API calls of a scraper (20)
  PrintSpan,         \* silence after which a fingerprint is forgotten
  MostSharing,       \* addresses that may share a fingerprint (10)
  TrackerTime, MaxLog    \* bounds: the clock, the requests analyzed

ASSUME TrackersAssumption ==
  /\ SubnetOf \in [Ips -> STRING] /\ NoSubnet \in STRING
  /\ {Minute, Hour, RotationSpan, PrintSpan} \subseteq Nat \ {0}
  /\ Minute <= Hour
  /\ {MostPerMinute, MostRotations, FlowSpan, ManyCalls, MostSharing,
      TrackerTime, MaxLog} \subseteq Nat
  /\ NoPrint \notin Prints /\ Kinds \subseteq {"page", "api", "asset"}

VARIABLES
  date, swept,       \* Date.date(); the sweep due at this time has run
  ipRequestCounts,   \* IPAnalyzer
  subnets, flows,    \* ResidentialProxyDetector
  prints, sweeping,  \* TLSFingerprinter, its sweep interval
  log, raised

ipVars == <<ipRequestCounts>>
proxyVars == <<subnets, flows>>
printVars == <<prints, sweeping>>
trackerVars == <<date, swept, ipVars, proxyVars, printVars, log, raised>>

ValueOr(f, k, otherwise) == IF k \in DOMAIN f THEN f[k] ELSE otherwise

Seen(by, ip, print) ==
  /\ Len(log) < MaxLog
  /\ log' = Append(log, [by |-> by, ip |-> ip, print |-> print, at |-> date])
  /\ UNCHANGED <<date, swept>>

-----------------------------------------------------------------------------
(* IPAnalyzer *)

\* Mutant: the hour starts again and the count does not.
KeptCount(rate) == IF date - rate.first > Hour
                     THEN [rate EXCEPT !.first = date] ELSE rate

\* The count starts again an hour after its first request.
Hourly(rate) == IF date - rate.first > Hour
                  THEN [rate EXCEPT !.count = 1, !.first = date] ELSE rate

Counted(ip) ==
  IF Has(ipRequestCounts, ip)
    THEN Hourly([ValueOf(ipRequestCounts, ip) EXCEPT !.count = @ + 1, !.last = date])
    ELSE [count |-> 1, first |-> date, last |-> date]

\* requestsPerMinute > 60, with at least one minute elapsed.
HighVelocity(rate) ==
  rate.count * Minute > MostPerMinute * Max({date - rate.first, Minute})

TrackRequestVelocity(ip) ==
  /\ Seen("rates", ip, NoPrint)
  /\ LET rate == Counted(ip) IN
     /\ ipRequestCounts' =
          IF Has(ipRequestCounts, ip)
            THEN Mutate(AfterGet(ipRequestCounts, ip), ip, rate)
            ELSE AfterSet(ipRequestCounts, ip, rate)
     /\ raised' = IF HighVelocity(rate) THEN {"ip.high_velocity"} ELSE {}
  /\ UNCHANGED <<proxyVars, printVars>>

CleanUpRates ==
  /\ ipRequestCounts' =
       AfterDeleteAll(ipRequestCounts,
                      {ip \in KeysOf(ipRequestCounts) :
                         date - ValueOf(ipRequestCounts, ip).last > Hour})
  /\ UNCHANGED <<date, swept, proxyVars, printVars, log, raised>>

-----------------------------------------------------------------------------
(* ResidentialProxyDetector *)

\* filter(): the visits of the last `span'.
Younger(visits, span) ==
  LET young[i \in 0..Len(visits)] ==
        IF i = 0 THEN <<>>
        ELSE IF date - visits[i].at < span THEN Append(young[i - 1], visits[i])
        ELSE young[i - 1]
  IN  young[Len(visits)]

\* Mutant: a visit still counts at the moment it is too old.
StillRotating(visits) == Younger(visits, RotationSpan + 1)

\* The visits to a subnet that are young enough to count.
Rotating(visits) == Younger(visits, RotationSpan)

SubnetVelocity(ip, print) ==
  LET subnet == SubnetOf[ip]
      young == Rotating(ValueOr(subnets, subnet, <<>>))
      others == {i \in DOMAIN young : young[i].print = print /\ young[i].ip # ip}
  IN  IF print = NoPrint \/ subnet = NoSubnet
        THEN [subnets |-> subnets, signals |-> {}]
        ELSE [subnets |-> Put(subnets, subnet,
                Append(young, [ip |-> ip, print |-> print, at |-> date])),
              signals |-> IF Cardinality(others) > MostRotations
                            THEN {"proxy.subnet_velocity_anomaly"} ELSE {}]

FlowOf(ip, kind) ==
  LET flow == ValueOr(flows, ip, [page |-> 0, api |-> 0, asset |-> 0, first |-> date])
  IN  [flow EXCEPT ![kind] = @ + 1]

ScraperFlow(flow) ==
  /\ date - flow.first > FlowSpan /\ flow.api > ManyCalls
  /\ flow.page = 0 /\ flow.asset = 0

AnalyzeProxy(ip, print, kind) ==
  /\ Seen("proxies", ip, print)
  /\ subnets' = SubnetVelocity(ip, print).subnets
  /\ flows' = Put(flows, ip, FlowOf(ip, kind))
  /\ raised' = SubnetVelocity(ip, print).signals
               \cup IF ScraperFlow(FlowOf(ip, kind))
                      THEN {"proxy.non_residential_flow"} ELSE {}
  /\ UNCHANGED <<ipVars, printVars>>

CleanUpProxies ==
  /\ LET young == [s \in DOMAIN subnets |-> Rotating(subnets[s])] IN
     subnets' = Without(young, {s \in DOMAIN young : young[s] = <<>>})
  /\ flows' = Without(flows, {ip \in DOMAIN flows :
                                date - flows[ip].first > Hour})
  /\ UNCHANGED <<date, swept, ipVars, printVars, log, raised>>

-----------------------------------------------------------------------------
(* TLSFingerprinter *)

TrackFingerprintFrequency(print, ip) ==
  /\ Seen("prints", ip, print)
  /\ LET ips == ValueOr(prints, print, [last |-> date, ips |-> {}]).ips \cup {ip} IN
     /\ prints' = Put(prints, print, [last |-> date, ips |-> ips])
     /\ raised' = IF Cardinality(ips) > MostSharing
                    THEN {"tls.fingerprint_botnet_heuristic"} ELSE {}
  /\ UNCHANGED <<ipVars, proxyVars, sweeping>>

\* Mutant: the sweep looks at nothing.
SilentForNobody == {}

SilentPrints == {p \in DOMAIN prints : date - prints[p].last > PrintSpan}

\* cleanup(), which the constructor's interval calls.
Sweep ==
  /\ sweeping /\ ~swept
  /\ prints' = Without(prints, SilentPrints)
  /\ swept' = TRUE
  /\ UNCHANGED <<date, ipVars, proxyVars, sweeping, log, raised>>

DestroyPrints ==
  /\ sweeping
  /\ sweeping' = FALSE /\ prints' = NoEntries
  /\ UNCHANGED <<date, swept, ipVars, proxyVars, log, raised>>

-----------------------------------------------------------------------------
\* One unit of time is the period of the sweep.
TrackersTick ==
  /\ date < TrackerTime /\ (sweeping => swept)
  /\ date' = date + 1 /\ swept' = FALSE
  /\ UNCHANGED <<ipVars, proxyVars, printVars, log, raised>>

TrackersInit ==
  /\ date = 0 /\ swept = FALSE
  /\ ipRequestCounts = EmptyMap
  /\ subnets = NoEntries /\ flows = NoEntries
  /\ prints = NoEntries
  /\ sweeping \in BOOLEAN      \* FALSE: no TLSFingerprinter is in use
  /\ log = <<>> /\ raised = {}

RatesNext == (\E ip \in Ips : TrackRequestVelocity(ip)) \/ CleanUpRates
ProxyNext ==
  \/ \E ip \in Ips, p \in Prints \cup {NoPrint}, kind \in Kinds :
       AnalyzeProxy(ip, p, kind)
  \/ CleanUpProxies
PrintsNext ==
  \/ \E p \in Prints, ip \in Ips : TrackFingerprintFrequency(p, ip)
  \/ DestroyPrints
ClockNext == Sweep \/ TrackersTick

TrackersNext == RatesNext \/ ProxyNext \/ PrintsNext \/ ClockNext

TrackersSpec == TrackersInit /\ [][TrackersNext]_trackerVars

TrackersTypeOK ==
  /\ date \in 0..TrackerTime /\ swept \in BOOLEAN /\ sweeping \in BOOLEAN
  /\ KeysOf(ipRequestCounts) \subseteq Ips
  /\ \A ip \in KeysOf(ipRequestCounts) :
       ValueOf(ipRequestCounts, ip)
         \in [count : 1..MaxLog, first : 0..date, last : 0..date]
  /\ \A ip \in DOMAIN flows : flows[ip].first <= date
  /\ \A p \in DOMAIN prints : prints[p].ips \in SUBSET Ips
  /\ Len(log) <= MaxLog

-----------------------------------------------------------------------------
(* What a client can count on *)

Latest == log[Len(log)]
LookedAt(by) == {i \in DOMAIN log : log[i].by = by}
RequestsOf(ip) == {i \in LookedAt("rates") : log[i].ip = ip}

(***************************************************************************)
(* A client that keeps to half the rate limit in every minute is never     *)
(* reported as too fast, however long it stays and whatever is evicted or  *)
(* cleaned up in between: the average over the record's life, cut off at   *)
(* one minute below and at one hour above, cannot invent a burst.          *)
(***************************************************************************)
SteadyNotFlagged ==
  "ip.high_velocity" \in raised =>
    \E t \in 0..date :
      2 * Cardinality({i \in RequestsOf(Latest.ip) : log[i].at \in t..(t + Minute - 1)})
        > MostPerMinute

(***************************************************************************)
(* A rotation is reported exactly when more than MostRotations visits of   *)
(* the same device from other addresses of the subnet are younger than     *)
(* RotationSpan, whenever the lists were last pruned.  (Each change of the  *)
(* address counts: ResidentialProxyDetector.ts:27 speaks of distinct IPs,  *)
(* and two that take turns are enough.)                                    *)
(***************************************************************************)
Rotated ==
  {i \in LookedAt("proxies") :
     /\ log[i].print = Latest.print /\ log[i].ip # Latest.ip
     /\ SubnetOf[log[i].ip] = SubnetOf[Latest.ip]
     /\ Latest.at - log[i].at < RotationSpan}
RotationExact ==
  log # <<>> /\ Latest.by = "proxies" /\ Latest.print # NoPrint
    /\ SubnetOf[Latest.ip] # NoSubnet
  => (("proxy.subnet_velocity_anomaly" \in raised)
        <=> (Cardinality(Rotated) > MostRotations))

(***************************************************************************)
(* A fingerprint is reported as a botnet's only for addresses that used it *)
(* without a silence longer than PrintSpan and one period of the sweep:    *)
(* while the sweep runs, nothing older takes part.                         *)
(***************************************************************************)
Uses(print) == {i \in LookedAt("prints") : log[i].print = print}
Unbroken(i) ==
  \A j \in Uses(log[i].print) \cap i..(Len(log) - 1) :
    \E k \in Uses(log[i].print) :
      k > j /\ log[k].at - log[j].at <= PrintSpan + 1
SharedWithoutPause ==
  sweeping /\ "tls.fingerprint_botnet_heuristic" \in raised =>
    Cardinality({log[i].ip : i \in {u \in Uses(Latest.print) : Unbroken(u)}})
      > MostSharing

(***************************************************************************)
(* What is reported of an address has happened, however the counters are   *)
(* averaged, pruned, evicted and started again in between.                 *)
(***************************************************************************)
ReportsJustified == SteadyNotFlagged /\ RotationExact /\ SharedWithoutPause
=============================================================================
