----------------------------- MODULE ExternalLists -----------------------------
(***************************************************************************)
(* What core asks other servers for, besides the threat feeds of module    *)
(* ThreatIntel: the Tor exit list (TorExitNodeChecker.ts), which a timer   *)
(* downloads again and which a copy on disk preserves, and the location    *)
(* and network of an address (GeoIPResolver.ts), looked up while a request *)
(* waits and then cached.                                                  *)
(*                                                                         *)
(* The publisher puts up one list after the other; a list is named by its  *)
(* place in that order.  What a resolver says of an address changes with   *)
(* time, and is named by the time it was said.                             *)
(***************************************************************************)
EXTENDS Integers, Sequences, FiniteSets, PartialFunctions

CONSTANTS
  TorLists,       \* the publisher's lists: for each a set of lines
  SingleLines, RangeLines,    \* lines that are an address, that are a range
  Special,        \* addresses and ranges that overlap special-purpose blocks
  Hosts,
  CacheTtl, LookupTimeout,    \* of the resolver's cache, of a look-up
  ListTime, MaxDownloads, MaxLookups, ListOps   \* bounds

ASSUME ListsAssumption ==
  /\ TorLists \in Seq(SUBSET (SingleLines \cup RangeLines \cup Special))
  /\ Len(TorLists) > 0
  /\ CacheTtl \in Nat \ {0} /\ LookupTimeout \in Nat \ {0}
  /\ {ListTime, MaxDownloads, MaxLookups, ListOps} \subseteq Nat \ {0}

VARIABLES
  newest,         \* the publisher's current list
  nodes,          \* the exit nodes in use
  inUse,          \* the downloaded list in use, 0 for none
  copy,           \* the list in the cache directory, 0 for none
  source, failed, \* status(): where nodes come from, whether the last one failed
  downloads,      \* in flight: for each the list its answer holds, 0 before it
  refreshTimer,
  alive,          \* counts the process's lives
  listTime,
  places,         \* GeoIPResolver.cache
  lookups,        \* requests to ip-api.com: address, age, answer (or Unsaid)
  served,         \* the answers that resolve() gave to the requests of this moment
  listOps

torVars == <<newest, nodes, inUse, copy, source, failed, downloads, refreshTimer,
             alive>>
geoVars == <<listTime, places, lookups, served>>
listVars == <<torVars, geoVars, listOps>>

Unsaid == -1
ListOperation == listOps < ListOps /\ listOps' = listOps + 1
Gone(s, i) == SubSeq(s, 1, i - 1) \o SubSeq(s, i + 1, Len(s))

-----------------------------------------------------------------------------
(* The Tor exit list *)

\* parsePlainList(): lines that are a public address or range.
collect(lines) == lines \cap ((SingleLines \cup RangeLines) \ Special)

\* load(): only single addresses are kept.
Loaded(lines) == collect(lines) \cap SingleLines

\* Mutant: every call downloads the list for itself.
RefreshAlone ==
  IF Len(downloads) < MaxDownloads THEN Append(downloads, 0) ELSE downloads

\* refresh(): concurrent calls share one download.
Refresh == IF downloads = <<>> THEN <<0>> ELSE downloads

RefreshCalled ==
  /\ ListOperation
  /\ downloads' = Refresh
  /\ UNCHANGED <<newest, nodes, inUse, copy, source, failed, refreshTimer, alive,
                 geoVars>>

StartRefresh ==
  /\ ListOperation
  /\ refreshTimer' = TRUE
  /\ downloads' = Refresh
  /\ UNCHANGED <<newest, nodes, inUse, copy, source, failed, alive, geoVars>>

RefreshDue ==
  /\ refreshTimer
  /\ ListOperation
  /\ downloads' = Refresh
  /\ UNCHANGED <<newest, nodes, inUse, copy, source, failed, refreshTimer, alive,
                 geoVars>>

\* stop(): a download in flight goes on.
StopRefresh ==
  /\ refreshTimer
  /\ refreshTimer' = FALSE
  /\ UNCHANGED <<newest, nodes, inUse, copy, source, failed, downloads, alive,
                 geoVars, listOps>>

PublishList ==
  /\ newest < Len(TorLists)
  /\ newest' = newest + 1
  /\ UNCHANGED <<nodes, inUse, copy, source, failed, downloads, refreshTimer, alive,
                 geoVars, listOps>>

Answer(i) ==
  /\ downloads[i] = 0
  /\ downloads' = [downloads EXCEPT ![i] = newest]
  /\ UNCHANGED <<newest, nodes, inUse, copy, source, failed, refreshTimer, alive,
                 geoVars, listOps>>

\* Mutant: an answer without entries is loaded as well.
Usable(list) == TRUE

\* "A truncated or empty download must not wipe a good list".
HasEntries(list) == collect(TorLists[list]) # {}

\* The rest of refresh() after the answer; writing the copy may fail, when the
\* list is in use already.
Downloaded(i, written) ==
  LET list == downloads[i] IN
  /\ list # 0 /\ HasEntries(list)
  /\ nodes' = Loaded(TorLists[list])
  /\ inUse' = list
  /\ source' = "network"
  /\ copy' = IF written THEN list ELSE copy
  /\ failed' = ~written
  /\ downloads' = Gone(downloads, i)
  /\ UNCHANGED <<newest, refreshTimer, alive, geoVars, listOps>>

\* A network error, a timeout, or an answer without entries: the list is kept.
DownloadFails(i) ==
  /\ downloads[i] # 0 => ~HasEntries(downloads[i])
  /\ failed' = TRUE
  /\ downloads' = Gone(downloads, i)
  /\ UNCHANGED <<newest, nodes, inUse, copy, source, refreshTimer, alive, geoVars,
                 listOps>>

\* A new process: the constructor loads the copy.
RestartTor ==
  /\ ListOperation
  /\ nodes' = IF copy = 0 THEN {} ELSE Loaded(TorLists[copy])
  /\ inUse' = copy
  /\ source' = IF copy = 0 THEN "none" ELSE "cache"
  /\ failed' = FALSE /\ downloads' = <<>> /\ refreshTimer' = FALSE
  /\ alive' = alive + 1
  /\ UNCHANGED <<newest, copy, geoVars>>

TorInit ==
  /\ newest = 1
  /\ nodes = {} /\ inUse = 0 /\ copy = 0 /\ source = "none" /\ failed = FALSE
  /\ downloads = <<>> /\ refreshTimer = FALSE /\ alive = 0

TorNext ==
  \/ RefreshCalled \/ StartRefresh \/ RefreshDue \/ StopRefresh
  \/ PublishList \/ RestartTor
  \/ \E i \in DOMAIN downloads :
       \/ Answer(i)
       \/ \E written \in BOOLEAN : Downloaded(i, written)
       \/ DownloadFails(i)

-----------------------------------------------------------------------------
(* The resolver *)

\* Mutant: what is cached stays valid.
EverFresh(entry) == TRUE

Fresh(entry) == listTime - entry.at <= CacheTtl

\* getCached(): an entry that is too old is removed.
Pruned(ip) == IF ip \in DOMAIN places /\ ~Fresh(places[ip])
                THEN Without(places, {ip}) ELSE places

\* resolve(), up to the look-up.
Resolve(ip) ==
  /\ places' = Pruned(ip)
  /\ IF ip \in DOMAIN places'
       THEN /\ served' = served \cup {places[ip].data}
            /\ UNCHANGED lookups
       ELSE /\ Len(lookups) < MaxLookups
            /\ lookups' =
                 Append(lookups, [ip |-> ip, age |-> 0, data |-> Unsaid])
            /\ UNCHANGED served
  /\ UNCHANGED <<torVars, listTime, listOps>>

ApiAnswers(i) ==
  /\ lookups[i].data = Unsaid
  /\ lookups' = [lookups EXCEPT ![i].data = listTime]
  /\ UNCHANGED <<torVars, listTime, places, served, listOps>>

\* resolve() after resolveFromApi().
Resolved(i) ==
  /\ lookups[i].data # Unsaid
  /\ places' = Put(places, lookups[i].ip, [data |-> lookups[i].data, at |-> listTime])
  /\ served' = served \cup {lookups[i].data}
  /\ lookups' = Gone(lookups, i)
  /\ UNCHANGED <<torVars, listTime, listOps>>

\* No answer, none that is a success, or none in time: resolve() gives null.
LookupFails(i) ==
  /\ lookups' = Gone(lookups, i)
  /\ UNCHANGED <<torVars, listTime, places, served, listOps>>

ClearCache ==
  /\ DOMAIN places # {}
  /\ places' = NoEntries
  /\ UNCHANGED <<torVars, listTime, lookups, served, listOps>>

\* Time passes: AbortSignal.timeout() ends a look-up.
GeoTick ==
  /\ listTime < ListTime
  /\ \A i \in DOMAIN lookups : lookups[i].age < LookupTimeout
  /\ listTime' = listTime + 1
  /\ lookups' = [i \in DOMAIN lookups |-> [lookups[i] EXCEPT !.age = @ + 1]]
  /\ served' = {}
  /\ UNCHANGED <<torVars, places, listOps>>

GeoInit == listTime = 0 /\ places = NoEntries /\ lookups = <<>> /\ served = {}

GeoNext ==
  \/ \E ip \in Hosts : Resolve(ip)
  \/ \E i \in DOMAIN lookups : ApiAnswers(i) \/ Resolved(i) \/ LookupFails(i)
  \/ ClearCache \/ GeoTick

ListsInit == TorInit /\ GeoInit /\ listOps = 0

ListsSpec == ListsInit /\ [][TorNext \/ GeoNext]_listVars

ListsTypeOK ==
  /\ newest \in DOMAIN TorLists
  /\ nodes \subseteq SingleLines
  /\ {inUse, copy} \subseteq 0..newest
  /\ source \in {"none", "network", "cache"}
  /\ failed \in BOOLEAN /\ refreshTimer \in BOOLEAN
  /\ downloads \in Seq(0..newest) /\ Len(downloads) <= MaxDownloads
  /\ DOMAIN places \subseteq Hosts
  /\ \A ip \in DOMAIN places : places[ip] \in [data : 0..listTime, at : 0..listTime]
  /\ served \subseteq 0..listTime

-----------------------------------------------------------------------------
(***************************************************************************)
(* While a process lives, the Tor list it uses never goes back to an older *)
(* publication and is never emptied by an answer without entries, however  *)
(* timer, callers and slow answers overlap.                                *)
(***************************************************************************)
TorListAdvances ==
  [][alive' = alive =>
       /\ inUse' >= inUse
       /\ inUse' # inUse => collect(TorLists[inUse']) # {}]_listVars

(***************************************************************************)
(* What resolve() answers was said by the resolver at most the cache's     *)
(* time to live and one look-up's timeout ago.                             *)
(***************************************************************************)
ServedFresh == \A said \in served : listTime - said <= CacheTtl + LookupTimeout
=============================================================================
