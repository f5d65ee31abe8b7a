----------------------------- MODULE ThreatIntel -----------------------------
(***************************************************************************)
(* The threat database and what fills it: entries added at run time,       *)
(* ThreatFeedSync with downloads in flight and copies on disk, and the     *)
(* JSON file of a database that was given a persistPath.  An engine has    *)
(* feeds but no file (DetectionEngine.constructor); a database of its own  *)
(* has a file but no feeds.  Every action is one stretch between awaits.   *)
(* Times are ages in ticks, so behaviours need not end: how long ago a     *)
(* feed was asked for, how long a download has been running, how long an   *)
(* entry has left.                                                         *)
(*                                                                         *)
(* ThreatDatabase (core/src/modules/threat-intel) is a database [exact,    *)
(* ranges, patterns, index, dirty] and one operator for each method.       *)
(* Identifiers are addresses (exact entries; fingerprints and JA4 hashes   *)
(* are stored the same way), ranges that cover addresses, and user-agent   *)
(* patterns.  Of an entry only its identifier, its source and the time it  *)
(* has left decide anything here, so the two lists are sets of entries:    *)
(* that an identifier added twice is reported twice is left out.           *)
(***************************************************************************)
EXTENDS Integers, Sequences, FiniteSets, PartialFunctions

CONSTANTS
  Addresses, Ranges, Patterns,
  Covers,         \* the addresses of each range
  Never,          \* expiresAt = 0
  NoIndex,        \* cidrIndex = null
  Feeds,          \* the feeds, which are also the sources of their entries
  FeedLists,      \* for each feed, the lists its publisher may put up
  Manual,         \* the source of entries added by hand and of the built-in ones
  ManualIds,      \* identifiers that are added by hand
  Builtin,        \* the built-in patterns
  MaxLife,        \* bound: the longest time an entry is given
  MinInterval,    \* a feed is not asked for more often, unless forced
  Interval,       \* of the timer
  Timeout,        \* of a download
  NoList,         \* no copy, no answer yet
  MaxCalls,       \* bound: downloads of one feed in flight
  MaxOps          \* bound: calls by users, publications, crashes

ASSUME KindsAssumption ==
  /\ Addresses \cap Ranges = {} /\ Patterns \cap (Addresses \cup Ranges) = {}
  /\ Covers \in [Ranges -> SUBSET Addresses]

-----------------------------------------------------------------------------
(* The database *)

Identifiers == Addresses \cup Ranges \cup Patterns

Entry(id, source, left) == [id |-> id, source |-> source, left |-> left]

EmptyDb == [exact |-> NoEntries, ranges |-> {}, patterns |-> {},
            index |-> NoIndex, dirty |-> FALSE]

Values(f) == {f[k] : k \in DOMAIN f}
GetAll(db) == Values(db.exact) \cup db.ranges \cup db.patterns

\* An entry is still good in the millisecond in which it expires.
IsExpired(e) == e.left # Never /\ e.left < 0

\* Without the entries es.
Dropped(db, es) ==
  [db EXCEPT !.exact = Without(@, {id \in DOMAIN @ : @[id] \in es}),
             !.ranges = @ \ es,
             !.patterns = @ \ es]

FromSource(db, source) == {e \in GetAll(db) : e.source = source}

\* Entries es with distinct identifiers, stored by kind; an address has one entry.
Stored(db, es) ==
  LET Of(S) == {e \in es : e.id \in S}
      new == {e.id : e \in Of(Addresses)}
  IN [db EXCEPT
       !.exact = [id \in DOMAIN @ \cup new |->
                    IF id \in new THEN CHOOSE e \in es : e.id = id ELSE @[id]],
       !.ranges = @ \cup Of(Ranges),
       !.patterns = @ \cup Of(Patterns)]

Reindexed(db) == [db EXCEPT !.index = NoIndex]
Dirtied(db) == [db EXCEPT !.dirty = TRUE]

\* bulkAdd() and importFromJson(), entry by entry add().
BulkAdd(db, es) ==
  LET added == Stored(db, es)
  IN CASE es = {} -> db
       [] \E e \in es : e.id \in Ranges -> Dirtied(Reindexed(added))
       [] OTHER -> Dirtied(added)

Add(db, e) == BulkAdd(db, {e})

Remove(db, id) ==
  LET gone == {e \in GetAll(db) : e.id = id}
  IN Reindexed(IF gone = {} THEN db ELSE Dirtied(Dropped(db, gone)))

\* Mutant: the index built from the old ranges stays in use.
ReplaceUnindexed(db, source, es) ==
  Dirtied(Stored(Dropped(db, FromSource(db, source)), es))

ReplaceSource(db, source, es) ==
  Dirtied(Reindexed(Stored(Dropped(db, FromSource(db, source)), es)))

PruneExpired(db) ==
  LET gone == {e \in GetAll(db) : IsExpired(e)}
  IN Reindexed(IF gone = {} THEN db ELSE Dirtied(Dropped(db, gone)))

\* getCidrIndex(): rebuilt from the ranges when there is none.
Indexed(db) == IF db.index = NoIndex THEN db.ranges ELSE db.index

\* checkIP() and checkUserAgent(), the latter for a pattern contained in the
\* user agent: the entries that match.
Matches(db, x) ==
  {e \in (IF x \in DOMAIN db.exact THEN {db.exact[x]} ELSE {})
           \cup {e \in Indexed(db) : x \in Covers[e.id]}
           \cup {e \in db.patterns : e.id = x} : ~IsExpired(e)}

\* checkIP() leaves the index behind.
Checked(db) == [db EXCEPT !.index = Indexed(db)]

-----------------------------------------------------------------------------
(* What is bounded, and the state *)

Lives == 0..MaxLife \cup {Never}
Entries ==
  [id : Identifiers, source : Feeds \cup {Manual}, left : Lives \cup -1..MaxLife]

ASSUME ThreatAssumption ==
  /\ Manual \notin Feeds /\ MaxLife \in Nat /\ Builtin \subseteq Patterns
  /\ \A f \in Feeds : \A ids \in FeedLists[f] :
       ids # {} /\ ids \subseteq Addresses \cup Ranges /\ ids # NoList
  /\ ManualIds \subseteq Identifiers
  /\ MinInterval \in Nat /\ Interval \in Nat \ {0} /\ Timeout \in Nat \ {0}
  /\ MaxCalls \in Nat \ {0} /\ MaxOps \in Nat

VARIABLES
  persist,        \* the database has a file (and there are no feeds)
  db,
  file,           \* entries in the file; none if it is missing or torn
  autosave,       \* the autosave interval is running
  asked,          \* for each feed, how long ago lastSync is, up to MinInterval
  fetching,       \* for each feed, its downloads in flight in the order of their start
  syncTimer,      \* age of the sync interval, or Stopped
  copies,         \* for each feed, the list in the cache directory
  published,      \* for each feed, the list its publisher serves
  ops,            \* bound
  listed,         \* history: the entries a source has listed and nobody removed
  saved           \* history: listed when the file was written

dbVars == <<db, listed>>
fileVars == <<file, autosave, saved>>
syncVars == <<asked, fetching, syncTimer, copies>>
threatVars == <<persist, dbVars, fileVars, syncVars, published, ops>>

Stopped == -1
Call(forced) == [age |-> 0, forced |-> forced, text |-> NoList]
FromFeed(f, ids) == {Entry(id, f, Never) : id \in ids}
Builtins == {Entry(p, Manual, Never) : p \in Builtin}

\* Entries of the copies in the cache directory (an address that two feeds
\* list goes to one of them).
Cached == UNION {FromFeed(f, copies[f]) : f \in {g \in Feeds : copies[g] # NoList}}

\* The constructor of ThreatDatabase, with what could be loaded from its file.
Opened(es) == BulkAdd(BulkAdd(EmptyDb, es), Builtins)

ThreatInit ==
  /\ persist \in BOOLEAN
  /\ db = Opened({})
  /\ listed = Builtins
  /\ file = {}
  /\ saved = {}
  /\ autosave = persist
  /\ asked = [f \in Feeds |-> MinInterval]
  /\ fetching = [f \in Feeds |-> <<>>]
  /\ syncTimer = Stopped
  /\ copies = [f \in Feeds |-> NoList]
  /\ published \in {p \in [Feeds -> UNION {FeedLists[f] : f \in Feeds}] :
                      \A f \in Feeds : p[f] \in FeedLists[f]}
  /\ ops = 0

Operation == ops < MaxOps /\ ops' = ops + 1

---------------------------------------------------------------------------
(* The database.                                                           *)

AddEntry(id, left) ==
  LET e == Entry(id, Manual, left)
      replaced == {x \in listed : x.id = id /\ x.source = Manual /\ id \in Addresses}
  IN /\ Operation
     /\ db' = Add(db, e)
     /\ listed' = (listed \ replaced) \cup {e}
     /\ UNCHANGED <<persist, fileVars, syncVars, published>>

RemoveEntry(id) ==
  /\ Operation
  /\ db' = Remove(db, id)
  /\ listed' = {e \in listed : e.id # id}
  /\ UNCHANGED <<persist, fileVars, syncVars, published>>

Prune ==
  /\ db' = PruneExpired(db)
  /\ UNCHANGED <<persist, listed, fileVars, syncVars, published, ops>>

\* A request is checked against the database.
Check ==
  /\ db' = Checked(db)
  /\ UNCHANGED <<persist, listed, fileVars, syncVars, published, ops>>

\* saveToDisk()
Save ==
  IF persist /\ db.dirty
  THEN /\ file' = GetAll(db)
       /\ saved' = listed
       /\ db' = [db EXCEPT !.dirty = FALSE]
  ELSE UNCHANGED <<file, saved, db>>

AutoSave ==
  /\ autosave
  /\ Save
  /\ UNCHANGED <<persist, listed, autosave, syncVars, published, ops>>

---------------------------------------------------------------------------
(* The feeds.                                                              *)

\* Mutant: lastSync is set for a feed that is skipped, too.
DueOrSkipped(due) == Feeds

\* The feeds whose lastSync is set.
Stamped(due) == due

Due(f, forced) == forced \/ asked[f] >= MinInterval

\* syncAll(): sync() for every feed, up to the download.
SyncAll(forced) ==
  LET due == {f \in Feeds : Due(f, forced)}
  IN /\ \A f \in due : Len(fetching[f]) < MaxCalls
     /\ fetching' = [f \in Feeds |->
                    IF f \in due THEN Append(fetching[f], Call(forced)) ELSE fetching[f]]
     /\ asked' = [f \in Feeds |-> IF f \in Stamped(due) THEN 0 ELSE asked[f]]

\* The engine's init(): start() sets the timer and forces a first sync.
Start ==
  /\ ~persist /\ syncTimer = Stopped
  /\ Operation
  /\ syncTimer' = 0
  /\ SyncAll(TRUE)
  /\ UNCHANGED <<persist, dbVars, fileVars, copies, published>>

TimerFires ==
  /\ syncTimer = Interval
  /\ syncTimer' = 0
  /\ SyncAll(FALSE)
  /\ UNCHANGED <<persist, dbVars, fileVars, copies, published, ops>>

\* The engine's shutdown(), or destroy() of a database of its own: downloads in
\* flight go on.
Shutdown ==
  /\ persist \/ syncTimer # Stopped
  /\ Operation
  /\ syncTimer' = Stopped
  /\ autosave' = FALSE
  /\ Save
  /\ UNCHANGED <<persist, listed, asked, fetching, copies, published>>

\* The process ends and is started again; it may end while it writes the file.
Restart(torn) ==
  LET left == IF torn THEN {} ELSE file
  IN /\ torn => persist /\ autosave /\ db.dirty
     /\ Operation
     /\ file' = left
     /\ saved' = (IF torn THEN {} ELSE saved)
     /\ IF persist
        THEN /\ db' = Opened(left)
             /\ listed' = saved' \cup Builtins
        ELSE /\ db' = Dirtied(Reindexed(Stored(Opened({}), Cached)))
             /\ listed' = Cached \cup Builtins
     /\ autosave' = persist
     /\ asked' = [f \in Feeds |-> MinInterval]
     /\ fetching' = [f \in Feeds |-> <<>>]
     /\ syncTimer' = Stopped
     /\ UNCHANGED <<persist, copies, published>>

\* The publisher puts up another list.
Publish(f, ids) ==
  /\ ids # published[f]
  /\ Operation
  /\ published' = [published EXCEPT ![f] = ids]
  /\ UNCHANGED <<persist, dbVars, fileVars, syncVars>>

\* The publisher's server answers a download with the list of the moment.
Serve(f, i) ==
  /\ fetching[f][i].text = NoList
  /\ fetching' = [fetching EXCEPT ![f][i].text = published[f]]
  /\ UNCHANGED <<persist, dbVars, fileVars, asked, syncTimer, copies, published,
                 ops>>

Ended(f, i) ==
  fetching' = [fetching EXCEPT
                 ![f] = SubSeq(@, 1, i - 1) \o SubSeq(@, i + 1, Len(@))]

\* The rest of sync() with a list; writing its copy may fail.
Arrive(f, i, written) ==
  LET ids == fetching[f][i].text
  IN /\ ids # NoList
     /\ db' = ReplaceSource(db, f, FromFeed(f, ids))
     /\ listed' = {e \in listed : e.source # f} \cup FromFeed(f, ids)
     /\ copies' = (IF written THEN [copies EXCEPT ![f] = ids] ELSE copies)
     /\ Ended(f, i)
     /\ UNCHANGED <<persist, fileVars, asked, syncTimer, published, ops>>

\* The rest of sync() without one: an error, the timeout, no usable entries.
Fail(f, i) ==
  /\ Ended(f, i)
  /\ UNCHANGED <<persist, dbVars, fileVars, asked, syncTimer, copies, published,
                 ops>>

---------------------------------------------------------------------------
(* Time.                                                                   *)

Older(e) == [e EXCEPT !.left = IF @ = Never \/ @ < 0 THEN @ ELSE @ - 1]
AllOlder(es) == {Older(e) : e \in es}
Aged(d) ==
  [d EXCEPT !.exact = [id \in DOMAIN @ |-> Older(@[id])],
            !.ranges = AllOlder(@),
            !.patterns = AllOlder(@),
            !.index = IF @ = NoIndex THEN @ ELSE AllOlder(@)]

\* The timer and the timeout of a download fire when they are due.
ThreatTick ==
  /\ syncTimer # Interval
  /\ \A f \in Feeds : \A i \in DOMAIN fetching[f] : fetching[f][i].age < Timeout
  /\ db' = Aged(db)
  /\ listed' = {e \in AllOlder(listed) : ~IsExpired(e)}
  /\ file' = AllOlder(file)
  /\ saved' = {e \in AllOlder(saved) : ~IsExpired(e)}
  /\ asked' = [f \in Feeds |->
                IF asked[f] < MinInterval THEN asked[f] + 1 ELSE asked[f]]
  /\ fetching' = [f \in Feeds |->
                 [i \in DOMAIN fetching[f] |-> [fetching[f][i] EXCEPT !.age = @ + 1]]]
  /\ syncTimer' = (IF syncTimer = Stopped THEN syncTimer ELSE syncTimer + 1)
  /\ UNCHANGED <<persist, autosave, copies, published, ops>>

ServeSome(f) == \E i \in DOMAIN fetching[f] : Serve(f, i)
ArriveSome(f) ==
  \E i \in DOMAIN fetching[f], written \in BOOLEAN : Arrive(f, i, written)

ThreatNext ==
  \/ \E id \in ManualIds, left \in Lives : AddEntry(id, left)
  \/ \E id \in {e.id : e \in listed} : RemoveEntry(id)
  \/ Prune \/ Check \/ AutoSave
  \/ Start \/ TimerFires \/ Shutdown
  \/ \E torn \in BOOLEAN : Restart(torn)
  \/ \E f \in Feeds : \/ \E ids \in FeedLists[f] : Publish(f, ids)
                      \/ ServeSome(f) \/ ArriveSome(f)
                      \/ \E i \in DOMAIN fetching[f] : Fail(f, i)
  \/ ThreatTick

ThreatSpec == ThreatInit /\ [][ThreatNext]_threatVars

\* Timers fire, and a feed that is asked again and again answers sometimes.
FeedFairness ==
  /\ WF_threatVars(ThreatTick) /\ WF_threatVars(TimerFires)
  /\ \A f \in Feeds : SF_threatVars(ServeSome(f)) /\ SF_threatVars(ArriveSome(f))

FairThreatSpec == ThreatSpec /\ FeedFairness

---------------------------------------------------------------------------
(* Properties.                                                             *)

ThreatTypeOK ==
  /\ db.ranges \cup db.patterns \cup listed \cup saved \cup file \subseteq Entries
  /\ DOMAIN db.exact \subseteq Addresses
  /\ \A id \in DOMAIN db.exact : db.exact[id] \in Entries
  /\ db.index = NoIndex \/ db.index \subseteq Entries
  /\ db.dirty \in BOOLEAN /\ persist \in BOOLEAN /\ autosave \in BOOLEAN
  /\ asked \in [Feeds -> 0..MinInterval]
  /\ syncTimer \in {Stopped} \cup 0..Interval
  /\ \A f \in Feeds :
       /\ {copies[f], published[f]} \subseteq FeedLists[f] \cup {NoList}
       /\ \A i \in DOMAIN fetching[f] :
            /\ fetching[f][i].age \in 0..Timeout
            /\ fetching[f][i].text \in FeedLists[f] \cup {NoList}

Sources(es) == {e.source : e \in es}

\* No address is on the lists of two sources, which is where ListedExactly ends:
\* addresses have one entry each (see ManualKept).
MayList(source) ==
  IF source = Manual THEN ManualIds ELSE UNION FeedLists[source]
OneSourcePerAddress ==
  \A s, t \in Feeds \cup {Manual} :
    s # t => Addresses \cap MayList(s) \cap MayList(t) = {}

\* What a look-up finds is what the sources have listed and nobody removed:
\* nothing is missed or found again because the index is built lazily, a feed's
\* entries are replaced, entries expire or are pruned, a download fails, or the
\* process is restarted with the file or the copies it left behind.
ListedExactly ==
  \A x \in Addresses \cup Patterns :
    Sources(Matches(db, x)) =
      Sources({e \in listed : e.id = x \/ (e.id \in Ranges /\ x \in Covers[e.id])})

\* An address added by hand stays on the list until it is removed or expires:
\* replacing a feed's entries leaves the others alone ("Atomically replace every
\* entry from one feed source", replaceSource()).
ManualKept ==
  \A e \in listed : e.source = Manual /\ e.id \in Addresses => Matches(db, e.id) # {}

\* As long as the engine runs and its feeds answer now and then, the database ends
\* up with the lists that are published.
FeedsCatchUp ==
  <>[](syncTimer # Stopped) =>
    <>[](\A f \in Feeds : {e.id : e \in {x \in GetAll(db) : x.source = f}} = published[f])
=============================================================================
