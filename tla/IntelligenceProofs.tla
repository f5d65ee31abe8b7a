-------------------------- MODULE IntelligenceProofs --------------------------
(***************************************************************************)
(* Theorems about what a server learns from others and of its clients: the *)
(* threat database and its feeds, the Tor exit list and the locations of   *)
(* addresses, signed requests.                                             *)
(***************************************************************************)
EXTENDS ThreatIntel, ExternalLists, SignedRequests, TLAPS

-----------------------------------------------------------------------------
(* ThreatDatabase: which entries each method leaves. *)

\* The parts of a database; what its index is built from is said by IndexOK.
Shape(d) ==
  /\ d = [exact |-> d.exact, ranges |-> d.ranges, patterns |-> d.patterns,
          index |-> d.index, dirty |-> d.dirty]
  /\ DOMAIN d.exact \subseteq Addresses
  /\ \A k \in DOMAIN d.exact : d.exact[k] \in Entries /\ d.exact[k].id = k
  /\ d.ranges \subseteq {e \in Entries : e.id \in Ranges}
  /\ d.patterns \subseteq {e \in Entries : e.id \in Patterns}

\* The lazy index is missing or up to date.
IndexOK(d) == d.index \in {NoIndex, d.ranges}

Unexpired(es) == {e \in es : ~IsExpired(e)}

\* Entries that do not overwrite each other.
Unique(es) ==
  \A e, g \in es : e.id \in Addresses /\ e.id = g.id => e = g

\* The entries of S that the addresses among es do not replace.
Others(S, es) ==
  {e \in S : ~(e.id \in Addresses /\ \E g \in es : g.id = e.id)}

LEMMA GetAllFacts ==
  ASSUME NEW d, Shape(d)
  PROVE  /\ GetAll(d) \subseteq Entries
         /\ Unique(GetAll(d))
         /\ \A e : e \in GetAll(d) <=>
              \/ e.id \in DOMAIN d.exact /\ e = d.exact[e.id]
              \/ e \in d.ranges \/ e \in d.patterns
<1>1. \A e : e \in GetAll(d) <=>
        \/ e.id \in DOMAIN d.exact /\ e = d.exact[e.id]
        \/ e \in d.ranges \/ e \in d.patterns
  BY DEF Shape, GetAll, Values
<1>2. GetAll(d) \subseteq Entries
  BY <1>1 DEF Shape
<1>3. Unique(GetAll(d))
  BY <1>1, KindsAssumption DEF Shape, Unique
<1> QED
  BY <1>1, <1>2, <1>3

LEMMA StoredFacts ==
  ASSUME NEW d, Shape(d), NEW es \in SUBSET Entries, Unique(es)
  PROVE  /\ Shape(Stored(d, es))
         /\ GetAll(Stored(d, es)) = Others(GetAll(d), es) \cup es
         /\ Stored(d, es).index = d.index
         /\ (\A e \in es : e.id \notin Ranges) => Stored(d, es).ranges = d.ranges
<1> DEFINE new == {e.id : e \in {e \in es : e.id \in Addresses}}
           exact == [id \in DOMAIN d.exact \cup new |->
             IF id \in new THEN CHOOSE e \in es : e.id = id ELSE d.exact[id]]
           n == Stored(d, es)
<1>1. /\ n = [exact |-> n.exact, ranges |-> n.ranges, patterns |-> n.patterns,
              index |-> n.index, dirty |-> n.dirty]
      /\ n.exact = exact
      /\ n.ranges = d.ranges \cup {e \in es : e.id \in Ranges}
      /\ n.patterns = d.patterns \cup {e \in es : e.id \in Patterns}
      /\ n.index = d.index
  <2>1. n = [d EXCEPT !.exact = exact,
                      !.ranges = d.ranges \cup {e \in es : e.id \in Ranges},
                      !.patterns = d.patterns \cup {e \in es : e.id \in Patterns}]
    BY DEF Stored
  <2> HIDE DEF n, exact
  <2> QED
    BY <2>1 DEF Shape
<1>2. \A e \in es : e.id \in Addresses => (CHOOSE g \in es : g.id = e.id) = e
  <2> SUFFICES ASSUME NEW e \in es, e.id \in Addresses
               PROVE  (CHOOSE g \in es : g.id = e.id) = e
    OBVIOUS
  <2>1. PICK c : c = CHOOSE g \in es : g.id = e.id
    OBVIOUS
  <2>2. c \in es /\ c.id = e.id
    BY <2>1
  <2>3. c = e
    BY <2>2 DEF Unique
  <2> QED
    BY <2>1, <2>3
<1>3. \A id \in new : \E e \in es : e.id = id /\ id \in Addresses /\ n.exact[id] = e
  BY <1>1, <1>2
<1>4. \A id \in DOMAIN d.exact \ new : n.exact[id] = d.exact[id]
  BY <1>1
<1>5. DOMAIN n.exact = DOMAIN d.exact \cup new
  BY <1>1
<1>6. \A e \in es : e.id \in Addresses \cup Ranges \cup Patterns
  BY DEF Entries, Identifiers
<1> HIDE DEF n
<1>7. Shape(n)
  BY <1>1, <1>3, <1>4, <1>5 DEF Shape
<1>8. GetAll(n) = Others(GetAll(d), es) \cup es
  <2>1. ASSUME NEW e \in GetAll(n) PROVE e \in Others(GetAll(d), es) \cup es
    <3>1. CASE e.id \in DOMAIN n.exact /\ e = n.exact[e.id]
      BY <1>3, <1>4, <1>5, <3>1, GetAllFacts DEF Others, Shape
    <3>2. CASE e \in n.ranges
      BY <1>1, <3>2, GetAllFacts, KindsAssumption DEF Others, Shape
    <3>3. CASE e \in n.patterns
      BY <1>1, <3>3, GetAllFacts, KindsAssumption DEF Others, Shape
    <3> QED
      BY <1>7, <2>1, <3>1, <3>2, <3>3, GetAllFacts
  <2>2. ASSUME NEW e \in es PROVE e \in GetAll(n)
    <3>1. CASE e.id \in Addresses
      <4>1. e.id \in new /\ n.exact[e.id] = e
        BY <1>1, <1>2, <3>1
      <4> QED
        BY <1>5, <1>7, <4>1, GetAllFacts
    <3> QED
      BY <1>1, <1>6, <1>7, <3>1, GetAllFacts
  <2>3. ASSUME NEW e \in Others(GetAll(d), es) PROVE e \in GetAll(n)
    <3>1. CASE e.id \in DOMAIN d.exact /\ e = d.exact[e.id]
      <4>1. e.id \in Addresses
        BY <3>1 DEF Shape
      <4>2. e.id \notin new
        BY <2>3, <4>1 DEF Others
      <4> QED
        BY <1>4, <1>5, <1>7, <3>1, <4>2, GetAllFacts
    <3> QED
      BY <1>1, <1>7, <2>3, <3>1, GetAllFacts DEF Others
  <2> QED
    BY <2>1, <2>2, <2>3
<1>9. (\A e \in es : e.id \notin Ranges) => n.ranges = d.ranges
  BY <1>1
<1> QED
  BY <1>1, <1>7, <1>8, <1>9 DEF n

LEMMA DroppedFacts ==
  ASSUME NEW d, Shape(d), NEW es
  PROVE  /\ Shape(Dropped(d, es))
         /\ GetAll(Dropped(d, es)) = GetAll(d) \ es
<1> DEFINE n == Dropped(d, es)
           gone == {id \in DOMAIN d.exact : d.exact[id] \in es}
<1>1. /\ n = [exact |-> n.exact, ranges |-> n.ranges, patterns |-> n.patterns,
              index |-> n.index, dirty |-> n.dirty]
      /\ n.exact = Without(d.exact, gone)
      /\ n.ranges = d.ranges \ es
      /\ n.patterns = d.patterns \ es
  <2> HIDE DEF gone
  <2>1. n = [d EXCEPT !.exact = Without(d.exact, gone), !.ranges = d.ranges \ es,
                      !.patterns = d.patterns \ es]
    BY DEF Dropped, gone
  <2> HIDE DEF n
  <2> QED
    BY <2>1 DEF Shape
<1> HIDE DEF n
<1>2. /\ DOMAIN n.exact = DOMAIN d.exact \ gone
      /\ \A id \in DOMAIN n.exact : n.exact[id] = d.exact[id]
  BY <1>1 DEF Without
<1>3. Shape(n)
  BY <1>1, <1>2 DEF Shape
<1>4. GetAll(n) = GetAll(d) \ es
  BY <1>1, <1>2, <1>3, GetAllFacts
<1> QED
  BY <1>3, <1>4 DEF n

\* GetAll() looks at neither the index nor the dirty flag.
LEMMA MarkedFacts ==
  ASSUME NEW d, Shape(d)
  PROVE  /\ Shape(Reindexed(d)) /\ GetAll(Reindexed(d)) = GetAll(d)
         /\ IndexOK(Reindexed(d)) /\ Reindexed(d).ranges = d.ranges
         /\ Shape(Dirtied(d)) /\ GetAll(Dirtied(d)) = GetAll(d)
         /\ IndexOK(d) => IndexOK(Dirtied(d))
         /\ Shape([d EXCEPT !.dirty = FALSE])
         /\ GetAll([d EXCEPT !.dirty = FALSE]) = GetAll(d)
         /\ IndexOK(d) => IndexOK([d EXCEPT !.dirty = FALSE])
         /\ Shape(Checked(d)) /\ GetAll(Checked(d)) = GetAll(d)
         /\ IndexOK(d) => IndexOK(Checked(d))
<1>1. Shape(Reindexed(d)) /\ GetAll(Reindexed(d)) = GetAll(d)
      /\ IndexOK(Reindexed(d)) /\ Reindexed(d).ranges = d.ranges
  BY DEF Shape, Reindexed, GetAll, Values, IndexOK
<1>2. \A b : /\ Shape([d EXCEPT !.dirty = b])
             /\ GetAll([d EXCEPT !.dirty = b]) = GetAll(d)
             /\ IndexOK(d) => IndexOK([d EXCEPT !.dirty = b])
  BY DEF Shape, GetAll, Values, IndexOK
<1>3. Dirtied(d) = [d EXCEPT !.dirty = TRUE]
  BY DEF Dirtied
<1>4. Shape(Checked(d)) /\ GetAll(Checked(d)) = GetAll(d)
      /\ (IndexOK(d) => IndexOK(Checked(d)))
  BY DEF Shape, Checked, Indexed, GetAll, Values, IndexOK
<1> QED
  BY <1>1, <1>2, <1>3, <1>4

LEMMA BulkAddFacts ==
  ASSUME NEW d, Shape(d), IndexOK(d), NEW es \in SUBSET Entries, Unique(es)
  PROVE  /\ Shape(BulkAdd(d, es)) /\ IndexOK(BulkAdd(d, es))
         /\ GetAll(BulkAdd(d, es)) = Others(GetAll(d), es) \cup es
<1> DEFINE n == Stored(d, es)
<1>1. /\ Shape(n) /\ GetAll(n) = Others(GetAll(d), es) \cup es
      /\ n.index = d.index
      /\ (\A e \in es : e.id \notin Ranges) => n.ranges = d.ranges
  BY StoredFacts
<1>2. BulkAdd(d, es) = IF es = {} THEN d
                       ELSE IF \E e \in es : e.id \in Ranges THEN Dirtied(Reindexed(n))
                       ELSE Dirtied(n)
  BY DEF BulkAdd
<1> HIDE DEF n
<1>3. CASE es = {}
  BY <1>2, <1>3 DEF Others
<1>4. CASE es # {} /\ \E e \in es : e.id \in Ranges
  <2>1. Shape(Reindexed(n)) /\ IndexOK(Reindexed(n)) /\ GetAll(Reindexed(n)) = GetAll(n)
    BY <1>1, MarkedFacts
  <2> QED
    BY <1>1, <1>2, <1>4, <2>1, MarkedFacts
<1>5. CASE es # {} /\ ~\E e \in es : e.id \in Ranges
  <2>1. IndexOK(n)
    BY <1>1, <1>5 DEF IndexOK
  <2> QED
    BY <1>1, <1>2, <1>5, <2>1, MarkedFacts
<1> QED
  BY <1>3, <1>4, <1>5

LEMMA RemoveFacts ==
  ASSUME NEW d, Shape(d), NEW id
  PROVE  /\ Shape(Remove(d, id)) /\ IndexOK(Remove(d, id))
         /\ GetAll(Remove(d, id)) = {e \in GetAll(d) : e.id # id}
<1> DEFINE gone == {e \in GetAll(d) : e.id = id}
           n == IF gone = {} THEN d ELSE Dirtied(Dropped(d, gone))
<1>1. Shape(n) /\ GetAll(n) = GetAll(d) \ gone
  BY DroppedFacts, MarkedFacts
<1>2. Remove(d, id) = Reindexed(n)
  BY DEF Remove
<1>3. GetAll(d) \ gone = {e \in GetAll(d) : e.id # id}
  OBVIOUS
<1> HIDE DEF n, gone
<1> QED
  BY <1>1, <1>2, <1>3, MarkedFacts

LEMMA PruneFacts ==
  ASSUME NEW d, Shape(d)
  PROVE  /\ Shape(PruneExpired(d)) /\ IndexOK(PruneExpired(d))
         /\ GetAll(PruneExpired(d)) = Unexpired(GetAll(d))
<1> DEFINE gone == {e \in GetAll(d) : IsExpired(e)}
           n == IF gone = {} THEN d ELSE Dirtied(Dropped(d, gone))
<1>1. Shape(n) /\ GetAll(n) = GetAll(d) \ gone
  BY DroppedFacts, MarkedFacts
<1>2. PruneExpired(d) = Reindexed(n)
  BY DEF PruneExpired
<1>3. GetAll(d) \ gone = Unexpired(GetAll(d))
  BY DEF Unexpired
<1> HIDE DEF n, gone
<1> QED
  BY <1>1, <1>2, <1>3, MarkedFacts

\* An address of one source's new list is on no other source's.
LEMMA ReplaceSourceFacts ==
  ASSUME NEW d, Shape(d), NEW from, NEW es \in SUBSET Entries, Unique(es),
         \A e \in GetAll(d), g \in es :
           e.id \in Addresses /\ e.id = g.id => e.source = from
  PROVE  /\ Shape(ReplaceSource(d, from, es)) /\ IndexOK(ReplaceSource(d, from, es))
         /\ GetAll(ReplaceSource(d, from, es)) =
              {e \in GetAll(d) : e.source # from} \cup es
<1> DEFINE left == Dropped(d, FromSource(d, from))
           n == Stored(left, es)
<1>1. Shape(left) /\ GetAll(left) = {e \in GetAll(d) : e.source # from}
  BY DroppedFacts DEF FromSource
<1> HIDE DEF left
<1>2. Shape(n) /\ GetAll(n) = Others(GetAll(left), es) \cup es
  BY <1>1, StoredFacts
<1>3. Others(GetAll(left), es) = GetAll(left)
  BY <1>1 DEF Others
<1>4. ReplaceSource(d, from, es) = Dirtied(Reindexed(n))
  BY DEF ReplaceSource, left
<1> HIDE DEF n
<1>5. Shape(Reindexed(n)) /\ GetAll(Reindexed(n)) = GetAll(n) /\ IndexOK(Reindexed(n))
  BY <1>2, MarkedFacts
<1> QED
  BY <1>1, <1>2, <1>3, <1>4, <1>5, MarkedFacts

LEMMA OlderFacts ==
  ASSUME NEW e \in Entries
  PROVE  /\ Older(e) \in Entries /\ Older(e).id = e.id /\ Older(e).source = e.source
         /\ IsExpired(e) => IsExpired(Older(e))
<1>1. e = [id |-> e.id, source |-> e.source, left |-> e.left]
      /\ e.left \in Lives \cup -1..MaxLife
  BY DEF Entries
<1>2. CASE e.left = Never \/ e.left < 0
  BY <1>1, <1>2 DEF Older, IsExpired
<1>3. CASE ~(e.left = Never \/ e.left < 0)
  <2>1. e.left \in 0..MaxLife
    BY <1>1, <1>3, ThreatAssumption DEF Lives
  <2>2. e.left - 1 \in -1..MaxLife
    BY <2>1, ThreatAssumption
  <2> QED
    BY <1>1, <1>3, <2>2 DEF Older, IsExpired, Entries
<1> QED
  BY <1>2, <1>3

LEMMA AgedFacts ==
  ASSUME NEW d, Shape(d), IndexOK(d)
  PROVE  /\ Shape(Aged(d)) /\ IndexOK(Aged(d))
         /\ GetAll(Aged(d)) = AllOlder(GetAll(d))
<1> DEFINE exact == [id \in DOMAIN d.exact |-> Older(d.exact[id])]
           index == IF d.index = NoIndex THEN d.index ELSE AllOlder(d.index)
           n == Aged(d)
<1>1. /\ n = [exact |-> n.exact, ranges |-> n.ranges, patterns |-> n.patterns,
              index |-> n.index, dirty |-> n.dirty]
      /\ n.exact = exact
      /\ n.ranges = AllOlder(d.ranges)
      /\ n.patterns = AllOlder(d.patterns)
      /\ n.index = index
  <2>1. n = [d EXCEPT !.exact = exact, !.ranges = AllOlder(d.ranges),
                      !.patterns = AllOlder(d.patterns), !.index = index]
    BY DEF Aged
  <2> HIDE DEF n, exact, index
  <2> QED
    BY <2>1 DEF Shape
<1> HIDE DEF n
<1>2. Shape(n)
  BY <1>1, OlderFacts DEF Shape, AllOlder
<1>3. IndexOK(n)
  BY <1>1 DEF IndexOK
<1>4. GetAll(n) = AllOlder(GetAll(d))
  <2>1. ASSUME NEW e \in GetAll(n) PROVE e \in AllOlder(GetAll(d))
    <3>1. CASE e.id \in DOMAIN n.exact /\ e = n.exact[e.id]
      <4>1. e.id \in DOMAIN d.exact /\ e = Older(d.exact[e.id])
        BY <1>1, <3>1
      <4>2. d.exact[e.id] \in GetAll(d)
        BY <4>1, GetAllFacts DEF Shape
      <4> QED
        BY <4>1, <4>2 DEF AllOlder
    <3>2. CASE e \in n.ranges \/ e \in n.patterns
      <4>1. PICK g \in d.ranges \cup d.patterns : e = Older(g)
        BY <1>1, <3>2 DEF AllOlder
      <4>2. g \in GetAll(d)
        BY GetAllFacts
      <4> QED
        BY <4>1, <4>2 DEF AllOlder
    <3> QED
      BY <1>2, <2>1, <3>1, <3>2, GetAllFacts
  <2>2. ASSUME NEW e \in GetAll(d) PROVE Older(e) \in GetAll(n)
    <3>1. Older(e).id = e.id
      BY GetAllFacts, OlderFacts
    <3>2. CASE e.id \in DOMAIN d.exact /\ e = d.exact[e.id]
      <4>1. Older(e).id \in DOMAIN n.exact /\ Older(e) = n.exact[Older(e).id]
        BY <1>1, <3>1, <3>2
      <4> QED
        BY <1>2, <4>1, GetAllFacts
    <3>3. CASE e \in d.ranges \/ e \in d.patterns
      <4>1. Older(e) \in n.ranges \/ Older(e) \in n.patterns
        BY <1>1, <3>3 DEF AllOlder
      <4> QED
        BY <1>2, <4>1, GetAllFacts
    <3> QED
      BY <3>2, <3>3, GetAllFacts
  <2> QED
    BY <2>1, <2>2 DEF AllOlder
<1> QED
  BY <1>2, <1>3, <1>4 DEF n

\* Whether expired entries are dropped before or after a tick is the same.
LEMMA OlderUnexpired ==
  ASSUME NEW es \in SUBSET Entries
  PROVE  Unexpired(AllOlder(es)) = Unexpired(AllOlder(Unexpired(es)))
BY OlderFacts DEF Unexpired, AllOlder

LEMMA EmptyDbFacts == Shape(EmptyDb) /\ IndexOK(EmptyDb) /\ GetAll(EmptyDb) = {}
BY DEF EmptyDb, Shape, IndexOK, GetAll, Values, NoEntries

LEMMA BuiltinsFacts ==
  /\ Builtins \subseteq Entries /\ Unexpired(Builtins) = Builtins
  /\ \A e \in Builtins : e.id \in Patterns /\ e.id \notin Addresses /\ e.source = Manual
BY ThreatAssumption, KindsAssumption
   DEF Builtins, Entry, Entries, Lives, Identifiers, Unexpired, IsExpired

LEMMA OpenedFacts ==
  ASSUME NEW es \in SUBSET Entries, Unique(es)
  PROVE  /\ Shape(Opened(es)) /\ IndexOK(Opened(es))
         /\ GetAll(Opened(es)) = es \cup Builtins
<1> DEFINE d == BulkAdd(EmptyDb, es)
<1>1. Shape(d) /\ IndexOK(d) /\ GetAll(d) = es
  BY EmptyDbFacts, BulkAddFacts DEF Others
<1>2. Unique(Builtins) /\ Others(es, Builtins) = es
  BY BuiltinsFacts DEF Unique, Others
<1>3. Opened(es) = BulkAdd(d, Builtins)
  BY DEF Opened
<1> HIDE DEF d
<1> QED
  BY <1>1, <1>2, <1>3, BuiltinsFacts, BulkAddFacts

-----------------------------------------------------------------------------
(* ThreatIntel: a look-up finds what the sources have listed. *)

Downloads(feed) ==
  [age : Int, forced : BOOLEAN, text : FeedLists[feed] \cup {NoList}]

\* The addresses a source's entries stand for are its own.
Permitted(es) ==
  \A e \in es : e.id \in Addresses => e.id \in MayList(e.source)

FetchingOK ==
  /\ DOMAIN fetching = Feeds
  /\ \A feed \in Feeds : fetching[feed] \in Seq(Downloads(feed))
PublishedOK == \A feed \in Feeds : published[feed] \in FeedLists[feed]
CopiesOK == \A feed \in Feeds : copies[feed] \in FeedLists[feed] \cup {NoList}

DbInv ==
  /\ Shape(db) /\ IndexOK(db) /\ Permitted(GetAll(db))
  /\ listed = Unexpired(GetAll(db))
FileInv ==
  /\ file \subseteq Entries /\ Unique(file) /\ Permitted(file)
  /\ saved = Unexpired(file)
ListsInv ==
  /\ DOMAIN copies = Feeds /\ DOMAIN published = Feeds
  /\ FetchingOK /\ PublishedOK /\ CopiesOK
ThreatInv == DbInv /\ FileInv /\ ListsInv

LEMMA ThreatInitOK == ThreatInit => ThreatInv
<1> SUFFICES ASSUME ThreatInit PROVE ThreatInv
  OBVIOUS
<1>1. DbInv
  <2>1. Unique({})
    BY DEF Unique
  <2>2. Shape(Opened({})) /\ IndexOK(Opened({})) /\ GetAll(Opened({})) = Builtins
    BY <2>1, OpenedFacts
  <2> QED
    BY <2>2, BuiltinsFacts DEF ThreatInit, DbInv, Permitted
<1>2. FileInv
  BY DEF ThreatInit, FileInv, Unique, Permitted, Unexpired
<1>3. ListsInv
  <2>1. \A feed \in Feeds : <<>> \in Seq(Downloads(feed))
    OBVIOUS
  <2> QED
    BY <2>1 DEF ThreatInit, ListsInv, FetchingOK, PublishedOK, CopiesOK
<1> QED
  BY <1>1, <1>2, <1>3 DEF ThreatInv

\* What keeps the downloads well formed.
LEMMA SyncAllOK ==
  ASSUME FetchingOK, NEW forced \in BOOLEAN, SyncAll(forced)
  PROVE  FetchingOK'
<1>1. \A feed \in Feeds : Call(forced) \in Downloads(feed)
  BY DEF Call, Downloads
<1> QED
  BY <1>1 DEF SyncAll, FetchingOK

LEMMA EndedOK ==
  ASSUME FetchingOK, NEW feed \in Feeds, NEW i \in DOMAIN fetching[feed],
         Ended(feed, i)
  PROVE  FetchingOK'
<1> DEFINE q == fetching[feed]
<1>1. q \in Seq(Downloads(feed)) /\ i \in 1..Len(q)
  BY DEF FetchingOK
<1>2. SubSeq(q, 1, i - 1) \o SubSeq(q, i + 1, Len(q)) \in Seq(Downloads(feed))
  <2> HIDE DEF q
  <2>1. SubSeq(q, 1, i - 1) \in Seq(Downloads(feed))
    BY <1>1
  <2>2. SubSeq(q, i + 1, Len(q)) \in Seq(Downloads(feed))
    BY <1>1
  <2> QED
    BY <2>1, <2>2
<1> QED
  BY <1>2 DEF FetchingOK, Ended

LEMMA ServeOK ==
  ASSUME FetchingOK, PublishedOK, NEW feed \in Feeds,
         NEW i \in DOMAIN fetching[feed], Serve(feed, i)
  PROVE  FetchingOK'
<1> DEFINE q == fetching[feed]
           call == [q[i] EXCEPT !.text = published[feed]]
<1>1. q \in Seq(Downloads(feed)) /\ i \in 1..Len(q)
  BY DEF FetchingOK
<1>2. call \in Downloads(feed)
  <2>1. PICK c : c = q[i]
    OBVIOUS
  <2>2. c \in Downloads(feed)
    BY <1>1, <2>1
  <2> QED
    BY <2>1, <2>2 DEF PublishedOK, Downloads
<1>3. [q EXCEPT ![i] = call] \in Seq(Downloads(feed))
  <2> HIDE DEF q, call
  <2> QED
    BY <1>1, <1>2
<1>4. fetching' = [fetching EXCEPT ![feed] = [q EXCEPT ![i] = call]]
  BY DEF Serve
<1> QED
  BY <1>3, <1>4 DEF FetchingOK

LEMMA AgingOK ==
  ASSUME FetchingOK, ThreatTick
  PROVE  FetchingOK'
<1> SUFFICES ASSUME NEW feed \in Feeds
             PROVE  [i \in DOMAIN fetching[feed] |->
                       [fetching[feed][i] EXCEPT !.age = @ + 1]]
                      \in Seq(Downloads(feed))
  BY DEF FetchingOK, ThreatTick
<1>1. PICK q : q = fetching[feed]
  OBVIOUS
<1>2. q \in Seq(Downloads(feed))
  BY <1>1 DEF FetchingOK
<1>3. \A c \in Downloads(feed) : [c EXCEPT !.age = @ + 1] \in Downloads(feed)
  BY DEF Downloads
<1> DEFINE aged == [i \in 1..Len(q) |-> [q[i] EXCEPT !.age = @ + 1]]
<1>4. aged \in [1..Len(q) -> Downloads(feed)]
  BY <1>2, <1>3
<1>5. aged \in Seq(Downloads(feed))
  BY <1>2, <1>4
<1>6. DOMAIN q = 1..Len(q)
  BY <1>2
<1> QED
  BY <1>1, <1>5, <1>6

\* A feed's entries are entries, one for each identifier on its list.
LEMMA FromFeedFacts ==
  ASSUME NEW feed \in Feeds, NEW ids \in FeedLists[feed]
  PROVE  /\ FromFeed(feed, ids) \subseteq Entries
         /\ Unique(FromFeed(feed, ids)) /\ Permitted(FromFeed(feed, ids))
         /\ Unexpired(FromFeed(feed, ids)) = FromFeed(feed, ids)
         /\ \A e \in FromFeed(feed, ids) : e.source = feed
<1>1. ids \subseteq Addresses \cup Ranges
  BY ThreatAssumption
<1>2. \A e \in FromFeed(feed, ids) : e.id \in ids /\ e.source = feed /\ e.left = Never
      /\ e = [id |-> e.id, source |-> e.source, left |-> e.left]
  BY DEF FromFeed, Entry
<1>3. \A e, g \in FromFeed(feed, ids) : e.id = g.id => e = g
  BY DEF FromFeed, Entry
<1>4. FromFeed(feed, ids) \subseteq Entries
  BY <1>1 DEF FromFeed, Entry, Entries, Lives, Identifiers
<1>5. feed # Manual
  BY ThreatAssumption
<1> QED
  BY <1>2, <1>3, <1>4, <1>5 DEF Unique, Permitted, MayList, Unexpired, IsExpired

\* Entries of one address come from one source.
LEMMA OneSource ==
  ASSUME OneSourcePerAddress, NEW es \in SUBSET Entries, Permitted(es),
         NEW gs \in SUBSET Entries, Permitted(gs)
  PROVE  \A e \in es, g \in gs :
           e.id \in Addresses /\ e.id = g.id => e.source = g.source
<1>1. \A e \in Entries : e.source \in Feeds \cup {Manual}
  BY DEF Entries
<1> QED
  BY <1>1 DEF OneSourcePerAddress, Permitted

LEMMA SaveOK ==
  ASSUME DbInv, FileInv, Save, listed' = listed
  PROVE  DbInv' /\ FileInv'
<1>1. CASE persist /\ db.dirty
  <2>1. db' = [db EXCEPT !.dirty = FALSE] /\ file' = GetAll(db) /\ saved' = listed
    BY <1>1 DEF Save
  <2>2. Shape(db') /\ GetAll(db') = GetAll(db) /\ IndexOK(db')
    BY <2>1, MarkedFacts DEF DbInv
  <2>3. GetAll(db) \subseteq Entries /\ Unique(GetAll(db))
    BY GetAllFacts DEF DbInv
  <2> QED
    BY <2>1, <2>2, <2>3 DEF DbInv, FileInv
<1>2. CASE ~(persist /\ db.dirty)
  <2>1. UNCHANGED <<file, saved, db>>
    BY <1>2 DEF Save
  <2> QED
    BY <2>1 DEF DbInv, FileInv
<1> QED
  BY <1>1, <1>2

LEMMA AddEntryOK ==
  ASSUME OneSourcePerAddress, DbInv, NEW id \in ManualIds, NEW left \in Lives,
         AddEntry(id, left)
  PROVE  DbInv'
<1> DEFINE e == Entry(id, Manual, left)
<1>1. /\ e \in Entries /\ e.id = id /\ e.source = Manual
      /\ Unexpired({e}) = {e}
  BY ThreatAssumption DEF Entry, Entries, Lives, Unexpired, IsExpired
<1>2. db' = BulkAdd(db, {e})
  BY DEF AddEntry, Add
<1> HIDE DEF e
<1>3. Unique({e}) /\ Permitted({e})
  BY <1>1 DEF Unique, Permitted, MayList
<1>4. /\ Shape(db') /\ IndexOK(db')
      /\ GetAll(db') = Others(GetAll(db), {e}) \cup {e}
  BY <1>1, <1>2, <1>3, BulkAddFacts DEF DbInv
<1>5. Permitted(GetAll(db'))
  BY <1>3, <1>4 DEF Permitted, Others, DbInv
<1>6. \A x \in GetAll(db) : x.id \in Addresses /\ x.id = id => x.source = Manual
  BY <1>1, <1>3, GetAllFacts, OneSource DEF DbInv
<1>7. listed' = (listed \ {x \in listed : x.id = id /\ x.source = Manual
                                         /\ id \in Addresses}) \cup {e}
  BY DEF AddEntry, e
<1>8. listed' = Unexpired(GetAll(db'))
  BY <1>1, <1>4, <1>6, <1>7 DEF DbInv, Unexpired, Others
<1> QED
  BY <1>4, <1>5, <1>8 DEF DbInv

LEMMA RestartOK ==
  ASSUME OneSourcePerAddress, ThreatInv, NEW torn \in BOOLEAN, Restart(torn)
  PROVE  DbInv' /\ FileInv'
<1>1. FileInv'
  <2>1. CASE torn
    <3>1. file' = {} /\ saved' = {}
      BY <2>1 DEF Restart
    <3> QED
      BY <3>1 DEF FileInv, Unique, Permitted, Unexpired
  <2>2. CASE ~torn
    <3>1. file' = file /\ saved' = saved
      BY <2>2 DEF Restart
    <3> QED
      BY <3>1 DEF FileInv, ThreatInv
  <2> QED
    BY <2>1, <2>2
<1>2. Permitted(Builtins)
  BY BuiltinsFacts DEF Permitted
<1>3. CASE persist
  <2>1. db' = Opened(file') /\ listed' = saved' \cup Builtins
    BY <1>3 DEF Restart
  <2>2. Shape(db') /\ IndexOK(db') /\ GetAll(db') = file' \cup Builtins
    BY <1>1, <2>1, OpenedFacts DEF FileInv
  <2>3. Unexpired(file' \cup Builtins) = Unexpired(file') \cup Builtins
    BY BuiltinsFacts DEF Unexpired
  <2> QED
    BY <1>1, <1>2, <2>1, <2>2, <2>3 DEF DbInv, FileInv, Permitted
<1>4. CASE ~persist
  <2> DEFINE d == Opened({})
             n == Stored(d, Cached)
  <2>1. db' = Dirtied(Reindexed(n)) /\ listed' = Cached \cup Builtins
    BY <1>4 DEF Restart
  <2>2. Shape(d) /\ GetAll(d) = Builtins
    <3>1. Unique({})
      BY DEF Unique
    <3> QED
      BY <3>1, OpenedFacts
  <2>3. \A e \in Cached : \E feed \in Feeds :
          /\ copies[feed] \in FeedLists[feed]
          /\ e \in FromFeed(feed, copies[feed])
    BY DEF Cached, ThreatInv, ListsInv, CopiesOK
  <2>4. Cached \subseteq Entries /\ Permitted(Cached) /\ Unexpired(Cached) = Cached
    BY <2>3, FromFeedFacts DEF Permitted, Unexpired
  <2>5. Unique(Cached)
    <3> SUFFICES ASSUME NEW e \in Cached, NEW g \in Cached,
                        e.id \in Addresses, e.id = g.id
                 PROVE  e = g
      BY DEF Unique
    <3>1. e.source = g.source
      BY <2>4, OneSource
    <3>2. PICK feed \in Feeds : /\ copies[feed] \in FeedLists[feed]
                                /\ e \in FromFeed(feed, copies[feed])
      BY <2>3
    <3>3. PICK other \in Feeds : /\ copies[other] \in FeedLists[other]
                                 /\ g \in FromFeed(other, copies[other])
      BY <2>3
    <3>4. feed = other
      BY <3>1, <3>2, <3>3, FromFeedFacts
    <3> QED
      BY <3>2, <3>3, <3>4, FromFeedFacts DEF Unique
  <2> HIDE DEF d
  <2>6. Shape(n) /\ GetAll(n) = Others(Builtins, Cached) \cup Cached
    BY <2>2, <2>4, <2>5, StoredFacts
  <2>7. Others(Builtins, Cached) = Builtins
    BY BuiltinsFacts DEF Others
  <2> HIDE DEF n
  <2>8. /\ Shape(Reindexed(n)) /\ IndexOK(Reindexed(n))
        /\ GetAll(Reindexed(n)) = Cached \cup Builtins
    BY <2>6, <2>7, MarkedFacts
  <2>9. Shape(db') /\ IndexOK(db') /\ GetAll(db') = Cached \cup Builtins
    BY <2>1, <2>8, MarkedFacts
  <2>10. Unexpired(Cached \cup Builtins) = Cached \cup Builtins
    BY <2>4, BuiltinsFacts DEF Unexpired
  <2>11. Permitted(Cached \cup Builtins)
    BY <1>2, <2>4 DEF Permitted
  <2> QED
    BY <1>1, <2>1, <2>9, <2>10, <2>11 DEF DbInv
<1> QED
  BY <1>1, <1>3, <1>4

LEMMA ArriveOK ==
  ASSUME OneSourcePerAddress, ThreatInv, NEW feed \in Feeds,
         NEW i \in DOMAIN fetching[feed], NEW written \in BOOLEAN,
         Arrive(feed, i, written)
  PROVE  ThreatInv'
<1>1. PICK ids : ids = fetching[feed][i].text
  OBVIOUS
<1>2. ids \in FeedLists[feed]
  <2>1. PICK q : q = fetching[feed]
    OBVIOUS
  <2>2. q \in Seq(Downloads(feed)) /\ i \in 1..Len(q)
    BY <2>1 DEF ThreatInv, ListsInv, FetchingOK
  <2>3. q[i].text \in FeedLists[feed] \cup {NoList}
    <3>1. \A c \in Downloads(feed) : c.text \in FeedLists[feed] \cup {NoList}
      BY DEF Downloads
    <3> QED
      BY <2>2, <3>1
  <2> QED
    BY <1>1, <2>1, <2>3 DEF Arrive
<1>3. /\ FromFeed(feed, ids) \in SUBSET Entries
      /\ Unique(FromFeed(feed, ids)) /\ Permitted(FromFeed(feed, ids))
      /\ Unexpired(FromFeed(feed, ids)) = FromFeed(feed, ids)
      /\ \A e \in FromFeed(feed, ids) : e.source = feed
  BY <1>2, FromFeedFacts
<1>4. PICK es : es = FromFeed(feed, ids)
  OBVIOUS
<1>5. /\ db' = ReplaceSource(db, feed, es)
      /\ listed' = {e \in listed : e.source # feed} \cup es
      /\ copies' = (IF written THEN [copies EXCEPT ![feed] = ids] ELSE copies)
      /\ Ended(feed, i)
      /\ UNCHANGED <<file, saved, published>>
  BY <1>1, <1>4 DEF Arrive, fileVars
<1>6. DbInv'
  <2>1. \A e \in GetAll(db), g \in es :
          e.id \in Addresses /\ e.id = g.id => e.source = feed
    BY <1>3, <1>4, GetAllFacts, OneSource DEF ThreatInv, DbInv
  <2>2. /\ Shape(db') /\ IndexOK(db')
        /\ GetAll(db') = {e \in GetAll(db) : e.source # feed} \cup es
    BY <1>3, <1>4, <1>5, <2>1, ReplaceSourceFacts DEF ThreatInv, DbInv
  <2>3. Permitted(GetAll(db'))
    BY <1>3, <1>4, <2>2 DEF ThreatInv, DbInv, Permitted
  <2>4. listed' = Unexpired(GetAll(db'))
    BY <1>3, <1>4, <1>5, <2>2 DEF ThreatInv, DbInv, Unexpired
  <2> QED
    BY <2>2, <2>3, <2>4 DEF DbInv
<1>7. FileInv'
  BY <1>5 DEF ThreatInv, FileInv
<1>8. ListsInv'
  <2>1. FetchingOK'
    BY <1>5, EndedOK DEF ThreatInv, ListsInv
  <2> QED
    BY <1>2, <1>5, <2>1 DEF ThreatInv, ListsInv, PublishedOK, CopiesOK
<1> QED
  BY <1>6, <1>7, <1>8 DEF ThreatInv

LEMMA ThreatTickOK ==
  ASSUME ThreatInv, ThreatTick
  PROVE  ThreatInv'
<1>1. /\ db' = Aged(db)
      /\ listed' = Unexpired(AllOlder(listed))
      /\ file' = AllOlder(file)
      /\ saved' = Unexpired(AllOlder(saved))
      /\ UNCHANGED <<copies, published>>
  BY DEF ThreatTick, Unexpired
<1>2. Permitted(AllOlder(GetAll(db))) /\ Permitted(AllOlder(file))
  <2>1. ASSUME NEW es \in SUBSET Entries, Permitted(es) PROVE Permitted(AllOlder(es))
    BY <2>1, OlderFacts DEF Permitted, AllOlder
  <2> QED
    BY <2>1, GetAllFacts DEF ThreatInv, DbInv, FileInv
<1>3. DbInv'
  <2>1. Shape(db') /\ IndexOK(db') /\ GetAll(db') = AllOlder(GetAll(db))
    BY <1>1, AgedFacts DEF ThreatInv, DbInv
  <2>2. listed' = Unexpired(GetAll(db'))
    BY <1>1, <2>1, GetAllFacts, OlderUnexpired DEF ThreatInv, DbInv
  <2> QED
    BY <1>2, <2>1, <2>2 DEF DbInv
<1>4. FileInv'
  <2>1. AllOlder(file) \subseteq Entries
    BY OlderFacts DEF AllOlder, ThreatInv, FileInv
  <2>2. Unique(AllOlder(file))
    BY OlderFacts DEF AllOlder, Unique, ThreatInv, FileInv
  <2>3. saved' = Unexpired(AllOlder(file))
    BY <1>1, OlderUnexpired DEF ThreatInv, FileInv
  <2> QED
    BY <1>1, <1>2, <2>1, <2>2, <2>3 DEF FileInv
<1>5. ListsInv'
  BY <1>1, AgingOK DEF ThreatInv, ListsInv, PublishedOK, CopiesOK
<1> QED
  BY <1>3, <1>4, <1>5 DEF ThreatInv

LEMMA ThreatStepOK ==
  ASSUME OneSourcePerAddress, ThreatInv, [ThreatNext]_threatVars
  PROVE  ThreatInv'
<1>1. ASSUME NEW id \in ManualIds, NEW left \in Lives, AddEntry(id, left)
      PROVE  ThreatInv'
  <2>1. DbInv'
    BY <1>1, AddEntryOK DEF ThreatInv
  <2>2. UNCHANGED <<fileVars, syncVars, published>>
    BY <1>1 DEF AddEntry
  <2>3. FileInv'
    BY <2>2 DEF FileInv, ThreatInv, fileVars
  <2>4. ListsInv'
    BY <2>2 DEF ThreatInv, ListsInv, FetchingOK, PublishedOK, CopiesOK, syncVars
  <2> QED
    BY <2>1, <2>3, <2>4 DEF ThreatInv
<1>2. ASSUME UNCHANGED <<fileVars, syncVars, published>>
      PROVE  FileInv' /\ ListsInv'
  BY <1>2 DEF ThreatInv, FileInv, ListsInv, FetchingOK, PublishedOK, CopiesOK,
              fileVars, syncVars
<1>3. ASSUME NEW id, RemoveEntry(id)
      PROVE  ThreatInv'
  <2>1. db' = Remove(db, id) /\ listed' = {e \in listed : e.id # id}
    BY <1>3 DEF RemoveEntry
  <2>2. /\ Shape(db') /\ IndexOK(db')
        /\ GetAll(db') = {e \in GetAll(db) : e.id # id}
    BY <2>1, RemoveFacts DEF ThreatInv, DbInv
  <2>3. DbInv'
    BY <2>1, <2>2 DEF ThreatInv, DbInv, Permitted, Unexpired
  <2> QED
    BY <1>2, <1>3, <2>3 DEF RemoveEntry, ThreatInv
<1>4. CASE Prune
  <2>1. db' = PruneExpired(db) /\ listed' = listed
    BY <1>4 DEF Prune
  <2>2. Shape(db') /\ IndexOK(db') /\ GetAll(db') = Unexpired(GetAll(db))
    BY <2>1, PruneFacts DEF ThreatInv, DbInv
  <2>3. DbInv'
    BY <2>1, <2>2 DEF ThreatInv, DbInv, Permitted, Unexpired
  <2> QED
    BY <1>2, <1>4, <2>3 DEF Prune, ThreatInv
<1>5. CASE Check
  <2>1. db' = Checked(db) /\ listed' = listed
    BY <1>5 DEF Check
  <2>2. DbInv'
    BY <2>1, MarkedFacts DEF ThreatInv, DbInv
  <2> QED
    BY <1>2, <1>5, <2>2 DEF Check, ThreatInv
<1>6. ASSUME UNCHANGED <<syncVars, published>>
      PROVE  ListsInv'
  BY <1>6 DEF ThreatInv, ListsInv, FetchingOK, PublishedOK, CopiesOK, syncVars
<1>7. CASE AutoSave
  <2>1. Save /\ listed' = listed
    BY <1>7 DEF AutoSave
  <2>2. DbInv' /\ FileInv'
    BY <2>1, SaveOK DEF ThreatInv
  <2> QED
    BY <1>6, <1>7, <2>2 DEF AutoSave, ThreatInv
<1>8. ASSUME UNCHANGED <<dbVars, fileVars>>
      PROVE  DbInv' /\ FileInv'
  BY <1>8 DEF ThreatInv, DbInv, FileInv, dbVars, fileVars
<1>9. ASSUME FetchingOK', UNCHANGED <<copies, published>>
      PROVE  ListsInv'
  BY <1>9 DEF ThreatInv, ListsInv, PublishedOK, CopiesOK
<1>10. FetchingOK /\ PublishedOK
  BY DEF ThreatInv, ListsInv
<1>11. CASE Start
  <2>1. FetchingOK'
    BY <1>10, <1>11, SyncAllOK DEF Start
  <2> QED
    BY <1>8, <1>9, <1>11, <2>1 DEF Start, ThreatInv
<1>12. CASE TimerFires
  <2>1. FetchingOK'
    BY <1>10, <1>12, SyncAllOK DEF TimerFires
  <2> QED
    BY <1>8, <1>9, <1>12, <2>1 DEF TimerFires, ThreatInv
<1>13. CASE Shutdown
  <2>1. Save /\ listed' = listed /\ UNCHANGED <<fetching, copies, published>>
    BY <1>13 DEF Shutdown
  <2>2. DbInv' /\ FileInv'
    BY <2>1, SaveOK DEF ThreatInv
  <2>3. FetchingOK'
    BY <1>10, <2>1 DEF FetchingOK
  <2> QED
    BY <1>9, <2>1, <2>2, <2>3 DEF ThreatInv
<1>14. ASSUME NEW torn \in BOOLEAN, Restart(torn)
       PROVE  ThreatInv'
  <2>1. DbInv' /\ FileInv'
    BY <1>14, RestartOK
  <2>2. fetching' = [feed \in Feeds |-> <<>>] /\ UNCHANGED <<copies, published>>
    BY <1>14 DEF Restart
  <2>3. FetchingOK'
    BY <2>2 DEF FetchingOK
  <2> QED
    BY <1>9, <2>1, <2>2, <2>3 DEF ThreatInv
<1>15. ASSUME NEW feed \in Feeds, NEW ids \in FeedLists[feed], Publish(feed, ids)
       PROVE  ThreatInv'
  <2>1. published' = [published EXCEPT ![feed] = ids]
        /\ UNCHANGED <<dbVars, fileVars, syncVars>>
    BY <1>15 DEF Publish
  <2>2. ListsInv'
    BY <2>1 DEF ThreatInv, ListsInv, FetchingOK, PublishedOK, CopiesOK, syncVars
  <2> QED
    BY <1>8, <2>1, <2>2 DEF ThreatInv
<1>16. ASSUME NEW feed \in Feeds, ServeSome(feed)
       PROVE  ThreatInv'
  <2>1. PICK i \in DOMAIN fetching[feed] : Serve(feed, i)
    BY <1>16 DEF ServeSome
  <2>2. FetchingOK'
    BY <1>10, <2>1, ServeOK
  <2> QED
    BY <1>8, <1>9, <2>1, <2>2 DEF Serve, ThreatInv
<1>17. ASSUME NEW feed \in Feeds, ArriveSome(feed)
       PROVE  ThreatInv'
  BY <1>17, ArriveOK DEF ArriveSome
<1>18. ASSUME NEW feed \in Feeds, NEW i \in DOMAIN fetching[feed], Fail(feed, i)
       PROVE  ThreatInv'
  <2>1. FetchingOK'
    BY <1>10, <1>18, EndedOK DEF Fail
  <2> QED
    BY <1>8, <1>9, <1>18, <2>1 DEF Fail, ThreatInv
<1>19. CASE ThreatTick
  BY <1>19, ThreatTickOK
<1>20. CASE UNCHANGED threatVars
  BY <1>6, <1>8, <1>20 DEF threatVars, ThreatInv
<1> QED
  BY <1>1, <1>3, <1>4, <1>5, <1>7, <1>11, <1>12, <1>13, <1>14, <1>15, <1>16,
     <1>17, <1>18, <1>19, <1>20 DEF ThreatNext

\* Of a database with the invariant, a look-up finds the entries that match.
LEMMA MatchesListed ==
  ASSUME DbInv, NEW x \in Addresses \cup Patterns
  PROVE  Matches(db, x) =
           {e \in listed : e.id = x \/ (e.id \in Ranges /\ x \in Covers[e.id])}
<1>1. Indexed(db) = db.ranges
  BY DEF DbInv, IndexOK, Indexed
<1>2. Shape(db) /\ listed = Unexpired(GetAll(db))
  BY DEF DbInv
<1>3. ASSUME NEW e \in Matches(db, x)
      PROVE  e \in listed /\ (e.id = x \/ (e.id \in Ranges /\ x \in Covers[e.id]))
  <2>1. CASE x \in DOMAIN db.exact /\ e = db.exact[x]
    <3>1. e.id = x
      BY <1>2, <2>1 DEF Shape
    <3>2. e \in GetAll(db)
      BY <1>2, <2>1, <3>1, GetAllFacts
    <3> QED
      BY <1>2, <1>3, <3>1, <3>2 DEF Matches, Unexpired
  <2>2. CASE e \in db.ranges /\ x \in Covers[e.id]
    <3>1. e \in GetAll(db) /\ e.id \in Ranges
      BY <1>2, <2>2, GetAllFacts DEF Shape
    <3> QED
      BY <1>2, <1>3, <2>2, <3>1 DEF Matches, Unexpired
  <2>3. CASE e \in db.patterns /\ e.id = x
    <3>1. e \in GetAll(db)
      BY <1>2, <2>3, GetAllFacts
    <3> QED
      BY <1>2, <1>3, <2>3, <3>1 DEF Matches, Unexpired
  <2> QED
    BY <1>1, <1>3, <2>1, <2>2, <2>3 DEF Matches
<1>4. ASSUME NEW e \in listed, e.id = x \/ (e.id \in Ranges /\ x \in Covers[e.id])
      PROVE  e \in Matches(db, x)
  <2>1. e \in GetAll(db) /\ ~IsExpired(e)
    BY <1>2, <1>4 DEF Unexpired
  <2>2. CASE e.id \in DOMAIN db.exact /\ e = db.exact[e.id]
    <3>1. e.id \in Addresses
      BY <1>2, <2>2 DEF Shape
    <3>2. e.id = x
      BY <1>4, <3>1, KindsAssumption
    <3> QED
      BY <2>1, <2>2, <3>2 DEF Matches
  <2>3. CASE e \in db.ranges
    <3>1. e.id \in Ranges
      BY <1>2, <2>3 DEF Shape
    <3>2. x \in Covers[e.id]
      BY <1>4, <3>1, KindsAssumption
    <3> QED
      BY <1>1, <2>1, <2>3, <3>2 DEF Matches
  <2>4. CASE e \in db.patterns
    <3>1. e.id \in Patterns
      BY <1>2, <2>4 DEF Shape
    <3>2. e.id = x
      BY <1>4, <3>1, KindsAssumption
    <3> QED
      BY <2>1, <2>4, <3>2 DEF Matches
  <2> QED
    BY <1>2, <2>1, <2>2, <2>3, <2>4, GetAllFacts
<1> QED
  BY <1>3, <1>4 DEF Matches

\* A look-up finds exactly what the sources have listed and nobody removed, when
\* no address is on the lists of two sources: addresses have one entry each.
THEOREM ListedAlways ==
  ASSUME OneSourcePerAddress
  PROVE  ThreatSpec => []ListedExactly
<1>1. ThreatInit => ThreatInv
  BY ThreatInitOK
<1>2. ThreatInv /\ [ThreatNext]_threatVars => ThreatInv'
  BY ThreatStepOK
<1>3. ThreatInv => ListedExactly
  BY MatchesListed DEF ThreatInv, ListedExactly
<1> QED
  BY <1>1, <1>2, <1>3, PTL DEF ThreatSpec

-----------------------------------------------------------------------------
(* ExternalLists: the Tor list advances, and answers are fresh. *)

\* Refreshes share one download, whose answer is not older than the list in use.
TorInv ==
  /\ newest \in 1..Len(TorLists) /\ inUse \in 0..newest /\ copy \in 0..newest
  /\ alive \in Nat
  /\ \/ downloads = <<>>
     \/ \E list \in 0..newest :
          downloads = <<list>> /\ (list = 0 \/ inUse <= list)

TorAdvances ==
  alive' = alive =>
    /\ inUse' >= inUse
    /\ inUse' # inUse => collect(TorLists[inUse']) # {}

LEMMA GoneOfOne == \A x : Gone(<<x>>, 1) = <<>>
BY DEF Gone

LEMMA TorStep ==
  ASSUME TorInv, TorNext
  PROVE  TorInv' /\ TorAdvances
<1>1. Len(TorLists) \in Nat \ {0} /\ inUse \in Int
  BY ListsAssumption DEF TorInv
<1>2. CASE RefreshCalled \/ StartRefresh \/ RefreshDue
  <2>1. downloads' = Refresh /\ UNCHANGED <<newest, inUse, copy, alive>>
    BY <1>2 DEF RefreshCalled, StartRefresh, RefreshDue
  <2> QED
    BY <1>1, <2>1 DEF TorInv, TorAdvances, Refresh
<1>3. CASE StopRefresh
  BY <1>1, <1>3 DEF StopRefresh, TorInv, TorAdvances
<1>4. CASE PublishList
  BY <1>1, <1>4 DEF PublishList, TorInv, TorAdvances
<1>5. CASE RestartTor
  BY <1>1, <1>5 DEF RestartTor, TorInv, TorAdvances
<1>6. ASSUME NEW i \in DOMAIN downloads,
             \/ Answer(i)
             \/ \E written \in BOOLEAN : Downloaded(i, written)
             \/ DownloadFails(i)
      PROVE  TorInv' /\ TorAdvances
  <2>1. PICK list \in 0..newest : downloads = <<list>> /\ (list = 0 \/ inUse <= list)
    BY DEF TorInv
  <2>2. i = 1 /\ downloads[i] = list
    BY <2>1
  <2>3. Gone(downloads, i) = <<>>
    BY <2>1, <2>2, GoneOfOne
  <2>4. CASE Answer(i)
    <3>1. downloads' = <<newest>> /\ UNCHANGED <<newest, inUse, copy, alive>>
      BY <2>1, <2>2, <2>4 DEF Answer
    <3> QED
      BY <1>1, <3>1 DEF TorInv, TorAdvances
  <2>5. ASSUME NEW written \in BOOLEAN, Downloaded(i, written)
        PROVE  TorInv' /\ TorAdvances
    <3>1. /\ list # 0 /\ HasEntries(list)
          /\ downloads' = <<>> /\ inUse' = list /\ copy' \in {list, copy}
          /\ UNCHANGED <<newest, alive>>
      BY <2>2, <2>3, <2>5 DEF Downloaded
    <3> QED
      BY <1>1, <2>1, <3>1 DEF TorInv, TorAdvances, HasEntries
  <2>6. CASE DownloadFails(i)
    <3>1. downloads' = <<>> /\ UNCHANGED <<newest, inUse, copy, alive>>
      BY <2>3, <2>6 DEF DownloadFails
    <3> QED
      BY <1>1, <3>1 DEF TorInv, TorAdvances
  <2> QED
    BY <1>6, <2>4, <2>5, <2>6
<1> QED
  BY <1>2, <1>3, <1>4, <1>5, <1>6 DEF TorNext

\* What was said of an address is not older than the look-up that asked for it,
\* and the cache keeps it for its time to live from the look-up's end.
GoodLookups ==
  {l \in [ip : Hosts, age : 0..LookupTimeout, data : Int] :
     l.data = Unsaid \/ (l.data \in 0..listTime /\ listTime - l.data <= l.age)}
GoodPlaces ==
  {place \in [data : Int, at : Int] :
     /\ place.at \in 0..listTime /\ place.data \in 0..place.at
     /\ place.at - place.data <= LookupTimeout}

GeoInv ==
  /\ listTime \in Nat
  /\ lookups \in Seq(GoodLookups)
  /\ \A ip \in DOMAIN places : places[ip] \in GoodPlaces
  /\ served \subseteq 0..listTime
  /\ ServedFresh

LEMMA GoneFacts ==
  ASSUME NEW S, NEW s \in Seq(S), NEW i \in DOMAIN s
  PROVE  Gone(s, i) \in Seq(S)
<1>1. i \in 1..Len(s) /\ Len(s) \in Nat
  OBVIOUS
<1>2. SubSeq(s, 1, i - 1) \in Seq(S)
  BY <1>1
<1>3. SubSeq(s, i + 1, Len(s)) \in Seq(S)
  BY <1>1
<1> QED
  BY <1>2, <1>3 DEF Gone

LEMMA GeoStep ==
  ASSUME GeoInv, GeoNext
  PROVE  GeoInv'
<1>1. /\ CacheTtl \in Nat /\ LookupTimeout \in Nat
      /\ listTime \in Nat
  BY ListsAssumption DEF GeoInv
<1>2. ASSUME listTime' = listTime
      PROVE  GoodLookups' = GoodLookups /\ GoodPlaces' = GoodPlaces
  BY <1>2 DEF GoodLookups, GoodPlaces
<1>3. ASSUME NEW ip \in Hosts, Resolve(ip)
      PROVE  GeoInv'
  <2>1. listTime' = listTime
    BY <1>3 DEF Resolve
  <2>2. \A x \in DOMAIN places' : places'[x] \in GoodPlaces
    BY <1>3 DEF Resolve, Pruned, Without, GeoInv
  <2>3. ip \in DOMAIN places' => ip \in DOMAIN places /\ Fresh(places[ip])
                                /\ places'[ip] = places[ip]
    BY <1>3 DEF Resolve, Pruned, Without
  <2>4. CASE ip \in DOMAIN places'
    <3>1. PICK place \in GoodPlaces : place = places[ip]
      BY <2>3, <2>4 DEF GeoInv
    <3>2. served' = served \cup {place.data} /\ lookups' = lookups
      BY <1>3, <2>3, <2>4, <3>1 DEF Resolve
    <3>3. listTime - place.at <= CacheTtl
      BY <2>3, <2>4, <3>1 DEF Fresh
    <3>4. place.data \in 0..listTime /\ listTime - place.data <= CacheTtl + LookupTimeout
      BY <1>1, <3>1, <3>3 DEF GoodPlaces
    <3> QED
      BY <1>2, <2>1, <2>2, <3>2, <3>4 DEF GeoInv, ServedFresh
  <2>5. CASE ip \notin DOMAIN places'
    <3>1. /\ lookups' = Append(lookups, [ip |-> ip, age |-> 0, data |-> Unsaid])
          /\ served' = served
      BY <1>3, <2>5 DEF Resolve
    <3>2. [ip |-> ip, age |-> 0, data |-> Unsaid] \in GoodLookups
      BY <1>1 DEF GoodLookups, Unsaid
    <3>3. lookups' \in Seq(GoodLookups)
      BY <3>1, <3>2 DEF GeoInv
    <3> QED
      BY <1>2, <2>1, <2>2, <3>1, <3>3 DEF GeoInv, ServedFresh
  <2> QED
    BY <2>4, <2>5
<1>4. ASSUME NEW i \in DOMAIN lookups
      PROVE  /\ lookups[i] \in GoodLookups
             /\ Gone(lookups, i) \in Seq(GoodLookups)
  BY GoneFacts DEF GeoInv
<1>5. ASSUME NEW i \in DOMAIN lookups, ApiAnswers(i)
      PROVE  GeoInv'
  <2>1. PICK l \in GoodLookups : l = lookups[i]
    BY <1>4
  <2>2. /\ lookups' = [lookups EXCEPT ![i] = [l EXCEPT !.data = listTime]]
        /\ UNCHANGED <<listTime, places, served>>
    BY <1>5, <2>1 DEF ApiAnswers
  <2>3. [l EXCEPT !.data = listTime] \in GoodLookups
    BY <1>1 DEF GoodLookups
  <2>4. lookups' \in Seq(GoodLookups)
    <3>1. PICK m : m = [l EXCEPT !.data = listTime]
      OBVIOUS
    <3>2. lookups' = [lookups EXCEPT ![i] = m] /\ m \in GoodLookups
      BY <2>2, <2>3, <3>1
    <3> QED
      BY <3>2 DEF GeoInv
  <2> QED
    BY <1>2, <2>2, <2>4 DEF GeoInv, ServedFresh
<1>6. ASSUME NEW i \in DOMAIN lookups, Resolved(i)
      PROVE  GeoInv'
  <2>1. PICK l \in GoodLookups : l = lookups[i]
    BY <1>4
  <2>2. /\ l.data # Unsaid /\ lookups' = Gone(lookups, i)
        /\ places' = Put(places, l.ip, [data |-> l.data, at |-> listTime])
        /\ served' = served \cup {l.data} /\ listTime' = listTime
    BY <1>6, <2>1 DEF Resolved
  <2>3. l.data \in 0..listTime /\ listTime - l.data <= LookupTimeout
    BY <1>1, <2>2 DEF GoodLookups
  <2>4. [data |-> l.data, at |-> listTime] \in GoodPlaces
    BY <1>1, <2>3 DEF GoodPlaces
  <2>5. \A x \in DOMAIN places' : places'[x] \in GoodPlaces
    BY <2>2, <2>4 DEF Put, GeoInv
  <2>6. served' \subseteq 0..listTime' /\ ServedFresh'
    <3>1. served' = served \cup {l.data} /\ listTime' = listTime
      BY <2>2
    <3>2. l.data \in 0..listTime /\ listTime - l.data <= CacheTtl + LookupTimeout
      BY <1>1, <2>3
    <3> QED
      BY <3>1, <3>2 DEF GeoInv, ServedFresh
  <2> QED
    BY <1>1, <1>2, <1>4, <2>2, <2>5, <2>6 DEF GeoInv
<1>7. ASSUME NEW i \in DOMAIN lookups, LookupFails(i)
      PROVE  GeoInv'
  BY <1>2, <1>4, <1>7 DEF LookupFails, GeoInv, ServedFresh
<1>8. CASE ClearCache
  BY <1>2, <1>8 DEF ClearCache, NoEntries, GeoInv, ServedFresh
<1>9. CASE GeoTick
  <2>1. /\ listTime' = listTime + 1 /\ served' = {} /\ places' = places
        /\ lookups' = [i \in DOMAIN lookups |-> [lookups[i] EXCEPT !.age = @ + 1]]
        /\ \A i \in DOMAIN lookups : lookups[i].age < LookupTimeout
    BY <1>9 DEF GeoTick
  <2>2. \A l \in GoodLookups :
          l.age < LookupTimeout => [l EXCEPT !.age = @ + 1] \in GoodLookups'
    BY <1>1, <2>1 DEF GoodLookups, Unsaid
  <2>3. \A place \in GoodPlaces : place \in GoodPlaces'
    BY <1>1, <2>1 DEF GoodPlaces
  <2>4. PICK n \in Nat : n = Len(lookups) /\ DOMAIN lookups = 1..n
    BY DEF GeoInv
  <2>5. lookups' \in [1..n -> GoodLookups']
    BY <1>4, <2>1, <2>2, <2>4
  <2>6. lookups' \in Seq(GoodLookups')
    BY <2>5
  <2> QED
    BY <1>1, <2>1, <2>3, <2>6 DEF GeoInv, ServedFresh
<1> QED
  BY <1>3, <1>5, <1>6, <1>7, <1>8, <1>9 DEF GeoNext

LEMMA ListsStep ==
  ASSUME TorInv, GeoInv, [TorNext \/ GeoNext]_listVars
  PROVE  TorInv' /\ GeoInv' /\ [TorAdvances]_listVars
<1>1. ASSUME UNCHANGED geoVars PROVE GeoInv'
  BY <1>1 DEF GeoInv, ServedFresh, GoodLookups, GoodPlaces, geoVars
<1>2. ASSUME UNCHANGED torVars PROVE TorInv' /\ TorAdvances
  <2>1. inUse \in Int
    BY DEF TorInv
  <2> QED
    BY <1>2, <2>1 DEF TorInv, TorAdvances, torVars
<1>3. CASE TorNext
  <2>1. UNCHANGED geoVars
    BY <1>3 DEF TorNext, RefreshCalled, StartRefresh, RefreshDue, StopRefresh,
                PublishList, RestartTor, Answer, Downloaded, DownloadFails
  <2> QED
    BY <1>1, <1>3, <2>1, TorStep
<1>4. CASE GeoNext
  <2>1. UNCHANGED torVars
    BY <1>4 DEF GeoNext, Resolve, ApiAnswers, Resolved, LookupFails, ClearCache,
                GeoTick
  <2> QED
    BY <1>2, <1>4, <2>1, GeoStep
<1>5. CASE UNCHANGED listVars
  BY <1>1, <1>2, <1>5 DEF listVars
<1> QED
  BY <1>3, <1>4, <1>5

LEMMA ListsInitOK == ListsInit => TorInv /\ GeoInv
<1>1. Len(TorLists) \in Nat \ {0}
  BY ListsAssumption
<1>2. <<>> \in Seq(GoodLookups)
  OBVIOUS
<1> QED
  BY <1>1, <1>2 DEF ListsInit, TorInit, GeoInit, TorInv, GeoInv, NoEntries, ServedFresh

\* While a process lives, its Tor list never goes back to an older publication
\* and is never emptied, whatever timers, callers and slow answers do.
THEOREM TorListAlways == ListsSpec => TorListAdvances
<1>1. ListsInit => TorInv /\ GeoInv
  BY ListsInitOK
<1>2. TorInv /\ GeoInv /\ [TorNext \/ GeoNext]_listVars
        => TorInv' /\ GeoInv' /\ [TorAdvances]_listVars
  BY ListsStep
<1> QED
  BY <1>1, <1>2, PTL DEF ListsSpec, TorListAdvances, TorAdvances

\* What the resolver answers is at most a time to live and one look-up old.
THEOREM FreshAlways == ListsSpec => []ServedFresh
<1>1. ListsInit => TorInv /\ GeoInv
  BY ListsInitOK
<1>2. TorInv /\ GeoInv /\ [TorNext \/ GeoNext]_listVars => TorInv' /\ GeoInv'
  BY ListsStep
<1>3. GeoInv => ServedFresh
  BY DEF GeoInv
<1> QED
  BY <1>1, <1>2, <1>3, PTL DEF ListsSpec

-----------------------------------------------------------------------------
(* SignedRequests: a request is accepted again in its last second only. *)

\* A timestamp is checked from the time Opens(n) to the end of LastSecond(n).
Opens(n) == (signed[n] - MaxSkewSeconds) * SignedSecond

\* The times of acceptances: the first one, the second one, and what keeps the
\* latest one from being repeated.
Earlier(n, t) == n \in DOMAIN signed /\ Opens(n) <= t /\ t <= time
Later(p, n, t, u) ==
  /\ u - t >= Kept /\ u <= time
  /\ u \in LastSecond(n) .. (LastSecond(n) + SignedSecond - 1 + Late(p))
Held(p, n, t) ==
  IF p = "cache"
  THEN (n \in DOMAIN usedNonces /\ usedNonces[n] = t) \/ time > t + Kept
  ELSE n \in DOMAIN claims /\ claims[n] >= t + Kept

HistoryOK(p, n) ==
  \/ accepted[p][n] = <<>>
  \/ \E t \in Int : accepted[p][n] = <<t>> /\ Earlier(n, t) /\ Held(p, n, t)
  \/ \E t, u \in Int : /\ accepted[p][n] = <<t, u>> /\ Earlier(n, t)
                       /\ Later(p, n, t, u) /\ Held(p, n, u)

Claiming == [pc : {"claiming"}, nonce : Nonces, since : Int]
WaitOK(w) ==
  /\ w \in Claiming /\ w.nonce \in DOMAIN signed
  /\ Opens(w.nonce) <= w.since /\ w.since <= LastSecond(w.nonce) + SignedSecond - 1
  /\ w.since <= time /\ time <= w.since + SignedDelay

SignedShape ==
  /\ time \in Nat
  /\ DOMAIN signed \subseteq Nonces /\ \A n \in DOMAIN signed : signed[n] \in Int
  /\ \A n \in DOMAIN claims : claims[n] \in Int
  /\ DOMAIN waiting = SignedCalls
  /\ DOMAIN accepted = Places /\ \A p \in Places : DOMAIN accepted[p] = Nonces
WaitsOK == \A c \in SignedCalls : waiting[c] = NotWaiting \/ WaitOK(waiting[c])
HistoriesOK == \A p \in Places, n \in Nonces : HistoryOK(p, n)
SignedInv == SignedShape /\ WaitsOK /\ HistoriesOK

LEMMA SignedConstants ==
  /\ SignedSecond \in Nat \ {0} /\ MaxSkewSeconds \in Nat \ {0} /\ SignedDelay \in Nat
  /\ Kept \in Nat /\ Kept > SignedSecond - 1 + SignedDelay
<1>1. SignedSecond \in Nat \ {0} /\ MaxSkewSeconds \in Nat \ {0} /\ SignedDelay \in Nat
  BY SignedAssumption
<1>2. SignedDelay <= (2 * MaxSkewSeconds - 1) * SignedSecond
  BY SignedAssumption
<1>3. (2 * MaxSkewSeconds - 1) * SignedSecond
        = MaxSkewSeconds * 2 * SignedSecond - SignedSecond
  BY <1>1
<1>4. MaxSkewSeconds * 2 * SignedSecond \in Nat
  BY <1>1
<1> QED
  BY <1>1, <1>2, <1>3, <1>4 DEF Kept

LEMMA WindowLength ==
  ASSUME NEW n, signed[n] \in Int
  PROVE  /\ Opens(n) \in Int /\ LastSecond(n) \in Int
         /\ LastSecond(n) = Opens(n) + Kept
<1>1. \A s \in Int, k \in Nat, o \in Nat :
        /\ (s - k) * o \in Int /\ (s + k) * o \in Int
        /\ (s + k) * o = (s - k) * o + k * 2 * o
  OBVIOUS
<1> QED
  BY <1>1, SignedAssumption DEF Opens, LastSecond, Kept

LEMMA SignedFloor ==
  ASSUME NEW t \in Nat
  PROVE  /\ Floored(t) \in Nat
         /\ Floored(t) * SignedSecond <= t
         /\ t <= Floored(t) * SignedSecond + SignedSecond - 1
<1>1. PICK o \in Nat \ {0} : o = SignedSecond
  BY SignedAssumption
<1>2. t = o * (t \div o) + (t % o) /\ t % o \in 0..(o - 1) /\ t \div o \in Nat
  BY <1>1
<1> QED
  BY <1>1, <1>2 DEF Floored

LEMMA TimelyWindow ==
  ASSUME SignedShape, NEW n, Timely(n)
  PROVE  /\ n \in DOMAIN signed /\ n \in Nonces
         /\ Opens(n) <= time /\ time <= LastSecond(n) + SignedSecond - 1
<1>1. /\ n \in DOMAIN signed /\ n \in Nonces /\ signed[n] \in Int
      /\ Floored(time) - signed[n] \in -MaxSkewSeconds..MaxSkewSeconds
  BY DEF Timely, SignedShape
<1>2. /\ Floored(time) \in Nat
      /\ Floored(time) * SignedSecond <= time
      /\ time <= Floored(time) * SignedSecond + SignedSecond - 1
      /\ time \in Nat
  BY SignedFloor DEF SignedShape
<1>3. \A x, y \in Int, o \in Nat : x <= y => x * o <= y * o
  OBVIOUS
<1>4. Opens(n) <= Floored(time) * SignedSecond
  BY <1>1, <1>2, <1>3, SignedConstants DEF Opens
<1>5. Floored(time) * SignedSecond <= LastSecond(n)
  BY <1>1, <1>2, <1>3, SignedConstants DEF LastSecond
<1>6. Floored(time) * SignedSecond \in Int
  BY <1>2, SignedConstants
<1> QED
  BY <1>1, <1>2, <1>4, <1>5, <1>6, SignedConstants, WindowLength

LEMMA LongerThanOne ==
  ASSUME NEW q, Len(q) > 1
  PROVE  q # <<>> /\ \A t \in Int : q # <<t>>
<1>1. q # <<>>
  OBVIOUS
<1>2. ASSUME NEW t \in Int, q = <<t>> PROVE FALSE
  BY <1>2
<1> QED
  BY <1>1, <1>2

LEMMA AppendToOne ==
  ASSUME NEW t \in Int, NEW u \in Int
  PROVE  Append(<<t>>, u) = <<t, u>>
<1>1. PICK q : q = <<t>>
  OBVIOUS
<1>2. <<t>> \in Seq(Int) /\ Len(<<t>>) = 1 /\ <<t>>[1] = t
  OBVIOUS
<1>3. Append(q, u) = [i \in 1..2 |-> IF i = 1 THEN t ELSE u]
  BY <1>1, <1>2
<1>4. <<t, u>> = [i \in 1..2 |-> IF i = 1 THEN t ELSE u]
  OBVIOUS
<1> QED
  BY <1>1, <1>3, <1>4

\* The request of nonce n is accepted in place p, where the last acceptance no
\* longer prevents it: that was at least Kept ago.
LEMMA AcceptOK ==
  ASSUME SignedInv, NEW p \in Places, NEW n \in Nonces, Accept(p, n),
         n \in DOMAIN signed, Opens(n) <= time,
         time <= LastSecond(n) + SignedSecond - 1 + Late(p),
         \A t \in Int : Held(p, n, t) => time >= t + Kept,
         UNCHANGED <<time, signed>>, Held(p, n, time)'
  PROVE  HistoryOK(p, n)'
<1>1. /\ time \in Int /\ signed[n] \in Int
      /\ accepted'[p][n] = Append(accepted[p][n], time)
  BY DEF SignedInv, SignedShape, Accept
<1>2. /\ Opens(n) \in Int /\ LastSecond(n) \in Int
      /\ LastSecond(n) = Opens(n) + Kept
      /\ Opens(n)' = Opens(n) /\ LastSecond(n)' = LastSecond(n)
  BY <1>1, WindowLength DEF Opens, LastSecond
<1>3. Late(p) \in 0..SignedDelay
  BY SignedConstants DEF Late
<1>4. \A t : Earlier(n, t) => Earlier(n, t)'
  BY <1>2 DEF Earlier
<1>5. Earlier(n, time)'
  BY <1>1, <1>2 DEF Earlier
<1>6. CASE accepted[p][n] = <<>>
  <2>1. accepted'[p][n] = <<time>>
    BY <1>1, <1>6
  <2> QED
    BY <1>1, <1>5, <2>1 DEF HistoryOK
<1>7. ASSUME NEW t \in Int, accepted[p][n] = <<t>>, Earlier(n, t), Held(p, n, t)
      PROVE  HistoryOK(p, n)'
  <2>1. accepted'[p][n] = <<t, time>>
    BY <1>1, <1>7, AppendToOne
  <2>2. time >= t + Kept
    BY <1>7
  <2>3. Later(p, n, t, time)'
    BY <1>1, <1>2, <1>3, <1>7, <2>2, SignedConstants DEF Later, Earlier
  <2> QED
    BY <1>1, <1>4, <1>7, <2>1, <2>3 DEF HistoryOK
<1>8. ASSUME NEW t \in Int, NEW u \in Int, Later(p, n, t, u), Held(p, n, u)
      PROVE  FALSE
  <2>1. time >= u + Kept /\ u >= LastSecond(n)
    BY <1>2, <1>8 DEF Later
  <2>2. time <= LastSecond(n) + SignedSecond - 1 + Late(p)
    OBVIOUS
  <2> DEFINE last == LastSecond(n)
             late == Late(p)
  <2>3. /\ last \in Int /\ late \in Int /\ late <= SignedDelay
        /\ time >= u + Kept /\ u >= last /\ time <= last + SignedSecond - 1 + late
    BY <1>2, <1>3, <2>1, <2>2, SignedConstants
  <2> HIDE DEF last, late
  <2> QED
    BY SMTT(30), <1>1, <2>3, SignedConstants
<1> QED
  BY <1>6, <1>7, <1>8 DEF SignedInv, HistoriesOK, HistoryOK

\* The other histories: nothing that they speak of is withdrawn.
LEMMA OtherHistoriesOK ==
  ASSUME SignedInv, NEW p \in Places, NEW n \in Nonces,
         accepted'[p][n] = accepted[p][n],
         time' \in Int, time <= time',
         n \in DOMAIN signed => n \in DOMAIN signed' /\ signed'[n] = signed[n],
         \A t \in Int : t <= time /\ Held(p, n, t) => Held(p, n, t)'
  PROVE  HistoryOK(p, n)'
<1>1. time \in Int
  BY DEF SignedInv, SignedShape
<1>2. n \in DOMAIN signed =>
        /\ Opens(n) \in Int /\ LastSecond(n) \in Int
        /\ Opens(n)' = Opens(n) /\ LastSecond(n)' = LastSecond(n)
  BY WindowLength DEF Opens, LastSecond, SignedInv, SignedShape
<1>3. \A t \in Int : Earlier(n, t) => Earlier(n, t)'
  BY <1>1, <1>2 DEF Earlier
<1>4. \A t, u \in Int : Earlier(n, t) /\ Later(p, n, t, u) => Later(p, n, t, u)'
  BY <1>1, <1>2 DEF Earlier, Later
<1>5. \A t \in Int : Earlier(n, t) => t <= time
  BY DEF Earlier
<1>6. \A t, u \in Int : Later(p, n, t, u) => u <= time
  BY DEF Later
<1> QED
  BY <1>3, <1>4, <1>5, <1>6 DEF SignedInv, HistoriesOK, HistoryOK

LEMMA SameWaitsOK ==
  ASSUME SignedInv, UNCHANGED <<time, signed>>,
         DOMAIN waiting' = SignedCalls,
         \A c \in SignedCalls : waiting'[c] \in {waiting[c], NotWaiting}
  PROVE  WaitsOK'
BY DEF SignedInv, WaitsOK, WaitOK, Opens, LastSecond

LEMMA SignedStepOK ==
  ASSUME SignedInv, [SignedNext]_signedVars
  PROVE  SignedInv'
<1>1. ASSUME NEW n \in Nonces, NEW d \in Offsets, Sign(n, d)
      PROVE  SignedInv'
  <2>1. /\ n \notin DOMAIN signed /\ signed' = Put(signed, n, Floored(time + d))
        /\ UNCHANGED <<time, hasStore, usedNonces, claims, waiting, accepted>>
    BY <1>1 DEF Sign
  <2>2. Floored(time + d) \in Int
    BY SignedFloor, SignedAssumption DEF SignedInv, SignedShape
  <2>3. \A m \in DOMAIN signed : m \in DOMAIN signed' /\ signed'[m] = signed[m]
    BY <2>1 DEF Put
  <2>4. SignedShape'
    BY <2>1, <2>2 DEF SignedInv, SignedShape, Put
  <2>5. WaitsOK'
    BY <2>1, <2>3 DEF SignedInv, WaitsOK, WaitOK, Opens, LastSecond
  <2>6. time' \in Int /\ time <= time'
    BY <2>1 DEF SignedInv, SignedShape
  <2>7. HistoriesOK'
    <3> SUFFICES ASSUME NEW p \in Places, NEW m \in Nonces PROVE HistoryOK(p, m)'
      BY DEF HistoriesOK
    <3>1. \A t : Held(p, m, t) => Held(p, m, t)'
      BY <2>1 DEF Held
    <3> QED
      BY <2>1, <2>3, <2>6, <3>1, OtherHistoriesOK
  <2> QED
    BY <2>4, <2>5, <2>7 DEF SignedInv
<1>2. ASSUME NEW n \in Nonces, VerifySigned(n)
      PROVE  SignedInv'
  <2>1. /\ Timely(n) /\ n \notin DOMAIN usedNonces /\ Accept("cache", n)
        /\ usedNonces' = Put(usedNonces, n, time)
        /\ UNCHANGED <<time, hasStore, signed, claims, waiting>>
    BY <1>2 DEF VerifySigned
  <2>2. /\ n \in DOMAIN signed /\ Opens(n) <= time
        /\ time <= LastSecond(n) + SignedSecond - 1
    BY <2>1, TimelyWindow DEF SignedInv
  <2>3. time \in Int /\ SignedShape'
    BY <2>1 DEF SignedInv, SignedShape, Accept
  <2>4. WaitsOK'
    BY <2>1, SameWaitsOK DEF SignedInv, SignedShape
  <2>5. HistoryOK("cache", n)'
    <3>1. \A t \in Int : Held("cache", n, t) => time >= t + Kept
      BY <2>1, <2>3, SignedConstants DEF Held
    <3>2. Held("cache", n, time)'
      BY <2>1 DEF Held, Put
    <3>3. Late("cache") = 0 /\ "cache" \in Places
      BY DEF Late, Places
    <3>4. signed[n] \in Int
      BY <2>2 DEF SignedInv, SignedShape
    <3>5. time <= LastSecond(n) + SignedSecond - 1 + Late("cache")
      BY <2>2, <2>3, <3>3, <3>4, WindowLength, SignedConstants
    <3> QED
      BY <2>1, <2>2, <3>1, <3>2, <3>3, <3>5, AcceptOK
  <2>6. HistoriesOK'
    <3> SUFFICES ASSUME NEW p \in Places, NEW m \in Nonces, p # "cache" \/ m # n
                 PROVE  HistoryOK(p, m)'
      BY <2>5 DEF HistoriesOK
    <3>1. accepted'[p][m] = accepted[p][m]
      BY <2>1 DEF Accept, SignedInv, SignedShape
    <3>2. \A t : Held(p, m, t) => Held(p, m, t)'
      BY <2>1 DEF Held, Put
    <3> QED
      BY <2>1, <2>3, <3>1, <3>2, OtherHistoriesOK
  <2> QED
    BY <2>3, <2>4, <2>6 DEF SignedInv
<1>3. ASSUME UNCHANGED <<time, signed, usedNonces, claims, accepted>>
      PROVE  HistoriesOK'
  <2> SUFFICES ASSUME NEW p \in Places, NEW m \in Nonces PROVE HistoryOK(p, m)'
    BY DEF HistoriesOK
  <2>1. \A t : Held(p, m, t) => Held(p, m, t)'
    BY <1>3 DEF Held
  <2>2. time' \in Int /\ time <= time'
    BY <1>3 DEF SignedInv, SignedShape
  <2> QED
    BY <1>3, <2>1, <2>2, OtherHistoriesOK
<1>4. ASSUME NEW c \in SignedCalls, NEW n \in Nonces, VerifyAsync(c, n)
      PROVE  SignedInv'
  <2> DEFINE w == [pc |-> "claiming", nonce |-> n, since |-> time]
  <2>1. /\ Timely(n) /\ waiting' = [waiting EXCEPT ![c] = w]
        /\ UNCHANGED <<time, hasStore, signed, usedNonces, claims, accepted>>
    BY <1>4 DEF VerifyAsync
  <2>2. WaitOK(w)
    BY <2>1, TimelyWindow, SignedConstants DEF SignedInv, SignedShape, WaitOK, Claiming
  <2>3. SignedShape'
    BY <2>1 DEF SignedInv, SignedShape
  <2> HIDE DEF w
  <2>4. WaitsOK'
    BY <2>1, <2>2 DEF SignedInv, SignedShape, WaitsOK, WaitOK, Opens, LastSecond
  <2> QED
    BY <1>3, <2>1, <2>3, <2>4 DEF SignedInv
<1>5. ASSUME NEW c \in SignedCalls, ClaimNonce(c) \/ ClaimFails(c)
      PROVE  SignedInv'
  <2>1. /\ waiting[c] # NotWaiting /\ waiting' = [waiting EXCEPT ![c] = NotWaiting]
        /\ UNCHANGED <<time, hasStore, signed, usedNonces>>
    BY <1>5 DEF ClaimNonce, ClaimFails
  <2>2. PICK n : n = waiting[c].nonce
    OBVIOUS
  <2>3. WaitOK(waiting[c])
    BY <2>1 DEF SignedInv, WaitsOK
  <2>4. /\ n \in DOMAIN signed /\ n \in Nonces /\ signed[n] \in Int
        /\ time \in Int
    BY <2>2, <2>3 DEF WaitOK, SignedInv, SignedShape
  <2>5. /\ Opens(n) <= time
        /\ time <= LastSecond(n) + SignedSecond - 1 + Late("store")
    <3>1. PICK s \in Int : s = waiting[c].since
      BY <2>3 DEF WaitOK, Claiming
    <3>2. /\ Opens(n) <= s /\ s <= LastSecond(n) + SignedSecond - 1
          /\ s <= time /\ time <= s + SignedDelay
      BY <2>2, <2>3, <3>1 DEF WaitOK
    <3>3. Late("store") = SignedDelay
      BY DEF Late
    <3> QED
      BY <2>4, <3>2, <3>3, WindowLength, SignedConstants
  <2>6. claims' \in {claims, AfterClaim(claims, n, time, Kept)}
    BY <1>5, <2>2 DEF ClaimNonce, ClaimFails
  <2>7. accepted' = accepted \/ (ClaimNonce(c) /\ ~Claimed(claims, n, time))
    BY <1>5, <2>2 DEF ClaimNonce, ClaimFails
  <2>8. SignedShape'
    <3>1. \A m \in DOMAIN claims' : claims'[m] \in Int
      BY <2>4, <2>6, SignedConstants DEF AfterClaim, Put, SignedInv, SignedShape
    <3>2. accepted' = accepted \/ Accept("store", n)
      BY <2>2, <2>7 DEF ClaimNonce
    <3> QED
      BY <2>1, <3>1, <3>2 DEF SignedInv, SignedShape, Accept
  <2>9. WaitsOK'
    BY <2>1, SameWaitsOK DEF SignedInv, SignedShape
  <2>10. \A p, m : \A t \in Int : t <= time /\ Held(p, m, t) => Held(p, m, t)'
    <3>1. \A m \in DOMAIN claims : /\ m \in DOMAIN claims' /\ claims'[m] \in Int
                                   /\ claims[m] \in Int
                                   /\ claims'[m] = claims[m] \/ claims'[m] = time + Kept
      BY <2>4, <2>6, SignedConstants DEF AfterClaim, Put, SignedInv, SignedShape
    <3> QED
      BY <2>1, <2>4, <3>1, SignedConstants DEF Held
  <2>11. ASSUME NEW p \in Places, NEW m \in Nonces, accepted'[p][m] = accepted[p][m]
         PROVE  HistoryOK(p, m)'
    BY <2>1, <2>4, <2>10, <2>11, OtherHistoriesOK
  <2>12. CASE accepted' = accepted
    BY <2>8, <2>9, <2>11, <2>12 DEF SignedInv, HistoriesOK
  <2>13. CASE ClaimNonce(c) /\ ~Claimed(claims, n, time)
    <3>1. claims' = Put(claims, n, time + Kept) /\ Accept("store", n)
      BY <2>2, <2>13 DEF ClaimNonce, AfterClaim
    <3>2. \A t \in Int : Held("store", n, t) => time >= t + Kept
      BY <2>4, <2>13, SignedConstants DEF Held, Claimed, SignedInv, SignedShape
    <3>3. Held("store", n, time)'
      BY <2>1, <2>4, <3>1, SignedConstants DEF Held, Put
    <3>4. HistoryOK("store", n)'
      BY <2>1, <2>4, <2>5, <3>1, <3>2, <3>3, AcceptOK DEF Places
    <3>5. \A p \in Places, m \in Nonces :
            p # "store" \/ m # n => accepted'[p][m] = accepted[p][m]
      BY <3>1 DEF Accept, SignedInv, SignedShape
    <3> QED
      BY <2>8, <2>9, <2>11, <3>4, <3>5 DEF SignedInv, HistoriesOK
  <2> QED
    BY <2>7, <2>12, <2>13
<1>6. CASE ForgetNonces
  <2>1. /\ usedNonces' = Without(usedNonces, OldNonces)
        /\ UNCHANGED <<time, hasStore, signed, claims, waiting, accepted>>
    BY <1>6 DEF ForgetNonces
  <2>2. SignedShape' /\ WaitsOK' /\ time \in Int
    BY <2>1, SameWaitsOK DEF SignedInv, SignedShape
  <2>3. \A p, m : \A t \in Int : Held(p, m, t) => Held(p, m, t)'
    BY <2>1, <2>2, SignedConstants DEF Held, Without, OldNonces
  <2>4. HistoriesOK'
    BY <2>1, <2>2, <2>3, OtherHistoriesOK DEF HistoriesOK
  <2> QED
    BY <2>2, <2>4 DEF SignedInv
<1>7. CASE SignedTick
  <2>1. /\ time' = time + 1
        /\ \A c \in SignedCalls :
             waiting[c] # NotWaiting => time < waiting[c].since + SignedDelay
        /\ UNCHANGED <<hasStore, signed, usedNonces, claims, waiting, accepted>>
    BY <1>7 DEF SignedTick
  <2>2. time \in Int /\ SignedShape'
    BY <2>1 DEF SignedInv, SignedShape
  <2>3. WaitsOK'
    <3> SUFFICES ASSUME NEW c \in SignedCalls, waiting'[c] # NotWaiting
                 PROVE  WaitOK(waiting[c])'
      BY <2>1 DEF WaitsOK
    <3>1. WaitOK(waiting[c]) /\ time < waiting[c].since + SignedDelay
      BY <2>1 DEF SignedInv, WaitsOK
    <3>2. PICK s \in Int : s = waiting[c].since
      BY <3>1 DEF WaitOK, Claiming
    <3>3. s <= time' /\ time' <= s + SignedDelay
      BY <2>1, <2>2, <3>1, <3>2, SignedConstants DEF WaitOK
    <3> QED
      BY <2>1, <3>1, <3>2, <3>3 DEF WaitOK, Opens, LastSecond
  <2>4. \A p, m : \A t \in Int : Held(p, m, t) => Held(p, m, t)'
    BY <2>1, <2>2, SignedConstants DEF Held
  <2>5. HistoriesOK'
    BY <2>1, <2>2, <2>4, OtherHistoriesOK DEF HistoriesOK
  <2> QED
    BY <2>2, <2>3, <2>5 DEF SignedInv
<1>8. CASE UNCHANGED signedVars
  <2>1. /\ UNCHANGED <<time, signed, usedNonces, claims, accepted>>
        /\ UNCHANGED <<hasStore, waiting>>
    BY <1>8 DEF signedVars
  <2>2. SignedShape' /\ WaitsOK'
    BY <2>1, SameWaitsOK DEF SignedInv, SignedShape
  <2> QED
    BY <1>3, <2>1, <2>2 DEF SignedInv
<1> QED
  BY <1>1, <1>2, <1>4, <1>5, <1>6, <1>7, <1>8 DEF SignedNext

LEMMA SignedInitOK == SignedInit => SignedInv
BY DEF SignedInit, SignedInv, SignedShape, WaitsOK, HistoriesOK, HistoryOK, NoEntries

\* A signed request is accepted at most twice in one place, and again only when
\* its nonce has been kept for its time and in the last second of its window.
THEOREM RepeatAlways == SignedSpec => []RepeatOnlyInLastSecond
<1>1. SignedInv => RepeatOnlyInLastSecond
  <2> SUFFICES ASSUME SignedInv, NEW p \in Places, NEW n \in Nonces,
                      NEW q, q = accepted[p][n], Len(q) > 1
               PROVE  /\ Len(q) = 2 /\ q[2] - q[1] >= Kept
                      /\ q[2] \in LastSecond(n) ..
                                    (LastSecond(n) + SignedSecond - 1 + Late(p))
    BY DEF RepeatOnlyInLastSecond
  <2>1. q # <<>> /\ \A t \in Int : q # <<t>>
    BY LongerThanOne
  <2>2. PICK t \in Int, u \in Int : q = <<t, u>> /\ Later(p, n, t, u)
    BY <2>1 DEF SignedInv, HistoriesOK, HistoryOK
  <2> QED
    BY <2>2 DEF Later
<1> QED
  BY <1>1, SignedInitOK, SignedStepOK, PTL DEF SignedSpec
=============================================================================
