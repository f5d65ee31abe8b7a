------------------------------- MODULE LiveFeed -------------------------------
(***************************************************************************)
(* The WebSocket feed of decisions, server-node/src/live.ts, with the      *)
(* counters and the latest events it reads from stats.ts.  Events are the  *)
(* numbers 1, 2, ... in the order of their recording.                      *)
(*                                                                         *)
(* One viewer, Page, is a dashboard that module Dashboard describes; what  *)
(* is sent to it waits in outbox.  The other viewers read at once; the     *)
(* history says what each of them got.                                     *)
(***************************************************************************)
EXTENDS Integers, Sequences, FiniteSets, SequencesExt

CONSTANTS
  Viewers, Page,
  FeedBatch, MaxClients, MaxKept,   \* as in the code (200, 100, 500)
  HelloSize,                       \* events in the greeting (100)
  MaxEvents                        \* bound: events recorded

ASSUME FeedAssumption ==
  /\ Page \in Viewers
  /\ {FeedBatch, MaxClients, MaxKept, HelloSize, MaxEvents} \subseteq Nat \ {0}

VARIABLES
  total,          \* stats: events recorded so far
  pending, dropped,
  summaryDirty, summaryDue,     \* summaryDue: 2 s since lastSummaryAt
  attached,       \* the feed's listeners and timers are installed
  asking,         \* viewers whose upgrade awaits authorize()
  clients,        \* wss.clients
  alive,          \* of each client: answered the last ping
  slow,           \* clients with 1 MB buffered
  outbox,         \* messages to Page on their way
  joined, told, reported, knows, stalled   \* history: totals at the greeting,
                  \* events and drops sent, totals last sent, skipped a flush

feedVars ==
  <<total, pending, dropped, summaryDirty, summaryDue, attached, asking,
    clients, alive, slow, outbox, joined, told, reported, knows, stalled>>
history == <<joined, told, reported, knows, stalled>>

Others == Viewers \ {Page}

-----------------------------------------------------------------------------
\* recent(limit): the latest of the events that stats.ts keeps, newest first.
Recent(limit) ==
  LET n == CHOOSE k \in {total, limit, MaxKept} :
             \A other \in {total, limit, MaxKept} : k <= other
  IN  [i \in 1..n |-> total - i + 1]

\* The clients broadcast() sends to: a slow one skips the message.
Reached == clients \ slow

\* broadcast(), as far as Page is concerned.
ToPage(messages) == IF Page \in Reached THEN outbox \o messages ELSE outbox

\* wss drops a client: it is terminated or its socket closes.
Dismiss(gone) ==
  /\ clients' = clients \ gone
  /\ slow' = slow \ gone
  /\ outbox' = IF Page \in gone THEN <<>> ELSE outbox

FeedInit ==
  /\ total = 0 /\ pending = <<>> /\ dropped = 0
  /\ summaryDirty = FALSE /\ summaryDue = TRUE /\ attached = TRUE
  /\ asking = {} /\ clients = {} /\ slow = {} /\ outbox = <<>>
  /\ alive = [v \in Viewers |-> TRUE]
  /\ joined = [v \in Others |-> 0] /\ told = [v \in Others |-> {}]
  /\ reported = [v \in Others |-> 0] /\ knows = [v \in Others |-> 0]
  /\ stalled = {}

\* Mutant: a batch that is full loses further events without counting them.
SilentRecord ==
  /\ total < MaxEvents
  /\ total' = total + 1
  /\ summaryDirty' = (attached \/ summaryDirty)
  /\ pending' = IF attached /\ clients # {} /\ Len(pending) < FeedBatch
                  THEN Append(pending, total + 1) ELSE pending
  /\ UNCHANGED <<dropped, summaryDue, attached, asking, clients, alive, slow,
                 outbox, history>>

\* stats.record(): the counters change and the feed's onEvent() is called.
Record ==
  /\ total < MaxEvents
  /\ total' = total + 1
  /\ summaryDirty' = (attached \/ summaryDirty)
  /\ IF attached /\ clients # {}
       THEN IF Len(pending) < FeedBatch
              THEN pending' = Append(pending, total + 1) /\ UNCHANGED dropped
              ELSE dropped' = dropped + 1 /\ UNCHANGED pending
       ELSE UNCHANGED <<pending, dropped>>
  /\ UNCHANGED <<summaryDue, attached, asking, clients, alive, slow, outbox,
                 history>>

\* The flush timer: the batch, and at most every two seconds the summary.
Flush ==
  /\ attached
  /\ LET batch == pending # <<>> \/ dropped > 0
         summary == summaryDirty /\ summaryDue /\ clients # {}
         served == IF batch THEN Reached ELSE {}
         totals == IF summary THEN Reached ELSE {}
     IN
     /\ batch \/ summary
     /\ outbox' = ToPage(
          (IF batch THEN <<[type |-> "events", events |-> pending]>> ELSE <<>>)
          \o (IF summary THEN <<[type |-> "summary", events |-> <<>>]>> ELSE <<>>))
     /\ pending' = <<>> /\ dropped' = 0
     /\ summaryDirty' = (summaryDirty /\ ~summary)
     /\ summaryDue' = (summaryDue /\ ~summary)
     /\ told' = [v \in Others |-> IF v \in served THEN told[v] \cup ToSet(pending)
                                                   ELSE told[v]]
     /\ reported' = [v \in Others |-> IF v \in served THEN reported[v] + dropped
                                                       ELSE reported[v]]
     /\ knows' = [v \in Others |-> IF v \in totals THEN total ELSE knows[v]]
     /\ stalled' = stalled \cup (slow \ {Page})
  /\ UNCHANGED <<total, attached, asking, clients, alive, slow, joined>>

\* Two seconds have passed since the last summary.
SummaryTime ==
  /\ ~summaryDue /\ summaryDue' = TRUE
  /\ UNCHANGED <<total, pending, dropped, summaryDirty, attached, asking,
                 clients, alive, slow, outbox, history>>

\* The heartbeat timer terminates who missed a ping, and pings the others.
Heartbeat ==
  /\ attached /\ clients # {}
  /\ LET missed == {v \in clients : ~alive[v]}
     IN  /\ Dismiss(missed)
         /\ alive' = [v \in Viewers |-> alive[v] /\ v \notin clients]
  /\ UNCHANGED <<total, pending, dropped, summaryDirty, summaryDue, attached,
                 asking, history>>

Pong(v) ==
  /\ v \in clients /\ ~alive[v]
  /\ alive' = [alive EXCEPT ![v] = TRUE]
  /\ UNCHANGED <<total, pending, dropped, summaryDirty, summaryDue, attached,
                 asking, clients, slow, outbox, history>>

\* onUpgrade() up to the await of authorize().
Upgrade(v) ==
  /\ attached /\ v \notin clients \cup asking
  /\ asking' = asking \cup {v}
  /\ UNCHANGED <<total, pending, dropped, summaryDirty, summaryDue, attached,
                 clients, alive, slow, outbox, history>>

\* authorize() accepted and the feed has room: the viewer is greeted with the
\* totals and the latest events.  A closed server accepts nobody.
HasRoom == Cardinality(clients) < MaxClients
Admit(v) ==
  /\ v \in asking /\ attached /\ HasRoom
  /\ asking' = asking \ {v}
  /\ clients' = clients \cup {v}
  /\ alive' = [alive EXCEPT ![v] = TRUE]
  /\ outbox' = IF v = Page
                 THEN <<[type |-> "hello", events |-> Recent(HelloSize)]>>
                 ELSE outbox
  /\ IF v = Page
       THEN UNCHANGED history
       ELSE /\ joined' = [joined EXCEPT ![v] = total]
            /\ told' = [told EXCEPT ![v] = {}]
            /\ reported' = [reported EXCEPT ![v] = 0]
            /\ knows' = [knows EXCEPT ![v] = total]
            /\ stalled' = stalled \ {v}
  /\ UNCHANGED <<total, pending, dropped, summaryDirty, summaryDue, attached,
                 slow>>

\* authorize() refused or failed, the feed is full or closed, or the client
\* gave up meanwhile.
Refuse(v) ==
  /\ v \in asking
  /\ asking' = asking \ {v}
  /\ UNCHANGED <<total, pending, dropped, summaryDirty, summaryDue, attached,
                 clients, alive, slow, outbox, history>>

\* A client's socket closes or fails.
Leave(v) ==
  /\ v \in clients
  /\ Dismiss({v})
  /\ UNCHANGED <<total, pending, dropped, summaryDirty, summaryDue, attached,
                 asking, alive, history>>

\* bufferedAmount passes MAX_BUFFERED, and falls below it again.
Congest(v) ==
  /\ v \in clients
  /\ \/ v \notin slow /\ slow' = slow \cup {v}
     \/ v \in slow /\ slow' = slow \ {v}
  /\ UNCHANGED <<total, pending, dropped, summaryDirty, summaryDue, attached,
                 asking, clients, alive, outbox, history>>

\* close() of the feed.
Close ==
  /\ attached /\ attached' = FALSE
  /\ Dismiss(clients)
  /\ UNCHANGED <<total, pending, dropped, summaryDirty, summaryDue, asking,
                 alive, history>>

FeedNext ==
  \/ Record \/ Flush \/ SummaryTime \/ Heartbeat \/ Close
  \/ \E v \in Viewers : Pong(v) \/ Refuse(v) \/ Congest(v)

-----------------------------------------------------------------------------
FeedTypeOK ==
  /\ total \in 0..MaxEvents
  /\ ToSet(pending) \subseteq 1..total /\ Len(pending) <= FeedBatch
  /\ dropped \in 0..total
  /\ {summaryDirty, summaryDue, attached} \subseteq BOOLEAN
  /\ asking \subseteq Viewers /\ clients \subseteq Viewers
  /\ slow \subseteq clients /\ stalled \subseteq Others
  /\ alive \in [Viewers -> BOOLEAN]
  /\ joined \in [Others -> 0..total] /\ knows \in [Others -> 0..total]
  /\ told \in [Others -> SUBSET (1..total)]
  /\ reported \in [Others -> 0..total]

\* "A batch holds at most maxBatch events and the rest are counted in
\* dropped": what a connected viewer was not sent since its greeting (and is
\* not about to be) is no more than what it was told, or will be, as dropped -
\* also when others come and go, or nobody watched for a while - and its
\* totals are current or will be sent.  Only a client that was too slow at a
\* flush is told nothing of what it skipped (live.ts:17).
ViewersInformed ==
  \A v \in clients \ (stalled \cup {Page}) :
    /\ LET unseen == ((joined[v] + 1)..total) \ (told[v] \cup ToSet(pending))
       IN  Cardinality(unseen) <= reported[v] + dropped
    /\ knows[v] = total \/ summaryDirty

=============================================================================
