------------------------------ MODULE Dashboard ------------------------------
(***************************************************************************)
(* The dashboard's useLiveStats() (dashboard/src/api.ts) connected to the  *)
(* live feed: a socket that is retried, polling of the REST interface      *)
(* while it is down, and requests whose answers arrive at any later time.  *)
(* The totals are left out: each answer replaces them whole.               *)
(***************************************************************************)
EXTENDS LiveFeed

CONSTANTS
  MaxShown,       \* MAX_EVENTS (500)
  MaxFetches      \* bound: requests in flight

VARIABLES
  closed,         \* the component is unmounted
  socket,         \* "none", "connecting" or "open"
  status, retrying, polling,     \* retryTimer and pollTimer are set
  seeded,
  view,           \* the events shown, newest first
  fetches         \* requests in flight, with their answer once it is computed

pageVars == <<closed, socket, status, retrying, polling, seeded, view, fetches>>
dashboardVars == <<feedVars, pageVars>>

NotAnswered == <<-1>>

DashboardInit ==
  /\ FeedInit
  /\ closed = FALSE /\ socket = "none" /\ status = "connecting"
  /\ retrying = TRUE      \* connect() is about to be called by the effect
  /\ polling = FALSE /\ seeded = FALSE /\ view = <<>> /\ fetches = <<>>

-----------------------------------------------------------------------------
(* The page *)

\* A request for the events is sent.
Fetching(kind) ==
  fetches' = IF Len(fetches) < MaxFetches
               THEN Append(fetches, [kind |-> kind, list |-> NotAnswered])
               ELSE fetches

\* connect(), from the effect or the retry timer; a feed that is closed refuses.
Connect ==
  /\ retrying /\ ~closed
  /\ retrying' = FALSE /\ socket' = "connecting"
  /\ Upgrade(Page) \/ (~attached /\ UNCHANGED feedVars)
  /\ UNCHANGED <<closed, status, polling, seeded, view, fetches>>

\* The server accepts: onopen.
Open ==
  /\ socket = "connecting"
  /\ Admit(Page)
  /\ socket' = "open" /\ status' = "live" /\ polling' = FALSE
  /\ UNCHANGED <<closed, retrying, seeded, view, fetches>>

\* Mutant: polling starts when the socket closes, but the socket is not retried.
CloseForGood ==
  /\ socket' = "none" /\ status' = "polling" /\ retrying' = FALSE
  /\ polling' = TRUE
  /\ IF polling THEN UNCHANGED fetches ELSE Fetching("poll")
  /\ UNCHANGED <<closed, seeded, view>>

\* onclose: start polling if it is not on already, try again later.
OnClose ==
  /\ socket' = "none" /\ status' = "polling" /\ retrying' = TRUE
  /\ polling' = TRUE
  /\ IF polling THEN UNCHANGED fetches ELSE Fetching("poll")
  /\ UNCHANGED <<closed, seeded, view>>

\* The socket is lost (the server refused it, dropped it, or the network did).
Disconnected ==
  /\ ~closed
  /\ \/ socket = "connecting" /\ Page \in asking /\ Refuse(Page)
     \/ socket = "open" /\ Page \in clients /\ Leave(Page)
     \/ socket = "open" /\ Page \notin clients /\ UNCHANGED feedVars
     \/ socket = "connecting" /\ Page \notin asking /\ UNCHANGED feedVars
  /\ OnClose

\* onmessage.
Receive ==
  /\ socket = "open" /\ outbox # <<>>
  /\ outbox' = Tail(outbox)
  /\ LET message == Head(outbox)
         newer == Reverse(message.events) \o view
     IN
     \/ /\ message.type = "hello"
        /\ seeded' = TRUE
        /\ IF seeded THEN UNCHANGED <<view, fetches>>
                     ELSE view' = message.events /\ Fetching("seed")
     \/ /\ message.type = "events"
        /\ view' = SubSeq(newer, 1, IF Len(newer) < MaxShown THEN Len(newer)
                                                            ELSE MaxShown)
        /\ UNCHANGED <<seeded, fetches>>
     \/ /\ message.type = "summary"
        /\ UNCHANGED <<seeded, view, fetches>>
  /\ UNCHANGED <<total, pending, dropped, summaryDirty, summaryDue, attached,
                 asking, clients, alive, slow, history>>
  /\ UNCHANGED <<closed, socket, status, retrying, polling>>

\* The poll timer.
Poll ==
  /\ polling /\ Len(fetches) < MaxFetches
  /\ Fetching("poll")
  /\ UNCHANGED <<closed, socket, status, retrying, polling, seeded, view,
                 feedVars>>

\* The server answers /aegis/events?limit=500.
Serve(i) ==
  /\ fetches[i].list = NotAnswered
  /\ fetches' = [fetches EXCEPT ![i].list = Recent(MaxShown)]
  /\ UNCHANGED <<closed, socket, status, retrying, polling, seeded, view,
                 feedVars>>

\* The answer arrives; an unmounted component ignores it.
Arrive(i) ==
  /\ fetches[i].list # NotAnswered
  /\ fetches' = RemoveAt(fetches, i)
  /\ IF closed
       THEN UNCHANGED <<view, seeded>>
       ELSE /\ view' = fetches[i].list
            /\ seeded' = (seeded \/ fetches[i].kind = "poll")
  /\ UNCHANGED <<closed, socket, status, retrying, polling, feedVars>>

\* The request fails.
Lost(i) ==
  /\ fetches' = RemoveAt(fetches, i)
  /\ UNCHANGED <<closed, socket, status, retrying, polling, seeded, view,
                 feedVars>>

\* The effect's cleanup: no timer survives, the socket is closed.
Unmount ==
  /\ ~closed /\ closed' = TRUE
  /\ polling' = FALSE /\ retrying' = FALSE /\ socket' = "none"
  /\ IF Page \in clients THEN Leave(Page)
     ELSE IF Page \in asking THEN Refuse(Page) ELSE UNCHANGED feedVars
  /\ UNCHANGED <<status, seeded, view, fetches>>

PageNext ==
  \/ Connect \/ Open \/ Disconnected \/ Receive \/ Poll \/ Unmount
  \/ \E i \in DOMAIN fetches : Serve(i) \/ Arrive(i) \/ Lost(i)

\* The other viewers come and go.
OthersNext ==
  \E v \in Viewers \ {Page} : Upgrade(v) \/ Admit(v) \/ Leave(v)

DashboardNext ==
  \/ PageNext
  \/ (FeedNext \/ OthersNext) /\ UNCHANGED pageVars

DashboardSpec == DashboardInit /\ [][DashboardNext]_dashboardVars

-----------------------------------------------------------------------------
DashboardTypeOK ==
  /\ FeedTypeOK
  /\ {closed, retrying, polling, seeded} \subseteq BOOLEAN
  /\ socket \in {"none", "connecting", "open"}
  /\ status \in {"connecting", "live", "polling"}
  /\ ToSet(view) \subseteq 1..total /\ Len(view) <= MaxShown
  /\ Len(fetches) <= MaxFetches

\* A mounted page never gives up: it has a socket or a timer that will open
\* one, and polls exactly while the feed was lost; an unmounted one has
\* neither socket nor timer left (api.ts:125-166).
NeverStranded ==
  IF closed
    THEN ~polling /\ ~retrying /\ socket = "none" /\ Page \notin clients
    ELSE /\ (socket = "none") = retrying
         /\ polling = (status = "polling")
         /\ (status = "live") = (socket = "open")

=============================================================================
