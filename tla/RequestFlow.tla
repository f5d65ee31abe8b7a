------------------------------ MODULE RequestFlow ------------------------------
(***************************************************************************)
(* The way of a request through a web framework adapter of server-node     *)
(* (middleware/express.ts, fastify.ts and generic.ts), AegisNode and the   *)
(* DetectionEngine, to the application and back: the engine is started and *)
(* shut down meanwhile, modules and callbacks throw, and the statuses of   *)
(* overlapping requests are reported to the bot behaviour analyzer.        *)
(* What a request is worth is left to module RiskScoring.                  *)
(***************************************************************************)
EXTENDS Integers, Sequences, FiniteSets

CONSTANTS
  FlowRequests,                \* bound: the requests, each sent once
  FlowSids,                    \* the sessions the requests belong to
  Adapters,                \* those of "express", "fastify", "generic" in use
  HistorySize, NoStatus,   \* as in module BotBehavior
  MaxThrows                \* bound: errors thrown, restarts

ASSUME FlowAssumption ==
  /\ Adapters \subseteq {"express", "fastify", "generic"}
  /\ HistorySize \in Nat \ {0} /\ MaxThrows \in Nat
  /\ NoStatus \notin FlowRequests /\ "none" \notin FlowSids

VARIABLES
  running,       \* the engine's isRunning
  known,         \* its sessions
  histories,     \* what the behaviour analyzer keeps of each session
  flow,          \* the requests
  throws,        \* errors so far
  crossed        \* history: sessions with overlapping requests

flowVars ==
  <<running, known, histories, flow, throws, crossed>>

B == INSTANCE BotBehavior WITH
       RegularPages <- 8, GapsKept <- 20, SlowMean <- 60, LongRun <- 5,
       BreadthPages <- 30, FastSpan <- 300, ProbingAnswers <- 10, RefererPages <- 5,
       ExpectAssets <- FALSE, NoId <- -1

Absent == "none"
Denied == {"block", "challenge"}
New == [pc |-> "new", via |-> Absent, sid |-> Absent, token |-> Absent,
        verdict |-> Absent, handled |-> 0, answers |-> 0, watched |-> FALSE,
        thrown |-> FALSE, late |-> FALSE]

FlowInit ==
  /\ running = TRUE /\ known = {}
  /\ histories = [s \in FlowSids |-> <<>>]
  /\ flow = [r \in FlowRequests |-> New]
  /\ throws = 0 /\ crossed = {}

-----------------------------------------------------------------------------
(* The engine's life *)

\* init()
InitEngine ==
  /\ ~running /\ running' = TRUE
  /\ UNCHANGED <<known, histories, flow, throws, crossed>>

\* shutdown(): the sessions are gone, the analyzer's histories are not.
Shutdown ==
  /\ running /\ throws < MaxThrows
  /\ throws' = throws + 1
  /\ running' = FALSE /\ known' = {}
  /\ UNCHANGED <<histories, flow, crossed>>

-----------------------------------------------------------------------------
(* A request arrives *)

Step(r, new) == flow' = [flow EXCEPT ![r] = new]
Thrown == throws < MaxThrows /\ throws' = throws + 1

\* next(): the application's handler runs.  An adapter that calls it inside its
\* try block calls it again when it throws.
Handled(q) == [q EXCEPT !.pc = "app", !.handled = @ + 1]

\* The adapter tells endpoints and unprotected paths from protected ones.  One
\* adapter serves the application.
Receive(r, adapter, sid) ==
  /\ flow[r].pc = "new" /\ \A q \in FlowRequests : flow[q].via \in {Absent, adapter}
  /\ \/ Step(r, [New EXCEPT !.via = adapter, !.pc = "protected", !.sid = sid])
     \/ Step(r, Handled([New EXCEPT !.via = adapter]))       \* excluded
     \/ Step(r, [New EXCEPT !.via = adapter, !.pc = "endpoint"])
  /\ UNCHANGED <<running, known, histories, throws, crossed>>

\* handleEndpoint() answers, whatever goes wrong in it.
AnswerEndpoint(r) ==
  /\ flow[r].pc = "endpoint"
  /\ Step(r, [flow[r] EXCEPT !.pc = "done", !.answers = @ + 1])
  /\ UNCHANGED <<running, known, histories, throws, crossed>>

\* The body cannot be read (express, generic): fail open.  fastify reads it
\* before its hooks run, and answers the error itself.
EndpointThrows(r) ==
  /\ flow[r].pc = "endpoint" /\ Thrown
  /\ Step(r, IF flow[r].via = "fastify"
               THEN [flow[r] EXCEPT !.pc = "done", !.answers = @ + 1]
               ELSE Handled([flow[r] EXCEPT !.thrown = TRUE]))
  /\ UNCHANGED <<running, known, histories, crossed>>

-----------------------------------------------------------------------------
(* analyze() *)

FailOpen(q) == [q EXCEPT !.pc = "decided", !.verdict = "allow"]

\* Up to the address look-up.  (AegisNode runs its engine in monitor mode, in
\* which a rate limit does not end the analysis.)
StartAnalysis(r) ==
  /\ flow[r].pc = "protected"
  /\ \/ ~running /\ Step(r, FailOpen(flow[r])) /\ UNCHANGED throws
     \/ running /\ Step(r, [flow[r] EXCEPT !.pc = "lookup"]) /\ UNCHANGED throws
     \/ running /\ Thrown /\ Step(r, FailOpen(flow[r]))
  /\ UNCHANGED <<running, known, histories, crossed>>

\* The session is resumed or (again) opened, the request observed.  A status
\* is attached to the latest request, so another one of the same session
\* that is still to be answered is on record.
Unanswered(s) ==
  {q \in FlowRequests :
     flow[q].token = s /\ flow[q].pc \in {"decided", "app"} /\ flow[q].answers = 0}

Observe(r) ==
  LET s == flow[r].sid
  IN  /\ known' = known \cup {s}
      /\ histories' = [histories EXCEPT ![s] =
                         B!Observed(@, [request |-> r, status |-> NoStatus])]
      /\ crossed' = IF Unanswered(s) # {} THEN crossed \cup {s} ELSE crossed

\* The rest of analyze(), with finish().  (Event handlers that throw are caught.)
EndAnalysis(r, verdict) ==
  /\ flow[r].pc = "lookup"
  /\ Observe(r)
  /\ Step(r, [flow[r] EXCEPT !.pc = "decided", !.verdict = verdict,
                             !.token = flow[r].sid])
  /\ UNCHANGED <<running, throws>>

\* A module throws before or after the session's.
AnalysisThrows(r) ==
  /\ flow[r].pc = "lookup" /\ Thrown
  /\ \/ UNCHANGED <<known, histories, crossed>>
     \/ Observe(r)
  /\ Step(r, FailOpen(flow[r]))
  /\ UNCHANGED <<running>>

-----------------------------------------------------------------------------
(* The adapter acts on the decision *)

Watched(q) == [q EXCEPT !.watched = TRUE]
Answered(q) == [q EXCEPT !.pc = "done", !.answers = @ + 1]

\* recordResponse() of an answered request.
Report(r) ==
  IF flow[r].token = Absent THEN UNCHANGED histories
  ELSE histories' = [histories EXCEPT ![flow[r].token] = B!Answered(@, r)]

\* Mutant: the handler runs even for a request that has been denied.
ActAndGoOn(r) ==
  /\ flow[r].pc = "decided"
  /\ Step(r, Handled(Watched(flow[r])))
  /\ UNCHANGED histories
  /\ UNCHANGED <<running, known, throws, crossed>>

\* denial() is sent, and reported, or the application's handler runs.
Act(r) ==
  /\ flow[r].pc = "decided"
  /\ IF flow[r].verdict \in Denied
       THEN Step(r, Answered(Watched(flow[r]))) /\ Report(r)
       ELSE Step(r, Handled(Watched(flow[r]))) /\ UNCHANGED histories
  /\ UNCHANGED <<running, known, throws, crossed>>

\* onDecision() or onDeny() of express throws, or evaluate() does: fail open.
\* onDecision() comes before the 'finish' listener, onDeny() after it.  Nothing
\* has been answered.
CallbackThrows(r) ==
  /\ flow[r].pc = "decided" /\ Thrown
  /\ \/ flow[r].via = "express"
        /\ Step(r, Handled([flow[r] EXCEPT !.thrown = TRUE]))
     \/ flow[r].via = "express" /\ flow[r].verdict \in Denied
        /\ Step(r, Handled([Watched(flow[r]) EXCEPT !.thrown = TRUE]))
     \/ Step(r, Handled([flow[r] EXCEPT !.thrown = TRUE, !.token = Absent]))
  /\ UNCHANGED <<running, known, histories, crossed>>

\* The application's handler throws at once, inside next() of a plain server:
\* the catch block calls next() again.  (express and fastify catch the error.)
HandlerThrows(r) ==
  /\ flow[r].pc = "app" /\ flow[r].via = "generic" /\ flow[r].handled = 1
  /\ ~flow[r].thrown /\ Thrown
  /\ Step(r, Handled([flow[r] EXCEPT !.thrown = TRUE]))
  /\ UNCHANGED <<running, known, histories, crossed>>

\* onDeny(), or the handler of a plain server, throws after it has answered:
\* the catch block calls next() all the same.  The response's 'finish' event
\* comes with this first answer.
Late(q) == [q EXCEPT !.thrown = TRUE, !.late = TRUE, !.answers = @ + 1]

DenyThrowsLate(r) ==
  /\ flow[r].pc = "decided" /\ flow[r].via = "express" /\ flow[r].verdict \in Denied
  /\ Thrown
  /\ Step(r, Handled(Late(Watched(flow[r])))) /\ Report(r)
  /\ UNCHANGED <<running, known, crossed>>

HandlerThrowsLate(r) ==
  /\ flow[r].pc = "app" /\ flow[r].via = "generic" /\ flow[r].handled = 1
  /\ ~flow[r].thrown /\ Thrown
  /\ Step(r, Handled(Late(flow[r])))
  /\ IF flow[r].watched THEN Report(r) ELSE UNCHANGED histories
  /\ UNCHANGED <<running, known, crossed>>

\* The application answers; the status of an evaluated request is reported,
\* unless it has been.
Respond(r) ==
  /\ flow[r].pc = "app"
  /\ Step(r, Answered(flow[r]))
  /\ IF flow[r].watched /\ ~flow[r].late THEN Report(r) ELSE UNCHANGED histories
  /\ UNCHANGED <<running, known, throws, crossed>>

FlowNext ==
  \/ InitEngine \/ Shutdown
  \/ \E r \in FlowRequests :
       \/ \E adapter \in Adapters, sid \in FlowSids : Receive(r, adapter, sid)
       \/ AnswerEndpoint(r) \/ EndpointThrows(r)
       \/ StartAnalysis(r) \/ AnalysisThrows(r)
       \/ \E verdict \in {"allow", "challenge", "block"} : EndAnalysis(r, verdict)
       \/ Act(r) \/ CallbackThrows(r) \/ HandlerThrows(r)
       \/ DenyThrowsLate(r) \/ HandlerThrowsLate(r) \/ Respond(r)

FlowSpec == FlowInit /\ [][FlowNext]_flowVars

-----------------------------------------------------------------------------
FlowTypeOK ==
  /\ running \in BOOLEAN
  /\ known \subseteq FlowSids /\ crossed \subseteq FlowSids
  /\ \A s \in FlowSids : Len(histories[s]) <= HistorySize
  /\ throws \in 0..MaxThrows

\* However errors are thrown, no request is forgotten, and none is answered
\* twice but one whose onDeny(), or whose handler on a plain server, answered
\* and then threw ("a detection error must never take the site down", so the
\* request goes to the handler, again).  One that was denied does not reach the
\* application unless something threw, and only a plain server's handler that
\* threw runs twice, and then no third time.
AnsweredOnce ==
  \A r \in FlowRequests :
    LET q == flow[r]
    IN  /\ q.answers = (IF q.pc = "done" THEN 1 ELSE 0) + (IF q.late THEN 1 ELSE 0)
        /\ q.late => \/ q.via = "generic" /\ q.handled = 2
                     \/ q.via = "express" /\ q.verdict \in Denied
        /\ q.handled <= (IF q.via = "generic" /\ q.thrown THEN 2 ELSE 1)
        /\ q.verdict \in Denied /\ q.handled > 0 => q.thrown

\* A status is counted once.  It lands on its own request, or (as "the
\* session's latest request" is taken) on a later one of a session whose
\* requests overlapped; without overlap none is lost or attached to a
\* neighbour, restarts and failing analyses included.
StatusesBelong ==
  \A s \in FlowSids :
    LET h == histories[s]
        given == {i \in DOMAIN h : h[i].status # NoStatus}
    IN  /\ \A i, j \in given : h[i].status = h[j].status => i = j
        /\ \A i \in given : h[i].status = h[i].request \/ s \in crossed
        /\ s \notin crossed =>
             \A i \in DOMAIN h :
               LET q == flow[h[i].request]
               IN  q.answers > 0 /\ q.watched /\ q.token # Absent => i \in given
=============================================================================
