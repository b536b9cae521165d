----------------------------- MODULE ApiStream -----------------------------
(***************************************************************************)
(* The web client and the routes it uses (flutter/lib/services/            *)
(* api_service.dart, src/api): the client holds one stream of server       *)
(* events, opens it anew when it breaks or after a start or a stop, and    *)
(* shows the status the stream delivers.  A generation names an attempt to *)
(* stream; whatever arrives for another one must change nothing.           *)
(* Dart runs one callback at a time and gives way only at an await, so an  *)
(* action is what runs between two awaits.  A status is its running flag;  *)
(* the configuration travels with it and is left out, and so are the       *)
(* lengths of the reconnect delays.                                        *)
(***************************************************************************)
EXTENDS Naturals

CONSTANTS
  Panels,       \* the widgets that start and stop the service; a change of
                \* layout rebuilds one while an action of the old one is under way
  MaxActions,   \* bound: starts and stops asked for
  MaxFaults     \* bound: failures of the service, the server or the network

ASSUME StreamAssumption ==
  /\ MaxActions \in Nat /\ MaxFaults \in Nat

VARIABLES
  running,    \* the server: is the service running
  gen,        \* _streamGeneration
  client,     \* the attempt whose client is _streamClient, 0 for null
  sub,        \* the attempt whose subscription is _streamSubscription, 0 for null
  sending,    \* attempts that await client.send
  listening,  \* attempts with a live subscription
  opened,     \* attempts whose client is not closed
  transit,    \* lines on their way, of an attempt each
  timer,      \* is _reconnectTimer armed
  restarts,   \* calls of _restartStreaming that await the end of a subscription
  status,     \* _status: "null", "running" or "stopped"
  disposed,
  requests,   \* the action of each panel: none, asked for or answered; alone
              \* (history) while none other has been under way with it
  asked, faults,  \* how many there have been
  stopShown   \* history: a stop succeeded alone, and nothing was asked since

attemptVars == <<gen, client, sub, sending, listening, opened, transit, timer>>
actionVars == <<requests, asked, stopShown>>
streamVars == <<running, attemptVars, restarts, status, disposed, actionVars, faults>>

Generations == 1 .. 2 * MaxActions + MaxFaults + 2
Idle == [act |-> "none", reply |-> "none", alone |-> FALSE]

\* The constructor calls _startStreaming.
StreamInit ==
  /\ running \in BOOLEAN
  /\ gen = 1 /\ client = 1 /\ sub = 0
  /\ sending = {1} /\ listening = {} /\ opened = {1}
  /\ transit = {} /\ timer = FALSE
  /\ restarts = 0 /\ status = "null" /\ disposed = FALSE
  /\ requests = [p \in Panels |-> Idle]
  /\ asked = 0 /\ faults = 0 /\ stopShown = FALSE

----------------------------------------------------------------------------
(* An attempt to stream *)

\* Mutant: a new attempt leaves the client of the one before open.
LeftOpen(old) == opened
ClosedClient(old) == opened \ {old}

\* _startStreaming up to its await, for an object not disposed; a subscription
\* that was cancelled delivers nothing any more.
StartStreaming(oldClient, oldSub) ==
  /\ gen' = gen + 1
  /\ client' = gen' /\ sub' = 0
  /\ sending' = sending \cup {gen'}
  /\ listening' = listening \ {oldSub}
  /\ opened' = ClosedClient(oldClient) \cup {gen'}
  /\ transit' = {l \in transit : l.of # oldSub}

\* Mutant: only a stream that had been open is followed by another one.
HadStream(g) == g = gen /\ g = sub
\* generation == _streamGeneration
Current(g) == g = gen

\* _handleDisconnect and _scheduleReconnect, for the attempt g.
Reconnect(g) ==
  IF Current(g) /\ ~disposed THEN timer' = TRUE /\ status' = "null"
  ELSE UNCHANGED <<timer, status>>

\* The server answers 200: a replaced attempt closes its client.
SendAnswered(g) ==
  /\ g \in sending
  /\ sending' = sending \ {g}
  /\ IF g = gen
       THEN sub' = g /\ listening' = listening \cup {g} /\ UNCHANGED opened
       ELSE opened' = opened \ {g} /\ UNCHANGED <<sub, listening>>
  /\ UNCHANGED <<running, gen, client, transit, timer, restarts, status, disposed,
                 actionVars, faults>>

Fault == faults < MaxFaults /\ faults' = faults + 1

\* send throws, because the network failed or its client was closed.
SendFails(g) ==
  /\ g \in sending
  /\ IF g \in opened THEN Fault ELSE UNCHANGED faults
  /\ sending' = sending \ {g}
  /\ Reconnect(g)
  /\ UNCHANGED <<running, gen, client, sub, listening, opened, transit, restarts,
                 disposed, actionVars>>

\* Any other answer closes the client first.
SendRefused(g) ==
  /\ g \in sending /\ Fault
  /\ sending' = sending \ {g} /\ opened' = opened \ {g}
  /\ Reconnect(g)
  /\ UNCHANGED <<running, gen, client, sub, listening, transit, restarts, disposed,
                 actionVars>>

Shown == IF running THEN "running" ELSE "stopped"

\* stream_updates, once a second; of the lines under way the last one is kept.
Push(g) ==
  /\ g \in listening \cap opened
  /\ transit' = {l \in transit : l.of # g} \cup {[of |-> g, says |-> Shown]}
  /\ UNCHANGED <<running, gen, client, sub, sending, listening, opened, timer,
                 restarts, status, disposed, actionVars, faults>>

\* Mutant: the line of a replaced stream is taken as well.
AnyLine(g) == TRUE
LineCounts(g) == g = gen

Line(l) ==
  /\ l \in transit
  /\ transit' = transit \ {l}
  /\ status' = IF LineCounts(l.of) THEN l.says ELSE status
  /\ UNCHANGED <<running, gen, client, sub, sending, listening, opened, timer,
                 restarts, disposed, actionVars, faults>>

\* onError or onDone: the stream breaks or ends, or its client was closed.
StreamEnds(g) ==
  /\ g \in listening
  /\ IF g \in opened THEN Fault ELSE UNCHANGED faults
  /\ listening' = listening \ {g}
  /\ transit' = {l \in transit : l.of # g}
  /\ Reconnect(g)
  /\ UNCHANGED <<running, gen, client, sub, sending, opened, restarts, disposed,
                 actionVars>>

\* The timer calls _startStreaming.
TimerFires ==
  /\ timer /\ timer' = FALSE
  /\ StartStreaming(client, sub)
  /\ UNCHANGED <<running, restarts, status, disposed, actionVars, faults>>

----------------------------------------------------------------------------
(* Restarts, starts and stops *)

\* _restartStreaming up to its await: nothing of the old subscription arrives.
RestartBegins ==
  IF disposed THEN UNCHANGED <<attemptVars, restarts>>
  ELSE /\ gen' = gen + 1
       /\ timer' = FALSE
       /\ listening' = listening \ {sub}
       /\ transit' = {l \in transit : l.of # sub}
       /\ restarts' = restarts + 1
       /\ UNCHANGED <<client, sub, sending, opened>>

\* What comes after it: by now the subscription may be another one's, and it is
\* dropped without being cancelled; a timer armed meanwhile stays.
RestartResumes ==
  /\ restarts > 0 /\ restarts' = restarts - 1
  /\ IF disposed
       THEN /\ opened' = opened \ {client} /\ client' = 0 /\ sub' = 0
            /\ UNCHANGED <<gen, sending, listening, transit>>
       ELSE StartStreaming(client, 0)
  /\ UNCHANGED <<running, timer, status, disposed, actionVars, faults>>

\* A panel runs one action at a time.
Ask(p, act) ==
  /\ requests[p] = Idle /\ ~disposed /\ asked < MaxActions
  /\ requests' = [q \in Panels |->
        IF q = p THEN [act |-> act, reply |-> "none",
                       alone |-> \A o \in Panels \ {p} : requests[o] = Idle]
        ELSE [requests[q] EXCEPT !.alone = FALSE]]
  /\ asked' = asked + 1
  /\ stopShown' = FALSE
  /\ UNCHANGED <<running, attemptVars, restarts, status, disposed, faults>>

\* start_service and stop_service, as the life cycle answers them.
Handle(p) ==
  /\ requests[p].act # "none" /\ requests[p].reply = "none"
  /\ LET succeeds == running = (requests[p].act = "stop") IN
       /\ requests' = [requests EXCEPT ![p].reply = IF succeeds THEN "ok" ELSE "error"]
       /\ running' = IF succeeds THEN requests[p].act = "start" ELSE running
  /\ UNCHANGED <<attemptVars, restarts, status, disposed, asked,
                 stopShown, faults>>

\* The start fails for another reason, or the answer is lost; a request without
\* an answer has taken effect by then or never will.
HandleFails(p) ==
  /\ requests[p].act # "none" /\ requests[p].reply # "error" /\ Fault
  /\ requests' = [requests EXCEPT ![p].reply = "error"]
  /\ UNCHANGED <<running, attemptVars, restarts, status, disposed, asked,
                 stopShown>>

\* startService and stopService go on with the answer.
Answered(p) ==
  /\ requests[p].reply # "none"
  /\ requests' = [requests EXCEPT ![p] = Idle]
  /\ IF requests[p].reply = "error"
       THEN UNCHANGED <<attemptVars, restarts, status, stopShown>>
       ELSE /\ status' = IF requests[p].act = "stop" THEN "stopped" ELSE status
            /\ stopShown' = (requests[p].act = "stop" /\ requests[p].alone)
            /\ RestartBegins
  /\ UNCHANGED <<running, disposed, asked, faults>>

\* The service ends by itself.
ServiceFails ==
  /\ running /\ Fault
  /\ running' = FALSE
  /\ UNCHANGED <<attemptVars, restarts, status, disposed, actionVars>>

Dispose ==
  /\ ~disposed /\ disposed' = TRUE
  /\ gen' = gen + 1
  /\ timer' = FALSE
  /\ listening' = listening \ {sub}
  /\ transit' = {l \in transit : l.of # sub}
  /\ opened' = opened \ {client}
  /\ UNCHANGED <<running, client, sub, sending, restarts, status, actionVars, faults>>

----------------------------------------------------------------------------
\* What goes on by itself: callbacks, timers and the answers of the server.
StreamRuns ==
  \/ \E g \in Generations : SendAnswered(g) \/ StreamEnds(g)
  \/ \E l \in transit : Line(l)
  \/ TimerFires \/ RestartResumes
  \/ \E p \in Panels : Handle(p) \/ Answered(p)

StreamNext ==
  \/ StreamRuns
  \/ \E g \in Generations : SendFails(g) \/ SendRefused(g) \/ Push(g)
  \/ \E p \in Panels :
       HandleFails(p) \/ \E act \in {"start", "stop"} : Ask(p, act)
  \/ ServiceFails \/ Dispose

StreamSpec == StreamInit /\ [][StreamNext]_streamVars

----------------------------------------------------------------------------
(* Properties *)

\* Generations leaves no attempt out.
StreamTypeOK ==
  /\ running \in BOOLEAN /\ timer \in BOOLEAN /\ disposed \in BOOLEAN
  /\ gen \in Generations
  /\ client \in Generations \cup {0} /\ sub \in Generations \cup {0}
  /\ sending \subseteq opened \cup 1 .. gen
  /\ \A l \in transit : l.of \in listening
  /\ status \in {"null", "running", "stopped"}

\* One connection at most is open, that of the attempt the client holds, and
\* none once the object is disposed, however restarts, timers and answers
\* overlap (api_service.dart:62-76, 140-158).
OneConnection ==
  /\ opened \subseteq {client}
  /\ disposed => opened = {}

\* After a successful stop the client never shows a running service until
\* something is asked again: no line of a stream that was replaced, sent while
\* the service ran, gets through (api_service.dart:91, 150-152, 283-285).
StopShown == stopShown => status # "running"

\* When nothing fails or is asked any more, a client in use shows the state of
\* the service for good: no sequence of errors, restarts and timers leaves it
\* without a stream (api_service.dart:130-135, 150-159).
ShownCatchesUp == <>[](disposed \/ status = Shown)
=============================================================================
