----------------------------- MODULE WsProvider -----------------------------
(***************************************************************************)
(* The connection and the requests of packages/providers/src/ws/           *)
(* WsProvider.ts and base/SubscriptionProvider.ts.                         *)
(*                                                                         *)
(* A request sent while the provider reconnects waits for the deferred     *)
(* #recovering; a request in flight when the connection is lost stays in   *)
(* _handlers and is sent again on the next connection.  Continuations of   *)
(* a resolved #recovering run before the next event, so they are part of   *)
(* the step that resolves it.                                              *)
(*                                                                         *)
(* #doConnect() looks for a socket before it awaits the endpoint and not   *)
(* afterwards: of two that run at once the second replaces the socket of   *)
(* the first, an orphan then, whose handlers stay attached and act on the  *)
(* socket that took its place.                                             *)
(***************************************************************************)
EXTENDS Naturals, FiniteSets

CONSTANTS Requests,    \* the calls of send(), each made at most once
          Retryable,   \* those whose method is sent again on reconnection
          Options,     \* how a provider may be made: are retryDelayMs and
                       \* timeout, which disable what they time, above 0?
          MaxRetry,    \* maxRetryAttempts
          MaxConnects, \* bound on the calls of connect()
          MaxLosses    \* bound on the close events

ASSUME RetryableAssumption == Retryable \in SUBSET Requests
ASSUME OptionsAssumption == Options \subseteq [retries : BOOLEAN, timeouts : BOOLEAN]
ASSUME MaxRetryAssumption == MaxRetry \in Nat

VARIABLES options,     \* #options
          ws,          \* the socket, "none" when #ws is undefined
          orphans,     \* how many sockets that were replaced are in each stage
          status,      \* _status
          attempt,     \* #attempt
          initialized, \* #initialized
          recovering,  \* is #recovering defined?
          timers,      \* calls of setTimeout that wait, by their delay
          selecting,   \* attempts that wait for the endpoint selector
          ticking,     \* does the interval #timeoutTimer run?
          handlers,    \* the requests with an entry in _handlers
          wire,        \* those a node received and whose answer is listened to
          req,         \* what the caller of send() knows
          failed,      \* history: did an attempt to connect fail?
          ended,       \* history: was a connection ended for good?
          abandoned,   \* history: was one lost, and no retry to follow?
          overlaps,    \* history: the calls of connect() before another attempt
                       \* was over
          orphaned,    \* history: was a socket replaced?
          connects, losses

link     == <<ws, orphans, status, attempt, initialized, recovering, timers,
              selecting, ticking>>
requests == <<handlers, wire, req>>
history  == <<failed, ended, abandoned, overlaps, orphaned>>
bounds   == <<connects, losses>>
vars     == <<options, link, requests, history, bounds>>

Sockets == {"connecting", "open", "closing"}

Stages == {"idle",
           "parked",   \* waits for #recovering
           "stranded", \* waits for a deferred #recovering no longer refers to
           "sent",     \* waits for an answer
           "answered", "refused", "disconnected", "timedout"}

Delays == {"immediate", "delayed"}

In(stage) == {r \in Requests : req[r] = stage}

To(stage, rs) == [r \in Requests |-> IF r \in rs THEN stage ELSE req[r]]

TypeOK == /\ options \in Options
          /\ ws \in Sockets \cup {"none"}
          /\ orphans \in [Sockets -> Nat]
          /\ status \in {"disconnected", "reconnecting", "connected"}
          /\ attempt \in Nat
          /\ initialized \in BOOLEAN
          /\ recovering \in BOOLEAN
          /\ timers \in [Delays -> Nat]
          /\ selecting \in Nat
          /\ ticking \in BOOLEAN
          /\ handlers \in SUBSET Requests
          /\ wire \in SUBSET Requests
          /\ req \in [Requests -> Stages]
          /\ failed \in BOOLEAN /\ ended \in BOOLEAN /\ abandoned \in BOOLEAN
          /\ overlaps \in Nat /\ orphaned \in BOOLEAN
          /\ connects \in Nat /\ losses \in Nat

Init == /\ options \in Options
        /\ ws = "none"
        /\ orphans = [s \in Sockets |-> 0]
        /\ status = "disconnected"
        /\ attempt = 0
        /\ initialized = FALSE
        /\ recovering = FALSE
        /\ timers = [d \in Delays |-> 0]
        /\ selecting = 0
        /\ ticking = FALSE
        /\ handlers = {}
        /\ wire = {}
        /\ req = [r \in Requests |-> "idle"]
        /\ failed = FALSE
        /\ ended = FALSE
        /\ abandoned = FALSE
        /\ overlaps = 0
        /\ orphaned = FALSE
        /\ connects = 0
        /\ losses = 0

----------------------------------------------------------------------------
(***************************************************************************)
(* Connecting.                                                             *)
(***************************************************************************)
\* Retries that wait, attempts, and sockets the provider listens to.
UnderWay == timers["immediate"] + timers["delayed"] + selecting
              + (IF ws = "none" THEN 0 ELSE 1)
              + orphans["connecting"] + orphans["open"] + orphans["closing"]

\* The first attempt of a provider that never connected is not a retry.
CanRetry == /\ options.retries
            /\ attempt < MaxRetry + (IF initialized THEN 0 ELSE 1)

\* With a socket at hand the assertion fails and nothing comes of the call.
Connect == /\ connects < MaxConnects
           /\ ws = "none"
           /\ connects' = connects + 1
           /\ overlaps' = IF UnderWay > 0 THEN overlaps + 1 ELSE overlaps
           /\ abandoned' = FALSE
           /\ attempt' = attempt + 1
           /\ selecting' = selecting + 1
           /\ UNCHANGED <<options, ws, orphans, status, initialized, recovering,
                          timers, ticking, requests, failed, ended, orphaned, losses>>

\* A retry is due.  An immediate one is not counted; with a socket at hand
\* the assertion fails and only the status has changed.
Fire(d) == /\ timers[d] > 0
           /\ timers' = [timers EXCEPT ![d] = @ - 1]
           /\ status' = "reconnecting"
           /\ IF ws = "none"
              THEN /\ selecting' = selecting + 1
                   /\ attempt' = IF d = "delayed" THEN attempt + 1 ELSE attempt
              ELSE UNCHANGED <<selecting, attempt>>
           /\ UNCHANGED <<options, ws, orphans, initialized, recovering, ticking,
                          requests, history, bounds>>

\* The selector answers: the socket starts to connect, whether or not there
\* is one by now.
Selected == /\ selecting > 0
            /\ selecting' = selecting - 1
            /\ ws' = "connecting"
            /\ IF ws = "none"
               THEN UNCHANGED <<orphans, orphaned>>
               ELSE /\ orphans' = [orphans EXCEPT ![ws] = @ + 1]
                    /\ orphaned' = TRUE
            /\ ticking' = options.timeouts
            /\ UNCHANGED <<options, status, attempt, initialized, recovering, timers,
                           requests, failed, ended, abandoned, overlaps, bounds>>

\* The selector throws, or answers with something that is not an endpoint.
NotSelected == /\ selecting > 0
               /\ failed' = TRUE
               /\ selecting' = selecting - 1
               /\ timers' = IF CanRetry THEN [timers EXCEPT !["delayed"] = @ + 1]
                                        ELSE timers
               /\ UNCHANGED <<options, ws, orphans, status, attempt, initialized,
                              recovering, ticking, requests, ended, abandoned,
                              overlaps, orphaned, bounds>>

Resent == handlers \cap Retryable

\* What a socket that opens sends goes to #ws, which may be another one: that
\* takes it, drops it when it closes, and refuses it when it is not open yet.
Repeated(socket) ==
    /\ req' = [r \in Requests |->
                 IF r \in In("sent") \cap (handlers \ Retryable) THEN "disconnected"
                 ELSE IF r \in In("parked") \cup (In("sent") \cap handlers)
                 THEN IF socket \in {"open", "closing"} THEN "sent" ELSE "refused"
                 ELSE req[r]]
    /\ handlers' = Resent \cup In("parked")
    /\ wire' = IF socket = "open" THEN Resent \cup In("parked") ELSE {}

\* #onSocketOpen(): the deferred is resolved.  The listener of connect() that
\* sets #initialized is there, unless disconnect() or the failure of another
\* attempt removed it.
Opened == /\ status' = "connected"
          /\ attempt' = 0
          /\ initialized' \in IF overlaps = 0 THEN {TRUE} ELSE {initialized, TRUE}
          /\ recovering' = FALSE
          /\ ticking' = options.timeouts
          /\ UNCHANGED <<options, timers, selecting, history, bounds>>

OpenWithoutResend == \* mutant: the requests in flight are forgotten
    /\ ws = "connecting"
    /\ ws' = "open"
    /\ Opened
    /\ req' = To("sent", In("parked"))
    /\ handlers' = handlers \cup In("parked")
    /\ wire' = In("parked")
    /\ UNCHANGED orphans

OpenSilently == \* mutant: the deferred is dropped, not resolved
    /\ ws = "connecting"
    /\ ws' = "open"
    /\ Opened
    /\ req' = [r \in Requests |->
                 IF r \in In("parked") THEN "stranded"
                 ELSE IF r \in In("sent") \cap (handlers \ Retryable)
                 THEN "disconnected" ELSE req[r]]
    /\ handlers' = Resent
    /\ wire' = Resent
    /\ UNCHANGED orphans

\* The connection is up: what waited for it is sent, what was in flight is
\* sent again or, when its method does not survive a connection, rejected.
Open == /\ ws = "connecting"
        /\ ws' = "open"
        /\ Opened
        /\ Repeated("open")
        /\ UNCHANGED orphans

\* The same of a socket that was replaced.
OpenOrphan == /\ orphans["connecting"] > 0
              /\ orphans' = [orphans EXCEPT !["connecting"] = @ - 1, !["open"] = @ + 1]
              /\ Opened
              /\ Repeated(ws)
              /\ UNCHANGED ws

----------------------------------------------------------------------------
(***************************************************************************)
(* Losing the connection.                                                  *)
(***************************************************************************)
\* What the nodes behind other sockets received may still be answered.
WireWithout(others) == IF \A s \in Sockets : others[s] = 0 THEN {{}} ELSE SUBSET wire

\* The close event of the socket, or of one it replaced: either way #clearWs()
\* lets go of #ws.
Lost(socket) ==
    /\ losses < MaxLosses
    /\ losses' = losses + 1
    /\ \/ ws = socket /\ UNCHANGED orphans
       \/ orphans[socket] > 0 /\ orphans' = [orphans EXCEPT ![socket] = @ - 1]
    /\ failed' = (failed \/ socket = "connecting")
    /\ ws' = "none"
    /\ wire' \in WireWithout(orphans')
    /\ status' = "disconnected"
    /\ ticking' = FALSE
    /\ UNCHANGED <<options, attempt, initialized, selecting, handlers, overlaps,
                   orphaned, connects>>

\* The node closes the connection normally: nothing is retried.
CloseNormally == /\ \E socket \in {"open", "closing"} : Lost(socket)
                 /\ ended' = TRUE
                 /\ UNCHANGED <<recovering, timers, req, abandoned>>

\* Only a connection that was made closes without a code.
Closing(delay) ==
    \E socket \in Sockets : /\ socket = "connecting" => delay = "delayed"
                            /\ Lost(socket)

LoseTwice(d) == \* mutant: the error event of the socket retries as well
    /\ Closing(d)
    /\ CanRetry
    /\ req' = To("stranded", In("parked"))
    /\ recovering' = TRUE
    /\ timers' = [timers EXCEPT ![d] = @ + 2]
    /\ UNCHANGED <<ended, abandoned>>

\* Any other code: #recovering is replaced and a retry is scheduled.
Lose(d) == /\ Closing(d)
           /\ CanRetry
           /\ req' = To("stranded", In("parked"))
           /\ recovering' = TRUE
           /\ timers' = [timers EXCEPT ![d] = @ + 1]
           /\ UNCHANGED <<ended, abandoned>>

\* The same when no attempt is left: the new #recovering is resolved at once.
GiveUp == /\ \E d \in Delays : Closing(d) /\ (d = "immediate" \/ options.retries)
          /\ ~CanRetry
          /\ req' = To("stranded", In("parked"))
          /\ recovering' = FALSE
          /\ ended' = TRUE
          /\ UNCHANGED <<timers, abandoned>>

\* The same when retries are disabled: #retry() returns at once and leaves the
\* new #recovering to the next call of connect().
Abandon == /\ Closing("delayed")
           /\ ~options.retries
           /\ req' = To("stranded", In("parked"))
           /\ recovering' = TRUE
           /\ abandoned' = TRUE
           /\ UNCHANGED <<timers, ended>>

\* disconnect(true): a close event will follow.  An attempt that is aborted
\* this way is a failed one.
SwitchEndpoint == /\ ws \in {"connecting", "open"}
                  /\ losses < MaxLosses
                  /\ failed' = (failed \/ ws = "connecting")
                  /\ ws' = "closing"
                  /\ wire' \in WireWithout(orphans)
                  /\ UNCHANGED <<options, orphans, status, attempt, initialized,
                                 recovering, timers, selecting, ticking, handlers,
                                 req, ended, abandoned, overlaps, orphaned, bounds>>

\* disconnect(): the handlers are dropped; then the requests that waited are
\* sent without a socket, which refuses them and leaves their handlers.
Disconnect == /\ ws # "none"
              /\ ended' = TRUE
              /\ ws' = "none"
              /\ wire' = {}
              /\ status' = "disconnected"
              /\ recovering' = FALSE
              /\ ticking' = FALSE
              /\ req' = To("refused", In("parked"))
              /\ handlers' = In("parked")
              /\ UNCHANGED <<options, orphans, attempt, initialized, timers, selecting,
                             failed, abandoned, overlaps, orphaned, bounds>>

----------------------------------------------------------------------------
(***************************************************************************)
(* Requests.                                                               *)
(***************************************************************************)
Park(r) == /\ req[r] = "idle"
           /\ recovering
           /\ req' = To("parked", {r})
           /\ UNCHANGED <<options, link, handlers, wire, history, bounds>>

\* A socket that has not opened throws when it is used.
Usable == ws \in {"open", "closing"} /\ status = "connected"

\* A socket that is closing accepts the request and drops it.
Send(r) == /\ req[r] = "idle"
           /\ ~recovering
           /\ Usable
           /\ req' = To("sent", {r})
           /\ handlers' = handlers \cup {r}
           /\ wire' = IF ws = "open" THEN wire \cup {r} ELSE wire
           /\ UNCHANGED <<options, link, history, bounds>>

\* The entry of a refused request stays in _handlers.
Refuse(r) == /\ req[r] = "idle"
             /\ ~recovering
             /\ ~Usable
             /\ req' = To("refused", {r})
             /\ handlers' = handlers \cup {r}
             /\ UNCHANGED <<options, link, wire, history, bounds>>

SettleSilently(r, stage) == \* mutant: an entry is deleted, its promise forgotten
    /\ handlers' = handlers \ {r}
    /\ req' = req

Settle(r, stage) == /\ handlers' = handlers \ {r}
                    /\ req' = IF req[r] = "sent" THEN To(stage, {r}) ELSE req

Answer(r) == /\ r \in wire
             /\ Settle(r, "answered")
             /\ wire' = wire \ {r}
             /\ UNCHANGED <<options, link, history, bounds>>

\* The interval looks for late requests.
Expire(r) == /\ r \in handlers
             /\ ticking
             /\ Settle(r, "timedout")
             /\ wire' = wire \ {r}
             /\ UNCHANGED <<options, link, history, bounds>>

Next == \/ Connect
        \/ \E d \in Delays : Fire(d) \/ Lose(d)
        \/ Selected \/ NotSelected
        \/ Open \/ OpenOrphan
        \/ CloseNormally \/ GiveUp \/ Abandon
        \/ SwitchEndpoint \/ Disconnect
        \/ \E r \in Requests : \/ Park(r) \/ Send(r) \/ Refuse(r)
                               \/ Answer(r) \/ Expire(r)

Spec == Init /\ [][Next]_vars

CloseEvent == (\E d \in Delays : Lose(d)) \/ GiveUp \/ Abandon \/ CloseNormally

\* Timers fire, the selector answers, a socket opens or closes, and a request
\* the node received, or whose interval ticks, is answered or times out.
Fairness ==
    /\ \A d \in Delays : WF_vars(Fire(d))
    /\ WF_vars(Selected \/ NotSelected)
    /\ WF_vars(Open)
    /\ WF_vars(ws = "closing" /\ CloseEvent)
    /\ \A r \in Requests : WF_vars(Answer(r) \/ Expire(r))

FairSpec == Spec /\ Fairness
----------------------------------------------------------------------------
(***************************************************************************)
(* Properties.                                                             *)
(***************************************************************************)

\* There is at most one connection, being retried, selected, opened or used,
\* whatever the order of closings, retries and switches: only a connect() that
\* does not wait for what is under way adds another, and only one.
OneConnection == UnderWay <= 1 + overlaps

\* On an open connection every request whose caller waits for an answer was
\* sent to a node that may still give it: none waits for a node that never
\* heard of it.
Transmitted == ws = "open" => In("sent") \cap handlers \subseteq wire

\* As long as attempts to connect succeed and no socket is replaced, a deferred
\* #recovering exists only while a connection is on its way that will resolve
\* it, or retries are disabled and connect() was not called again; and the
\* requests that wait, wait for this one.
QueuedWillProceed ==
    ~failed /\ ~orphaned =>
        /\ In("stranded") = {}
        /\ In("parked") # {} => recovering
        /\ recovering => ws # "open" /\ (UnderWay > 0 \/ abandoned)

\* Requests that arrive during a reconnection wait for the deferred that the
\* next connection resolves ("queueing during reconnection", WsProvider.ts:137),
\* also when an attempt fails.
NoneStranded == In("stranded") = {}

\* The same comment, when retries are disabled: a queue exists only while
\* something is under way that may resolve it.
QueueMoves == In("parked") # {} => UnderWay > 0

\* "Websocket connection already exists" (WsProvider.ts:225) keeps a second one
\* from being made.
OneSocket == ~orphaned

\* Every request is answered, rejected or times out, as long as attempts
\* succeed, no socket is replaced and nobody ends the connection: an
\* application does, the node does, or a provider that must not retry does.
EveryRequestAnswered ==
    \A r \in Requests :
        req[r] \in {"parked", "sent"}
          ~> \/ req[r] \in {"answered", "refused", "disconnected", "timedout"}
             \/ failed \/ orphaned \/ ended \/ abandoned
=============================================================================
