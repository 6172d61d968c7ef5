-------------------------- MODULE ChainHeadFollow --------------------------
(***************************************************************************)
(* How ChainHead (packages/api/src/json-rpc/group/ChainHead/ChainHead.ts)  *)
(* stays followed: the node may stop a subscription at any moment, the     *)
(* connection may be lost, and the operations under way are to go on.      *)
(*                                                                         *)
(* doFollow() number i makes subscription i.  Events are handled one at a  *)
(* time, in order (AsyncQueue); only 'initialized' waits for the node in   *)
(* the middle of its handler, for a header.  Continuations of a settled    *)
(* promise run before the next message, except the .then() of a 'stop':    *)
(* the handler of an event already in the queue starts before it.          *)
(*                                                                         *)
(* A request that is repeated while its first copy is still in flight      *)
(* (#retryPendingRequests looks at all of #pendingRequests) is not         *)
(* repeated here: nobody reads the second answer.  Events that are not     *)
(* 'initialized' or 'stop' come when no other waits.  No request times     *)
(* out.                                                                    *)
(***************************************************************************)
EXTENDS Naturals, SequencesExt

CONSTANTS Calls,    \* the operations asked for, each once
          MaxStops, \* bound on the subscriptions the node stops
          MaxLosses \* bound on the losses of the connection

ASSUME BoundsAssumption == MaxStops \in Nat /\ MaxLosses \in Nat

VARIABLES smoldot,        \* __unsafe__isSmoldot(): a light client in the process
          connected,      \* is the connection open?
          node,           \* the subscription that is alive in the node, or 0
          follow,         \* where each doFollow() is
          owner,          \* who called it: the client or the handler of a stop
          signals,        \* its count of handled events
          resuming,       \* the doFollow() whose .then() is due, or 0
          subscriptionId, \* #subscriptionId, 0 when undefined
          events,         \* #followResponseQueue, then what the node has sent
          handling,       \* the subscription whose 'initialized' waits, or 0
          header,         \* the request it waits for
          recovering,     \* #recovering: the doFollow() it stands for, or 0
          outcome,        \* what became of each such deferred
          cleanups,       \* timers that will clear #recovering
          call,           \* the operations
          retries,        \* #retryQueue, the work under way included
          torn,           \* history: did a loss cut an initialization, a
                          \* re-follow after a stop that the node had accepted,
                          \* or an operation that had an operationId?
          overtaken,      \* history: was a stop handled during a recovery?
          stops, losses

link     == <<smoldot, connected, node>>
refollow == <<follow, owner, signals, resuming, subscriptionId>>
queue    == <<events, handling, header>>
rescue   == <<recovering, outcome, cleanups>>
ops      == <<call, retries>>
history  == <<torn, overtaken, stops, losses>>
vars     == <<link, refollow, queue, rescue, ops, history>>

Follows == 1..(1 + MaxStops + MaxLosses)

\* SIGNAL_THRESHOLD
Threshold == IF smoldot THEN 2 ELSE 1

\* A request waits for a deferred of #recovering, is on its way to the node,
\* is held by the provider until it has a connection, was rejected by a new
\* connection and is parked in #pendingRequests, or was answered with an
\* operationId ("started").
Places == {"idle", "waiting", "sent", "held", "parked", "started", "queued",
           "done", "failed"}

Attempts == [at : Places, on : 0..Cardinality(Follows)]

TypeOK ==
    /\ smoldot \in BOOLEAN /\ connected \in BOOLEAN
    /\ node \in 0..Cardinality(Follows)
    /\ follow \in [Follows -> {"none", "asked", "parked", "resent",
                               "subscribed", "done", "failed"}]
    /\ owner \in [Follows -> {"client", "stop"}]
    /\ \A i \in Follows : signals[i] \in 0..Threshold
    /\ resuming \in 0..Cardinality(Follows)
    /\ subscriptionId \in 0..Cardinality(Follows)
    /\ \A i \in 1..Len(events) :
          events[i] \in [of : Follows, event : {"initialized", "stop"}]
    /\ handling \in 0..Cardinality(Follows)
    /\ header \in {"none", "sent", "parked"}
    /\ (handling # 0) <=> (header # "none")
    /\ recovering \in 0..Cardinality(Follows)
    /\ outcome \in [Follows -> {"none", "pending", "resolved", "rejected"}]
    /\ cleanups \in 0..MaxStops
    /\ call \in [Calls -> Attempts]
    /\ ToSet(retries) \subseteq Calls /\ Len(retries) <= Cardinality(Calls)
    /\ torn \in BOOLEAN /\ overtaken \in BOOLEAN
    /\ stops \in 0..MaxStops /\ losses \in 0..MaxLosses

\* The provider is connected and the client has called follow().
Init == /\ smoldot \in BOOLEAN
        /\ connected = TRUE
        /\ node = 0
        /\ follow = [i \in Follows |-> IF i = 1 THEN "asked" ELSE "none"]
        /\ owner = [i \in Follows |-> "client"]
        /\ signals = [i \in Follows |-> 0]
        /\ resuming = 0
        /\ subscriptionId = 0
        /\ events = <<>>
        /\ handling = 0
        /\ header = "none"
        /\ recovering = 0
        /\ outcome = [i \in Follows |-> "none"]
        /\ cleanups = 0
        /\ call = [c \in Calls |-> [at |-> "idle", on |-> 0]]
        /\ retries = <<>>
        /\ torn = FALSE
        /\ overtaken = FALSE
        /\ stops = 0
        /\ losses = 0

CallsAt(places) == {c \in Calls : call[c].at \in places}

NewFollow == CHOOSE i \in Follows : follow[i] = "none"
                                 /\ \A j \in 1..(i - 1) : follow[j] # "none"

----------------------------------------------------------------------------
(***************************************************************************)
(* Operations, and the queue of those that are tried again.                *)
(***************************************************************************)
At(place, on) == [at |-> place, on |-> on]

Request == At(IF connected THEN "sent" ELSE "held", subscriptionId)

\* An operation is performed: ensureFollowed() first waits for #recovering.
Attempt(outcomes) ==
    IF recovering = 0 THEN Request
    ELSE CASE outcomes[recovering] = "pending"  -> At("waiting", recovering)
           [] outcomes[recovering] = "rejected" -> At("failed", 0)
           [] OTHER -> Request

ContinueIdle(calls, line, outcomes) == \* mutant: the next work is not started
    /\ call' = calls
    /\ retries' = line

\* The works of line are performed one after the other.  A work that cannot
\* even be performed fails, and so do those behind it.
Continue(calls, line, outcomes) ==
    LET next == Attempt(outcomes)
    IN  IF line = <<>> \/ calls[Head(line)].at # "queued"
        THEN /\ call' = calls
             /\ retries' = line
        ELSE IF next.at = "failed"
        THEN /\ call' = [c \in Calls |-> IF Contains(line, c) THEN next ELSE calls[c]]
             /\ retries' = <<>>
        ELSE /\ call' = [calls EXCEPT ![Head(line)] = next]
             /\ retries' = line

\* The operations of cs are put at the end of the queue.
Behind(cs) == SelectSeq(retries, LAMBDA c : c \notin cs) \o SetToSeq(cs)

Without(cs) == SelectSeq(retries, LAMBDA c : c \notin cs)

\* The application asks for an operation, once the chain is followed.
Call(c) == /\ resuming = 0
           /\ call[c].at = "idle"
           /\ subscriptionId # 0
           /\ call' = [call EXCEPT ![c] = Attempt(outcome)]
           /\ UNCHANGED <<link, refollow, queue, rescue, retries, history>>

\* A message arrives after the events that were sent before it.
Arrives == connected /\ resuming = 0 /\ (events = <<>> \/ handling # 0)

\* The node answers: an operationId, or limitReached when the subscription
\* is not one it knows, for which the operation is queued.
Answer(c) ==
    /\ call[c].at = "sent"
    /\ Arrives
    /\ IF call[c].on = node
       THEN /\ call' = [call EXCEPT ![c].at = "started"]
            /\ UNCHANGED retries
       ELSE Continue([call EXCEPT ![c] = At("queued", 0)], Behind({c}), outcome)
    /\ UNCHANGED <<link, refollow, queue, rescue, history>>

\* The event that ends an operation is sent and handled.
Finish(c) ==
    /\ call[c].at = "started"
    /\ call[c].on = node
    /\ connected /\ resuming = 0 /\ handling = 0 /\ events = <<>>
    /\ Continue([call EXCEPT ![c] = At("done", 0)], Without({c}), outcome)
    /\ UNCHANGED <<link, refollow, queue, rescue, history>>

----------------------------------------------------------------------------
(***************************************************************************)
(* doFollow().                                                             *)
(***************************************************************************)
\* The node starts a subscription.
Accept(i) == /\ follow[i] = "asked"
             /\ Arrives
             /\ follow' = [follow EXCEPT ![i] = "subscribed"]
             /\ node' = i
             /\ events' = Append(events, [of |-> i, event |-> "initialized"])
             /\ UNCHANGED <<smoldot, connected, owner, signals, resuming,
                            subscriptionId, handling, header, rescue, ops, history>>

\* A parked 'follow' is sent again with a subscription id in the place of its
\* first parameter, which the node refuses.  When a stop waits for it, its
\* .catch() fails everything that is under way.
Refuse(i) ==
    /\ follow[i] = "resent"
    /\ Arrives
    /\ follow' = [follow EXCEPT ![i] = "failed"]
    /\ IF owner[i] = "client"
       THEN UNCHANGED <<rescue, ops>>
       ELSE LET rejected == IF recovering # 0 /\ outcome[recovering] = "pending"
                            THEN [outcome EXCEPT ![recovering] = "rejected"]
                            ELSE outcome
                failing  == {c \in Calls : \/ call[c].at = "started"
                                           \/ /\ call[c].at = "waiting"
                                              /\ rejected[call[c].on] = "rejected"}
            IN  /\ outcome' = rejected
                /\ cleanups' = cleanups + 1
                /\ UNCHANGED recovering
                /\ Continue([c \in Calls |-> IF c \in failing THEN At("failed", 0)
                                                              ELSE call[c]],
                            Without(failing), rejected)
    /\ UNCHANGED <<link, owner, signals, resuming, subscriptionId, queue, history>>

\* An event of subscription i was handled.
SignalsAfter(i) == IF signals[i] >= Threshold THEN signals[i] ELSE signals[i] + 1

Completes(i) == signals[i] < Threshold /\ SignalsAfter(i) = Threshold

\* When this makes doFollow() go on, it sends what is parked again.
Signal(i, asked) ==
    /\ signals' = [signals EXCEPT ![i] = SignalsAfter(i)]
    /\ IF Completes(i)
       THEN /\ follow' = [j \in Follows |->
                            CASE j = i -> "done"
                              [] asked[j] = "parked" -> "resent"
                              [] OTHER -> asked[j]]
            /\ call' = [c \in Calls |-> IF call[c].at = "parked"
                                        THEN At("sent", subscriptionId)
                                        ELSE call[c]]
            /\ resuming' = i
       ELSE /\ follow' = asked
            /\ UNCHANGED <<call, resuming>>

RecoveredLeavingOperations == \* mutant: the operations under way are not rejected
    /\ resuming # 0
    /\ events = <<>> \/ handling # 0
    /\ resuming' = 0
    /\ IF owner[resuming] = "client"
       THEN UNCHANGED <<rescue, ops>>
       ELSE LET resolved == IF recovering # 0 /\ outcome[recovering] = "pending"
                            THEN [outcome EXCEPT ![recovering] = "resolved"]
                            ELSE outcome
            IN  /\ outcome' = resolved
                /\ cleanups' = cleanups + 1
                /\ UNCHANGED <<recovering, retries>>
                /\ call' = [c \in Calls |->
                       IF call[c].at = "waiting" /\ resolved[call[c].on] = "resolved"
                       THEN Request ELSE call[c]]
    /\ UNCHANGED <<link, follow, owner, signals, subscriptionId, queue, history>>

RecoveredUnresolved == \* mutant: the deferred of #recovering is left pending
    /\ resuming # 0
    /\ events = <<>> \/ handling # 0
    /\ resuming' = 0
    /\ IF owner[resuming] = "client"
       THEN UNCHANGED <<rescue, ops>>
       ELSE LET started == CallsAt({"started"})
            IN  /\ cleanups' = cleanups + 1
                /\ UNCHANGED <<recovering, outcome>>
                /\ Continue([c \in Calls |-> IF c \in started THEN At("queued", 0)
                                                              ELSE call[c]],
                            Behind(started), outcome)
    /\ UNCHANGED <<link, follow, owner, signals, subscriptionId, queue, history>>

\* The .then() of a stop: the requests that waited go on, the operations that
\* have an operationId are rejected with ChainHeadStopError and queued.
Recovered ==
    /\ resuming # 0
    /\ events = <<>> \/ handling # 0
    /\ resuming' = 0
    /\ IF owner[resuming] = "client"
       THEN UNCHANGED <<rescue, ops>>
       ELSE LET resolved == IF recovering # 0 /\ outcome[recovering] = "pending"
                            THEN [outcome EXCEPT ![recovering] = "resolved"]
                            ELSE outcome
                started  == CallsAt({"started"})
            IN  /\ outcome' = resolved
                /\ cleanups' = cleanups + 1
                /\ UNCHANGED recovering
                /\ Continue([c \in Calls |->
                                IF c \in started THEN At("queued", 0)
                                ELSE IF call[c].at = "waiting"
                                        /\ resolved[call[c].on] = "resolved"
                                THEN Request ELSE call[c]],
                            Behind(started), resolved)
    /\ UNCHANGED <<link, follow, owner, signals, subscriptionId, queue, history>>

\* The timer of a recovery that is over.
Cleanup == /\ resuming = 0
           /\ cleanups > 0
           /\ cleanups' = cleanups - 1
           /\ recovering' = 0
           /\ UNCHANGED <<link, refollow, queue, outcome, ops, history>>

----------------------------------------------------------------------------
(***************************************************************************)
(* The events.                                                             *)
(***************************************************************************)
NodeStop == /\ resuming = 0
            /\ node # 0
            /\ stops < MaxStops
            /\ stops' = stops + 1
            /\ node' = 0
            /\ events' = Append(events, [of |-> node, event |-> "stop"])
            /\ UNCHANGED <<smoldot, connected, refollow, handling, header,
                           rescue, ops, torn, overtaken, losses>>

\* A further event, of which only the signal matters here.
NodeEvent == /\ resuming = 0 /\ handling = 0 /\ events = <<>>
             /\ connected /\ node # 0
             /\ signals[node] < Threshold
             /\ Signal(node, follow)
             /\ UNCHANGED <<link, owner, subscriptionId, queue, rescue, retries,
                            history>>

NextIs(event) == handling = 0 /\ events # <<>> /\ Head(events).event = event

HandleInitialized == /\ NextIs("initialized")
                     /\ subscriptionId' = Head(events).of
                     /\ handling' = Head(events).of
                     /\ header' = "sent"
                     /\ events' = Tail(events)
                     /\ UNCHANGED <<link, follow, owner, signals, resuming,
                                    rescue, ops, history>>

\* For a subscription that was stopped there is no header, and the handler
\* throws.
HeaderAnswered == /\ header = "sent"
                  /\ Arrives
                  /\ handling' = 0
                  /\ header' = "none"
                  /\ IF handling = node THEN Signal(handling, follow)
                                        ELSE UNCHANGED <<follow, signals, resuming, call>>
                  /\ UNCHANGED <<link, owner, subscriptionId, events, rescue,
                                 retries, history>>

HandleStopOnce == \* mutant: a stop during a recovery is taken for its own
    /\ NextIs("stop")
    /\ LET i == NewFollow
       IN  /\ IF recovering = 0
              THEN /\ recovering' = i
                   /\ outcome' = [outcome EXCEPT ![i] = "pending"]
                   /\ owner' = [owner EXCEPT ![i] = "stop"]
                   /\ Signal(Head(events).of, [follow EXCEPT ![i] = "asked"])
              ELSE /\ UNCHANGED <<recovering, outcome, owner>>
                   /\ Signal(Head(events).of, follow)
    /\ overtaken' = (overtaken \/ recovering # 0)
    /\ events' = Tail(events)
    /\ UNCHANGED <<link, subscriptionId, handling, header, cleanups, retries,
                   torn, stops, losses>>

\* A stop is an event of its subscription like the others, and counts as one.
HandleStop ==
    /\ NextIs("stop")
    /\ LET i == NewFollow
       IN  /\ recovering' = i
           /\ outcome' = [outcome EXCEPT ![i] = "pending"]
           /\ owner' = [owner EXCEPT ![i] = "stop"]
           /\ Signal(Head(events).of, [follow EXCEPT ![i] = "asked"])
    /\ overtaken' = (overtaken \/ recovering # 0)
    /\ events' = Tail(events)
    /\ UNCHANGED <<link, subscriptionId, handling, header, cleanups, retries,
                   torn, stops, losses>>

----------------------------------------------------------------------------
(***************************************************************************)
(* The connection (WsProvider).                                            *)
(***************************************************************************)
\* What the client received stays in its queue, the rest is lost.
Lose == /\ ~smoldot
        /\ connected /\ resuming = 0
        /\ losses < MaxLosses
        /\ losses' = losses + 1
        /\ connected' = FALSE
        /\ node' = 0
        /\ IF handling = 0 THEN events' = <<>>
                           ELSE \E n \in 0..Len(events) : events' = SubSeq(events, 1, n)
        /\ torn' = (torn \/ handling # 0 \/ CallsAt({"started"}) # {}
                         \/ \E i \in Follows : /\ owner[i] = "stop"
                                               /\ follow[i] = "subscribed")
        /\ UNCHANGED <<smoldot, refollow, handling, header, rescue, ops,
                       overtaken, stops>>

\* The chainHead requests in flight are rejected, which parks them, those made
\* meanwhile are sent, and the client follows again.
Reconnect ==
    /\ ~connected /\ resuming = 0
    /\ connected' = TRUE
    /\ follow' = [i \in Follows |->
                    CASE i = NewFollow -> "asked"
                      [] follow[i] \in {"asked", "resent"} -> "parked"
                      [] OTHER -> follow[i]]
    /\ header' = IF header = "sent" THEN "parked" ELSE header
    /\ call' = [c \in Calls |->
                  CASE call[c].at = "sent" -> [call[c] EXCEPT !.at = "parked"]
                    [] call[c].at = "held" -> [call[c] EXCEPT !.at = "sent"]
                    [] OTHER -> call[c]]
    /\ UNCHANGED <<smoldot, node, owner, signals, resuming, subscriptionId,
                   events, handling, rescue, retries, history>>

Next == \/ NodeStop \/ NodeEvent
        \/ HandleInitialized \/ HeaderAnswered \/ HandleStop
        \/ Recovered \/ Cleanup
        \/ Lose \/ Reconnect
        \/ \E i \in Follows : Accept(i) \/ Refuse(i)
        \/ \E c \in Calls : Call(c) \/ Answer(c) \/ Finish(c)

Spec == Init /\ [][Next]_vars

\* The node answers what it receives and goes on sending events, the provider
\* reconnects, and the client runs its continuations and timers.
Fairness == /\ WF_vars(NodeEvent)
            /\ WF_vars(HandleInitialized) /\ WF_vars(HeaderAnswered)
            /\ WF_vars(HandleStop)
            /\ WF_vars(Recovered) /\ WF_vars(Cleanup) /\ WF_vars(Reconnect)
            /\ \A i \in Follows : WF_vars(Accept(i)) /\ WF_vars(Refuse(i))
            /\ \A c \in Calls : WF_vars(Answer(c)) /\ WF_vars(Finish(c))

FairSpec == Spec /\ Fairness
----------------------------------------------------------------------------
(***************************************************************************)
(* Properties.                                                             *)
(***************************************************************************)
\* A doFollow() that will come to an end, if no further connection is lost.
UnderWay(i) ==
    \/ follow[i] \in {"asked", "parked", "resent"}
    \/ /\ follow[i] = "subscribed"
       /\ \/ i \in {node, handling}
          \/ \E k \in 1..Len(events) : events[k].of = i
    \/ resuming = i

\* A request that waits for the recovery waits for the present one, whose
\* doFollow() is under way and will settle it: no order of events, losses and
\* timers leaves it behind, as long as recoveries do not overlap and no loss
\* tears one apart.
WaitersReleased ==
    ~overtaken /\ ~torn => \A c \in CallsAt({"waiting"}) :
        /\ call[c].on = recovering
        /\ outcome[recovering] = "pending"
        /\ UnderWay(recovering)

\* An operation with an operationId is one the node still knows, or a stop
\* whose recovery will queue it again is about to be handled or under way:
\* also when stops follow each other during a recovery.
OperationsRecovered ==
    ~torn => \A c \in CallsAt({"started"}) :
        \/ call[c].on = node
        \/ \E i \in 1..Len(events) : events[i].event = "stop"
        \/ \E i \in Follows : owner[i] = "stop" /\ UnderWay(i)

\* When every event is handled and no doFollow() is under way, the client is
\* followed and its requests go to the subscription that is alive, whatever
\* was stopped or lost before.
FollowedWhenQuiet ==
    /\ connected /\ events = <<>> /\ handling = 0
    /\ \A i \in Follows \ {node} : ~UnderWay(i)
    => node # 0 /\ subscriptionId = node

\* Every operation is answered, or fails, through stops and losses.
EveryCallAnswered ==
    \A c \in Calls : call[c].at \notin {"idle", "done", "failed"}
                       ~> call[c].at \in {"done", "failed"} \/ torn \/ overtaken

\* A request that waits for a recovery waits for one that will be settled, no
\* matter how many stops there are ("any requests/operations coming to the
\* chainHead should be put on waiting for the #recovering promise to resolve",
\* ChainHead.ts:488-489).
NobodyForgotten == \A c \in CallsAt({"waiting"}) : call[c].on = recovering
=============================================================================
