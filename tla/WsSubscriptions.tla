-------------------------- MODULE WsSubscriptions --------------------------
(***************************************************************************)
(* Subscriptions across reconnections: packages/providers/src/base/        *)
(* SubscriptionProvider.ts and the #onSocketOpen of ws/WsProvider.ts.      *)
(*                                                                         *)
(* A subscription is known to the provider by the key the node gave it.    *)
(* When a new connection opens every one is subscribed again, and its      *)
(* record, its callback and the object the application unsubscribes with   *)
(* move to the new key.  The node may notify before it answers.            *)
(*                                                                         *)
(* A request is numbered, and the node uses its number as the key of the   *)
(* subscription it starts.  0 is no key.                                   *)
(***************************************************************************)
EXTENDS Naturals, SequencesExt

CONSTANTS Subs,      \* the calls of subscribe(), each made at most once
          Durable,   \* those whose method is subscribed again
          MaxLosses, \* bound on the losses of the connection
          MaxNotes,  \* bound on the notifications
          MaxKeys    \* bound on the requests numbered

ASSUME DurableAssumption == Durable \in SUBSET Subs
ASSUME BoundsAssumption ==
    MaxLosses \in Nat /\ MaxNotes \in Nat /\ MaxKeys \in Nat

VARIABLES up,         \* is the connection open?
          phase,      \* what the application knows of its subscription
          current,    \* the key its subscription object unsubscribes
          subs,       \* _subscriptions
          handlers,   \* the entries of _handlers that subscribe
          node,       \* the subscriptions of this connection in the node
          unanswered, \* the requests the node did not answer yet
          emitted,    \* number of notifications the node sent for a key
          delivered,  \* those the callback received, in order
          pending,    \* _pendingNotifications
          nextKey,
          rejected,   \* history: did the node reject a renewal?
          cut,        \* history: was the connection lost during a renewal?
          losses

client == <<phase, current, subs, handlers, nextKey>>
notes  == <<emitted, delivered, pending>>
bounds == <<rejected, cut, losses>>
vars   == <<up, client, node, unanswered, notes, bounds>>

Keys == 1..MaxKeys

\* A record refers to a subscription object: the one the application holds,
\* or one that only the provider has.
Objects == {"application", "internal"}

Records == [key : Keys, of : Subs, object : Objects]

\* A handler's continuation replaces the record under the key old.
Handlers == [key : Keys, of : Subs, old : 0..MaxKeys, object : Objects]

TypeOK == /\ up \in BOOLEAN
          /\ phase \in [Subs -> {"idle", "asking", "active", "closed", "failed"}]
          /\ current \in [Subs -> 0..MaxKeys]
          /\ subs \in SUBSET Records
          /\ handlers \in SUBSET Handlers
          /\ node \in SUBSET [key : Keys, of : Subs]
          /\ unanswered \in SUBSET Keys
          /\ emitted \in [Keys -> 0..MaxNotes]
          /\ \A k \in Keys : /\ ToSet(delivered[k]) \subseteq 1..MaxNotes
                             /\ ToSet(pending[k]) \subseteq 1..MaxNotes
          /\ nextKey \in 1..(MaxKeys + 1)
          /\ rejected \in BOOLEAN /\ cut \in BOOLEAN
          /\ losses \in 0..MaxLosses

Init == /\ up = TRUE
        /\ phase = [s \in Subs |-> "idle"]
        /\ current = [s \in Subs |-> 0]
        /\ subs = {}
        /\ handlers = {}
        /\ node = {}
        /\ unanswered = {}
        /\ emitted = [k \in Keys |-> 0]
        /\ delivered = [k \in Keys |-> <<>>]
        /\ pending = [k \in Keys |-> <<>>]
        /\ nextKey = 1
        /\ rejected = FALSE
        /\ cut = FALSE
        /\ losses = 0

----------------------------------------------------------------------------
Subscribe(s) ==
    /\ up
    /\ phase[s] = "idle"
    /\ nextKey <= MaxKeys
    /\ phase' = [phase EXCEPT ![s] = "asking"]
    /\ handlers' = handlers \cup
         {[key |-> nextKey, of |-> s, old |-> 0, object |-> "application"]}
    /\ node' = node \cup {[key |-> nextKey, of |-> s]}
    /\ unanswered' = unanswered \cup {nextKey}
    /\ nextKey' = nextKey + 1
    /\ UNCHANGED <<up, current, subs, notes, bounds>>

\* What the continuation of the answer to h makes of the records.
Replaced(h) ==
    {r \in subs : r.key # h.old}
      \cup {[key |-> h.key, of |-> h.of,
             object |-> IF h.old = 0 THEN "application" ELSE "internal"]}

Forwarded(k) == delivered[k] \o pending[k]

DeliverEarly(k) == /\ delivered' = [delivered EXCEPT ![k] = Forwarded(k)]
                   /\ pending' = [pending EXCEPT ![k] = <<>>]
                   /\ UNCHANGED emitted

\* The answer to a request whose handler is still there: early notifications
\* are delivered, then the old record is replaced and, when it was the
\* application's, its object is given the new key.
Respond(h) ==
    /\ h \in handlers
    /\ h.key \in unanswered
    /\ unanswered' = unanswered \ {h.key}
    /\ handlers' = handlers \ {h}
    /\ subs' = Replaced(h)
    /\ current' = IF h.object = "application"
                  THEN [current EXCEPT ![h.of] = h.key] ELSE current
    /\ phase' = IF h.old = 0 THEN [phase EXCEPT ![h.of] = "active"] ELSE phase
    /\ DeliverEarly(h.key)
    /\ UNCHANGED <<up, node, nextKey, bounds>>

\* An answer to a request that was sent again has no handler.
RespondToNobody(k) ==
    /\ k \in unanswered
    /\ \A h \in handlers : h.key # k
    /\ unanswered' = unanswered \ {k}
    /\ UNCHANGED <<up, client, node, notes, bounds>>

\* The node answers with an error: nothing is recorded, nothing is replaced.
Reject(h) ==
    /\ h \in handlers
    /\ h.key \in unanswered
    /\ unanswered' = unanswered \ {h.key}
    /\ handlers' = handlers \ {h}
    /\ node' = {n \in node : n.key # h.key}
    /\ phase' = IF h.old = 0 THEN [phase EXCEPT ![h.of] = "failed"] ELSE phase
    /\ rejected' = (rejected \/ h.old # 0)
    /\ UNCHANGED <<up, current, subs, notes, nextKey, cut, losses>>

MayNotify == FoldFunction(+, 0, emitted) < MaxNotes

NotifyRecordless(n) == \* mutant: a notification without a record is ignored
    LET k    == n.key
        note == emitted[k] + 1
    IN  /\ MayNotify
        /\ emitted' = [emitted EXCEPT ![k] = note]
        /\ delivered' = IF \E r \in subs : r.key = k
                        THEN [delivered EXCEPT ![k] = Append(@, note)]
                        ELSE delivered
        /\ UNCHANGED <<up, client, node, unanswered, pending, bounds>>

\* A notification is handed to the callback of its record or, without one,
\* kept for the record to come.
Notify(n) ==
    LET k    == n.key
        note == emitted[k] + 1
    IN  /\ MayNotify
        /\ emitted' = [emitted EXCEPT ![k] = note]
        /\ IF \E r \in subs : r.key = k
           THEN /\ delivered' = [delivered EXCEPT ![k] = Append(@, note)]
                /\ UNCHANGED pending
           ELSE /\ pending' = [pending EXCEPT ![k] = Append(@, note)]
                /\ UNCHANGED delivered
        /\ UNCHANGED <<up, client, node, unanswered, bounds>>

\* The application unsubscribes: the record under its object's key is deleted
\* at once, the node is told when there is a connection.
Unsubscribe(s) ==
    /\ phase[s] = "active"
    /\ phase' = [phase EXCEPT ![s] = "closed"]
    /\ subs' = {r \in subs : r.key # current[s]}
    /\ node' = {n \in node : n.key # current[s]}
    /\ UNCHANGED <<up, current, handlers, unanswered, notes, nextKey, bounds>>

\* The connection is lost, with all the node knew of it.
Lose ==
    /\ up
    /\ losses < MaxLosses
    /\ losses' = losses + 1
    /\ cut' = (cut \/ \E h \in handlers : h.old # 0)
    /\ up' = FALSE
    /\ node' = {}
    /\ unanswered' = {}
    /\ pending' = [k \in Keys |-> <<>>]
    /\ UNCHANGED <<client, emitted, delivered, rejected>>

\* What a new connection subscribes again: first every durable record, then
\* every durable request without an answer, those just made included.
KeptRecordsNone == {} \* mutant: a new connection starts without records

KeptRecords == {r \in subs : r.of \in Durable}

Renewals == LET kept == SetToSeq(KeptRecords)
            IN  {[key |-> nextKey + i - 1, of |-> kept[i].of,
                  old |-> kept[i].key, object |-> kept[i].object]
                    : i \in 1..Len(kept)}

Waiting == {h \in handlers : h.of \in Durable} \cup Renewals

Repeats == LET waiting == SetToSeq(Waiting)
           IN  {[waiting[i] EXCEPT !.key = nextKey + Cardinality(Renewals) + i - 1]
                   : i \in 1..Len(waiting)}

OpenKeepingHandlers == \* mutant: the old entries of _handlers are not deleted
    /\ ~up
    /\ up' = TRUE
    /\ nextKey' = nextKey + Cardinality(Renewals) + Cardinality(Waiting)
    /\ nextKey' <= MaxKeys + 1
    /\ subs' = KeptRecords
    /\ handlers' = Waiting \cup Repeats
    /\ LET sent == Renewals \cup Repeats
       IN  /\ node' = {[key |-> h.key, of |-> h.of] : h \in sent}
           /\ unanswered' = {h.key : h \in sent}
    /\ UNCHANGED <<phase, current, notes, bounds>>

Open ==
    /\ ~up
    /\ up' = TRUE
    /\ nextKey' = nextKey + Cardinality(Renewals) + Cardinality(Waiting)
    /\ nextKey' <= MaxKeys + 1
    /\ subs' = KeptRecords
    /\ handlers' = Repeats
    /\ LET sent == Renewals \cup Repeats
       IN  /\ node' = {[key |-> h.key, of |-> h.of] : h \in sent}
           /\ unanswered' = {h.key : h \in sent}
    /\ phase' = [s \in Subs |->
                   IF phase[s] = "asking" /\ s \notin Durable THEN "failed"
                                                              ELSE phase[s]]
    /\ UNCHANGED <<current, notes, bounds>>

Next == \/ Lose \/ Open
        \/ \E s \in Subs : Subscribe(s) \/ Unsubscribe(s)
        \/ \E h \in handlers : Respond(h) \/ Reject(h)
        \/ \E k \in unanswered : RespondToNobody(k)
        \/ \E n \in node : Notify(n)

Spec == Init /\ [][Next]_vars

\* A lost connection is opened again and the node answers every request.
FairSpec == Spec /\ WF_vars(Open)
                 /\ WF_vars(\E h \in handlers : Respond(h) \/ Reject(h))

----------------------------------------------------------------------------
(***************************************************************************)
(* Properties.                                                             *)
(***************************************************************************)
Asked(s) == \E h \in handlers : h.of = s

LiveRecords(s) == {r \in subs : r.of = s /\ \E n \in node : n.key = r.key}

\* A durable subscription survives every loss: once the node has answered all
\* of its requests, a record of it is known to the node of this connection.
Survives ==
    ~rejected =>
        \A s \in Durable :
            up /\ phase[s] = "active" /\ ~Asked(s) => LiveRecords(s) # {}

\* No notification is lost, repeated or overtaken, the early ones included:
\* the callback has received all those of a recorded key, in order.
InOrder ==
    \A n \in node : LET k == n.key
                    IN  /\ Forwarded(k) = [i \in 1..emitted[k] |-> i]
                        /\ (\E r \in subs : r.key = k) => pending[k] = <<>>

\* Nothing is delivered for a key of an earlier connection, so a subscription
\* that is not renewed ends with its connection.
OthersEnd == \A s \in Subs \ Durable : up => \A r \in subs :
                r.of = s => \E n \in node : n.key = r.key

\* A notification reaches the callback of a subscription once, as long as no
\* connection is lost while a renewal is in flight.
CallbackOnce == ~cut => \A s \in Subs : Cardinality(LiveRecords(s)) <= 1

\* The records are those of the node's subscriptions: none is missing, left
\* over or there twice.
RecordsAgree ==
    /\ Survives
    /\ OthersEnd
    /\ CallbackOnce

\* unsubscribe() ends a subscription, after reconnections as well ("so that
\* the old/prev-unsubscribe method will work correctly", WsProvider.ts:315).
UnsubscribeEnds ==
    \A s \in Subs : phase[s] = "closed" /\ ~Asked(s) => LiveRecords(s) = {}

\* Every subscription comes to life again after a loss, unless the node
\* rejects it.
Renewed == \A s \in Durable :
    phase[s] = "active"
      ~> (up /\ LiveRecords(s) # {}) \/ phase[s] = "closed" \/ rejected
=============================================================================
