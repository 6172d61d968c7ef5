------------------------ MODULE ChainHeadFollowProofs ------------------------
(***************************************************************************)
(* Proofs about ChainHeadFollow, for any operations, stops and losses: the *)
(* client is followed when nothing is under way, operations under way are  *)
(* queued again after a stop, and those that wait for a recovery wait for  *)
(* one that comes to an end.                                               *)
(***************************************************************************)
EXTENDS ChainHeadFollow, FiniteSetTheorems, SequenceTheorems, TLAPS

Stages == {"none", "asked", "parked", "resent", "subscribed", "done", "failed"}

Sub == Follows \cup {0}

Events == [of : Follows, event : {"initialized", "stop"}]

\* The part of the type invariant that the proofs depend on.
Typed ==
    /\ connected \in BOOLEAN /\ torn \in BOOLEAN /\ overtaken \in BOOLEAN
    /\ node \in Sub /\ handling \in Sub /\ resuming \in Sub
    /\ subscriptionId \in Sub /\ recovering \in Sub
    /\ follow \in [Follows -> Stages]
    /\ owner \in [Follows -> {"client", "stop"}]
    /\ signals \in [Follows -> Nat]
    /\ events \in Seq(Events)
    /\ outcome \in [Follows -> {"none", "pending", "resolved", "rejected"}]
    /\ cleanups \in Nat
    /\ call \in [Calls -> [at : Places, on : Sub]]
    /\ stops \in 0..MaxStops /\ losses \in 0..MaxLosses

\* The handler of 'initialized' waits for a header and for nothing else.
Header == handling # 0 <=> header # "none"

\* The 'stop' events that wait, by their places.
StopsIn(line) == {k \in DOMAIN line : line[k].event = "stop"}

\* Each doFollow() but the first answers a stop or a loss: there is one left for
\* those that are not answered yet.
Counted ==
    \E n \in Nat :
        /\ \A i \in Follows : follow[i] # "none" <=> i <= n
        /\ n + Cardinality(StopsIn(events)) + (IF connected THEN 0 ELSE 1)
             <= 1 + stops + losses

\* The subscriptions the client or the node mentions were accepted; one has
\* completed its doFollow() when the .then() of it runs.
Accepted ==
    /\ \A i \in {node, handling, subscriptionId} \ {0} :
          follow[i] \in {"subscribed", "done"}
    /\ \A k \in DOMAIN events : follow[events[k].of] \in {"subscribed", "done"}
    /\ resuming # 0 => follow[resuming] = "done"
    /\ \A i \in Follows : follow[i] = "done" => signals[i] >= Threshold
    /\ \A i \in Follows : follow[i] = "none" => owner[i] = "client"

\* While it is connected the client is followed, or about to follow again.
Renewing == connected => \/ node # 0
                         \/ StopsIn(events) # {}
                         \/ \E i \in Follows : follow[i] = "asked"

\* The last subscription the node began is the one the client uses, unless
\* 'initialized' is still to be handled.
Latest ==
    node # 0 => \/ /\ subscriptionId = node
                   /\ \A k \in DOMAIN events : events[k].event = "stop"
                \/ \E k \in DOMAIN events :
                      /\ events[k] = [of |-> node, event |-> "initialized"]
                      /\ \A l \in DOMAIN events : l > k => events[l].event = "stop"

\* Without torn recoveries there is one subscription at a time: it is alive, its
\* end is about to be handled, or it is being asked for.
OneFollow ==
    ~torn =>
      /\ \A i, j \in Follows : follow[i] = "asked" /\ follow[j] = "asked" => i = j
      /\ (\E i \in Follows : follow[i] = "asked") => node = 0 /\ StopsIn(events) = {}
      /\ node # 0 => StopsIn(events) = {}
      /\ \A k, l \in StopsIn(events) : k = l
      /\ ~connected => node = 0 /\ handling = 0 /\ events = <<>>

\* The end of a subscription that was initialized follows its beginning.
Ends ==
    ~torn =>
      /\ handling \notin {0, node} =>
            \E k \in DOMAIN events : events[k] = [of |-> handling, event |-> "stop"]
      /\ \A k \in DOMAIN events :
            events[k].event = "initialized" /\ events[k].of # node =>
              \E l \in DOMAIN events :
                 l > k /\ events[l] = [of |-> events[k].of, event |-> "stop"]

\* Operations are asked for once the client was followed.
Asked ==
    \A c \in Calls :
       /\ call[c].at \in {"sent", "held", "started"} => call[c].on # 0
       /\ call[c].at \notin {"idle", "done", "failed"} => subscriptionId # 0

\* No recovery was overtaken by a stop or torn by a loss.
Calm == ~overtaken /\ ~torn

\* Recoveries that do not overlap: the deferred of #recovering is pending as long
\* as its doFollow() is under way, and cleared by a timer afterwards.
Recovering ==
    Calm =>
      /\ \A i \in Follows :
            owner[i] = "stop" /\ UnderWay(i)
              => i = recovering /\ outcome[i] = "pending" /\ cleanups = 0
      /\ recovering # 0 /\ outcome[recovering] = "pending"
              => owner[recovering] = "stop" /\ UnderWay(recovering)
      /\ \A c \in Calls : call[c].at = "waiting" =>
            recovering # 0 /\ call[c].on = recovering /\ outcome[recovering] = "pending"
      /\ cleanups <= 1
      /\ recovering = 0 => cleanups = 0

FollowInv == /\ Typed /\ Header /\ Counted /\ Accepted /\ Renewing /\ Latest /\ OneFollow
             /\ Ends /\ Asked /\ Recovering /\ OperationsRecovered

----------------------------------------------------------------------------
(***************************************************************************)
(* Lemmas about the queue of events and the next doFollow().               *)
(***************************************************************************)
LEMMA EventsTyped ==
    ASSUME NEW line \in Seq(Events)
    PROVE  \A k \in DOMAIN line : /\ line[k] \in Events /\ line[k].of \in Follows
                                  /\ line[k].event \in {"initialized", "stop"}
<1>1. \A k \in DOMAIN line : line[k] \in Events
  OBVIOUS
<1> QED
  BY <1>1 DEF Events

LEMMA StopsCounted ==
    ASSUME NEW line \in Seq(Events)
    PROVE  /\ IsFiniteSet(StopsIn(line))
           /\ Cardinality(StopsIn(line)) \in Nat
           /\ Cardinality(StopsIn(line)) = 0 <=> StopsIn(line) = {}
<1>1. IsFiniteSet(1..Len(line)) /\ StopsIn(line) \in SUBSET (1..Len(line))
  BY FS_Interval DEF StopsIn
<1>2. IsFiniteSet(StopsIn(line))
  BY <1>1, FS_Subset
<1> QED
  BY <1>2, FS_CardinalityType, FS_EmptySet

LEMMA StopsAppended ==
    ASSUME NEW line \in Seq(Events), NEW e \in Events
    PROVE  Cardinality(StopsIn(Append(line, e)))
             <= Cardinality(StopsIn(line)) + (IF e.event = "stop" THEN 1 ELSE 0)
<1> DEFINE m == Len(line) + 1
<1>1. CASE e.event = "stop"
  <2>1. StopsIn(Append(line, e)) = StopsIn(line) \cup {m}
    BY <1>1 DEF StopsIn
  <2>2. m \notin StopsIn(line)
    BY DEF StopsIn
  <2>3. Cardinality(StopsIn(line) \cup {m}) = Cardinality(StopsIn(line)) + 1
    BY <2>2, StopsCounted, FS_AddElement
  <2> QED
    BY <1>1, <2>1, <2>3, StopsCounted
<1>2. CASE e.event # "stop"
  <2>1. StopsIn(Append(line, e)) = StopsIn(line)
    BY <1>2 DEF StopsIn
  <2> QED
    BY <1>2, <2>1, StopsCounted
<1> QED
  BY <1>1, <1>2

LEMMA StopsBehind ==
    ASSUME NEW line \in Seq(Events), line # <<>>
    PROVE  Cardinality(StopsIn(Tail(line))) + (IF line[1].event = "stop" THEN 1 ELSE 0)
             <= Cardinality(StopsIn(line))
<1> DEFINE S == StopsIn(Tail(line))
           T == StopsIn(line) \ {1}
           f == [k \in S |-> k + 1]
<1>1. /\ Tail(line) \in Seq(Events) /\ Len(line) \in Nat \ {0}
      /\ Len(Tail(line)) = Len(line) - 1
      /\ \A k \in 1..(Len(line) - 1) : Tail(line)[k] = line[k + 1]
  OBVIOUS
<1>2. \A k \in S : k \in Nat /\ k + 1 \in T
  BY <1>1 DEF StopsIn
<1>3. f \in Injection(S, T)
  BY <1>2 DEF Injection, IsInjective
<1>4. IsFiniteSet(T) /\ Cardinality(T) = IF 1 \in StopsIn(line)
                                         THEN Cardinality(StopsIn(line)) - 1
                                         ELSE Cardinality(StopsIn(line))
  BY StopsCounted, FS_RemoveElement
<1>5. Cardinality(S) <= Cardinality(T)
  <2> HIDE DEF S, T, f
  <2> QED
    BY <1>3, <1>4, FS_Injection
<1>6. 1 \in StopsIn(line) <=> line[1].event = "stop"
  BY <1>1 DEF StopsIn
<1>7. Cardinality(S) \in Nat /\ Cardinality(StopsIn(line)) \in Nat
  BY <1>1, StopsCounted
<1> HIDE DEF S, T
<1> QED
  BY <1>4, <1>5, <1>6, <1>7 DEF S

LEMMA StopsKept ==
    ASSUME NEW line \in Seq(Events), NEW n \in 0..Len(line)
    PROVE  /\ SubSeq(line, 1, n) \in Seq(Events)
           /\ Cardinality(StopsIn(SubSeq(line, 1, n))) <= Cardinality(StopsIn(line))
<1>1. SubSeq(line, 1, n) \in Seq(Events)
  BY SubSeqProperties
<1>2. StopsIn(SubSeq(line, 1, n)) \in SUBSET StopsIn(line)
  BY SubSeqProperties DEF StopsIn
<1> QED
  BY <1>1, <1>2, StopsCounted, FS_Subset

\* There is a doFollow() left for a stop, and for a reconnection.
LEMMA NewFollowFree ==
    ASSUME Typed, Counted, ~connected \/ StopsIn(events) # {}
    PROVE  \E n \in Nat :
              /\ n + 1 \in Follows /\ NewFollow = n + 1
              /\ \A i \in Follows : follow[i] # "none" <=> i <= n
              /\ n + Cardinality(StopsIn(events)) + (IF connected THEN 0 ELSE 1)
                    <= 1 + stops + losses
<1>1. PICK n \in Nat :
         /\ \A i \in Follows : follow[i] # "none" <=> i <= n
         /\ n + Cardinality(StopsIn(events)) + (IF connected THEN 0 ELSE 1)
               <= 1 + stops + losses
  BY DEF Counted
<1>2. stops <= MaxStops /\ losses <= MaxLosses /\ stops \in Nat /\ losses \in Nat
  BY BoundsAssumption DEF Typed
<1>3. /\ Cardinality(StopsIn(events)) \in Nat
      /\ connected => Cardinality(StopsIn(events)) # 0
  BY StopsCounted DEF Typed
<1>4. n + 1 \in Follows
  BY <1>1, <1>2, <1>3, BoundsAssumption DEF Follows
<1>5. follow[n + 1] = "none" /\ \A j \in 1..((n + 1) - 1) : follow[j] # "none"
  <2>1. n + 1 > n /\ \A j \in 1..((n + 1) - 1) : j \in Follows /\ j <= n
    BY <1>4, BoundsAssumption DEF Follows
  <2> QED
    BY <1>1, <1>4, <2>1
<1>6. \A i \in Follows :
         (follow[i] = "none" /\ \A j \in 1..(i - 1) : follow[j] # "none") => i = n + 1
  BY <1>1, <1>4 DEF Follows
<1>7. NewFollow = n + 1
  BY <1>4, <1>5, <1>6 DEF NewFollow
<1> QED
  BY <1>1, <1>4, <1>7

----------------------------------------------------------------------------
(***************************************************************************)
(* What the operators of the steps do.                                     *)
(***************************************************************************)
Requests == [at : Places, on : Sub]

\* What a call becomes when it is performed.
Performed(x, outcomes) ==
    \/ /\ x.at = "waiting" /\ recovering # 0 /\ x.on = recovering
       /\ outcomes[recovering] = "pending"
    \/ x.at \in {"sent", "held"} /\ x.on = subscriptionId
    \/ x.at = "failed"

LEMMA AttemptPerforms ==
    ASSUME Typed, NEW outcomes
    PROVE  Attempt(outcomes) \in Requests /\ Performed(Attempt(outcomes), outcomes)
<1>1. \A place \in Places, on \in Sub : /\ At(place, on) \in Requests
                                      /\ At(place, on).at = place
                                      /\ At(place, on).on = on
  BY DEF At, Requests
<1>2. /\ {"waiting", "failed", "sent", "held"} \subseteq Places
      /\ subscriptionId \in Sub /\ recovering \in Sub /\ 0 \in Sub
  BY DEF Typed, Places, Sub
<1>3. Request \in Requests /\ Performed(Request, outcomes)
  <2>1. Request = At("sent", subscriptionId) \/ Request = At("held", subscriptionId)
    BY DEF Request
  <2> QED
    BY <1>1, <1>2, <2>1 DEF Performed
<1>4. CASE recovering = 0
  BY <1>3, <1>4 DEF Attempt
<1>5. CASE recovering # 0 /\ outcomes[recovering] = "pending"
  <2>1. Attempt(outcomes) = At("waiting", recovering)
    BY <1>5 DEF Attempt
  <2> QED
    BY <1>1, <1>2, <1>5, <2>1 DEF Performed
<1>6. CASE recovering # 0 /\ outcomes[recovering] = "rejected"
  <2>1. Attempt(outcomes) = At("failed", 0)
    BY <1>6 DEF Attempt
  <2> QED
    BY <1>1, <1>2, <2>1 DEF Performed
<1>7. CASE recovering # 0 /\ outcomes[recovering] \notin {"pending", "rejected"}
  <2>1. Attempt(outcomes) = Request
    BY <1>7 DEF Attempt
  <2> QED
    BY <1>3, <2>1
<1> QED
  BY <1>4, <1>5, <1>6, <1>7

\* The retry queue performs the works it has or leaves them.
LEMMA ContinuePerforms ==
    ASSUME Typed, NEW calls \in [Calls -> Requests], NEW line, NEW outcomes,
           Continue(calls, line, outcomes)
    PROVE  /\ call' \in [Calls -> Requests]
           /\ \A c \in Calls :
                 \/ call'[c] = calls[c] \/ call'[c].at = "failed"
                 \/ calls[c].at = "queued" /\ Performed(call'[c], outcomes)
<1> DEFINE next == Attempt(outcomes)
<1>1. next \in Requests /\ Performed(next, outcomes)
  BY AttemptPerforms
<1>2. \/ call' = calls
      \/ /\ call' = [c \in Calls |-> IF Contains(line, c) THEN next ELSE calls[c]]
         /\ next.at = "failed"
      \/ call' = [calls EXCEPT ![Head(line)] = next] /\ calls[Head(line)].at = "queued"
  BY DEF Continue
<1> HIDE DEF next
<1> QED
  BY <1>1, <1>2

\* doFollow() number i goes on when it has seen enough events.
Signaled(i, asked) ==
    /\ follow' \in [Follows -> Stages]
    /\ signals' \in [Follows -> Nat]
    /\ resuming' \in Sub
    /\ call' \in [Calls -> Requests]
    /\ \A j \in Follows : \/ follow'[j] = asked[j]
                          \/ asked[j] = "parked" /\ follow'[j] = "resent"
                          \/ j = i /\ follow'[j] = "done" /\ resuming' = i
    /\ resuming' = resuming \/ /\ resuming' = i /\ follow'[i] = "done"
                               /\ follow[i] # "done"
    /\ \A j \in Follows : signals'[j] >= signals[j]
    /\ follow'[i] = "done" => signals'[i] >= Threshold
    /\ \A c \in Calls : \/ call'[c] = call[c]
                        \/ /\ call[c].at = "parked" /\ call'[c].at = "sent"
                           /\ call'[c].on = subscriptionId

LEMMA SignalDone ==
    ASSUME Typed, NEW i \in Follows, NEW asked \in [Follows -> Stages],
           asked[i] = follow[i], follow[i] \in {"subscribed", "done"},
           \A j \in Follows : follow[j] = "done" => signals[j] >= Threshold,
           Signal(i, asked)
    PROVE  Signaled(i, asked)
<1> USE DEF Signaled
<1>1. /\ call \in [Calls -> Requests] /\ signals \in [Follows -> Nat]
      /\ Threshold \in Nat /\ subscriptionId \in Sub /\ resuming \in Sub /\ i \in Sub
  BY DEF Typed, Requests, Threshold, Sub
<1>2. /\ SignalsAfter(i) \in Nat /\ SignalsAfter(i) >= signals[i]
      /\ signals' = [signals EXCEPT ![i] = SignalsAfter(i)]
      /\ signals[i] >= Threshold => SignalsAfter(i) >= Threshold
  BY <1>1 DEF SignalsAfter, Signal
<1>3. CASE Completes(i)
  <2>1. /\ follow' = [j \in Follows |-> CASE j = i -> "done"
                                        [] asked[j] = "parked" -> "resent"
                                        [] OTHER -> asked[j]]
        /\ call' = [c \in Calls |-> IF call[c].at = "parked"
                                   THEN At("sent", subscriptionId) ELSE call[c]]
        /\ resuming' = i
    BY <1>3 DEF Signal
  <2>2. /\ At("sent", subscriptionId) \in Requests
        /\ At("sent", subscriptionId).at = "sent"
        /\ At("sent", subscriptionId).on = subscriptionId
    BY <1>1 DEF At, Requests, Places
  <2>3. \A j \in Follows : follow'[j] = IF j = i THEN "done"
                                        ELSE IF asked[j] = "parked" THEN "resent"
                                        ELSE asked[j]
    BY <2>1
  <2>4. follow' \in [Follows -> Stages]
    <3>1. \A j \in Follows : follow'[j] \in Stages
      BY <2>3 DEF Stages
    <3> QED
      BY <2>1, <3>1
  <2>5. follow[i] # "done" /\ SignalsAfter(i) = Threshold
    BY <1>1, <1>3 DEF Completes
  <2> QED
    BY <1>1, <1>2, <2>1, <2>2, <2>3, <2>4, <2>5
<1>4. CASE ~Completes(i)
  <2>1. follow' = asked /\ call' = call /\ resuming' = resuming
    BY <1>4 DEF Signal
  <2> QED
    BY <1>1, <1>2, <2>1
<1> QED
  BY <1>3, <1>4

----------------------------------------------------------------------------
(***************************************************************************)
(* The types, the count of the doFollow()s, and what was accepted.         *)
(***************************************************************************)
Base == Typed /\ Counted /\ Accepted

LEMMA SignalsBase ==
    ASSUME Base, NEW i \in Follows, follow[i] \in {"subscribed", "done"},
           Signal(i, follow)
    PROVE  Signaled(i, follow)
BY SignalDone DEF Base, Accepted, Typed

\* The step that handles a 'stop': i was stopped, n is asked for.
StopOf(i, n) ==
    /\ handling = 0 /\ events # <<>> /\ events[1] = [of |-> i, event |-> "stop"]
    /\ i # n /\ follow[i] \in {"subscribed", "done"} /\ follow[n] = "none"
    /\ \E m \in Nat :
          /\ n = m + 1 /\ \A j \in Follows : follow[j] # "none" <=> j <= m
          /\ m + Cardinality(StopsIn(events)) + (IF connected THEN 0 ELSE 1)
                <= 1 + stops + losses
    /\ recovering' = n /\ outcome' = [outcome EXCEPT ![n] = "pending"]
    /\ owner' = [owner EXCEPT ![n] = "stop"]
    /\ Signaled(i, [follow EXCEPT ![n] = "asked"])
    /\ follow'[n] = "asked"

LEMMA StopHandled ==
    ASSUME Base, HandleStop
    PROVE  \E i \in Follows, n \in Follows : StopOf(i, n)
<1> DEFINE i == Head(events).of
           n == NewFollow
           asked == [follow EXCEPT ![n] = "asked"]
<1>1. /\ handling = 0 /\ events # <<>> /\ events \in Seq(Events)
      /\ Head(events) = events[1] /\ Len(events) \in Nat \ {0}
      /\ events[1] \in Events /\ events[1].event = "stop"
  BY DEF HandleStop, NextIs, Base, Typed
<1>2. i \in Follows /\ events[1] = [of |-> i, event |-> "stop"] /\ 1 \in StopsIn(events)
  BY <1>1 DEF Events, StopsIn
<1>3. follow[i] \in {"subscribed", "done"}
  BY <1>1 DEF Base, Accepted
<1>4. PICK m \in Nat :
         /\ m + 1 \in Follows /\ NewFollow = m + 1
         /\ \A j \in Follows : follow[j] # "none" <=> j <= m
         /\ m + Cardinality(StopsIn(events)) + (IF connected THEN 0 ELSE 1)
               <= 1 + stops + losses
  BY <1>2, NewFollowFree DEF Base
<1>5. n = m + 1 /\ n \in Follows /\ follow[n] = "none" /\ i # n
  BY <1>3, <1>4 DEF Follows
<1>6. /\ follow \in [Follows -> Stages] /\ asked \in [Follows -> Stages]
      /\ asked[i] = follow[i] /\ asked[n] = "asked"
  BY <1>2, <1>5 DEF Base, Typed, Stages
<1>7. /\ recovering' = n /\ outcome' = [outcome EXCEPT ![n] = "pending"]
      /\ owner' = [owner EXCEPT ![n] = "stop"] /\ Signal(i, asked)
  BY DEF HandleStop
<1>8. Signaled(i, asked)
  <2> HIDE DEF i, n, asked
  <2> QED
    BY <1>2, <1>3, <1>6, <1>7, SignalDone DEF Base, Accepted
<1>9. follow'[n] = "asked"
  BY <1>5, <1>6, <1>8 DEF Signaled
<1>10. StopOf(i, n)
  <2> HIDE DEF i, n
  <2> QED
    BY <1>1, <1>2, <1>3, <1>4, <1>5, <1>7, <1>8, <1>9 DEF StopOf
<1> QED
  BY <1>2, <1>5, <1>10

\* The step that reconnects: n is asked for, by the client.
Again(n) ==
    /\ follow[n] = "none"
    /\ \E m \in Nat :
          /\ n = m + 1 /\ \A j \in Follows : follow[j] # "none" <=> j <= m
          /\ m + Cardinality(StopsIn(events)) + 1 <= 1 + stops + losses
    /\ follow' \in [Follows -> Stages]
    /\ follow'[n] = "asked"
    /\ \A j \in Follows : \/ j = n
                          \/ follow'[j] = follow[j] /\ follow[j] # "asked"
                          \/ follow[j] \in {"asked", "resent"} /\ follow'[j] = "parked"
    /\ call' \in [Calls -> Requests]
    /\ \A c \in Calls : \/ call[c].at = "sent" /\ call'[c].at = "parked"
                        \/ /\ call[c].at = "held" /\ call'[c].at = "sent"
                           /\ call'[c].on = call[c].on
                        \/ call'[c] = call[c]

LEMMA Reconnected ==
    ASSUME Base, Reconnect
    PROVE  \E n \in Follows : Again(n)
<1> DEFINE n == NewFollow
<1>1. ~connected
  BY DEF Reconnect
<1>2. PICK m \in Nat :
         /\ m + 1 \in Follows /\ NewFollow = m + 1
         /\ \A j \in Follows : follow[j] # "none" <=> j <= m
         /\ m + Cardinality(StopsIn(events)) + (IF connected THEN 0 ELSE 1)
               <= 1 + stops + losses
  BY <1>1, NewFollowFree DEF Base
<1>3. n = m + 1 /\ n \in Follows /\ follow[n] = "none"
  BY <1>2 DEF Follows
<1>4. /\ follow \in [Follows -> Stages]
      /\ call \in [Calls -> Requests]
  BY DEF Base, Typed, Requests
<1>5. /\ follow' = [i \in Follows |->
                      CASE i = n -> "asked"
                        [] follow[i] \in {"asked", "resent"} -> "parked"
                        [] OTHER -> follow[i]]
      /\ call' = [c \in Calls |->
                    CASE call[c].at = "sent" -> [call[c] EXCEPT !.at = "parked"]
                      [] call[c].at = "held" -> [call[c] EXCEPT !.at = "sent"]
                      [] OTHER -> call[c]]
  BY DEF Reconnect
<1>6. \A i \in Follows : follow'[i] = IF i = n THEN "asked"
                                      ELSE IF follow[i] \in {"asked", "resent"} THEN "parked"
                                      ELSE follow[i]
  <2> HIDE DEF n
  <2> QED
    BY <1>3, <1>5
<1>7. follow' \in [Follows -> Stages]
  <2>1. \A i \in Follows : follow'[i] \in Stages
    BY <1>4, <1>6 DEF Stages
  <2> QED
    BY <1>5, <2>1
<1>8. \A c \in Calls : call'[c] = IF call[c].at = "sent" THEN [call[c] EXCEPT !.at = "parked"]
                                  ELSE IF call[c].at = "held" THEN [call[c] EXCEPT !.at = "sent"]
                                  ELSE call[c]
  BY <1>5
<1>9. \A c \in Calls : /\ call'[c] \in Requests
                       /\ \/ call[c].at = "sent" /\ call'[c].at = "parked"
                          \/ /\ call[c].at = "held" /\ call'[c].at = "sent"
                             /\ call'[c].on = call[c].on
                          \/ call'[c] = call[c]
  BY <1>4, <1>8 DEF Requests, Places
<1>10. call' \in [Calls -> Requests]
  BY <1>5, <1>9
<1>11. Again(n)
  <2> HIDE DEF n
  <2> QED
    BY <1>1, <1>2, <1>3, <1>6, <1>7, <1>9, <1>10 DEF Again
<1> QED
  BY <1>3, <1>11

\* A request is refused, or a recovery ends: what is under way is performed or
\* fails.
LEMMA Settling ==
    ASSUME Base, Recovered \/ \E i \in Follows : Refuse(i)
    PROVE  /\ call' \in [Calls -> Requests]
           /\ outcome' \in [Follows -> {"none", "pending", "resolved", "rejected"}]
           /\ recovering' = recovering
           /\ cleanups' \in Nat
<1> DEFINE Outcomes == {"none", "pending", "resolved", "rejected"}
<1>0. /\ call \in [Calls -> Requests] /\ outcome \in [Follows -> Outcomes]
      /\ cleanups \in Nat /\ recovering \in Sub /\ 0 \in Sub
  BY DEF Base, Typed, Requests, Sub
<1>1. \A place \in Places : At(place, 0) \in Requests
  BY <1>0 DEF At, Requests
<1>2. Request \in Requests
  <2>1. Request = [at |-> "sent", on |-> subscriptionId]
          \/ Request = [at |-> "held", on |-> subscriptionId]
    BY DEF Request, At
  <2> QED
    BY <2>1 DEF Base, Typed, Requests, Places
<1>3. {"failed", "queued"} \subseteq Places
  BY DEF Places
<1>4. CASE Recovered
  <2>1. CASE owner[resuming] = "client"
    BY <1>0, <1>4, <2>1 DEF Recovered, rescue, ops
  <2>2. CASE owner[resuming] # "client"
    <3> DEFINE resolved == IF recovering # 0 /\ outcome[recovering] = "pending"
                           THEN [outcome EXCEPT ![recovering] = "resolved"]
                           ELSE outcome
               started  == CallsAt({"started"})
               calls    == [c \in Calls |->
                              IF c \in started THEN At("queued", 0)
                              ELSE IF call[c].at = "waiting"
                                      /\ resolved[call[c].on] = "resolved"
                              THEN Request ELSE call[c]]
    <3>1. /\ outcome' = resolved /\ cleanups' = cleanups + 1 /\ recovering' = recovering
          /\ Continue(calls, Behind(started), resolved)
      BY <1>4, <2>2 DEF Recovered
    <3>2. resolved \in [Follows -> Outcomes]
      BY <1>0
    <3>3. calls \in [Calls -> Requests]
      BY <1>0, <1>1, <1>2, <1>3
    <3> HIDE DEF resolved, started, calls
    <3>4. call' \in [Calls -> Requests]
      BY <3>1, <3>3, ContinuePerforms DEF Base
    <3> QED
      BY <1>0, <3>1, <3>2, <3>4
  <2> QED
    BY <2>1, <2>2
<1>5. ASSUME NEW i \in Follows, Refuse(i)
      PROVE  /\ call' \in [Calls -> Requests]
             /\ outcome' \in [Follows -> Outcomes]
             /\ recovering' = recovering
             /\ cleanups' \in Nat
  <2>1. CASE owner[i] = "client"
    BY <1>0, <1>5, <2>1 DEF Refuse, rescue, ops
  <2>2. CASE owner[i] # "client"
    <3> DEFINE rejected == IF recovering # 0 /\ outcome[recovering] = "pending"
                           THEN [outcome EXCEPT ![recovering] = "rejected"]
                           ELSE outcome
               failing  == {c \in Calls : \/ call[c].at = "started"
                                          \/ /\ call[c].at = "waiting"
                                             /\ rejected[call[c].on] = "rejected"}
               calls    == [c \in Calls |-> IF c \in failing THEN At("failed", 0)
                                                             ELSE call[c]]
    <3>1. /\ outcome' = rejected /\ cleanups' = cleanups + 1 /\ recovering' = recovering
          /\ Continue(calls, Without(failing), rejected)
      BY <1>5, <2>2 DEF Refuse
    <3>2. rejected \in [Follows -> Outcomes]
      BY <1>0
    <3>3. calls \in [Calls -> Requests]
      BY <1>0, <1>1, <1>3
    <3> HIDE DEF rejected, failing, calls
    <3>4. call' \in [Calls -> Requests]
      BY <3>1, <3>3, ContinuePerforms DEF Base
    <3> QED
      BY <1>0, <3>1, <3>2, <3>4
  <2> QED
    BY <2>1, <2>2
<1> QED
  BY <1>4, <1>5

\* Counted is kept when no doFollow() begins and there is no more to answer.
LEMMA CountKept ==
    ASSUME Typed, Typed', Counted,
           \A i \in Follows : follow'[i] = "none" <=> follow[i] = "none",
           Cardinality(StopsIn(events')) + (IF connected' THEN 0 ELSE 1) + stops + losses
             <= Cardinality(StopsIn(events)) + (IF connected THEN 0 ELSE 1) + stops' + losses'
    PROVE  Counted'
<1>1. PICK n \in Nat :
         /\ \A i \in Follows : follow[i] # "none" <=> i <= n
         /\ n + Cardinality(StopsIn(events)) + (IF connected THEN 0 ELSE 1)
               <= 1 + stops + losses
  BY DEF Counted
<1>2. /\ Cardinality(StopsIn(events)) \in Nat /\ Cardinality(StopsIn(events')) \in Nat
      /\ stops \in Nat /\ losses \in Nat /\ stops' \in Nat /\ losses' \in Nat
  BY StopsCounted, BoundsAssumption DEF Typed
<1>3. n + Cardinality(StopsIn(events')) + (IF connected' THEN 0 ELSE 1)
               <= 1 + stops' + losses'
  BY <1>1, <1>2
<1>4. StopsIn(events)' = StopsIn(events')
  BY DEF StopsIn
<1> QED
  BY <1>1, <1>3, <1>4 DEF Counted

\* The node begins or ends a subscription.
LEMMA BaseNode ==
    ASSUME Base, NodeStop \/ \E i \in Follows : Accept(i)
    PROVE  Base'
<1> USE DEF Base
<1>0. /\ events \in Seq(Events) /\ Len(events) \in Nat
      /\ stops \in Nat /\ losses \in Nat /\ Cardinality(StopsIn(events)) \in Nat
  BY StopsCounted, BoundsAssumption DEF Typed
<1>1. CASE NodeStop
  <2> DEFINE e == [of |-> node, event |-> "stop"]
  <2>1. e \in Events /\ e.event = "stop" /\ e.of = node /\ node \in Follows /\ node # 0
    BY <1>1 DEF NodeStop, Typed, Events, Sub
  <2>2. /\ events' = Append(events, e) /\ node' = 0 /\ stops' = stops + 1
        /\ stops' \in 0..MaxStops
        /\ connected' = connected /\ follow' = follow /\ owner' = owner
        /\ signals' = signals /\ resuming' = resuming /\ subscriptionId' = subscriptionId
        /\ handling' = handling /\ recovering' = recovering /\ outcome' = outcome
        /\ cleanups' = cleanups /\ call' = call /\ torn' = torn
        /\ overtaken' = overtaken /\ losses' = losses /\ smoldot' = smoldot
    BY <1>0, <1>1, BoundsAssumption DEF NodeStop, Typed, refollow, rescue, ops
  <2> HIDE DEF e
  <2>3. Typed'
    <3>1. events' \in Seq(Events) /\ node' \in Sub
      BY <1>0, <2>1, <2>2 DEF Sub
    <3> QED
      BY <2>2, <3>1 DEF Typed
  <2>4. Counted'
    <3>1. Cardinality(StopsIn(events')) <= Cardinality(StopsIn(events)) + 1
      BY <1>0, <2>1, <2>2, StopsAppended
    <3>2. Cardinality(StopsIn(events')) \in Nat
      BY <2>3, StopsCounted DEF Typed
    <3> QED
      BY <1>0, <2>2, <2>3, <3>1, <3>2, CountKept
  <2>5. Accepted'
    <3>1. \A k \in DOMAIN events' :
            \/ k \in DOMAIN events /\ events'[k] = events[k]
            \/ events'[k] = e
      BY <1>0, <2>1, <2>2
    <3>2. \A k \in DOMAIN events' : follow'[events'[k].of] \in {"subscribed", "done"}
      <4>1. /\ follow[node] \in {"subscribed", "done"}
            /\ \A k \in DOMAIN events : follow[events[k].of] \in {"subscribed", "done"}
        BY <2>1 DEF Accepted
      <4> QED
        BY <2>1, <2>2, <3>1, <4>1
    <3>3. Threshold' = Threshold
      BY <2>2 DEF Threshold
    <3> QED
      BY <2>2, <3>2, <3>3 DEF Accepted
  <2> QED
    BY <2>3, <2>4, <2>5
<1>2. ASSUME NEW i \in Follows, Accept(i)
      PROVE  Base'
  <2> DEFINE e == [of |-> i, event |-> "initialized"]
  <2>1. e \in Events /\ e.event # "stop" /\ e.of = i
    BY DEF Events
  <2>2. /\ events' = Append(events, e) /\ node' = i
        /\ follow' = [follow EXCEPT ![i] = "subscribed"] /\ follow[i] = "asked"
        /\ connected' = connected /\ owner' = owner /\ resuming = 0
        /\ signals' = signals /\ resuming' = resuming /\ subscriptionId' = subscriptionId
        /\ handling' = handling /\ recovering' = recovering /\ outcome' = outcome
        /\ cleanups' = cleanups /\ call' = call /\ torn' = torn /\ stops' = stops
        /\ overtaken' = overtaken /\ losses' = losses /\ smoldot' = smoldot
    BY <1>2 DEF Accept, Arrives, rescue, ops, history
  <2> HIDE DEF e
  <2>a. /\ follow' \in [Follows -> Stages] /\ follow'[i] = "subscribed"
        /\ \A j \in Follows \ {i} : follow'[j] = follow[j]
    BY <2>2 DEF Typed, Stages
  <2>3. Typed'
    <3>1. events' \in Seq(Events) /\ node' \in Sub
      BY <1>0, <2>1, <2>2 DEF Sub
    <3> QED
      BY <2>2, <2>a, <3>1 DEF Typed
  <2>4. Counted'
    <3>1. Cardinality(StopsIn(events')) <= Cardinality(StopsIn(events))
      BY <1>0, <2>1, <2>2, StopsAppended
    <3>2. Cardinality(StopsIn(events')) \in Nat
      BY <2>3, StopsCounted DEF Typed
    <3>3. \A j \in Follows : follow'[j] = "none" <=> follow[j] = "none"
      BY <2>2, <2>a
    <3> QED
      BY <1>0, <2>2, <2>3, <3>1, <3>2, <3>3, CountKept
  <2>5. Accepted'
    <3>1. \A k \in DOMAIN events' :
            \/ k \in DOMAIN events /\ events'[k] = events[k]
            \/ events'[k] = e
      BY <1>0, <2>1, <2>2
    <3>2. \A k \in DOMAIN events : events[k].of \in Follows
      BY <1>0, EventsTyped
    <3>3. \A k \in DOMAIN events' : follow'[events'[k].of] \in {"subscribed", "done"}
      BY <2>1, <2>2, <2>a, <3>1, <3>2 DEF Accepted
    <3>4. Threshold' = Threshold
      BY <2>2 DEF Threshold
    <3>5. \A j \in {node', handling', subscriptionId'} \ {0} :
             follow'[j] \in {"subscribed", "done"}
      BY <2>2, <2>a DEF Accepted, Typed, Sub
    <3>6. \A j \in Follows : follow'[j] = "done" => follow[j] = "done"
      BY <2>a
    <3>7. \A j \in Follows : follow'[j] = "none" => follow[j] = "none"
      BY <2>a
    <3> QED
      BY <2>2, <3>3, <3>4, <3>5, <3>6, <3>7 DEF Accepted
  <2> QED
    BY <2>3, <2>4, <2>5
<1> QED
  BY <1>1, <1>2

\* A signal that is not of a 'stop'.
LEMMA BaseSignal ==
    ASSUME Base, NEW i \in Follows, follow[i] \in {"subscribed", "done"},
           Signaled(i, follow), smoldot' = smoldot,
           events' = events, handling' \in {0, handling},
           UNCHANGED <<connected, node, owner, subscriptionId, rescue, history>>
    PROVE  Base'
<1> USE DEF Base
<1>0. /\ connected' = connected /\ node' = node /\ owner' = owner
      /\ subscriptionId' = subscriptionId /\ stops' = stops /\ losses' = losses
      /\ node \in Sub /\ handling \in Sub /\ subscriptionId \in Sub
  BY DEF history, Typed
<1>1. Typed'
  BY DEF Typed, Signaled, rescue, history, Sub, Requests
<1>2. \A j \in Follows : /\ follow'[j] = "none" <=> follow[j] = "none"
                         /\ follow[j] \in {"subscribed", "done"}
                              => follow'[j] \in {"subscribed", "done"}
                         /\ follow[j] = "done" => follow'[j] = "done"
                         /\ follow'[j] = "done" => follow[j] = "done" \/ j = i
  BY DEF Signaled
<1>3. Counted'
  <2>1. /\ stops \in Nat /\ losses \in Nat /\ Cardinality(StopsIn(events)) \in Nat
    BY StopsCounted, BoundsAssumption DEF Typed
  <2>2. \A j \in Follows : follow'[j] = "none" <=> follow[j] = "none"
    BY <1>2
  <2>3. Cardinality(StopsIn(events')) + (IF connected' THEN 0 ELSE 1) + stops + losses
           <= Cardinality(StopsIn(events)) + (IF connected THEN 0 ELSE 1) + stops' + losses'
    BY <1>0, <2>1
  <2> QED
    BY <1>1, <2>2, <2>3, CountKept
<1>4. Accepted'
  <2>1. \A j \in {node', handling', subscriptionId'} \ {0} :
           follow'[j] \in {"subscribed", "done"}
    <3>1. \A j \in {node', handling', subscriptionId'} \ {0} :
             j \in {node, handling, subscriptionId} \ {0} /\ j \in Follows
      BY <1>0 DEF Sub
    <3> QED
      BY <1>2, <3>1 DEF Accepted
  <2>2. \A k \in DOMAIN events' : follow'[events'[k].of] \in {"subscribed", "done"}
    <3>1. \A k \in DOMAIN events : events[k].of \in Follows
      BY EventsTyped DEF Typed
    <3> QED
      BY <1>2, <3>1 DEF Accepted
  <2>3. resuming' # 0 => follow'[resuming'] = "done"
    BY <1>2 DEF Accepted, Signaled, Typed, Sub
  <2>4. \A j \in Follows : follow'[j] = "done" => signals'[j] >= Threshold
    <3>1. Threshold \in Nat /\ signals \in [Follows -> Nat] /\ signals' \in [Follows -> Nat]
      BY DEF Threshold, Typed, Signaled
    <3> QED
      BY <1>2, <3>1 DEF Accepted, Signaled
  <2>5. Threshold' = Threshold
    BY DEF Threshold
  <2>6. \A j \in Follows : follow'[j] = "none" => owner'[j] = "client"
    BY <1>0, <1>2 DEF Accepted
  <2> QED
    BY <2>1, <2>2, <2>3, <2>4, <2>5, <2>6 DEF Accepted
<1> QED
  BY <1>1, <1>3, <1>4

LEMMA BaseHandled ==
    ASSUME Base, HandleInitialized \/ HandleStop
    PROVE  Base'
<1> USE DEF Base
<1>0. /\ events \in Seq(Events) /\ Len(events) \in Nat /\ Tail(events) \in Seq(Events)
      /\ events' = Tail(events) /\ events # <<>> /\ Head(events) = events[1]
      /\ connected' = connected /\ node' = node /\ stops' = stops /\ losses' = losses
      /\ smoldot' = smoldot /\ torn' = torn
  BY DEF HandleInitialized, HandleStop, NextIs, link, history, Typed
<1>1. /\ \A k \in DOMAIN Tail(events) :
            k + 1 \in DOMAIN events /\ Tail(events)[k] = events[k + 1]
      /\ 1 \in DOMAIN events
      /\ \A k \in DOMAIN events : events[k] \in Events /\ events[k].of \in Follows
  BY <1>0, EventsTyped
<1>2. /\ Cardinality(StopsIn(Tail(events)))
            + (IF events[1].event = "stop" THEN 1 ELSE 0) <= Cardinality(StopsIn(events))
      /\ Cardinality(StopsIn(events)) \in Nat /\ Cardinality(StopsIn(Tail(events))) \in Nat
      /\ stops \in Nat /\ losses \in Nat
  <2>1. stops \in Nat /\ losses \in Nat
    BY BoundsAssumption DEF Typed
  <2> QED
    BY <1>0, <2>1, StopsBehind, StopsCounted
<1>3. CASE HandleInitialized
  <2>1. /\ subscriptionId' = events[1].of /\ handling' = events[1].of
        /\ follow' = follow /\ owner' = owner /\ signals' = signals /\ resuming' = resuming
        /\ recovering' = recovering /\ outcome' = outcome /\ cleanups' = cleanups
        /\ call' = call /\ overtaken' = overtaken
    BY <1>0, <1>3 DEF HandleInitialized, rescue, ops, history
  <2>2. Typed'
    <3>1. subscriptionId' \in Sub /\ handling' \in Sub
      BY <1>1, <2>1 DEF Sub
    <3> QED
      BY <1>0, <2>1, <3>1 DEF Typed
  <2>3. Counted'
    <3>1. Cardinality(StopsIn(events')) \in Nat
      BY <1>0, <1>2
    <3>2. Cardinality(StopsIn(events')) + (IF connected' THEN 0 ELSE 1) + stops + losses
             <= Cardinality(StopsIn(events)) + (IF connected THEN 0 ELSE 1) + stops' + losses'
      BY <1>0, <1>2, <3>1
    <3>3. \A j \in Follows : follow'[j] = "none" <=> follow[j] = "none"
      BY <2>1
    <3> QED
      BY <2>2, <3>2, <3>3, CountKept
  <2>4. Accepted'
    <3>1. \A k \in DOMAIN events' : follow'[events'[k].of] \in {"subscribed", "done"}
      BY <1>0, <1>1, <2>1 DEF Accepted
    <3>2. \A j \in {node', handling', subscriptionId'} \ {0} :
             follow'[j] \in {"subscribed", "done"}
      BY <1>0, <1>1, <2>1 DEF Accepted
    <3>3. Threshold' = Threshold
      BY <1>0 DEF Threshold
    <3> QED
      BY <2>1, <3>1, <3>2, <3>3 DEF Accepted
  <2> QED
    BY <2>2, <2>3, <2>4
<1>4. CASE HandleStop
  <2>1. PICK i \in Follows, n \in Follows : StopOf(i, n)
    BY <1>4, StopHandled
  <2>2. /\ subscriptionId' = subscriptionId /\ handling' = handling /\ handling = 0
        /\ cleanups' = cleanups /\ overtaken' \in BOOLEAN
        /\ recovering' = n /\ outcome' = [outcome EXCEPT ![n] = "pending"]
        /\ owner' = [owner EXCEPT ![n] = "stop"]
        /\ events[1].event = "stop" /\ i # n /\ follow[n] = "none"
        /\ follow[i] \in {"subscribed", "done"} /\ follow'[n] = "asked"
    BY <1>4, <2>1 DEF HandleStop, StopOf, NextIs, Typed
  <2>3. /\ follow' \in [Follows -> Stages] /\ signals' \in [Follows -> Nat]
        /\ resuming' \in Sub /\ call' \in [Calls -> Requests]
        /\ (resuming' = resuming \/ (resuming' = i /\ follow'[i] = "done"))
        /\ follow'[i] = "done" => signals'[i] >= Threshold
        /\ \A j \in Follows : signals'[j] >= signals[j]
    BY <2>1 DEF StopOf, Signaled
  <2>4. \A j \in Follows \ {n} :
             /\ follow'[j] = "none" <=> follow[j] = "none"
             /\ follow[j] \in {"subscribed", "done"} => follow'[j] \in {"subscribed", "done"}
             /\ follow[j] = "done" => follow'[j] = "done"
             /\ follow'[j] = "done" => follow[j] = "done" \/ j = i
    <3>1. \A j \in Follows \ {n} : [follow EXCEPT ![n] = "asked"][j] = follow[j]
      BY DEF Typed
    <3>2. Signaled(i, [follow EXCEPT ![n] = "asked"])
      BY <2>1 DEF StopOf
    <3>3. \A j \in Follows :
             \/ j = n
             \/ follow'[j] = follow[j]
             \/ follow[j] = "parked" /\ follow'[j] = "resent"
             \/ j = i /\ follow'[j] = "done"
      BY <3>1, <3>2 DEF Signaled
    <3> QED
      BY <2>2, <3>3
  <2>5. Typed'
    <3>1. /\ recovering' \in Sub /\ owner' \in [Follows -> {"client", "stop"}]
          /\ outcome' \in [Follows -> {"none", "pending", "resolved", "rejected"}]
      BY <2>2 DEF Typed, Sub
    <3> QED
      BY <1>0, <2>2, <2>3, <3>1 DEF Typed, Requests
  <2>6. Counted'
    <3>1. PICK m \in Nat :
            /\ n = m + 1 /\ \A j \in Follows : follow[j] # "none" <=> j <= m
            /\ m + Cardinality(StopsIn(events)) + (IF connected THEN 0 ELSE 1)
                  <= 1 + stops + losses
      BY <2>1 DEF StopOf
    <3>2. n + Cardinality(StopsIn(events')) + (IF connected' THEN 0 ELSE 1)
                  <= 1 + stops' + losses'
      BY <1>0, <1>2, <2>2, <3>1
    <3>3. \A j \in Follows : follow'[j] # "none" <=> j <= n
      <4>1. \A j \in Follows \ {n} : j <= n <=> j <= m
        BY <3>1 DEF Follows
      <4>2. n <= n
        BY <3>1
      <4> QED
        BY <2>2, <2>4, <3>1, <4>1, <4>2
    <3>4. StopsIn(events)' = StopsIn(events')
      BY DEF StopsIn
    <3>5. n \in Nat
      BY <3>1
    <3> QED
      BY <3>2, <3>3, <3>4, <3>5 DEF Counted
  <2>7. Accepted'
    <3>1. \A j \in Follows : follow[j] \in {"subscribed", "done"}
                               => follow'[j] \in {"subscribed", "done"}
      BY <2>2, <2>4
    <3>2. \A j \in {node', handling', subscriptionId'} \ {0} :
             follow'[j] \in {"subscribed", "done"}
      BY <1>0, <2>2, <3>1 DEF Accepted, Typed, Sub
    <3>3. \A k \in DOMAIN events' : follow'[events'[k].of] \in {"subscribed", "done"}
      BY <1>0, <1>1, <3>1 DEF Accepted
    <3>4. resuming' # 0 => follow'[resuming'] = "done"
      <4>1. resuming # 0 => follow[resuming] = "done" /\ resuming \in Follows
        BY DEF Accepted, Typed, Sub
      <4> QED
        BY <2>2, <2>3, <2>4, <4>1
    <3>5. \A j \in Follows : follow'[j] = "done" => signals'[j] >= Threshold
      <4>1. Threshold \in Nat /\ signals \in [Follows -> Nat]
        BY DEF Threshold, Typed
      <4>2. \A j \in Follows : follow[j] = "done" => signals[j] >= Threshold
        BY DEF Accepted
      <4>3. \A j \in Follows : follow'[j] = "done" => follow[j] = "done" \/ j = i
        BY <2>2, <2>4
      <4> QED
        BY <2>3, <4>1, <4>2, <4>3
    <3>6. Threshold' = Threshold
      BY <1>0 DEF Threshold
    <3>7. \A j \in Follows : follow'[j] = "none" => owner'[j] = "client"
      <4>1. \A j \in Follows \ {n} : owner'[j] = owner[j]
        BY <2>2 DEF Typed
      <4> QED
        BY <2>2, <2>4, <4>1 DEF Accepted
    <3> QED
      BY <3>2, <3>3, <3>4, <3>5, <3>6, <3>7 DEF Accepted
  <2> QED
    BY <2>5, <2>6, <2>7
<1> QED
  BY <1>3, <1>4

\* Only what is settled or performed changes, and the stages do not go back.
LEMMA BaseFrame ==
    ASSUME Base, UNCHANGED <<link, owner, signals, subscriptionId, queue, history>>,
           call' \in [Calls -> Requests], cleanups' \in Nat, recovering' \in Sub,
           outcome' \in [Follows -> {"none", "pending", "resolved", "rejected"}],
           follow' \in [Follows -> Stages], resuming' \in {0, resuming},
           \A j \in Follows : follow'[j] # follow[j] => follow[j] = "resent" /\ follow'[j] = "failed"
    PROVE  Base'
<1> USE DEF Base
<1>0. /\ connected' = connected /\ node' = node /\ smoldot' = smoldot /\ owner' = owner
      /\ signals' = signals /\ subscriptionId' = subscriptionId /\ events' = events
      /\ handling' = handling /\ torn' = torn /\ overtaken' = overtaken
      /\ stops' = stops /\ losses' = losses
  BY DEF link, queue, history
<1>1. Typed'
  BY <1>0 DEF Typed, Sub, Requests
<1>2. Counted'
  <2>1. /\ stops \in Nat /\ losses \in Nat /\ Cardinality(StopsIn(events)) \in Nat
    BY StopsCounted, BoundsAssumption DEF Typed
  <2>2. \A j \in Follows : follow'[j] = "none" <=> follow[j] = "none"
    OBVIOUS
  <2>3. Cardinality(StopsIn(events')) + (IF connected' THEN 0 ELSE 1) + stops + losses
           <= Cardinality(StopsIn(events)) + (IF connected THEN 0 ELSE 1) + stops' + losses'
    BY <1>0, <2>1
  <2> QED
    BY <1>1, <2>2, <2>3, CountKept
<1>3. Accepted'
  <2>1. \A j \in Follows :
           /\ follow[j] \in {"subscribed", "done"} => follow'[j] = follow[j]
           /\ follow'[j] = "done" => follow[j] = "done"
           /\ follow'[j] = "none" => follow[j] = "none"
    OBVIOUS
  <2>2. \A j \in {node', handling', subscriptionId'} \ {0} :
           follow'[j] \in {"subscribed", "done"}
    <3>1. \A j \in {node', handling', subscriptionId'} \ {0} :
             j \in {node, handling, subscriptionId} \ {0} /\ j \in Follows
      BY <1>0 DEF Typed, Sub
    <3> QED
      BY <2>1, <3>1 DEF Accepted
  <2>3. \A k \in DOMAIN events' : follow'[events'[k].of] \in {"subscribed", "done"}
    <3>1. \A k \in DOMAIN events : events[k].of \in Follows
      BY EventsTyped DEF Typed
    <3> QED
      BY <1>0, <2>1, <3>1 DEF Accepted
  <2>4. resuming' # 0 => follow'[resuming'] = "done"
    BY <2>1 DEF Accepted, Typed, Sub
  <2>5. Threshold' = Threshold
    BY <1>0 DEF Threshold
  <2> QED
    BY <1>0, <2>1, <2>2, <2>3, <2>4, <2>5 DEF Accepted
<1> QED
  BY <1>1, <1>2, <1>3

\* A loss of the connection, and the one after it.
LEMMA BaseConnection ==
    ASSUME Base, Lose \/ Reconnect
    PROVE  Base'
<1> USE DEF Base
<1>0. /\ events \in Seq(Events) /\ Len(events) \in Nat
      /\ stops \in Nat /\ losses \in Nat /\ Cardinality(StopsIn(events)) \in Nat
  BY StopsCounted, BoundsAssumption DEF Typed
<1>1. CASE Lose
  <2>1. /\ connected /\ connected' = FALSE /\ node' = 0 /\ losses' = losses + 1
        /\ losses' \in 0..MaxLosses /\ torn' \in BOOLEAN
        /\ \E n \in 0..Len(events) : events' = SubSeq(events, 1, n)
        /\ follow' = follow /\ owner' = owner /\ signals' = signals /\ resuming' = resuming
        /\ subscriptionId' = subscriptionId /\ handling' = handling
        /\ recovering' = recovering /\ outcome' = outcome /\ cleanups' = cleanups
        /\ call' = call /\ overtaken' = overtaken /\ stops' = stops /\ smoldot' = smoldot
    <3>1. \E n \in 0..Len(events) : events' = SubSeq(events, 1, n)
      <4>1. CASE handling = 0
        <5>1. events' = <<>> /\ SubSeq(events, 1, 0) = <<>> /\ 0 \in 0..Len(events)
          BY <1>0, <1>1, <4>1 DEF Lose
        <5> QED
          BY <5>1
      <4>2. CASE handling # 0
        BY <1>1, <4>2 DEF Lose
      <4> QED
        BY <4>1, <4>2
    <3>2. torn' \in BOOLEAN
      BY <1>1 DEF Lose
    <3>3. losses < MaxLosses /\ losses' = losses + 1 /\ losses' \in 0..MaxLosses
      BY <1>0, <1>1, BoundsAssumption DEF Lose
    <3> QED
      BY <1>1, <3>1, <3>2, <3>3 DEF Lose, refollow, rescue, ops
  <2>2. PICK n \in 0..Len(events) : events' = SubSeq(events, 1, n)
    BY <2>1
  <2>3. Typed'
    <3>1. events' \in Seq(Events) /\ node' \in Sub
      BY <1>0, <2>1, <2>2, StopsKept DEF Sub
    <3> QED
      BY <2>1, <3>1 DEF Typed
  <2>4. Counted'
    <3>1. Cardinality(StopsIn(events')) <= Cardinality(StopsIn(events))
      BY <1>0, <2>2, StopsKept
    <3>2. Cardinality(StopsIn(events')) \in Nat
      BY <2>3, StopsCounted DEF Typed
    <3>3. Cardinality(StopsIn(events')) + (IF connected' THEN 0 ELSE 1) + stops + losses
             <= Cardinality(StopsIn(events)) + (IF connected THEN 0 ELSE 1) + stops' + losses'
      BY <1>0, <2>1, <3>1, <3>2
    <3>4. \A j \in Follows : follow'[j] = "none" <=> follow[j] = "none"
      BY <2>1
    <3> QED
      BY <2>3, <3>3, <3>4, CountKept
  <2>5. Accepted'
    <3>1. \A k \in DOMAIN events' : k \in DOMAIN events /\ events'[k] = events[k]
      BY <1>0, <2>2
    <3>2. \A k \in DOMAIN events' : follow'[events'[k].of] \in {"subscribed", "done"}
      BY <2>1, <3>1 DEF Accepted
    <3>3. Threshold' = Threshold
      BY <2>1 DEF Threshold
    <3>4. \A j \in {node', handling', subscriptionId'} \ {0} :
             follow'[j] \in {"subscribed", "done"}
      BY <2>1 DEF Accepted
    <3> QED
      BY <2>1, <3>2, <3>3, <3>4 DEF Accepted
  <2> QED
    BY <2>3, <2>4, <2>5
<1>2. CASE Reconnect
  <2>1. PICK n \in Follows : Again(n)
    BY <1>2, Reconnected
  <2>2. /\ ~connected /\ connected' = TRUE /\ node' = node /\ owner' = owner
        /\ signals' = signals /\ resuming' = resuming /\ subscriptionId' = subscriptionId
        /\ events' = events /\ handling' = handling
        /\ recovering' = recovering /\ outcome' = outcome /\ cleanups' = cleanups
        /\ torn' = torn /\ overtaken' = overtaken /\ stops' = stops /\ losses' = losses
        /\ smoldot' = smoldot
    BY <1>2 DEF Reconnect, rescue, history
  <2>3. Typed'
    BY <2>1, <2>2 DEF Typed, Again, Sub, Requests
  <2>4. \A j \in Follows \ {n} :
           /\ follow[j] \in {"subscribed", "done"} => follow'[j] = follow[j]
           /\ follow'[j] = "done" => follow[j] = "done"
           /\ follow'[j] = "none" <=> follow[j] = "none"
    BY <2>1 DEF Again
  <2>5. follow'[n] = "asked" /\ follow[n] = "none"
    BY <2>1 DEF Again
  <2>6. Counted'
    <3>1. PICK m \in Nat :
            /\ n = m + 1 /\ \A j \in Follows : follow[j] # "none" <=> j <= m
            /\ m + Cardinality(StopsIn(events)) + 1 <= 1 + stops + losses
      BY <2>1 DEF Again
    <3>2. n \in Nat /\ n + Cardinality(StopsIn(events')) + (IF connected' THEN 0 ELSE 1)
                  <= 1 + stops' + losses'
      BY <1>0, <2>2, <3>1
    <3>3. \A j \in Follows : follow'[j] # "none" <=> j <= n
      <4>1. \A j \in Follows \ {n} : j <= n <=> j <= m
        BY <3>1 DEF Follows
      <4>2. n <= n
        BY <3>1
      <4> QED
        BY <2>5, <2>4, <3>1, <4>1, <4>2
    <3>4. StopsIn(events)' = StopsIn(events')
      BY DEF StopsIn
    <3> QED
      BY <3>2, <3>3, <3>4 DEF Counted
  <2>7. Accepted'
    <3>1. \A j \in Follows : follow[j] \in {"subscribed", "done"} => follow'[j] = follow[j]
      BY <2>4, <2>5
    <3>2. \A j \in {node', handling', subscriptionId'} \ {0} :
             follow'[j] \in {"subscribed", "done"}
      BY <2>2, <3>1 DEF Accepted, Typed, Sub
    <3>3. \A k \in DOMAIN events' : follow'[events'[k].of] \in {"subscribed", "done"}
      <4>1. \A k \in DOMAIN events : events[k].of \in Follows
        BY <1>0, EventsTyped
      <4> QED
        BY <2>2, <3>1, <4>1 DEF Accepted
    <3>4. resuming' # 0 => follow'[resuming'] = "done"
      BY <2>2, <3>1 DEF Accepted, Typed, Sub
    <3>5. \A j \in Follows : follow'[j] = "done" => signals'[j] >= Threshold
      BY <2>2, <2>4, <2>5 DEF Accepted
    <3>6. \A j \in Follows : follow'[j] = "none" => owner'[j] = "client"
      BY <2>2, <2>4, <2>5 DEF Accepted
    <3>7. Threshold' = Threshold
      BY <2>2 DEF Threshold
    <3> QED
      BY <3>2, <3>3, <3>4, <3>5, <3>6, <3>7 DEF Accepted
  <2> QED
    BY <2>3, <2>6, <2>7
<1> QED
  BY <1>1, <1>2

\* The operations: they are asked for, answered, and performed again.
LEMMA BaseCall ==
    ASSUME Base, NEW c \in Calls, Call(c) \/ Answer(c) \/ Finish(c)
    PROVE  /\ call' \in [Calls -> Requests]
           /\ UNCHANGED <<link, refollow, queue, rescue, history>>
<1> USE DEF Base
<1>1. call \in [Calls -> Requests] /\ 0 \in Sub
  BY DEF Typed, Requests, Sub
<1>2. At("queued", 0) \in Requests /\ At("done", 0) \in Requests
  BY <1>1 DEF At, Requests, Places
<1>3. CASE Call(c)
  BY <1>1, <1>3, AttemptPerforms DEF Call
<1>4. CASE Answer(c)
  <2>1. CASE call[c].on = node
    <3>1. call' = [call EXCEPT ![c].at = "started"]
      BY <1>4, <2>1 DEF Answer
    <3>2. [call[c] EXCEPT !.at = "started"] \in Requests
      BY <1>1 DEF Requests, Places
    <3> QED
      BY <1>1, <1>4, <3>1, <3>2 DEF Answer
  <2>2. CASE call[c].on # node
    <3>1. Continue([call EXCEPT ![c] = At("queued", 0)], Behind({c}), outcome)
      BY <1>4, <2>2 DEF Answer
    <3>2. [call EXCEPT ![c] = At("queued", 0)] \in [Calls -> Requests]
      BY <1>1, <1>2
    <3> QED
      BY <1>4, <3>1, <3>2, ContinuePerforms DEF Answer
  <2> QED
    BY <2>1, <2>2
<1>5. CASE Finish(c)
  <2>1. Continue([call EXCEPT ![c] = At("done", 0)], Without({c}), outcome)
    BY <1>5 DEF Finish
  <2>2. [call EXCEPT ![c] = At("done", 0)] \in [Calls -> Requests]
    BY <1>1, <1>2
  <2> QED
    BY <1>5, <2>1, <2>2, ContinuePerforms DEF Finish
<1> QED
  BY <1>3, <1>4, <1>5

LEMMA HeaderNext ==
    ASSUME Typed, Header, [Next]_vars
    PROVE  Header'
<1> USE DEF Header
<1>1. CASE HandleInitialized
  <2>1. Head(events) \in Events
    BY <1>1 DEF HandleInitialized, NextIs, Typed
  <2>2. handling' \in Follows /\ header' = "sent"
    BY <1>1, <2>1 DEF HandleInitialized, Events
  <2> QED
    BY <2>2 DEF Follows
<1>2. CASE HeaderAnswered
  BY <1>2 DEF HeaderAnswered
<1>3. CASE Reconnect
  BY <1>3 DEF Reconnect
<1>4. ASSUME handling' = handling /\ header' = header
      PROVE  Header'
  BY <1>4
<1>5. CASE UNCHANGED vars
  BY <1>4, <1>5 DEF vars, queue
<1>6. CASE NodeStop \/ NodeEvent \/ HandleStop \/ Recovered \/ Cleanup \/ Lose
  BY <1>4, <1>6 DEF NodeStop, NodeEvent, HandleStop, Recovered, Cleanup, Lose, queue
<1>7. CASE \E i \in Follows : Accept(i) \/ Refuse(i)
  BY <1>4, <1>7 DEF Accept, Refuse, queue
<1>8. CASE \E c \in Calls : Call(c) \/ Answer(c) \/ Finish(c)
  BY <1>4, <1>8 DEF Call, Answer, Finish, queue
<1> QED
  BY <1>1, <1>2, <1>3, <1>5, <1>6, <1>7, <1>8 DEF Next

LEMMA BaseNext ==
    ASSUME Base, Header, [Next]_vars
    PROVE  Base'
<1> USE DEF Base
<1>0. /\ call \in [Calls -> Requests] /\ cleanups \in Nat /\ recovering \in Sub
      /\ outcome \in [Follows -> {"none", "pending", "resolved", "rejected"}]
      /\ follow \in [Follows -> Stages] /\ 0 \in Sub
  BY DEF Typed, Requests, Sub
<1>1. CASE NodeStop \/ \E i \in Follows : Accept(i)
  BY <1>1, BaseNode
<1>2. CASE NodeEvent
  <2>1. node \in Follows /\ follow[node] \in {"subscribed", "done"}
    BY <1>2 DEF NodeEvent, Typed, Sub, Accepted
  <2>2. Signaled(node, follow)
    BY <1>2, <2>1, SignalsBase DEF NodeEvent
  <2> QED
    BY <1>2, <2>1, <2>2, BaseSignal DEF NodeEvent, link, queue
<1>3. CASE HandleInitialized \/ HandleStop
  BY <1>3, BaseHandled
<1>4. CASE HeaderAnswered
  <2>1. handling \in Follows /\ follow[handling] \in {"subscribed", "done"}
    BY <1>4 DEF HeaderAnswered, Header, Typed, Sub, Accepted
  <2>2. Signaled(handling, follow)
    <3>1. CASE handling = node
      BY <1>4, <2>1, <3>1, SignalsBase DEF HeaderAnswered
    <3>2. CASE handling # node
      <4>1. /\ follow' = follow /\ signals' = signals /\ resuming' = resuming
            /\ call' = call
        BY <1>4, <3>2 DEF HeaderAnswered
      <4>2. signals \in [Follows -> Nat] /\ resuming \in Sub
        BY DEF Typed
      <4>3. follow[handling] = "done" => signals[handling] >= Threshold
        BY <2>1 DEF Accepted
      <4>4. \A j \in Follows : signals[j] >= signals[j]
        BY <4>2
      <4> QED
        BY <1>0, <4>1, <4>2, <4>3, <4>4 DEF Signaled
    <3> QED
      BY <3>1, <3>2
  <2> QED
    BY <1>4, <2>1, <2>2, BaseSignal DEF HeaderAnswered, link
<1>5. CASE Recovered
  <2>1. /\ resuming' = 0 /\ follow' = follow /\ owner' = owner /\ signals' = signals
        /\ subscriptionId' = subscriptionId /\ UNCHANGED <<link, queue, history>>
    BY <1>5 DEF Recovered
  <2> QED
    BY <1>0, <1>5, <2>1, Settling, BaseFrame
<1>6. ASSUME NEW i \in Follows, Refuse(i)
      PROVE  Base'
  <2>1. /\ follow' = [follow EXCEPT ![i] = "failed"] /\ follow[i] = "resent"
        /\ resuming' = resuming /\ owner' = owner /\ signals' = signals
        /\ subscriptionId' = subscriptionId /\ UNCHANGED <<link, queue, history>>
    BY <1>6 DEF Refuse
  <2>2. /\ follow' \in [Follows -> Stages]
        /\ \A j \in Follows : follow'[j] # follow[j]
                                => follow[j] = "resent" /\ follow'[j] = "failed"
    BY <1>0, <2>1 DEF Stages
  <2> QED
    BY <1>0, <1>6, <2>1, <2>2, Settling, BaseFrame
<1>7. CASE Cleanup
  <2>1. /\ recovering' = 0 /\ cleanups' \in Nat /\ outcome' = outcome /\ call' = call
        /\ resuming' = resuming /\ follow' = follow /\ owner' = owner
        /\ signals' = signals /\ subscriptionId' = subscriptionId
        /\ UNCHANGED <<link, queue, history>>
    BY <1>0, <1>7 DEF Cleanup, refollow, ops
  <2> QED
    BY <1>0, <2>1, BaseFrame
<1>8. CASE Lose \/ Reconnect
  BY <1>8, BaseConnection
<1>9. ASSUME NEW c \in Calls, Call(c) \/ Answer(c) \/ Finish(c)
      PROVE  Base'
  <2>1. /\ call' \in [Calls -> Requests]
        /\ UNCHANGED <<link, refollow, queue, rescue, history>>
    BY <1>9, BaseCall
  <2>2. /\ recovering' = recovering /\ cleanups' = cleanups /\ outcome' = outcome
        /\ resuming' = resuming /\ follow' = follow /\ owner' = owner
        /\ signals' = signals /\ subscriptionId' = subscriptionId
        /\ UNCHANGED <<link, queue, history>>
    BY <2>1 DEF refollow, rescue
  <2> QED
    BY <1>0, <2>1, <2>2, BaseFrame
<1>10. CASE UNCHANGED vars
  <2>1. /\ recovering' = recovering /\ cleanups' = cleanups /\ outcome' = outcome
        /\ resuming' = resuming /\ follow' = follow /\ owner' = owner
        /\ signals' = signals /\ subscriptionId' = subscriptionId /\ call' = call
        /\ UNCHANGED <<link, queue, history>>
    BY <1>10 DEF vars, refollow, rescue, ops
  <2> QED
    BY <1>0, <2>1, BaseFrame
<1> QED
  BY <1>1, <1>2, <1>3, <1>4, <1>5, <1>6, <1>7, <1>8, <1>9, <1>10 DEF Next

----------------------------------------------------------------------------
(***************************************************************************)
(* One subscription after the other.                                       *)
(***************************************************************************)
Line == Renewing /\ Latest /\ OneFollow /\ Ends

\* A step that begins and ends no subscription and takes no event.
Quiet == /\ connected' = connected /\ node' = node /\ events' = events /\ torn' = torn
         /\ handling' \in {0, handling} /\ subscriptionId' = subscriptionId
         /\ \A i \in Follows : follow'[i] = "asked" <=> follow[i] = "asked"

LEMMA QuietSteps ==
    ASSUME Base, Header,
           \/ UNCHANGED vars
           \/ NodeEvent \/ HeaderAnswered \/ Recovered \/ Cleanup
           \/ \E i \in Follows : Refuse(i)
           \/ \E c \in Calls : Call(c) \/ Answer(c) \/ Finish(c)
    PROVE  Quiet
<1> USE DEF Quiet
<1>1. CASE UNCHANGED vars
  BY <1>1 DEF vars, link, refollow, queue, history
<1>2. ASSUME NEW i \in Follows, follow[i] \in {"subscribed", "done"}, Signaled(i, follow)
      PROVE  \A j \in Follows : follow'[j] = "asked" <=> follow[j] = "asked"
  BY <1>2 DEF Signaled
<1>3. CASE NodeEvent
  <2>1. node \in Follows /\ follow[node] \in {"subscribed", "done"}
    BY <1>3 DEF NodeEvent, Base, Typed, Sub, Accepted
  <2>2. Signaled(node, follow)
    BY <1>3, <2>1, SignalsBase DEF NodeEvent
  <2> QED
    BY <1>2, <1>3, <2>1, <2>2 DEF NodeEvent, link, queue, history
<1>4. CASE HeaderAnswered
  <2>1. handling \in Follows /\ follow[handling] \in {"subscribed", "done"}
    BY <1>4 DEF HeaderAnswered, Header, Base, Typed, Sub, Accepted
  <2>2. \A j \in Follows : follow'[j] = "asked" <=> follow[j] = "asked"
    <3>1. CASE handling = node
      <4>1. Signaled(handling, follow)
        BY <1>4, <2>1, <3>1, SignalsBase DEF HeaderAnswered
      <4> QED
        BY <1>2, <2>1, <4>1
    <3>2. CASE handling # node
      BY <1>4, <3>2 DEF HeaderAnswered
    <3> QED
      BY <3>1, <3>2
  <2> QED
    BY <1>4, <2>2 DEF HeaderAnswered, link, history
<1>5. CASE Recovered \/ Cleanup
  BY <1>5 DEF Recovered, Cleanup, link, refollow, queue, history
<1>6. ASSUME NEW i \in Follows, Refuse(i)
      PROVE  Quiet
  <2>1. \A j \in Follows : follow'[j] = "asked" <=> follow[j] = "asked"
    BY <1>6 DEF Refuse, Base, Typed
  <2> QED
    BY <1>6, <2>1 DEF Refuse, link, queue, history
<1>7. CASE \E c \in Calls : Call(c) \/ Answer(c) \/ Finish(c)
  BY <1>7 DEF Call, Answer, Finish, link, refollow, queue, history
<1> QED
  BY <1>1, <1>3, <1>4, <1>5, <1>6, <1>7

LEMMA LineQuiet ==
    ASSUME Line, Quiet
    PROVE  Line'
<1>1. StopsIn(events)' = StopsIn(events')
  BY DEF StopsIn
<1>2. Renewing'
  BY <1>1 DEF Line, Quiet, Renewing
<1>3. Latest'
  BY DEF Line, Quiet, Latest
<1>4. OneFollow'
  BY <1>1 DEF Line, Quiet, OneFollow
<1>5. Ends'
  BY DEF Line, Quiet, Ends
<1> QED
  BY <1>2, <1>3, <1>4, <1>5 DEF Line

LEMMA LineNodeStop ==
    ASSUME Base, Line, NodeStop
    PROVE  Line'
<1> DEFINE e == [of |-> node, event |-> "stop"]
<1>1. /\ events' = Append(events, e) /\ node # 0 /\ node' = 0
      /\ connected' = connected /\ follow' = follow /\ handling' = handling
      /\ subscriptionId' = subscriptionId /\ torn' = torn
  BY DEF NodeStop, refollow
<1>2. /\ events \in Seq(Events) /\ Len(events) \in Nat /\ node \in Follows
      /\ e \in Events /\ e.of = node /\ e.event = "stop"
  BY <1>1 DEF Base, Typed, Sub, Events
<1> HIDE DEF e
<1>3. /\ \A k \in DOMAIN events : k \in DOMAIN events' /\ events'[k] = events[k]
      /\ \A k \in DOMAIN events' : k \in DOMAIN events \/ k = Len(events) + 1
      /\ Len(events) + 1 \in DOMAIN events' /\ events'[Len(events) + 1] = e
      /\ \A k \in DOMAIN events : k < Len(events) + 1
  BY <1>1, <1>2
<1>4. Len(events) + 1 \in StopsIn(events') /\ StopsIn(events)' = StopsIn(events')
  BY <1>2, <1>3 DEF StopsIn
<1>5. Renewing' /\ Latest'
  BY <1>1, <1>4 DEF Renewing, Latest
<1>6. OneFollow'
  <2>1. \A k \in StopsIn(events') : k \in StopsIn(events) \/ k = Len(events) + 1
    BY <1>3 DEF StopsIn
  <2> QED
    BY <1>1, <1>4, <2>1 DEF Line, OneFollow
<1>7. Ends'
  <2> SUFFICES ASSUME ~torn
               PROVE  /\ handling \notin {0, 0} =>
                           \E k \in DOMAIN events' :
                              events'[k] = [of |-> handling, event |-> "stop"]
                      /\ \A k \in DOMAIN events' :
                           events'[k].event = "initialized" /\ events'[k].of # 0 =>
                             \E l \in DOMAIN events' :
                                l > k /\ events'[l] = [of |-> events'[k].of, event |-> "stop"]
    BY <1>1 DEF Ends
  <2>1. handling # 0 => \E k \in DOMAIN events' :
                          events'[k] = [of |-> handling, event |-> "stop"]
    <3>1. CASE handling = node
      BY <1>3, <3>1 DEF e
    <3>2. CASE handling # node
      BY <1>3, <3>2 DEF Line, Ends
    <3> QED
      BY <3>1, <3>2
  <2>2. ASSUME NEW k \in DOMAIN events', events'[k].event = "initialized"
        PROVE  \E l \in DOMAIN events' :
                  l > k /\ events'[l] = [of |-> events'[k].of, event |-> "stop"]
    <3>1. k \in DOMAIN events /\ events'[k] = events[k] /\ events[k].event = "initialized"
      BY <1>2, <1>3, <2>2
    <3>2. CASE events[k].of = node
      <4>1. Len(events) + 1 > k
        BY <1>2, <3>1
      <4> QED
        BY <1>3, <3>1, <3>2, <4>1 DEF e
    <3>3. CASE events[k].of # node
      <4>1. PICK l \in DOMAIN events : l > k /\ events[l] = [of |-> events[k].of, event |-> "stop"]
        BY <3>1, <3>3 DEF Line, Ends
      <4> QED
        BY <1>3, <3>1, <4>1
    <3> QED
      BY <3>2, <3>3
  <2> QED
    BY <2>1, <2>2
<1> QED
  BY <1>5, <1>6, <1>7 DEF Line

LEMMA LineAccept ==
    ASSUME Base, Line, NEW i \in Follows, Accept(i)
    PROVE  Line'
<1> DEFINE e == [of |-> i, event |-> "initialized"]
<1>1. /\ events' = Append(events, e) /\ node' = i /\ connected /\ connected'
      /\ follow[i] = "asked" /\ follow' = [follow EXCEPT ![i] = "subscribed"]
      /\ handling' = handling /\ subscriptionId' = subscriptionId /\ torn' = torn
  BY DEF Accept, Arrives, history
<1>2. /\ events \in Seq(Events) /\ Len(events) \in Nat
      /\ e.of = i /\ e.event = "initialized" /\ i # 0
      /\ \A j \in Follows \ {i} : follow'[j] = follow[j]
      /\ follow'[i] = "subscribed"
  BY <1>1 DEF Base, Typed, Follows
<1> HIDE DEF e
<1>3. /\ \A k \in DOMAIN events : k \in DOMAIN events' /\ events'[k] = events[k]
      /\ \A k \in DOMAIN events' : k \in DOMAIN events \/ k = Len(events) + 1
      /\ Len(events) + 1 \in DOMAIN events' /\ events'[Len(events) + 1] = e
      /\ \A k \in DOMAIN events' : ~(k > Len(events) + 1)
  BY <1>1, <1>2
<1>4. StopsIn(events') = StopsIn(events) /\ StopsIn(events)' = StopsIn(events')
  <2>1. StopsIn(events') = StopsIn(events)
    BY <1>2, <1>3 DEF StopsIn
  <2> QED
    BY <2>1 DEF StopsIn
<1>5. Renewing'
  BY <1>1, <1>2 DEF Renewing
<1>6. Latest'
  BY <1>1, <1>3 DEF Latest, e
<1>7. OneFollow'
  BY <1>1, <1>2, <1>4 DEF Line, OneFollow
<1>8. Ends'
  <2> SUFFICES ASSUME ~torn
               PROVE  /\ handling \notin {0, i} =>
                           \E k \in DOMAIN events' :
                              events'[k] = [of |-> handling, event |-> "stop"]
                      /\ \A k \in DOMAIN events' :
                           events'[k].event = "initialized" /\ events'[k].of # i =>
                             \E l \in DOMAIN events' :
                                l > k /\ events'[l] = [of |-> events'[k].of, event |-> "stop"]
    BY <1>1 DEF Ends
  <2>1. node = 0
    BY <1>1 DEF Line, OneFollow
  <2>2. handling # 0 => \E k \in DOMAIN events' :
                           events'[k] = [of |-> handling, event |-> "stop"]
    BY <1>3, <2>1 DEF Line, Ends
  <2>3. ASSUME NEW k \in DOMAIN events', events'[k].event = "initialized", events'[k].of # i
        PROVE  \E l \in DOMAIN events' :
                  l > k /\ events'[l] = [of |-> events'[k].of, event |-> "stop"]
    <3>1. k \in DOMAIN events /\ events'[k] = events[k]
      BY <1>2, <1>3, <2>3
    <3>2. events[k].of # 0
      <4>1. events[k].of \in Follows
        BY <1>2, <3>1, EventsTyped
      <4> QED
        BY <4>1 DEF Follows
    <3>3. PICK l \in DOMAIN events : l > k /\ events[l] = [of |-> events[k].of, event |-> "stop"]
      BY <2>1, <2>3, <3>1, <3>2 DEF Line, Ends
    <3> QED
      BY <1>3, <3>1, <3>3
  <2> QED
    BY <2>2, <2>3
<1> QED
  BY <1>5, <1>6, <1>7, <1>8 DEF Line

LEMMA LineHandled ==
    ASSUME Base, Line, HandleInitialized \/ HandleStop
    PROVE  Line'
<1>1. /\ events \in Seq(Events) /\ Len(events) \in Nat /\ events' = Tail(events)
      /\ events # <<>> /\ Head(events) = events[1]
      /\ connected' = connected /\ node' = node /\ torn' = torn
  BY DEF HandleInitialized, HandleStop, NextIs, link, history, Base, Typed
<1>2. /\ \A k \in DOMAIN events' : /\ k + 1 \in DOMAIN events /\ events'[k] = events[k + 1]
                                   /\ k \in Nat \ {0}
      /\ \A k \in DOMAIN events : /\ k \in Nat
                                  /\ \/ k = 1
                                     \/ k - 1 \in DOMAIN events' /\ events'[k - 1] = events[k]
      /\ 1 \in DOMAIN events
  BY <1>1
<1>3. StopsIn(events)' = StopsIn(events')
  BY DEF StopsIn
<1>4. \A k \in StopsIn(events') : k + 1 \in StopsIn(events)
  BY <1>2 DEF StopsIn
<1>5. ASSUME NEW k \in DOMAIN events', NEW i,
             \E l \in DOMAIN events :
                l > k + 1 /\ events[l] = [of |-> i, event |-> "stop"]
      PROVE  \E l \in DOMAIN events' :
                l > k /\ events'[l] = [of |-> i, event |-> "stop"]
  <2>1. PICK l \in DOMAIN events : l > k + 1 /\ events[l] = [of |-> i, event |-> "stop"]
    BY <1>5
  <2>2. l - 1 \in DOMAIN events' /\ events'[l - 1] = events[l] /\ l - 1 > k
    BY <1>2, <2>1
  <2> QED
    BY <2>1, <2>2
<1>6. ASSUME ~torn
      PROVE  \A k \in DOMAIN events' :
                events'[k].event = "initialized" /\ events'[k].of # node =>
                  \E l \in DOMAIN events' :
                     l > k /\ events'[l] = [of |-> events'[k].of, event |-> "stop"]
  BY <1>2, <1>5, <1>6 DEF Line, Ends
<1>7. CASE HandleInitialized
  <2> DEFINE i == events[1].of
  <2>1. /\ events[1].event = "initialized" /\ subscriptionId' = i /\ handling' = i
        /\ follow' = follow /\ handling = 0
    BY <1>1, <1>7 DEF HandleInitialized, NextIs
  <2>2. 1 \notin StopsIn(events)
    BY <2>1 DEF StopsIn
  <2>3. \A k \in StopsIn(events) : k - 1 \in StopsIn(events')
    BY <1>2, <2>2 DEF StopsIn
  <2>4. Renewing'
    BY <1>1, <1>3, <2>1, <2>3 DEF Line, Renewing
  <2>5. Latest'
    <3> SUFFICES ASSUME node # 0
                 PROVE  \/ /\ i = node
                           /\ \A k \in DOMAIN events' : events'[k].event = "stop"
                        \/ \E k \in DOMAIN events' :
                              /\ events'[k] = [of |-> node, event |-> "initialized"]
                              /\ \A l \in DOMAIN events' : l > k => events'[l].event = "stop"
      BY <1>1, <2>1 DEF Latest
    <3>1. PICK k \in DOMAIN events :
             /\ events[k] = [of |-> node, event |-> "initialized"]
             /\ \A l \in DOMAIN events : l > k => events[l].event = "stop"
      BY <1>2, <2>1 DEF Line, Latest
    <3>2. CASE k = 1
      BY <1>2, <3>1, <3>2
    <3>3. CASE k # 1
      <4>1. k - 1 \in DOMAIN events' /\ events'[k - 1] = events[k]
        BY <1>2, <3>3
      <4>2. \A l \in DOMAIN events' : l > k - 1 => events'[l].event = "stop"
        BY <1>2, <3>1
      <4> QED
        BY <3>1, <4>1, <4>2
    <3> QED
      BY <3>2, <3>3
  <2>6. OneFollow'
    <3>1. StopsIn(events) = {} => StopsIn(events') = {}
      BY <1>4
    <3>2. ~torn => connected
      BY <1>1 DEF Line, OneFollow
    <3>3. ~torn => \A k, l \in StopsIn(events') : k = l
      <4>1. \A k \in StopsIn(events') : k \in Nat
        BY <1>2 DEF StopsIn
      <4>2. ASSUME ~torn, NEW k \in StopsIn(events'), NEW l \in StopsIn(events')
            PROVE  k = l
        <5>1. k + 1 = l + 1
          BY <1>4, <4>2 DEF Line, OneFollow
        <5> QED
          BY <4>1, <5>1
      <4> QED
        BY <4>2
    <3> QED
      BY <1>1, <1>3, <2>1, <3>1, <3>2, <3>3 DEF Line, OneFollow
  <2>7. Ends'
    <3>1. ASSUME ~torn, i # node
          PROVE  \E k \in DOMAIN events' : events'[k] = [of |-> i, event |-> "stop"]
      <4>1. PICK l \in DOMAIN events : l > 1 /\ events[l] = [of |-> i, event |-> "stop"]
        BY <1>2, <2>1, <3>1 DEF Line, Ends
      <4>2. l # 1
        BY <4>1
      <4> QED
        BY <1>2, <4>1, <4>2
    <3> QED
      BY <1>1, <1>6, <2>1, <3>1 DEF Ends
  <2> QED
    BY <2>4, <2>5, <2>6, <2>7 DEF Line
<1>8. CASE HandleStop
  <2>1. PICK i \in Follows, n \in Follows : StopOf(i, n)
    BY <1>8, StopHandled
  <2>2. /\ events[1].event = "stop" /\ handling' = handling /\ handling = 0
        /\ subscriptionId' = subscriptionId /\ follow'[n] = "asked" /\ follow[n] = "none"
    BY <1>8, <2>1 DEF HandleStop, StopOf
  <2>3. \A j \in Follows : follow'[j] = "asked" => j = n \/ follow[j] = "asked"
    <3>1. \A j \in Follows \ {n} : [follow EXCEPT ![n] = "asked"][j] = follow[j]
      BY DEF Base, Typed
    <3> QED
      BY <2>1, <3>1 DEF StopOf, Signaled
  <2>4. 1 \in StopsIn(events)
    BY <1>2, <2>2 DEF StopsIn
  <2>5. Renewing'
    BY <2>2 DEF Renewing
  <2>6. Latest'
    <3> SUFFICES ASSUME node # 0
                 PROVE  \/ /\ subscriptionId = node
                           /\ \A k \in DOMAIN events' : events'[k].event = "stop"
                        \/ \E k \in DOMAIN events' :
                              /\ events'[k] = [of |-> node, event |-> "initialized"]
                              /\ \A l \in DOMAIN events' : l > k => events'[l].event = "stop"
      BY <1>1, <2>2 DEF Latest
    <3>1. CASE subscriptionId = node /\ \A k \in DOMAIN events : events[k].event = "stop"
      BY <1>2, <3>1
    <3>2. ASSUME NEW k \in DOMAIN events,
                 events[k] = [of |-> node, event |-> "initialized"],
                 \A l \in DOMAIN events : l > k => events[l].event = "stop"
          PROVE  \E j \in DOMAIN events' :
                    /\ events'[j] = [of |-> node, event |-> "initialized"]
                    /\ \A l \in DOMAIN events' : l > j => events'[l].event = "stop"
      <4>1. k # 1
        BY <2>2, <3>2
      <4>2. k - 1 \in DOMAIN events' /\ events'[k - 1] = events[k]
        BY <1>2, <4>1
      <4>3. \A l \in DOMAIN events' : l > k - 1 => events'[l].event = "stop"
        BY <1>2, <3>2
      <4> QED
        BY <3>2, <4>2, <4>3
    <3> QED
      BY <3>1, <3>2 DEF Line, Latest
  <2>7. OneFollow'
    <3>1. ASSUME ~torn
          PROVE  StopsIn(events') = {} /\ node = 0 /\ connected
                 /\ \A j \in Follows : follow[j] # "asked"
      <4>1. \A k \in StopsIn(events') : k + 1 = 1 /\ k \in Nat \ {0}
        BY <1>2, <1>4, <2>4, <3>1 DEF Line, OneFollow, StopsIn
      <4>2. StopsIn(events') = {}
        BY <4>1
      <4> QED
        BY <1>1, <2>4, <3>1, <4>2 DEF Line, OneFollow
    <3> QED
      BY <1>1, <1>3, <2>3, <3>1 DEF OneFollow
  <2>8. Ends'
    BY <1>1, <1>6, <2>2 DEF Ends
  <2> QED
    BY <2>5, <2>6, <2>7, <2>8 DEF Line
<1> QED
  BY <1>7, <1>8

LEMMA LineConnection ==
    ASSUME Base, Line, Lose \/ Reconnect
    PROVE  Line'
<1>0. StopsIn(events)' = StopsIn(events')
  BY DEF StopsIn
<1>1. CASE Lose
  <2>1. /\ connected' = FALSE /\ node' = 0 /\ follow' = follow /\ handling' = handling
        /\ subscriptionId' = subscriptionId
    BY <1>1 DEF Lose, refollow
  <2>2. ~torn' => ~torn /\ handling = 0 /\ events' = <<>>
    BY <1>1 DEF Lose
  <2>3. Renewing' /\ Latest'
    BY <2>1 DEF Renewing, Latest
  <2>4. ~torn' => StopsIn(events') = {}
    BY <2>2 DEF StopsIn
  <2>5. OneFollow'
    BY <1>0, <2>1, <2>2, <2>4 DEF Line, OneFollow
  <2>6. Ends'
    BY <2>1, <2>2 DEF Line, Ends
  <2> QED
    BY <2>3, <2>5, <2>6 DEF Line
<1>2. CASE Reconnect
  <2>1. PICK n \in Follows : Again(n)
    BY <1>2, Reconnected
  <2>2. /\ ~connected /\ connected' = TRUE /\ node' = node /\ events' = events
        /\ handling' = handling /\ subscriptionId' = subscriptionId /\ torn' = torn
    BY <1>2 DEF Reconnect, history
  <2>3. /\ follow'[n] = "asked"
        /\ \A j \in Follows : follow'[j] = "asked" => j = n
    BY <2>1 DEF Again
  <2>4. Renewing'
    BY <2>3 DEF Renewing
  <2>5. Latest'
    BY <2>2 DEF Line, Latest
  <2>6. OneFollow'
    <3>1. ~torn => node = 0 /\ events = <<>>
      BY <2>2 DEF Line, OneFollow
    <3>2. events = <<>> => StopsIn(events') = {}
      BY <2>2 DEF StopsIn
    <3> QED
      BY <1>0, <2>2, <2>3, <3>1, <3>2 DEF OneFollow
  <2>7. Ends'
    BY <2>2 DEF Line, Ends
  <2> QED
    BY <2>4, <2>5, <2>6, <2>7 DEF Line
<1> QED
  BY <1>1, <1>2

LEMMA LineNext ==
    ASSUME Base, Header, Line, [Next]_vars
    PROVE  Line'
<1>1. CASE NodeStop \/ \E i \in Follows : Accept(i)
  BY <1>1, LineNodeStop, LineAccept
<1>2. CASE HandleInitialized \/ HandleStop
  BY <1>2, LineHandled
<1>3. CASE Lose \/ Reconnect
  BY <1>3, LineConnection
<1>4. CASE \/ UNCHANGED vars
           \/ NodeEvent \/ HeaderAnswered \/ Recovered \/ Cleanup
           \/ \E i \in Follows : Refuse(i)
           \/ \E c \in Calls : Call(c) \/ Answer(c) \/ Finish(c)
  BY <1>4, QuietSteps, LineQuiet
<1> QED
  BY <1>1, <1>2, <1>3, <1>4 DEF Next

----------------------------------------------------------------------------
(***************************************************************************)
(* The doFollow()s of stops go on until they end.                          *)
(***************************************************************************)
\* i is under way after the step if it was before.
Kept(i) == UnderWay(i)' <=> UnderWay(i)

\* An event of subscription i waits.
Mentioned(line, i) == \E k \in 1..Len(line) : line[k].of = i

LEMMA KeptBySignal ==
    ASSUME Base, NEW i \in Follows, NEW j \in Follows,
           follow[j] \in {"subscribed", "done"}, Signaled(j, follow), resuming = 0,
           j = node, node' = node, events' = events, handling' \in {0, handling},
           handling' = 0 => handling \in {0, j}
    PROVE  Kept(i)
<1>1. resuming' = 0 \/ (resuming' = j /\ follow'[j] = "done" /\ follow[j] # "done")
  BY DEF Signaled
<1>2. /\ i # 0 /\ j # 0
  BY DEF Follows
<1>3. CASE i = j
  <2>1. follow'[i] = follow[i] \/ (follow'[i] = "done" /\ resuming' = i)
    BY <1>3 DEF Signaled
  <2> QED
    BY <1>1, <1>2, <1>3, <2>1 DEF Kept, UnderWay
<1>4. CASE i # j
  <2>1. follow'[i] = follow[i] \/ (follow[i] = "parked" /\ follow'[i] = "resent")
    BY <1>4 DEF Signaled
  <2>2. i \in {node', handling'} <=> i \in {node, handling}
    BY <1>2, <1>4
  <2> QED
    BY <1>1, <1>2, <1>4, <2>1, <2>2 DEF Kept, UnderWay
<1> QED
  BY <1>3, <1>4

LEMMA KeptByNode ==
    ASSUME Base, Header, Line, ~torn', NEW i \in Follows, owner[i] = "stop",
           \/ NodeStop \/ NodeEvent \/ HandleInitialized \/ HeaderAnswered
           \/ \E j \in Follows : Accept(j)
    PROVE  Kept(i)
<1>0. /\ i # 0 /\ events \in Seq(Events) /\ Len(events) \in Nat
      /\ follow[i] # "none"
  BY DEF Base, Typed, Follows, Accepted
<1>1. CASE NodeStop
  <2> DEFINE e == [of |-> node, event |-> "stop"]
  <2>1. /\ events' = Append(events, e) /\ node' = 0 /\ handling' = handling
        /\ follow' = follow /\ resuming' = resuming /\ e.of = node
    BY <1>1 DEF NodeStop, refollow
  <2> HIDE DEF e
  <2>2. Mentioned(events', i) <=> (Mentioned(events, i) \/ i = node)
    <3>1. /\ \A k \in 1..Len(events) : k \in 1..Len(events') /\ events'[k] = events[k]
          /\ \A k \in 1..Len(events') : k \in 1..Len(events) \/ k = Len(events) + 1
          /\ Len(events) + 1 \in 1..Len(events') /\ events'[Len(events) + 1] = e
      BY <1>0, <2>1
    <3> QED
      BY <2>1, <3>1 DEF Mentioned
  <2> QED
    BY <1>0, <2>1, <2>2 DEF Kept, UnderWay, Mentioned
<1>2. CASE NodeEvent
  <2>1. node \in Follows /\ follow[node] \in {"subscribed", "done"}
    BY <1>2 DEF NodeEvent, Base, Typed, Sub, Accepted
  <2>2. /\ Signaled(node, follow) /\ resuming = 0 /\ node' = node /\ events' = events
        /\ handling' = handling /\ handling = 0
    BY <1>2, <2>1, SignalsBase DEF NodeEvent, link, queue
  <2> QED
    BY <2>1, <2>2, KeptBySignal
<1>3. CASE HandleInitialized
  <2>1. /\ handling = 0 /\ events # <<>> /\ handling' = events[1].of /\ events' = Tail(events)
        /\ node' = node /\ follow' = follow /\ resuming' = resuming
    BY <1>0, <1>3 DEF HandleInitialized, NextIs, link
  <2>2. Mentioned(events, i) <=> (i = handling' \/ Mentioned(events', i))
    <3>1. /\ \A k \in 1..Len(events') : k + 1 \in 1..Len(events) /\ events'[k] = events[k + 1]
          /\ \A k \in 1..Len(events) : \/ k = 1
                                       \/ /\ k - 1 \in 1..Len(events')
                                          /\ events'[k - 1] = events[k]
          /\ 1 \in 1..Len(events)
      BY <1>0, <2>1
    <3> QED
      BY <2>1, <3>1 DEF Mentioned
  <2> QED
    BY <1>0, <2>1, <2>2 DEF Kept, UnderWay, Mentioned
<1>4. CASE HeaderAnswered
  <2>1. /\ handling \in Follows /\ follow[handling] \in {"subscribed", "done"}
        /\ resuming = 0 /\ node' = node /\ events' = events /\ handling' = 0
    BY <1>4 DEF HeaderAnswered, Arrives, Header, Base, Typed, Sub, Accepted, link
  <2>2. CASE handling = node
    <3>1. Signaled(handling, follow)
      BY <1>4, <2>1, <2>2, SignalsBase DEF HeaderAnswered
    <3> QED
      BY <2>1, <2>2, <3>1, KeptBySignal
  <2>3. CASE handling # node
    <3>1. follow' = follow /\ resuming' = resuming /\ torn' = torn
      BY <1>4, <2>3 DEF HeaderAnswered, history
    <3>2. PICK k \in DOMAIN events : events[k] = [of |-> handling, event |-> "stop"]
      BY <2>1, <2>3, <3>1 DEF Line, Ends, Follows
    <3>3. Mentioned(events, handling)
      BY <1>0, <3>2 DEF Mentioned
    <3> QED
      BY <1>0, <2>1, <2>3, <3>1, <3>3 DEF Kept, UnderWay, Mentioned
  <2> QED
    BY <2>2, <2>3
<1>5. ASSUME NEW j \in Follows, Accept(j)
      PROVE  Kept(i)
  <2> DEFINE e == [of |-> j, event |-> "initialized"]
  <2>1. /\ events' = Append(events, e) /\ node' = j /\ handling' = handling
        /\ follow[j] = "asked" /\ follow' = [follow EXCEPT ![j] = "subscribed"]
        /\ resuming' = resuming /\ e.of = j /\ torn' = torn
    BY <1>5 DEF Accept, history
  <2> HIDE DEF e
  <2>2. Mentioned(events', i) <=> (Mentioned(events, i) \/ i = j)
    <3>1. /\ \A k \in 1..Len(events) : k \in 1..Len(events') /\ events'[k] = events[k]
          /\ \A k \in 1..Len(events') : k \in 1..Len(events) \/ k = Len(events) + 1
          /\ Len(events) + 1 \in 1..Len(events') /\ events'[Len(events) + 1] = e
      BY <1>0, <2>1
    <3> QED
      BY <2>1, <3>1 DEF Mentioned
  <2>3. node = 0
    BY <2>1 DEF Line, OneFollow
  <2>4. follow \in [Follows -> Stages]
    BY DEF Base, Typed
  <2>5. CASE i = j
    BY <2>1, <2>4, <2>5 DEF Kept, UnderWay
  <2>6. CASE i # j
    <3>1. follow'[i] = follow[i]
      BY <2>1, <2>4, <2>6
    <3> QED
      BY <1>0, <2>1, <2>2, <2>3, <2>6, <3>1 DEF Kept, UnderWay, Mentioned
  <2> QED
    BY <2>5, <2>6
<1> QED
  BY <1>1, <1>2, <1>3, <1>4, <1>5

LEMMA KeptByClient ==
    ASSUME Base, Header, Line, ~torn', NEW i \in Follows, owner[i] = "stop",
           \/ UNCHANGED vars
           \/ Cleanup \/ Lose \/ Reconnect
           \/ \E c \in Calls : Call(c) \/ Answer(c) \/ Finish(c)
           \/ Recovered /\ resuming # i
           \/ \E j \in Follows \ {i} : Refuse(j)
    PROVE  Kept(i)
<1>0. /\ i # 0 /\ follow[i] # "none" /\ follow \in [Follows -> Stages]
  BY DEF Base, Typed, Follows, Accepted
<1>1. CASE \/ UNCHANGED vars \/ Cleanup
           \/ \E c \in Calls : Call(c) \/ Answer(c) \/ Finish(c)
  <2>1. /\ follow' = follow /\ node' = node /\ handling' = handling /\ events' = events
        /\ resuming' = resuming
    BY <1>1 DEF vars, Cleanup, Call, Answer, Finish, link, refollow, queue
  <2> QED
    BY <2>1 DEF Kept, UnderWay
<1>2. CASE Recovered /\ resuming # i
  <2>1. /\ follow' = follow /\ node' = node /\ handling' = handling /\ events' = events
        /\ resuming' = 0
    BY <1>2 DEF Recovered, link, queue
  <2> QED
    BY <1>0, <1>2, <2>1 DEF Kept, UnderWay
<1>3. ASSUME NEW j \in Follows \ {i}, Refuse(j)
      PROVE  Kept(i)
  <2>1. /\ follow'[i] = follow[i] /\ node' = node /\ handling' = handling /\ events' = events
        /\ resuming' = resuming
    BY <1>0, <1>3 DEF Refuse, link, queue
  <2> QED
    BY <2>1 DEF Kept, UnderWay
<1>4. CASE Lose
  <2>1. /\ handling = 0 /\ handling' = 0 /\ events' = <<>> /\ node' = 0 /\ follow' = follow
        /\ resuming' = 0 /\ resuming = 0 /\ follow[i] # "subscribed"
    BY <1>4 DEF Lose, refollow
  <2> QED
    BY <1>0, <2>1 DEF Kept, UnderWay
<1>5. CASE Reconnect
  <2>1. PICK n \in Follows : Again(n)
    BY <1>5, Reconnected
  <2>2. /\ node' = node /\ handling' = handling /\ events' = events /\ resuming' = resuming
    BY <1>5 DEF Reconnect
  <2>3. \/ follow'[i] = follow[i]
        \/ follow[i] \in {"asked", "resent"} /\ follow'[i] = "parked"
    BY <1>0, <2>1 DEF Again
  <2> QED
    BY <2>2, <2>3 DEF Kept, UnderWay
<1> QED
  BY <1>1, <1>2, <1>3, <1>4, <1>5

\* Every step but the handling of a stop; the last two end a recovery.
LEMMA KeptOrEnded ==
    ASSUME Base, Header, Line, ~torn', [Next]_vars, ~HandleStop,
           NEW i \in Follows, owner[i] = "stop"
    PROVE  Kept(i) \/ (Recovered /\ resuming = i) \/ Refuse(i)
BY KeptByNode, KeptByClient DEF Next

\* A stop asks for its own doFollow(), and begins none besides.
LEMMA KeptByStop ==
    ASSUME Base, NEW i \in Follows, NEW n \in Follows, StopOf(i, n), HandleStop,
           NEW j \in Follows, owner[j] = "stop", UnderWay(j)'
    PROVE  UnderWay(j)
<1>0. /\ j # 0 /\ j # n /\ events \in Seq(Events) /\ follow[j] # "none"
  BY DEF Base, Typed, Follows, Accepted, StopOf
<1>1. /\ handling = 0 /\ handling' = 0 /\ node' = node /\ events' = Tail(events)
      /\ events # <<>> /\ events[1].of = i /\ follow[i] \in {"subscribed", "done"}
  BY DEF HandleStop, StopOf, link
<1>2. [follow EXCEPT ![n] = "asked"][j] = follow[j]
  BY <1>0 DEF Base, Typed
<1>3. /\ \/ follow'[j] = follow[j]
         \/ follow[j] = "parked" /\ follow'[j] = "resent"
         \/ j = i /\ follow'[j] = "done" /\ resuming' = i
      /\ resuming' = resuming \/ (resuming' = i /\ follow[i] # "done")
  BY <1>2 DEF StopOf, Signaled
<1>4. Mentioned(events', j) => Mentioned(events, j)
  <2>1. \A k \in 1..Len(events') : k + 1 \in 1..Len(events) /\ events'[k] = events[k + 1]
    BY <1>0, <1>1
  <2> QED
    BY <2>1 DEF Mentioned
<1>5. Mentioned(events, i)
  <2>1. 1 \in 1..Len(events)
    BY <1>0, <1>1
  <2> QED
    BY <1>1, <2>1 DEF Mentioned
<1> QED
  BY <1>0, <1>1, <1>3, <1>4, <1>5 DEF UnderWay, Mentioned

----------------------------------------------------------------------------
(***************************************************************************)
(* The operations.                                                         *)
(***************************************************************************)
\* What a step makes of an operation.
Moved(c) ==
    \/ call'[c] = call[c]
    \/ call'[c].at \in {"done", "failed"}
    \/ subscriptionId # 0 /\ call'[c].at \in {"queued", "parked"}
    \/ subscriptionId # 0 /\ call'[c].at \in {"sent", "held"} /\ call'[c].on = subscriptionId
    \/ /\ call'[c].at = "sent" /\ call[c].at = "held"
       /\ call'[c].on = call[c].on
    \/ /\ call'[c].at = "started" /\ call[c].at = "sent"
       /\ call'[c].on = call[c].on /\ call[c].on = node /\ node' = node
    \/ /\ subscriptionId # 0 /\ call'[c].at = "waiting"
       /\ recovering # 0 /\ call'[c].on = recovering /\ outcome'[recovering] = "pending"
       /\ recovering' = recovering

LEMMA MovedBySettling ==
    ASSUME Base, Asked, NEW calls \in [Calls -> Requests], NEW line,
           Continue(calls, line, outcome'), recovering' = recovering,
           NEW c \in Calls,
           \/ calls[c] = call[c]
           \/ calls[c].at \in {"done", "failed"}
           \/ calls[c].at = "queued" /\ subscriptionId # 0
           \/ /\ calls[c].at \in {"sent", "held"} /\ calls[c].on = subscriptionId
              /\ subscriptionId # 0
    PROVE  Moved(c)
<1>1. \/ call'[c] = calls[c] \/ call'[c].at = "failed"
      \/ calls[c].at = "queued" /\ Performed(call'[c], outcome')
  BY ContinuePerforms DEF Base
<1>2. calls[c].at = "queued" => subscriptionId # 0
  BY DEF Asked
<1> QED
  BY <1>1, <1>2 DEF Moved, Performed

\* The .then() of a stop leaves no operation behind that has an operationId.
LEMMA RecoveredCalls ==
    ASSUME Base, Asked, Recovered, owner[resuming] = "stop"
    PROVE  /\ cleanups' = cleanups + 1 /\ recovering' = recovering
           /\ outcome' = IF recovering # 0 /\ outcome[recovering] = "pending"
                         THEN [outcome EXCEPT ![recovering] = "resolved"] ELSE outcome
           /\ \A c \in Calls :
                 /\ Moved(c)
                 /\ call'[c].at # "started"
                 /\ call'[c].at = "waiting" =>
                       \/ recovering # 0 /\ outcome'[recovering] = "pending"
                       \/ call[c].at = "waiting" /\ outcome'[call[c].on] # "resolved"
<1> DEFINE resolved == IF recovering # 0 /\ outcome[recovering] = "pending"
                       THEN [outcome EXCEPT ![recovering] = "resolved"]
                       ELSE outcome
           started  == CallsAt({"started"})
           calls    == [c \in Calls |->
                          IF c \in started THEN At("queued", 0)
                          ELSE IF call[c].at = "waiting"
                                  /\ resolved[call[c].on] = "resolved"
                          THEN Request ELSE call[c]]
<1>1. /\ outcome' = resolved /\ cleanups' = cleanups + 1 /\ recovering' = recovering
      /\ Continue(calls, Behind(started), resolved)
  BY DEF Recovered
<1>2. /\ call \in [Calls -> Requests] /\ subscriptionId \in Sub /\ 0 \in Sub
  BY DEF Base, Typed, Requests, Sub
<1>3. /\ Request \in Requests /\ Request.at \in {"sent", "held"}
      /\ Request.on = subscriptionId
      /\ At("queued", 0) \in Requests /\ At("queued", 0).at = "queued"
  <2>1. Request = [at |-> "sent", on |-> subscriptionId]
          \/ Request = [at |-> "held", on |-> subscriptionId]
    BY DEF Request, At
  <2> QED
    BY <1>2, <2>1 DEF At, Requests, Places
<1>4. calls \in [Calls -> Requests]
  BY <1>2, <1>3
<1>5. \A c \in Calls :
         \/ call[c].at = "started" /\ calls[c].at = "queued"
         \/ /\ call[c].at = "waiting" /\ calls[c].at \in {"sent", "held"}
            /\ calls[c].on = subscriptionId
         \/ /\ calls[c] = call[c] /\ call[c].at # "started"
            /\ call[c].at = "waiting" => resolved[call[c].on] # "resolved"
  BY <1>3 DEF CallsAt
<1> HIDE DEF calls, resolved, started
<1> SUFFICES ASSUME NEW c \in Calls
             PROVE  /\ Moved(c)
                    /\ call'[c].at # "started"
                    /\ call'[c].at = "waiting" =>
                          \/ recovering # 0 /\ outcome'[recovering] = "pending"
                          \/ call[c].at = "waiting" /\ outcome'[call[c].on] # "resolved"
  BY <1>1 DEF resolved
<1>6. Moved(c)
  <2>1. \/ calls[c] = call[c]
        \/ calls[c].at = "queued" /\ subscriptionId # 0
        \/ calls[c].at \in {"sent", "held"} /\ calls[c].on = subscriptionId
           /\ subscriptionId # 0
    BY <1>5 DEF Asked
  <2> QED
    BY <1>1, <1>4, <2>1, MovedBySettling
<1>7. \/ call'[c] = calls[c] \/ call'[c].at = "failed"
      \/ Performed(call'[c], resolved)
  BY <1>1, <1>4, ContinuePerforms DEF Base
<1>8. call'[c].at # "started"
  BY <1>5, <1>7 DEF Performed
<1>9. call'[c].at = "waiting" =>
         \/ recovering # 0 /\ outcome'[recovering] = "pending"
         \/ call[c].at = "waiting" /\ outcome'[call[c].on] # "resolved"
  BY <1>1, <1>5, <1>7 DEF Performed
<1> QED
  BY <1>6, <1>8, <1>9

\* The .catch() of one fails them, and what waits for the recovery.
LEMMA RefuseCalls ==
    ASSUME Base, Asked, NEW i \in Follows, Refuse(i), owner[i] = "stop"
    PROVE  /\ cleanups' = cleanups + 1 /\ recovering' = recovering
           /\ outcome' = IF recovering # 0 /\ outcome[recovering] = "pending"
                         THEN [outcome EXCEPT ![recovering] = "rejected"] ELSE outcome
           /\ \A c \in Calls :
                 /\ Moved(c)
                 /\ call'[c].at # "started"
                 /\ call'[c].at = "waiting" =>
                       \/ recovering # 0 /\ outcome'[recovering] = "pending"
                       \/ call[c].at = "waiting" /\ outcome'[call[c].on] # "rejected"
<1> DEFINE rejected == IF recovering # 0 /\ outcome[recovering] = "pending"
                       THEN [outcome EXCEPT ![recovering] = "rejected"]
                       ELSE outcome
           failing  == {c \in Calls : \/ call[c].at = "started"
                                      \/ /\ call[c].at = "waiting"
                                         /\ rejected[call[c].on] = "rejected"}
           calls    == [c \in Calls |-> IF c \in failing THEN At("failed", 0) ELSE call[c]]
<1>1. /\ outcome' = rejected /\ cleanups' = cleanups + 1 /\ recovering' = recovering
      /\ Continue(calls, Without(failing), rejected)
  BY DEF Refuse
<1>2. call \in [Calls -> Requests] /\ 0 \in Sub
  BY DEF Base, Typed, Requests, Sub
<1>3. At("failed", 0) \in Requests /\ At("failed", 0).at = "failed"
  BY <1>2 DEF At, Requests, Places
<1>4. calls \in [Calls -> Requests]
  BY <1>2, <1>3
<1>5. \A c \in Calls :
         \/ calls[c].at = "failed"
         \/ /\ calls[c] = call[c] /\ call[c].at # "started"
            /\ call[c].at = "waiting" => rejected[call[c].on] # "rejected"
  BY <1>3
<1> HIDE DEF calls, rejected, failing
<1> SUFFICES ASSUME NEW c \in Calls
             PROVE  /\ Moved(c)
                    /\ call'[c].at # "started"
                    /\ call'[c].at = "waiting" =>
                          \/ recovering # 0 /\ outcome'[recovering] = "pending"
                          \/ call[c].at = "waiting" /\ outcome'[call[c].on] # "rejected"
  BY <1>1 DEF rejected
<1>6. Moved(c)
  BY <1>1, <1>4, <1>5, MovedBySettling
<1>7. \/ call'[c] = calls[c] \/ call'[c].at = "failed"
      \/ Performed(call'[c], rejected)
  BY <1>1, <1>4, ContinuePerforms DEF Base
<1>8. call'[c].at # "started"
  BY <1>5, <1>7 DEF Performed
<1>9. call'[c].at = "waiting" =>
         \/ recovering # 0 /\ outcome'[recovering] = "pending"
         \/ call[c].at = "waiting" /\ outcome'[call[c].on] # "rejected"
  BY <1>1, <1>5, <1>7 DEF Performed
<1> QED
  BY <1>6, <1>8, <1>9

LEMMA MovedByOperation ==
    ASSUME Base, Asked, NEW d \in Calls, Call(d) \/ Answer(d) \/ Finish(d),
           NEW c \in Calls
    PROVE  Moved(c)
<1>1. /\ call \in [Calls -> Requests] /\ 0 \in Sub
      /\ recovering' = recovering /\ outcome' = outcome /\ node' = node
  BY DEF Base, Typed, Requests, Sub, Call, Answer, Finish, link, rescue
<1>2. /\ At("queued", 0) \in Requests /\ At("done", 0) \in Requests
      /\ At("queued", 0).at = "queued" /\ At("done", 0).at = "done"
  BY <1>1 DEF At, Requests, Places
<1>3. CASE Call(d)
  <2>1. /\ Attempt(outcome) \in Requests /\ Performed(Attempt(outcome), outcome)
        /\ call' = [call EXCEPT ![d] = Attempt(outcome)] /\ subscriptionId # 0
    BY <1>3, AttemptPerforms DEF Call, Base
  <2>2. call'[c] = call[c] \/ Performed(call'[c], outcome)
    BY <1>1, <2>1
  <2> QED
    BY <1>1, <2>1, <2>2 DEF Moved, Performed
<1>4. CASE Answer(d)
  <2>1. CASE call[d].on = node
    <3>1. call' = [call EXCEPT ![d].at = "started"] /\ call[d].at = "sent"
      BY <1>4, <2>1 DEF Answer
    <3>2. CASE c = d
      <4>1. call'[d] = [call[d] EXCEPT !.at = "started"]
        BY <1>1, <3>1
      <4>2. call'[d].at = "started" /\ call'[d].on = call[d].on
        BY <1>1, <4>1 DEF Requests
      <4> QED
        BY <1>1, <2>1, <3>1, <3>2, <4>2 DEF Moved
    <3>3. CASE c # d
      BY <1>1, <3>1, <3>3 DEF Moved
    <3> QED
      BY <3>2, <3>3
  <2>2. CASE call[d].on # node
    <3> DEFINE calls == [call EXCEPT ![d] = At("queued", 0)]
    <3>1. Continue(calls, Behind({d}), outcome') /\ call[d].at = "sent"
      BY <1>1, <1>4, <2>2 DEF Answer
    <3>2. calls \in [Calls -> Requests]
      BY <1>1, <1>2
    <3>3. calls[c] = call[c] \/ (calls[c].at = "queued" /\ subscriptionId # 0)
      BY <1>1, <1>2, <3>1 DEF Asked
    <3> HIDE DEF calls
    <3> QED
      BY <1>1, <3>1, <3>2, <3>3, MovedBySettling
  <2> QED
    BY <2>1, <2>2
<1>5. CASE Finish(d)
  <2> DEFINE calls == [call EXCEPT ![d] = At("done", 0)]
  <2>1. Continue(calls, Without({d}), outcome')
    BY <1>1, <1>5 DEF Finish
  <2>2. calls \in [Calls -> Requests]
    BY <1>1, <1>2
  <2>3. calls[c] = call[c] \/ calls[c].at = "done"
    BY <1>1, <1>2
  <2> HIDE DEF calls
  <2> QED
    BY <1>1, <2>1, <2>2, <2>3, MovedBySettling
<1> QED
  BY <1>3, <1>4, <1>5

LEMMA MovedNext ==
    ASSUME Base, Header, Asked, [Next]_vars, NEW c \in Calls
    PROVE  Moved(c)
<1>1. ASSUME NEW i \in Follows, NEW asked, Signaled(i, asked)
      PROVE  Moved(c)
  <2>1. \/ call'[c] = call[c]
        \/ /\ call[c].at = "parked" /\ call'[c].at = "sent"
           /\ call'[c].on = subscriptionId
    BY <1>1 DEF Signaled
  <2> QED
    BY <2>1 DEF Moved, Asked
<1>2. CASE NodeEvent \/ HeaderAnswered
  <2>1. CASE NodeEvent
    <3>1. node \in Follows /\ follow[node] \in {"subscribed", "done"}
      BY <2>1 DEF NodeEvent, Base, Typed, Sub, Accepted
    <3> QED
      BY <1>1, <2>1, <3>1, SignalsBase DEF NodeEvent
  <2>2. CASE HeaderAnswered
    <3>1. handling \in Follows /\ follow[handling] \in {"subscribed", "done"}
      BY <2>2 DEF HeaderAnswered, Header, Base, Typed, Sub, Accepted
    <3>2. CASE handling = node
      BY <1>1, <2>2, <3>1, <3>2, SignalsBase DEF HeaderAnswered
    <3>3. CASE handling # node
      BY <2>2, <3>3 DEF HeaderAnswered, Moved
    <3> QED
      BY <3>2, <3>3
  <2> QED
    BY <1>2, <2>1, <2>2
<1>3. CASE HandleStop
  BY <1>1, <1>3, StopHandled DEF StopOf
<1>4. CASE Recovered
  <2>1. resuming \in Follows
    BY <1>4 DEF Recovered, Base, Typed, Sub
  <2>2. CASE owner[resuming] = "client"
    BY <1>4, <2>2 DEF Recovered, ops, Moved
  <2>3. CASE owner[resuming] = "stop"
    BY <1>4, <2>3, RecoveredCalls
  <2> QED
    BY <2>1, <2>2, <2>3 DEF Base, Typed
<1>5. ASSUME NEW i \in Follows, Refuse(i)
      PROVE  Moved(c)
  <2>1. CASE owner[i] = "client"
    BY <1>5, <2>1 DEF Refuse, ops, Moved
  <2>2. CASE owner[i] = "stop"
    BY <1>5, <2>2, RefuseCalls
  <2> QED
    BY <2>1, <2>2 DEF Base, Typed
<1>6. CASE \E d \in Calls : Call(d) \/ Answer(d) \/ Finish(d)
  BY <1>6, MovedByOperation
<1>7. CASE Reconnect
  <2>1. \/ call[c].at = "sent" /\ call'[c].at = "parked"
        \/ call[c].at = "held" /\ call'[c].at = "sent" /\ call'[c].on = call[c].on
        \/ call'[c] = call[c]
    BY <1>7, Reconnected DEF Again
  <2> QED
    BY <2>1 DEF Moved, Asked
<1>8. CASE UNCHANGED vars \/ NodeStop \/ HandleInitialized \/ Cleanup \/ Lose
           \/ \E i \in Follows : Accept(i)
  BY <1>8 DEF vars, NodeStop, HandleInitialized, Cleanup, Lose, Accept, ops, Moved
<1> QED
  BY <1>2, <1>3, <1>4, <1>5, <1>6, <1>7, <1>8 DEF Next

LEMMA AskedNext ==
    ASSUME Base, Header, Asked, [Next]_vars
    PROVE  Asked'
<1>1. subscriptionId # 0 => subscriptionId' # 0
  <2>1. CASE HandleInitialized
    <3>1. events # <<>> /\ events \in Seq(Events) /\ subscriptionId' = Head(events).of
      BY <2>1 DEF HandleInitialized, NextIs, Base, Typed
    <3>2. Head(events) \in Events
      BY <3>1
    <3> QED
      BY <3>1, <3>2 DEF Events, Follows
  <2>2. CASE UNCHANGED vars \/ NodeStop \/ NodeEvent \/ HeaderAnswered \/ HandleStop
             \/ Recovered \/ Cleanup \/ Lose \/ Reconnect
             \/ (\E i \in Follows : Accept(i) \/ Refuse(i))
             \/ \E c \in Calls : Call(c) \/ Answer(c) \/ Finish(c)
    <3>1. subscriptionId' = subscriptionId
      BY <2>2 DEF vars, NodeStop, NodeEvent, HeaderAnswered, HandleStop, Recovered,
                  Cleanup, Lose, Reconnect, Accept, Refuse, Call, Answer, Finish, refollow
    <3> QED
      BY <3>1
  <2> QED
    BY <2>1, <2>2 DEF Next
<1> SUFFICES ASSUME NEW c \in Calls
             PROVE  /\ call'[c].at \in {"sent", "held", "started"} => call'[c].on # 0
                    /\ call'[c].at \notin {"idle", "done", "failed"} => subscriptionId' # 0
  BY DEF Asked
<1>2. Moved(c)
  BY MovedNext
<1>3. /\ call[c].at \in {"sent", "held", "started"} => call[c].on # 0
      /\ call[c].at \notin {"idle", "done", "failed"} => subscriptionId # 0
  BY DEF Asked
<1> QED
  BY <1>1, <1>2, <1>3 DEF Moved

LEMMA OperationsNext ==
    ASSUME Base, Header, Line, Asked, OperationsRecovered, [Next]_vars
    PROVE  OperationsRecovered'
<1> SUFFICES ASSUME ~torn', NEW c \in Calls, call'[c].at = "started"
             PROVE  \/ call'[c].on = node'
                    \/ \E k \in 1..Len(events') : events'[k].event = "stop"
                    \/ \E i \in Follows : owner'[i] = "stop" /\ UnderWay(i)'
  BY DEF OperationsRecovered, CallsAt
<1>0. events \in Seq(Events) /\ Len(events) \in Nat
  BY DEF Base, Typed
<1>1. CASE HandleStop
  <2>1. PICK i \in Follows, n \in Follows : StopOf(i, n)
    BY <1>1, StopHandled
  <2>2. owner' = [owner EXCEPT ![n] = "stop"] /\ follow'[n] = "asked"
    BY <2>1 DEF StopOf
  <2>3. owner'[n] = "stop" /\ UnderWay(n)'
    BY <2>2 DEF Base, Typed, UnderWay
  <2> QED
    BY <2>3
<1>2. CASE call'[c] # call[c]
  BY <1>2, MovedNext DEF Moved
<1>3. ASSUME call'[c] = call[c], ~HandleStop
      PROVE  \/ call'[c].on = node'
             \/ \E k \in 1..Len(events') : events'[k].event = "stop"
             \/ \E i \in Follows : owner'[i] = "stop" /\ UnderWay(i)'
  <2>1. c \in CallsAt({"started"}) /\ call[c].on # 0
    BY <1>3 DEF CallsAt, Asked
  <2>2. ~Lose /\ ~torn
    <3>1. ~Lose
      BY <2>1 DEF Lose
    <3>2. torn' = torn
      BY <1>3, <3>1 DEF Next, vars, NodeStop, NodeEvent, HandleInitialized, HeaderAnswered,
             Recovered, Cleanup, Reconnect, Accept, Refuse, Call, Answer, Finish, history
    <3> QED
      BY <3>1, <3>2
  <2>3. owner' = owner
    BY <1>3, <2>2 DEF Next, vars, NodeStop, NodeEvent, HandleInitialized, HeaderAnswered,
             Recovered, Cleanup, Reconnect, Accept, Refuse, Call, Answer, Finish, refollow
  <2>4. CASE call[c].on = node
    <3>1. CASE NodeStop
      <4>1. /\ events' = Append(events, [of |-> node, event |-> "stop"])
        BY <3>1 DEF NodeStop
      <4>2. /\ Len(events) + 1 \in 1..Len(events')
            /\ events'[Len(events) + 1].event = "stop"
        BY <1>0, <4>1
      <4> QED
        BY <4>2
    <3>2. CASE \E i \in Follows : Accept(i)
      <4>1. node = 0
        BY <2>2, <3>2 DEF Accept, Line, OneFollow
      <4> QED
        BY <2>1, <2>4, <4>1
    <3>3. CASE ~NodeStop /\ ~\E i \in Follows : Accept(i)
      <4>1. node' = node
        BY <1>3, <2>2, <3>3 DEF Next, vars, NodeEvent, HandleInitialized, HeaderAnswered,
             Recovered, Cleanup, Reconnect, Refuse, Call, Answer, Finish, link
      <4> QED
        BY <1>3, <2>4, <4>1
    <3> QED
      BY <3>1, <3>2, <3>3
  <2>5. ASSUME NEW k \in 1..Len(events), events[k].event = "stop"
        PROVE  \E l \in 1..Len(events') : events'[l].event = "stop"
    <3>1. CASE HandleInitialized
      <4>1. events # <<>> /\ events[1].event = "initialized" /\ events' = Tail(events)
        BY <1>0, <3>1 DEF HandleInitialized, NextIs
      <4>2. k # 1
        BY <2>5, <4>1
      <4>3. k - 1 \in 1..Len(events') /\ events'[k - 1] = events[k]
        BY <1>0, <4>1, <4>2
      <4> QED
        BY <2>5, <4>3
    <3>2. CASE NodeStop \/ \E i \in Follows : Accept(i)
      <4>1. PICK e : events' = Append(events, e)
        BY <3>2 DEF NodeStop, Accept
      <4>2. k \in 1..Len(events') /\ events'[k] = events[k]
        BY <1>0, <4>1
      <4> QED
        BY <2>5, <4>2
    <3>3. CASE ~HandleInitialized /\ ~NodeStop /\ ~\E i \in Follows : Accept(i)
      <4>1. events' = events
        BY <1>3, <2>2, <3>3 DEF Next, vars, NodeEvent, HeaderAnswered, queue,
             Recovered, Cleanup, Reconnect, Refuse, Call, Answer, Finish
      <4> QED
        BY <2>5, <4>1
    <3> QED
      BY <3>1, <3>2, <3>3
  <2>6. ASSUME NEW i \in Follows, owner[i] = "stop", UnderWay(i)
        PROVE  UnderWay(i)'
    <3>1. Kept(i) \/ (Recovered /\ resuming = i) \/ Refuse(i)
      BY <1>3, <2>6, KeptOrEnded
    <3>2. ~(Recovered /\ resuming = i)
      BY <2>6, RecoveredCalls
    <3>3. ~Refuse(i)
      BY <2>6, RefuseCalls
    <3> QED
      BY <2>6, <3>1, <3>2, <3>3 DEF Kept
  <2> QED
    BY <2>1, <2>2, <2>3, <2>4, <2>5, <2>6 DEF OperationsRecovered
<1> QED
  BY <1>1, <1>2, <1>3

----------------------------------------------------------------------------
(***************************************************************************)
(* #recovering.                                                            *)
(***************************************************************************)
LEMMA RecoveringByStop ==
    ASSUME Base, Header, Asked, Recovering, HandleStop
    PROVE  Recovering'
<1> SUFFICES ASSUME Calm'
             PROVE  Recovering'
  BY DEF Recovering
<1>1. PICK i \in Follows, n \in Follows : StopOf(i, n)
  BY StopHandled
<1>2. Calm /\ recovering = 0 /\ cleanups' = cleanups
  BY DEF HandleStop, Calm
<1>3. /\ cleanups = 0
      /\ \A j \in Follows : ~(owner[j] = "stop" /\ UnderWay(j))
      /\ \A c \in Calls : call[c].at # "waiting"
  BY <1>2 DEF Recovering, Follows
<1>4. /\ recovering' = n /\ outcome' = [outcome EXCEPT ![n] = "pending"]
      /\ owner' = [owner EXCEPT ![n] = "stop"] /\ follow'[n] = "asked" /\ n # 0
  BY <1>1 DEF StopOf, Follows
<1>5. outcome'[n] = "pending" /\ owner'[n] = "stop" /\ UnderWay(n)'
  BY <1>4 DEF Base, Typed, UnderWay
<1>6. \A j \in Follows : owner'[j] = "stop" /\ UnderWay(j)' => j = n
  <2> SUFFICES ASSUME NEW j \in Follows, owner'[j] = "stop", UnderWay(j)', j # n
               PROVE  FALSE
    OBVIOUS
  <2>1. owner[j] = "stop"
    BY <1>4 DEF Base, Typed
  <2> QED
    BY <1>1, <1>3, <2>1, KeptByStop
<1>7. \A c \in Calls : call'[c].at # "waiting"
  <2> SUFFICES ASSUME NEW c \in Calls
               PROVE  call'[c].at # "waiting"
    OBVIOUS
  <2>1. call'[c] = call[c] \/ call'[c].at = "sent"
    BY <1>1 DEF StopOf, Signaled
  <2> QED
    BY <1>3, <2>1
<1> QED
  BY <1>2, <1>3, <1>4, <1>5, <1>6, <1>7 DEF Recovering

\* The end of the doFollow() of a stop: j is the recovery, and nothing waits.
LEMMA RecoveringByEnd ==
    ASSUME Base, Header, Line, Asked, Recovering, NEW j \in Follows, owner[j] = "stop",
           (Recovered /\ resuming = j) \/ Refuse(j)
    PROVE  Recovering'
<1> SUFFICES ASSUME Calm'
             PROVE  Recovering'
  BY DEF Recovering
<1>1. /\ Calm /\ owner' = owner /\ node' = node /\ events' = events /\ handling' = handling
  BY DEF Recovered, Refuse, history, Calm, link, queue
<1>2. UnderWay(j) /\ j # 0
  BY DEF Recovered, Refuse, UnderWay, Follows
<1>3. recovering = j /\ outcome[j] = "pending" /\ cleanups = 0
  BY <1>1, <1>2 DEF Recovering
<1>4. /\ recovering' = j /\ cleanups' = 1
      /\ outcome'[j] \in {"resolved", "rejected"}
      /\ \A c \in Calls : call'[c].at = "waiting" => /\ call[c].at = "waiting"
                                                    /\ outcome'[call[c].on] # outcome'[j]
  <2>1. CASE Recovered /\ resuming = j
    <3>1. outcome' = [outcome EXCEPT ![j] = "resolved"]
      BY <1>2, <1>3, <2>1, RecoveredCalls
    <3>2. outcome'[j] = "resolved"
      BY <3>1 DEF Base, Typed
    <3> QED
      BY <1>3, <2>1, <3>2, RecoveredCalls
  <2>2. CASE Refuse(j)
    <3>1. outcome' = [outcome EXCEPT ![j] = "rejected"]
      BY <1>2, <1>3, <2>2, RefuseCalls
    <3>2. outcome'[j] = "rejected"
      BY <3>1 DEF Base, Typed
    <3> QED
      BY <1>3, <2>2, <3>2, RefuseCalls
  <2> QED
    BY <2>1, <2>2
<1>5. \A c \in Calls : call'[c].at # "waiting"
  BY <1>1, <1>3, <1>4 DEF Recovering
<1>6. \A i \in Follows : ~(owner'[i] = "stop" /\ UnderWay(i)')
  <2> SUFFICES ASSUME NEW i \in Follows, owner[i] = "stop", UnderWay(i)'
               PROVE  FALSE
    BY <1>1
  <2>1. CASE Recovered /\ resuming = j
    <3>1. follow' = follow /\ resuming' = 0 /\ follow[j] = "done" /\ i # 0
      BY <2>1, <1>2 DEF Recovered, Base, Accepted, Follows
    <3>2. UnderWay(i)
      BY <1>1, <3>1 DEF UnderWay
    <3>3. i = j
      BY <1>1, <1>3, <3>2 DEF Recovering
    <3> QED
      BY <3>1, <3>3 DEF UnderWay
  <2>2. CASE Refuse(j)
    <3>1. /\ follow' = [follow EXCEPT ![j] = "failed"] /\ resuming' = resuming
          /\ follow[j] = "resent"
      BY <2>2 DEF Refuse
    <3>2. follow'[j] = "failed" /\ (i # j => follow'[i] = follow[i])
      BY <3>1 DEF Base, Typed
    <3>3. resuming # j
      BY <1>2, <3>1 DEF Base, Accepted
    <3>4. i # j => UnderWay(i)
      BY <1>1, <3>1, <3>2 DEF UnderWay
    <3>5. i = j
      BY <1>1, <1>3, <3>4 DEF Recovering
    <3> QED
      BY <3>1, <3>2, <3>3, <3>5 DEF UnderWay
  <2> QED
    BY <2>1, <2>2
<1> QED
  BY <1>2, <1>4, <1>5, <1>6 DEF Recovering

\* Every other step leaves the recovery as it is, but for its timer.
LEMMA RecoveringKept ==
    ASSUME Base, Header, Line, Asked, Recovering, [Next]_vars, ~HandleStop,
           ~\E j \in Follows : owner[j] = "stop" /\ ((Recovered /\ resuming = j) \/ Refuse(j))
    PROVE  Recovering'
<1> SUFFICES ASSUME Calm'
             PROVE  Recovering'
  BY DEF Recovering
<1>1. owner' = owner
  BY DEF Next, vars, NodeStop, NodeEvent, HandleInitialized, HeaderAnswered, Lose,
         Recovered, Cleanup, Reconnect, Accept, Refuse, Call, Answer, Finish, refollow
<1>2. Calm
  <2>1. CASE Lose
    BY <2>1 DEF Lose, Calm
  <2>2. CASE ~Lose
    <3>1. torn' = torn /\ overtaken' = overtaken
      BY <2>2 DEF Next, vars, NodeStop, NodeEvent, HandleInitialized, HeaderAnswered,
         Recovered, Cleanup, Reconnect, Accept, Refuse, Call, Answer, Finish, history
    <3> QED
      BY <3>1 DEF Calm
  <2> QED
    BY <2>1, <2>2
<1>3. \A i \in Follows : owner[i] = "stop" => (UnderWay(i)' <=> UnderWay(i))
  BY KeptOrEnded DEF Kept, Calm
<1>4. \/ UNCHANGED rescue
      \/ Cleanup
  <2>1. CASE Recovered
    <3>1. resuming \in Follows
      BY <2>1 DEF Recovered, Base, Typed, Sub
    <3>2. owner[resuming] = "client"
      BY <2>1, <3>1 DEF Base, Typed
    <3> QED
      BY <2>1, <3>2 DEF Recovered
  <2>2. CASE \E i \in Follows : Refuse(i)
    <3>1. PICK i \in Follows : Refuse(i)
      BY <2>2
    <3>2. owner[i] = "client"
      BY <3>1 DEF Base, Typed
    <3> QED
      BY <3>1, <3>2 DEF Refuse
  <2>3. CASE ~Recovered /\ ~\E i \in Follows : Refuse(i)
    BY <2>3 DEF Next, vars, NodeStop, NodeEvent, HandleInitialized, HeaderAnswered, Lose,
         Reconnect, Accept, Call, Answer, Finish
  <2> QED
    BY <2>1, <2>2, <2>3
<1>5. CASE UNCHANGED rescue
  <2>1. recovering' = recovering /\ outcome' = outcome /\ cleanups' = cleanups
    BY <1>5 DEF rescue
  <2>2. \A c \in Calls : call'[c].at = "waiting" =>
           recovering # 0 /\ call'[c].on = recovering /\ outcome[recovering] = "pending"
    <3> SUFFICES ASSUME NEW c \in Calls, call'[c].at = "waiting"
                 PROVE  /\ recovering # 0 /\ call'[c].on = recovering
                        /\ outcome[recovering] = "pending"
      OBVIOUS
    <3>1. Moved(c)
      BY MovedNext
    <3> QED
      BY <1>2, <2>1, <3>1 DEF Moved, Recovering
  <2>3. recovering # 0 => recovering \in Follows
    BY DEF Base, Typed, Sub
  <2> QED
    BY <1>1, <1>2, <1>3, <2>1, <2>2, <2>3 DEF Recovering
<1>6. CASE Cleanup
  <2>1. /\ recovering' = 0 /\ outcome' = outcome /\ cleanups > 0
        /\ cleanups' = cleanups - 1 /\ call' = call
    BY <1>6 DEF Cleanup, ops
  <2>2. cleanups \in Nat /\ cleanups <= 1
    BY <1>2 DEF Recovering, Base, Typed
  <2>3. cleanups' = 0 /\ cleanups # 0
    BY <2>1, <2>2
  <2>4. \A i \in Follows : ~(owner[i] = "stop" /\ UnderWay(i))
    BY <1>2, <2>3 DEF Recovering
  <2>5. ~(recovering # 0 /\ outcome[recovering] = "pending")
    BY <1>2, <2>4 DEF Recovering, Base, Typed, Sub
  <2>6. \A c \in Calls : call'[c].at # "waiting"
    BY <1>2, <2>1, <2>5 DEF Recovering
  <2>7. \A i \in Follows : ~(owner'[i] = "stop" /\ UnderWay(i)')
    BY <1>1, <1>3, <2>4
  <2>8. cleanups' <= 1
    BY <2>3
  <2> QED
    BY <2>1, <2>3, <2>6, <2>7, <2>8 DEF Recovering
<1> QED
  BY <1>4, <1>5, <1>6

LEMMA RecoveringNext ==
    ASSUME Base, Header, Line, Asked, Recovering, [Next]_vars
    PROVE  Recovering'
BY RecoveringByStop, RecoveringByEnd, RecoveringKept

LEMMA FollowInit == Init => FollowInv
<1> SUFFICES ASSUME Init
             PROVE  FollowInv
  OBVIOUS
<1> USE DEF Init
<1>1. 1 \in Follows /\ 0 \notin Follows
  BY BoundsAssumption DEF Follows
<1>2. \A i \in Follows : follow[i] = IF i = 1 THEN "asked" ELSE "none"
  OBVIOUS
<1>3. StopsIn(events) = {}
  BY DEF StopsIn
<1>4. Typed
  <2>1. follow \in [Follows -> Stages] /\ events \in Seq(Events)
    BY DEF Stages
  <2>2. [at |-> "idle", on |-> 0] \in [at : Places, on : Sub]
    BY DEF Places, Sub
  <2>3. call \in [Calls -> [at : Places, on : Sub]]
    BY <2>2
  <2>4. stops \in 0..MaxStops /\ losses \in 0..MaxLosses
    BY BoundsAssumption
  <2> QED
    BY <2>1, <2>3, <2>4 DEF Typed, Sub
<1>5. Counted
  <2>1. \A i \in Follows : follow[i] # "none" <=> i <= 1
    BY <1>2 DEF Follows
  <2>2. 1 + Cardinality(StopsIn(events)) + (IF connected THEN 0 ELSE 1)
             <= 1 + stops + losses
    <3>1. Cardinality(StopsIn(events)) = 0
      BY <1>3, FS_EmptySet
    <3> QED
      BY <3>1
  <2> QED
    BY <2>1, <2>2 DEF Counted
<1>6. Accepted
  BY <1>2 DEF Accepted
<1>7. Line
  BY <1>1, <1>2, <1>3 DEF Line, Renewing, Latest, OneFollow, Ends
<1>8. Asked
  BY DEF Asked
<1>9. Recovering
  BY DEF Recovering
<1>10. OperationsRecovered
  BY DEF OperationsRecovered, CallsAt
<1> QED
  BY <1>4, <1>5, <1>6, <1>7, <1>8, <1>9, <1>10 DEF FollowInv, Header, Line

LEMMA FollowNext == FollowInv /\ [Next]_vars => FollowInv'
<1> SUFFICES ASSUME FollowInv, [Next]_vars
             PROVE  FollowInv'
  OBVIOUS
<1>1. Base /\ Header /\ Line /\ Asked /\ Recovering /\ OperationsRecovered
  BY DEF FollowInv, Base, Line
<1>2. Base' /\ Header' /\ Line' /\ Asked' /\ Recovering' /\ OperationsRecovered'
  BY <1>1, BaseNext, HeaderNext, LineNext, AskedNext, RecoveringNext, OperationsNext DEF Base
<1> QED
  BY <1>2 DEF FollowInv, Base, Line

\* The invariant holds for any operations, stops and losses.
THEOREM FollowInvariance == Spec => []FollowInv
<1> QED
  BY FollowInit, FollowNext, PTL DEF Spec

\* A request that waits for #recovering waits for a deferred that is pending, of
\* a doFollow() that is under way and will settle it.
THEOREM WaitersAlwaysReleased == Spec => []WaitersReleased
<1>1. FollowInv => WaitersReleased
  BY DEF FollowInv, Recovering, Calm, WaitersReleased, CallsAt
<1> QED
  BY <1>1, FollowInvariance, PTL

\* An operation with an operationId is known to the node, or a stop that will
\* queue it again is to be handled or under way.
THEOREM OperationsAlwaysRecovered == Spec => []OperationsRecovered
<1>1. FollowInv => OperationsRecovered
  BY DEF FollowInv
<1> QED
  BY <1>1, FollowInvariance, PTL

\* With every event handled and no doFollow() under way, the client is followed
\* and uses the subscription that is alive.
THEOREM FollowedAlwaysWhenQuiet == Spec => []FollowedWhenQuiet
<1>1. FollowInv => FollowedWhenQuiet
  <2> SUFFICES ASSUME FollowInv, connected, events = <<>>, handling = 0,
                      \A i \in Follows \ {node} : ~UnderWay(i)
               PROVE  node # 0 /\ subscriptionId = node
    BY DEF FollowedWhenQuiet
  <2>1. DOMAIN events = {} /\ StopsIn(events) = {}
    BY DEF StopsIn
  <2>2. ASSUME NEW i \in Follows, follow[i] = "asked"
        PROVE  node # 0
    BY <2>2 DEF UnderWay, Follows
  <2>3. node # 0
    BY <2>1, <2>2 DEF FollowInv, Renewing
  <2> QED
    BY <2>1, <2>3 DEF FollowInv, Latest
<1> QED
  BY <1>1, FollowInvariance, PTL
==============================================================================
