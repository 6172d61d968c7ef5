----------------------- MODULE BestBlockListenersProofs -----------------------
(***************************************************************************)
(* The listeners of the best blocks, for any values, versions and bounds:  *)
(* a runtime upgrade leaves the metadata of the best block's runtime, and  *)
(* a storage subscription has delivered the value of the newest block it   *)
(* heard of once it has nothing under way.                                 *)
(***************************************************************************)
EXTENDS BestBlockListeners, SequenceTheorems, TLAPS

----------------------------------------------------------------------------
(***************************************************************************)
(* Runtime upgrades.                                                       *)
(***************************************************************************)

UpgradeTypeOK ==
    /\ bestRuntime \in Versions
    /\ client \in [version  : Versions,
                   metadata : Versions,
                   stored   : [Versions -> Versions \cup {NoVersion}],
                   upgrades : Nat]
    /\ fetches \subseteq [id : Nat, got : Versions \cup {NoVersion}]
    /\ disorder \in BOOLEAN

\* Fetches are told apart by their numbers, none of which is ahead of the
\* upgrades.
Numbered ==
    /\ \A f \in fetches : f.id <= client.upgrades
    /\ \A f, g \in fetches : f.id = g.id => f = g

Newest(f) == \A g \in fetches : g.id <= f.id

\* The newest fetch, which ends last, is for the runtime of the best block: a
\* change of it starts a newer one.
NewestCurrent ==
    ~disorder => \A f \in fetches : Newest(f) => f.got \in {NoVersion, bestRuntime}

UpgradeIInv ==
    /\ UpgradeTypeOK
    /\ client.version = bestRuntime
    /\ Numbered
    /\ NewestCurrent
    /\ MetadataFollows

\* No upgrade is under way when the client is set up.
LEMMA UpgradeInitOK == UpgradeInit => UpgradeIInv
<1> SUFFICES ASSUME UpgradeInit PROVE UpgradeIInv
  OBVIOUS
<1>1. UpgradeTypeOK
  BY DEF UpgradeInit, UpgradeTypeOK
<1>2. client.version = bestRuntime /\ MetadataFollows
  BY DEF UpgradeInit, MetadataFollows
<1>3. Numbered /\ NewestCurrent
  BY DEF UpgradeInit, Numbered, NewestCurrent
<1> QED BY <1>1, <1>2, <1>3 DEF UpgradeIInv

\* A best block with another runtime starts a fetch newer than all others.
LEMMA UpgradeHearsOK ==
    ASSUME UpgradeIInv, NEW version \in Versions, UpgradeHears(version)
    PROVE  UpgradeIInv'
<1>1. CASE version = client.version
  <2>1. UNCHANGED upgradeVars
    BY <1>1 DEF UpgradeHears, UpgradeIInv, upgradeVars
  <2> QED BY <2>1 DEF UpgradeIInv, UpgradeTypeOK, Numbered, NewestCurrent, Newest,
                      MetadataFollows, upgradeVars
<1>2. CASE version # client.version
  <2> DEFINE new == [id |-> client.upgrades + 1, got |-> NoVersion]
  <2>1. /\ fetches' = fetches \cup {new}
        /\ client' = [client EXCEPT !.version = version, !.upgrades = @ + 1]
        /\ bestRuntime' = version
        /\ disorder' = disorder
    BY <1>2 DEF UpgradeHears
  <2>0. new \in [id : Nat, got : Versions \cup {NoVersion}]
    BY DEF UpgradeIInv, UpgradeTypeOK
  <2>2. UpgradeTypeOK'
    BY <2>1, <2>0 DEF UpgradeIInv, UpgradeTypeOK
  <2>3. client'.version = bestRuntime' /\ client'.upgrades = client.upgrades + 1
    BY <2>1 DEF UpgradeIInv, UpgradeTypeOK
  <2>4. \A f \in fetches : f.id \in Nat /\ f.id < new.id
    BY DEF UpgradeIInv, UpgradeTypeOK, Numbered
  <2>5. Numbered'
    BY <2>1, <2>3, <2>4 DEF UpgradeIInv, UpgradeTypeOK, Numbered
  <2>6. NewestCurrent'
    <3> SUFFICES ASSUME NEW g \in fetches', \A h \in fetches' : h.id <= g.id
                 PROVE  g.got = NoVersion
      BY <2>1 DEF NewestCurrent, Newest
    <3>1. new.id <= g.id
      BY <2>1
    <3>2. g = new
      BY <2>1, <2>4, <2>0, <3>1
    <3> QED BY <3>2
  <2>7. MetadataFollows'
    BY <2>1 DEF MetadataFollows
  <2> QED BY <2>2, <2>3, <2>5, <2>6, <2>7 DEF UpgradeIInv
<1> QED BY <1>1, <1>2

\* The metadata is fetched for the runtime the best block has by then.
LEMMA NextRequestOK ==
    ASSUME UpgradeIInv, NEW f \in fetches, NextRequest(f)
    PROVE  UpgradeIInv'
<1> DEFINE asked == [f EXCEPT !.got = bestRuntime]
<1>1. /\ fetches' = (fetches \ {f}) \cup {asked}
      /\ UNCHANGED <<bestRuntime, client, disorder>>
  BY DEF NextRequest
<1>2. asked \in [id : Nat, got : Versions \cup {NoVersion}] /\ asked.id = f.id
        /\ asked.got = bestRuntime
  BY DEF UpgradeIInv, UpgradeTypeOK
<1>3. UpgradeTypeOK'
  BY <1>1, <1>2 DEF UpgradeIInv, UpgradeTypeOK
<1>4. Numbered'
  BY <1>1, <1>2 DEF UpgradeIInv, UpgradeTypeOK, Numbered
<1>5. NewestCurrent'
  <2> SUFFICES ASSUME ~disorder, NEW g \in fetches', \A h \in fetches' : h.id <= g.id
               PROVE  g.got \in {NoVersion, bestRuntime}
    BY <1>1 DEF NewestCurrent, Newest
  <2>1. CASE g = asked
    BY <2>1, <1>2
  <2>2. CASE g # asked
    <3>1. g \in fetches
      BY <2>2, <1>1
    <3>2. Newest(g)
      BY <1>1, <1>2 DEF Newest
    <3> QED BY <3>1, <3>2 DEF UpgradeIInv, NewestCurrent
  <2> QED BY <2>1, <2>2
<1>6. MetadataFollows'
  BY <1>1 DEF MetadataFollows
<1> QED BY <1>1, <1>3, <1>4, <1>5, <1>6 DEF UpgradeIInv

\* A fetch that ends in order is the newest only if it is the last one.
LEMMA MetadataAnsweredOK ==
    ASSUME UpgradeIInv, NEW f \in fetches, MetadataAnswered(f)
    PROVE  UpgradeIInv'
<1>1. /\ client' = [client EXCEPT !.stored[client.version] = f.got, !.metadata = f.got]
      /\ fetches' = fetches \ {f}
      /\ disorder' = (disorder \/ \E other \in fetches : other.id < f.id)
      /\ bestRuntime' = bestRuntime
      /\ f.got # NoVersion
  BY DEF MetadataAnswered
<1>2. f \in [id : Nat, got : Versions \cup {NoVersion}] /\ f.got \in Versions
  BY <1>1 DEF UpgradeIInv, UpgradeTypeOK
<1>3. UpgradeTypeOK'
  <2>1. disorder' \in BOOLEAN
    BY <1>1 DEF UpgradeIInv, UpgradeTypeOK
  <2> QED BY <2>1, <1>1, <1>2 DEF UpgradeIInv, UpgradeTypeOK
<1>4. /\ client'.version = client.version
      /\ client'.upgrades = client.upgrades
      /\ client'.metadata = f.got
      /\ client'.stored[client.version] = f.got
  BY <1>1, <1>2 DEF UpgradeIInv, UpgradeTypeOK
<1>5. Numbered'
  BY <1>1, <1>4 DEF UpgradeIInv, Numbered
<1>6. NewestCurrent'
  <2> SUFFICES ASSUME ~disorder', NEW g \in fetches', \A h \in fetches' : h.id <= g.id
               PROVE  g.got \in {NoVersion, bestRuntime}
    BY <1>1 DEF NewestCurrent, Newest
  <2>1. f.id \in Nat /\ g.id \in Nat /\ ~(g.id < f.id) /\ ~disorder
    BY <1>1, <1>2 DEF UpgradeIInv, UpgradeTypeOK
  <2>2. Newest(g)
    BY <2>1, <1>1 DEF Newest
  <2> QED BY <2>1, <2>2, <1>1 DEF UpgradeIInv, NewestCurrent
<1>7. MetadataFollows'
  <2> SUFFICES ASSUME fetches' = {}, ~disorder'
               PROVE  f.got = bestRuntime
    BY <1>1, <1>4 DEF MetadataFollows, UpgradeIInv
  <2>1. Newest(f)
    BY <1>1, <1>2 DEF Newest
  <2> QED BY <2>1, <1>1 DEF UpgradeIInv, NewestCurrent
<1> QED BY <1>1, <1>3, <1>4, <1>5, <1>6, <1>7 DEF UpgradeIInv

\* A failure leaves the order behind.
LEMMA FetchFailsOK ==
    ASSUME UpgradeIInv, NEW f \in fetches, FetchFails(f)
    PROVE  UpgradeIInv'
  BY DEF FetchFails, UpgradeIInv, UpgradeTypeOK, Numbered, NewestCurrent, MetadataFollows

LEMMA UpgradeInductive ==
    UpgradeIInv /\ [Next]_vars => UpgradeIInv'
<1> SUFFICES ASSUME UpgradeIInv, [Next]_vars
             PROVE  UpgradeIInv'
  OBVIOUS
<1>1. CASE \E value \in Values, version \in Versions : BestBlock(value, version)
  BY <1>1, UpgradeHearsOK DEF BestBlock
<1>2. CASE UNCHANGED upgradeVars
  BY <1>2 DEF upgradeVars, UpgradeIInv, UpgradeTypeOK, Numbered, NewestCurrent, Newest,
              MetadataFollows
<1>3. CASE UpgradeNext
  BY <1>3, NextRequestOK, MetadataAnsweredOK, FetchFailsOK DEF UpgradeNext
<1> QED BY <1>1, <1>2, <1>3 DEF Next, vars

\* Whatever upgrades follow each other or are taken back by a fork, once no
\* fetch is under way the client and its cache have the metadata of the best
\* block's runtime, if fetches ended in order and none failed.
THEOREM MetadataAlwaysFollows == Spec => []MetadataFollows
<1>1. Init => UpgradeIInv
  BY UpgradeInitOK DEF Init
<1>2. UpgradeIInv => MetadataFollows
  BY DEF UpgradeIInv
<1> QED BY <1>1, <1>2, UpgradeInductive, PTL DEF Spec

----------------------------------------------------------------------------
(***************************************************************************)
(* The queue of pulls.                                                     *)
(***************************************************************************)

QueueFields == {"works", "working", "current", "bodies", "open", "settled"}

IsQueue(q) == DOMAIN q = QueueFields /\ q = [f \in QueueFields |-> q[f]]

\* r is q, but for the deferreds.
SameWorks(q, r) == /\ IsQueue(r)
                   /\ r.works = q.works /\ r.working = q.working
                   /\ r.current = q.current /\ r.bodies = q.bodies

\* Settling deferreds leaves the works alone.
LEMMA SettledQueue ==
    ASSUME NEW q, IsQueue(q), NEW ws, NEW r
    PROVE  SameWorks(q, Q!Settled(q, ws, r))
<1> DEFINE pending == Q!Filter(ws, q.open)
           x == q.open \ Q!ToSet(pending)
           y == q.settled \o [i \in 1..Len(pending) |-> [work |-> pending[i], result |-> r]]
           e == [q EXCEPT !.open = x, !.settled = y]
<1>1. Q!Settled(q, ws, r) = e
  BY DEF Q!Settled
<1> HIDE DEF x, y
<1>2. SameWorks(q, e)
  BY DEF SameWorks, IsQueue, QueueFields
<1> QED
  BY <1>1, <1>2

LEMMA SilentQueue ==
    ASSUME NEW q, IsQueue(q)
    PROVE  SameWorks(q, Silent(q))
BY DEF Silent, SameWorks, IsQueue, QueueFields

\* clear() drops the works that wait.
LEMMA ClearedQueue ==
    ASSUME NEW q, IsQueue(q)
    PROVE  /\ IsQueue(Q!Cleared(q))
           /\ Q!Cleared(q).works = <<>>
           /\ Q!Cleared(q).working = q.working
           /\ Q!Cleared(q).current = q.current
           /\ Q!Cleared(q).bodies = q.bodies
<1> DEFINE s == Q!Settled(q, q.works, NoBlock)
           e == [s EXCEPT !.works = <<>>]
<1>1. SameWorks(q, s)
  BY SettledQueue
<1>2. Q!Cleared(q) = e
  BY DEF Q!Cleared
<1> HIDE DEF s
<1>3. /\ IsQueue(e)
      /\ e.works = <<>> /\ e.working = s.working
      /\ e.current = s.current /\ e.bodies = s.bodies
  BY <1>1 DEF SameWorks, IsQueue, QueueFields
<1> HIDE DEF e
<1> QED
  BY <1>1, <1>2, <1>3 DEF SameWorks

\* dequeue() starts the first work, if none runs.
LEMMA DequeuedBusy ==
    ASSUME NEW q, q.working = TRUE
    PROVE  Q!Dequeued(q) = q
BY DEF Q!Dequeued

LEMMA DequeuedEmpty ==
    ASSUME NEW q, IsQueue(q), q.working = FALSE, q.works = <<>>
    PROVE  /\ IsQueue(Q!Dequeued(q))
           /\ Q!Dequeued(q).works = <<>> /\ Q!Dequeued(q).working = FALSE
           /\ Q!Dequeued(q).bodies = q.bodies
<1> DEFINE e == [q EXCEPT !.current = NoBlock]
<1>1. Q!Dequeued(q) = e
  BY DEF Q!Dequeued
<1>2. IsQueue(e) /\ e.works = q.works /\ e.working = q.working /\ e.bodies = q.bodies
  BY DEF IsQueue, QueueFields
<1> HIDE DEF e
<1> QED
  BY <1>1, <1>2

LEMMA DequeuedNext ==
    ASSUME NEW q, IsQueue(q), q.working = FALSE, q.works # <<>>
    PROVE  /\ IsQueue(Q!Dequeued(q))
           /\ Q!Dequeued(q).works = Tail(q.works) /\ Q!Dequeued(q).working = TRUE
           /\ Q!Dequeued(q).current = Head(q.works)
           /\ Q!Dequeued(q).bodies = q.bodies \cup {Head(q.works)}
<1> DEFINE e == [q EXCEPT !.works = Tail(q.works), !.working = TRUE,
                          !.current = Head(q.works),
                          !.bodies = q.bodies \cup {Head(q.works)}]
<1>1. Q!Dequeued(q) = e
  BY DEF Q!Dequeued
<1>2. /\ IsQueue(e) /\ e.works = Tail(q.works) /\ e.working = TRUE
      /\ e.current = Head(q.works) /\ e.bodies = q.bodies \cup {Head(q.works)}
  BY DEF IsQueue, QueueFields
<1> HIDE DEF e
<1> QED
  BY <1>1, <1>2

\* What is announced: a best block and the value of the item in it.
Announced == [place : Nat, value : Values]

\* enqueue() puts a work behind the others, or starts it if there is none.
LEMMA EnqueuedBehind ==
    ASSUME NEW q, IsQueue(q), NEW b, q.working = TRUE
    PROVE  /\ IsQueue(Q!WithWork(q, b))
           /\ Q!WithWork(q, b).works = Append(q.works, b)
           /\ Q!WithWork(q, b).working = TRUE
           /\ Q!WithWork(q, b).current = q.current
           /\ Q!WithWork(q, b).bodies = q.bodies
<1> DEFINE e == [q EXCEPT !.works = Append(q.works, b), !.open = q.open \cup {b}]
<1>1. Q!WithWork(q, b) = Q!Dequeued(e)
  BY DEF Q!WithWork
<1>2. /\ IsQueue(e) /\ e.works = Append(q.works, b) /\ e.working = TRUE
      /\ e.current = q.current /\ e.bodies = q.bodies
  BY DEF IsQueue, QueueFields
<1> HIDE DEF e
<1>3. Q!Dequeued(e) = e
  BY <1>2, DequeuedBusy
<1> QED
  BY <1>1, <1>2, <1>3

\* Nothing runs or waits.
Unused(q) == IsQueue(q) /\ q.working = FALSE /\ q.works = <<>>

\* b runs and nothing waits.
Begun(w, bodies, b) == /\ IsQueue(w)
                       /\ w.works = <<>>
                       /\ w.working = TRUE
                       /\ w.current = b
                       /\ w.bodies = bodies \cup {b}

LEMMA EnqueuedFirst ==
    ASSUME NEW q, NEW b, Unused(q)
    PROVE  Begun(Q!WithWork(q, b), q.bodies, b)
<1> DEFINE one == Append(q.works, b)
           e == [q EXCEPT !.works = one, !.open = q.open \cup {b}]
<1>1. Q!WithWork(q, b) = Q!Dequeued(e)
  BY DEF Q!WithWork
<1>2. one # <<>> /\ Head(one) = b /\ Tail(one) = <<>>
  BY DEF Unused
<1> HIDE DEF one
<1>3. IsQueue(e) /\ e.works = one /\ e.working = FALSE /\ e.bodies = q.bodies
  BY DEF IsQueue, QueueFields, Unused
<1> HIDE DEF e
<1>4. e.works # <<>>
  BY <1>2, <1>3
<1>5. /\ IsQueue(Q!Dequeued(e)) /\ Q!Dequeued(e).works = Tail(e.works)
      /\ Q!Dequeued(e).working = TRUE /\ Q!Dequeued(e).current = Head(e.works)
      /\ Q!Dequeued(e).bodies = e.bodies \cup {Head(e.works)}
  BY <1>3, <1>4, DequeuedNext
<1> QED
  BY <1>1, <1>2, <1>3, <1>5 DEF Begun

\* The end of a body leaves the queue free for the next work.
Freed(q, b) == [Q!Settled(q, <<b>>, NoBlock)
                  EXCEPT !.working = FALSE, !.current = NoBlock, !.bodies = @ \ {b}]

LEMMA FreedQueue ==
    ASSUME NEW q, IsQueue(q), NEW b
    PROVE  /\ Q!Completed(q, b, NoBlock) = Q!Dequeued(Freed(q, b))
           /\ IsQueue(Freed(q, b)) /\ Freed(q, b).works = q.works
           /\ Freed(q, b).working = FALSE /\ Freed(q, b).bodies = q.bodies \ {b}
<1> DEFINE s == Q!Settled(q, <<b>>, NoBlock)
           e == [s EXCEPT !.working = FALSE, !.current = NoBlock, !.bodies = s.bodies \ {b}]
<1>1. SameWorks(q, s)
  BY SettledQueue
<1>2. Freed(q, b) = e /\ Q!Completed(q, b, NoBlock) = Q!Dequeued(e)
  BY DEF Q!Completed, Freed
<1> HIDE DEF s
<1>3. IsQueue(e) /\ e.works = s.works /\ e.working = FALSE /\ e.bodies = s.bodies \ {b}
  BY <1>1 DEF SameWorks, IsQueue, QueueFields
<1> HIDE DEF e
<1> QED
  BY <1>1, <1>2, <1>3 DEF SameWorks

LEMMA CompletedLast ==
    ASSUME NEW q, IsQueue(q), NEW b, q.works = <<>>
    PROVE  /\ IsQueue(Q!Completed(q, b, NoBlock))
           /\ Q!Completed(q, b, NoBlock).works = <<>>
           /\ Q!Completed(q, b, NoBlock).working = FALSE
           /\ Q!Completed(q, b, NoBlock).bodies = q.bodies \ {b}
<1>1. /\ Q!Completed(q, b, NoBlock) = Q!Dequeued(Freed(q, b))
      /\ IsQueue(Freed(q, b)) /\ Freed(q, b).works = <<>>
      /\ Freed(q, b).working = FALSE /\ Freed(q, b).bodies = q.bodies \ {b}
  BY FreedQueue
<1>2. /\ IsQueue(Q!Dequeued(Freed(q, b)))
      /\ Q!Dequeued(Freed(q, b)).works = <<>>
      /\ Q!Dequeued(Freed(q, b)).working = FALSE
      /\ Q!Dequeued(Freed(q, b)).bodies = Freed(q, b).bodies
  BY <1>1, DequeuedEmpty
<1> QED
  BY <1>1, <1>2

LEMMA CompletedNext ==
    ASSUME NEW q, IsQueue(q), NEW b, q.works # <<>>
    PROVE  /\ IsQueue(Q!Completed(q, b, NoBlock))
           /\ Q!Completed(q, b, NoBlock).works = Tail(q.works)
           /\ Q!Completed(q, b, NoBlock).working = TRUE
           /\ Q!Completed(q, b, NoBlock).current = Head(q.works)
           /\ Q!Completed(q, b, NoBlock).bodies = (q.bodies \ {b}) \cup {Head(q.works)}
<1>1. /\ Q!Completed(q, b, NoBlock) = Q!Dequeued(Freed(q, b))
      /\ IsQueue(Freed(q, b)) /\ Freed(q, b).works = q.works
      /\ Freed(q, b).working = FALSE /\ Freed(q, b).bodies = q.bodies \ {b}
  BY FreedQueue
<1>2. /\ IsQueue(Q!Dequeued(Freed(q, b)))
      /\ Q!Dequeued(Freed(q, b)).works = Tail(Freed(q, b).works)
      /\ Q!Dequeued(Freed(q, b)).working = TRUE
      /\ Q!Dequeued(Freed(q, b)).current = Head(Freed(q, b).works)
      /\ Q!Dequeued(Freed(q, b)).bodies
            = Freed(q, b).bodies \cup {Head(Freed(q, b).works)}
  BY <1>1, DequeuedNext
<1> QED
  BY <1>1, <1>2

\* cancel() leaves a queue.
LEMMA CancelledQueue ==
    ASSUME NEW q, IsQueue(q)
    PROVE  IsQueue(Q!Cancelled(q))
<1> DEFINE s == Q!Settled(q, <<q.current>>, NoBlock)
           e == [s EXCEPT !.current = NoBlock, !.working = FALSE]
<1>1. SameWorks(q, s)
  BY SettledQueue
<1>2. Q!Cancelled(q) = Q!Cleared(IF q.current = NoBlock THEN q ELSE e)
  BY DEF Q!Cancelled
<1> HIDE DEF s
<1>3. IsQueue(e)
  BY <1>1 DEF SameWorks, IsQueue, QueueFields
<1> HIDE DEF e
<1> QED
  BY <1>2, <1>3, ClearedQueue

----------------------------------------------------------------------------
(***************************************************************************)
(* The storage subscription.                                               *)
(***************************************************************************)

SubFields == {"phase", "base", "queue", "latest", "told", "heard", "missed"}

IsSub(s) == DOMAIN s = SubFields /\ s = [f \in SubFields |-> s[f]]

\* One pull runs, the others wait behind it; the last of them is that of the
\* newest block.  When none is left, its value was told or its pull failed.
Lined(q, told, heard, missed) ==
    /\ IsQueue(q)
    /\ q.works \in Seq(Announced)
    /\ \/ /\ q.working = TRUE
          /\ q.bodies = {q.current}
          /\ q.works = <<>> => q.current = heard
          /\ q.works # <<>> => q.works[Len(q.works)] = heard
       \/ /\ q.working = FALSE
          /\ q.works = <<>>
          /\ q.bodies = {}
          /\ missed = FALSE => told = heard.value

Resting(q) == q.works = <<>> /\ q.working = FALSE /\ q.bodies = {}

StorageIInv ==
    /\ best \in Announced
    /\ IsSub(sub)
    /\ sub.missed \in BOOLEAN
    /\ IsQueue(sub.queue)
    /\ sub.latest = sub.told
    /\ sub.phase \in {"idle", "initial"} => Resting(sub.queue)
    /\ sub.phase = "initial" => sub.base = sub.heard
    /\ sub.phase = "listening" => Lined(sub.queue, sub.told, sub.heard, sub.missed)

LEMMA StorageInitOK == StorageInit => StorageIInv
<1> SUFFICES ASSUME StorageInit PROVE StorageIInv
  OBVIOUS
<1>1. best \in Announced
  BY DEF StorageInit, Announced
<1>2. /\ IsSub(sub) /\ sub.missed = FALSE /\ sub.latest = sub.told
      /\ sub.phase = "idle" /\ sub.queue = Q!EmptyQueue
  BY DEF StorageInit, IsSub, SubFields
<1>3. IsQueue(Q!EmptyQueue) /\ Resting(Q!EmptyQueue)
  BY DEF Q!EmptyQueue, IsQueue, QueueFields, Resting
<1> QED
  BY <1>1, <1>2, <1>3 DEF StorageIInv

\* A pull tells the value of its block, unless it was told last.
LEMMA PullFacts ==
    ASSUME NEW s, IsSub(s), s.latest = s.told, NEW b
    PROVE  /\ IsSub(Pull(s, b))
           /\ Pull(s, b).latest = b.value /\ Pull(s, b).told = b.value
           /\ Pull(s, b).phase = s.phase /\ Pull(s, b).base = s.base
           /\ Pull(s, b).queue = s.queue /\ Pull(s, b).heard = s.heard
           /\ Pull(s, b).missed = s.missed
<1> DEFINE v == b.value
           e == [s EXCEPT !.latest = v, !.told = v]
<1>1. Pull(s, b) = IF s.latest = v THEN s ELSE e
  BY DEF Pull
<1> HIDE DEF v
<1>2. /\ IsSub(e) /\ e.latest = v /\ e.told = v
      /\ e.phase = s.phase /\ e.base = s.base /\ e.queue = s.queue
      /\ e.heard = s.heard /\ e.missed = s.missed
  BY DEF IsSub, SubFields
<1> HIDE DEF e
<1> QED
  BY <1>1, <1>2 DEF v

\* A pull that is enqueued is the last one.
LEMMA LineGrows ==
    ASSUME NEW q, IsQueue(q), q.works \in Seq(Announced),
           q.working = TRUE \/ q.working = FALSE,
           q.working = TRUE => q.bodies = {q.current},
           q.working = FALSE => q.works = <<>> /\ q.bodies = {},
           NEW b \in Announced, NEW told
    PROVE  Lined(Q!WithWork(q, b), told, b, FALSE)
<1> DEFINE w == Q!WithWork(q, b)
<1>1. CASE q.working = TRUE
  <2>1. /\ IsQueue(w) /\ w.works = Append(q.works, b) /\ w.working = TRUE
        /\ w.current = q.current /\ w.bodies = q.bodies
    BY <1>1, EnqueuedBehind
  <2>2. /\ Append(q.works, b) \in Seq(Announced) /\ Append(q.works, b) # <<>>
        /\ Append(q.works, b)[Len(Append(q.works, b))] = b
    BY AppendProperties
  <2> HIDE DEF w
  <2>3. Lined(w, told, b, FALSE)
    BY <1>1, <2>1, <2>2 DEF Lined
  <2> QED
    BY <2>3 DEF w
<1>2. CASE q.working = FALSE
  <2>1. Unused(q) /\ q.bodies = {}
    BY <1>2 DEF Unused
  <2>2. Begun(w, q.bodies, b)
    BY <2>1, EnqueuedFirst
  <2>3. <<>> \in Seq(Announced)
    OBVIOUS
  <2> HIDE DEF w
  <2>4. Lined(w, told, b, FALSE)
    BY <2>1, <2>2, <2>3 DEF Lined, Begun
  <2> QED
    BY <2>4 DEF w
<1> QED
  BY <1>1, <1>2

\* A best block: its pull becomes the last one.
LEMMA StorageHearsOK ==
    ASSUME StorageIInv, NEW value \in Values, StorageHears(value)
    PROVE  StorageIInv'
<1> DEFINE b == best'
           full == Len(sub.queue.works) >= 3
           q == IF full THEN Q!Cleared(sub.queue) ELSE sub.queue
           r == Silent(Q!WithWork(q, b))
<1>1. best' \in Announced
  BY DEF StorageHears, StorageIInv, Announced
<1>2. CASE sub.phase # "listening"
  <2>1. sub' = sub
    BY <1>2 DEF StorageHears, Heard
  <2> QED
    BY <1>1, <1>2, <2>1 DEF StorageIInv
<1>3. CASE sub.phase = "listening"
  <2>1. Lined(sub.queue, sub.told, sub.heard, sub.missed)
    BY <1>3 DEF StorageIInv
  <2>2. IsQueue(q) /\ q.works \in Seq(Announced) /\ q.working = sub.queue.working
           /\ q.bodies = sub.queue.bodies /\ q.current = sub.queue.current
    BY <2>1, ClearedQueue, EmptySeq DEF Lined
  <2>3. q.working = FALSE => q.works = <<>>
    BY <2>1, ClearedQueue DEF Lined
  <2>4. sub' = [sub EXCEPT !.heard = b, !.missed = FALSE, !.queue = r]
    BY <1>3 DEF StorageHears, Heard
  <2> HIDE DEF q, b
  <2> DEFINE w == Q!WithWork(q, b)
  <2>5. b \in Announced
    BY <1>1 DEF b
  <2>6. Lined(w, sub.told, b, FALSE)
    <3>1. q.working = TRUE => q.bodies = {q.current}
      BY <2>1, <2>2 DEF Lined
    <3>2. q.working = FALSE => q.works = <<>> /\ q.bodies = {}
      BY <2>1, <2>2, <2>3 DEF Lined
    <3>3. q.working = TRUE \/ q.working = FALSE
      BY <2>1, <2>2 DEF Lined
    <3> QED
      BY <2>2, <2>5, <3>1, <3>2, <3>3, LineGrows
  <2>7. SameWorks(w, r)
    BY <2>6, SilentQueue DEF Lined
  <2> HIDE DEF w, r
  <2>8. Lined(r, sub.told, b, FALSE)
    BY <2>6, <2>7 DEF Lined, SameWorks
  <2>9. /\ IsSub(sub') /\ sub'.heard = b /\ sub'.missed = FALSE /\ sub'.queue = r
        /\ sub'.latest = sub.latest /\ sub'.told = sub.told
        /\ sub'.phase = sub.phase /\ sub'.base = sub.base
    BY <2>4 DEF StorageIInv, IsSub, SubFields
  <2>10. IsQueue(r)
    BY <2>8 DEF Lined
  <2> QED
    BY <1>1, <1>3, <2>8, <2>9, <2>10 DEF StorageIInv
<1> QED
  BY <1>2, <1>3

\* The first pull ends; the callback has been called with its value.
LEMMA StorageStartsOK ==
    ASSUME StorageIInv, Subscribe \/ InitialPulled \/ InitialFails
    PROVE  StorageIInv'
<1>1. CASE Subscribe
  <2> DEFINE e == [sub EXCEPT !.phase = "initial", !.base = best, !.heard = best]
  <2>1. sub.phase = "idle" /\ sub' = e /\ best' = best
    BY <1>1 DEF Subscribe
  <2>2. /\ IsSub(e) /\ e.phase = "initial" /\ e.base = e.heard
        /\ e.queue = sub.queue /\ e.latest = sub.latest /\ e.told = sub.told
        /\ e.missed = sub.missed
    BY DEF StorageIInv, IsSub, SubFields
  <2> HIDE DEF e
  <2> QED
    BY <2>1, <2>2 DEF StorageIInv
<1>2. CASE InitialPulled
  <2> DEFINE p == Pull(sub, sub.base)
             e == [p EXCEPT !.phase = "listening"]
  <2>1. sub.phase = "initial" /\ sub' = e /\ best' = best
    BY <1>2 DEF InitialPulled
  <2>2. /\ IsSub(p) /\ p.latest = sub.base.value /\ p.told = sub.base.value
        /\ p.queue = sub.queue /\ p.heard = sub.heard /\ p.missed = sub.missed
    BY PullFacts DEF StorageIInv
  <2> HIDE DEF p
  <2>3. /\ IsSub(e) /\ e.phase = "listening" /\ e.latest = p.latest /\ e.told = p.told
        /\ e.queue = p.queue /\ e.heard = p.heard /\ e.missed = p.missed
    BY <2>2 DEF IsSub, SubFields
  <2> HIDE DEF e
  <2>4. Resting(sub.queue) /\ IsQueue(sub.queue) /\ sub.base = sub.heard
    BY <2>1 DEF StorageIInv
  <2>5. <<>> \in Seq(Announced)
    OBVIOUS
  <2>6. Lined(e.queue, e.told, e.heard, e.missed)
    BY <2>2, <2>3, <2>4, <2>5 DEF Resting, Lined
  <2> QED
    BY <2>1, <2>2, <2>3, <2>4, <2>6 DEF StorageIInv
<1>3. CASE InitialFails
  <2> DEFINE e == [sub EXCEPT !.phase = "refused"]
  <2>1. sub' = e /\ best' = best
    BY <1>3 DEF InitialFails
  <2>2. /\ IsSub(e) /\ e.phase = "refused" /\ e.queue = sub.queue
        /\ e.latest = sub.latest /\ e.told = sub.told /\ e.missed = sub.missed
    BY DEF StorageIInv, IsSub, SubFields
  <2> HIDE DEF e
  <2> QED
    BY <2>1, <2>2 DEF StorageIInv
<1> QED
  BY <1>1, <1>2, <1>3

\* The end of a pull, of the newest block or of one before it.
LEMMA LineMoves ==
    ASSUME NEW q, NEW t, NEW told, NEW heard, NEW missed, NEW newMissed,
           Lined(q, t, heard, missed), NEW b \in q.bodies,
           b = heard /\ newMissed = FALSE => told = heard.value
    PROVE  Lined(Silent(Q!Completed(q, b, NoBlock)), told, heard, newMissed)
<1> DEFINE c == Q!Completed(q, b, NoBlock)
           r == Silent(c)
<1>1. /\ IsQueue(q) /\ q.works \in Seq(Announced) /\ q.bodies = {b} /\ q.current = b
      /\ q.works = <<>> => b = heard
      /\ q.works # <<>> => q.works[Len(q.works)] = heard
  BY DEF Lined
<1>2. CASE q.works = <<>>
  <2>0. IsQueue(q) /\ q.bodies \ {b} = {}
    BY <1>1
  <2>1. /\ IsQueue(c) /\ c.works = <<>> /\ c.working = FALSE /\ c.bodies = {}
    <3>1. /\ IsQueue(c) /\ c.works = <<>> /\ c.working = FALSE
          /\ c.bodies = q.bodies \ {b}
      BY <1>2, <2>0, CompletedLast
    <3> HIDE DEF c
    <3> QED
      BY <2>0, <3>1
  <2>2. SameWorks(c, r)
    BY <2>1, SilentQueue
  <2> HIDE DEF c, r
  <2>3. /\ IsQueue(r) /\ r.works = <<>> /\ r.working = FALSE /\ r.bodies = {}
    BY <2>1, <2>2 DEF SameWorks
  <2>4. newMissed = FALSE => told = heard.value
    BY <1>1, <1>2
  <2>5. <<>> \in Seq(Announced)
    OBVIOUS
  <2> QED
    BY <2>3, <2>4, <2>5 DEF Lined, r, c
<1>3. CASE q.works # <<>>
  <2> DEFINE h == Head(q.works)
             l == Tail(q.works)
  <2>0. IsQueue(q) /\ (q.bodies \ {b}) \cup {h} = {h}
    BY <1>1
  <2>1. /\ IsQueue(c) /\ c.works = l /\ c.working = TRUE
        /\ c.current = h /\ c.bodies = {h}
    <3>1. /\ IsQueue(c) /\ c.works = l /\ c.working = TRUE
          /\ c.current = h /\ c.bodies = (q.bodies \ {b}) \cup {h}
      BY <1>3, <2>0, CompletedNext
    <3> HIDE DEF c, h, l
    <3> QED
      BY <2>0, <3>1
  <2>2. SameWorks(c, r)
    BY <2>1, SilentQueue
  <2> HIDE DEF c, r
  <2>3. /\ IsQueue(r) /\ r.works = l /\ r.working = TRUE
        /\ r.current = h /\ r.bodies = {h}
    BY <2>1, <2>2 DEF SameWorks
  <2>4. /\ l \in Seq(Announced)
        /\ l = <<>> => h = heard
        /\ l # <<>> => l[Len(l)] = heard
    <3> DEFINE s == q.works
    <3>1. s \in Seq(Announced) /\ s # <<>> /\ s[Len(s)] = heard
      BY <1>1, <1>3
    <3> HIDE DEF s
    <3>2. /\ Tail(s) \in Seq(Announced) /\ Len(s) \in Nat \ {0}
          /\ Len(Tail(s)) = Len(s) - 1 /\ Head(s) = s[1]
          /\ \A i \in 1..Len(Tail(s)) : Tail(s)[i] = s[i + 1]
      BY <3>1, HeadTailProperties, LenProperties
    <3>3. Tail(s) = <<>> => Len(s) = 1
      <4>1. Tail(s) = <<>> => Len(Tail(s)) = 0
        BY <3>2, EmptySeq
      <4> QED
        BY <3>2, <4>1
    <3>4. Tail(s) # <<>> => Len(Tail(s)) \in 1..Len(Tail(s)) /\ Len(Tail(s)) + 1 = Len(s)
      BY <3>2, EmptySeq
    <3>5. /\ Tail(s) \in Seq(Announced)
          /\ Tail(s) = <<>> => Head(s) = heard
          /\ Tail(s) # <<>> => Tail(s)[Len(Tail(s))] = heard
      BY <3>1, <3>2, <3>3, <3>4
    <3> QED
      BY <3>5 DEF s
  <2> HIDE DEF h, l
  <2> QED
    BY <2>3, <2>4 DEF Lined, r, c
<1> QED
  BY <1>2, <1>3

\* A pull of a queue ends, with a value or not.
LEMMA StoragePulledOK ==
    ASSUME StorageIInv, NEW b \in sub.queue.bodies, Pulled(b)
    PROVE  StorageIInv'
<1> DEFINE p == Pull(sub, b)
           r == Silent(Q!Completed(sub.queue, b, NoBlock))
           e == [p EXCEPT !.queue = r]
<1>1. /\ IsSub(p) /\ p.latest = b.value /\ p.told = b.value /\ p.phase = sub.phase
      /\ p.base = sub.base /\ p.queue = sub.queue /\ p.heard = sub.heard
      /\ p.missed = sub.missed
  BY PullFacts DEF StorageIInv
<1>2. sub' = e /\ best' = best
  <2>1. sub' = [p EXCEPT !.queue = Silent(Q!Completed(p.queue, b, NoBlock))] /\ best' = best
    BY DEF Pulled
  <2> HIDE DEF p
  <2> QED
    BY <1>1, <2>1
<1>3. IsQueue(r)
  <2>1. IsQueue(Q!Completed(sub.queue, b, NoBlock))
    BY CompletedLast, CompletedNext DEF StorageIInv
  <2> QED
    BY <2>1, SilentQueue DEF SameWorks
<1>4. sub.phase = "listening" => Lined(r, b.value, sub.heard, sub.missed)
  BY LineMoves DEF StorageIInv
<1> HIDE DEF p, r
<1>5. /\ IsSub(e) /\ e.latest = p.latest /\ e.told = p.told /\ e.phase = p.phase
      /\ e.base = p.base /\ e.queue = r /\ e.heard = p.heard /\ e.missed = p.missed
  BY <1>1 DEF IsSub, SubFields
<1> HIDE DEF e
<1>6. sub.phase \notin {"idle", "initial"}
  BY DEF StorageIInv, Resting
<1> QED
  BY <1>1, <1>2, <1>3, <1>4, <1>5, <1>6 DEF StorageIInv

LEMMA StoragePullFailsOK ==
    ASSUME StorageIInv, NEW b \in sub.queue.bodies, PullFails(b)
    PROVE  StorageIInv'
<1> DEFINE r == Silent(Q!Completed(sub.queue, b, NoBlock))
           m == sub.missed \/ b = sub.heard
           e == [sub EXCEPT !.queue = r, !.missed = m]
<1>1. sub' = e /\ best' = best
  BY DEF PullFails
<1>2. IsQueue(r)
  <2>1. IsQueue(Q!Completed(sub.queue, b, NoBlock))
    BY CompletedLast, CompletedNext DEF StorageIInv
  <2> QED
    BY <2>1, SilentQueue DEF SameWorks
<1>3. m \in BOOLEAN /\ (m = FALSE => b # sub.heard)
  BY DEF StorageIInv
<1> HIDE DEF m
<1>4. sub.phase = "listening" => Lined(r, sub.told, sub.heard, m)
  BY <1>3, LineMoves DEF StorageIInv
<1> HIDE DEF r
<1>5. /\ IsSub(e) /\ e.latest = sub.latest /\ e.told = sub.told /\ e.phase = sub.phase
      /\ e.base = sub.base /\ e.queue = r /\ e.heard = sub.heard /\ e.missed = m
  BY DEF IsSub, SubFields, StorageIInv
<1> HIDE DEF e
<1>6. sub.phase \notin {"idle", "initial"}
  BY DEF StorageIInv, Resting
<1> QED
  BY <1>1, <1>2, <1>3, <1>4, <1>5, <1>6 DEF StorageIInv

\* Pulls that run when the subscription is left go on, unheeded.
LEMMA StorageUnsubscribeOK ==
    ASSUME StorageIInv, Unsubscribe
    PROVE  StorageIInv'
<1> DEFINE r == Silent(Q!Cancelled(sub.queue))
           e == [sub EXCEPT !.phase = "left", !.queue = r]
<1>1. sub' = e /\ best' = best
  BY DEF Unsubscribe
<1>2. IsQueue(r)
  BY CancelledQueue, SilentQueue DEF SameWorks, StorageIInv
<1> HIDE DEF r
<1>3. /\ IsSub(e) /\ e.latest = sub.latest /\ e.told = sub.told /\ e.phase = "left"
      /\ e.queue = r /\ e.missed = sub.missed
  BY DEF IsSub, SubFields, StorageIInv
<1> HIDE DEF e
<1> QED
  BY <1>1, <1>2, <1>3 DEF StorageIInv

LEMMA StorageInductive ==
    StorageIInv /\ [Next]_vars => StorageIInv'
<1> SUFFICES ASSUME StorageIInv, [Next]_vars
             PROVE  StorageIInv'
  OBVIOUS
<1>1. CASE \E value \in Values, version \in Versions : BestBlock(value, version)
  BY <1>1, StorageHearsOK DEF BestBlock
<1>2. CASE UNCHANGED storageVars
  <2>1. sub' = sub /\ best' = best
    BY <1>2 DEF storageVars
  <2> QED
    BY <2>1 DEF StorageIInv
<1>3. CASE StorageNext
  BY <1>3, StorageStartsOK, StorageUnsubscribeOK, StoragePulledOK, StoragePullFailsOK
     DEF StorageNext
<1> QED
  BY <1>1, <1>2, <1>3 DEF Next, vars

\* Whatever pulls were dropped, delayed or failed, when none is left the last
\* value the callback of a storage subscription got is that of the newest block
\* it heard of, unless the pull of that block failed.
THEOREM StorageAlwaysFresh == Spec => []StorageFresh
<1>1. Init => StorageIInv
  BY StorageInitOK DEF Init
<1>2. StorageIInv => StorageFresh
  <2> SUFFICES ASSUME StorageIInv, sub.phase = "listening", Q!Idle(sub.queue), ~sub.missed
               PROVE  sub.told = sub.heard.value
    BY DEF StorageFresh
  <2>1. ~sub.queue.working
    BY DEF Q!Idle
  <2>2. sub.missed = FALSE
    BY DEF StorageIInv
  <2>3. Lined(sub.queue, sub.told, sub.heard, FALSE)
    BY <2>2 DEF StorageIInv
  <2>4. sub.queue.working # TRUE
    BY <2>1
  <2> QED
    BY <2>3, <2>4 DEF Lined
<1> QED
  BY <1>1, <1>2, StorageInductive, PTL DEF Spec
=============================================================================
