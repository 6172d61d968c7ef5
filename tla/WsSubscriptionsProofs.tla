----------------------- MODULE WsSubscriptionsProofs -----------------------
(***************************************************************************)
(* Proofs about WsSubscriptions: for any subscriptions and any bounds no   *)
(* notification is lost or overtaken, and the records of the provider are  *)
(* those of the subscriptions that the node has.                           *)
(***************************************************************************)
EXTENDS WsSubscriptions, FiniteSetTheorems, SequenceTheorems, TLAPS

\* The types of the variables: what is counted is only known to be a number.
Numbers ==
    /\ up \in BOOLEAN
    /\ phase \in [Subs -> {"idle", "asking", "active", "closed", "failed"}]
    /\ current \in [Subs -> Nat]
    /\ subs \subseteq [key : Nat \ {0}, of : Subs, object : Objects]
    /\ handlers \subseteq [key : Nat \ {0}, of : Subs, old : Nat, object : Objects]
    /\ node \subseteq [key : Nat \ {0}, of : Subs]
    /\ unanswered \subseteq Nat \ {0}
    /\ emitted \in [Keys -> Nat]
    /\ delivered \in [Keys -> Seq(Nat)]
    /\ pending \in [Keys -> Seq(Nat)]
    /\ nextKey \in Nat \ {0}
    /\ rejected \in BOOLEAN
    /\ cut \in BOOLEAN

\* A number is given once: nothing has happened under those to come.
KeysGiven ==
    /\ nextKey <= MaxKeys + 1
    /\ \A r \in subs : r.key < nextKey
    /\ \A h \in handlers : h.key < nextKey /\ h.old < nextKey
    /\ \A n \in node : n.key < nextKey
    /\ \A k \in unanswered : k < nextKey
    /\ \A s \in Subs : current[s] < nextKey
    /\ \A k \in Keys : k >= nextKey => /\ emitted[k] = 0
                                       /\ delivered[k] = <<>>
                                       /\ pending[k] = <<>>

\* The number of a request without an answer names nothing else.
KeysDiffer ==
    \A h \in handlers :
        /\ \A g \in handlers : (g.key = h.key => g = h) /\ g.old # h.key
        /\ \A r \in subs : r.key # h.key
        /\ \A s \in Subs : current[s] # h.key

\* The record under a key that is replaced or unsubscribed is one of the same
\* subscription.
KeysMean ==
    \A r \in subs : /\ \A q \in subs : q.key = r.key => q.of = r.of
                    /\ \A h \in handlers : h.old = r.key => h.of = r.of
                    /\ \A s \in Subs : current[s] = r.key => r.of = s

\* The node has what is to be answered on this connection.
NodeHas ==
    up => \A h \in handlers : h.key \in unanswered /\ \E n \in node : n.key = h.key

\* Only the first request of a subscription replaces no record.
Phases ==
    /\ \A r \in subs : phase[r.of] # "idle"
    /\ \A h \in handlers : /\ phase[h.of] # "idle"
                           /\ h.old = 0 => phase[h.of] = "asking"
    /\ \A g, h \in handlers : g.of = h.of /\ g.old = 0 /\ h.old = 0 => g = h

\* As long as no renewal was cut, a subscription has one record and one
\* request that will replace it.
Alone ==
    ~cut => /\ \A q, r \in subs : q.of = r.of => q = r
            /\ \A g, h \in handlers : g.of = h.of => g = h
            /\ \A r \in subs, h \in handlers : h.of = r.of => h.old = r.key
            /\ ~up => \A h \in handlers : h.old = 0

\* Between two connections as well, an active subscription has a record or
\* a request for one.
Carried ==
    ~rejected => \A s \in Durable :
        phase[s] = "active" =>
            \/ Asked(s)
            \/ \E r \in subs : /\ r.of = s
                               /\ up => \E n \in node : n.key = r.key

IInv == /\ Numbers
        /\ IsFiniteSet(subs) /\ IsFiniteSet(handlers)
        /\ KeysGiven
        /\ KeysDiffer
        /\ KeysMean
        /\ NodeHas
        /\ Phases
        /\ InOrder
        /\ OthersEnd
        /\ Alone
        /\ Carried

----------------------------------------------------------------------------
(***************************************************************************)
(* Sets put in order, and sequences that count.                            *)
(***************************************************************************)

\* SetToSeq gives each element of a finite set a place of its own.
LEMMA Enumerated ==
  ASSUME NEW S, IsFiniteSet(S)
  PROVE  /\ Cardinality(S) \in Nat
         /\ Len(SetToSeq(S)) = Cardinality(S)
         /\ \E place \in [S -> 1..Cardinality(S)] :
               /\ \A x \in S : SetToSeq(S)[place[x]] = x
               /\ \A i \in 1..Cardinality(S) :
                     SetToSeq(S)[i] \in S /\ place[SetToSeq(S)[i]] = i
<1> DEFINE n == Cardinality(S)
           s == SetToSeq(S)
           place == [x \in S |-> CHOOSE i \in 1..n : s[i] = x]
<1>1. n \in Nat /\ ExistsBijection(1..n, S)
  BY FS_CardinalityType
<1>2. \E f \in [1..n -> S] : IsInjective(f)
  BY <1>1 DEF ExistsBijection, Bijection, Injection
<1>3. s \in [1..n -> S] /\ IsInjective(s)
  BY <1>2 DEF SetToSeq
<1>4. s \in Injection(1..n, S)
  BY <1>3 DEF Injection
<1>5. IsFiniteSet(1..n) /\ Cardinality(1..n) = n
  BY <1>1, FS_Interval
<1>6. s \in Surjection(1..n, S)
  BY <1>4, <1>5, FS_Injection
<1>7. \A x \in S : \E i \in 1..n : s[i] = x
  BY <1>6 DEF Surjection
<1>8. \A i, j \in 1..n : s[i] = s[j] => i = j
  BY <1>3 DEF IsInjective
<1>9. Len(s) = n
  BY <1>1, <1>3
<1>10. \A x \in S : place[x] \in 1..n /\ s[place[x]] = x
  BY <1>7
<1>11. place \in [S -> 1..n]
  BY <1>10
<1>12. \A i \in 1..n : s[i] \in S /\ place[s[i]] = i
  BY <1>3, <1>8, <1>10
<1> QED
  BY <1>1, <1>9, <1>10, <1>11, <1>12

\* s is the sequence 1, 2, ..., e.
Counts(s, e) == Len(s) = e /\ \A i \in 1..e : s[i] = i

\* The next note continues the count, whether it is kept or delivered.
LEMMA Counting ==
  ASSUME NEW d \in Seq(Nat), NEW p \in Seq(Nat), NEW e \in Nat,
         Counts(d \o p, e)
  PROVE  /\ d \o Append(p, e + 1) \in Seq(Nat) /\ Counts(d \o Append(p, e + 1), e + 1)
         /\ p = <<>> => /\ Append(d, e + 1) \o p \in Seq(Nat)
                        /\ Counts(Append(d, e + 1) \o p, e + 1)
<1>1. d \o p \in Seq(Nat) /\ Len(d) + Len(p) = e
  BY DEF Counts
<1>2. \A i \in 1..e : i = IF i <= Len(d) THEN d[i] ELSE p[i - Len(d)]
  BY <1>1, ConcatProperties DEF Counts
<1>3. d \o Append(p, e + 1) \in Seq(Nat) /\ Counts(d \o Append(p, e + 1), e + 1)
  <2>1. Append(p, e + 1) \in Seq(Nat) /\ Len(Append(p, e + 1)) = Len(p) + 1
    OBVIOUS
  <2>2. d \o Append(p, e + 1) \in Seq(Nat) /\ Len(d \o Append(p, e + 1)) = e + 1
    BY <1>1, <2>1
  <2>3. \A i \in 1..(e + 1) : (d \o Append(p, e + 1))[i] = i
    BY <1>1, <1>2, <2>1
  <2> QED BY <2>2, <2>3 DEF Counts
<1>4. ASSUME p = <<>>
      PROVE  Append(d, e + 1) \o p \in Seq(Nat) /\ Counts(Append(d, e + 1) \o p, e + 1)
  <2>1. Append(d, e + 1) \o p \in Seq(Nat) /\ Len(Append(d, e + 1) \o p) = e + 1
    BY <1>1, <1>4
  <2>2. \A i \in 1..(e + 1) : (Append(d, e + 1) \o p)[i] = i
    BY <1>1, <1>2, <1>4
  <2> QED BY <2>1, <2>2 DEF Counts
<1> QED
  BY <1>3, <1>4

----------------------------------------------------------------------------
(***************************************************************************)
(* The actions.                                                            *)
(***************************************************************************)

LEMMA Initially == Init => IInv
<1> SUFFICES ASSUME Init PROVE IInv
  OBVIOUS
<1>1. Numbers
  <2>1. up \in BOOLEAN /\ rejected \in BOOLEAN /\ cut \in BOOLEAN
    BY DEF Init
  <2>2. phase \in [Subs -> {"idle", "asking", "active", "closed", "failed"}]
    BY DEF Init
  <2>3. delivered \in [Keys -> Seq(Nat)] /\ pending \in [Keys -> Seq(Nat)]
    BY DEF Init
  <2> QED
    BY <2>1, <2>2, <2>3 DEF Init, Numbers
<1> KeysGiven /\ InOrder
  BY BoundsAssumption DEF Init, KeysGiven, InOrder, Keys
<1>2. IsFiniteSet(subs) /\ IsFiniteSet(handlers)
  BY FS_EmptySet DEF Init
<1>3. KeysDiffer /\ KeysMean /\ NodeHas /\ Phases /\ OthersEnd /\ Alone
  BY DEF Init, KeysDiffer, KeysMean, NodeHas, Phases, OthersEnd, Alone
<1>4. Carried
  BY DurableAssumption DEF Init, Carried
<1> QED
  BY <1>1, <1>2, <1>3, <1>4 DEF IInv

\* The numbers in use are within the bound.
LEMMA NodeKeys ==
  ASSUME Numbers, KeysGiven
  PROVE  /\ nextKey - 1 \in Nat /\ nextKey <= MaxKeys + 1
         /\ \A n \in node : n.key \in Keys
         /\ \A h \in handlers : h.key \in Keys
<1>1. \A k \in Nat \ {0} : k < nextKey => k \in Keys
  BY BoundsAssumption DEF Numbers, KeysGiven, Keys
<1> QED
  BY <1>1 DEF Numbers, KeysGiven

LEMMA SubscribeOK ==
  ASSUME IInv, NEW s \in Subs, Subscribe(s)
  PROVE  IInv'
<1> USE DEF IInv
<1> PICK k : k = nextKey
  OBVIOUS
<1> DEFINE h == [key |-> k, of |-> s, old |-> 0, object |-> "application"]
           n == [key |-> k, of |-> s]
<1>1. /\ handlers' = handlers \cup {h} /\ node' = node \cup {n}
      /\ unanswered' = unanswered \cup {k} /\ nextKey' = k + 1
      /\ subs' = subs /\ current' = current
      /\ phase[s] = "idle" /\ phase' = [phase EXCEPT ![s] = "asking"]
      /\ nextKey = k /\ k \in Nat \ {0} /\ k <= MaxKeys
  BY DEF Subscribe, Numbers
<1>a. emitted' = emitted /\ delivered' = delivered /\ pending' = pending
  BY DEF Subscribe, notes
<1>b. up /\ UNCHANGED <<up, rejected, cut>>
  BY DEF Subscribe, bounds
<1>2. Numbers'
  <2>1. h \in [key : Nat \ {0}, of : Subs, old : Nat, object : Objects]
    BY <1>1 DEF Objects
  <2>2. n \in [key : Nat \ {0}, of : Subs]
    BY <1>1
  <2>3. phase' \in [Subs -> {"idle", "asking", "active", "closed", "failed"}]
    BY <1>1 DEF Numbers
  <2>4. handlers' \subseteq [key : Nat \ {0}, of : Subs, old : Nat, object : Objects]
    BY <1>1, <2>1 DEF Numbers
  <2>5. node' \subseteq [key : Nat \ {0}, of : Subs]
    BY <1>1, <2>2 DEF Numbers
  <2>6. unanswered' \subseteq Nat \ {0} /\ nextKey' \in Nat \ {0}
    BY <1>1 DEF Numbers
  <2> QED
    BY <1>1, <1>a, <1>b, <2>3, <2>4, <2>5, <2>6 DEF Numbers
<1>3. IsFiniteSet(subs') /\ IsFiniteSet(handlers')
  BY <1>1, FS_AddElement
<1>4. KeysGiven'
  <2>1. nextKey' <= MaxKeys + 1 /\ nextKey' = k + 1
    BY <1>1, BoundsAssumption
  <2>2. /\ \A r \in subs : r.key < k + 1
        /\ \A g \in handlers' : g.key < k + 1 /\ g.old < k + 1
        /\ \A m \in node' : m.key < k + 1
        /\ \A i \in unanswered' : i < k + 1
        /\ \A t \in Subs : current[t] < k + 1
    BY <1>1 DEF Numbers, KeysGiven
  <2>3. \A i \in Keys : i >= k + 1 => /\ emitted[i] = 0
                                      /\ delivered[i] = <<>>
                                      /\ pending[i] = <<>>
    <3>1. \A i \in Keys : i \in Int /\ (i >= k + 1 => i >= nextKey)
      BY <1>1, BoundsAssumption DEF Keys
    <3> QED
      BY <3>1 DEF KeysGiven
  <2> QED
    BY <1>1, <1>a, <2>1, <2>2, <2>3 DEF KeysGiven
<1>5. KeysDiffer'
  BY <1>1 DEF Numbers, KeysGiven, KeysDiffer
<1>6. KeysMean'
  BY <1>1 DEF Numbers, KeysMean
<1>7. NodeHas'
  <2>1. h.key \in unanswered' /\ n \in node' /\ n.key = h.key
    BY <1>1
  <2> QED
    BY <1>1, <1>b, <2>1 DEF NodeHas
<1>8. Phases'
  BY <1>1 DEF Numbers, Phases
<1>9. InOrder'
  <2>1. k \in Keys
    BY <1>1, BoundsAssumption DEF Keys
  <2>2. Forwarded(k)' = <<>> /\ emitted'[k] = 0 /\ pending'[k] = <<>>
    <3>1. delivered[k] = <<>> /\ pending[k] = <<>> /\ emitted[k] = 0
      BY <1>1, <1>a, <2>1 DEF KeysGiven, Numbers
    <3>2. <<>> \o <<>> = <<>>
      BY ConcatEmptySeq, EmptySeq
    <3>3. Forwarded(k)' = <<>> \o <<>>
      BY <1>a, <3>1 DEF Forwarded
    <3> QED
      BY <1>a, <3>1, <3>2, <3>3
  <2>3. [i \in 1..0 |-> i] = <<>>
    OBVIOUS
  <2>4. \A i : Forwarded(i)' = Forwarded(i)
    BY <1>a DEF Forwarded
  <2> SUFFICES ASSUME NEW m \in node'
               PROVE  /\ Forwarded(m.key)' = [i \in 1..emitted'[m.key] |-> i]
                      /\ (\E r \in subs' : r.key = m.key) => pending'[m.key] = <<>>
    BY DEF InOrder
  <2>5. CASE m \in node
    <3>1. /\ Forwarded(m.key) = [i \in 1..emitted[m.key] |-> i]
          /\ (\E r \in subs : r.key = m.key) => pending[m.key] = <<>>
      BY <2>5 DEF InOrder
    <3>2. emitted' = emitted /\ pending' = pending /\ subs' = subs
      BY <1>1, <1>a
    <3> QED
      BY <2>4, <3>1, <3>2
  <2>6. CASE m = n
    BY <2>2, <2>3, <2>6
  <2> QED
    BY <1>1, <2>5, <2>6
<1>10. OthersEnd'
  BY <1>1, <1>b DEF OthersEnd
<1>11. Alone'
  BY <1>1, <1>b DEF Alone, Phases, Numbers
<1>12. Carried'
  <2> SUFFICES ASSUME ~rejected, NEW t \in Durable, phase'[t] = "active"
               PROVE  \/ \E g \in handlers' : g.of = t
                      \/ \E r \in subs : /\ r.of = t
                                         /\ up => \E m \in node' : m.key = r.key
    BY <1>1, <1>b DEF Carried, Asked
  <2>1. phase[t] = "active"
    BY <1>1, DurableAssumption DEF Numbers
  <2> QED
    BY <1>1, <2>1 DEF Carried, Asked
<1> QED
  BY <1>2, <1>3, <1>4, <1>5, <1>6, <1>7, <1>8, <1>9, <1>10, <1>11, <1>12

LEMMA RespondOK ==
  ASSUME IInv, NEW h \in handlers, Respond(h)
  PROVE  IInv'
<1> USE DEF IInv
<1> DEFINE r == [key |-> h.key, of |-> h.of,
                 object |-> IF h.old = 0 THEN "application" ELSE "internal"]
<1>1. /\ handlers' = handlers \ {h} /\ node' = node
      /\ unanswered' = unanswered \ {h.key} /\ nextKey' = nextKey
      /\ up' = up /\ subs' = {q \in subs : q.key # h.old} \cup {r}
      /\ UNCHANGED <<emitted, rejected, cut>>
  BY DEF Respond, Replaced, DeliverEarly, bounds
<1>2. /\ current' = IF h.object = "application"
                    THEN [current EXCEPT ![h.of] = h.key] ELSE current
      /\ phase' = IF h.old = 0 THEN [phase EXCEPT ![h.of] = "active"] ELSE phase
      /\ delivered' = [delivered EXCEPT ![h.key] = Forwarded(h.key)]
      /\ pending' = [pending EXCEPT ![h.key] = <<>>]
  BY DEF Respond, DeliverEarly
<1>3. /\ h.key \in Nat \ {0} /\ h.of \in Subs /\ h.old \in Nat
      /\ h.key < nextKey /\ h.key \in Keys
  BY BoundsAssumption DEF Numbers, KeysGiven, Keys
<1>4. r \in [key : Nat \ {0}, of : Subs, object : Objects]
  BY <1>3 DEF Objects
<1>5. Numbers'
  <2>1. delivered' \in [Keys -> Seq(Nat)] /\ pending' \in [Keys -> Seq(Nat)]
    BY <1>2, <1>3 DEF Numbers, Forwarded
  <2>2. current' \in [Subs -> Nat]
    BY <1>2, <1>3 DEF Numbers
  <2>3. phase' \in [Subs -> {"idle", "asking", "active", "closed", "failed"}]
    BY <1>2, <1>3 DEF Numbers
  <2> QED
    BY <1>1, <1>4, <2>1, <2>2, <2>3 DEF Numbers
<1>6. IsFiniteSet(subs') /\ IsFiniteSet(handlers')
  <2>1. IsFiniteSet({q \in subs : q.key # h.old})
    BY FS_Subset
  <2> QED
    BY <1>1, <2>1, FS_AddElement, FS_RemoveElement
<1>7. KeysGiven'
  BY <1>1, <1>2, <1>3 DEF Numbers, KeysGiven
<1>8. KeysDiffer'
  BY <1>1, <1>2, <1>3 DEF Numbers, KeysDiffer
<1>9. KeysMean'
  BY <1>1, <1>2, <1>3 DEF Numbers, KeysMean, KeysDiffer
<1>10. NodeHas'
  BY <1>1 DEF NodeHas, KeysDiffer
<1>11. Phases'
  BY <1>1, <1>2, <1>3 DEF Phases, Numbers
<1>12. InOrder'
  <2> SUFFICES ASSUME NEW n \in node
               PROVE  /\ Forwarded(n.key)' = [i \in 1..emitted[n.key] |-> i]
                      /\ (\E q \in subs' : q.key = n.key) => pending'[n.key] = <<>>
    BY <1>1 DEF InOrder
  <2>1. n.key \in Keys /\ Forwarded(n.key) = [i \in 1..emitted[n.key] |-> i]
    BY NodeKeys DEF InOrder
  <2>2. CASE n.key = h.key
    <3>1. (delivered[n.key] \o pending[n.key]) \o <<>> = delivered[n.key] \o pending[n.key]
      BY <2>1, ConcatEmptySeq DEF Numbers, Forwarded
    <3>2. /\ delivered'[n.key] = Forwarded(n.key)
          /\ pending'[n.key] = <<>>
      BY <1>2, <2>1, <2>2 DEF Numbers
    <3>3. Forwarded(n.key)' = Forwarded(n.key) \o <<>>
      BY <3>2 DEF Forwarded
    <3> QED
      BY <2>1, <3>1, <3>2, <3>3 DEF Forwarded
  <2>3. CASE n.key # h.key
    <3>1. delivered'[n.key] = delivered[n.key] /\ pending'[n.key] = pending[n.key]
      BY <1>2, <2>1, <2>3 DEF Numbers
    <3>2. Forwarded(n.key)' = Forwarded(n.key)
      BY <3>1 DEF Forwarded
    <3>3. (\E q \in subs' : q.key = n.key) => \E q \in subs : q.key = n.key
      BY <1>1, <2>3
    <3> QED
      BY <2>1, <3>1, <3>2, <3>3 DEF InOrder
  <2> QED
    BY <2>2, <2>3
<1>13. OthersEnd'
  BY <1>1 DEF OthersEnd, NodeHas
<1>14. Alone'
  BY <1>1, <1>3 DEF Alone, Numbers
<1>15. Carried'
  <2> SUFFICES ASSUME ~rejected, NEW s \in Durable, phase'[s] = "active"
               PROVE  \/ \E g \in handlers' : g.of = s
                      \/ \E q \in subs' : /\ q.of = s
                                          /\ up => \E n \in node : n.key = q.key
    BY <1>1 DEF Carried, Asked
  <2>1. CASE s = h.of
    <3>1. r \in subs' /\ r.of = s /\ r.key = h.key
      BY <1>1, <2>1
    <3> QED
      BY <3>1 DEF NodeHas
  <2>2. CASE s # h.of
    <3>1. phase[s] = "active"
      BY <1>2, <1>3, <2>2, DurableAssumption DEF Numbers
    <3>2. CASE Asked(s)
      BY <1>1, <2>2, <3>2 DEF Asked
    <3>3. ASSUME NEW q \in subs, q.of = s, up => \E n \in node : n.key = q.key
          PROVE  q \in subs'
      BY <1>1, <2>2, <3>3 DEF KeysMean
    <3> QED
      BY <3>1, <3>2, <3>3 DEF Carried
  <2> QED
    BY <2>1, <2>2
<1> QED
  BY <1>5, <1>6, <1>7, <1>8, <1>9, <1>10, <1>11, <1>12, <1>13, <1>14, <1>15

LEMMA RespondToNobodyOK ==
  ASSUME IInv, NEW k \in unanswered, RespondToNobody(k)
  PROVE  IInv'
<1> USE DEF IInv
<1>1. /\ unanswered' = unanswered \ {k}
      /\ \A h \in handlers : h.key # k
  BY DEF RespondToNobody
<1>2. UNCHANGED <<up, client, node, notes, bounds>>
  BY DEF RespondToNobody
<1>3. Numbers'
  BY <1>1, <1>2 DEF Numbers, client, notes, bounds
<1>4. IsFiniteSet(subs') /\ IsFiniteSet(handlers')
  BY <1>2 DEF client
<1>5. KeysGiven' /\ KeysDiffer' /\ KeysMean'
  BY <1>1, <1>2 DEF KeysGiven, KeysDiffer, KeysMean, client, notes
<1>6. NodeHas'
  BY <1>1, <1>2 DEF NodeHas, client
<1>7. Phases' /\ OthersEnd' /\ Alone' /\ Carried'
  BY <1>2 DEF Phases, OthersEnd, Alone, Carried, Asked, client, bounds
<1>8. InOrder'
  BY <1>2 DEF InOrder, Forwarded, client, notes
<1> QED
  BY <1>3, <1>4, <1>5, <1>6, <1>7, <1>8

LEMMA RejectOK ==
  ASSUME IInv, NEW h \in handlers, Reject(h)
  PROVE  IInv'
<1> USE DEF IInv
<1>1. /\ handlers' = handlers \ {h} /\ node' = {n \in node : n.key # h.key}
      /\ unanswered' = unanswered \ {h.key}
      /\ phase' = IF h.old = 0 THEN [phase EXCEPT ![h.of] = "failed"] ELSE phase
      /\ subs' = subs /\ current' = current /\ nextKey' = nextKey
  BY DEF Reject
<1>2. up' = up /\ cut' = cut /\ rejected' = (rejected \/ h.old # 0)
  BY DEF Reject
<1>3. emitted' = emitted /\ delivered' = delivered /\ pending' = pending
  BY DEF Reject, notes
<1>4. h.of \in Subs /\ h.old \in Nat
  BY DEF Numbers
<1>5. Numbers'
  <2>1. rejected' \in BOOLEAN
    BY <1>2
  <2>2. phase' \in [Subs -> {"idle", "asking", "active", "closed", "failed"}]
    BY <1>1, <1>4 DEF Numbers
  <2> QED
    BY <1>1, <1>2, <1>3, <2>1, <2>2 DEF Numbers
<1>6. IsFiniteSet(subs') /\ IsFiniteSet(handlers')
  BY <1>1, FS_RemoveElement
<1>7. KeysGiven' /\ KeysDiffer' /\ KeysMean'
  BY <1>1, <1>3 DEF KeysGiven, KeysDiffer, KeysMean
<1>8. NodeHas'
  BY <1>1, <1>2 DEF NodeHas, KeysDiffer
<1>9. Phases'
  BY <1>1, <1>4 DEF Phases, Numbers
<1>10. InOrder'
  BY <1>1, <1>3 DEF InOrder, Forwarded
<1>11. OthersEnd'
  BY <1>1, <1>2 DEF OthersEnd, KeysDiffer
<1>12. Alone'
  BY <1>1, <1>2 DEF Alone
<1>13. Carried'
  <2> SUFFICES ASSUME ~rejected, h.old = 0, NEW s \in Durable, phase'[s] = "active"
               PROVE  \/ \E g \in handlers' : g.of = s
                      \/ \E q \in subs : /\ q.of = s
                                         /\ up => \E n \in node' : n.key = q.key
    BY <1>1, <1>2 DEF Carried, Asked
  <2>1. phase[s] = "active" /\ s # h.of
    BY <1>1, <1>4, DurableAssumption DEF Numbers
  <2>2. CASE Asked(s)
    BY <1>1, <2>1, <2>2 DEF Asked
  <2>3. ASSUME NEW q \in subs, q.of = s, NEW n \in node, n.key = q.key
        PROVE  n \in node'
    BY <1>1, <2>3 DEF KeysDiffer
  <2> QED
    BY <2>1, <2>2, <2>3 DEF Carried
<1> QED
  BY <1>5, <1>6, <1>7, <1>8, <1>9, <1>10, <1>11, <1>12, <1>13

LEMMA NotifyOK ==
  ASSUME IInv, NEW n \in node, Notify(n)
  PROVE  IInv'
<1> USE DEF IInv
<1> DEFINE k == n.key
           e == emitted[k]
<1>1. k \in Keys /\ k < nextKey
  BY NodeKeys DEF KeysGiven
<1>2. /\ delivered[k] \in Seq(Nat) /\ pending[k] \in Seq(Nat) /\ e \in Nat
      /\ Forwarded(k) = [i \in 1..e |-> i]
      /\ (\E r \in subs : r.key = k) => pending[k] = <<>>
  BY <1>1 DEF Numbers, InOrder
<1>3. /\ emitted' = [emitted EXCEPT ![k] = e + 1]
      /\ \/ /\ pending[k] = <<>>
            /\ delivered' = [delivered EXCEPT ![k] = Append(delivered[k], e + 1)]
            /\ pending' = pending
         \/ /\ ~\E r \in subs : r.key = k
            /\ pending' = [pending EXCEPT ![k] = Append(pending[k], e + 1)]
            /\ delivered' = delivered
  BY <1>1, <1>2 DEF Notify, Numbers
<1>4. UNCHANGED <<up, client, node, unanswered, bounds>>
  BY DEF Notify
<1>a. \A i \in Keys : i # k => /\ emitted'[i] = emitted[i]
                               /\ delivered'[i] = delivered[i]
                               /\ pending'[i] = pending[i]
  BY <1>1, <1>3 DEF Numbers
<1>5. Numbers'
  <2>1. emitted' \in [Keys -> Nat]
    BY <1>1, <1>2, <1>3 DEF Numbers
  <2>2. Append(delivered[k], e + 1) \in Seq(Nat) /\ Append(pending[k], e + 1) \in Seq(Nat)
    BY <1>2
  <2>3. delivered' \in [Keys -> Seq(Nat)]
    BY <1>1, <1>3, <2>2 DEF Numbers
  <2>4. pending' \in [Keys -> Seq(Nat)]
    BY <1>1, <1>3, <2>2 DEF Numbers
  <2> QED
    BY <1>4, <2>1, <2>3, <2>4 DEF Numbers, client, bounds
<1>6. IsFiniteSet(subs') /\ IsFiniteSet(handlers')
  BY <1>4 DEF client
<1>7. KeysGiven'
  <2>1. \A i \in Keys : i >= nextKey => /\ emitted'[i] = 0
                                        /\ delivered'[i] = <<>>
                                        /\ pending'[i] = <<>>
    BY <1>1, <1>a, NodeKeys DEF Numbers, KeysGiven, Keys
  <2> QED
    BY <1>4, <2>1 DEF KeysGiven, client
<1>8. KeysDiffer' /\ KeysMean' /\ NodeHas' /\ Phases' /\ OthersEnd'
  BY <1>4 DEF KeysDiffer, KeysMean, NodeHas, Phases, OthersEnd, client
<1>9. Alone' /\ Carried'
  BY <1>4 DEF Alone, Carried, Asked, client, bounds
<1>10. InOrder'
  <2>1. node' = node /\ subs' = subs
    BY <1>4 DEF client
  <2> SUFFICES ASSUME NEW m \in node
               PROVE  /\ delivered'[m.key] \o pending'[m.key] = [i \in 1..emitted'[m.key] |-> i]
                      /\ (\E r \in subs : r.key = m.key) => pending'[m.key] = <<>>
    BY <2>1 DEF InOrder, Forwarded
  <2>2. CASE m.key = k
    <3>1. emitted'[k] = e + 1
      BY <1>1, <1>3 DEF Numbers
    <3>2. delivered'[k] \o pending'[k] = [i \in 1..(e + 1) |-> i]
      <4> DEFINE both == delivered[k] \o pending[k]
                 new  == delivered'[k] \o pending'[k]
      <4>1. Counts(both, e)
        BY <1>2 DEF Forwarded, Counts
      <4>2. \/ /\ pending[k] = <<>>
               /\ delivered'[k] = Append(delivered[k], e + 1)
               /\ pending'[k] = pending[k]
            \/ /\ pending'[k] = Append(pending[k], e + 1)
               /\ delivered'[k] = delivered[k]
        BY <1>1, <1>3 DEF Numbers
      <4>3. new \in Seq(Nat) /\ Counts(new, e + 1)
        BY <1>2, <4>1, <4>2, Counting
      <4>4. PICK f \in Nat : f = e + 1
        BY <1>2
      <4>5. PICK t : t = [i \in 1..f |-> i]
        OBVIOUS
      <4> HIDE DEF new, k, e
      <4>6. t \in Seq(Nat) /\ Len(t) = f /\ \A i \in 1..f : t[i] = i
        BY <4>5
      <4>7. new = t
        BY <4>3, <4>4, <4>6, SeqEqual DEF Counts
      <4> QED
        BY <4>4, <4>5, <4>7 DEF new
    <3>3. (\E r \in subs : r.key = k) => pending'[k] = <<>>
      BY <1>1, <1>2, <1>3 DEF Numbers
    <3> QED
      BY <2>2, <3>1, <3>2, <3>3
  <2>3. CASE m.key # k
    <3>1. m.key \in Keys
      BY NodeKeys
    <3>2. /\ emitted'[m.key] = emitted[m.key] /\ delivered'[m.key] = delivered[m.key]
          /\ pending'[m.key] = pending[m.key]
      BY <1>1, <1>3, <2>3, <3>1 DEF Numbers
    <3> QED
      BY <3>2 DEF InOrder, Forwarded
  <2> QED
    BY <2>2, <2>3
<1> QED
  BY <1>5, <1>6, <1>7, <1>8, <1>9, <1>10

LEMMA UnsubscribeOK ==
  ASSUME IInv, NEW s \in Subs, Unsubscribe(s)
  PROVE  IInv'
<1> USE DEF IInv
<1>1. /\ phase[s] = "active" /\ phase' = [phase EXCEPT ![s] = "closed"]
      /\ subs' = {r \in subs : r.key # current[s]}
      /\ node' = {n \in node : n.key # current[s]}
      /\ current' = current /\ handlers' = handlers /\ unanswered' = unanswered
      /\ nextKey' = nextKey
  BY DEF Unsubscribe
<1>2. UNCHANGED <<up, rejected, cut>>
  BY DEF Unsubscribe, bounds
<1>3. emitted' = emitted /\ delivered' = delivered /\ pending' = pending
  BY DEF Unsubscribe, notes
<1>4. Numbers'
  <2>1. phase' \in [Subs -> {"idle", "asking", "active", "closed", "failed"}]
    BY <1>1 DEF Numbers
  <2> QED
    BY <1>1, <1>2, <1>3, <2>1 DEF Numbers
<1>5. IsFiniteSet(subs') /\ IsFiniteSet(handlers')
  BY <1>1, FS_Subset
<1>6. KeysGiven' /\ KeysDiffer' /\ KeysMean'
  BY <1>1, <1>3 DEF KeysGiven, KeysDiffer, KeysMean
<1>7. NodeHas'
  BY <1>1, <1>2 DEF NodeHas, KeysDiffer
<1>8. Phases'
  BY <1>1 DEF Phases, Numbers
<1>9. InOrder'
  BY <1>1, <1>3 DEF InOrder, Forwarded
<1>10. OthersEnd'
  BY <1>1, <1>2 DEF OthersEnd
<1>11. Alone'
  BY <1>1, <1>2 DEF Alone
<1>12. Carried'
  <2> SUFFICES ASSUME ~rejected, NEW t \in Durable, phase'[t] = "active"
               PROVE  \/ \E g \in handlers : g.of = t
                      \/ \E r \in subs' : /\ r.of = t
                                          /\ up => \E n \in node' : n.key = r.key
    BY <1>1, <1>2 DEF Carried, Asked
  <2>1. phase[t] = "active" /\ t # s
    BY <1>1, DurableAssumption DEF Numbers
  <2>2. \A r \in subs : r.of = t => r.key # current[s]
    BY <2>1 DEF KeysMean
  <2> QED
    BY <1>1, <2>1, <2>2 DEF Carried, Asked
<1> QED
  BY <1>4, <1>5, <1>6, <1>7, <1>8, <1>9, <1>10, <1>11, <1>12

\* A loss leaves the records and the requests, and nothing in the node.
LEMMA LoseOK ==
  ASSUME IInv, Lose
  PROVE  IInv'
<1> USE DEF IInv
<1>1. /\ subs' = subs /\ handlers' = handlers /\ node' = {} /\ unanswered' = {}
      /\ current' = current /\ phase' = phase /\ nextKey' = nextKey
  BY DEF Lose, client
<1>2. emitted' = emitted /\ delivered' = delivered /\ pending' = [k \in Keys |-> <<>>]
  BY DEF Lose
<1>3. up' = FALSE /\ rejected' = rejected /\ cut' = (cut \/ \E h \in handlers : h.old # 0)
  BY DEF Lose
<1>4. Numbers'
  <2>1. cut' \in BOOLEAN /\ up' \in BOOLEAN
    BY <1>3
  <2>2. pending' \in [Keys -> Seq(Nat)]
    BY <1>2
  <2> QED
    BY <1>1, <1>2, <1>3, <2>1, <2>2 DEF Numbers
<1>5. IsFiniteSet(subs') /\ IsFiniteSet(handlers')
  BY <1>1
<1>6. KeysGiven' /\ KeysDiffer' /\ KeysMean'
  BY <1>1, <1>2 DEF KeysGiven, KeysDiffer, KeysMean
<1>7. NodeHas' /\ OthersEnd'
  BY <1>3 DEF NodeHas, OthersEnd
<1>8. Phases' /\ InOrder'
  BY <1>1 DEF Phases, InOrder
<1>9. Alone'
  BY <1>1, <1>3 DEF Alone
<1>10. Carried'
  BY <1>1, <1>3 DEF Carried, Asked
<1> QED
  BY <1>4, <1>5, <1>6, <1>7, <1>8, <1>9, <1>10

\* What the renewals have of the records, and the repeated requests of those
\* that waited: their subscription and the record they replace, each under a
\* number of its own.
LEMMA Resent ==
  ASSUME Numbers, IsFiniteSet(subs), IsFiniteSet(handlers)
  PROVE  LET first == nextKey + Cardinality(Renewals)
         IN  /\ Cardinality(Renewals) \in Nat /\ Cardinality(Waiting) \in Nat
             /\ IsFiniteSet(Renewals) /\ IsFiniteSet(Repeats)
             /\ \A w \in Renewals :
                   /\ w \in [key : Nat \ {0}, of : Subs, old : Nat, object : Objects]
                   /\ w.key >= nextKey /\ w.key < first
                   /\ \E r \in KeptRecords : w.of = r.of /\ w.old = r.key
             /\ \A r \in KeptRecords : \E w \in Renewals : w.of = r.of /\ w.old = r.key
             /\ \A v, w \in Renewals :
                   v = w \/ \E q, r \in KeptRecords : /\ q # r
                                                      /\ v.of = q.of /\ v.old = q.key
                                                      /\ w.of = r.of /\ w.old = r.key
             /\ \A p \in Repeats :
                   /\ p \in [key : Nat \ {0}, of : Subs, old : Nat, object : Objects]
                   /\ p.key >= first /\ p.key < first + Cardinality(Waiting)
                   /\ \E w \in Waiting : p.of = w.of /\ p.old = w.old
             /\ \A w \in Waiting : \E p \in Repeats : p.of = w.of /\ p.old = w.old
             /\ \A p, q \in Repeats :
                   \/ p = q
                   \/ /\ p.key # q.key
                      /\ \E v, w \in Waiting : /\ v # w
                                               /\ p.of = v.of /\ p.old = v.old
                                               /\ q.of = w.of /\ q.old = w.old
<1> DEFINE H == [key : Nat \ {0}, of : Subs, old : Nat, object : Objects]
           N == Cardinality(KeptRecords)
           kept == SetToSeq(KeptRecords)
           renewal == [i \in 1..N |-> [key |-> nextKey + i - 1, of |-> kept[i].of,
                                       old |-> kept[i].key, object |-> kept[i].object]]
<1>a. nextKey \in Nat \ {0}
  BY DEF Numbers
<1>1. IsFiniteSet(KeptRecords) /\ KeptRecords \subseteq subs
  BY FS_Subset DEF KeptRecords
<1>b. \A r \in KeptRecords : /\ r.key \in Nat \ {0} /\ r.of \in Subs
                             /\ r.object \in Objects /\ r.of \in Durable
  BY DEF Numbers, KeptRecords
<1>2. PICK place \in [KeptRecords -> 1..N] :
        /\ \A r \in KeptRecords : kept[place[r]] = r
        /\ \A i \in 1..N : kept[i] \in KeptRecords /\ place[kept[i]] = i
  BY <1>1, Enumerated
<1>3. N \in Nat /\ Len(kept) = N
  BY <1>1, Enumerated
<1>4. Renewals = {renewal[i] : i \in 1..N}
  BY <1>3 DEF Renewals
<1>5. \A i \in 1..N : /\ renewal[i] \in H /\ renewal[i].key = nextKey + i - 1
                      /\ renewal[i].of = kept[i].of /\ renewal[i].old = kept[i].key
                      /\ kept[i].of \in Durable
  <2> SUFFICES ASSUME NEW i \in 1..N
               PROVE  /\ renewal[i] \in H /\ renewal[i].key = nextKey + i - 1
                      /\ renewal[i].of = kept[i].of /\ renewal[i].old = kept[i].key
                      /\ kept[i].of \in Durable
    OBVIOUS
  <2>1. PICK r : r = kept[i] /\ r \in KeptRecords
    BY <1>2
  <2>2. PICK k \in Nat \ {0} : k = nextKey + i - 1
    BY <1>a, <1>3
  <2>3. renewal[i] = [key |-> k, of |-> r.of, old |-> r.key, object |-> r.object]
    BY <2>1, <2>2
  <2> HIDE DEF renewal, kept
  <2> QED
    BY <1>b, <2>1, <2>2, <2>3
<1>6. IsFiniteSet(Renewals) /\ Cardinality(Renewals) = N
  <2>1. renewal \in Bijection(1..N, Renewals)
    <3>1. renewal \in [1..N -> Renewals]
      BY <1>4
    <3>2. \A i, j \in 1..N : renewal[i] = renewal[j] => i = j
      BY <1>3, <1>5 DEF Numbers
    <3> HIDE DEF renewal
    <3> QED
      BY <1>4, <3>1, <3>2 DEF Bijection, Injection, Surjection, IsInjective
  <2>2. IsFiniteSet(1..N) /\ Cardinality(1..N) = N
    BY <1>3, FS_Interval
  <2> QED
    BY <2>1, <2>2, FS_Bijection DEF ExistsBijection
<1> HIDE DEF renewal
<1>7. Waiting \subseteq H /\ IsFiniteSet(Waiting)
  <2>1. IsFiniteSet({h \in handlers : h.of \in Durable})
    BY FS_Subset
  <2>2. Renewals \subseteq H
    BY <1>4, <1>5
  <2> QED
    BY <1>6, <2>1, <2>2, FS_Union DEF Waiting, Numbers
<1> DEFINE M == Cardinality(Waiting)
           waiting == SetToSeq(Waiting)
           first == nextKey + N
           repeat == [i \in 1..M |-> [waiting[i] EXCEPT !.key = first + i - 1]]
<1>8. PICK spot \in [Waiting -> 1..M] :
        /\ \A w \in Waiting : waiting[spot[w]] = w
        /\ \A i \in 1..M : waiting[i] \in Waiting /\ spot[waiting[i]] = i
  BY <1>7, Enumerated
<1>9. M \in Nat /\ Len(waiting) = M
  BY <1>7, Enumerated
<1>10. Repeats = {repeat[i] : i \in 1..M}
  BY <1>6, <1>9 DEF Repeats
<1>11. \A i \in 1..M : /\ repeat[i] \in H /\ repeat[i].key = first + i - 1
                       /\ repeat[i].of = waiting[i].of /\ repeat[i].old = waiting[i].old
  <2> SUFFICES ASSUME NEW i \in 1..M
               PROVE  /\ repeat[i] \in H /\ repeat[i].key = first + i - 1
                      /\ repeat[i].of = waiting[i].of /\ repeat[i].old = waiting[i].old
    OBVIOUS
  <2>1. PICK w : w = waiting[i] /\ w \in H
    BY <1>7, <1>8
  <2>2. PICK k \in Nat \ {0} : k = first + i - 1
    BY <1>a, <1>3, <1>9
  <2>3. repeat[i] = [w EXCEPT !.key = k]
    BY <2>1, <2>2
  <2> HIDE DEF repeat, waiting, first
  <2> QED
    BY <2>1, <2>2, <2>3
<1> HIDE DEF repeat
<1>12. IsFiniteSet(Repeats)
  <2>1. repeat \in Surjection(1..M, Repeats)
    <3>1. DOMAIN repeat = 1..M /\ repeat \in [1..M -> Repeats]
      BY <1>10 DEF repeat
    <3> QED
      BY <1>10, <3>1 DEF Surjection
  <2> QED
    BY <1>9, <2>1, FS_Interval, FS_Surjection
<1>13. \A w \in Renewals : /\ w \in H /\ w.key >= nextKey /\ w.key < first
                           /\ \E r \in KeptRecords : w.of = r.of /\ w.old = r.key
  <2> SUFFICES ASSUME NEW i \in 1..N
               PROVE  /\ renewal[i] \in H
                      /\ renewal[i].key >= nextKey /\ renewal[i].key < first
                      /\ \E r \in KeptRecords : renewal[i].of = r.of /\ renewal[i].old = r.key
    BY <1>4
  <2>1. renewal[i].key >= nextKey /\ renewal[i].key < first
    BY <1>a, <1>3, <1>5
  <2> QED
    BY <1>2, <1>5, <2>1
<1>14. \A r \in KeptRecords : \E w \in Renewals : w.of = r.of /\ w.old = r.key
  BY <1>2, <1>4, <1>5
<1>15. \A v, w \in Renewals :
          v = w \/ \E q, r \in KeptRecords : /\ q # r
                                             /\ v.of = q.of /\ v.old = q.key
                                             /\ w.of = r.of /\ w.old = r.key
  BY <1>2, <1>4, <1>5
<1>16. \A p \in Repeats : /\ p \in H /\ p.key >= first /\ p.key < first + M
                          /\ \E w \in Waiting : p.of = w.of /\ p.old = w.old
  <2> SUFFICES ASSUME NEW i \in 1..M
               PROVE  /\ repeat[i] \in H
                      /\ repeat[i].key >= first /\ repeat[i].key < first + M
                      /\ \E w \in Waiting : repeat[i].of = w.of /\ repeat[i].old = w.old
    BY <1>10
  <2>1. repeat[i].key >= first /\ repeat[i].key < first + M
    BY <1>a, <1>3, <1>9, <1>11
  <2> QED
    BY <1>8, <1>11, <2>1
<1>17. \A w \in Waiting : \E p \in Repeats : p.of = w.of /\ p.old = w.old
  BY <1>8, <1>10, <1>11
<1>18. \A p, q \in Repeats :
          \/ p = q
          \/ /\ p.key # q.key
             /\ \E v, w \in Waiting : /\ v # w
                                      /\ p.of = v.of /\ p.old = v.old
                                      /\ q.of = w.of /\ q.old = w.old
  <2> SUFFICES ASSUME NEW i \in 1..M, NEW j \in 1..M, i # j
               PROVE  /\ repeat[i].key # repeat[j].key
                      /\ waiting[i] # waiting[j]
                      /\ waiting[i] \in Waiting /\ waiting[j] \in Waiting
    BY <1>10, <1>11
  <2>1. repeat[i].key # repeat[j].key
    <3>1. repeat[i].key = first + i - 1 /\ repeat[j].key = first + j - 1
      BY <1>11
    <3>2. PICK k \in Nat : k = first
      BY <1>a, <1>3
    <3>3. i \in Int /\ j \in Int
      BY <1>9
    <3> HIDE DEF first
    <3> QED
      BY <3>1, <3>2, <3>3
  <2> QED
    BY <1>8, <2>1
<1> QED
  BY <1>3, <1>6, <1>9, <1>12, <1>13, <1>14, <1>15, <1>16, <1>17, <1>18

LEMMA OpenOK ==
  ASSUME IInv, Open
  PROVE  IInv'
<1> USE DEF IInv
<1> DEFINE H == [key : Nat \ {0}, of : Subs, old : Nat, object : Objects]
<1>1. PICK n \in Nat, m \in Nat : n = Cardinality(Renewals) /\ m = Cardinality(Waiting)
  BY Resent
<1>2. /\ up' = TRUE /\ ~up
      /\ nextKey' = nextKey + n + m /\ nextKey' <= MaxKeys + 1
      /\ subs' = KeptRecords /\ handlers' = Repeats /\ current' = current
      /\ node' = {[key |-> h.key, of |-> h.of] : h \in Renewals \cup Repeats}
      /\ unanswered' = {h.key : h \in Renewals \cup Repeats}
      /\ phase' = [s \in Subs |->
                     IF phase[s] = "asking" /\ s \notin Durable THEN "failed"
                                                                ELSE phase[s]]
  BY <1>1 DEF Open
<1>3. emitted' = emitted /\ delivered' = delivered /\ pending' = pending
  BY DEF Open, notes
<1>4. rejected' = rejected /\ cut' = cut
  BY DEF Open, bounds
<1>5. nextKey \in Nat \ {0}
  BY DEF Numbers
<1>6. \A w \in Renewals : w \in H /\ w.key >= nextKey /\ w.key < nextKey + n + m
  BY <1>1, <1>5, Resent
<1>7. \A p \in Repeats : /\ p \in H /\ p.key >= nextKey /\ p.key < nextKey + n + m
                         /\ \E w \in Waiting : p.of = w.of /\ p.old = w.old
  BY <1>1, <1>5, Resent
<1>8. \A w \in Waiting : \/ w \in handlers /\ w.of \in Durable
                         \/ \E r \in KeptRecords : w.of = r.of /\ w.old = r.key
  BY Resent DEF Waiting
<1>9. \A r \in KeptRecords : r \in subs /\ r.of \in Durable
  BY DEF KeptRecords
<1>10. \A p \in Repeats : /\ p.of \in Durable
                          /\ \/ \E h \in handlers : p.of = h.of /\ p.old = h.old
                             \/ \E r \in KeptRecords : p.of = r.of /\ p.old = r.key
  BY <1>7, <1>8, <1>9
<1>11. \A k \in unanswered' : k \in Nat \ {0} /\ k >= nextKey /\ k < nextKey + n + m
  BY <1>2, <1>6, <1>7
<1>12. \A l \in node' : l \in [key : Nat \ {0}, of : Subs] /\ l.key \in unanswered'
  BY <1>2, <1>6, <1>7
<1>13. Numbers'
  <2>1. phase' \in [Subs -> {"idle", "asking", "active", "closed", "failed"}]
    BY <1>2 DEF Numbers
  <2>2. subs' \subseteq subs /\ handlers' \subseteq H
    BY <1>2, <1>7, <1>9
  <2>3. unanswered' \subseteq Nat \ {0} /\ node' \subseteq [key : Nat \ {0}, of : Subs]
    BY <1>11, <1>12
  <2>4. nextKey' \in Nat \ {0}
    BY <1>1, <1>2, <1>5
  <2>5. up' \in BOOLEAN
    BY <1>2
  <2> QED
    BY <1>2, <1>3, <1>4, <2>1, <2>2, <2>3, <2>4, <2>5 DEF Numbers
<1>14. IsFiniteSet(subs') /\ IsFiniteSet(handlers')
  BY <1>2, FS_Subset, Resent DEF KeptRecords
<1>15. KeysGiven'
  <2>1. \A k \in Nat : k < nextKey => k < nextKey'
    BY <1>1, <1>2, <1>5
  <2>2. \A r \in subs' : r.key < nextKey'
    BY <1>2, <1>9, <2>1 DEF KeysGiven, Numbers
  <2>3. \A h \in handlers' : h.key < nextKey' /\ h.old < nextKey'
    BY <1>2, <1>7, <1>9, <1>10, <2>1 DEF KeysGiven, Numbers
  <2>4. \A l \in node' : l.key < nextKey'
    BY <1>2, <1>11, <1>12
  <2>5. \A k \in unanswered' : k < nextKey'
    BY <1>2, <1>11
  <2>6. \A s \in Subs : current'[s] < nextKey'
    BY <1>2, <2>1 DEF KeysGiven, Numbers
  <2>7. \A k \in Keys : k >= nextKey' => k >= nextKey
    BY <1>1, <1>2, <1>5, BoundsAssumption DEF Keys
  <2>8. \A k \in Keys : k >= nextKey' => /\ emitted'[k] = 0
                                         /\ delivered'[k] = <<>>
                                         /\ pending'[k] = <<>>
    BY <1>3, <2>7 DEF KeysGiven
  <2> QED
    BY <1>2, <2>2, <2>3, <2>4, <2>5, <2>6, <2>8 DEF KeysGiven
<1>16. KeysDiffer'
  <2>1. \A p, q \in Repeats : p.key = q.key => p = q
    BY Resent
  <2>2. \A h \in handlers : h.old \in Nat /\ h.old < nextKey
    BY DEF KeysGiven, Numbers
  <2>3. \A r \in subs : r.key \in Nat /\ r.key < nextKey
    BY DEF KeysGiven, Numbers
  <2>4. \A s \in Subs : current[s] \in Nat /\ current[s] < nextKey
    BY DEF KeysGiven, Numbers
  <2>5. \A p, q \in Repeats : q.old # p.key
    BY <1>5, <1>7, <1>9, <1>10, <2>2, <2>3
  <2>6. \A p \in Repeats : /\ \A r \in subs : r.key # p.key
                           /\ \A s \in Subs : current[s] # p.key
    BY <1>5, <1>7, <2>3, <2>4
  <2> QED
    BY <1>2, <1>9, <2>1, <2>5, <2>6 DEF KeysDiffer
<1>17. KeysMean'
  <2>1. \A q, r \in subs : q.key = r.key => q.of = r.of
    BY DEF KeysMean
  <2> QED
    BY <1>2, <1>9, <1>10, <2>1 DEF KeysMean
<1>18. NodeHas'
  <2> SUFFICES ASSUME NEW p \in Repeats
               PROVE  p.key \in unanswered' /\ \E l \in node' : l.key = p.key
    BY <1>2 DEF NodeHas
  <2>1. [key |-> p.key, of |-> p.of] \in node' /\ p.key \in unanswered'
    BY <1>2
  <2> QED
    BY <2>1
<1>19. Phases'
  <2>1. \A s \in Durable : phase'[s] = phase[s]
    BY <1>2, DurableAssumption
  <2>2. \A s \in Subs : phase[s] # "idle" => phase'[s] # "idle"
    BY <1>2
  <2>3. \A r \in subs : r.of \in Subs /\ r.key # 0
    BY DEF Numbers
  <2>4. \A r \in subs' : phase'[r.of] # "idle"
    BY <1>2, <1>9, <2>1 DEF Phases
  <2>5. \A p \in Repeats : /\ phase'[p.of] # "idle"
                           /\ p.old = 0 => phase'[p.of] = "asking"
    BY <1>9, <1>10, <2>1, <2>3 DEF Phases
  <2>6. ASSUME NEW p \in Repeats, NEW q \in Repeats, p.of = q.of, p.old = 0, q.old = 0,
               p # q
        PROVE  FALSE
    <3>1. PICK v, w \in Waiting : /\ v # w
                                  /\ p.of = v.of /\ p.old = v.old
                                  /\ q.of = w.of /\ q.old = w.old
      BY <2>6, Resent
    <3>2. v \in handlers /\ w \in handlers
      BY <1>8, <1>9, <2>3, <2>6, <3>1
    <3> QED
      BY <2>6, <3>1, <3>2 DEF Phases
  <2> QED
    BY <1>2, <2>4, <2>5, <2>6 DEF Phases
<1>20. InOrder'
  <2> SUFFICES ASSUME NEW l \in node'
               PROVE  /\ Forwarded(l.key)' = [i \in 1..emitted'[l.key] |-> i]
                      /\ (\E r \in subs' : r.key = l.key) => pending'[l.key] = <<>>
    BY DEF InOrder
  <2>1. PICK k : k = l.key /\ k \in Keys /\ k >= nextKey
    BY <1>1, <1>2, <1>5, <1>11, <1>12, BoundsAssumption DEF Keys
  <2>2. emitted[k] = 0 /\ delivered[k] = <<>> /\ pending[k] = <<>>
    BY <2>1 DEF KeysGiven
  <2>3. <<>> \o <<>> = <<>>
    BY ConcatEmptySeq, EmptySeq
  <2>4. Forwarded(l.key)' = <<>>
    BY <1>3, <2>1, <2>2, <2>3 DEF Forwarded
  <2>5. [i \in 1..0 |-> i] = <<>>
    OBVIOUS
  <2> QED
    BY <1>3, <2>1, <2>2, <2>4, <2>5
<1>21. OthersEnd'
  BY <1>2, <1>9 DEF OthersEnd
<1>22. Alone'
  <2> SUFFICES ASSUME ~cut
               PROVE  /\ \A q, r \in KeptRecords : q.of = r.of => q = r
                      /\ \A p, q \in Repeats : p.of = q.of => p = q
                      /\ \A r \in KeptRecords, p \in Repeats : p.of = r.of => p.old = r.key
    BY <1>2, <1>4 DEF Alone
  <2>1. /\ \A q, r \in subs : q.of = r.of => q = r
        /\ \A g, h \in handlers : g.of = h.of => g = h
        /\ \A r \in subs, h \in handlers : h.of # r.of
    <3>1. \A r \in subs : r.key # 0
      BY DEF Numbers
    <3> QED
      BY <1>2, <3>1 DEF Alone
  <2>2. \A p \in Repeats, r \in KeptRecords : p.of = r.of => p.old = r.key
    BY <1>9, <1>10, <2>1
  <2>3. \A v, w \in Waiting : v.of = w.of => v = w
    <3>1. \A v, w \in Renewals : v.of = w.of => v = w
      BY <1>9, <2>1, Resent
    <3>2. \A v \in Renewals, h \in handlers : v.of # h.of
      BY <1>9, <2>1, Resent
    <3> QED
      BY <2>1, <3>1, <3>2 DEF Waiting
  <2>4. \A p, q \in Repeats : p.of = q.of => p = q
    BY <2>3, Resent
  <2> QED
    BY <1>9, <2>1, <2>2, <2>4
<1>23. Carried'
  <2> SUFFICES ASSUME ~rejected, NEW s \in Durable, phase'[s] = "active"
               PROVE  \E p \in Repeats : p.of = s
    BY <1>2, <1>4 DEF Carried, Asked
  <2>1. phase[s] = "active"
    BY <1>2, DurableAssumption
  <2>2. \E w \in Waiting : w.of = s
    <3>1. CASE Asked(s)
      BY <3>1 DEF Asked, Waiting
    <3>2. ASSUME NEW r \in subs, r.of = s PROVE \E w \in Waiting : w.of = s
      BY <3>2, Resent DEF KeptRecords, Waiting
    <3> QED
      BY <2>1, <3>1, <3>2 DEF Carried
  <2> QED
    BY <2>2, Resent
<1> QED
  BY <1>13, <1>14, <1>15, <1>16, <1>17, <1>18, <1>19, <1>20, <1>21, <1>22, <1>23

LEMMA Inductive == IInv /\ [Next]_vars => IInv'
<1> SUFFICES ASSUME IInv, [Next]_vars PROVE IInv'
  OBVIOUS
<1>1. CASE UNCHANGED vars
  <2>1. UNCHANGED <<up, phase, current, subs, handlers, nextKey, node, unanswered,
                    emitted, delivered, pending, rejected, cut>>
    BY <1>1 DEF vars, client, notes, bounds
  <2>2. Numbers'
    BY <2>1 DEF IInv, Numbers
  <2>3. KeysGiven' /\ KeysDiffer' /\ KeysMean' /\ NodeHas' /\ Phases'
    BY <2>1 DEF IInv, KeysGiven, KeysDiffer, KeysMean, NodeHas, Phases
  <2>4. InOrder' /\ OthersEnd'
    BY <2>1 DEF IInv, InOrder, Forwarded, OthersEnd
  <2>5. Alone' /\ Carried'
    BY <2>1 DEF IInv, Alone, Carried, Asked
  <2> QED
    BY <2>1, <2>2, <2>3, <2>4, <2>5 DEF IInv
<1>2. CASE Next
  BY <1>2, LoseOK, OpenOK, SubscribeOK, UnsubscribeOK, RespondOK, RejectOK,
     RespondToNobodyOK, NotifyOK DEF Next
<1> QED
  BY <1>1, <1>2

\* The record of a subscription that the node knows on this connection is
\* there: the invariant says so of every connection.
LEMMA Agree == IInv => RecordsAgree
<1> SUFFICES ASSUME IInv PROVE RecordsAgree
  OBVIOUS
<1>1. Survives
  BY DEF IInv, Survives, Carried, LiveRecords
<1>2. OthersEnd
  BY DEF IInv
<1>3. CallbackOnce
  <2> SUFFICES ASSUME ~cut, NEW s \in Subs PROVE Cardinality(LiveRecords(s)) <= 1
    BY DEF CallbackOnce
  <2>1. \A q, r \in LiveRecords(s) : q = r
    BY DEF IInv, Alone, LiveRecords
  <2>2. CASE LiveRecords(s) = {}
    BY <2>2, FS_EmptySet
  <2>3. ASSUME NEW r \in LiveRecords(s) PROVE Cardinality(LiveRecords(s)) = 1
    <3>1. LiveRecords(s) = {r}
      BY <2>1
    <3> QED
      BY <3>1, FS_Singleton
  <2> QED
    BY <2>2, <2>3
<1> QED
  BY <1>1, <1>2, <1>3 DEF RecordsAgree

LEMMA Invariance == Spec => []IInv
<1> QED BY Initially, Inductive, PTL DEF Spec

\* No notification of a subscription is lost, repeated or overtaken, those
\* that come before the answer to its request included, for any number of
\* subscriptions, losses and notifications.
THEOREM NotificationsInOrder == Spec => []InOrder
<1>1. IInv => InOrder
  BY DEF IInv
<1> QED BY <1>1, Invariance, PTL

\* The records of the provider are those of the node's subscriptions: a
\* durable subscription survives every loss, another one ends with its
\* connection, and no callback is called twice for a notification unless a
\* renewal was cut.
THEOREM RecordsAlwaysAgree == Spec => []RecordsAgree
<1> QED BY Agree, Invariance, PTL
=============================================================================
