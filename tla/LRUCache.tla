------------------------------ MODULE LRUCache ------------------------------
(***************************************************************************)
(* LRUCache of packages/utils/src/cache/LRUCache.ts: two maps, one of the  *)
(* values and one of the nodes of a doubly linked list that #head and      *)
(* #tail delimit.  The list is not kept circular: the next of the tail and *)
(* the prev of the head may refer to any node, also to one that is gone.   *)
(*                                                                         *)
(* There is one node for a key at a time, so a node is named by its key.   *)
(* Its expiry is kept as the ticks that are left, so that no clock is      *)
(* needed.  DISABLED_TTL is a TTL no Tick is counted against.              *)
(*                                                                         *)
(* set() adds the node, evicts what has expired and stores the value last: *)
(* when it takes longer than TTL, which with a TTL of 0 is one tick of the *)
(* clock, the new node is evicted and the value stays behind without one.  *)
(***************************************************************************)
EXTENDS Integers, SequencesExt

CONSTANTS Keys,     \* the keys
          Capacity, \* capacity
          TTL,      \* #ttl, in ticks of Date.now()
          NoNode    \* the '<empty>' node

ASSUME NoNodeAssumption == NoNode \notin Keys
ASSUME CapacityAssumption == Capacity \in Nat
ASSUME TTLAssumption == TTL \in Nat

VARIABLES cache,  \* the fields #data, #refs, #length, #head, #tail and the
                  \* fields next and prev of the nodes
          left,   \* what is left of the expiry of each node
          answer, \* what the last call returned
          outlived \* history: the keys whose set() outlived their node

lruVars == <<cache, left, answer, outlived>>

Values == {"truthy", "falsy"}

Void == "void" \* no value

YesNo(test) == IF test THEN "yes" ELSE "no"

Links == [Keys \cup {NoNode} -> Keys \cup {NoNode}]

LruTypeOK == /\ cache \in [data : [Keys -> Values \cup {Void}],
                           refs : SUBSET Keys,
                           length : 0..Capacity,
                           head : Keys \cup {NoNode},
                           tail : Keys \cup {NoNode},
                           next : Links,
                           prev : Links]
             /\ left \in [Keys -> -1..TTL]
             /\ answer \in Values \cup {Void, "null", "yes", "no"}
             /\ outlived \in SUBSET Keys

\* The links of nodes that nothing is linked to.
Alone == [k \in Keys \cup {NoNode} |-> k]

Emptied(c) == [c EXCEPT !.head = NoNode, !.tail = NoNode]

LruInit == /\ cache = [data |-> [k \in Keys |-> Void],
                       refs |-> {},
                       length |-> 0,
                       head |-> NoNode,
                       tail |-> NoNode,
                       next |-> Alone,
                       prev |-> Alone]
           /\ left = [k \in Keys |-> -1]
           /\ answer = Void
           /\ outlived = {}

----------------------------------------------------------------------------
(***************************************************************************)
(* The list.                                                               *)
(***************************************************************************)
\* The links around a node that delete() or #evictTTL() takes out.
Unlinked(c, k) ==
    IF k = c.head
    THEN [c EXCEPT !.head = c.next[k],
                   !.prev[c.next[k]] = c.tail,
                   !.next[c.tail] = c.next[k]]
    ELSE IF k = c.tail
    THEN [c EXCEPT !.tail = c.prev[k],
                   !.next[c.prev[k]] = c.head,
                   !.prev[c.head] = c.prev[k]]
    ELSE [c EXCEPT !.next[c.prev[k]] = c.next[k],
                   !.prev[c.next[k]] = c.prev[k]]

\* Nothing reads the links of a node that is gone.
Gone(c, k) == [c EXCEPT !.data[k] = Void, !.refs = @ \ {k},
                        !.next[k] = k, !.prev[k] = k]

RemovedUncounted(c, k) == \* mutant: #length is not decremented
    Gone(IF c.length = 1 THEN Emptied(c) ELSE Unlinked(c, k), k)

Removed(c, k) ==
    [Gone(IF c.length = 1 THEN Emptied(c) ELSE Unlinked(c, k), k)
        EXCEPT !.length = @ - 1]

\* #evictTTL(): every node whose expiry is over goes.
Swept(c, life) ==
    LET keysToDelete == SetToSeq({k \in c.refs : life[k] < 0})
        swept[n \in 0..Len(keysToDelete)] ==
            IF n = 0 THEN c ELSE Removed(swept[n - 1], keysToDelete[n])
    IN  swept[Len(keysToDelete)]

ToHeadKeepingTail(c, k) == \* mutant: a tail that moves to the head stays tail
    IF k \notin c.refs \/ k = c.head THEN c
    ELSE LET out == [c EXCEPT !.next[c.prev[k]] = c.next[k],
                              !.prev[c.next[k]] = c.prev[k]]
         IN  [out EXCEPT !.next[k] = out.head, !.prev[k] = out.tail,
                         !.prev[out.head] = k, !.head = k]

\* #toHead(), without the refresh of the node.
ToHead(c, k) ==
    IF k \notin c.refs \/ k = c.head THEN c
    ELSE LET out == IF k = c.tail
                    THEN [c EXCEPT !.tail = c.prev[k],
                                   !.next[c.prev[k]] = c.head]
                    ELSE [c EXCEPT !.next[c.prev[k]] = c.next[k],
                                   !.prev[c.next[k]] = c.prev[k]]
         IN  [out EXCEPT !.next[k] = out.head, !.prev[k] = out.tail,
                         !.prev[out.head] = k, !.head = k]

\* A new node becomes the head.
Pushed(c, k) ==
    LET new == [c EXCEPT !.refs = @ \cup {k}, !.next[k] = k, !.prev[k] = k]
    IN  IF c.length = 0
        THEN [new EXCEPT !.head = k, !.tail = k]
        ELSE [new EXCEPT !.prev[c.head] = k, !.next[k] = c.head, !.head = k]

\* A cache that was full gives up its tail, the others count the new node.
Fitting(c) ==
    IF c.length = Capacity
    THEN LET last == c.prev[c.tail]
         IN  [Gone(c, c.tail) EXCEPT !.tail = last, !.next[last] = c.head]
    ELSE [c EXCEPT !.length = @ + 1]

----------------------------------------------------------------------------
(***************************************************************************)
(* The operations.                                                         *)
(***************************************************************************)
Aged(life, ticks) ==
    [k \in Keys |-> IF life[k] >= ticks THEN life[k] - ticks ELSE -1]

\* A node that is gone has no life left.
Becomes(c, life) == /\ cache' = c
                    /\ left' = [k \in Keys |-> IF k \in c.refs THEN life[k] ELSE -1]

Tick == /\ left' = Aged(left, 1)
        /\ UNCHANGED <<cache, answer, outlived>>

Get(k) == LET swept == Swept(cache, left)
          IN  /\ IF swept.data[k] = "truthy"
                 THEN /\ Becomes(ToHead(swept, k), [left EXCEPT ![k] = TTL])
                      /\ answer' = swept.data[k]
                 ELSE /\ Becomes(swept, left)
                      /\ answer' = "null"
              /\ UNCHANGED outlived

Has(k) == LET swept == Swept(cache, left)
          IN  /\ Becomes(swept, left)
              /\ answer' = YesNo(swept.data[k] # Void)
              /\ UNCHANGED outlived

\* The clock is read for the node and again by #evictTTL(), any number of ticks
\* later.
Set(k, v, ticks) ==
    LET there == IF cache.data[k] # Void THEN ToHead(cache, k)
                                         ELSE Fitting(Pushed(cache, k))
        fresh == [left EXCEPT ![k] = TTL]
        life  == Aged(fresh, ticks)
    IN  /\ Capacity > 0
        /\ Becomes([Swept(there, life) EXCEPT !.data[k] = v], life)
        /\ answer' = Void
        /\ outlived' = IF life[k] < 0 THEN outlived \cup {k} ELSE outlived

Delete(k) == /\ Becomes(IF k \in cache.refs THEN Removed(cache, k) ELSE cache, left)
             /\ answer' = YesNo(k \in cache.refs)
             /\ UNCHANGED outlived

ClearCache ==
    /\ Becomes([Emptied(cache) EXCEPT !.data = [k \in Keys |-> Void],
                                      !.refs = {},
                                      !.length = 0,
                                      !.next = Alone,
                                      !.prev = Alone], left)
    /\ answer' = Void
    /\ outlived' = {}

LruNext == \/ Tick
        \/ ClearCache
        \/ \E k \in Keys : \/ Get(k) \/ Has(k) \/ Delete(k)
                           \/ \E v \in Values, ticks \in 0..(TTL + 1) : Set(k, v, ticks)

LruSpec == LruInit /\ [][LruNext]_lruVars

----------------------------------------------------------------------------
(***************************************************************************)
(* Properties.                                                             *)
(***************************************************************************)

\* keys(): from the head along next until the tail.  A walk that does not
\* come to the tail within #length nodes never ends in the code.
keys ==
    LET walk[n \in 0..(cache.length - 1)] ==
            IF n = 0 THEN <<cache.head>>
            ELSE IF Last(walk[n - 1]) = cache.tail THEN walk[n - 1]
            ELSE Append(walk[n - 1], cache.next[Last(walk[n - 1])])
    IN  IF cache.length = 0 THEN <<>> ELSE walk[cache.length - 1]

\* The nodes and the list hold the same entries, #length of them, and the walk
\* of keys() ends at the tail.  Each of them has a value, and no other key has
\* one unless its set() outlived its node: an entry in one of the maps only
\* would never be evicted, or be evicted in the place of another.
Consistent == /\ ToSet(keys) = cache.refs
              /\ cache.refs \cap outlived = {}
              /\ {k \in Keys : cache.data[k] # Void} = cache.refs \cup outlived
              /\ Cardinality(cache.refs) = cache.length
              /\ cache.length > 0 => Last(keys) = cache.tail

\* What the class comment promises of every value, which a set() that outlives
\* its node breaks: it is in keys(), so that it can be evicted.
AllListed == {k \in Keys : cache.data[k] # Void} = ToSet(keys)

\* The pairs of a walk, the earlier key first.
Pairs(walk) ==
    UNION {{<<walk[i], walk[j]>> : j \in (i + 1)..Len(walk)} : i \in DOMAIN walk}

\* The order of use, as keys() tells it.
Newer == UNION {Pairs(walk) : walk \in {keys}}

\* The cache does what AbstractLRU says: what is kept, in which order of use,
\* for how long, and what each call returns.
Abstract == INSTANCE AbstractLRU WITH
              newer <- Newer,
              value <- cache.data,
              immortal <- outlived

KeepsThePromise == Abstract!Spec
=============================================================================
