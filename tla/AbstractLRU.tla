---------------------------- MODULE AbstractLRU ----------------------------
(***************************************************************************)
(* What packages/utils/src/cache/LRUCache.ts does for its users: a cache   *)
(* of at most Capacity entries that forgets the least recently used one    *)
(* first, and every entry that was not used for TTL ticks.  The exception  *)
(* is a value whose set() took longer than TTL: it is found from then on,  *)
(* is no entry and never forgotten, and only clear() rids the cache of it. *)
(*                                                                         *)
(* left counts the ticks an entry has to live: at 0 it is in its last one, *)
(* below it has expired, and the next call that looks drops it.            *)
(***************************************************************************)
EXTENDS Integers, FiniteSets

CONSTANTS Keys, Capacity, TTL

VARIABLES newer,  \* the pairs of keys of which the first was used later
          value,  \* the value of each entry
          left,   \* the ticks each entry has left
          answer, \* what the last call returned
          immortal \* the keys with a value that is never forgotten

vars == <<newer, value, left, answer, immortal>>

\* A value that JavaScript takes for false is never found by get().
Values == {"truthy", "falsy"}

Void == "void" \* no value

YesNo(test) == IF test THEN "yes" ELSE "no"

Init == /\ newer = {}
        /\ value = [k \in Keys |-> Void]
        /\ left = [k \in Keys |-> -1]
        /\ answer = Void
        /\ immortal = {}

Entries == {k \in Keys : value[k] # Void} \ immortal

Aged(life, ticks) ==
    [k \in Keys |-> IF life[k] >= ticks THEN life[k] - ticks ELSE -1]

Renewed(k) == [left EXCEPT ![k] = TTL]

Alive(life) == {k \in Keys : life[k] >= 0}

\* Only the entries in kept stay, with this order of use and these lives and
\* values, beside the values in forever.
Retain(kept, used, life, values, forever) ==
    /\ newer' = used \cap (kept \X kept)
    /\ left' = [k \in Keys |-> IF k \in kept THEN life[k] ELSE -1]
    /\ value' = [k \in Keys |-> IF k \in kept \cup forever THEN values[k] ELSE Void]
    /\ immortal' = forever

\* The order of use after k was used.
Used(k) == LET others == Entries \ {k}
           IN  (newer \cap (others \X others)) \cup ({k} \X others)

\* One that is too many gives up the one that no other was used before.
AtMostCapacity(S, used) ==
    IF Cardinality(S) > Capacity THEN {k \in S : \E j \in S : <<k, j>> \in used}
                                 ELSE S

Tick == /\ left' = Aged(left, 1)
        /\ UNCHANGED <<newer, value, answer, immortal>>

\* get() drops what has expired; a hit becomes the most recently used entry
\* and lives on.
Get(k) ==
    LET kept == Entries \cap Alive(left)
    IN  IF k \in kept \cup immortal /\ value[k] = "truthy"
        THEN /\ Retain(kept, IF k \in kept THEN Used(k) ELSE newer,
                       Renewed(k), value, immortal)
             /\ answer' = "truthy"
        ELSE /\ Retain(kept, newer, left, value, immortal)
             /\ answer' = "null"

Has(k) == LET kept == Entries \cap Alive(left)
          IN  /\ Retain(kept, newer, left, value, immortal)
              /\ answer' = YesNo(k \in kept \cup immortal)

\* The clock may tick while set() runs.
Set(k, v, ticks) ==
    LET life == Aged(Renewed(k), ticks)
        used == IF k \in immortal THEN newer ELSE Used(k)
        fits == IF k \in immortal THEN Entries
                                  ELSE AtMostCapacity(Entries \cup {k}, used)
    IN  /\ Capacity > 0
        /\ Retain(fits \cap Alive(life), used, life, [value EXCEPT ![k] = v],
                  IF life[k] < 0 THEN immortal \cup {k} ELSE immortal)
        /\ answer' = Void

\* delete() finds an entry that has expired and was not dropped yet.
Delete(k) == /\ Retain(Entries \ {k}, newer, left, value, immortal)
             /\ answer' = YesNo(k \in Entries)

Clear == /\ Retain({}, newer, left, value, {})
         /\ answer' = Void

Next == \/ Tick
        \/ Clear
        \/ \E k \in Keys :
              \/ Get(k)
              \/ Has(k)
              \/ Delete(k)
              \/ \E v \in Values, ticks \in 0..(TTL + 1) : Set(k, v, ticks)

Spec == Init /\ [][Next]_vars
=============================================================================
