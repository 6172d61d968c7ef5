---------------------------- MODULE BlockStream ----------------------------
(***************************************************************************)
(* What a listener of 'finalizedBlock' is promised: the finalized chain,   *)
(* block after block from the place the client has reached.  Where it has  *)
(* to resume elsewhere it says nothing: what it skips is never delivered,  *)
(* and after a node that lags has moved it back the blocks above that      *)
(* place are delivered once more.                                          *)
(***************************************************************************)
EXTENDS ChainHeadBlocks

CONSTANT MayLag \* may a node be behind the one followed before?

VARIABLES place, \* the block the client goes on from, NoBlock at first
          lost,  \* was the place moved since the last delivery?
          out    \* what the last step delivered, in this order

vars == <<place, lost, out>>

Init == /\ place = NoBlock
        /\ lost = TRUE
        /\ out = <<>>

Ahead(b) == place = NoBlock \/ (Below(place, b) /\ b # place)

\* All the blocks from the place to b; the first one is where the chain is met.
Deliver(b) == /\ Ahead(b)
              /\ out' = IF place = NoBlock THEN <<b>> ELSE Segment(place, b)
              /\ place' = b
              /\ lost' = FALSE

Pause == /\ out' = <<>>
         /\ UNCHANGED <<place, lost>>

ResumeAt(b) == /\ out' = <<>>
               /\ place' = b
               /\ lost' = TRUE

Skip(b) == Ahead(b) /\ ResumeAt(b)

Rewind(b) == /\ MayLag
             /\ place # NoBlock /\ Below(b, place) /\ b # place
             /\ ResumeAt(b)

Next == Pause \/ \E b \in Blocks : Deliver(b) \/ Skip(b) \/ Rewind(b)

Spec == Init /\ [][Next]_vars
=============================================================================
