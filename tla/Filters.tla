------------------------------ MODULE Filters ------------------------------
(***************************************************************************)
(* What is left of a sequence when some of its elements are taken out.     *)
(***************************************************************************)
EXTENDS Integers, Sequences

\* The members of S in a sequence.  SelectSeq takes its test as an operator,
\* which leaves the provers nothing to work with.
Filter(s, S) ==
    LET kept[i \in 0..Len(s)] ==
            IF i = 0 THEN <<>>
            ELSE IF s[i] \in S THEN Append(kept[i - 1], s[i]) ELSE kept[i - 1]
    IN  kept[Len(s)]
=============================================================================
