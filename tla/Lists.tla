------------------------------- MODULE Lists -------------------------------
(***************************************************************************)
(* The loop that walks along a slice and collects some of its elements, of *)
(* which the stores have several.                                          *)
(***************************************************************************)
EXTENDS Integers, Sequences

\* One round: the element is collected if it is in S.
Collect(s, x, S) == IF x \in S THEN Append(s, x) ELSE s

\* The elements of a list that are in S, in its order.
Only(list, S) ==
    LET upTo[i \in 0..Len(list)] == IF i = 0 THEN <<>> ELSE Collect(upTo[i - 1], list[i], S)
    IN  upTo[Len(list)]
=============================================================================
