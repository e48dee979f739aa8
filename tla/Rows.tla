--------------------------------- MODULE Rows ---------------------------------
(***************************************************************************)
(* The rows of a form or a table that a list comprehension with a          *)
(* condition keeps.                                                        *)
(***************************************************************************)
EXTENDS Integers, Sequences, FiniteSets

\* The rows at these places, in their order.
At(rows, places) ==
    [i \in 1..Cardinality(places) |->
        rows[CHOOSE k \in places : Cardinality({j \in places : j < k}) = i - 1]]
===============================================================================
