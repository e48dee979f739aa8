------------------------------- MODULE MCOrders -------------------------------
\* Instances of Orders for TLC: two products, which may be renamed, one of them
\* broken into designs.
EXTENDS Orders, TLC

MCAltQuantity == [p1 |-> 2, p2 |-> 1]
TwoProducts == <<Line("p1", 1, "box", 2), Line("p2", 1, "quantity", 1)>>
OneTwice == <<Line("p1", 1, "box", 2), Line("p1", 1, "box", 1)>>
MCProformas == {TwoProducts, OneTwice}
MCCards == {<<Line("p1", 1, "quantity", 1)>>}
MCNames == {1, 2}
MCDesigns == {1, 2}
Symmetry == Permutations(Users)
=============================================================================
