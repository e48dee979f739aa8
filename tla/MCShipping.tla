------------------------------ MODULE MCShipping ------------------------------
(* Shipping on a small instance: two packing plannings, two containers. *)
EXTENDS Shipping, TLC

Batch(p, per, units) == [product |-> p, per |-> per, units |-> units]
Hand(sr, n) == [sr |-> sr, boxes |-> n]

\* A batch in one whole unit; two products on one hand-packed one.
OneBatch == [lines |-> <<Batch(1, 2, 1)>>, byHand |-> <<>>]
Mixed == [lines |-> <<Batch(2, 2, 0), Batch(1, 1, 0)>>, byHand |-> <<<<Hand(1, 1), Hand(2, 2)>>>>]
MCPacked == {<<OneBatch, Mixed>>}
MCBookings == {<<1, 2>>, <<0, 2>>}
MCLimit == [ct \in 0..2 |-> <<0, 7, 4>>[ct + 1]]
MCTare == [ct \in 0..2 |-> <<0, 2, 1>>[ct + 1]]
\* None yet, or one that was saved from such an import, every packing loaded.
MCLoads ==
    LET doc == Imported(<<OneBatch, Mixed>>)
    IN  {<<>>, <<Saved(doc.lines, <<1, 2>>, doc.packings, <<1, 2>>)>>}
===============================================================================
