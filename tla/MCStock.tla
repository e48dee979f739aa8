------------------------------- MODULE MCStock -------------------------------
(* Instances of Stock for TLC: a tile, 1, that is bought and jobbed into      *)
(* another, 2; both have a design by the name 1.  The names 2 and 3 differ in *)
(* their capitals only.                                                       *)
EXTENDS Stock, TLC

MCPlain(n) == IF n = 3 THEN 2 ELSE n
MCProductOf == <<1, 1, 2>>
AtFirst == <<1, 2, 1>>
InCatalogue == <<1, 2>>

Sheet(p, d, n, boxes) == [product |-> p, design |-> d, name |-> n, boxes |-> boxes]
MCSheets == {<<Sheet(1, 1, Null, 200)>>,
             <<Sheet(1, 2, Null, 100), Sheet(2, Null, 3, 50)>>}

Jobbing(from, to, n) == [from |-> from, to |-> to, name |-> n]
MCCards == {<<Jobbing(1, 2, 1), Jobbing(1, 2, 1), Jobbing(2, 1, 3)>>}
Sent(from, to, n, boxes) == [from |-> from, to |-> to, title |-> to, name |-> n, source |-> boxes]

Tiles == <<Row(1, 1, 1, 1, 100), Row(1, 1, 1, 1, 100), Row(1, 1, 1, 1, 100), Row(2, 2, Null, 2, 200)>>
\* A quotation with a list, and two orders.
Quoted ==
    [names |-> AtFirst, titles |-> InCatalogue, nextId |-> 4, jobs |-> <<>>, invoices |-> <<>>,
     orders |-> (1 :> {1} @@ 2 :> {1, 2}),
     lists |-> (3 :> [of |-> Quotation, rows |-> Tiles])]
\* A list of the invoice, a job work and an order, and an invoice of each,
\* one with its list; the order's tile had another name.
Bought2 ==
    [names |-> AtFirst, titles |-> InCatalogue, nextId |-> 8,
     jobs |-> (1 :> <<Sent(1, 2, 1, 200)>>),
     orders |-> (2 :> {1}),
     invoices |-> (3 :> [order |-> Null, jobs |-> <<1>>, lines |-> <<[product |-> 1, job |-> 1]>>]
                   @@ 4 :> [order |-> 2, jobs |-> <<>>, lines |-> <<[product |-> 1, job |-> Null]>>]),
     lists |-> (5 :> [of |-> Proforma, rows |-> <<Row(2, 2, 3, 1, 200), Row(1, 1, 2, 2, 150)>>]
                @@ 6 :> [of |-> <<"order", 2>>, rows |-> <<Row(1, 2, 2, 2, 50)>>]
                @@ 7 :> [of |-> <<"invoice", 4>>, rows |-> <<Row(1, 1, 2, 2, 50)>>])]
\* A third invoice is of both job works, of one product on two lines.
Jobbed2 ==
    [names |-> AtFirst, titles |-> InCatalogue, nextId |-> 7,
     jobs |-> (1 :> <<Sent(1, 2, 1, 200)>> @@ 2 :> <<Sent(1, 2, 1, 100), Sent(2, 1, 2, 150)>>),
     orders |-> <<>>,
     invoices |-> (3 :> [order |-> Null, jobs |-> <<1, 2>>,
                         lines |-> <<[product |-> 1, job |-> 1], [product |-> 2, job |-> 2]>>]),
     lists |-> (4 :> [of |-> Proforma, rows |-> <<Row(2, 2, 3, 1, 300), Row(1, 1, 2, 2, 150)>>]
                @@ 5 :> [of |-> <<"jobwork", 1>>, rows |-> <<Row(1, 1, 1, 1, 100)>>]
                @@ 6 :> [of |-> <<"invoice", 3>>, rows |-> <<Row(1, 1, 1, 1, 100), Row(2, 2, 3, 1, 100)>>])]
MCStarts == {Quoted, Bought2, Jobbed2}
=============================================================================
