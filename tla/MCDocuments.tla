------------------------------ MODULE MCDocuments ------------------------------
(* Documents on a small instance. *)
EXTENDS Documents, TLC

CONSTANT Author     \* who wrote the documents that are there from the start

\* The form the documents that are there from the start were saved from.
FirstForm == MaxRequests + 1
Saved(kind, no, up) ==
    [kind |-> kind, no |-> no, by |-> Author, up |-> up, confirmed |-> FALSE,
     part |-> [p \in PartsOf(kind) |-> FirstForm]]

\* A quotation followed through to an order, which has a packing list.
OrderChain ==
    <<Saved("quotation", 1, None), Saved("proforma", 1, 1), Saved("order", 1, 2),
      Saved("packing", 1, 3)>>
\* Goods out for job work and back.
JobChain ==
    <<Saved("jobwork", 1, None), Saved("invoice", 1, 1), Saved("jobout", 1, 2),
      Saved("jobin", 1, 3)>>
MCBooks == {OrderChain, JobChain}
===============================================================================
