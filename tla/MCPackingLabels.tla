--------------------------- MODULE MCPackingLabels ---------------------------
(* PackingLabels on a small instance.  The layouts are the re-plannings that
   matter: fewer pallets (from either end), more pallets, a hand-packed unit,
   and a number claimed by both halves of the sheet. *)
EXTENDS PackingLabels, TLC

MCLayouts == {[auto |-> {1}, units |-> {}],
              [auto |-> {1}, units |-> {2}],
              [auto |-> {}, units |-> {2}],
              [auto |-> {1, 2}, units |-> {2}]}

\* Dropping pallet 1 and bringing it back: enough for two workers on two plans.
MCFewLayouts == {[auto |-> {1}, units |-> {2}], [auto |-> {}, units |-> {2}]}

WorkerSymmetry == Permutations(Workers) \union Permutations(PlanIds)
==============================================================================
