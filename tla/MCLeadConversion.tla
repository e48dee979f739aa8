-------------------------- MODULE MCLeadConversion --------------------------
(* LeadConversion on a small instance. *)
EXTENDS LeadConversion, TLC

IdSymmetry == Permutations(Workers) \union Permutations(BuyerIds) \union Permutations(Persons)
=============================================================================
