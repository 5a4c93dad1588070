----------------------------- MODULE MCBilling -----------------------------
(* Billing on small sets, with the sets interchangeable. *)
EXTENDS Billing, TLC

Symmetry ==
    Permutations(Orgs) \cup Permutations(Payers) \cup Permutations(Calls)
=============================================================================
