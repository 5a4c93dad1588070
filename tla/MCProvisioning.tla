-------------------------- MODULE MCProvisioning --------------------------
(* Provisioning on small sets, with the sets interchangeable. *)
EXTENDS Provisioning, TLC

\* Everybody may be asserted, and registered, with every e-mail.
AllPairs == [sub: Subjects, email: Emails]

Symmetry ==
    Permutations(Subjects) \cup Permutations(Emails) \cup Permutations(Orgs)
        \cup Permutations(Tokens) \cup Permutations(Requests)
===========================================================================
