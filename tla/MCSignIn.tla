------------------------------ MODULE MCSignIn ------------------------------
(***************************************************************************)
(* SignIn for TLC: requests, browsers, logins and people are alike.        *)
(***************************************************************************)
EXTENDS SignIn, TLC

Symmetry ==
    Permutations(Requests) \cup Permutations(Browsers)
        \cup Permutations(Flows) \cup Permutations(Subjects)
=============================================================================
