--------------------------- MODULE MCInvitation ---------------------------
(* Provisioning with three people, so that a founder's invitation has two *)
(* takers: the second person's e-mail moves on and is given to the third, *)
(* while the cookie with the old one stays valid.                         *)
EXTENDS Provisioning, TLC

CONSTANTS s1, s2, s3, e1, e2, e3

People == {s1, s2, s3}
Addresses == {e1, e2, e3}

MovedAccounts ==
    { [sub |-> s1, email |-> e1], [sub |-> s2, email |-> e2],
      [sub |-> s2, email |-> e3], [sub |-> s3, email |-> e2] }

\* The invitation goes to the e-mail that moves.
MovedEmail == {e2}

\* A registration competes with the invitation for the third person.
ThirdPerson == {[sub |-> s3, email |-> e2]}

Symmetry ==
    Permutations(Orgs) \cup Permutations(Tokens) \cup Permutations(Requests)
===========================================================================
