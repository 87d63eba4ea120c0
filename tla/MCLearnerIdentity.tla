-------------------------- MODULE MCLearnerIdentity --------------------------
EXTENDS LearnerIdentity, TLC

(* Accounts, logins and browsers are interchangeable.                      *)
Symmetry ==
    Permutations(Account) \cup Permutations(Login) \cup Permutations(Browser)
=============================================================================
