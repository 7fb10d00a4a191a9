----------------------------- MODULE MCAccounts -----------------------------
(* Instance of Accounts for TLC: interchangeable emails and sign-ins.        *)
EXTENDS Accounts, TLC

CONSTANTS ann, bob, f1, f2, f3

Symmetry == Permutations(Emails) \cup Permutations(SignIns)
=============================================================================
