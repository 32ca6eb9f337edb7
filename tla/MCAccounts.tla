---------------------------- MODULE MCAccounts ----------------------------
(* Accounts on small instances; see the .cfg files. *)
EXTENDS Accounts, TLC

CONSTANTS r1, r2, r3, m1, m2, n1, p1

Symmetry == Permutations(Requests) \cup Permutations(Mails) \cup Permutations(Names)
              \cup Permutations(Passwords)
=============================================================================
