----------------------------- MODULE MCUserAccounts -----------------------------
(* A small instance of UserAccounts for TLC.                                    *)
EXTENDS UserAccounts, TLC

CONSTANTS u1, u2, admin, bob, adminMail, bobMail

\* The social account of bob.
BobName == [s \in Identity |-> bob]
BobMail == [s \in Identity |-> bobMail]

\* UUIDs are random, and threads interchangeable.
Symmetry == Permutations(User) \cup Permutations(Worker)
=============================================================================
