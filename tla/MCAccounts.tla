----------------------------- MODULE MCAccounts -----------------------------
(***************************************************************************)
(* Instances of Accounts for TLC.                                          *)
(***************************************************************************)
EXTENDS Accounts, TLC

CONSTANTS n1, n2, e1, e2, p1, p2, b1, b2, th1, th2

\* The values of a field, the browsers and the threads are interchangeable.
Symmetric ==
  Permutations(Names) \cup Permutations(Emails) \cup Permutations(Passwords)
    \cup Permutations(Browsers) \cup Permutations(Threads)
=============================================================================
