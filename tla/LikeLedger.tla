----------------------------- MODULE LikeLedger -----------------------------
(***************************************************************************)
(* What the like button promises: every user is counted at most once per   *)
(* tweet, and the total shown lies between one and the number of users     *)
(* counted (concurrent likes may be lost from the total, never added).     *)
(***************************************************************************)
EXTENDS Naturals, FiniteSets

CONSTANTS Users, Tweets

VARIABLES
  counted,   \* counted[t]: users whose like of t has been counted
  total      \* total[t]: the number shown

Init ==
  /\ counted = [t \in Tweets |-> {}]
  /\ total = [t \in Tweets |-> 0]

Count(t, u) ==
  /\ u \notin counted[t]
  /\ counted' = [counted EXCEPT ![t] = @ \cup {u}]
  /\ \E n \in 1 .. Cardinality(counted'[t]) : total' = [total EXCEPT ![t] = n]

Next == \E t \in Tweets, u \in Users : Count(t, u)

Spec == Init /\ [][Next]_<<counted, total>>
=============================================================================
