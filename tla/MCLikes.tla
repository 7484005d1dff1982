------------------------------ MODULE MCLikes ------------------------------
(* Instances of Likes for TLC. *)
EXTENDS Likes, TLC

CONSTANTS th1, th2, th3, u1, u2, nil, t1, t2, gone

MCUsers == {u1, u2, nil}
MCThreads == {th1, th2, th3}
MCTwoThreads == {th1, th2}
MCTweets == {t1, t2}
MCUnknownIds == {gone}

\* Threads and users are interchangeable in Likes.
Symmetric == Permutations(MCThreads) \cup Permutations(MCUsers)
=============================================================================
