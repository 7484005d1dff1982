----------------------------- MODULE MCFollows -----------------------------
(***************************************************************************)
(* Instances of Follows for TLC.                                           *)
(***************************************************************************)
EXTENDS Follows, TLC

CONSTANTS u1, u2, u3, c1, c2, c3, ghost

MCUsers == {u1, u2, u3}
MCUnknownNames == {ghost}
MCClients == {c1, c2, c3}

\* Every user has one tab.
MCOneTabEach == c1 :> u1 @@ c2 :> u2 @@ c3 :> u3

\* The third client is not logged in.
MCOneVisitor == c1 :> u1 @@ c2 :> u2 @@ c3 :> Nobody

MCScripts == {c1, c2, c3}
MCOneScript == {c1}
MCNone == {}
MCClashing == {u3}
=============================================================================
