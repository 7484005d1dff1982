------------------------------- MODULE MCLive -------------------------------
(***************************************************************************)
(* Likes, Follows and Publish side by side, for TLC.  They share no state  *)
(* in these models, so a behaviour exercises one of them: part names it,   *)
(* the others stay as they start.  Fairness is that of the part that runs. *)
(***************************************************************************)
EXTENDS Likes, Follows, Publish, TLC

CONSTANTS
  th1, th2, th3, v1, v2, nil, t1, gone, u1, u2, u3, ghost, c1, c2, c3,
  ann, bob, g1, root, j1, j2

VARIABLE part

liveVars == <<part, likeVars, followVars, publishVars>>

LiveInit ==
  /\ part \in {"likes", "follows", "publish"}
  /\ LikesInit /\ FollowsInit /\ PublishInit
  /\ part # "publish" => \A a \in Authors : followers[a] = {}

LikesAlone == part = "likes" /\ UNCHANGED <<part, followVars, publishVars>>
FollowsAlone == part = "follows" /\ UNCHANGED <<part, likeVars, publishVars>>
PublishAlone == part = "publish" /\ UNCHANGED <<part, likeVars, followVars>>

LiveNext ==
  \/ LikesAlone /\ LikesNext
  \/ FollowsAlone /\ FollowsNext
  \/ PublishAlone /\ PublishNext

\* The fairness of each part, for the part that runs.
LiveSpec ==
  /\ LiveInit /\ [][LiveNext]_liveVars
  /\ \A th \in LikeThreads : WF_liveVars(LikesAlone /\ LikeStep(th))
  /\ \A c \in Clients : WF_liveVars(FollowsAlone /\ FollowStep(c))
  /\ \A j \in Jobs : WF_liveVars(PublishAlone /\ PublishStep(j))

MCLikeUsers == {v1, v2, nil}
MCLikeThreads == {th1, th2, th3}
MCUnknownIds == {gone}

MCFollowUsers == {u1, u2, u3}
MCUnknownNames == {ghost}
MCClients == {c1, c2, c3}
\* The third client is not logged in.
MCOneVisitor == c1 :> u1 @@ c2 :> u2 @@ c3 :> Nobody

\* A mention with a tag; two tags.
MCTexts ==
  {[words |-> <<<<"mention", bob>>, <<"tag", g1>>>>, fits |-> TRUE],
   [words |-> <<<<"tag", g1>>, <<"tag", g1>>>>, fits |-> TRUE]}
=============================================================================
