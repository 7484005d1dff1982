----------------------------- MODULE MCHandlers -----------------------------
(***************************************************************************)
(* Likes, Follows and Publish side by side, for TLC.  They share no state  *)
(* in these models, so a behaviour exercises one of them: part names it,   *)
(* the others stay as they start.  Publish runs in two ways: few jobs with *)
(* texts of all kinds, and more jobs with plain tweets.                    *)
(***************************************************************************)
EXTENDS Likes, Follows, Publish, TLC

CONSTANTS
  th1, th2, th3, v1, v2, nil, t1, gone, u1, u2, u3, ghost, c1, c2, c3,
  ann, bob, cat, g1, root, j1, j2, j3

VARIABLE part

handlerVars == <<part, likeVars, followVars, publishVars>>

\* The only tweets of the part that fills the front feed.
Plain == [words |-> <<<<"plain", None>>>>, fits |-> TRUE]

HandlersInit ==
  /\ part \in {"likes", "follows", "deliver", "front"}
  /\ LikesInit /\ FollowsInit /\ PublishInit
  /\ followers[ann] = {} /\ (part # "deliver" => followers[cat] = {})

\* Two jobs of an author whose record cannot be saved, and their followers.
Deliver ==
  /\ PublishNext
  /\ publishAborts' = 0 /\ followers'[ann] = {} /\ at'[j3] = "new"
  /\ \A j \in {j1, j2} : at'[j] # "new" => job'[j].author = cat /\ job'[j].text # Plain

\* Three plain tweets of the other author.
FillFront ==
  /\ PublishNext
  /\ changes' = 0
  /\ \A j \in Jobs : at'[j] # "new" =>
       job'[j].author = ann /\ job'[j].text = Plain /\ job'[j].reply = None

HandlersNext ==
  \/ part = "likes" /\ LikesNext /\ UNCHANGED <<part, followVars, publishVars>>
  \/ part = "follows" /\ FollowsNext /\ UNCHANGED <<part, likeVars, publishVars>>
  \/ part = "deliver" /\ Deliver /\ UNCHANGED <<part, likeVars, followVars>>
  \/ part = "front" /\ FillFront /\ UNCHANGED <<part, likeVars, followVars>>

HandlersSpec == HandlersInit /\ [][HandlersNext]_handlerVars

MCLikeUsers == {v1, v2, nil}
MCLikeThreads == {th1, th2, th3}
MCUnknownIds == {gone}

MCFollowUsers == {u1, u2, u3}
MCUnknownNames == {ghost}
MCClients == {c1, c2, c3}
\* The third client is not logged in.
MCOneVisitor == c1 :> u1 @@ c2 :> u2 @@ c3 :> Nobody

MCPublishUsers == {ann, bob, cat}
Mention(name) == <<"mention", name>>
Hash(name) == <<"tag", name>>
\* Two mentions of one user with a tag; an unknown name with tags, too long.
MCTexts ==
  {Plain, [words |-> <<Mention(bob), Hash(g1), Mention(bob)>>, fits |-> TRUE],
   [words |-> <<Mention(None), Hash(g1), Hash(g1)>>, fits |-> FALSE]}
=============================================================================
