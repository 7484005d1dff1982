------------------------------- MODULE Likes -------------------------------
(***************************************************************************)
(* POST /tweet/like (app.rb).  A like is counted in the likes column of    *)
(* the tweets table (ActiveRecord) and remembered in the Redis set         *)
(* "tweet:<id>:likes".  Every database or Redis call of the handler is an  *)
(* action of its own: the server runs requests in threads that interleave  *)
(* at these calls.                                                         *)
(***************************************************************************)
EXTENDS Naturals, FiniteSets

CONSTANTS
  LikeUsers,        \* values of session[:user_id]; nil (not logged in) is one of them
  Tweets,       \* ids of the rows of the tweets table
  UnknownIds,   \* values of params[:tweet_id] that are the id of no row
  LikeThreads,      \* request threads of the web server
  NoLike,    \* a thread that serves nothing
  OnePerUser,   \* TRUE: no user has two of these requests in flight
  MaxLikeAborts     \* bound: requests that die half-way

ASSUME LikesAssumption ==
  /\ IsFiniteSet(LikeUsers)
  /\ Tweets \cap UnknownIds = {}
  /\ OnePerUser \in BOOLEAN
  /\ MaxLikeAborts \in Nat

VARIABLES
  likes,     \* likes[t]: the likes column of row t
  likers,    \* likers[t]: the Redis set "tweet:<t>:likes"
  likeReq,       \* req[th]: the request thread th serves, with its local variables
  likeAborts,    \* number of requests that died half-way
  orphaned   \* orphaned[t]: history, those that died between counting and remembering

likeVars == <<likes, likers, likeReq, likeAborts, orphaned>>

\* found is tweet.likes as Tweet.find read it.
Request ==
  [at : {"find", "check", "save", "cache"}, user : LikeUsers,
   tweet : Tweets \cup UnknownIds, found : Nat]

ASSUME NoLikeAssumption == NoLike \notin Request

Liking(th) == likeReq[th] # NoLike

LikeAt(th, step) == Liking(th) /\ likeReq[th].at = step

LikeDone(th) == likeReq' = [likeReq EXCEPT ![th] = NoLike]

LikesInit ==
  /\ likes = [t \in Tweets |-> 0]
  /\ likers = [t \in Tweets |-> {}]
  /\ likeReq = [th \in LikeThreads |-> NoLike]
  /\ likeAborts = 0
  /\ orphaned = [t \in Tweets |-> 0]

(***************************************************************************)
(* The handler.                                                            *)
(***************************************************************************)
Begin(th, u, t) ==
  /\ ~Liking(th)
  /\ OnePerUser => \A other \in LikeThreads : Liking(other) => likeReq[other].user # u
  /\ likeReq' = [likeReq EXCEPT ![th] = [at |-> "find", user |-> u, tweet |-> t, found |-> 0]]
  /\ UNCHANGED <<likes, likers, likeAborts, orphaned>>

\* tweet = Tweet.find(params[:tweet_id])
FindTweet(th) ==
  /\ LikeAt(th, "find")
  /\ likeReq[th].tweet \in Tweets
  /\ likeReq' = [likeReq EXCEPT ![th].at = "check", ![th].found = likes[likeReq[th].tweet]]
  /\ UNCHANGED <<likes, likers, likeAborts, orphaned>>

\* Mutant: a missing row is not an error (find_by_id instead of find).
TweetNotFoundGoesOn(th) ==
  /\ LikeAt(th, "find")
  /\ likeReq[th].tweet \notin Tweets
  /\ likeReq' = [likeReq EXCEPT ![th].at = "check"]
  /\ UNCHANGED <<likes, likers, likeAborts, orphaned>>

\* Mutant: the request is retried until the row appears.
TweetNotFoundRetries(th) ==
  /\ LikeAt(th, "find")
  /\ likeReq[th].tweet \notin Tweets
  /\ UNCHANGED likeVars

\* Tweet.find raises RecordNotFound; the request ends in an error page.
TweetNotFound(th) ==
  /\ LikeAt(th, "find")
  /\ likeReq[th].tweet \notin Tweets
  /\ LikeDone(th)
  /\ UNCHANGED <<likes, likers, likeAborts, orphaned>>

\* Mutant: likes without asking liked_before?.
LikesUnchecked(th) ==
  /\ LikeAt(th, "check")
  /\ likeReq' = [likeReq EXCEPT ![th].at = "save"]
  /\ UNCHANGED <<likes, likers, likeAborts, orphaned>>

\* Mutant: remembers the like without counting it.
LikesUncounted(th) ==
  /\ LikeAt(th, "check")
  /\ IF likeReq[th].user \in likers[likeReq[th].tweet]
       THEN LikeDone(th)
       ELSE likeReq' = [likeReq EXCEPT ![th].at = "cache"]
  /\ UNCHANGED <<likes, likers, likeAborts, orphaned>>

\* liked_before?: an earlier like ends the request, the answer is "a<likes>".
LikedBefore(th) ==
  /\ LikeAt(th, "check")
  /\ IF likeReq[th].user \in likers[likeReq[th].tweet]
       THEN LikeDone(th)
       ELSE likeReq' = [likeReq EXCEPT ![th].at = "save"]
  /\ UNCHANGED <<likes, likers, likeAborts, orphaned>>

\* Mutant: increments the column in place and the local copy once more.
IncrementLikesTwice(th) ==
  /\ LikeAt(th, "save")
  /\ likes' = [likes EXCEPT ![likeReq[th].tweet] = @ + 2]
  /\ likeReq' = [likeReq EXCEPT ![th].at = "cache"]
  /\ UNCHANGED <<likers, likeAborts, orphaned>>

\* tweet.increment_likes: writes the value read by FindTweet plus one.
IncrementLikes(th) ==
  /\ LikeAt(th, "save")
  /\ likes' = [likes EXCEPT ![likeReq[th].tweet] = likeReq[th].found + 1]
  /\ likeReq' = [likeReq EXCEPT ![th].at = "cache"]
  /\ UNCHANGED <<likers, likeAborts, orphaned>>

\* RedisClass.cache_likes
CacheLikes(th) ==
  /\ LikeAt(th, "cache")
  /\ likers' = [likers EXCEPT ![likeReq[th].tweet] = @ \cup {likeReq[th].user}]
  /\ LikeDone(th)
  /\ UNCHANGED <<likes, likeAborts, orphaned>>

(***************************************************************************)
(* A database or Redis call raises (no connection within the pool's        *)
(* timeout, a lost Redis connection) or the process is restarted: nothing  *)
(* is rolled back, the rest of the handler does not run.                   *)
(***************************************************************************)
LikeAbort(th) ==
  /\ Liking(th)
  /\ likeAborts < MaxLikeAborts
  /\ likeAborts' = likeAborts + 1
  /\ orphaned' = IF LikeAt(th, "cache")
                   THEN [orphaned EXCEPT ![likeReq[th].tweet] = @ + 1]
                   ELSE orphaned
  /\ LikeDone(th)
  /\ UNCHANGED <<likes, likers>>

LikeStep(th) ==
  \/ FindTweet(th)
  \/ TweetNotFound(th)
  \/ LikedBefore(th)
  \/ IncrementLikes(th)
  \/ CacheLikes(th)

LikesNext ==
  \E th \in LikeThreads :
    \/ \E u \in LikeUsers, t \in Tweets \cup UnknownIds : Begin(th, u, t)
    \/ LikeStep(th)
    \/ LikeAbort(th)

LikesSpec == LikesInit /\ [][LikesNext]_likeVars

\* Every call the handler makes returns or raises, and no thread is starved.
LikesFairSpec == LikesSpec /\ \A th \in LikeThreads : WF_likeVars(LikeStep(th))

(***************************************************************************)
(* Properties.                                                             *)
(***************************************************************************)

\* Type invariant of the table, the Redis sets and the requests of
\* POST /tweet/like.
LikesTypeOK ==
  /\ likes \in [Tweets -> Nat]
  /\ likers \in [Tweets -> SUBSET LikeUsers]
  /\ likeReq \in [LikeThreads -> Request \cup {NoLike}]
  /\ \A th \in LikeThreads : Liking(th) /\ likeReq[th].at # "find" => likeReq[th].tweet \in Tweets
  /\ likeAborts \in Nat
  /\ orphaned \in [Tweets -> Nat]

\* Users whose like of t is counted: remembered by Redis, or about to be by a
\* request between increment_likes and cache_likes.
Counted(t) ==
  likers[t] \cup
  {u \in LikeUsers : \E th \in LikeThreads :
     LikeAt(th, "cache") /\ likeReq[th].tweet = t /\ likeReq[th].user = u}

\* With one request per user in flight the likes column never exceeds the
\* users counted plus the requests that died after counting: no interleaving
\* of FindTweet, LikedBefore, IncrementLikes and CacheLikes of different
\* users counts a like twice.
LikesNeverOvercounted ==
  \A t \in Tweets : likes[t] <= Cardinality(Counted(t)) + orphaned[t]

\* A tweet somebody is remembered to like shows at least one like, so the
\* answer "tweet already liked (current likes = n)" never has n = 0:
\* concurrent stale writes of increment_likes never take the column back to 0.
LikedTweetHasLikes ==
  \A t \in Tweets : likers[t] # {} => likes[t] >= 1

(***************************************************************************)
(* The parts of the inductive invariant behind LikesNeverOvercounted.      *)
(***************************************************************************)
OneRequestPerUser ==
  \A a, b \in LikeThreads :
    Liking(a) /\ Liking(b) /\ a # b => likeReq[a].user # likeReq[b].user

\* What LikedBefore established still holds until CacheLikes.
NotYetLiked ==
  \A th \in LikeThreads :
    LikeAt(th, "save") \/ LikeAt(th, "cache") => likeReq[th].user \notin likers[likeReq[th].tweet]

\* The value increment_likes will write is one more than a number of users
\* that have been counted.
FoundBounded ==
  \A th \in LikeThreads :
    LikeAt(th, "check") \/ LikeAt(th, "save") =>
      likeReq[th].found <= Cardinality(Counted(likeReq[th].tweet)) + orphaned[likeReq[th].tweet]

OvercountInv ==
  OneRequestPerUser /\ NotYetLiked /\ FoundBounded /\ LikesNeverOvercounted

\* The part of the inductive invariant behind LikedTweetHasLikes.
SavedHasLikes ==
  \A th \in LikeThreads : LikeAt(th, "cache") => likes[likeReq[th].tweet] >= 1

\* Every like request is answered, whatever the other threads do.
LikeAnswered ==
  \A th \in LikeThreads : Liking(th) ~> ~Liking(th)

CountedUsers == [t \in Tweets |-> Counted(t)]

\* The promise of the like button, over the users counted so far.
Ledger == INSTANCE LikeLedger WITH Users <- LikeUsers, counted <- CountedUsers, total <- likes

\* With one request per user in flight and none dying, the handler implements
\* LikeLedger: increment_likes counts one new user, every other step of
\* POST /tweet/like is invisible.
ImplementsLedger == Ledger!Spec

LikesQuiet == \A th \in LikeThreads : ~Liking(th)

\* "A tweet cannot be liked by the same user more than once": when no request
\* is in flight and none died, the column counts no more than the users
\* remembered by cache_likes.
LikedOncePerUser ==
  LikesQuiet /\ likeAborts = 0 => \A t \in Tweets : likes[t] <= Cardinality(likers[t])
=============================================================================
