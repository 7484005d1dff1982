------------------------------ MODULE Publish ------------------------------
(***************************************************************************)
(* TweetProcessor#make_tweet and the feeds of RedisClass it fills.  Each   *)
(* call of make_tweet reads the author in the request and leaves the rest  *)
(* to a thread that outlives it, so that the threads of several tweets,    *)
(* even of one author, interleave at every database and Redis call.        *)
(* Follows come and go meanwhile.                                          *)
(***************************************************************************)
EXTENDS Naturals, Sequences, FiniteSets

CONSTANTS
  PublishUsers,              \* rows of the users table
  Authors,            \* the users who tweet
  Tags,
  Parents,            \* tweets that are replied to
  Texts,              \* texts that are tweeted
  Jobs,               \* the calls of make_tweet
  PublishClashing,           \* users whose name or email another row has: User#save fails
  None,
  Cap,                \* the length the front feed is kept at (50)
  MaxActive,          \* bound: jobs running at the same time
  MaxFollowChanges,   \* bound: follows and unfollows
  MaxPublishAborts           \* bound: jobs that die half-way

\* A word is its kind and the name it holds.  A text is its words and whether,
\* marked up, it fits the text column: Tweet accepts 1 to 140 characters.
Word == {"mention", "tag", "plain"} \X (PublishUsers \cup Tags \cup {None})
Text == [words : Seq(Word), fits : BOOLEAN]

ASSUME PublishAssumption ==
  /\ Authors \subseteq PublishUsers
  /\ PublishClashing \subseteq PublishUsers
  /\ None \notin PublishUsers \cup Tags \cup Parents \cup Nat
  /\ PublishUsers \cap Tags = {}
  /\ Texts \subseteq Text
  /\ Cap \in Nat \ {0}
  /\ MaxActive \in Nat
  /\ MaxFollowChanges \in Nat
  /\ MaxPublishAborts \in Nat
  /\ IsFiniteSet(Jobs)

VARIABLES
  at,            \* at[j]: the step job j is at
  job,           \* job[j]: its arguments, and what the request read; history: the
                 \* author's followers and the jobs that had ended at that time
  id,            \* id[j]: the id of the row it created, None if it has none
  todo,          \* todo[j]: followers still to be served
  ids,           \* ids[j]: mentioned users, or tags, still to be served
  nextTweetId,        \* the id the next row of the tweets table gets
  tweet_count,   \* tweet_count[u]: column of the users table
  ffeed,         \* the Redis lists; an entry is the job that pushed it
  pfeed,
  hfeed,
  replies,
  tagged,
  followers,     \* followers[a]: followers of a in the follows table
  changes,       \* number of follows and unfollows
  publishAborts,        \* number of jobs that died
  steady,        \* history: users who neither followed nor unfollowed the author during j
  counted,       \* history: jobs that have saved tweet_count
  pushed,        \* history: jobs in the order of their LPUSH to ffeed, newest first
  trimmed        \* history: jobs that have done RPOP

publishTables == <<nextTweetId, tweet_count, followers>>
feeds == <<ffeed, pfeed, hfeed, replies, tagged>>
publishHistory == <<changes, publishAborts, steady, counted, pushed, trimmed>>
publishVars == <<at, job, id, todo, ids, publishTables, feeds, publishHistory>>

NoJob == [author |-> None, text |-> None, reply |-> None, count |-> 0, audience |-> {},
          earlier |-> {}]

Running(j) == at[j] \notin {"new", "done", "dead"}

PublishGoto(j, step) == at' = [at EXCEPT ![j] = step]

\* LPUSH of job j to the list of key k.
Lpush(lists, k, j) == [lists EXCEPT ![k] = <<j>> \o @]

PublishInit ==
  /\ at = [j \in Jobs |-> "new"]
  /\ job = [j \in Jobs |-> NoJob]
  /\ id = [j \in Jobs |-> None]
  /\ todo = [j \in Jobs |-> {}]
  /\ ids = [j \in Jobs |-> <<>>]
  /\ nextTweetId = 1
  /\ tweet_count = [u \in PublishUsers |-> 0]
  /\ ffeed = <<>>
  /\ pfeed = [u \in PublishUsers |-> <<>>]
  /\ hfeed = [u \in PublishUsers |-> <<>>]
  /\ replies = [p \in Parents |-> <<>>]
  /\ tagged = [g \in Tags |-> <<>>]
  /\ followers \in {f \in [Authors -> SUBSET PublishUsers] : \A a \in Authors : a \notin f[a]}
  /\ changes = 0
  /\ publishAborts = 0
  /\ steady = [j \in Jobs |-> {}]
  /\ counted = {}
  /\ pushed = <<>>
  /\ trimmed = {}

(***************************************************************************)
(* process_text: what it finds in the words of a text.                     *)
(***************************************************************************)
NamesIn(words) == [i \in DOMAIN words |-> words[i][2]]

\* Mutant: a name no user has is taken for a mention too.
AnyMentions(text) ==
  LET isMention(w) == w[1] = "mention"
  IN  NamesIn(SelectSeq(text.words, isMention))

\* The ids of the users mentioned; a name no user has is left alone.
Mentions(text) ==
  LET isMention(w) == w[1] = "mention" /\ w[2] \in PublishUsers
  IN  NamesIn(SelectSeq(text.words, isMention))

TagsOf(text) ==
  LET isTag(w) == w[1] = "tag"
  IN  NamesIn(SelectSeq(text.words, isTag))

(***************************************************************************)
(* make_tweet.                                                             *)
(***************************************************************************)

\* In the request: user = User.find(id), then the thread is started.  Without a
\* user User.find raises, and nothing happens.
MakeTweet(j, a, text, reply) ==
  /\ at[j] = "new"
  /\ Cardinality({k \in Jobs : Running(k)}) < MaxActive
  /\ PublishGoto(j, "create")
  /\ job' = [job EXCEPT ![j] =
       [author |-> a, text |-> text, reply |-> reply, count |-> tweet_count[a],
        audience |-> followers[a], earlier |-> {k \in Jobs : at[k] \in {"done", "dead"}}]]
  /\ steady' = [steady EXCEPT ![j] = PublishUsers]
  /\ UNCHANGED <<id, todo, ids, publishTables, feeds, changes, publishAborts, counted, pushed, trimmed>>

\* POST /tweet/new/submit, or POST /api/v1/users/:user_name/new-tweet
NewTweet(j, a, text) == MakeTweet(j, a, text, None)

\* POST /tweet/reply/:reply_id
NewReply(j, a, text, parent) == MakeTweet(j, a, text, parent)

\* Tweet.create: no row, and no error, if the text does not fit.
CreateTweet(j) ==
  /\ at[j] = "create"
  /\ id' = [id EXCEPT ![j] = IF job[j].text.fits THEN nextTweetId ELSE None]
  /\ nextTweetId' = IF job[j].text.fits THEN nextTweetId + 1 ELSE nextTweetId
  /\ PublishGoto(j, IF job[j].reply = None THEN "count" ELSE "reply")
  /\ UNCHANGED <<job, todo, ids, tweet_count, followers, feeds, publishHistory>>

\* self.save: the UPDATE of the column, or nothing when the validation fails.
SavedCount(u, value) ==
  [tweet_count EXCEPT ![u] = IF u \in PublishClashing THEN @ ELSE value]

\* Mutant: increments in the database what the record has incremented already.
IncrementTweetsTwice(j) ==
  /\ at[j] = "count"
  /\ tweet_count' = SavedCount(job[j].author, job[j].count + 2)
  /\ counted' = counted \cup {j}
  /\ PublishGoto(j, "measure")
  /\ UNCHANGED <<job, id, todo, ids, nextTweetId, followers, feeds, changes, publishAborts, steady,
                 pushed, trimmed>>

\* user.increment_tweets, on the record read by the request.
IncrementTweets(j) ==
  /\ at[j] = "count"
  /\ tweet_count' = SavedCount(job[j].author, job[j].count + 1)
  /\ counted' = counted \cup {j}
  /\ PublishGoto(j, "measure")
  /\ UNCHANGED <<job, id, todo, ids, nextTweetId, followers, feeds, changes, publishAborts, steady,
                 pushed, trimmed>>

\* Mutant: one too many before the feed is trimmed.
MeasureLate(j) ==
  /\ at[j] = "measure"
  /\ PublishGoto(j, IF Len(ffeed) = Cap + 1 THEN "trim" ELSE "front")
  /\ UNCHANGED <<job, id, todo, ids, publishTables, feeds, publishHistory>>

\* cache_tweet: LRANGE ffeed, of which only the length is used.
MeasureFfeed(j) ==
  /\ at[j] = "measure"
  /\ PublishGoto(j, IF Len(ffeed) = Cap THEN "trim" ELSE "front")
  /\ UNCHANGED <<job, id, todo, ids, publishTables, feeds, publishHistory>>

\* Mutant: LPOP, the newest entry goes.
TrimNewest(j) ==
  /\ at[j] = "trim"
  /\ ffeed' = IF ffeed = <<>> THEN <<>> ELSE Tail(ffeed)
  /\ trimmed' = trimmed \cup {j}
  /\ PublishGoto(j, "front")
  /\ UNCHANGED <<job, id, todo, ids, publishTables, pfeed, hfeed, replies, tagged,
                 changes, publishAborts, steady, counted, pushed>>

\* RPOP ffeed
TrimFfeed(j) ==
  /\ at[j] = "trim"
  /\ ffeed' = IF ffeed = <<>> THEN <<>> ELSE SubSeq(ffeed, 1, Len(ffeed) - 1)
  /\ trimmed' = trimmed \cup {j}
  /\ PublishGoto(j, "front")
  /\ UNCHANGED <<job, id, todo, ids, publishTables, pfeed, hfeed, replies, tagged,
                 changes, publishAborts, steady, counted, pushed>>

\* Mutant: RPUSH, the new entry becomes the last.
AppendFfeed(j) ==
  /\ at[j] = "front"
  /\ ffeed' = Append(ffeed, j)
  /\ pushed' = <<j>> \o pushed
  /\ PublishGoto(j, "profile")
  /\ UNCHANGED <<job, id, todo, ids, publishTables, pfeed, hfeed, replies, tagged,
                 changes, publishAborts, steady, counted, trimmed>>

\* LPUSH ffeed
PushFfeed(j) ==
  /\ at[j] = "front"
  /\ ffeed' = <<j>> \o ffeed
  /\ pushed' = <<j>> \o pushed
  /\ PublishGoto(j, "profile")
  /\ UNCHANGED <<job, id, todo, ids, publishTables, pfeed, hfeed, replies, tagged,
                 changes, publishAborts, steady, counted, trimmed>>

\* LPUSH user:<id>:pfeed
PushPfeed(j) ==
  /\ at[j] = "profile"
  /\ pfeed' = Lpush(pfeed, job[j].author, j)
  /\ PublishGoto(j, "followers")
  /\ UNCHANGED <<job, id, todo, ids, publishTables, ffeed, hfeed, replies, tagged, publishHistory>>

\* What make_tweet does after cache_tweet or cache_reply: mentions, or else tags.
AfterFeeds(j) ==
  /\ PublishGoto(j, IF Mentions(job[j].text) # <<>> THEN "mentions"
             ELSE IF TagsOf(job[j].text) # <<>> THEN "tag" ELSE "done")
  /\ ids' = [ids EXCEPT ![j] =
       IF Mentions(job[j].text) # <<>> THEN <<>> ELSE TagsOf(job[j].text)]

\* followers = Follow.where(followed_id: user_id)
LoadFollowers(j) ==
  /\ at[j] = "followers"
  /\ todo' = [todo EXCEPT ![j] = followers[job[j].author]]
  /\ IF followers[job[j].author] = {} THEN AfterFeeds(j)
                                      ELSE PublishGoto(j, "home") /\ UNCHANGED ids
  /\ UNCHANGED <<job, id, publishTables, feeds, publishHistory>>

\* Mutant: the loop does not advance.
PushHfeedAgain(j) ==
  /\ at[j] = "home"
  /\ \E u \in todo[j] : hfeed' = [hfeed EXCEPT ![u] = IF @ = <<>> THEN <<j>> ELSE @]
  /\ UNCHANGED <<at, job, id, todo, ids, publishTables, ffeed, pfeed, replies, tagged, publishHistory>>

\* LPUSH user:<id>:hfeed for one of the followers.
PushHfeed(j) ==
  /\ at[j] = "home"
  /\ \E u \in todo[j] :
       /\ hfeed' = Lpush(hfeed, u, j)
       /\ todo' = [todo EXCEPT ![j] = @ \ {u}]
       /\ IF todo[j] = {u} THEN AfterFeeds(j) ELSE UNCHANGED <<at, ids>>
  /\ UNCHANGED <<job, id, publishTables, ffeed, pfeed, replies, tagged, publishHistory>>

\* cache_reply: RPUSH tweet:<id>:replies
CacheReply(j) ==
  /\ at[j] = "reply"
  /\ replies' = [replies EXCEPT ![job[j].reply] = Append(@, j)]
  /\ AfterFeeds(j)
  /\ UNCHANGED <<job, id, todo, publishTables, ffeed, pfeed, hfeed, tagged, publishHistory>>

\* Mutant: cache_mentions does not look at the followers.
LoadAllMentioned(j) ==
  /\ at[j] = "mentions"
  /\ ids' = [ids EXCEPT ![j] = Mentions(job[j].text)]
  /\ PublishGoto(j, "mention")
  /\ UNCHANGED <<job, id, todo, publishTables, feeds, publishHistory>>

\* cache_mentions: the followers are read again and taken off the ids.
LoadMentioned(j) ==
  /\ at[j] = "mentions"
  /\ LET isNoFollower(u) == u \notin followers[job[j].author]
         rest == SelectSeq(Mentions(job[j].text), isNoFollower)
     IN  /\ ids' = [ids EXCEPT ![j] = rest]
         /\ PublishGoto(j, IF rest = <<>> THEN "done" ELSE "mention")
  /\ UNCHANGED <<job, id, todo, publishTables, feeds, publishHistory>>

\* LPUSH user:<id>:hfeed for the next id.
PushMention(j) ==
  /\ at[j] = "mention"
  /\ hfeed' = Lpush(hfeed, Head(ids[j]), j)
  /\ ids' = [ids EXCEPT ![j] = Tail(@)]
  /\ PublishGoto(j, IF Len(ids[j]) = 1 THEN "done" ELSE "mention")
  /\ UNCHANGED <<job, id, todo, publishTables, ffeed, pfeed, replies, tagged, publishHistory>>

\* cache_tags: LPUSH tag:<name> for the next tag.
PushTag(j) ==
  /\ at[j] = "tag"
  /\ tagged' = Lpush(tagged, Head(ids[j]), j)
  /\ ids' = [ids EXCEPT ![j] = Tail(@)]
  /\ PublishGoto(j, IF Len(ids[j]) = 1 THEN "done" ELSE "tag")
  /\ UNCHANGED <<job, id, todo, publishTables, ffeed, pfeed, hfeed, replies, publishHistory>>

\* A call of the thread raises, or the process is restarted.
PublishAbort(j) ==
  /\ Running(j)
  /\ publishAborts < MaxPublishAborts
  /\ publishAborts' = publishAborts + 1
  /\ PublishGoto(j, "dead")
  /\ UNCHANGED <<job, id, todo, ids, publishTables, feeds, changes, steady, counted, pushed, trimmed>>

(***************************************************************************)
(* The environment: POST /user/follow and POST /user/unfollow.             *)
(***************************************************************************)
Unsteady(u, a) ==
  steady' = [j \in Jobs |->
    IF Running(j) /\ job[j].author = a THEN steady[j] \ {u} ELSE steady[j]]

Follow(u, a) ==
  /\ changes < MaxFollowChanges
  /\ u \notin followers[a] \cup {a}
  /\ followers' = [followers EXCEPT ![a] = @ \cup {u}]
  /\ changes' = changes + 1
  /\ Unsteady(u, a)
  /\ UNCHANGED <<at, job, id, todo, ids, nextTweetId, tweet_count, feeds, publishAborts, counted,
                 pushed, trimmed>>

Unfollow(u, a) ==
  /\ changes < MaxFollowChanges
  /\ u \in followers[a]
  /\ followers' = [followers EXCEPT ![a] = @ \ {u}]
  /\ changes' = changes + 1
  /\ Unsteady(u, a)
  /\ UNCHANGED <<at, job, id, todo, ids, nextTweetId, tweet_count, feeds, publishAborts, counted,
                 pushed, trimmed>>

\* No thread is running: the server waits for requests.
PublishIdle ==
  /\ \A j \in Jobs : ~Running(j)
  /\ UNCHANGED publishVars

PublishStep(j) ==
  \/ CreateTweet(j)
  \/ IncrementTweets(j)
  \/ MeasureFfeed(j)
  \/ TrimFfeed(j)
  \/ PushFfeed(j)
  \/ PushPfeed(j)
  \/ LoadFollowers(j)
  \/ PushHfeed(j)
  \/ CacheReply(j)
  \/ LoadMentioned(j)
  \/ PushMention(j)
  \/ PushTag(j)

PublishNext ==
  \/ \E j \in Jobs :
       \/ \E a \in Authors, text \in Texts : NewTweet(j, a, text)
       \/ \E a \in Authors, text \in Texts, p \in Parents : NewReply(j, a, text, p)
       \/ PublishStep(j)
       \/ PublishAbort(j)
  \/ \E u \in PublishUsers, a \in Authors : Follow(u, a) \/ Unfollow(u, a)
  \/ PublishIdle

PublishSpec == PublishInit /\ [][PublishNext]_publishVars

\* Ruby schedules every thread that can run, and every call returns or raises.
PublishFairSpec == PublishSpec /\ \A j \in Jobs : WF_publishVars(PublishStep(j))

(***************************************************************************)
(* Properties.                                                             *)
(***************************************************************************)

JobSteps == {"new", "create", "count", "measure", "trim", "front", "profile", "followers",
             "home", "reply", "mentions", "mention", "tag", "done", "dead"}

Job == [author : Authors, text : Texts, reply : Parents \cup {None},
        count : Nat, audience : SUBSET PublishUsers, earlier : SUBSET Jobs]

\* Type invariant of the feeds, the tables and the threads of make_tweet.
PublishTypeOK ==
  /\ at \in [Jobs -> JobSteps]
  /\ \A j \in Jobs : at[j] # "new" =>
       job[j] \in Job
  /\ id \in [Jobs -> Nat \cup {None}]
  /\ todo \in [Jobs -> SUBSET PublishUsers]
  /\ \A j \in Jobs :
       /\ at[j] = "home" => todo[j] # {}
       /\ at[j] = "mention" => ids[j] \in Seq(PublishUsers) /\ ids[j] # <<>>
       /\ at[j] = "tag" => ids[j] \in Seq(Tags) /\ ids[j] # <<>>
  /\ nextTweetId \in Nat
  /\ tweet_count \in [PublishUsers -> Nat]
  /\ ffeed \in Seq(Jobs)
  /\ pfeed \in [PublishUsers -> Seq(Jobs)]
  /\ hfeed \in [PublishUsers -> Seq(Jobs)]
  /\ replies \in [Parents -> Seq(Jobs)]
  /\ tagged \in [Tags -> Seq(Jobs)]
  /\ followers \in [Authors -> SUBSET PublishUsers]

\* How often j is in a feed, or a name among the names of a text.
Copies(feed, j) == Cardinality({i \in DOMAIN feed : feed[i] = j})

\* Once make_tweet's thread is through, the tweet is exactly where it belongs,
\* whatever other threads did: once in the author's profile feed and once in
\* the home feed of everybody who followed the author throughout; a reply only
\* under its parent; a mention once per occurrence in the home feed of a user
\* who did not follow throughout; tags only if there is no mention.
DeliveredExactly ==
  \A j \in Jobs : at[j] = "done" =>
    LET t == job[j]
        tweeted == IF t.reply = None THEN 1 ELSE 0
    IN  /\ Copies(pfeed[t.author], j) = tweeted
        /\ \A p \in Parents : Copies(replies[p], j) = IF p = t.reply THEN 1 ELSE 0
        /\ \A u \in steady[j] : Copies(hfeed[u], j) =
             IF u \in t.audience THEN tweeted ELSE Copies(Mentions(t.text), u)
        /\ \A g \in Tags : Copies(tagged[g], j) =
             IF Mentions(t.text) = <<>> THEN Copies(TagsOf(t.text), g) ELSE 0

\* The jobs that took an entry off the front feed and have put none there.
RoomMade == {j \in trimmed : Copies(pushed, j) = 0}

\* The front feed holds the tweets pushed last, in the order of cache_tweet's
\* LPUSHes, and racing RPOPs never leave it with fewer than Cap of them but
\* for the pushes that are still to come (or never come, the thread being
\* dead).
FrontFeedRecent ==
  /\ ffeed = SubSeq(pushed, 1, Len(ffeed))
  /\ LET length == Len(ffeed) + Cardinality(RoomMade)
     IN  length >= Cap \/ length >= Len(pushed)

\* increment_tweets on records read at different times loses tweets but never
\* counts one twice.
TweetsNeverOvercounted ==
  \A a \in Authors :
    tweet_count[a] <= Cardinality({j \in counted : job[j].author = a})

\* Every thread make_tweet starts comes to its end.
TweetDelivered ==
  \A j \in Jobs : Running(j) ~> ~Running(j)

\* No two threads have run at the same time.
NoOverlap ==
  \A j, k \in Jobs : j = k \/ at[j] = "new" \/ at[k] = "new"
                       \/ j \in job[k].earlier \/ k \in job[j].earlier

\* cache_tweet keeps the front feed at Cap entries (50 in the code), as long as
\* no two threads have run at the same time.
FrontFeedBoundedAlone == NoOverlap => Len(ffeed) <= Cap

\* "Front page tweets should display in order newest first": a tweet comes
\* before those whose threads had ended when it was made, whatever the threads
\* that overlap either of them do.
FrontFeedOrdered ==
  \A i, k \in DOMAIN ffeed : ffeed[k] \in job[ffeed[i]].earlier => i < k

\* cache_tweet's front feed is recent, in order and, without overlaps, bounded.
FeedsSound == FrontFeedRecent /\ FrontFeedOrdered /\ FrontFeedBoundedAlone

(***************************************************************************)
(* The inductive invariant behind TweetsNeverOvercounted and FeedsSound.   *)
(***************************************************************************)
FrontTyped ==
  /\ at \in [Jobs -> JobSteps]
  /\ job \in [Jobs -> Job \cup {NoJob}]
  /\ \A j \in Jobs : at[j] # "new" => job[j] \in Job
  /\ tweet_count \in [PublishUsers -> Nat]
  /\ followers \in [Authors -> SUBSET PublishUsers]
  /\ counted \subseteq Jobs
  /\ trimmed \subseteq Jobs
  /\ pushed \in Seq(Jobs)
  /\ ffeed \in Seq(Jobs)

\* What a request read of tweet_count was no overcount either, and its job is
\* counted only later.
ReadsPast ==
  \A j \in Jobs :
    /\ at[j] \in {"new", "create", "count"} => j \notin counted
    /\ at[j] # "new" =>
         job[j].count <= Cardinality({k \in counted : job[k].author = job[j].author})

\* What had ended when a job was made has ended still.
EarlierEnded ==
  \A j \in Jobs : at[j] # "new" => \A k \in job[j].earlier : at[k] \in {"done", "dead"}

\* A job is in the front feed only after its LPUSH, its RPOP comes once.
OncePerJob ==
  /\ \A i \in DOMAIN pushed :
       at[pushed[i]] \in {"profile", "followers", "home", "mentions", "mention", "tag", "done", "dead"}
  /\ \A j \in trimmed : at[j] \notin {"new", "create", "count", "measure", "trim"}

\* An RPOP comes after a length of Cap was read.  From then on the front feed
\* and the LPUSHes the RPOPs made room for are never fewer than Cap together.
TrimsWhenFull ==
  trimmed # {} \/ (\E j \in Jobs : at[j] = "trim") =>
    Len(ffeed) + Cardinality(RoomMade) >= Cap

\* Alone, an LPUSH finds room.
RoomAlone == NoOverlap => \A j \in Jobs : at[j] = "front" => Len(ffeed) < Cap

PublishInv ==
  /\ FrontTyped
  /\ ReadsPast
  /\ TweetsNeverOvercounted
  /\ EarlierEnded
  /\ OncePerJob
  /\ Len(ffeed) <= Len(pushed)
  /\ FeedsSound
  /\ TrimsWhenFull
  /\ RoomAlone

\* The comment in cache_mentions: "This is to prevent a tweet of replicating
\* itself in a persons wall".  No home feed has a tweet twice.
NeverReplicated ==
  \A u \in PublishUsers, j \in Jobs : Copies(hfeed[u], j) <= 1

\* The client's info command "returns the number of tweets": when no thread is
\* running and none died, tweet_count is the number of rows the author has in
\* the tweets table, replies apart.
TweetCountTrue ==
  publishAborts = 0 /\ (\A j \in Jobs : ~Running(j)) =>
    \A a \in Authors : tweet_count[a] =
      Cardinality({j \in Jobs : id[j] # None /\ job[j].author = a /\ job[j].reply = None})
=============================================================================
