--------------------------- MODULE PublishProofs ---------------------------
(***************************************************************************)
(* Proofs about Publish, for every set of users, texts and jobs, every     *)
(* length Cap of the front feed and every number of running threads.       *)
(***************************************************************************)
EXTENDS Publish, FiniteSetTheorems, SequenceTheorems, TLAPS

(***************************************************************************)
(* Feeds: what LPUSH and RPOP do to a prefix, and what Copies counts.      *)
(***************************************************************************)

\* An entry has no copy in a feed exactly when it is at none of its places.
LEMMA NoCopies ==
  ASSUME NEW S, NEW s \in Seq(S), NEW x
  PROVE  Copies(s, x) = 0 <=> \A i \in 1..Len(s) : s[i] # x
<1>1. Len(s) \in Nat /\ DOMAIN s = 1..Len(s)
  BY LenProperties
<1>2. IsFiniteSet(1..Len(s))
  BY <1>1, FS_Interval
<1>3. IsFiniteSet({i \in 1..Len(s) : s[i] = x})
  BY <1>2, FS_Subset
<1>4. Copies(s, x) = 0 <=> {i \in 1..Len(s) : s[i] = x} = {}
  <2>1. Copies(s, x) = Cardinality({i \in 1..Len(s) : s[i] = x})
    BY <1>1 DEF Copies
  <2>2. QED
    BY <1>3, <2>1, FS_EmptySet
<1>5. QED
  BY <1>4

\* SubSeq from 1 is the prefix.
LEMMA Prefix ==
  ASSUME NEW S, NEW s \in Seq(S), NEW t \in Seq(S), Len(s) <= Len(t)
  PROVE  s = SubSeq(t, 1, Len(s)) <=> \A i \in 1..Len(s) : s[i] = t[i]
<1>1. Len(s) \in Nat /\ Len(t) \in Nat
  BY LenProperties
<1>2. \A i \in 1..Len(s) : t[i] \in S
  BY <1>1, ElementOfSeq
<1>3. /\ SubSeq(t, 1, Len(s)) \in Seq(S)
      /\ Len(SubSeq(t, 1, Len(s))) = Len(s)
      /\ \A i \in 1..Len(s) : SubSeq(t, 1, Len(s))[i] = t[i]
  <2>1. /\ SubSeq(t, 1, Len(s)) \in Seq(S)
        /\ Len(SubSeq(t, 1, Len(s))) = IF 1 <= Len(s) THEN Len(s) - 1 + 1 ELSE 0
        /\ \A i \in 1..(Len(s) - 1 + 1) : SubSeq(t, 1, Len(s))[i] = t[1 + i - 1]
    BY <1>1, <1>2, SubSeqProperties
  <2>2. QED
    BY <1>1, <2>1
<1>4. QED
  BY <1>1, <1>3, SeqEqual

\* LPUSH puts the job in front of the others.
LEMMA Pushing ==
  ASSUME NEW S, NEW s \in Seq(S), NEW x \in S
  PROVE  /\ <<x>> \o s \in Seq(S)
         /\ Len(<<x>> \o s) = Len(s) + 1
         /\ \A i \in 1..Len(s) + 1 : (<<x>> \o s)[i] = IF i = 1 THEN x ELSE s[i - 1]
<1>1. <<x>> \in Seq(S) /\ Len(<<x>>) = 1 /\ <<x>>[1] = x
  OBVIOUS
<1>2. Len(s) \in Nat
  BY LenProperties
<1>3. QED
  BY <1>1, <1>2, ConcatProperties

\* RPOP takes the last one away.
LEMMA Popping ==
  ASSUME NEW S, NEW s \in Seq(S), s # <<>>
  PROVE  /\ SubSeq(s, 1, Len(s) - 1) \in Seq(S)
         /\ Len(SubSeq(s, 1, Len(s) - 1)) = Len(s) - 1
         /\ \A i \in 1..Len(s) - 1 : SubSeq(s, 1, Len(s) - 1)[i] = s[i]
<1>1. Len(s) \in Nat \ {0}
  BY EmptySeq
<1>2. PICK n \in Nat : n = Len(s) - 1
  BY <1>1
<1>3. \A i \in 1..n : s[i] \in S
  BY <1>1, <1>2, ElementOfSeq
<1>4. /\ SubSeq(s, 1, n) \in Seq(S)
      /\ Len(SubSeq(s, 1, n)) = IF 1 <= n THEN n - 1 + 1 ELSE 0
      /\ \A i \in 1..(n - 1 + 1) : SubSeq(s, 1, n)[i] = s[1 + i - 1]
  BY <1>3, SubSeqProperties
<1>5. (IF 1 <= n THEN n - 1 + 1 ELSE 0) = n /\ n - 1 + 1 = n
  OBVIOUS
<1>6. \A i \in 1..n : 1 + i - 1 = i
  OBVIOUS
<1>7. QED
  BY <1>2, <1>4, <1>5, <1>6

-----------------------------------------------------------------------------

(***************************************************************************)
(* PublishInv is inductive.                                                *)
(***************************************************************************)

\* The jobs past their LPUSH.
Past == {"profile", "followers", "home", "mentions", "mention", "tag", "done", "dead"}

\* The places of the front feed are those of the jobs pushed last, which are
\* past their LPUSH.
LEMMA FrontEntries ==
  ASSUME PublishInv
  PROVE  /\ Len(ffeed) \in Nat /\ Len(pushed) \in Nat /\ Len(ffeed) <= Len(pushed)
         /\ DOMAIN ffeed = 1..Len(ffeed) /\ DOMAIN pushed = 1..Len(pushed)
         /\ \A i \in 1..Len(ffeed) :
              ffeed[i] \in Jobs /\ ffeed[i] = pushed[i] /\ at[ffeed[i]] \in Past
         /\ \A i \in 1..Len(pushed) : pushed[i] \in Jobs /\ at[pushed[i]] \in Past
<1>1. ffeed \in Seq(Jobs) /\ pushed \in Seq(Jobs) /\ Len(ffeed) <= Len(pushed)
  BY DEF PublishInv, FrontTyped
<1>2. /\ Len(ffeed) \in Nat /\ Len(pushed) \in Nat
      /\ DOMAIN ffeed = 1..Len(ffeed) /\ DOMAIN pushed = 1..Len(pushed)
  BY <1>1, LenProperties
<1>3. ffeed = SubSeq(pushed, 1, Len(ffeed))
  BY DEF PublishInv, FeedsSound, FrontFeedRecent
<1>4. \A i \in 1..Len(ffeed) : ffeed[i] = pushed[i]
  BY <1>1, <1>3, Prefix
<1>5. \A i \in 1..Len(pushed) : pushed[i] \in Jobs /\ at[pushed[i]] \in Past
  BY <1>1, <1>2, ElementOfSeq DEF PublishInv, OncePerJob, Past
<1>6. QED
  BY <1>1, <1>2, <1>4, <1>5

\* A step that only moves a thread on, along the code's path, or takes it down.
LEMMA QuietKeeps ==
  ASSUME PublishInv, NEW j \in Jobs, NEW next \in JobSteps, Running(j),
         at' = [at EXCEPT ![j] = next],
         UNCHANGED <<job, tweet_count, followers, ffeed, counted, pushed, trimmed>>,
         next \notin {"new", "create", "measure"},
         next = "count" => at[j] = "create",
         next = "trim" => at[j] = "measure" /\ Len(ffeed) = Cap,
         next = "front" => Len(ffeed) # Cap,
         at[j] \in Past => next \in Past
  PROVE  PublishInv'
<1>1. /\ at \in [Jobs -> JobSteps] /\ at'[j] = next /\ at[j] \notin {"new", "done", "dead"}
      /\ \A k \in Jobs : k # j => at'[k] = at[k]
  BY DEF PublishInv, FrontTyped, Running
<1>2. FrontTyped'
  BY <1>1 DEF PublishInv, FrontTyped
<1>3. ReadsPast' /\ TweetsNeverOvercounted'
  BY <1>1 DEF PublishInv, ReadsPast, TweetsNeverOvercounted
<1>4. EarlierEnded'
  BY <1>1 DEF PublishInv, EarlierEnded, FrontTyped, Job
<1>5. OncePerJob'
  <2>1. \A i \in DOMAIN pushed : at'[pushed[i]] \in Past
    BY <1>1, FrontEntries
  <2>2. \A k \in trimmed : at'[k] \notin {"new", "create", "count", "measure", "trim"}
    BY <1>1 DEF PublishInv, OncePerJob, FrontTyped
  <2>3. QED
    BY <2>1, <2>2 DEF OncePerJob, Past
<1>6. RoomMade' = RoomMade
  BY DEF RoomMade
<1>7. NoOverlap' = NoOverlap
  BY <1>1 DEF NoOverlap
<1>8. FeedsSound'
  BY <1>6, <1>7
    DEF PublishInv, FeedsSound, FrontFeedRecent, FrontFeedOrdered, FrontFeedBoundedAlone
<1>9. TrimsWhenFull'
  <2>1. CASE Len(ffeed) = Cap
    <3>1. IsFiniteSet(RoomMade)
      BY PublishAssumption, FS_Subset DEF PublishInv, FrontTyped, RoomMade
    <3>2. Cardinality(RoomMade) \in Nat
      BY <3>1, FS_CardinalityType
    <3>3. Cap \in Nat
      BY PublishAssumption
    <3>4. Len(ffeed) + Cardinality(RoomMade) >= Cap
      BY <2>1, <3>2, <3>3
    <3>5. QED
      BY <1>6, <3>4 DEF TrimsWhenFull
  <2>2. CASE Len(ffeed) # Cap
    BY <1>1, <1>6, <2>2 DEF PublishInv, TrimsWhenFull
  <2>3. QED
    BY <2>1, <2>2
<1>10. RoomAlone'
  <2>1. Len(ffeed) \in Nat /\ Cap \in Nat
    BY FrontEntries, PublishAssumption
  <2>2. NoOverlap => Len(ffeed) <= Cap
    BY DEF PublishInv, FeedsSound, FrontFeedBoundedAlone
  <2>3. ASSUME NoOverlap, NEW k \in Jobs, at'[k] = "front" PROVE Len(ffeed) < Cap
    <3>1. CASE k = j
      BY <1>1, <2>1, <2>2, <2>3, <3>1
    <3>2. CASE k # j
      BY <1>1, <2>3, <3>2 DEF PublishInv, RoomAlone
    <3>3. QED
      BY <3>1, <3>2
  <2>4. QED
    BY <1>7, <2>3 DEF RoomAlone
<1>11. QED
  BY <1>2, <1>3, <1>4, <1>5, <1>8, <1>9, <1>10 DEF PublishInv

\* The request of make_tweet.
LEMMA MakeKeeps ==
  ASSUME PublishInv, NEW j \in Jobs, NEW a \in Authors, NEW text \in Texts,
         NEW reply \in Parents \cup {None}, MakeTweet(j, a, text, reply)
  PROVE  PublishInv'
<1> USE DEF MakeTweet, PublishGoto, publishTables, feeds
<1>1. /\ at \in [Jobs -> JobSteps] /\ at[j] = "new" /\ at'[j] = "create"
      /\ \A k \in Jobs : k # j => at'[k] = at[k]
  BY DEF PublishInv, FrontTyped
<1>2. PICK new : new = [author |-> a, text |-> text, reply |-> reply, count |-> tweet_count[a],
                        audience |-> followers[a],
                        earlier |-> {k \in Jobs : at[k] \in {"done", "dead"}}]
  OBVIOUS
<1>3. /\ new \in Job /\ new.author = a /\ new.count = tweet_count[a]
      /\ new.earlier = {k \in Jobs : at[k] \in {"done", "dead"}}
  BY <1>2, PublishAssumption DEF PublishInv, FrontTyped, Job
<1>4. job \in [Jobs -> Job \cup {NoJob}] /\ job' = [job EXCEPT ![j] = new]
  BY <1>2 DEF PublishInv, FrontTyped
<1>5. job'[j] = new /\ \A k \in Jobs : k # j => job'[k] = job[k]
  BY <1>4
<1>6. UNCHANGED <<tweet_count, followers, ffeed, counted, pushed, trimmed>>
  OBVIOUS
<1> HIDE DEF MakeTweet, PublishGoto, publishTables, feeds
<1>7. FrontTyped'
  <2>1. at' \in [Jobs -> JobSteps]
    BY DEF MakeTweet, PublishGoto, PublishInv, FrontTyped, JobSteps
  <2>2. job' \in [Jobs -> Job \cup {NoJob}]
    BY <1>3, <1>4
  <2>3. \A k \in Jobs : at'[k] # "new" => job'[k] \in Job
    BY <1>1, <1>3, <1>5 DEF PublishInv, FrontTyped
  <2>4. QED
    BY <1>6, <2>1, <2>2, <2>3 DEF PublishInv, FrontTyped
<1>8. j \notin counted /\ counted \subseteq Jobs
  BY <1>1 DEF PublishInv, ReadsPast, FrontTyped
<1>9. \A b : {k \in counted' : job'[k].author = b} = {k \in counted : job[k].author = b}
  BY <1>5, <1>6, <1>8
<1>10. TweetsNeverOvercounted'
  BY <1>6, <1>9 DEF PublishInv, TweetsNeverOvercounted
<1>11. ReadsPast'
  <2>1. tweet_count[a] <= Cardinality({k \in counted : job[k].author = a})
    BY DEF PublishInv, TweetsNeverOvercounted
  <2>2. ASSUME NEW k \in Jobs
        PROVE  /\ at'[k] \in {"new", "create", "count"} => k \notin counted'
               /\ at'[k] # "new" => job'[k].count <=
                    Cardinality({l \in counted' : job'[l].author = job'[k].author})
    <3>1. CASE k = j
      <4>1. job'[k].author = a /\ job'[k].count = tweet_count[a] /\ k \notin counted'
        BY <1>3, <1>5, <1>6, <1>8, <3>1
      <4>2. {l \in counted' : job'[l].author = job'[k].author} = {l \in counted : job[l].author = a}
        BY <1>9, <4>1
      <4>3. QED
        BY <2>1, <4>1, <4>2
    <3>2. CASE k # j
      <4>1. PICK b : b = job[k].author
        OBVIOUS
      <4>2. job'[k].author = b /\ job'[k] = job[k] /\ at'[k] = at[k]
        BY <1>1, <1>5, <3>2, <4>1
      <4>3. {l \in counted' : job'[l].author = job'[k].author} = {l \in counted : job[l].author = b}
        BY <1>9, <4>2
      <4>4. at[k] # "new" => job[k].count <= Cardinality({l \in counted : job[l].author = b})
        BY <4>1 DEF PublishInv, ReadsPast
      <4>5. at[k] \in {"new", "create", "count"} => k \notin counted
        BY DEF PublishInv, ReadsPast
      <4>6. QED
        BY <1>6, <4>2, <4>3, <4>4, <4>5
    <3>3. QED
      BY <3>1, <3>2
  <2>3. QED
    BY <2>2 DEF ReadsPast
<1>12. EarlierEnded'
  <2>1. ASSUME NEW k \in Jobs, at'[k] # "new", NEW l \in job'[k].earlier
        PROVE  at'[l] \in {"done", "dead"}
    <3>1. l \in Jobs /\ at[l] \in {"done", "dead"}
      BY <1>1, <1>3, <1>5, <2>1 DEF PublishInv, EarlierEnded, FrontTyped, Job
    <3>2. QED
      BY <1>1, <3>1
  <2>2. QED
    BY <2>1 DEF EarlierEnded
<1>13. OncePerJob'
  <2>1. \A i \in DOMAIN pushed : at'[pushed[i]] \in Past
    BY <1>1, FrontEntries DEF Past
  <2>2. \A k \in trimmed : at'[k] \notin {"new", "create", "count", "measure", "trim"}
    BY <1>1 DEF PublishInv, OncePerJob, FrontTyped
  <2>3. QED
    BY <1>6, <2>1, <2>2 DEF OncePerJob, Past
<1>14. RoomMade' = RoomMade
  BY <1>6 DEF RoomMade
<1>15. NoOverlap' => NoOverlap
  BY <1>1, <1>5 DEF NoOverlap
<1>16. FeedsSound'
  <2>1. FrontFeedRecent'
    BY <1>6, <1>14 DEF PublishInv, FeedsSound, FrontFeedRecent
  <2>2. FrontFeedOrdered'
    <3>1. \A i \in DOMAIN ffeed : job'[ffeed[i]] = job[ffeed[i]]
      BY <1>1, <1>5, FrontEntries DEF Past
    <3>2. QED
      BY <1>6, <3>1 DEF PublishInv, FeedsSound, FrontFeedOrdered
  <2>3. FrontFeedBoundedAlone'
    BY <1>6, <1>15 DEF PublishInv, FeedsSound, FrontFeedBoundedAlone
  <2>4. QED
    BY <2>1, <2>2, <2>3 DEF FeedsSound
<1>17. TrimsWhenFull'
  BY <1>1, <1>6, <1>14 DEF PublishInv, TrimsWhenFull
<1>18. RoomAlone'
  BY <1>1, <1>6, <1>15 DEF PublishInv, RoomAlone
<1>19. QED
  BY <1>6, <1>7, <1>10, <1>11, <1>12, <1>13, <1>16, <1>17, <1>18 DEF PublishInv

\* user.increment_tweets.
LEMMA IncrementKeeps ==
  ASSUME PublishInv, NEW j \in Jobs, IncrementTweets(j)
  PROVE  PublishInv'
<1> USE DEF IncrementTweets, PublishGoto, feeds
<1>1. /\ at \in [Jobs -> JobSteps] /\ at[j] = "count" /\ at'[j] = "measure"
      /\ \A k \in Jobs : k # j => at'[k] = at[k]
  BY DEF PublishInv, FrontTyped
<1>2. UNCHANGED <<job, followers, ffeed, pushed, trimmed>> /\ counted' = counted \cup {j}
  OBVIOUS
<1>3. PICK a \in Authors : a = job[j].author
  BY <1>1 DEF PublishInv, FrontTyped, Job
<1>4. PICK n \in Nat : n = job[j].count
  BY <1>1 DEF PublishInv, FrontTyped, Job
<1>5. /\ tweet_count \in [PublishUsers -> Nat] /\ a \in PublishUsers
      /\ tweet_count' = [tweet_count EXCEPT ![a] = IF a \in PublishClashing THEN @ ELSE n + 1]
  BY <1>3, <1>4, PublishAssumption DEF PublishInv, FrontTyped, SavedCount
<1>6. /\ tweet_count' \in [PublishUsers -> Nat]
      /\ tweet_count'[a] \in {tweet_count[a], n + 1}
      /\ \A b \in Authors : b # a => tweet_count'[b] = tweet_count[b]
  BY <1>5, PublishAssumption, SMTT(30)
<1>7. j \notin counted /\ counted \subseteq Jobs /\ n <= Cardinality({k \in counted : job[k].author = a})
  BY <1>1, <1>3, <1>4 DEF PublishInv, ReadsPast, FrontTyped
<1> HIDE DEF IncrementTweets, PublishGoto, feeds
<1> DEFINE By(b) == {k \in counted : job[k].author = b}
<1>8. ASSUME NEW b \in Authors
      PROVE  /\ Cardinality(By(b)) \in Nat
             /\ Cardinality({k \in counted' : job'[k].author = b}) =
                  IF b = a THEN Cardinality(By(b)) + 1 ELSE Cardinality(By(b))
  <2>1. IsFiniteSet(By(b))
    BY <1>7, PublishAssumption, FS_Subset
  <2>2. b = a => {k \in counted' : job'[k].author = b} = By(b) \cup {j}
    BY <1>2, <1>3
  <2>3. b # a => {k \in counted' : job'[k].author = b} = By(b)
    BY <1>2, <1>3
  <2>4. j \notin By(b)
    BY <1>7
  <2> HIDE DEF By
  <2>5. Cardinality(By(b)) \in Nat
    BY <2>1, FS_CardinalityType
  <2>6. Cardinality(By(b) \cup {j}) = Cardinality(By(b)) + 1
    BY <2>1, <2>4, FS_AddElement
  <2>7. QED
    BY <2>2, <2>3, <2>5, <2>6
<1>9. TweetsNeverOvercounted'
  <2>1. ASSUME NEW b \in Authors
        PROVE  tweet_count'[b] <= Cardinality({k \in counted' : job'[k].author = b})
    <3>1. tweet_count[b] <= Cardinality(By(b)) /\ tweet_count[b] \in Nat
      BY PublishAssumption DEF PublishInv, TweetsNeverOvercounted, FrontTyped
    <3>2. b = a => n <= Cardinality(By(b))
      BY <1>7
    <3> HIDE DEF By
    <3>3. QED
      BY <1>6, <1>8, <3>1, <3>2
  <2>2. QED
    BY <2>1 DEF TweetsNeverOvercounted
<1>10. ReadsPast'
  <2>1. ASSUME NEW k \in Jobs
        PROVE  /\ at'[k] \in {"new", "create", "count"} => k \notin counted'
               /\ at'[k] # "new" => job'[k].count <=
                    Cardinality({l \in counted' : job'[l].author = job'[k].author})
    <3>1. at'[k] \in {"new", "create", "count"} => k \notin counted'
      BY <1>1, <1>2 DEF PublishInv, ReadsPast
    <3>2. ASSUME at'[k] # "new"
          PROVE  job[k].count <= Cardinality({l \in counted' : job'[l].author = job[k].author})
      <4>1. at[k] # "new"
        BY <1>1, <3>2
      <4>2. job[k].count \in Nat /\ job[k].author \in Authors
        BY <4>1 DEF PublishInv, FrontTyped, Job
      <4>3. PICK b \in Authors : b = job[k].author
        BY <4>2
      <4>4. job[k].count <= Cardinality(By(b))
        BY <4>1, <4>3 DEF PublishInv, ReadsPast
      <4> HIDE DEF By
      <4>5. job[k].count <= Cardinality({l \in counted' : job'[l].author = b})
        BY <1>8, <4>2, <4>4
      <4>6. QED
        BY <4>3, <4>5
    <3>3. QED
      BY <1>2, <3>1, <3>2
  <2>2. QED
    BY <2>1 DEF ReadsPast
<1>11. FrontTyped'
  <2>1. at' \in [Jobs -> JobSteps]
    BY DEF IncrementTweets, PublishGoto, PublishInv, FrontTyped, JobSteps
  <2>2. QED
    BY <1>1, <1>2, <1>6, <2>1 DEF PublishInv, FrontTyped
<1>12. EarlierEnded'
  BY <1>1, <1>2 DEF PublishInv, EarlierEnded, FrontTyped, Job
<1>13. OncePerJob'
  <2>1. \A i \in DOMAIN pushed : at'[pushed[i]] \in Past
    BY <1>1, FrontEntries DEF Past
  <2>2. \A k \in trimmed : at'[k] \notin {"new", "create", "count", "measure", "trim"}
    BY <1>1 DEF PublishInv, OncePerJob, FrontTyped
  <2>3. QED
    BY <1>2, <2>1, <2>2 DEF OncePerJob, Past
<1>14. RoomMade' = RoomMade /\ NoOverlap' = NoOverlap
  BY <1>1, <1>2 DEF RoomMade, NoOverlap
<1>15. FeedsSound'
  BY <1>2, <1>14
    DEF PublishInv, FeedsSound, FrontFeedRecent, FrontFeedOrdered, FrontFeedBoundedAlone
<1>16. TrimsWhenFull' /\ RoomAlone'
  BY <1>1, <1>2, <1>14 DEF PublishInv, TrimsWhenFull, RoomAlone
<1>17. QED
  BY <1>2, <1>9, <1>10, <1>11, <1>12, <1>13, <1>15, <1>16 DEF PublishInv

\* What TrimFfeed and PushFfeed share: the thread moves on within cache_tweet.
LEMMA FrontStepKeeps ==
  ASSUME PublishInv, NEW j \in Jobs, NEW next \in {"front", "profile"}, at[j] \in {"trim", "front"},
         at' = [at EXCEPT ![j] = next], UNCHANGED <<job, tweet_count, followers, counted>>,
         ffeed' \in Seq(Jobs), pushed' \in Seq(Jobs), trimmed' \subseteq Jobs
  PROVE  /\ FrontTyped' /\ ReadsPast' /\ TweetsNeverOvercounted' /\ EarlierEnded'
         /\ NoOverlap' = NoOverlap
<1>1. /\ at \in [Jobs -> JobSteps] /\ at'[j] = next
      /\ \A k \in Jobs : k # j => at'[k] = at[k]
  BY DEF PublishInv, FrontTyped
<1>2. FrontTyped'
  BY <1>1 DEF PublishInv, FrontTyped, JobSteps
<1>3. ReadsPast' /\ TweetsNeverOvercounted'
  BY <1>1 DEF PublishInv, ReadsPast, TweetsNeverOvercounted
<1>4. EarlierEnded'
  BY <1>1 DEF PublishInv, EarlierEnded, FrontTyped, Job
<1>5. NoOverlap' = NoOverlap
  BY <1>1 DEF NoOverlap
<1>6. QED
  BY <1>2, <1>3, <1>4, <1>5

\* RPOP ffeed: an entry less in the feed, a push more to come.
LEMMA TrimKeeps ==
  ASSUME PublishInv, NEW j \in Jobs, TrimFfeed(j)
  PROVE  PublishInv'
<1>1. /\ at[j] = "trim" /\ at' = [at EXCEPT ![j] = "front"]
      /\ ffeed' = IF ffeed = <<>> THEN <<>> ELSE SubSeq(ffeed, 1, Len(ffeed) - 1)
      /\ trimmed' = trimmed \cup {j}
      /\ UNCHANGED <<job, tweet_count, followers, counted, pushed>>
  BY DEF TrimFfeed, PublishGoto, publishTables
<1>2. /\ ffeed \in Seq(Jobs) /\ pushed \in Seq(Jobs) /\ trimmed \subseteq Jobs
      /\ at \in [Jobs -> JobSteps]
  BY DEF PublishInv, FrontTyped
<1>3. /\ at'[j] = "front"
      /\ \A k \in Jobs : k # j => at'[k] = at[k]
  BY <1>1, <1>2
<1>4. PICK n \in Nat : n = Len(ffeed)
  BY FrontEntries
<1>5. PICK m \in Nat : m = IF n = 0 THEN 0 ELSE n - 1
  BY <1>4
<1>6. /\ ffeed' \in Seq(Jobs) /\ Len(ffeed') = m
      /\ \A i \in 1..m : ffeed'[i] = ffeed[i]
  <2>1. CASE ffeed = <<>>
    BY <1>1, <1>4, <1>5, <2>1
  <2>2. CASE ffeed # <<>>
    <3>1. n # 0
      BY <1>2, <1>4, <2>2, EmptySeq
    <3>2. ffeed' = SubSeq(ffeed, 1, Len(ffeed) - 1) /\ m = Len(ffeed) - 1
      BY <1>1, <1>4, <1>5, <2>2, <3>1
    <3>3. QED
      BY <1>2, <2>2, <3>2, Popping
  <2>3. QED
    BY <2>1, <2>2
<1>7. m <= n /\ n <= m + 1 /\ (n = 0 \/ m < n)
  BY <1>5
<1>8. FrontTyped' /\ ReadsPast' /\ TweetsNeverOvercounted' /\ EarlierEnded' /\ NoOverlap' = NoOverlap
  BY <1>1, <1>2, <1>6, FrontStepKeeps
<1>9. OncePerJob'
  <2>1. \A i \in DOMAIN pushed : at'[pushed[i]] \in Past
    BY <1>1, <1>3, FrontEntries DEF Past
  <2>2. \A k \in trimmed' : at'[k] \notin {"new", "create", "count", "measure", "trim"}
    BY <1>1, <1>2, <1>3 DEF PublishInv, OncePerJob
  <2>3. QED
    BY <1>1, <2>1, <2>2 DEF OncePerJob, Past
<1>10. Len(ffeed') <= Len(pushed')
  BY <1>1, <1>4, <1>6, <1>7, FrontEntries
<1>11. /\ IsFiniteSet(RoomMade) /\ Cardinality(RoomMade) \in Nat
       /\ Cardinality(RoomMade') = Cardinality(RoomMade) + 1
  <2>1. IsFiniteSet(RoomMade)
    BY <1>2, PublishAssumption, FS_Subset DEF RoomMade
  <2>2. j \notin RoomMade
    BY <1>1 DEF PublishInv, OncePerJob, RoomMade
  <2>3. Copies(pushed, j) = 0
    BY <1>1, <1>2, FrontEntries, NoCopies DEF Past
  <2>4. RoomMade' = RoomMade \cup {j}
    BY <1>1, <2>3 DEF RoomMade
  <2>5. QED
    BY <2>1, <2>2, <2>4, FS_AddElement, FS_CardinalityType
<1>12. Len(ffeed) + Cardinality(RoomMade) >= Cap
  BY <1>1 DEF PublishInv, TrimsWhenFull
<1>13. Len(ffeed') + Cardinality(RoomMade') >= Cap
  <2>1. Cap \in Nat
    BY PublishAssumption
  <2>2. QED
    BY <1>4, <1>6, <1>7, <1>11, <1>12, <2>1
<1>14. TrimsWhenFull'
  BY <1>13 DEF TrimsWhenFull
<1>15. FrontFeedRecent'
  <2>1. \A i \in 1..Len(ffeed') : ffeed'[i] = pushed'[i]
    <3>1. \A i \in 1..m : i \in 1..n
      BY <1>7
    <3>2. \A i \in 1..n : ffeed[i] = pushed[i]
      BY <1>4, FrontEntries
    <3>3. QED
      BY <1>1, <1>6, <3>1, <3>2
  <2>2. ffeed' = SubSeq(pushed', 1, Len(ffeed'))
    BY <1>1, <1>2, <1>6, <1>10, <2>1, Prefix
  <2>3. QED
    BY <1>13, <2>2 DEF FrontFeedRecent
<1>16. FrontFeedOrdered'
  <2>1. DOMAIN ffeed' = 1..m /\ DOMAIN ffeed = 1..n
    BY <1>4, <1>6, FrontEntries, LenProperties
  <2>2. \A i \in 1..m : i \in 1..n /\ ffeed'[i] = ffeed[i]
    BY <1>6, <1>7
  <2>3. QED
    BY <1>1, <2>1, <2>2, SMTT(30) DEF PublishInv, FeedsSound, FrontFeedOrdered
<1>17. Cap \in Nat \ {0}
  BY PublishAssumption
<1>18. FrontFeedBoundedAlone'
  BY <1>4, <1>6, <1>7, <1>8, <1>17 DEF PublishInv, FeedsSound, FrontFeedBoundedAlone
<1>19. RoomAlone'
  <2>1. NoOverlap => n <= Cap
    BY <1>4 DEF PublishInv, FeedsSound, FrontFeedBoundedAlone
  <2>2. NoOverlap => m < Cap
    BY <1>7, <1>17, <2>1
  <2>3. QED
    BY <1>6, <1>8, <2>2 DEF RoomAlone
<1>20. QED
  BY <1>8, <1>9, <1>10, <1>14, <1>15, <1>16, <1>18, <1>19 DEF PublishInv, FeedsSound

\* LPUSH ffeed: an entry more, and if the thread made room for it, a push less
\* to come.
LEMMA PushKeeps ==
  ASSUME PublishInv, NEW j \in Jobs, PushFfeed(j)
  PROVE  PublishInv'
<1>1. /\ at[j] = "front" /\ at' = [at EXCEPT ![j] = "profile"]
      /\ ffeed' = <<j>> \o ffeed /\ pushed' = <<j>> \o pushed
      /\ UNCHANGED <<job, tweet_count, followers, counted, trimmed>>
  BY DEF PushFfeed, PublishGoto, publishTables
<1>2. /\ ffeed \in Seq(Jobs) /\ pushed \in Seq(Jobs) /\ trimmed \subseteq Jobs
      /\ at \in [Jobs -> JobSteps]
  BY DEF PublishInv, FrontTyped
<1>3. /\ at'[j] = "profile"
      /\ \A k \in Jobs : k # j => at'[k] = at[k]
  BY <1>1, <1>2
<1>4. PICK n \in Nat : n = Len(ffeed)
  BY FrontEntries
<1>5. PICK p \in Nat : p = Len(pushed) /\ n <= p
  BY <1>4, FrontEntries
<1>6. /\ ffeed' \in Seq(Jobs) /\ Len(ffeed') = n + 1 /\ DOMAIN ffeed' = 1..n + 1
      /\ \A i \in 1..n + 1 : ffeed'[i] = IF i = 1 THEN j ELSE ffeed[i - 1]
  <2>1. /\ ffeed' \in Seq(Jobs) /\ Len(ffeed') = n + 1
        /\ \A i \in 1..n + 1 : ffeed'[i] = IF i = 1 THEN j ELSE ffeed[i - 1]
    BY <1>1, <1>2, <1>4, Pushing
  <2>2. QED
    BY <2>1, LenProperties
<1>7. /\ pushed' \in Seq(Jobs) /\ Len(pushed') = p + 1 /\ DOMAIN pushed' = 1..p + 1
      /\ \A i \in 1..p + 1 : pushed'[i] = IF i = 1 THEN j ELSE pushed[i - 1]
  <2>1. /\ pushed' \in Seq(Jobs) /\ Len(pushed') = p + 1
        /\ \A i \in 1..p + 1 : pushed'[i] = IF i = 1 THEN j ELSE pushed[i - 1]
    BY <1>1, <1>2, <1>5, Pushing
  <2>2. QED
    BY <2>1, LenProperties
<1>8. FrontTyped' /\ ReadsPast' /\ TweetsNeverOvercounted' /\ EarlierEnded' /\ NoOverlap' = NoOverlap
  BY <1>1, <1>2, <1>6, <1>7, FrontStepKeeps
<1>9. /\ \A i \in 1..n : ffeed[i] \in Jobs /\ ffeed[i] = pushed[i] /\ at[ffeed[i]] \in Past
      /\ \A i \in 1..p : pushed[i] \in Jobs /\ at[pushed[i]] \in Past
      /\ DOMAIN ffeed = 1..n
  BY <1>4, <1>5, FrontEntries
<1>10. OncePerJob'
  <2>1. \A i \in 1..p + 1 : at'[pushed'[i]] \in Past
    BY <1>3, <1>7, <1>9 DEF Past
  <2>2. \A k \in trimmed' : at'[k] \notin {"new", "create", "count", "measure", "trim"}
    BY <1>1, <1>2, <1>3 DEF PublishInv, OncePerJob
  <2>3. QED
    BY <1>7, <2>1, <2>2 DEF OncePerJob, Past
<1>11. /\ IsFiniteSet(RoomMade) /\ Cardinality(RoomMade) \in Nat
       /\ Cardinality(RoomMade') =
            IF j \in RoomMade THEN Cardinality(RoomMade) - 1 ELSE Cardinality(RoomMade)
  <2>1. IsFiniteSet(RoomMade)
    BY <1>2, PublishAssumption, FS_Subset DEF RoomMade
  <2>2. \A k : Copies(pushed, k) = 0 <=> \A i \in 1..p : pushed[i] # k
    BY <1>2, <1>5, NoCopies
  <2>3. \A k : Copies(pushed', k) = 0 <=> \A i \in 1..p + 1 : pushed'[i] # k
    BY <1>7, NoCopies
  <2>4. \A k : (\A i \in 1..p + 1 : pushed'[i] # k) <=> k # j /\ \A i \in 1..p : pushed[i] # k
    <3>1. pushed'[1] = j
      BY <1>7
    <3>2. \A i \in 1..p : i + 1 \in 1..p + 1 /\ pushed'[i + 1] = pushed[i]
      BY <1>7
    <3>3. \A i \in 1..p + 1 : i = 1 \/ i - 1 \in 1..p
      OBVIOUS
    <3>4. QED
      BY <1>7, <3>1, <3>2, <3>3
  <2>5. RoomMade' = RoomMade \ {j}
    <3>1. \A k : Copies(pushed', k) = 0 <=> k # j /\ Copies(pushed, k) = 0
      BY <2>2, <2>3, <2>4
    <3>2. RoomMade' = {k \in trimmed : Copies(pushed', k) = 0}
      BY <1>1 DEF RoomMade
    <3>3. QED
      BY <3>1, <3>2 DEF RoomMade
  <2>6. QED
    BY <2>1, <2>5, FS_RemoveElement, FS_CardinalityType
<1>12. Cap \in Nat /\ (j \in RoomMade => trimmed # {})
  BY PublishAssumption DEF RoomMade
<1>13. n + Cardinality(RoomMade) >= Cap => Len(ffeed') + Cardinality(RoomMade') >= Cap
  <2>1. PICK r \in Nat : r = Cardinality(RoomMade)
    BY <1>11
  <2>2. Cardinality(RoomMade') \in {r, r - 1} /\ Len(ffeed') = n + 1
    BY <1>6, <1>11, <2>1
  <2>3. QED
    BY <1>12, <2>1, <2>2
<1>14. j \in RoomMade => n + Cardinality(RoomMade) >= Cap
  BY <1>4, <1>12 DEF PublishInv, TrimsWhenFull
<1>15. TrimsWhenFull'
  <2>1. ASSUME trimmed' # {} \/ \E k \in Jobs : at'[k] = "trim"
        PROVE  n + Cardinality(RoomMade) >= Cap
    BY <1>1, <1>3, <1>4, <2>1 DEF PublishInv, TrimsWhenFull
  <2>2. QED
    BY <1>13, <2>1 DEF TrimsWhenFull
<1>16. FrontFeedRecent'
  <2>1. \A i \in 1..Len(ffeed') : ffeed'[i] = pushed'[i]
    <3>1. \A i \in 1..n + 1 : i \in 1..p + 1 /\ (i = 1 \/ i - 1 \in 1..n)
      BY <1>5
    <3>2. QED
      BY <1>6, <1>7, <1>9, <3>1, ZenonT(30)
  <2>2. Len(ffeed') <= Len(pushed')
    BY <1>5, <1>6, <1>7, SMTT(30)
  <2>3. ffeed' = SubSeq(pushed', 1, Len(ffeed'))
    BY <1>6, <1>7, <2>1, <2>2, Prefix
  <2>4. n + Cardinality(RoomMade) >= Cap \/ n + Cardinality(RoomMade) >= p
    BY <1>4, <1>5 DEF PublishInv, FeedsSound, FrontFeedRecent
  <2>5. \/ Len(ffeed') + Cardinality(RoomMade') >= Cap
        \/ Len(ffeed') + Cardinality(RoomMade') >= Len(pushed')
    BY <1>6, <1>7, <1>11, <1>13, <1>14, <2>4, SMTT(30)
  <2>6. QED
    BY <2>3, <2>5 DEF FrontFeedRecent
<1>17. FrontFeedOrdered'
  <2>1. ASSUME NEW i \in 1..n + 1, NEW k \in 1..n + 1, ffeed'[k] \in job'[ffeed'[i]].earlier
        PROVE  i < k
    <3>1. ffeed'[i] \in Jobs /\ at[ffeed'[i]] # "new"
      <4>1. i = 1 \/ i - 1 \in 1..n
        OBVIOUS
      <4>2. QED
        BY <1>1, <1>6, <1>9, <4>1 DEF Past
    <3>2. at[ffeed'[k]] \in {"done", "dead"}
      BY <1>1, <2>1, <3>1 DEF PublishInv, EarlierEnded
    <3>3. k # 1
      BY <1>1, <1>6, <3>2
    <3>4. CASE i = 1
      BY <3>3, <3>4
    <3>5. CASE i # 1
      <4>1. i - 1 \in 1..n /\ k - 1 \in 1..n /\ ffeed'[i] = ffeed[i - 1] /\ ffeed'[k] = ffeed[k - 1]
        BY <1>6, <3>3, <3>5
      <4>2. ffeed[k - 1] \in job[ffeed[i - 1]].earlier
        BY <1>1, <2>1, <4>1
      <4>3. i - 1 < k - 1
        BY <1>9, <4>1, <4>2 DEF PublishInv, FeedsSound, FrontFeedOrdered
      <4>4. QED
        BY <4>3
    <3>6. QED
      BY <3>4, <3>5
  <2>2. QED
    BY <1>6, <2>1 DEF FrontFeedOrdered
<1>18. FrontFeedBoundedAlone'
  <2>1. NoOverlap => n < Cap
    BY <1>1, <1>4 DEF PublishInv, RoomAlone
  <2>2. QED
    BY <1>6, <1>8, <1>12, <2>1 DEF FrontFeedBoundedAlone
<1>19. RoomAlone'
  <2>1. ASSUME NoOverlap, NEW k \in Jobs, at'[k] = "front" PROVE FALSE
    <3>1. k # j /\ at[k] = "front"
      BY <1>3, <2>1
    <3>2. k \in job[j].earlier \/ j \in job[k].earlier
      BY <1>1, <2>1, <3>1 DEF NoOverlap
    <3>3. QED
      BY <1>1, <3>1, <3>2 DEF PublishInv, EarlierEnded
  <2>2. QED
    BY <1>8, <2>1 DEF RoomAlone
<1>20. QED
  BY <1>5, <1>6, <1>7, <1>8, <1>10, <1>15, <1>16, <1>17, <1>18, <1>19, SMTT(30) DEF PublishInv, FeedsSound

\* The steps of a thread.
LEMMA StepKeeps ==
  ASSUME PublishInv, NEW j \in Jobs, PublishStep(j)
  PROVE  PublishInv'
<1> USE DEF PublishGoto, publishTables, feeds, publishHistory, JobSteps, Past, Running
<1>1. CASE CreateTweet(j)
  <2>1. PICK next \in {"count", "reply"} : at' = [at EXCEPT ![j] = next]
    BY <1>1 DEF CreateTweet
  <2>2. QED
    BY <1>1, <2>1, QuietKeeps DEF CreateTweet
<1>2. CASE IncrementTweets(j)
  BY <1>2, IncrementKeeps
<1>3. CASE MeasureFfeed(j)
  <2>1. CASE Len(ffeed) = Cap
    <3>1. at' = [at EXCEPT ![j] = "trim"]
      BY <1>3, <2>1 DEF MeasureFfeed
    <3>2. QED
      BY <1>3, <2>1, <3>1, QuietKeeps DEF MeasureFfeed
  <2>2. CASE Len(ffeed) # Cap
    <3>1. at' = [at EXCEPT ![j] = "front"]
      BY <1>3, <2>2 DEF MeasureFfeed
    <3>2. QED
      BY <1>3, <2>2, <3>1, QuietKeeps DEF MeasureFfeed
  <2>3. QED
    BY <2>1, <2>2
<1>4. CASE TrimFfeed(j)
  BY <1>4, TrimKeeps
<1>5. CASE PushFfeed(j)
  BY <1>5, PushKeeps
<1>6. CASE PushPfeed(j)
  BY <1>6, QuietKeeps DEF PushPfeed
<1>7. ASSUME AfterFeeds(j) PROVE \E next \in {"mentions", "tag", "done"} : at' = [at EXCEPT ![j] = next]
  BY <1>7 DEF AfterFeeds
<1>8. CASE LoadFollowers(j)
  <2>1. PICK next \in {"mentions", "tag", "done", "home"} : at' = [at EXCEPT ![j] = next]
    BY <1>7, <1>8 DEF LoadFollowers
  <2>2. QED
    BY <1>8, <2>1, QuietKeeps DEF LoadFollowers
<1>9. CASE PushHfeed(j)
  <2>1. at = [at EXCEPT ![j] = "home"]
    BY <1>9 DEF PushHfeed, PublishInv, FrontTyped
  <2>2. PICK next \in {"mentions", "tag", "done", "home"} : at' = [at EXCEPT ![j] = next]
    BY <1>7, <1>9, <2>1 DEF PushHfeed
  <2>3. QED
    BY <1>9, <2>2, QuietKeeps DEF PushHfeed
<1>10. CASE CacheReply(j)
  <2>1. PICK next \in {"mentions", "tag", "done"} : at' = [at EXCEPT ![j] = next]
    BY <1>7, <1>10 DEF CacheReply
  <2>2. QED
    BY <1>10, <2>1, QuietKeeps DEF CacheReply
<1>11. CASE LoadMentioned(j)
  <2>1. PICK next \in {"mention", "done"} : at' = [at EXCEPT ![j] = next]
    BY <1>11 DEF LoadMentioned
  <2>2. QED
    BY <1>11, <2>1, QuietKeeps DEF LoadMentioned
<1>12. CASE PushMention(j)
  <2>1. PICK next \in {"mention", "done"} : at' = [at EXCEPT ![j] = next]
    BY <1>12 DEF PushMention
  <2>2. QED
    BY <1>12, <2>1, QuietKeeps DEF PushMention
<1>13. CASE PushTag(j)
  <2>1. PICK next \in {"tag", "done"} : at' = [at EXCEPT ![j] = next]
    BY <1>13 DEF PushTag
  <2>2. QED
    BY <1>13, <2>1, QuietKeeps DEF PushTag
<1>14. QED
  BY <1>1, <1>2, <1>3, <1>4, <1>5, <1>6, <1>8, <1>9, <1>10, <1>11, <1>12, <1>13 DEF PublishStep

\* A follow or an unfollow touches none of it.
LEMMA FollowsKeep ==
  ASSUME PublishInv, followers' \in [Authors -> SUBSET PublishUsers],
         UNCHANGED <<at, job, tweet_count, ffeed, counted, pushed, trimmed>>
  PROVE  PublishInv'
<1>1. RoomMade' = RoomMade /\ NoOverlap' = NoOverlap
  BY DEF RoomMade, NoOverlap
<1>2. FrontTyped' /\ ReadsPast' /\ TweetsNeverOvercounted' /\ EarlierEnded' /\ OncePerJob'
  BY DEF PublishInv, FrontTyped, ReadsPast, TweetsNeverOvercounted, EarlierEnded, OncePerJob
<1>3. FeedsSound' /\ TrimsWhenFull' /\ RoomAlone'
  BY <1>1 DEF PublishInv, FeedsSound, FrontFeedRecent, FrontFeedOrdered, FrontFeedBoundedAlone,
              TrimsWhenFull, RoomAlone
<1>4. QED
  BY <1>2, <1>3 DEF PublishInv

\* PublishInv holds in every state of make_tweet's requests and threads.
THEOREM PublishInvariant == PublishSpec => []PublishInv
<1>1. PublishInit => PublishInv
  <2> SUFFICES ASSUME PublishInit PROVE PublishInv
    OBVIOUS
  <2>1. FrontTyped
    BY DEF PublishInit, FrontTyped, JobSteps
  <2>2. ReadsPast /\ EarlierEnded /\ TrimsWhenFull /\ RoomAlone
    BY DEF PublishInit, ReadsPast, EarlierEnded, TrimsWhenFull, RoomAlone
  <2>3. \A a \in Authors : tweet_count[a] = 0
    BY PublishAssumption DEF PublishInit
  <2>4. \A a \in Authors : {j \in counted : job[j].author = a} = {}
    BY DEF PublishInit
  <2>5. TweetsNeverOvercounted
    <3>1. Cardinality({}) = 0
      BY FS_EmptySet
    <3>2. ASSUME NEW a \in Authors
          PROVE  tweet_count[a] <= Cardinality({j \in counted : job[j].author = a})
      <4>1. {j \in counted : job[j].author = a} = {} /\ tweet_count[a] = 0
        BY <2>3, <2>4
      <4>2. QED
        BY <3>1, <4>1
    <3>3. QED
      BY <3>2 DEF TweetsNeverOvercounted
  <2>6. ffeed = <<>> /\ pushed = <<>> /\ Len(ffeed) = 0 /\ Len(pushed) = 0 /\ DOMAIN pushed = {}
    BY DEF PublishInit
  <2>7. OncePerJob
    BY <2>6 DEF PublishInit, OncePerJob
  <2>8. FrontFeedRecent
    <3>1. ffeed \in Seq(Jobs) /\ pushed \in Seq(Jobs)
      BY <2>1 DEF FrontTyped
    <3>2. ffeed = SubSeq(pushed, 1, Len(ffeed))
      BY <2>6, <3>1, Prefix
    <3>3. RoomMade = {}
      BY DEF PublishInit, RoomMade
    <3>4. QED
      BY <2>6, <3>2, <3>3, FS_EmptySet DEF FrontFeedRecent
  <2>9. FrontFeedOrdered
    BY <2>6 DEF FrontFeedOrdered
  <2>10. FrontFeedBoundedAlone
    BY <2>6, PublishAssumption DEF FrontFeedBoundedAlone
  <2>11. QED
    BY <2>1, <2>2, <2>5, <2>6, <2>7, <2>8, <2>9, <2>10 DEF PublishInv, FeedsSound
<1>2. PublishInv /\ [PublishNext]_publishVars => PublishInv'
  <2> SUFFICES ASSUME PublishInv, [PublishNext]_publishVars PROVE PublishInv'
    OBVIOUS
  <2>1. ASSUME NEW j \in Jobs, NEW a \in Authors, NEW text \in Texts, NewTweet(j, a, text)
        PROVE  PublishInv'
    BY <2>1, MakeKeeps DEF NewTweet
  <2>2. ASSUME NEW j \in Jobs, NEW a \in Authors, NEW text \in Texts, NEW p \in Parents,
               NewReply(j, a, text, p)
        PROVE  PublishInv'
    BY <2>2, MakeKeeps DEF NewReply
  <2>3. ASSUME NEW j \in Jobs, PublishStep(j) PROVE PublishInv'
    BY <2>3, StepKeeps
  <2>4. ASSUME NEW j \in Jobs, PublishAbort(j) PROVE PublishInv'
    BY <2>4, QuietKeeps DEF PublishAbort, PublishGoto, publishTables, feeds, JobSteps, Past, Running
  <2>5. ASSUME NEW u \in PublishUsers, NEW a \in Authors, Follow(u, a) \/ Unfollow(u, a)
        PROVE  PublishInv'
    <3>1. followers' \in [Authors -> SUBSET PublishUsers]
      BY <2>5, SMTT(30) DEF Follow, Unfollow, PublishInv, FrontTyped
    <3>2. UNCHANGED <<at, job, tweet_count, ffeed, counted, pushed, trimmed>>
      BY <2>5 DEF Follow, Unfollow, feeds
    <3>3. QED
      BY <3>1, <3>2, FollowsKeep
  <2>6. CASE UNCHANGED publishVars
    <3>1. UNCHANGED <<at, job, tweet_count, followers, ffeed, counted, pushed, trimmed>>
      BY <2>6 DEF publishVars, publishTables, feeds, publishHistory
    <3>2. QED
      BY <3>1, FollowsKeep DEF PublishInv, FrontTyped
  <2>7. CASE PublishIdle
    BY <2>6, <2>7 DEF PublishIdle
  <2>8. QED
    BY <2>1, <2>2, <2>3, <2>4, <2>5, <2>6, <2>7 DEF PublishNext
<1>3. QED
  BY <1>1, <1>2, PTL DEF PublishSpec

\* The front feed of cache_tweet always holds the tweets pushed last in the
\* order of their LPUSHes, loses no more than threads have still to push, shows
\* no tweet above one made after its end, and stays within Cap without overlaps.
THEOREM FrontFeedSound == PublishSpec => []FeedsSound
<1>1. PublishInv => FeedsSound
  BY DEF PublishInv
<1>2. QED
  BY <1>1, PublishInvariant, PTL

\* increment_tweets never makes tweet_count larger than the number of the
\* author's tweets that were counted, however the threads' reads and saves
\* overlap.
THEOREM TweetsCountedOnce == PublishSpec => []TweetsNeverOvercounted
<1>1. PublishInv => TweetsNeverOvercounted
  BY DEF PublishInv
<1>2. QED
  BY <1>1, PublishInvariant, PTL

=============================================================================
