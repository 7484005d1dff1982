---------------------------- MODULE LikesProofs ----------------------------
(***************************************************************************)
(* Proofs about Likes, for every set of users, tweets and threads.         *)
(***************************************************************************)
EXTENDS Likes, FiniteSetTheorems, TLAPS

\* The requests, the table and the Redis sets of POST /tweet/like always have
\* their types; in particular a request past Tweet.find names an existing row.
THEOREM TypeCorrect == LikesSpec => []LikesTypeOK
<1>1. LikesInit => LikesTypeOK
  BY NoLikeAssumption DEF LikesInit, LikesTypeOK, Liking
<1>2. LikesTypeOK /\ [LikesNext]_likeVars => LikesTypeOK'
  <2> SUFFICES ASSUME LikesTypeOK, [LikesNext]_likeVars PROVE LikesTypeOK'
    OBVIOUS
  <2> USE NoLikeAssumption DEF LikesTypeOK, Request, Liking, LikeAt, LikeDone
  <2>1. ASSUME NEW th \in LikeThreads, NEW u \in LikeUsers, NEW t \in Tweets \cup UnknownIds,
               Begin(th, u, t)
        PROVE  LikesTypeOK'
    BY <2>1 DEF Begin
  <2>2. ASSUME NEW th \in LikeThreads, FindTweet(th) PROVE LikesTypeOK'
    BY <2>2, ZenonT(30) DEF FindTweet
  <2>3. ASSUME NEW th \in LikeThreads, TweetNotFound(th) PROVE LikesTypeOK'
    BY <2>3 DEF TweetNotFound
  <2>4. ASSUME NEW th \in LikeThreads, LikedBefore(th) PROVE LikesTypeOK'
    BY <2>4 DEF LikedBefore
  <2>5. ASSUME NEW th \in LikeThreads, IncrementLikes(th) PROVE LikesTypeOK'
    BY <2>5 DEF IncrementLikes
  <2>6. ASSUME NEW th \in LikeThreads, CacheLikes(th) PROVE LikesTypeOK'
    BY <2>6 DEF CacheLikes
  <2>7. ASSUME NEW th \in LikeThreads, LikeAbort(th) PROVE LikesTypeOK'
    BY <2>7 DEF LikeAbort
  <2>8. CASE UNCHANGED likeVars
    BY <2>8 DEF likeVars
  <2>9. QED
    BY <2>1, <2>2, <2>3, <2>4, <2>5, <2>6, <2>7, <2>8 DEF LikesNext, LikeStep
<1>3. QED
  BY <1>1, <1>2, PTL DEF LikesSpec

-----------------------------------------------------------------------------

\* A tweet remembered as liked shows a like, in every interleaving and with
\* requests dying anywhere: increment_likes comes before cache_likes and never
\* writes zero.
THEOREM LikedHasLikes == LikesSpec => []LikedTweetHasLikes
<1> DEFINE Inv == SavedHasLikes /\ LikedTweetHasLikes
<1>1. LikesInit => Inv
  BY DEF LikesInit, SavedHasLikes, LikedTweetHasLikes, LikeAt, Liking
<1>2. LikesTypeOK /\ LikesTypeOK' /\ Inv /\ [LikesNext]_likeVars => Inv'
  <2> SUFFICES ASSUME LikesTypeOK, Inv, [LikesNext]_likeVars PROVE Inv'
    OBVIOUS
  <2> USE NoLikeAssumption
      DEF SavedHasLikes, LikedTweetHasLikes, LikesTypeOK, Request, Liking, LikeAt, LikeDone
  <2>1. ASSUME NEW th \in LikeThreads, NEW u \in LikeUsers, NEW t \in Tweets \cup UnknownIds,
               Begin(th, u, t)
        PROVE  Inv'
    BY <2>1 DEF Begin
  <2>2. ASSUME NEW th \in LikeThreads, FindTweet(th) PROVE Inv'
    BY <2>2 DEF FindTweet
  <2>3. ASSUME NEW th \in LikeThreads, TweetNotFound(th) PROVE Inv'
    BY <2>3 DEF TweetNotFound
  <2>4. ASSUME NEW th \in LikeThreads, LikedBefore(th) PROVE Inv'
    BY <2>4 DEF LikedBefore
  <2>5. ASSUME NEW th \in LikeThreads, IncrementLikes(th) PROVE Inv'
    BY <2>5 DEF IncrementLikes
  <2>6. ASSUME NEW th \in LikeThreads, CacheLikes(th) PROVE Inv'
    BY <2>6 DEF CacheLikes
  <2>7. ASSUME NEW th \in LikeThreads, LikeAbort(th) PROVE Inv'
    BY <2>7 DEF LikeAbort
  <2>8. CASE UNCHANGED likeVars
    BY <2>8 DEF likeVars
  <2>9. QED
    BY <2>1, <2>2, <2>3, <2>4, <2>5, <2>6, <2>7, <2>8 DEF LikesNext, LikeStep
<1>3. QED
  BY <1>1, <1>2, TypeCorrect, PTL DEF LikesSpec

-----------------------------------------------------------------------------

\* The users counted form a finite set, so their number is a natural number.
LEMMA CountedFinite ==
  ASSUME LikesTypeOK, NEW t \in Tweets
  PROVE  IsFiniteSet(Counted(t)) /\ Cardinality(Counted(t)) \in Nat
<1>1. Counted(t) \in SUBSET LikeUsers
  BY DEF Counted, LikesTypeOK
<1>2. QED
  BY <1>1, LikesAssumption, FS_Subset, FS_CardinalityType

\* A step that touches neither the Redis sets nor a request between counting
\* and remembering leaves the users counted as they are.
LEMMA CountedUnchanged ==
  ASSUME LikesTypeOK, likers' = likers, NEW th \in LikeThreads,
         ~LikeAt(th, "cache"), ~LikeAt(th, "cache")',
         \A other \in LikeThreads : other # th => likeReq'[other] = likeReq[other],
         NEW t \in Tweets
  PROVE  Counted(t)' = Counted(t)
  BY DEF Counted, LikeAt, Liking

\* The whole invariant, for a server in which no user has two like requests
\* in flight.
THEOREM OvercountInvariant ==
  ASSUME OnePerUser
  PROVE  LikesSpec => []OvercountInv
<1> USE DEF OvercountInv
<1>1. LikesInit => OvercountInv
  <2> SUFFICES ASSUME LikesInit PROVE OvercountInv
    OBVIOUS
  <2>1. \A th \in LikeThreads : ~Liking(th)
    BY DEF LikesInit, Liking
  <2>2. \A t \in Tweets : Counted(t) = {}
    BY <2>1 DEF LikesInit, Counted, LikeAt
  <2>3. LikesNeverOvercounted
    BY <2>2, FS_EmptySet DEF LikesInit, LikesNeverOvercounted
  <2>4. QED
    BY <2>1, <2>3 DEF OneRequestPerUser, NotYetLiked, FoundBounded, LikeAt
<1>2. LikesTypeOK /\ LikesTypeOK' /\ OvercountInv /\ [LikesNext]_likeVars => OvercountInv'
  <2> SUFFICES ASSUME LikesTypeOK, LikesTypeOK', OvercountInv, [LikesNext]_likeVars
               PROVE  OvercountInv'
    OBVIOUS
  <2> USE NoLikeAssumption
  <2> DEFINE Tally(t) == Cardinality(Counted(t)) + orphaned[t]
  <2>a. \A t \in Tweets : Tally(t) \in Nat /\ Tally(t)' \in Nat
    <3>1. \A t \in Tweets : Cardinality(Counted(t)) \in Nat
      BY CountedFinite
    <3>2. \A t \in Tweets : Cardinality(Counted(t)') \in Nat
      <4>1. TAKE t \in Tweets
      <4>2. Counted(t)' \in SUBSET LikeUsers
        BY DEF Counted, LikesTypeOK
      <4>3. QED
        BY <4>2, LikesAssumption, FS_Subset, FS_CardinalityType
    <3>3. QED
      BY <3>1, <3>2 DEF LikesTypeOK
  <2>1. ASSUME NEW th \in LikeThreads, NEW u \in LikeUsers, NEW t \in Tweets \cup UnknownIds,
               Begin(th, u, t)
        PROVE  OvercountInv'
    <3>1. \A x \in Tweets : Counted(x)' = Counted(x)
      BY <2>1, CountedUnchanged DEF Begin, LikeAt, Liking, LikesTypeOK, Request
    <3>2. OneRequestPerUser'
      BY <2>1, OnePerUser DEF Begin, OneRequestPerUser, Liking, LikesTypeOK, Request
    <3>3. NotYetLiked'
      BY <2>1 DEF Begin, NotYetLiked, LikeAt, Liking, LikesTypeOK, Request
    <3>4. FoundBounded'
      BY <2>1, <3>1 DEF Begin, FoundBounded, LikeAt, Liking, LikesTypeOK, Request
    <3>5. LikesNeverOvercounted'
      BY <2>1, <3>1 DEF Begin, LikesNeverOvercounted
    <3>6. QED
      BY <3>2, <3>3, <3>4, <3>5
  <2>2. ASSUME NEW th \in LikeThreads, FindTweet(th) PROVE OvercountInv'
    <3>1. \A x \in Tweets : Counted(x)' = Counted(x)
      BY <2>2, CountedUnchanged DEF FindTweet, LikeAt, Liking, LikesTypeOK, Request
    <3>2. OneRequestPerUser'
      BY <2>2 DEF FindTweet, OneRequestPerUser, LikeAt, Liking, LikesTypeOK, Request
    <3>3. NotYetLiked'
      BY <2>2, SMTT(30) DEF FindTweet, NotYetLiked, LikeAt, Liking, LikesTypeOK, Request
    <3>4. FoundBounded'
      BY <2>2, <3>1 DEF FindTweet, FoundBounded, LikesNeverOvercounted, LikeAt, Liking, LikesTypeOK, Request
    <3>5. LikesNeverOvercounted'
      BY <2>2, <3>1 DEF FindTweet, LikesNeverOvercounted
    <3>6. QED
      BY <3>2, <3>3, <3>4, <3>5
  <2>3. ASSUME NEW th \in LikeThreads, TweetNotFound(th) PROVE OvercountInv'
    <3>1. \A x \in Tweets : Counted(x)' = Counted(x)
      BY <2>3, CountedUnchanged DEF TweetNotFound, LikeDone, LikeAt, Liking, LikesTypeOK, Request
    <3>2. QED
      BY <2>3, <3>1 DEF TweetNotFound, LikeDone, OneRequestPerUser, NotYetLiked, FoundBounded,
                        LikesNeverOvercounted, LikeAt, Liking, LikesTypeOK, Request
  <2>4. ASSUME NEW th \in LikeThreads, LikedBefore(th) PROVE OvercountInv'
    <3>1. \A x \in Tweets : Counted(x)' = Counted(x)
      BY <2>4, CountedUnchanged DEF LikedBefore, LikeDone, LikeAt, Liking, LikesTypeOK, Request
    <3>2. OneRequestPerUser'
      BY <2>4 DEF LikedBefore, LikeDone, OneRequestPerUser, LikeAt, Liking, LikesTypeOK, Request
    <3>3. NotYetLiked'
      BY <2>4 DEF LikedBefore, LikeDone, NotYetLiked, LikeAt, Liking, LikesTypeOK, Request
    <3>4. FoundBounded'
      BY <2>4, <3>1 DEF LikedBefore, LikeDone, FoundBounded, LikeAt, Liking, LikesTypeOK, Request
    <3>5. LikesNeverOvercounted'
      BY <2>4, <3>1 DEF LikedBefore, LikesNeverOvercounted
    <3>6. QED
      BY <3>2, <3>3, <3>4, <3>5
  <2>5. ASSUME NEW th \in LikeThreads, IncrementLikes(th) PROVE OvercountInv'
    <3>1. PICK t \in Tweets, u \in LikeUsers : t = likeReq[th].tweet /\ u = likeReq[th].user
      BY <2>5 DEF IncrementLikes, LikeAt, Liking, LikesTypeOK, Request
    <3>2. u \notin Counted(t)
      BY <2>5, <3>1 DEF IncrementLikes, Counted, NotYetLiked, OneRequestPerUser, LikeAt, Liking
    <3>3. Counted(t)' = Counted(t) \cup {u}
      BY <2>5, <3>1 DEF IncrementLikes, Counted, LikeAt, Liking, LikesTypeOK, Request
    <3>4. \A x \in Tweets : x # t => Counted(x)' = Counted(x)
      BY <2>5, <3>1 DEF IncrementLikes, Counted, LikeAt, Liking, LikesTypeOK, Request
    <3>5. Tally(t)' = Tally(t) + 1
      <4>1. Cardinality(Counted(t) \cup {u}) = Cardinality(Counted(t)) + 1
        BY <3>1, <3>2, CountedFinite, FS_AddElement
      <4>2. Cardinality(Counted(t)) \in Nat /\ orphaned[t] \in Nat
        BY <3>1, CountedFinite DEF LikesTypeOK
      <4>3. QED
        BY <2>5, <3>3, <4>1, <4>2 DEF IncrementLikes
    <3>6. \A x \in Tweets : Tally(x)' >= Tally(x)
      BY <2>5, <2>a, <3>4, <3>5 DEF IncrementLikes
    <3>7. OneRequestPerUser'
      BY <2>5 DEF IncrementLikes, OneRequestPerUser, LikeAt, Liking, LikesTypeOK, Request
    <3>8. NotYetLiked'
      BY <2>5 DEF IncrementLikes, NotYetLiked, LikeAt, Liking, LikesTypeOK, Request
    <3>9. FoundBounded'
      BY <2>5, <2>a, <3>6 DEF IncrementLikes, FoundBounded, LikeAt, Liking, LikesTypeOK, Request
    <3>10. LikesNeverOvercounted'
      BY <2>5, <2>a, <3>1, <3>5, <3>6
         DEF IncrementLikes, LikesNeverOvercounted, FoundBounded, LikeAt, Liking, LikesTypeOK, Request
    <3>11. QED
      BY <3>7, <3>8, <3>9, <3>10
  <2>6. ASSUME NEW th \in LikeThreads, CacheLikes(th) PROVE OvercountInv'
    <3>1. \A x \in Tweets : Counted(x)' = Counted(x)
      BY <2>6 DEF CacheLikes, LikeDone, Counted, LikeAt, Liking, LikesTypeOK, Request
    <3>2. OneRequestPerUser'
      BY <2>6 DEF CacheLikes, LikeDone, OneRequestPerUser, LikeAt, Liking, LikesTypeOK, Request
    <3>3. NotYetLiked'
      BY <2>6 DEF CacheLikes, LikeDone, NotYetLiked, OneRequestPerUser, LikeAt, Liking, LikesTypeOK, Request
    <3>4. FoundBounded'
      BY <2>6, <3>1 DEF CacheLikes, LikeDone, FoundBounded, LikeAt, Liking, LikesTypeOK, Request
    <3>5. LikesNeverOvercounted'
      BY <2>6, <3>1 DEF CacheLikes, LikesNeverOvercounted
    <3>6. QED
      BY <3>2, <3>3, <3>4, <3>5
  <2>7. ASSUME NEW th \in LikeThreads, LikeAbort(th) PROVE OvercountInv'
    <3>1. \A x \in Tweets : Tally(x)' = Tally(x)
      <4>1. CASE ~LikeAt(th, "cache")
        <5>1. \A x \in Tweets : Counted(x)' = Counted(x)
          BY <2>7, <4>1, CountedUnchanged DEF LikeAbort, LikeDone, LikeAt, Liking, LikesTypeOK, Request
        <5>2. QED
          BY <2>7, <4>1, <5>1 DEF LikeAbort
      <4>2. CASE LikeAt(th, "cache")
        <5>1. PICK t \in Tweets, u \in LikeUsers : t = likeReq[th].tweet /\ u = likeReq[th].user
          BY <4>2 DEF LikeAt, Liking, LikesTypeOK, Request
        <5>2. u \in Counted(t)
          BY <4>2, <5>1 DEF Counted
        <5>3. Counted(t)' = Counted(t) \ {u}
          BY <2>7, <4>2, <5>1
             DEF LikeAbort, LikeDone, Counted, NotYetLiked, OneRequestPerUser, LikeAt, Liking, LikesTypeOK, Request
        <5>4. \A x \in Tweets : x # t => Counted(x)' = Counted(x)
          BY <2>7, <4>2, <5>1 DEF LikeAbort, LikeDone, Counted, LikeAt, Liking, LikesTypeOK, Request
        <5>5. Cardinality(Counted(t) \ {u}) = Cardinality(Counted(t)) - 1
          BY <5>1, <5>2, CountedFinite, FS_RemoveElement
        <5>6. Tally(t)' = Tally(t)
          <6>1. Cardinality(Counted(t)) \in Nat /\ orphaned[t] \in Nat
            BY <5>1, CountedFinite DEF LikesTypeOK
          <6>2. orphaned'[t] = orphaned[t] + 1
            BY <2>7, <4>2, <5>1 DEF LikeAbort, LikesTypeOK
          <6>3. QED
            BY <5>3, <5>5, <6>1, <6>2
        <5>7. \A x \in Tweets : x # t => Tally(x)' = Tally(x)
          <6>1. \A x \in Tweets : x # t => orphaned'[x] = orphaned[x]
            BY <2>7, <4>2, <5>1 DEF LikeAbort, LikesTypeOK
          <6>2. QED
            BY <5>4, <6>1
        <5>8. QED
          BY <5>6, <5>7
      <4>3. QED
        BY <4>1, <4>2
    <3>2. OneRequestPerUser'
      BY <2>7 DEF LikeAbort, LikeDone, OneRequestPerUser, Liking, LikesTypeOK, Request
    <3>3. NotYetLiked'
      BY <2>7 DEF LikeAbort, LikeDone, NotYetLiked, LikeAt, Liking, LikesTypeOK, Request
    <3>4. FoundBounded'
      BY <2>7, <3>1 DEF LikeAbort, LikeDone, FoundBounded, LikeAt, Liking, LikesTypeOK, Request
    <3>5. LikesNeverOvercounted'
      BY <2>7, <3>1 DEF LikeAbort, LikesNeverOvercounted
    <3>6. QED
      BY <3>2, <3>3, <3>4, <3>5
  <2>8. CASE UNCHANGED likeVars
    <3>1. OneRequestPerUser' /\ NotYetLiked'
      BY <2>8 DEF likeVars, OneRequestPerUser, NotYetLiked, LikeAt, Liking
    <3>2. FoundBounded' /\ LikesNeverOvercounted'
      BY <2>8 DEF likeVars, FoundBounded, LikesNeverOvercounted, Counted, LikeAt, Liking
    <3>3. QED
      BY <3>1, <3>2
  <2>9. QED
    BY <2>1, <2>2, <2>3, <2>4, <2>5, <2>6, <2>7, <2>8 DEF LikesNext, LikeStep
<1>3. QED
  BY <1>1, <1>2, TypeCorrect, PTL DEF LikesSpec

\* Safety of POST /tweet/like: the likes column never exceeds the users
\* counted plus the requests that died after counting.
THEOREM NeverOvercounted ==
  ASSUME OnePerUser
  PROVE  LikesSpec => []LikesNeverOvercounted
  BY OvercountInvariant, PTL DEF OvercountInv

-----------------------------------------------------------------------------

\* Refinement: a server that serves one like request per user at a time, none
\* of which dies, behaves as LikeLedger promises.
THEOREM LikesImplementLedger ==
  ASSUME OnePerUser, MaxLikeAborts = 0
  PROVE  LikesSpec => ImplementsLedger
<1> DEFINE NoOrphans == orphaned = [t \in Tweets |-> 0]
<1>1. LikesSpec => []NoOrphans
  <2>1. LikesInit => NoOrphans
    BY DEF LikesInit
  <2>2. LikesTypeOK /\ NoOrphans /\ [LikesNext]_likeVars => NoOrphans'
    <3> SUFFICES ASSUME LikesTypeOK, NoOrphans, [LikesNext]_likeVars PROVE orphaned' = orphaned
      OBVIOUS
    <3>1. ASSUME NEW th \in LikeThreads, LikeAbort(th) PROVE FALSE
      BY <3>1 DEF LikeAbort, LikesTypeOK
    <3>2. QED
      BY <3>1 DEF LikesNext, likeVars, Begin, LikeStep, FindTweet, TweetNotFound, LikedBefore,
                  IncrementLikes, CacheLikes
  <2>3. QED
    BY <2>1, <2>2, TypeCorrect, PTL DEF LikesSpec
<1>2. LikesInit => Ledger!Init
  <2> SUFFICES ASSUME LikesInit PROVE Ledger!Init
    OBVIOUS
  <2>1. \A t \in Tweets : Counted(t) = {}
    BY DEF LikesInit, Counted, LikeAt, Liking
  <2>2. QED
    BY <2>1 DEF LikesInit, Ledger!Init, CountedUsers
<1>3. LikesTypeOK /\ LikesTypeOK' /\ OvercountInv /\ OvercountInv' /\ NoOrphans /\ NoOrphans' /\ [LikesNext]_likeVars
        => [Ledger!Next]_<<CountedUsers, likes>>
  <2> SUFFICES ASSUME LikesTypeOK, LikesTypeOK', OvercountInv, OvercountInv', NoOrphans, NoOrphans',
                      [LikesNext]_likeVars
               PROVE  [Ledger!Next]_<<CountedUsers, likes>>
    OBVIOUS
  <2> USE NoLikeAssumption
  <2>1. ASSUME NEW th \in LikeThreads, NEW u \in LikeUsers, NEW t \in Tweets \cup UnknownIds,
               Begin(th, u, t)
        PROVE  UNCHANGED <<CountedUsers, likes>>
    <3>1. \A x \in Tweets : Counted(x)' = Counted(x)
      BY <2>1, CountedUnchanged DEF Begin, LikeAt, Liking, LikesTypeOK, Request
    <3>2. QED
      BY <2>1, <3>1 DEF Begin, CountedUsers
  <2>2. ASSUME NEW th \in LikeThreads, FindTweet(th)
        PROVE  UNCHANGED <<CountedUsers, likes>>
    <3>1. \A x \in Tweets : Counted(x)' = Counted(x)
      BY <2>2, CountedUnchanged DEF FindTweet, LikeAt, Liking, LikesTypeOK, Request
    <3>2. QED
      BY <2>2, <3>1 DEF FindTweet, CountedUsers
  <2>3. ASSUME NEW th \in LikeThreads, TweetNotFound(th)
        PROVE  UNCHANGED <<CountedUsers, likes>>
    <3>1. \A x \in Tweets : Counted(x)' = Counted(x)
      BY <2>3, CountedUnchanged DEF TweetNotFound, LikeDone, LikeAt, Liking, LikesTypeOK, Request
    <3>2. QED
      BY <2>3, <3>1 DEF TweetNotFound, CountedUsers
  <2>4. ASSUME NEW th \in LikeThreads, LikedBefore(th)
        PROVE  UNCHANGED <<CountedUsers, likes>>
    <3>1. \A x \in Tweets : Counted(x)' = Counted(x)
      BY <2>4, CountedUnchanged DEF LikedBefore, LikeDone, LikeAt, Liking, LikesTypeOK, Request
    <3>2. QED
      BY <2>4, <3>1 DEF LikedBefore, CountedUsers
  <2>5. ASSUME NEW th \in LikeThreads, IncrementLikes(th)
        PROVE  Ledger!Next
    <3>1. PICK t \in Tweets, u \in LikeUsers : t = likeReq[th].tweet /\ u = likeReq[th].user
      BY <2>5 DEF IncrementLikes, LikeAt, Liking, LikesTypeOK, Request
    <3>2. u \notin Counted(t)
      BY <2>5, <3>1
         DEF IncrementLikes, Counted, OvercountInv, NotYetLiked, OneRequestPerUser, LikeAt, Liking
    <3>3. Counted(t)' = Counted(t) \cup {u}
      BY <2>5, <3>1 DEF IncrementLikes, Counted, LikeAt, Liking, LikesTypeOK, Request
    <3>4. \A x \in Tweets : x # t => Counted(x)' = Counted(x)
      BY <2>5, <3>1 DEF IncrementLikes, Counted, LikeAt, Liking, LikesTypeOK, Request
    <3>5. CountedUsers' = [CountedUsers EXCEPT ![t] = @ \cup {u}]
      BY <3>3, <3>4 DEF CountedUsers
    <3>6. PICK n \in Nat : n = likeReq[th].found + 1
      BY <2>5 DEF IncrementLikes, LikeAt, Liking, LikesTypeOK, Request
    <3>7. likes' = [likes EXCEPT ![t] = n]
      BY <2>5, <3>1, <3>6 DEF IncrementLikes
    <3>8. n \in 1 .. Cardinality(CountedUsers'[t])
      <4>1. n >= 1
        BY <2>5, <3>6 DEF IncrementLikes, LikeAt, Liking, LikesTypeOK, Request
      <4>2. likes'[t] = n
        BY <3>7 DEF LikesTypeOK
      <4>3. n <= Cardinality(Counted(t)') + orphaned'[t]
        BY <4>2 DEF OvercountInv, LikesNeverOvercounted
      <4>4. Cardinality(Counted(t)') \in Nat
        <5>1. Counted(t)' \in SUBSET LikeUsers
          BY DEF Counted, LikesTypeOK
        <5>2. QED
          BY <5>1, LikesAssumption, FS_Subset, FS_CardinalityType
      <4>5. n <= Cardinality(Counted(t)')
        BY <4>3, <4>4
      <4>6. CountedUsers'[t] = Counted(t)'
        BY DEF CountedUsers
      <4>7. QED
        BY <4>1, <4>4, <4>5, <4>6
    <3>9. u \notin CountedUsers[t]
      BY <3>2 DEF CountedUsers
    <3>10. Ledger!Count(t, u)
      <4>1. \E m \in 1 .. Cardinality(CountedUsers'[t]) : likes' = [likes EXCEPT ![t] = m]
        BY <3>7, <3>8
      <4>2. QED
        BY <3>5, <3>9, <4>1 DEF Ledger!Count, Ledger!Cardinality, Cardinality
    <3>11. QED
      BY <3>10 DEF Ledger!Next
  <2>6. ASSUME NEW th \in LikeThreads, CacheLikes(th)
        PROVE  UNCHANGED <<CountedUsers, likes>>
    <3>1. \A x \in Tweets : Counted(x)' = Counted(x)
      BY <2>6, SMTT(30) DEF CacheLikes, LikeDone, Counted, LikeAt, Liking, LikesTypeOK, Request
    <3>2. QED
      BY <2>6, <3>1 DEF CacheLikes, CountedUsers
  <2>7. ASSUME NEW th \in LikeThreads, LikeAbort(th)
        PROVE  FALSE
    BY <2>7 DEF LikeAbort, LikesTypeOK
  <2>8. CASE UNCHANGED likeVars
    BY <2>8 DEF likeVars, CountedUsers, Counted, LikeAt, Liking
  <2>9. QED
    BY <2>1, <2>2, <2>3, <2>4, <2>5, <2>6, <2>7, <2>8 DEF LikesNext, LikeStep
<1>4. QED
  BY <1>1, <1>2, <1>3, TypeCorrect, OvercountInvariant, PTL DEF LikesSpec, ImplementsLedger, Ledger!Spec
=============================================================================
