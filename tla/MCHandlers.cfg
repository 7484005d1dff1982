SPECIFICATION HandlersSpec
CONSTANTS
  th1 = th1
  th2 = th2
  th3 = th3
  v1 = v1
  v2 = v2
  nil = nil
  t1 = t1
  gone = gone
  u1 = u1
  u2 = u2
  u3 = u3
  ghost = ghost
  c1 = c1
  c2 = c2
  c3 = c3
  ann = ann
  bob = bob
  cat = cat
  g1 = g1
  root = root
  j1 = j1
  j2 = j2
  j3 = j3
  NoLike = NoLike
  Nobody = Nobody
  Blank = Blank
  None = None
  LikeUsers <- MCLikeUsers
  UnknownIds <- MCUnknownIds
  LikeThreads <- MCLikeThreads
  OnePerUser = TRUE
  Tweets = {t1}
  MaxLikeAborts = 1
  FollowUsers <- MCFollowUsers
  UnknownNames <- MCUnknownNames
  Clients <- MCClients
  Owner <- MCOneVisitor
  Scripted = {c2, c3}
  FollowClashing = {u3}
  MaxFollowRequests = 3
  MaxFollowAborts = 1
  PublishUsers <- MCPublishUsers
  Authors = {ann, cat}
  Tags = {g1}
  MaxActive = 2
  PublishClashing = {cat}
  Parents = {root}
  Texts <- MCTexts
  Jobs = {j1, j2, j3}
  Cap = 1
  MaxFollowChanges = 1
  MaxPublishAborts = 1
INVARIANTS
  LikesTypeOK LikesNeverOvercounted LikedTweetHasLikes
  FollowsTypeOK TookEffect  FollowCountsExact
  PublishTypeOK DeliveredExactly FeedsSound TweetsNeverOvercounted
