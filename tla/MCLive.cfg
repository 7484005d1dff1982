SPECIFICATION LiveSpec
CONSTANTS
  th1 = th1
  th2 = th2
  th3 = th3
  v1 = v1
  v2 = v2
  nil = nil
  t1 = t1
  gone = gone
  u1 = u1
  u2 = u2
  u3 = u3
  ghost = ghost
  c1 = c1
  c2 = c2
  c3 = c3
  ann = ann
  j1 = j1
  j2 = j2
  bob = bob
  g1 = g1
  root = root
  NoLike = NoLike
  Nobody = Nobody
  Blank = Blank
  None = None
  LikeUsers <- MCLikeUsers
  UnknownIds <- MCUnknownIds
  LikeThreads <- MCLikeThreads
  OnePerUser = TRUE
  Tweets = {t1}
  MaxLikeAborts = 0
  FollowUsers <- MCFollowUsers
  UnknownNames <- MCUnknownNames
  Clients <- MCClients
  Owner <- MCOneVisitor
  Scripted = {c1, c2, c3}
  FollowClashing = {u3}
  MaxFollowRequests = 2
  MaxFollowAborts = 0
  PublishUsers = {ann, bob}
  Authors = {ann}
  Tags = {g1}
  MaxActive = 2
  PublishClashing = {}
  Parents = {root}
  Texts <- MCTexts
  Jobs = {j1, j2}
  Cap = 1
  MaxFollowChanges = 0
  MaxPublishAborts = 0
PROPERTIES ImplementsLedger LikeAnswered RequestAnswered TweetDelivered
