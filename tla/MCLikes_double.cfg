SPECIFICATION LikesSpec
CONSTANTS
  th1 = th1
  th2 = th2
  th3 = th3
  u1 = u1
  u2 = u2
  nil = nil
  t1 = t1
  t2 = t2
  gone = gone
  NoLike = NoLike
  LikeUsers <- MCUsers
  UnknownIds <- MCUnknownIds
  Tweets = {t1}
  LikeThreads <- MCTwoThreads
  OnePerUser = FALSE
  MaxLikeAborts = 0
INVARIANTS LikedOncePerUser
