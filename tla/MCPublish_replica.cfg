SPECIFICATION PublishSpec
CONSTANTS
  ann = ann
  bob = bob
  cat = cat
  g1 = g1
  p1 = p1
  j1 = j1
  j2 = j2
  j3 = j3
  j4 = j4
  None = None
  PublishClashing <- MCNone
  PublishUsers <- MCUsers
  Authors <- MCAuthor
  Tags <- MCTags
  Parents <- MCNone
  Texts <- MCMention
  Jobs <- MCTwoJobs
  Cap = 2
  MaxActive = 1
  MaxFollowChanges = 1
  MaxPublishAborts = 0
INVARIANT NeverReplicated
