SPECIFICATION FollowsSpec
CONSTANTS
  u1 = u1
  u2 = u2
  u3 = u3
  c1 = c1
  c2 = c2
  c3 = c3
  ghost = ghost
  Nobody = Nobody
  Blank = Blank
  FollowUsers <- MCUsers
  UnknownNames <- MCUnknownNames
  Clients <- MCClients
  Owner <- MCOneTabEach
  Scripted <- MCOneScript
  FollowClashing <- MCNone
  MaxFollowRequests = 1
  MaxFollowAborts = 0
INVARIANT FollowingCountTrue
