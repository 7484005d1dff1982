SPECIFICATION AccountsSpec
CONSTANTS
  n1 = n1
  n2 = n2
  e1 = e1
  e2 = e2
  p1 = p1
  p2 = p2
  b1 = b1
  b2 = b2
  th1 = th1
  th2 = th2
  Missing = Missing
  NoUser = NoUser
  Names = {n1, n2}
  Emails = {e1, e2}
  Passwords = {p1, p2}
  Browsers = {b1, b2}
  Threads = {th1, th2}
  MaxInFlight = 2
  MaxAccountRequests = 3
  MaxAccountAborts = 1
SYMMETRY Symmetric
INVARIANTS
  SessionEarned AccountsSound LoginSticksAlone
