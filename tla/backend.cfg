SPECIFICATION MCSpec
CONSTANTS
  c1 = c1
  c2 = c2
  Cmds = {c1, c2}
  Ids = {i1, i2}
  NoId = NoId
  Attempts = 2
  Mixes <- TwoOrNone
  u1 = u1
  u2 = u2
  A = A
  B = B
  Users = {u1, u2}
  Calls <- TwoCalls
  Accounts = {A, B}
  NoAccount = NoAccount
  Polls = 2
  MaxTime = 2
  Skews = {0, 1}
INVARIANTS TypesOK StoredFirst
PROPERTIES KeepsPromise RespectsWorkflow AllEnd GoesOnLinked
CHECK_DEADLOCK FALSE
