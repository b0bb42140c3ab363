SPECIFICATION MCSpec
CONSTANTS
  p1 = p1
  p2 = p2
  p3 = p3
  Procs = {p1, p2, p3}
  Mixes <- ThreeMixes
  Accounts = {a, b}
  NoAccount = NoAccount
  MaxToken = 3
  Callbacks = {c1, c2, c3}
  MaxRetries = 1
INVARIANTS TypeOK TornNeedsClash SessionSurvives ContextOfAccount
PROPERTIES LogoutDeletes LoginReturns
CHECK_DEADLOCK FALSE
