SPECIFICATION LiveSpec
CONSTANTS
  Calls = {c1, c2}
  NoCall = NoCall
  Jobs <- AllJobs
  Attempts = 2
  Duration = 2
  MaxTime = 2
INVARIANTS TypeOK PostedWasAllowed SignableHasBundle SuccessIsKept ChangesetKept
PROPERTIES CallsEnd
CHECK_DEADLOCK FALSE
