SPECIFICATION LiveSpec
CONSTANTS
  Calls = {c1, c2}
  Names = {wa}
  Tags = {cli, old}
  CliTag = cli
  Builds = {x, y, z}
  Dons = {d1}
  None = None
  wa = wa
  wb = wb
  wc = wc
  cli = cli
  old = old
  x = x
  y = y
  z = z
  d1 = d1
  d2 = d2
  Jobs <- VersionJobs
  Preregistered <- VersionRegistries
  Limit = 2
  MaxOverlap = 2
INVARIANTS TypeOK RegisteredIsStored OkMeansLanded QuietEndings
PROPERTIES UpdateKeepsStatus PauseIsComplete Termination
