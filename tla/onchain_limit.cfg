SPECIFICATION Spec
CONSTANTS
  Calls = {c1, c2, c3}
  Names = {wa, wb, wc}
  Tags = {cli, old}
  CliTag = cli
  Builds = {x, y}
  Dons = {d1, d2}
  None = None
  wa = wa
  wb = wb
  wc = wc
  cli = cli
  old = old
  x = x
  y = y
  z = z
  d1 = d1
  d2 = d2
  Jobs <- LimitJobs
  Preregistered <- LimitRegistries
  Limit = 1
  MaxOverlap = 2
INVARIANTS LimitOvershoot
SYMMETRY CallSymmetry
