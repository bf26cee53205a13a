SPECIFICATION Spec
CONSTANTS
  Demos = {d1}
  Uploads = {u1}
  Builds = {b1}
  Messages = {m1, m2}
  Handlers = {h1, h2}
  None = None
  MaxAttempts = 3
  MaxRetries = 2
  PutsPerUpload = 1
  AttemptCap = 3
  Faults <- CrashFaults
SYMMETRY Symmetry
CHECK_DEADLOCK FALSE
INVARIANTS NoStrandedJob
