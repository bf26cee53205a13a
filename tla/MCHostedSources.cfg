SPECIFICATION Spec
CONSTANTS
  Demos = {d1}
  Uploads = {u1, u2, u3}
  Builds = {b1}
  Messages = {m1, m2}
  Handlers = {h1, h2}
  None = None
  MaxAttempts = 2
  MaxRetries = 2
  PutsPerUpload = 1
  AttemptCap = 3
  Faults <- SourceFaults
SYMMETRY Symmetry
CHECK_DEADLOCK FALSE
INVARIANTS QueuedHasSource
 
