SPECIFICATION Spec
CONSTANTS
  Demos = {d1}
  Uploads = {u1}
  Builds = {b1, b2}
  Messages = {m1, m2}
  Handlers = {h1, h2}
  None = None
  MaxAttempts = 2
  MaxRetries = 1
  PutsPerUpload = 2
  AttemptCap = 3
  Faults <- ConsumerFaults
SYMMETRY Symmetry
CHECK_DEADLOCK FALSE
INVARIANTS SucceededIsComplete
PROPERTIES  OnlyTheOwnerReleases ImplementsContract
