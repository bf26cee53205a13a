SPECIFICATION FairSpec
CONSTANTS
  Demos = {d1}
  Uploads = {u1}
  Builds = {b1}
  Messages = {m1, m2}
  Handlers = {h1, h2}
  None = None
  MaxAttempts = 2
  MaxRetries = 3
  PutsPerUpload = 1
  AttemptCap = 3
  Faults <- ServiceFaults
CHECK_DEADLOCK FALSE
PROPERTIES QueuedJobSettles
