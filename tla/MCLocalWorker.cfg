SPECIFICATION FairSpec
CONSTANTS
  Jobs = {j1, j2}
  Demos = {d1}
  None = None
  MaxAttempts = 2
  RetryCap = 1
  Faults <- WorkerFaults
CHECK_DEADLOCK FALSE
INVARIANTS SucceededIsRecorded AttemptsAreBounded
PROPERTIES OutcomeIsStable NoRunningJobIsDropped QueuedJobEnds
