SPECIFICATION Spec
CONSTANTS
  j1 = j1 j2 = j2 j3 = j3 k1 = k1 w1 = w1 w2 = w2 p1 = p1 p2 = p2
  s1 = s1 r1 = r1 r2 = r2 a1 = a1 a2 = a2
  Jobs = {j1, j2, j3}
  Groups = {k1}
  Writers = {w1}
  Ids = {1, 2, 3}
  Players = {p1}
  Sessions <- SerialSessions
  GroupJobs <- FirstTwo
  None = None
  MinShared = 1
  CallCap = 5
  FailCap = 1
SYMMETRY Symmetry
CHECK_DEADLOCK FALSE
INVARIANTS IssuedUrlsResolve IndexesAgree SessionsAgree
