SPECIFICATION Spec
CONSTANTS
  j1 = j1
  j2 = j2
  j3 = j3
  j4 = j4
  d1 = d1
  d2 = d2
  d3 = d3
  s1 = s1
  s2 = s2
  s3 = s3
  u1 = u1
  Uploads = {u1}
  c1 = c1
  c2 = c2
  k1 = k1
  r1 = r1
  p1 = p1
  Jobs = {j1, j2, j3, j4}
  Demos = {d1, d2, d3}
  Results = {s1, s2, s3}
  Cases = {c1, c2}
  Ids = {1, 2, 3}
  None = None
  DemoOf <- DemoOfJob
  ResultOf <- ResultOfJob
  UploadOf <- UploadOfJob
  CasesOf <- CasesOfDemo
  Stable = {c1}
  SessionOf <- SessionOfDemo
  Rank <- RankOfFile
  MinShared = 1
  PurgeCap = 1
SYMMETRY Symmetry
CHECK_DEADLOCK FALSE
INVARIANTS RowsFindTheirFiles  GamesAreGraded
