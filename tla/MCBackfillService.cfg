SPECIFICATION FairSpec
CONSTANTS
  i1 = i1 i2 = i2 i3 = i3 g1 = g1 g2 = g2
  s1 = s1 s2 = s2 s3 = s3 d1 = d1 d2 = d2 d3 = d3
  Items = {i1, i3}
  Groups = {g1, g2}
  Workers = {w1, w2}
  None = None
  GroupOf <- TwoGames
  SourceOf <- OwnSource
  DemoOf <- OwnDemo
  Refused = {i3}
  Limit = 2
  Faults <- KillFaults
  FailureCap = 2
INVARIANTS JobsHaveResults
 
