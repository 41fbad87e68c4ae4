CONSTANTS
  k1 = k1
  k2 = k2
  k3 = k3
  k4 = k4
  c1 = c1
  c2 = c2
  s1 = s1
  s2 = s2
  NoCate = NoCate
  Keys = {k1, k2, k3, k4}
  Cates = {c1, c2}
  Softs = {s1, s2}
  cate_of <- CateOf
  Lists <- SomeLists
  MaxChanges = 1
SPECIFICATION FairSpec
INVARIANTS ReportsBlocked ReportFresh
PROPERTIES CallReturns
