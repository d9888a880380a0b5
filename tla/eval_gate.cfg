SPECIFICATION Spec
CONSTANTS
  Job = {j1, j2}
  Reporter = {r1}
  Lang = {hi}
  Commit = {c1}
  Setting = {s1, s2}
  MaxValue = 1
  Threshold = 0
  MaxTime = 1
INVARIANTS BaselineIsComplete ReportIsRebuildable RedMeansWorse
CHECK_DEADLOCK FALSE
