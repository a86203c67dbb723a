CONSTANTS
  p1 = p1
  p2 = p2
  t1 = t1
  t2 = t2
  t3 = t3
  Procs = {p1, p2}
  Texts = {t1, t2, t3}
  Shared = {t1}
  Metas <- MCMetas
  Seeds <- MCSeeds
  MaxFacts = 3
  MaxKills = 1
  Tools = {"forget", "confirm", "restore", "remember", "sweep", "consolidate", "ingest", "absorb"}
  MaxTasks = 2

SPECIFICATION Spec
SYMMETRY MCSymmetry
INVARIANTS AuditComplete MergeProvenance IngestComplete
CHECK_DEADLOCK FALSE
