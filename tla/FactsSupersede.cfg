CONSTANTS
  p1 = p1
  p2 = p2
  t1 = t1
  t2 = t2
  t3 = t3
  Procs = {p1}
  Texts = {t1, t2}
  Shared = {}
  Metas <- MCMetas
  Seeds <- MCNoSeeds
  MaxFacts = 2
  MaxKills = 0
  Tools = {"ingest"}
  MaxTasks = 1

SPECIFICATION Spec
INVARIANTS SupersededBySurvivor
CHECK_DEADLOCK FALSE
