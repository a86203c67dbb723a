CONSTANTS
  p1 = p1  p2 = p2  mem = mem  a = a  b = b  r1 = r1  s1 = s1  s2 = s2  m1 = m1  m2 = m2
  MemNames = {mem, a, b}
  FirstName = mem
  MemRows = {r1}
  MaxImage = 6
  MaxAborts = 1
  Procs = {p1, p2}
  FileNames = {a, b}
  FileRows = {r1}
  MaxFiles = 3
  MaxKills = 1
  Servers = {s1, s2}
  Movers = {m1, m2}
  FactRows = {r1}
  MaxOpens = 2
  MaxStops = 1
  MaxLacking = 1
  MaxKeyless = 2
SPECIFICATION Spec
INVARIANTS DatabasesKept SoftOpsReversible ServedUpgraded OpenFailsInRacesOnly TargetKept
SYMMETRY MCSymmetry
CHECK_DEADLOCK FALSE
