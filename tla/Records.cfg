CONSTANTS
  p1 = p1
  p2 = p2
  d1 = d1
  text1 = text1
  text2 = text2
  source1 = source1
  issue1 = issue1
  issue2 = issue2
  val1 = val1
  val2 = val2
  sig1 = sig1
  sig2 = sig2
  key1 = key1
  key2 = key2
  Procs = {p1, p2}
  MaxCalls = 3
  MaxKills = 1
  Texts = {text1, text2}
  Sources = {source1}
  Labels = {l}
  Docs = {d1}
  Chunks <- MCChunks
  Keys = {key1, key2}
  Ttls = {0, 1}
  MaxNow = 2
  MaxParents = 1
  MaxReduced = 2
  RunIds = {r}
  Refs = {issue1, issue2}
  Summaries = {m, n, ""}
  LongSummaries = {n}
  Metrics = {x}
  Values = {val1, val2}
  FeedbackIds = {f}
  Signals = {sig1, sig2}

SPECIFICATION Spec
SYMMETRY MCSymmetry
INVARIANTS IngestedWhole LineageWhole EventsAsCaptured ClosedAsAcked RepeatsHonoured
CHECK_DEADLOCK FALSE
