CONSTANTS
  p1 = p1
  p2 = p2
  t1 = t1
  t2 = t2
  Procs = {p1, p2}
  Texts = {t1, t2}
  Mentions <- MCMentions
  Area <- MCArea
  Names = {1, 2, 3}
  FirstTexts <- MCFirst
  Limit = 2
  MaxFacts = 2
  MaxEvidence = 1
  MaxCands = 2
  MaxCalls = 3
  MaxKills = 1
  MaxResets = 1

SPECIFICATION Spec
SYMMETRY MCSymmetry
INVARIANTS ConfirmedInGraph ConfirmedProvenance RejectedStaysOut VerdictKept
CHECK_DEADLOCK FALSE
