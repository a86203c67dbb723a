CONSTANTS
  Facts <- MCFacts
  Terms <- MCTerms
  Words <- MCWords
  Contains <- MCContains
  RootOf <- MCRootOf
  Embedded = {1, 2, 3}
  Similarity <- MCSimilarity
  Session <- MCSession
  Resolved = {1, 3}
  Entities <- MCEntities
  FirstEntities = {1, 2, 3}
  Relations <- MCRelations
  FirstRelations <- MCFirstRelations
  Requests <- MCRequests
  MaxChanges = 2
  RowLimit = 2
  MaxLength = 5
  MaxSize = 3
  Widths = {1, 3}
SPECIFICATION Spec
INVARIANTS NothingHiddenServed NothingMissed GraphWhole DiagnosisTruthful PagesJoin
CHECK_DEADLOCK FALSE
