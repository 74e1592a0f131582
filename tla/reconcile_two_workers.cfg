CONSTANTS
  One = 2
  Ulp = 2
  MaxNumeric = 100
  Portfolios = {"main"}
  Tickers = {"AAPL"}
  Lower <- LowerAAPL
  StripLower <- LowerAAPL
  Keys = {1, 2}
  Requests <- HalfSteps
  Threads = {"t1"}
  Workers = {w1, w2}
  MaxRuns = 2
SYMMETRY WorkerSymmetry
SPECIFICATION ReconciliationSpec
INVARIANTS
  WorkersTypeOK
  RunsAreWhole
  FailedPassLeftAllOrNothing
PROPERTY RunsPublishedInOrder
