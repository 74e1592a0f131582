CONSTANTS
  One = 1
  Ulp = 1
  MaxNumeric = 100
  Portfolios = {"main"}
  Tickers = {"AAPL"}
  Lower <- LowerAAPL
  StripLower <- LowerAAPL
  Keys = {1, 2}
  Requests <- WholeSteps
  Threads = {"t1"}
  Workers = {w1}
  MaxRuns = 2
SPECIFICATION ReconciliationSpec
PROPERTY FailedPassIsMarked
