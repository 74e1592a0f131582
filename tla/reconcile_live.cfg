CONSTANTS
  One = 2
  Ulp = 2
  MaxNumeric = 100
  Portfolios = {"main"}
  Tickers <- MCTickers
  Lower <- MCLowerCase
  StripLower <- MCLowerCase
  Keys = {1, 2}
  Requests <- DriftingRequests
  Threads = {"t1"}
  Workers = {w1}
  MaxRuns = 2
SPECIFICATION FairReconciliation
INVARIANT QuietVerdictsAreExact
PROPERTY DriftIsReported
