CONSTANTS
  One = 1
  Ulp = 1
  MaxNumeric = 100
  Portfolios = {"main"}
  Tickers = {"AAPL"}
  Lower <- LowerCase
  StripLower <- StripLowerCase
  Keys = {1, 2, 3}
  Requests <- OverlapRequests
  Threads = {"t1", "t2"}
SPECIFICATION Spec
INVARIANT QuantityMatchesLedger
