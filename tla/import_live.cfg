CONSTANTS
  One = 1
  Ulp = 1
  MaxNumeric = 100
  Portfolios = {"main"}
  Tickers = {"AAPL"}
  Lower <- LowerCase
  StripLower <- StripLowerCase
  Keys = {1, 2}
  Requests <- ContendedRequests
  Threads = {"t1", "t2", "t3"}
SPECIFICATION FairSpec
PROPERTY EveryImportAnswered
