CONSTANTS
  One = 1
  Ulp = 1
  MaxNumeric = 100
  Portfolios = {"main"}
  Tickers <- Spellings
  Lower <- LowerCase
  StripLower <- StripLowerCase
  Keys = {1, 2}
  Requests <- SpellingRequests
  Threads = {"t1", "t2"}
SPECIFICATION Spec
PROPERTY UsedKeyIsNoError
