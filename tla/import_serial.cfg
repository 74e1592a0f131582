CONSTANTS
  One = 2
  Ulp = 1
  MaxNumeric = 100
  Portfolios = {"main"}
  Tickers <- Spellings
  Lower <- LowerCase
  StripLower <- StripLowerCase
  Keys <- SerialKeys
  Requests <- SerialRequests
  Threads = {"t1"}
SPECIFICATION Spec
INVARIANTS
  QuantityMatchesLedger
  FindablePositionsAreUnique
  FlatIsClosedAndFree
  MoneyIsConserved
  AverageWithinPricesPaid
PROPERTY ImplementsBook
