CONSTANTS
  One = 1
  Ulp = 1
  MaxNumeric = 100
  Portfolios = {"main"}
  Tickers <- ReadTickers
  Lower <- ReadLower
  StripLower <- ReadStripLower
  Keys <- ReadKeys
  Requests <- ReadRequests
  Threads = {t1, t2}
  Unset = Unset
  Queries <- ReadQueries
  Limit = 1
  OccurredAt <- ReadOccurred
  TickerPlace <- ReadPlace
SYMMETRY ThreadSymmetry
SPECIFICATION ReadsSpec
INVARIANTS
  ReadsTypeOK
  SkipsOnlyForLeavers
  RepeatsOnlyForNewcomers
  ImportIsFound
