CONSTANTS
  One = 2
  Ulp = 1
  MaxNumeric = 40
  Portfolios = {"main", "other"}
  Tickers <- TwoSymbols
  Lower <- TwoLowerCase
  StripLower <- TwoStripLowerCase
  Keys <- ConcurrentKeys
  Requests <- ConcurrentRequests
  Threads = {"t1", "t2"}
SPECIFICATION Spec
INVARIANTS
  TypeOK
  TransactionsExclude
  KeyUnique
  AckedIsDurable
  QuantityFromOwnEntries
PROPERTIES
  AtomicUnlessStale
  DriftOnlyByLostUpdate
  ImplementsJournal
