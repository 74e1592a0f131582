CONSTANTS
  Threads = {"t1", "t2", "t3"}
  Names = {"main", "spare"}
  NoName = NoName
  MaxId = 2
SPECIFICATION FairSpec
INVARIANTS
  TypeOK
  NoDanglingPosition
  RepliesStayTrue
  RowsExclude
PROPERTIES
  ImplementsRegister
  EveryRequestAnswered
