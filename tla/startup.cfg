CONSTANTS
  AppTables = {"positions", "position_ledger_entries"}
  Container = "supervisord"
  Operators = {"console", "laptop"}
SPECIFICATION FairSpec
INVARIANTS
  TypeOK
  VersionIsTruth
  MigrationsExclude
PROPERTIES
  OnlyBaseDropsData
  ComesUp
