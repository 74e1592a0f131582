CONSTANTS
  AppTables = {"positions", "position_ledger_entries"}
  Container = "supervisord"
  Operators = {"operator"}
SPECIFICATION Spec
PROPERTY ReadyAtHead
