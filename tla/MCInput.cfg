SPECIFICATION Spec
CONSTANTS
  Drivers = {"mouse", "sound"}
  LineOf <- MCLineOf
  MouseDriver = "mouse"
  KBD_SIZE = 2
  Keys = {"k1", "k2"}
  SILENT = "silent"
  NoKey = "none"
  Clients = {"c1"}
  Budgets <- MCBudgets
INVARIANTS LinesStayOpen KeysDelivered MouseHeard HandlerStops
PROPERTIES LinesServed KeyReachesReader
CHECK_DEADLOCK FALSE
