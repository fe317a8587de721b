SPECIFICATION HostSpec
CONSTANT
  Budgets <- MCBudgets
INVARIANTS
  SuspendIsSettled
  NothingFromBefore
CHECK_DEADLOCK FALSE
