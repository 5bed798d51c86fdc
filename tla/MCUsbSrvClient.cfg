CONSTANTS
  Retries = 2
  Budgets <- MCBudgets
SPECIFICATION Spec
CHECK_DEADLOCK FALSE
INVARIANTS
  TimerMeansIdle
  ProxyWatched
PROPERTIES
  IdleUnloads
  CallReturns
