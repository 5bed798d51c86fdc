CONSTANTS
  MaxCalls = 3
  MaxConns = 2
  MaxRetry = 2
  MaxSwitches = 4
  HostDevs = {d1, d2}
  Policers = {p1, p2}
SPECIFICATION MCSpec
CHECK_DEADLOCK FALSE
INVARIANTS
  PromptNotLost
  NoWindowLeft
  CrashOnlyHurried
  PortMapCurrent
  NoNoticeLeft
