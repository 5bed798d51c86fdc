CONSTANTS
  u1 = u1
  a1 = a1
  a2 = a2
  d1 = d1
  Users = {u1}
  Apps = {a1, a2}
  Devices = {d1}
  Period = 1
  Scenarios <- MCScenarios
  MaxTime = 3
  MaxInstalls = 2
  MaxEvents = 1
SPECIFICATION DbSpec
INVARIANTS
  CleanUpSparesValid
  EndsWithInstallation
PROPERTIES
  LoyalKeepsRight
  Forgotten
