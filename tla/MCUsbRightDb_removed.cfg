CONSTANTS
  u1 = u1
  a1 = a1
  a2 = a2
  d1 = d1
  Users = {u1}
  Apps = {a1, a2}
  Devices = {d1}
  Period = 2
  Scenarios <- RemovedScenarios
  MaxTime = 2
  MaxInstalls = 1
  MaxEvents = 1
SPECIFICATION DbSpec
PROPERTY
  RemovedRightIsGone
