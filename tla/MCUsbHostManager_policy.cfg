CONSTANTS
  hub = hub
  tty = tty
  twin = twin
  hubT = hubT
  ttyT = ttyT
  ifT = ifT
  hubId = hubId
  ttyId = ttyId
  NoType = NoType
  NoDev = NoDev
  Devs = {hub, tty, twin}
  Hubs = {hub}
  Serials = {tty}
  Types = {hubT, ttyT, ifT}
  Ids = {hubId, ttyId}
  TypeOf <- MCTypeOf
  IfTypeOf <- MCIfTypeOf
  IdOf <- MCIdOf
  Policies <- MCPolicies
  MaxInputs = 3
SPECIFICATION Spec
CHECK_DEADLOCK FALSE
CONSTRAINT TwinBound
INVARIANTS
  NoUseAfterDelete
  SeenIsEnabled
  KernelAgrees
  PolicyInForce
  NoCircularWait
