CONSTANTS
  hub = hub
  tty = tty
  twin = twin
  hubT = hubT
  ttyT = ttyT
  ifT = ifT
  hubId = hubId
  ttyId = ttyId
  NoType = NoType
  NoDev = NoDev
  Devs = {tty}
  Hubs = {}
  Serials = {tty}
  Types = {hubT, ttyT, ifT}
  Ids = {hubId, ttyId}
  TypeOf <- MCTypeOf
  IfTypeOf <- MCIfTypeOf
  IdOf <- MCIdOf
  Policies <- TrustPolicies
  MaxInputs = 3
SPECIFICATION Spec
CHECK_DEADLOCK FALSE
INVARIANT
  SerialPolicyInForce
