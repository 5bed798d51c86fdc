SPECIFICATION Spec
CONSTANTS
  App = App
  Sys = Sys
  T1 = T1
  T2 = T2
  Clients = {App, Sys}
  SystemClients = {Sys}
  Programs <- MCPrograms
  Addrs = {a1}
  Devices = {d1, d2}
  Endpoints = {e1}
  Handlers = {h1, h2}
  Transfers = {T1, T2}
  OwnerOf <- MCOwnerOf
  None = None
  MaxPlugs <- MCMaxPlugs
INVARIANTS
  ContextLive
  OrphanCancelled
  KnownIsCurrent
PROPERTIES
  AnswerDelivered
  ImplementsRequest
CHECK_DEADLOCK FALSE
