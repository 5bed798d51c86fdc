CONSTANTS
  app1 = app1
  again1 = again1
  dumper = dumper
  tok1 = tok1
  tokd = tokd
  NoToken = NoToken
  p1 = p1
  t1 = t1
  t2 = t2
  Ports = {p1}
  Procs <- MCProcs
  Tokens <- MCTokens
  TokenOf <- MCTokenOf
  SystemTokens = {tokd}
  Dumper = dumper
  Threads = {t1, t2}
  IoOps = {"read"}
  MaxLinks = 1
SPECIFICATION Spec
CHECK_DEADLOCK FALSE
INVARIANTS
  EntryBacked
  NoOrphanByClose
  AuditNotSilenced
  DeadOwnerWatched
PROPERTIES
  ImplementsLock
  DeadOwnerFreed
