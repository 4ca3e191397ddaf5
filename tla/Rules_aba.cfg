SPECIFICATION Spec
CONSTANTS
  r1 = r1
  r2 = r2
  ui = ui
  ui2 = ui2
  cli = cli
  None = None
  Readers = {r1}
  Writers = {ui}
  External = {}
  Ops <- ChurnOps
  FineClock = TRUE
  MaxId = 2
  MaxWrites = 4
INVARIANT NextRequestReloads
CHECK_DEADLOCK FALSE
