SPECIFICATION Spec
CONSTANTS
  r1 = r1
  r2 = r2
  ui = ui
  ui2 = ui2
  cli = cli
  None = None
  Readers = {r1, r2}
  Writers = {ui, cli}
  External = {cli}
  Ops <- EditOps
  FineClock = TRUE
  MaxId = 2
  MaxWrites = 2
INVARIANTS TypeOK ServedAsOnDisk
SYMMETRY RequestSymmetry
CHECK_DEADLOCK FALSE
