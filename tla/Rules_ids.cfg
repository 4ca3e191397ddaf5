SPECIFICATION Spec
CONSTANTS
  r1 = r1
  r2 = r2
  ui = ui
  ui2 = ui2
  cli = cli
  None = None
  Readers = {}
  Writers = {ui, ui2}
  External = {}
  Ops <- TwoCreatesOps
  FineClock = TRUE
  MaxId = 2
  MaxWrites = 2
PROPERTY CreateReplacesNothing
CHECK_DEADLOCK FALSE
