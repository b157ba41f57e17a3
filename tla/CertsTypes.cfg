SPECIFICATION Spec
CONSTANTS
  Agents = {a1}
  Gateway = gw
  Operators = {o1}
  Absent = Absent
  Overlap = 5
  StaleStandby = FALSE
  MaxRotations = 1
  MaxErrors = 1
  MaxCrashes = 1
  MaxRenewals = 1
INVARIANTS TypeOK
CHECK_DEADLOCK FALSE
