SPECIFICATION Spec
CONSTANTS
  Agents = {a1}
  Gateway = gw
  Operators = {o1, o2}
  Absent = Absent
  Overlap = 5
  StaleStandby = TRUE
  MaxRotations = 1
  MaxErrors = 0
  MaxCrashes = 1
  MaxRenewals = 0
INVARIANT
  PeersTrust
