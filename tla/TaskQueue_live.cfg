\* Hooks that keep firing, and one crash.
CONSTANTS
  Kind = {"update", "embed"}
  File = {f1}
  MAX_ATTEMPTS = 2
  Hook = {h1}
  Worker = {w1, w2}
  Nobody = Nobody
  Request <- Updates
  Fault = {"crash"}
  MaxFaults = 1
  MaxFires = 0
  MaxId = 2
SPECIFICATION BusySpec
PROPERTY UpdateClaimed
CHECK_DEADLOCK FALSE
