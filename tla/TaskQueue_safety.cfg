\* Every fault, one per behaviour; two hook invocations against up to two
\* workers, so that a worker is spawned, starts and dies while requests arrive.
CONSTANTS
  Kind = {"update", "embed"}
  File = {f1, f2}
  MAX_ATTEMPTS = 2
  Hook = {h1}
  Worker = {w1, w2}
  Nobody = Nobody
  Request <- EditsAndBackfill
  Fault = {"crash", "clear", "overrun"}
  MaxFaults = 1
  MaxFires = 2
  MaxId = 3
SPECIFICATION Spec
SYMMETRY WorkerSymmetry
INVARIANTS TypeOK RunningIsOwned NoLostRequest RetriesBounded
CHECK_DEADLOCK FALSE
