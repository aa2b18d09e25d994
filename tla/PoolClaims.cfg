SPECIFICATION Spec
CONSTANTS
  Requests = {q1, q2, q3}
  WORKERS = 2
  SLOT_COUNT = 1
  CALL_TIMEOUT = 1
  STREAM_TOTAL = 2
  Kinds = {"fetch"}
  MaxDeaths = 1
  None = None
SYMMETRY SymRequests
CONSTRAINT Combined
INVARIANTS NoLostWakeup
