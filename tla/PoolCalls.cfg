SPECIFICATION FairSpec
CONSTANTS
  Requests = {q1, q2}
  WORKERS = 1
  SLOT_COUNT = 1
  CALL_TIMEOUT = 1
  STREAM_TOTAL = 2
  Kinds = {"planned", "stream"}
  MaxDeaths = 1
  None = None
INVARIANTS TypeOK OwnReply IdleSlotClean
PROPERTIES EveryRequestAnswered LeasesSlots
