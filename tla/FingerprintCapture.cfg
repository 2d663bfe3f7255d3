SPECIFICATION Spec
CONSTANTS
  Requests = {r1, r2}
  RetryLimits <- MCRetryLimits
  Users = {u1}
  MaxNow = 1
  None = None
INVARIANTS
  SchemaKept
  ImageOfTheLastAttempt
  BusyOnlyByOverlap
  PausesBounded
  SavedImageStays
PROPERTY EveryRequestIsAnswered
CHECK_DEADLOCK FALSE
