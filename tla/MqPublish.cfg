SPECIFICATION PublishSpec
CONSTANTS
  Requests = {r1, r2, r3}
  Backends = {1, 2}
  LateBodies = {r1}
INVARIANTS RefWithinInTime AnswerCountsStored
PROPERTIES QueueReopens
