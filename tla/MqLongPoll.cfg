SPECIFICATION FairSpec
CONSTANTS
  Hosts = {h1}
  Queues = {a, b}
  Resembles = {}
  StatusCache = FALSE
  MaxQueues = 2
  MaxKeys = 1
  MaxReady = 1
  SizeWidth = 8
  Clients = {c1, c2, c3}
  MaxTimers = 2
INVARIANTS ItemsAsSaid LinesSound
PROPERTIES FirstComeFirst RoomAgain
