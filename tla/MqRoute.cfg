SPECIFICATION RouteSpec
CONSTANTS
  h1 = h1
  h2 = h2
  Hosts = {h1, h2}
  HostList <- TwoHosts
  Queues = {a}
  Other = other
  Resembles = {}
  StatusCache = FALSE
  MaxQueues = 1
  MaxKeys = 1
  MaxReady = 1
  Workers = {w1, w2}
  Times = {0, 1}
  MaxWorkers = 1
  SizeWidth = 8
  Requests = {c1}
INVARIANTS GivesUpLast AnswerTellsTrue
