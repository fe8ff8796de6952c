SPECIFICATION Spec
CONSTANTS
  Gets = {g1, g2, g3}
  Workers = {w1, w2}
  Slots = {1, 2}
  Executers = {1}
  NoGet = NoGet
  NoWorker = NoWorker
  MaxEpoch = 1
INVARIANTS ExchangeSound
PROPERTIES InTimeIsDelivered EveryoneAnswered
