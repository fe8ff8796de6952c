SPECIFICATION Spec
CONSTANTS
  Workers = {w1, w2}
  Slots = {1, 2}
  Timeout = 1
  Hosts = {"a", "b", "c", "d"}
  TableSize = 4
  FirstTable <- First
  Tables <- Posted
  MaxNow = 3
  MaxId = 2
  MaxTable = 3
  MaxCrash = 1
INVARIANTS OneWriter FilesSurvive InstanceCanStart LockNotLeaked
PROPERTIES IdentifiersKept
SYMMETRY Alike
CHECK_DEADLOCK FALSE
