SPECIFICATION Spec
CONSTANTS
  Hosts = {1, 2}
  Contexts = {1, 2}
  Conns = 3
  MaxRound = 3
INVARIANTS RoundsSound MergedWhole
PROPERTIES ContextsComeBack
CHECK_DEADLOCK FALSE
