SPECIFICATION Spec
CONSTANTS
  Workers = {w1, w2}
  Keys = {"a", "b", "c"}
  Types = {"int8", "int64", "double", "binary"}
  Size <- Widths
  Guarded = {"double"}
  Slots = {1, 2}
  NoSlot = NoSlot
  Fits <- Classes
  Loads <- StoreOrCount
  Modulus = 3
  Second = 1
  Wrap = 8
  MaxNow = 3
  Tries = 2
INVARIANTS OneEntryPerKey Counted
PROPERTIES RoomIsFair
SYMMETRY Symmetry
