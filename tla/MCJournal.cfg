SPECIFICATION JournalSpec
CONSTANTS
  Goroutine = {g1, g2, g3}
  MaxEvents = 2
  MaxBacklog = 1
  Capacity = 2
SYMMETRY Symmetry
CHECK_DEADLOCK FALSE
INVARIANTS PanelIsFiltered OwnOrder PanelFollowsLog
