SPECIFICATION FairSpec
CONSTANTS
  AgentId = {1, 2}
  NoAgent = NoAgent
  Theme = {0, 1, 2}
  MaxClock = 1
  MaxTicks = 3
CHECK_DEADLOCK FALSE
INVARIANTS
  RowsShowRoster
  SelectionOnRow
  SpinnerRuns
  EscRestores
PROPERTIES
  SelectionStays
  TicksEnd
