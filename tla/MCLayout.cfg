SPECIFICATION LayoutSpec
CONSTANTS
  Width = {3, 9, 20, 40}
  Height = {1, 2, 3, 4, 5, 6, 7, 8, 9, 10, 11, 12, 13, 14, 15, 16, 17, 18, 19, 20, 21, 22, 23, 24, 25, 26, 27, 28, 29, 30}
  MaxAgents = 3
  Themes = 4
CHECK_DEADLOCK FALSE
INVARIANTS
  FitsHeight
  SelectedVisible
  MoreRoomShowsMore
