SPECIFICATION ButtonSpec
CONSTANTS
  Debounce = 2
  Hold = 3
  MinStep = 1
  MaxStep = 2
  Horizon = 9
INVARIANTS PushesApart HoldMeansHeld HoldIsTimely
