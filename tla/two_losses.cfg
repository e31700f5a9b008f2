SPECIFICATION Spec
CONSTANTS
  Low = low
  High = high
  MaxConns = 3
  Setups <- TwoLosses
INVARIANT RouteAccountedFor
