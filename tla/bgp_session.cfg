SPECIFICATION FairSpec
CONSTANTS
  Low = low
  High = high
  MaxConns = 3
  Setups <- OneLoss
INVARIANT NothingLeftBehind
INVARIANT SpeakersAgree
PROPERTY StaleEnds
PROPERTY Establishes
