SPECIFICATION FairSpec
CONSTANTS
  FragmentKey = {"reused", "second", "third", "fourth"}
  Datagrams <- SentUnder
  Mtus = {1, 4, 6}
  Header = 1
  Unit = 2
  MaxPayload = 5
  MaxDatagrams = 3
  MaxBytes = 5
  Timeout = 1
INVARIANT BufferSound
INVARIANT DatagramsSurvive
INVARIANT HeldSound
PROPERTY EvictsOldest
PROPERTY StaleIsFreed
CHECK_DEADLOCK FALSE
