SPECIFICATION FairSpec
CONSTANTS
  Leaf = {1, 2}
  Mac = {"m", "n"}
  MoveLimit = 1
  MaxLocal = 1
  MaxMoves = 2
  MaxLosses = 1
INVARIANT RibsSound
INVARIANT NoFalseDuplicate
PROPERTY SettledHostFollowed
PROPERTY BiddingEnds
