SPECIFICATION FairSpec
CONSTANTS
  Router = {1, 2}
  MaxLife = 3
  TwoHours = 2
  Reachable = 2
  Delay = 1
  Retrans = 1
  MaxProbes = 2
  MaxSolicits = 3
  Interval = 2
  DadTime = 1
  Jumps = {1, 2}
  Adverts <- MCAdverts
  MaxEvents = 6
INVARIANT RoutesSound
PROPERTY RouterChoice
PROPERTY AddressSound
PROPERTY DeadIsGivenUp
