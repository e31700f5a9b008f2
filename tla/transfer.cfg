SPECIFICATION EstablishedSpec
CONSTANTS
  client = client
  server = server
  Host = {client, server}
  Byte = {1, 2, 3, 4}
  Isn <- Isns
  MaxSackBlocks = 4
  InitialSsthresh = 65535
  Clients = {client}
  LocalMss <- Mss11
  AppData <- Up4
  MayClose = {}
  MayAbort = {}
  MaxFaults = 2
  RcvCapacity = 3
  SndBufferCapacity = 4
  MaxOooBytes = 4
  MaxRetransmits = 3
  DefaultMss = 1
INVARIANT StreamIntegrity
INVARIANT SackSound
INVARIANT ReceiveBounded
PROPERTY WindowNeverShrinks
