SPECIFICATION FairEstablishedSpec
CONSTANTS
  client = client
  server = server
  Host = {client, server}
  Byte = {1, 2, 3, 4}
  Isn <- Isns
  MaxSackBlocks = 4
  InitialSsthresh = 65535
  Clients = {client}
  LocalMss <- Mss11
  AppData <- Both11
  MayClose = {}
  MayAbort = {client, server}
  MaxFaults = 1
  RcvCapacity = 4
  SndBufferCapacity = 4
  MaxOooBytes = 4
  MaxRetransmits = 2
  DefaultMss = 1
PROPERTY EventuallyDelivered
PROPERTY AbortReachesPeer
