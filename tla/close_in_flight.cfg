SPECIFICATION EstablishedSpec
CONSTANTS
  client = client
  server = server
  Host = {client, server}
  Byte = {1, 2, 3, 4}
  Isn <- Isns
  MaxSackBlocks = 4
  InitialSsthresh = 65535
  Clients = {client}
  LocalMss <- Mss11
  AppData <- Up1
  MayClose = {client, server}
  MayAbort = {}
  MaxFaults = 1
  RcvCapacity = 4
  SndBufferCapacity = 4
  MaxOooBytes = 4
  MaxRetransmits = 3
  DefaultMss = 1
INVARIANT NoSpuriousAbort
