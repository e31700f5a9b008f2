SPECIFICATION FairSpec
CONSTANTS
  Address <- MCAddress
  Iface = {"lan", "wan"}
  Distance <- MCDistance
  public = "public"
  LowPort = 40
  HighPort = 41
  Endpoint <- MCEndpoint
  Forwards <- MCForwards
  lan = "lan"
  wan = "wan"
  inside = "inside"
  LanHost = {"a", "b"}
  WanHost = {"isp", "w"}
  Candidates <- MCCandidates
  StartRoutes <- MCStartRoutes
  LanPackets <- MCLanPackets
  WanPackets <- MCWanPackets
  Peers = {"isp"}
  InputRules <- MCInputRules
  ForwardRules <- MCForwardRules
  MaxPackets = 3
INVARIANT ForwardingSound
INVARIANT HeldOrSentOnce
INVARIANT RepliesReturn
PROPERTY ParkedIsSent
CHECK_DEADLOCK FALSE
