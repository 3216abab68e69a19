CONSTANTS
  a = a  b = b  c = c  x = x
  Node = {a, b}
  Addr <- MCAddr  Zero = x
  HostUpdate <- OwnUpdates
  Nbr <- PairNbr
  NoRoute = NoRoute
  Broadcast = Broadcast
  Msg <- NeighbourMsg
  MaxRoutes = 2 SeqMod = 4 MetricMod = 4 StaleAge = 0
  MaxQueue = 2 MaxDead = 2 TtlDefault = 3 FloodAge = 0 RetryAge = 1 MaxRetries = 2
  RreqAge = 0 RreqRetries = 1 InboxCap = 3 MaxSeqno <- NoFloods
  MayRestart = {}
SPECIFICATION ReliableSpec
PROPERTIES RequestAnswered
