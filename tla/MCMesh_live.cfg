CONSTANTS
  a = a  b = b  c = c  x = x
  Node = {a, b, c}
  Addr <- MCAddr  Zero = x
  HostUpdate <- CliqueUpdates
  Nbr <- CliqueNbr
  NoRoute = NoRoute
  Broadcast = Broadcast
  Msg <- NeighbourMsg
  MaxRoutes = 2 SeqMod = 4 MetricMod = 4 StaleAge = 0
  MaxQueue = 1 MaxDead = 1 TtlDefault = 3 FloodAge = 0 RetryAge = 1 MaxRetries = 2
  RreqAge = 0 RreqRetries = 0 InboxCap = 1 MaxSeqno <- CliqueSeqno
  MayRestart = {}
SPECIFICATION TimedSpec
INVARIANTS TypeOK HopsBounded NoneForgotten
PROPERTIES QueueDrains
