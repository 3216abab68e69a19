CONSTANTS
  a = a  b = b  c = c  x = x
  Node = {a, b, c}
  Addr <- MCAddr  Zero = x
  HostUpdate <- OwnUpdates
  Nbr <- LineNbr
  NoRoute = NoRoute
  Broadcast = Broadcast
  Msg <- LineMsg
  MaxRoutes = 2 SeqMod = 4 MetricMod = 4 StaleAge = 2
  MaxQueue = 1 MaxDead = 1 TtlDefault = 3 FloodAge = 0 RetryAge = 1 MaxRetries = 1
  RreqAge = 0 RreqRetries = 0 InboxCap = 1 MaxSeqno <- LineSeqno
  MayRestart = {}
SPECIFICATION Spec
INVARIANTS DeliveredToAddressee
