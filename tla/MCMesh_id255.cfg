CONSTANTS
  a = a  b = b  c = c  x = x
  Node = {a, b}
  Addr <- MCAddr  Zero = x
  HostUpdate <- OwnUpdates
  Nbr <- PairNbr
  NoRoute = NoRoute
  Broadcast = b
  Msg <- LastMsg
  MaxRoutes = 2 SeqMod = 4 MetricMod = 4 StaleAge = 0
  MaxQueue = 2 MaxDead = 1 TtlDefault = 3 FloodAge = 0 RetryAge = 1 MaxRetries = 2
  RreqAge = 0 RreqRetries = 0 InboxCap = 1 MaxSeqno <- PairSeqno
  MayRestart = {a}
SPECIFICATION Spec
INVARIANTS UniqueRoutes NoSelfRoute NoneForgotten
