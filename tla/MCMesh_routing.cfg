CONSTANTS
  a = a  b = b  c = c  x = x
  Node = {a, b, c}
  Addr <- MCAddr  Zero = x
  HostUpdate <- LineUpdates
  Nbr <- LineNbr
  NoRoute = NoRoute
  Broadcast = Broadcast
  Msg = {}
  MaxRoutes = 3 SeqMod = 8 MetricMod = 8 StaleAge = 0
  MaxQueue = 1 MaxDead = 1 TtlDefault = 3 FloodAge = 0 RetryAge = 1 MaxRetries = 2
  RreqAge = 1 RreqRetries = 2 InboxCap = 1 MaxSeqno <- LineSeqno
  MayRestart = {a}
SPECIFICATION Spec
INVARIANTS TypeOK UniqueRoutes NoSelfRoute NextHopHeard SeqnoSound MetricSound
