CONSTANTS
  Chunks = 2 TxPolls = 2 RxPolls = 2 MaxCalls = 2 MaxHeard = 2
SPECIFICATION FairSpec
INVARIANTS TypeOK PinsFollow ReturnIsTrue FreshIfSignalled
PROPERTIES Returns
