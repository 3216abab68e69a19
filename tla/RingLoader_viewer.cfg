CONSTANTS Frame = {1} MaxCalls = 3 MaxLoops = 2
SPECIFICATION FairSpec
CHECK_DEADLOCK FALSE
INVARIANTS TypeOK NeverDeaf OnlyEventsLeak
PROPERTY FallsBack
