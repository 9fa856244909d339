SPECIFICATION Spec
CONSTANTS
    m1 = m1
    m2 = m2
    m3 = m3
    Message = {m1, m2, m3}
    NoMessage = NoMessage
INVARIANT QueueStaysEligible
PROPERTY EveryMessageIsDecided
