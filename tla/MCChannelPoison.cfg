\* The smallest channel: one element, and a producer that finds it full while
\* the channel is being poisoned.
SPECIFICATION FairSpec
CONSTANTS
    Capacity = 1
    SendAmount = 2
    Values = {v1}
    Garbage = Garbage
PROPERTY PoisonReleasesProducer
