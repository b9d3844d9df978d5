\* A ring of three slots, six elements: the indices wrap around, the channel
\* fills and empties, and the poison comes at every possible moment.
SPECIFICATION FairSpec
CONSTANTS
    Capacity = 2
    SendAmount = 6
    Values = {v1, v2}
    Garbage = Garbage
INVARIANTS TypeOK NoMissedWakeup SlotExclusion ChannelInv
PROPERTIES FifoSpec AllDelivered
