SPECIFICATION FairSpec
CONSTANTS
    Obs = {o1, o2}
    Pusher = {p1, p2}
    Limit = 2
    MaxSequence = 3
INVARIANTS TypeOK AckedIsStored OnlyOwnedPushed OneOutstandingBatch JournalOrder
PROPERTIES BatchSettlesWhole ImplementsDelivery EventuallySettled
