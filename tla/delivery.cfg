SPECIFICATION FairSpec
CONSTANTS
    Sends = {s1}
    Updates = {u1}
    Writes = {b1}
    Workers = {w1, w2}
    NoItem = NoItem
    MaxAttempts = 3
    MaxFaults = 1
    MaxRotations = 2
    MaxForgets = 1
INVARIANTS DuplicatesExplained MapNamesARecord SettledIsEarned
PROPERTIES FirstRecordKept DeliveredDespiteFaults
CHECK_DEADLOCK FALSE
