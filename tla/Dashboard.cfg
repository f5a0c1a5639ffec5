\* The API with its log, its pools and a browser: boots, faults and feeds.
CONSTANTS
    Threads = {r, tick}
    Ticker = tick
    MaxEntries = 3
    MaxRequests = 2
    MaxFaults = 1
    MaxCommits = 1
    SafePasswords = {TRUE, FALSE}
    Limit = 2
    Slots = {1}
    Nothing = Nothing
SPECIFICATION FairSpec
INVARIANTS
    TypeOK
    OnePool
    LabKeepsReading
    CountedOnce
PROPERTIES
    ServesAgain
    LogCatchesUp
    MapCatchesUp
