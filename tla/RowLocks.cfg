\* Row locks of three concurrent requests, and PostgreSQL's victims.
CONSTANTS
    v1 = v1
    v2 = v2
    Sessions = {1, 2, 3}
    Vehicles = {v1, v2}
    Resettable = {v1, v2}
    SegmentOrder <- MCOrder
    Orders <- MCOrders
    Trips <- MCTrips
    MaxArrivals = 3
SPECIFICATION FairLocks
INVARIANTS CirclesNeedTwoSweeps NoStandstill
PROPERTY RequestsEnd
CHECK_DEADLOCK FALSE
