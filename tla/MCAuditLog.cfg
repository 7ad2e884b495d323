\* one page visited or blocked, three entries kept, troubles of every kind
CONSTANTS
    Keys <- MCKeys
    MaxEntries = 3
    Retention = 3
    Window = 2
    MaxTime = 5
    MaxAdds = 5
    MaxTrouble = 3
SPECIFICATION AuditSpec
INVARIANTS OneEntryPerId RecordedUnlessRecent LossBounded FileFollowsMemory PagesPartition
CHECK_DEADLOCK FALSE
