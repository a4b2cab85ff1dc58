SPECIFICATION SpecWithThreadFailures
CONSTANTS
    Groups <- MCGroups
    Shards <- MCShards
    GroupOf <- MCGroupOf
    g1 = g1
    g2 = g2
    g3 = g3
    a = a
    b = b
    c = c
    d = d
    e = e
    f = f
    None = None
PROPERTY
    LaunchTouchesLiveShards
CHECK_DEADLOCK FALSE
