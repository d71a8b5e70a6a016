\* Every pair of bounds of a 6-bit duration; small inventories in any order; layered settings.
CONSTANTS
    Width = 6
    Jitter = 20
    t1 = t1
    t2 = t2
    PageTokens <- MCPageTokens
    FirstPage = FirstPage
    Inventories <- MCInventories
    Wanted <- MCWanted
    Unset = Unset
    Cases <- MCCases
SPECIFICATION AlgorithmsSpec
CHECK_DEADLOCK FALSE
INVARIANTS
    BackoffsDouble
    AsInventoried
    AcceptedIsUsable
PROPERTIES
    DiscoveryEnds
