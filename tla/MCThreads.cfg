CONSTANTS
    w1 = w1
    w2 = w2
    w3 = w3
    i1 = i1
    i2 = i2
    i3 = i3
    Main = Main
    None = None
    Objs <- MCObjs
    Ids <- MCIds
    Programs <- Sound
SPECIFICATION FairSpec
INVARIANTS
    EndedCountExact
    NoLostWakeup
    NoUseAfterDelete
    DeletedOnce
    CurrentFindsSelf
    JoinedHaveEnded
PROPERTIES
    JoinReturns
    Lifecycle
