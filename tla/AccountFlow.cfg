\* Two flows for one address; two messages are lost or rejected.
SPECIFICATION FairSpec
CONSTANTS
    f1 = f1
    f2 = f2
    right = right
    wrong = wrong
    None = None
    Flow <- MCFlow
    Password <- MCPassword
    Cooldown = 2
    Budget = 2
INVARIANTS
    TypeOK
    SavedWorks
    OneEntry
PROPERTIES
    RegistersOnce
    SendsApart
    Finishes
