\* Two entries, one of which moves; refreshes and set-ups overlap.
SPECIFICATION FairSpec
CONSTANTS
    Entry = {e1, e2}
    Host = {h1, h2, h3}
    None = None
    Interval = 2
    Budget <- OneOfEach
INVARIANTS
    TypeOK
    UpdateReloads
PROPERTIES
    UserKept
    ScanLimited
    Reconnects
