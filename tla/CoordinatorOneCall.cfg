\* One service call of two applies beside polling, reports and the unload.
SPECIFICATION FairSpec
CONSTANTS
    c1 = c1
    c2 = c2
    temp = temp
    mode = mode
    lo = lo
    hi = hi
    Unset = Unset
    NoTask = NoTask
    Attr = {temp, mode}
    Value = {lo, hi}
    Cmd = {c1}
    Script <- TwoSteps
    Budget <- OneOfEach
INVARIANTS
    TypeOK
    LanExclusive
    WaitersQueued
    NoLostWakeup
PROPERTIES
    CallsReturn
    ShutdownCompletes
    Converges
