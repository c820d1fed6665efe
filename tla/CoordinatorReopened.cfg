\* A set-temperature with a mode, running on after the entry was unloaded.
SPECIFICATION Spec
CONSTANTS
    c1 = c1
    c2 = c2
    temp = temp
    mode = mode
    lo = lo
    hi = hi
    Unset = Unset
    NoTask = NoTask
    Attr = {temp, mode}
    Value = {lo, hi}
    Cmd = {c1}
    Script <- TwoSteps
    Budget <- OneOfEach
INVARIANT
    ClosedAfterShutdown
