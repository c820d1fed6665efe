\* A button pressed while the coordinator polls.
SPECIFICATION DirectSpec
CONSTANTS
    c1 = c1
    c2 = c2
    t1 = t1
    b1 = b1
    temp = temp
    display = display
    lo = lo
    hi = hi
    Unset = Unset
    NoTask = NoTask
    Attr = {temp, display}
    Value = {lo, hi}
    Display = display
    On = hi
    Budget <- OnePush
    Script <- OneChange
    Cmd = {c1}
    Toggler = {}
    Presser = {b1}
INVARIANT
    NoCompetingReaders
