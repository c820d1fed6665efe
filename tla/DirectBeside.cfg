\* Two calls of one change each beside a display toggle and a button press.
SPECIFICATION DirectSpec
CONSTANTS
    c1 = c1
    c2 = c2
    t1 = t1
    b1 = b1
    temp = temp
    display = display
    lo = lo
    hi = hi
    Unset = Unset
    NoTask = NoTask
    Attr = {temp, display}
    Value = {lo, hi}
    Display = display
    On = hi
    Budget <- OnePush
    Script <- TwoCalls
    Cmd = {c1, c2}
    Toggler = {t1}
    Presser = {b1}
INVARIANT
    PendingKept
PROPERTY
    ClosedUnlessDirect
