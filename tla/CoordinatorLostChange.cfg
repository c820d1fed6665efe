\* Two entities changed at the same time.
SPECIFICATION Spec
CONSTANTS
    c1 = c1
    c2 = c2
    temp = temp
    mode = mode
    lo = lo
    hi = hi
    Unset = Unset
    NoTask = NoTask
    Attr = {temp, mode}
    Value = {lo, hi}
    Cmd = {c1, c2}
    Script <- TwoCalls
    Budget <- OneOfEach
INVARIANT
    NoLostChange
