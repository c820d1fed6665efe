\* One entry, whose refresh may overlap its set-up.
SPECIFICATION Spec
CONSTANTS
    Entry = {e1}
    Host = {h1, h2, h3}
    None = None
    Interval = 2
    Budget <- OneOfEach
INVARIANTS
    UpdateHeard
