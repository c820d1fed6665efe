\* The same, asking what the Wi-Fi store ends up with.
SPECIFICATION Spec
CONSTANTS
    None = None
    Account = {s1, s2, n1}
    Smart = {s1, s2}
    Wifi = {home, typo}
    Good = {home}
    Budget <- TwoFaults
PROPERTY
    SavedIsUsed
