\* Two SmartHome accounts and one NetHome account, one right and one wrong password.
SPECIFICATION FairSpec
CONSTANTS
    None = None
    Account = {s1, s2, n1}
    Smart = {s1, s2}
    Wifi = {home, typo}
    Good = {home}
    Budget <- TwoFaults
INVARIANTS
    TypeOK
    BoundOwned
PROPERTIES
    NoResend
    NoRebind
    ConfirmOnce
    RetryFinishes
    OncePerPairing
