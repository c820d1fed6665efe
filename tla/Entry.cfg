\* An AC's first layout and a CC's; two changes, one crash, one failed set-up.
SPECIFICATION EntryFair
CONSTANTS
    s1 = s1
    s2 = s2
    s3 = s3
    energy = energy
    group2 = group2
    Entity = {s1, s2, s3}
    Group = {energy, group2}
    GroupOf <- OneEach
    Supported = {energy}
    Stored <- SomeStored
    Choices <- SomeChoices
    Devices <- SomeDevices
    Reports <- SomeReports
    Speeds <- SomeSpeeds
    Numbers = {"87"}
    Crashes = 1
    Changes = 2
    Failures = 1
INVARIANTS
    RequestsFollowEntities
    EntryTypeOK
    MeaningKept
    SettingsInEffect
    CommandsShow
PROPERTIES
    ChangesTakeEffect
CHECK_DEADLOCK FALSE
