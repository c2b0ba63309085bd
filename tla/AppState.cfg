SPECIFICATION AFairSpec
CONSTANTS
    Root = TRUE
    Users = {"net", "root"}
    Groups = {"staff"}
    Uuids = {"49dac291"}
    BadPatterns = {"["}
    Existing = {}
    ShortRange = 65536
    UIntRange = 1000000
    Options <- ServiceOptions
    FileValues <- ServiceFile
    Home = "home"
    MaxOptions = 3
    MaxEdits = 2
    MaxReloads = 2
    Faults = TRUE
CHECK_DEADLOCK FALSE
INVARIANTS SettingsHaveASource UnchangedReload UnnamedIsUnprivileged SettingsInEffect
PROPERTIES LauncherEnds
