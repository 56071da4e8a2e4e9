SPECIFICATION Spec
CONSTANTS
    Updates <- MCUpdates
    Configs <- MCConfigs
    Modes = {"m1", "m2"}
    Titles = {"user's"}
    PageLimit = 2
    MaxInputs = 2
    MaxLoads = 2
INVARIANT TypeOK
INVARIANT TranscriptWhole
INVARIANT ToolShown
INVARIANT SettingsAgree
CHECK_DEADLOCK FALSE
