SPECIFICATION Spec
CONSTANTS
    Configurations = {c0, c1}
    Default = c0
    None = None
    WifiAvailable = TRUE
    MaxCalls = 5
    MaxKills = 2
INVARIANTS
    RunningMeansOneListener
    ConfigurationSurvives
CHECK_DEADLOCK FALSE
