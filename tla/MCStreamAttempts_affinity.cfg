SPECIFICATION FairSpec
CONSTANTS
    MaxAttempts = 2
    ProbeLimit = 2
    MaxEvents = 3
PROPERTIES
    FailedTerminalNeverBinds
