SPECIFICATION LoopSpec
CONSTANTS
    Files <- OneFile
    NewFiles <- OneFile
    Texts <- OneText
    Profiles <- OneProfile
    MaxOutside = 1
    Modes <- MostModes
    MaxCalls = 3
    MaxRetry = 1
    MaxRepeats = 1
    MaxUnknown = 2
    MaxPatches = 1
    MaxOver = 0
    Default = "debug"
INVARIANTS
    VerifiedIsCurrent
    VerifiedResultIsBound
PROPERTIES
    EscalationRestores
    TaskEnds
