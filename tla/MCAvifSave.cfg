SPECIFICATION Spec
CONSTANTS
    WorstQuality = 1
    Codecs = {"svt"}
    CallImages <- MCCallImages
    ScriptConfigs <- MCScriptConfigs
    MaxRuns = 3
    MaxEdits = 1
INVARIANTS
    SessionTypeOK
    CopiesDeleted
    OriginalKept
    LastValuesInOrder
    OnlyScriptsAbort
    OnlyWhatWasAsked
    ChoiceInstalled
PROPERTY CallsReturn
