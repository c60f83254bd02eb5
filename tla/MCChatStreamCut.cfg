SPECIFICATION Spec
CONSTANTS
    Timeout = 2
    MaxLines = 3
    MaxBeats = 0
PROPERTIES
    CutOnlyWhenSilent
