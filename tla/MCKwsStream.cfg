CONSTANTS
    Sizes <- MCSizes
    Files <- MCFiles
    MaxInput = 9
    MaxFed = 16
    NumChannels = 2
    NormSize = 4
    Scale = 4
    MaxSample = 16
    Space = Space
    NoText = NoText
    SlideWindow = 6
    Multiplier = 4
    MaxSessions = 2
    Faults = {"init", "send", "infer"}
SPECIFICATION Spec
CHECK_DEADLOCK FALSE
INVARIANTS WindowsFollowStream SlideWindowRight
