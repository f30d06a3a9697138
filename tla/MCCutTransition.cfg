\* Transitions run frame by frame, and cancelled by newer sends.
SPECIFICATION FairSpec
CONSTANTS
    Callers = {tick}
    Tick = tick
    Pages = {p, q}
    Messages = {}
    Modes = {"notice"}
    Outcomes <- Streaming
    EarlyHolds = FALSE
    Windows = 0
    Restarts = 0
    None = None
    Snoozing = Snoozing
    Between = Between
    Residue = Residue
PROPERTIES PageReachesBoard
