\* One board driven by the engine alone: messages held during a silence window, also before
\* a pass has noticed it, and a restart.
SPECIFICATION FairSpec
CONSTANTS
    Callers = {tick}
    Tick = tick
    Pages = {p}
    Messages = {m, n}
    Modes = {"notice"}
    Outcomes <- Prompt
    EarlyHolds = TRUE
    Windows = 1
    Restarts = 1
    None = None
    Snoozing = Snoozing
    Between = Between
    Residue = Residue
INVARIANTS CacheTruth
PROPERTIES HeldNotLost HeldReachesBoard
