\* The engine and an API caller drive one board at the same time.
SPECIFICATION FairSpec
CONSTANTS
    Callers = {tick, api}
    Tick = tick
    Pages = {p, q}
    Messages = {}
    Modes = {"notice"}
    Outcomes <- Prompt
    EarlyHolds = FALSE
    Windows = 0
    Restarts = 0
    None = None
    Snoozing = Snoozing
    Between = Between
    Residue = Residue
INVARIANTS CacheTruth
PROPERTIES WaitersAnswered
