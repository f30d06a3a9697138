\* One board driven by the engine alone: a page, two silence windows in any mode, writes
\* that outlive their budget.
SPECIFICATION FairSpec
CONSTANTS
    Callers = {tick}
    Tick = tick
    Pages = {p}
    Messages = {}
    Modes = {"notice", "fallback", "freeze"}
    Outcomes <- Honest
    EarlyHolds = FALSE
    Windows = 2
    Restarts = 0
    None = None
    Snoozing = Snoozing
    Between = Between
    Residue = Residue
INVARIANTS TypeOK SnoozingShown
PROPERTIES NoDuplicateSend PageReachesBoard SilenceReachesBoard
