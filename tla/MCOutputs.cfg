SPECIFICATION FairSpec
CONSTANTS
    None = None
    Mixed = Mixed
    worker = worker
    direct = direct
    route = route
    board = board
    own = own
    Senders = {worker, direct, route}
    Runtimes = {board, own}
    Via <- Shared
    Frames = {f1, f2}
    Endings = {"landed", "partial", "failed", "slowdown", "superseded"}
    Floor = 2
    Delays = {0, 3}
    Threshold = 2
    Cooldown = 2
    Sends = 3
    Clock = 3
INVARIANTS TypeOK NeverAnotherFrame FlagsAreLast Spacing NoPhantomWindow
PROPERTIES EveryoneAnswered
