\* The send queue of one board: four jobs, every interleaving of submitters,
\* stoppers and drain threads.
SPECIFICATION FairSpec
CONSTANTS
    Jobs = {j1, j2, j3, j4}
    None = None
INVARIANTS OneDrainThread NoJobStranded ToldOnce
PROPERTIES KeepsPromise EveryJobSettles
