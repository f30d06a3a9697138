SPECIFICATION Spec
CONSTANTS
  Configs = {plain, resized}
  Gone = Gone
  Editors = {edit}
  Poll = Poll
  Callers = {tick, api}
  Tick = tick
  Runtimes = {r1, r2}
  Failed = Failed
  None = None
INVARIANTS TypeOK RegistryFollows
PROPERTIES NeverThroughOld BoardServed
