SPECIFICATION Spec
CONSTANTS
  engine = engine
  preview = preview
  weather = weather
  stuck = stuck
  Keys = {weather, stuck}
  Wedged = {stuck}
  Builders = {engine, preview}
  Needs <- BothNeed
  Workers = 1
  LostLimit = 1
  Threshold = 2
  F <- Three
INVARIANTS OneFetchPerKey CapacityReserved
PROPERTY HealthyServed
