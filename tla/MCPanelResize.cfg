SPECIFICATION Spec
CONSTANTS
  PageCopies = {p1, p2}
  CollectionCopies = {c1}
  Entries = {e1}
  MaxFaults = 3
  Editable = {"default", "geometry", "panel"}
INVARIANTS
  TypeOK
  AllOrNothing
  NoDangling
  RefusesOnlyEdits
PROPERTIES
  Recovers
  KeepsPromise
