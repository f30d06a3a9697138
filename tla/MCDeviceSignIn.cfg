SPECIFICATION Spec
CONSTANTS
  Codes = {c1}
  Sessions = {s1, s2, s3}
  Clock = 3
  Asked = 2
  Nobody = Nobody
SYMMETRY Symmetry
INVARIANTS TypeOK SignedOut
PROPERTIES Honoured
