SPECIFICATION FairSpec
CONSTANTS
  p = p
  q = q
  Day = 2
  Week = 1
  Size = 2
  Pages = {p, q}
  Open = Open
  Nothing = Nothing
  Gap = Gap
  Plans <- TwoPlans
  Default = Nothing
  First = p
  RevertPage = p
  Reverts = {"page"}
PROPERTIES OverrideWins
