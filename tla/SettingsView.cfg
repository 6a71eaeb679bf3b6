SPECIFICATION Spec
CONSTANTS
  Selections = {s1, s2}
  First = s1
  MaxReviews = 2
  RequiresOutgoing = TRUE
  Unset = Unset
  None = None
INVARIANTS
  AppliedAsReviewed
  ReviewMatchesForm
  I2pPaired
PROPERTIES
  ControlsReturn
