SPECIFICATION Spec
CONSTANTS
  DefaultLook = a
  None = None
  Looks = {a, b}
  Languages = {"ko", "en"}
  Values = {}
  Sources = {s1}
INVARIANTS
  AnimatesAsConfigured
  PreviewEnds
  TextsFollowLanguage
