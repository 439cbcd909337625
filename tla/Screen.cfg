CONSTANTS
  letter = letter
  other = other
  wide = wide
  Glyphs = {letter, other, wide}
  Blank = Blank
  Wide = {wide}
  TabInterval = 2
  MaxMarks = 2
  Anchors = {m1, m2, m3}
  Scenes <- AllScenes
SPECIFICATION Spec
SYMMETRY AnchorSymmetry
INVARIANTS TypeOK AnchorsHold CacheCoherent IndicesFit
PROPERTIES NoMarkForgotten JumpLandsOnPrompt SelectionFollows AltKeepsScrollback ReflowKeepsText
CHECK_DEADLOCK FALSE
