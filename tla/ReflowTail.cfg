CONSTANTS
  letter = letter
  other = other
  wide = wide
  Glyphs = {letter, other, wide}
  Blank = Blank
  Wide = {wide}
  TabInterval = 2
  MaxMarks = 1
  Anchors = {}
  Scenes <- ReturnScenes
SPECIFICATION Spec
PROPERTY ReflowLosesNothing
CHECK_DEADLOCK FALSE
