CONSTANTS
  letter = letter
  other = other
  wide = wide
  Glyphs = {letter, other, wide}
  Blank = Blank
  Wide = {wide}
  TabInterval = 2
  MaxMarks = 2
  Anchors = {}
  Scenes <- AltScenes
SPECIFICATION Spec
INVARIANT GridFitsWindow
CHECK_DEADLOCK FALSE
