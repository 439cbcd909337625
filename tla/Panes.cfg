CONSTANTS
  MAX_PANES = 3
  MaxId = 4
  Blobs <- SomeBlobs
  Scenes <- AllScenes
SPECIFICATION Spec
INVARIANTS SessionsMatchPanes
PROPERTIES TypedIsShown KeepsDesk
