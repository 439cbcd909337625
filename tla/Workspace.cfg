SPECIFICATION FairSpec
CONSTANTS
  None = None
  MAX_PANES = 4
  MIN_CELL = 24
  GUTTER = 1
  Shells = {1, 2, 3, 4, 5}
  MaxTabs = 2
  MaxNested = 2
  Scenes <- MCScenes
  SceneNames = {"resize", "swap", "shells", "presets", "files", "faults", "corrupt", "drag"}
INVARIANTS PanesAndShellsAgree ArrowsReachEveryPane MovedPaneIsBeside SavedIsSeen
PROPERTIES ShellsKept DeadShellsLeave
