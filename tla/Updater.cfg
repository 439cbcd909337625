CONSTANTS
  p = p
  q = q
  Procs <- Both
  Versions <- Three
  First = 1
  Dirs = {d1, d2}
  NoDir = NoDir
  Installers <- Either
  Kinds = {"Manual", "Auto"}
  Scenes <- AllScenes
SPECIFICATION FairSpec
INVARIANTS ReadyHasArtifact SaysWhatIsInstalled
PROPERTIES SwapIsNewer RestartOnlyWhenAsked FoundUpdateAnnounced NoStagingLeak Settles
CHECK_DEADLOCK FALSE
