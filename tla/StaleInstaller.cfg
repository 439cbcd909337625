CONSTANTS
  p = p
  q = q
  Procs <- Both
  Versions <- Three
  First = 1
  Dirs = {d1, d2}
  NoDir = NoDir
  Installers <- Yes
  Kinds = {"Manual"}
  Scenes <- StaleScenes
SPECIFICATION Spec
PROPERTY InstallsAboveEverRun
CHECK_DEADLOCK FALSE
