CONSTANTS
  MAX_REDIRECTS = 4
  VALID_DAYS = 14
  Scenes <- AllScenes
SPECIFICATION FairSpec
INVARIANTS StagedWasOffered HonestUpdateArrives
PROPERTIES WorkerEnds
