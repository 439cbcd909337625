CONSTANTS
  KITTY_APC_MAX_BYTES = 2
  PTY_RESPONSE_MAX = 1
  READ_BUF = 8
  InCap = 1
  Scenes <- AllScenes
SPECIFICATION FairSpec
INVARIANTS NoLostWake SizesSettle ChunksInvisible
PROPERTIES NobodyStuck ShowsAll
