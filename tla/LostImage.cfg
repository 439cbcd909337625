CONSTANTS
  Ids = {0, 1, 2}
  ImagesMax = 2
  BytesMax = 4
  StoreMax = 2
  ChunksMax = 2
  PayloadMax = 3
  MaxGone = 3
  Scenes <- BareScenes
SPECIFICATION Spec

PROPERTIES ImagesArrive
CHECK_DEADLOCK FALSE
