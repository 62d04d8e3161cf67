SPECIFICATION Spec
CONSTANTS
  Images = {"v1", "v2"}
  Directory <- MCDirectory
  Output <- MCOutput
  MaxNest = 4
  MaxOpen = 6
  BlockWords = 16
  SectorBlocks = 2
  DiskBlocks = 3
  Conns = {"p1", "up"}
  Uploaders = {"up"}
  Asks <- MCAsks
  Protected = {"/fsupload"}
  FormLen = 9
  Rooms = {2, 3}
  Window = 2
PROPERTIES NotReadWhileLocked
