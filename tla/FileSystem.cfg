SPECIFICATION FsSpec
CONSTANTS
  NoName = NoName
  Name = {f, g, h}
  NumSectors = 10
  SectorSize = 2
  NumDirect = 2
  NumDirEntries = 3
  FirstSector = {1}
  Straddling = {2}
  Sizes = {1, 3}
  Byte = {1}
SYMMETRY Symmetry
INVARIANTS
  FilesSound
PROPERTY
  OnlyOwnBytes
\* After a crash every name may be one that is left alone.
CHECK_DEADLOCK FALSE
