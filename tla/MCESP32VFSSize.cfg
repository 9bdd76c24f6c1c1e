CONSTANTS
  Byte = {b1, b2}
  Absent = Absent
  NoWrite = NoWrite
  BUFFERSZ = 2
  Headers = {0, 2}
  MaxSize = 3
  MaxRead = 2
  MaxFaults = 1
SPECIFICATION VfsSpec
SYMMETRY Values
INVARIANTS
  SizeIsWritten
