\* Two entries in two directories, files that fill the compressor's buffer
\* exactly, and files that grow when they are packed.
CONSTANTS
  Dirs = {"/", "/js/"}
  Bases = {"index"}
  Extensions = {"html", "dat"}
  Chunk = 1
  MaxEntries = 2
  MaxSize = 3
  MaxPacked = 3
SPECIFICATION Spec
INVARIANTS
  RoomInBuffer
  AnswersMatchDisk
CHECK_DEADLOCK FALSE
