SPECIFICATION Spec
CONSTANTS
  Files <- MCFiles
  MaxErrors = 1
  MaxShort = 1
  ChunkSize = 7
  LengthAt = 4
  IntMax = 24
  InbufSize = 2
INVARIANTS EntriesListed TextConverted ChecksumRight
