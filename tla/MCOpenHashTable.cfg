\* Four words in four slots (the table may be full), doubled once.
CONSTANTS
  Words = {"ant", "bee", "cat", "dog"}
  NoWord = NoWord
  Absent = Absent
  Vals = {1}
  Hash <- MCHash
  Stored <- ShortStored
  InitSize = 4
  MaxSize = 8
  MaxVal = 2
SPECIFICATION Spec
INVARIANTS
  TypeOK
  NoGapBeforeKey
PROPERTIES
  CountsWords
  EveryCallReturns
