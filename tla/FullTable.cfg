\* More words than slots, and nobody calls rebuild(), as in main().
CONSTANTS
  Words = {"ant", "bee", "cat", "dog"}
  NoWord = NoWord
  Absent = Absent
  Vals = {1}
  Hash <- MCHash
  Stored <- ShortStored
  InitSize = 2
  MaxSize = 2
  MaxVal = 2
SPECIFICATION Spec
PROPERTIES
  EveryCallReturns
