CONSTANTS
  t1 = t1
  t2 = t2
  writer = writer
  reader = reader
  Tasks = {t1}
  Handles = {reader, writer}
  Readable = {reader}
  Writable = {writer}
  MaxSize = 1
  SeekOffsets <- BackAndForth
SPECIFICATION Spec
INVARIANTS
  SizeIsLength
