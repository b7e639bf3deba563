SPECIFICATION FairSpec
CONSTANTS
  u1 = u1
  u2 = u2
  u3 = u3
  u4 = u4
  r1 = r1
  r2 = r2
  r3 = r3
  w1 = w1
  Uploads = {u1, u2, u3, u4}
  Rows = {r1, r2, r3}
  FileOf <- Files
  Readable = {u1, u2, u3, u4}
  Anonymous = {r2}
  Ragged = {r3}
  CellsOf <- Cells
  Messages = {w1}
  Threshold = 2
  MaxRows = 3
  MaxTries = 2
  None = None
INVARIANTS Types AnswerCoversFile BatchAccounted RefusedWritesNothing SlipsAreKept ReuploadAgrees
PROPERTIES EveryUploadEnds
CHECK_DEADLOCK FALSE
