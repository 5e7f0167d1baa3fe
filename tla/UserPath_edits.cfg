SPECIFICATION PathSpec
CONSTANTS
  a1 = a1  a2 = a2  old = old  new = new
  Assist = {a1, a2}
  Route = {old, new}
  Foreign = Foreign  Empty = Empty
  Absent = Absent  NotText = NotText
  NoRecord = NoRecord  Garbage = Garbage
  MaxRequests = 2
  MaxTroubles = 2
SYMMETRY Alike
CHECK_DEADLOCK FALSE
INVARIANTS AnswersTrue
PROPERTIES ForeignKept DeletedOnProof
