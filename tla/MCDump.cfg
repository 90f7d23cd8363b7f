SPECIFICATION Spec
CONSTANTS
  Threads = {t1, t2}
  Lines <- FourLines
  MaxWrites = 1
  NoFile = NoFile
INVARIANTS
  TypeOK
  PictureOfOneMoment
  NothingLost
  CopiesOnlyItsOwn
  NotLeftStopped
  StreamLoads
PROPERTY
  Ends
