SPECIFICATION Spec
CONSTANTS
  Threads = {t1}
  Lines <- FourLines
  MaxWrites = 0
  NoFile = NoFile
PROPERTY
  PausedTemporarily
