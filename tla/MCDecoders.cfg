SPECIFICATION DecodeSpec
CONSTANTS
  Given <- SmallGiven
  WordSize = 256
  DigitBase = 8
  SignedHigh = 2
  Byte = 8
  Unset = 9
INVARIANTS
  ShownRight
  LinesRight
