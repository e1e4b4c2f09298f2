SPECIFICATION Spec
CONSTANTS
  OtherCharacters = {"x", "@"}
  RawBuffer = 8
  PartBuffer = 4
  LabelBuffer = 10
  DateDigits = 1
  SerialDigits = {1, 2}
  MaxKeys = 8
INVARIANT
  AlternateFormatAccepted
