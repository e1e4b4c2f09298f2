SPECIFICATION Spec
CONSTANTS
  OtherCharacters = {"x"}
  RawBuffer = 11
  PartBuffer = 4
  LabelBuffer = 10
  DateDigits = 1
  SerialDigits = {1, 2}
  MaxKeys = 11
INVARIANTS
  LabelCarriesWholePart
