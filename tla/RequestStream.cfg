SPECIFICATION Spec
CONSTANTS
  MAX_BUFFER_SIZE = 14
  MaxSegment = 12
  HeaderLength = 5
  LineBuffer = 4
  Characters <- SomeCharacters
  Contents <- SomeContents
  Texts <- AllTexts
  Window = 2
  MaxRequests = 3
INVARIANTS
  TypeOK
  CutOnlyWhenCrowded
  ReadsLastLine
PROPERTIES
  AllAnswered
CHECK_DEADLOCK FALSE
