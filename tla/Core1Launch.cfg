SPECIFICATION Spec
CONSTANTS
  FifoDepth = 4
  StaleAnswers = 4
  StaleCommands = 4
INVARIANTS
  TypeOK
  StartsImage
  NothingLeft
PROPERTIES
  Launches
