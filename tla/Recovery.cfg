CONSTANTS
  Modes <- AllModes
  RequestLines = 3
  ErrorLines <- Quoted
SPECIFICATION Spec
INVARIANTS TypeOK RequestsBounded DoneIsComplete NoSpuriousFailure
PROPERTIES NoRequestAfterFatal Terminates
