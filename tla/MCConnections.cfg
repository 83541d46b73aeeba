SPECIFICATION Spec
CONSTANTS
  Connections = {c1, c2, c3}
  Descriptors = {1, 2, 3}
  BufRoom = 1
  Settings <- MCSettings
SYMMETRY Alike
INVARIANTS AnswersInOrder NothingIsForgotten RegistriesAgree
CHECK_DEADLOCK FALSE
