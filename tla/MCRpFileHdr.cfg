SPECIFICATION Spec
CONSTANTS
  MaxFrames = 4
  MaxCounter = 5
  MaxFiles = 2
INVARIANTS AckedSurvives NamedFrameDurable
PROPERTIES ImplementsHeaderStore
