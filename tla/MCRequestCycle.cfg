SPECIFICATION Spec
CONSTANT Apps <- MCApps
INVARIANTS
  Surfacing
  ErrorHandlerTold
PROPERTY KeepsAsgi
