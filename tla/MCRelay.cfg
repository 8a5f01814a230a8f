SPECIFICATION FairSpec
CONSTANTS
  MaxRetries = 2
  Retried <- DefaultRetried
  MaxBody = 2
  MaxChunks = 1
  MaxFrames = 2
INVARIANTS OneResponse RequestWhole ToldTheEnd
PROPERTY Finishes
