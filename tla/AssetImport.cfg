SPECIFICATION Spec
CONSTANTS
  Source <- MCSource
  Buffer = 60
  MaxRequests = 2
  MaxLoads = 1
  MaxFaults = 1
INVARIANTS FilesReadWhole SuccessIsReadable
CHECK_DEADLOCK FALSE
