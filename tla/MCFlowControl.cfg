SPECIFICATION Spec
CONSTANTS
  bufsz = 2
  Overfull = 4
  netcmd_minsz = 1
  netcmd_payload_limit = 6
  Extra = 1
  Wire = 3
  Workload <- MCWorkload
INVARIANTS FramesIntact BuffersBounded StallHasCause
PROPERTIES EverythingArrives
CHECK_DEADLOCK FALSE
