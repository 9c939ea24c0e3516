SPECIFICATION MCSpec
CONSTANTS
  Receipts = {r1, r2}
  Players = {u1, u2}
  MaxRows = 1
  None = None
  MaxInbox = 2
  MaxQueue = 2
  MaxFaults = 1
  QueueMax = 2
  BatchMax = 1
  ApiMaxBatch = 1
  MaxSamples = 3
  MaxBoots = 2
  MaxRestarts = 1
  LinesMax = 2
  MaxErrors = 3
  MaxLogBoots = 2
  MaxStarts = 1
SYMMETRY Copies
CHECK_DEADLOCK FALSE
INVARIANTS
  PaidOnce
  OutboxTellsRows
  NoHole
  TelemetryArrives
  PointShowsTheTruth
PROPERTY
  OverseerIsFair
