SPECIFICATION Spec
CONSTANTS
  TicksPerSixteenth = 2
  TotalBars = 2
  FinestLength = 5
  MaxTop = 2
  InitialSignature <- MCSignature
  InitialLength = 4
  MinZoom = 1
  MaxZoom = 2
  DefaultZoom = 2
  Pixels = {0, 5}
  Steps <- MCSteps
  MaxEdits = 2
  Tracks <- MCTracks
  Channels <- MCChannels
  Offsets <- MCOffsets
  Projects <- MCProjects
  Garbage <- MCGarbage
  MaxPoints = 3
  MaxRegions = 2
  MaxChords = 1
  MaxTicks = 20
INVARIANTS TypeOK   DraggedEndBehindStart
 
CHECK_DEADLOCK FALSE
