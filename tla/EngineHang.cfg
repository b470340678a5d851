\* One channel with a plugin: does every cycle end?
SPECIFICATION FairSpec
CONSTANTS
  A = A
  B = B
  N = N
  Channels = {A}
  StripSize = 1
  InitialChannels <- MCOnlyA
  InitialSources <- MCNoSources
  InitialStrip <- MCPluginInA
  Buses = {}
  Editable = {}
  Removable = {}
  ExportBlocks = 0
PROPERTIES
  CycleCompletes
CHECK_DEADLOCK FALSE
