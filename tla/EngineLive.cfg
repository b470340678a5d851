\* Progress of an engine whose channels hold no plugin.
SPECIFICATION FairSpec
CONSTANTS
  A = A
  B = B
  N = N
  Channels = {A, B}
  StripSize = 1
  InitialChannels <- MCBusFirst
  InitialSources <- MCSources
  InitialStrip = {}
  Buses = {B}
  Editable = {}
  Removable = {}
  ExportBlocks = 1
PROPERTIES
  CycleCompletes
  ExportCompletes
