\* A channel A with a plugin, a bus B that it feeds and a channel N created in
\* the session; exports, slot drops, and A removed while the engine runs.
SPECIFICATION Spec
CONSTANTS
  A = A
  B = B
  N = N
  Channels = {A, B, N}
  StripSize = 1
  InitialChannels <- MCSourceFirst
  InitialSources <- MCSources
  InitialStrip <- MCPluginInA
  Buses = {B}
  Editable = {A}
  Removable = {A}
  ExportBlocks = 1
INVARIANTS
  TypeOK
  LockExclusion
  
  

  
CHECK_DEADLOCK FALSE
