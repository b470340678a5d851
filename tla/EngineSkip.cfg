\* One channel without plugins: is it in every mix?
SPECIFICATION Spec
CONSTANTS
  A = A
  B = B
  N = N
  Channels = {A}
  StripSize = 1
  InitialChannels <- MCOnlyA
  InitialSources <- MCNoSources
  InitialStrip = {}
  Buses = {}
  Editable = {}
  Removable = {}
  ExportBlocks = 0
INVARIANTS
  EveryChannelMixed
