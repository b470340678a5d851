SPECIFICATION Spec
CONSTANTS
  StripSize = 2
  Descriptors <- MCDescriptors
  Instrument = "Instrument"
  JackRate = 48000
  JackBlocks = {512}
  MaxChannels = 2
  MaxPlugins = 1
  Dirs = {"P"}
  MaxStarts = 2
  MaxEdits = 1
PROPERTY LoadsProject
