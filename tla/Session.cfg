SPECIFICATION Spec
CONSTANTS
  StripSize = 2
  Descriptors <- MCDescriptors
  Instrument = "Instrument"
  JackRate = 48000
  JackBlocks = {512}
  MaxChannels = 4
  MaxPlugins = 3
  Dirs = {"P"}
  MaxStarts = 2
  MaxEdits = 4
INVARIANTS TypeOK PluginsHeard OwnStateDir
PROPERTIES KeepsTrackOrder AutomationTracksMatch
