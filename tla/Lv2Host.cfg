\* One plugin of four kinds, dropped on a slot of a running engine.
SPECIFICATION FairSpec
CONSTANTS
  Word = 4096
  Word32 = 8
  MidiBufSize = 64
  SampleRate = 2
  CachedUris <- MCCachedUris
  Size <- MCSize
  RingSize = 2
  Descriptions <- MCDescriptions
  Values = {0, 1}
  UiRing = 4
  PosSize = 20
  GetSize = 8
  MidiSize = 3
  SetSize = 12
  NewUri = 6
  Bounds <- MCBounds
INVARIANTS
  TypeOK
  RequestsInOrder
  UiWritesOnce
  
  UrisFoundAgain
PROPERTIES
  WorkIsDone
  
CHECK_DEADLOCK FALSE
