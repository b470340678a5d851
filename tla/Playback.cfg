\* Every control, at any moment of a cycle.
SPECIFICATION FairSpec
CONSTANTS
  Short = Short
  Edge = Edge
  Long = Long
  Notes = {Short, Edge, Long}
  Start <- MCStart
  End <- MCEnd
  LoopStart = 0
  LoopEnd = 8
  Cue = 4
  NFrames = 5
  FramesPerTick = 2
  LastTick = 10
  MaxPosts = 1
  Positions = {9}
  Controls = {"play", "stop", "space", "loop", "ruler"}
INVARIANTS
  TypeOK
  
PROPERTIES
  
  RequestsAnswered
  
