\* As many actions as the stacks hold, and two drags on a channel.
SPECIFICATION WidgetSpec
CONSTANTS
  K1 = K1
  K2 = K2
  K3 = K3
  C1 = C1
  C2 = C2
  Mixer <- MCMixer
  Chords = {K1, K2, K3}
  MaxStackLength = 4
  MaxUndoable = 4
  RangeLength = 2
  Offsets <- MCOffsets
  Dragged = {C1}
  MaxDrags = 2
SYMMETRY MCSymmetry
INVARIANT StacksShareOneLength
PROPERTY KeepsHistory DragFollowsPointer
