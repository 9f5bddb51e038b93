CONSTANTS
  Size = 9
  Packet = 3
  Packets = {p}
SPECIFICATION FairSpec
INVARIANT TypeOK
INVARIANT InBounds
PROPERTY KeepsMoving
