CONSTANTS
  Size = 6
  Packet = 2
  Packets = {p}
SPECIFICATION Spec
INVARIANT DrainedIsEmpty
