CONSTANTS
  Size = 6
  Packet = 2
  Packets = {p, q}
SPECIFICATION RingSpec
INVARIANT WholePackets
PROPERTY QueueSpec
