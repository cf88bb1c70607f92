CONSTANTS
  none = none
  NoPacket = none
  Packets <- SourcePackets
  ROUTER_X = 0
  ROUTER_Y = 0
  Arrivals <- SourceArrivals
  Receivers = {0, 2}
SPECIFICATION ServiceSpec
PROPERTY StalledPacketStable
