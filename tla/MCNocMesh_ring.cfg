CONSTANTS
  none = none
  NoPacket = none
  Packets <- RingTraffic
  MayStall = {0}
SPECIFICATION ClockedSpec
INVARIANT PacketsOnRoute
INVARIANT AtMostThreeContend
PROPERTY ImplementsFlows
PROPERTY EveryPacketMovesOn
