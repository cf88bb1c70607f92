CONSTANTS
  none = none
  NoPacket = none
  Packets <- ServicePackets
  ROUTER_X = 0
  ROUTER_Y = 0
  Arrivals <- ServiceArrivals
  Receivers = {0, 2}
SPECIFICATION ServiceSpec
INVARIANT TypeOK
INVARIANT OvertakersAreBehind
INVARIANT BoundedService
PROPERTY StalledSelectionOnlyAdvances
