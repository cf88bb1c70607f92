\* Three words: zero and two others.
SPECIFICATION Spec
CONSTANTS
  Data = {0, 1, 2}
  Zero = 0
INVARIANT TypeOK
INVARIANT RetainsLastSeen
PROPERTY WakeIsTransparent
PROPERTY PowerSwitchesIsolated
PROPERTY HeldWakeIsServed
