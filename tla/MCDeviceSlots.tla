--------------------------- MODULE MCDeviceSlots ----------------------------
EXTENDS DeviceSlots, TLC

CONSTANTS u1, u2, d1, d2, h1, h2, q1, q2

Symmetry ==
  Permutations({u1, u2}) \cup Permutations({q1, q2})
    \cup Permutations({h1, h2})
=============================================================================
