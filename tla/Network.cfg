\* Two vendors, three operations, and containers that are late or die; peers that
\* stall, finish and leave, in both modes.
CONSTANTS
  NVendors = 2
  MaxTries = 2
  MaxCommands = 3
  MaxPorts = 4
  Room = 2
  MaxUnits = 3
  MaxHead = 2
SPECIFICATION MCSpec
INVARIANTS
  StackCorrect
  TunnelCorrect
PROPERTY
  NothingHangs
\* Operations are bounded, and peers may both be silent for ever.
CHECK_DEADLOCK FALSE
