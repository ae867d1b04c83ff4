SPECIFICATION PlicSpec
CONSTANT Order <- AllDevices
INVARIANT LostOnlyInAck
PROPERTY WorkServed
