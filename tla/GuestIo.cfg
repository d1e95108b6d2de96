SPECIFICATION Spec
CONSTANTS
    Configs <- ProbeOrder
    RingSize = 1
INVARIANTS InServiceIsHandled NoLostInterrupt
PROPERTIES RequestsComplete PitIsServed
