SPECIFICATION Spec
CONSTANTS
    kKeyCapacity = 2
    Width = 4
    kEventCapacity = 2
    Keys <- MCKeys
    Packets <- MCPackets
    MaxInputs = 4
INVARIANTS
    MouseKeepsQueued
