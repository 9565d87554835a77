SPECIFICATION Spec
CONSTANTS
    kKeyCapacity = 2
    Width = 4
    kEventCapacity = 2
    Keys <- MCKeys
    Packets <- MCPackets
    MaxInputs = 5
INVARIANTS
    DecodersInStep
    CountNeverAhead
PROPERTIES
    KeyboardIsFifo
    KeysHandled
