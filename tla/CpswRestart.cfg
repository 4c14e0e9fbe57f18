SPECIFICATION CpswSpec
CONSTANTS
    NumRx = 2
INVARIANTS
    StackOwnsPacket
