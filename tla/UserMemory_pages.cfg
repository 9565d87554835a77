SPECIFICATION Spec
CONSTANTS
    PageCount = 26
    Reserved <- MCReserved
    Slots = {1, 2}
    Startup = 2
    Images <- MCImages
    Stack <- MCStack
    Executable <- MCExecutable
INVARIANTS PagesSound ReadyIsWhole
PROPERTIES GivesUpOnlyWhenFull
CHECK_DEADLOCK FALSE
