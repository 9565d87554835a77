SPECIFICATION Spec
CONSTANTS
    LastCluster = 5
    FatCount = 2
    SlotsPerCluster = 2
    Names = {a, b}
    Sizes = {0, 2, 3}
    Operations = {"touch", "write_file", "remove", "copy_file", "move"}
    MaxFaults = 1
    MaxLosses = 1
SYMMETRY NameSymmetry
INVARIANTS
    VolumeSound
    NothingLeaks
    OkMeansDone
    ReaderAgrees
PROPERTIES
    ImplementsFileStore
