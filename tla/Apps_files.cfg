SPECIFICATION Spec
CONSTANTS
    root = root
    folder = folder
    NoName = NoName
    Root <- MCRoot
    Directories <- MCDirectories
    Names <- MCNames
    Contents <- MCContents
    FileDescriptors <- MCFileDescriptors
    DirHandles <- MCDirHandles
    PageCapacity <- MCPageCapacity
    Volumes <- MCVolumes
    Paths <- MCPaths
    ShellData <- MCShellData
    Screens <- MCScreens
    kMaxEntries = 2
    kTextCapacity = 4
    kCatBuffer = 2
    MaxEvents = 5
    MaxFaults = 1
INVARIANTS HandlesReturned UnmodifiedIsSaved ListingSound CursorSound
PROPERTIES DialogsDoWhatTheySay HandlersReturn
CHECK_DEADLOCK FALSE
