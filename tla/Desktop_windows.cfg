SPECIFICATION Spec
CONSTANTS
    kMaxWindows = 3
    kScreenWidth = 8
    kScreenHeight = 7
    kPanelHeight = 1
    kMinWidth = 3
    kMinHeight = 2
    kTitleBarHeight = 1
    kChromeButtonTop = 0
    kChromeButtonWidth = 1
    kChromeButtonHeight = 1
    kResizeGrip = 1
    kCursorWidth = 1
    kCursorHeight = 2
    ApplicationsEnd = 0
    TerminalEnd = 1
    SystemInfoEnd = 2
    kTaskButtonLeft = 4
    kTaskButtonTop = 0
    kTaskButtonWidth = 1
    kTaskButtonHeight = 1
    kStatusWidth = 1
    kMenuWidth = 1
    kMenuItemHeight = 1
    kMaxDirtyRects = 4
    default_bounds <- MCBounds
    Pixels <- MCPixels
    Targets <- MCTargets
    MaxPresses = 3
    MaxMoves = 1
    MaxChanges = 1
INVARIANTS
    WindowsFit
    FocusSound
    NoGhosts
