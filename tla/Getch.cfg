SPECIFICATION Spec
CONSTANTS
    FIFO_SIZE = 4
    MAXLINE = 1
    ERR = ERR
    NUL = NUL
    Bytes = {"ESC", "A"}
    NL = "NL"
    ERASE = "ERASE"
    KILL = "KILL"
    KeyTry <- ShortKeyTry
    KEY_RESIZE = "KEY_RESIZE"
    KEY_DOWN = "KEY_DOWN"
    KEY_ENTER = "KEY_ENTER"
    KEY_LEFT = "KEY_LEFT"
    KEY_BACKSPACE = "KEY_BACKSPACE"
    Keys = {"A"}
    Windows <- CbreakWindows
    Sizes = {1, 2}
    MaxTty = 1
    Backlog = 1
INVARIANTS
    TypeOK
    SizeTracked
    ResizeOnItsWay
PROPERTIES
    WinchErrTaken
    IsKeyQueue
