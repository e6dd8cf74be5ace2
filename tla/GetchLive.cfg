SPECIFICATION FairSpec
CONSTANTS
    FIFO_SIZE = 5
    MAXLINE = 1
    ERR = ERR
    NUL = NUL
    Bytes = {"ESC", "A"}
    NL = "NL"
    ERASE = "ERASE"
    KILL = "KILL"
    KeyTry <- ShortKeyTry
    KEY_RESIZE = "KEY_RESIZE"
    KEY_DOWN = "KEY_DOWN"
    KEY_ENTER = "KEY_ENTER"
    KEY_LEFT = "KEY_LEFT"
    KEY_BACKSPACE = "KEY_BACKSPACE"
    Keys = {}
    Windows <- TimedWindows
    Sizes = {1}
    MaxTty = 1
    Backlog = 2
PROPERTIES
    CallReturns
    ResizeReported
