SPECIFICATION Spec
CONSTANTS
    FIFO_SIZE = 5
    MAXLINE = 2
    ERR = ERR
    NUL = NUL
    Bytes = {"ESC", "O", "A", "a", "ERASE", "KILL", "NL", "^H", "^J", "^L"}
    NL = "NL"
    ERASE = "ERASE"
    KILL = "KILL"
    KeyTry <- LongKeyTry
    KEY_RESIZE = "KEY_RESIZE"
    KEY_DOWN = "KEY_DOWN"
    KEY_ENTER = "KEY_ENTER"
    KEY_LEFT = "KEY_LEFT"
    KEY_BACKSPACE = "KEY_BACKSPACE"
    Keys = {}
    Windows <- KeypadOrLine
    Sizes = {1}
    MaxTty = 1
    Backlog = 1
PROPERTIES
    NoMissedKey
    LineFits
ACTION_CONSTRAINT ThreeKeyboards
