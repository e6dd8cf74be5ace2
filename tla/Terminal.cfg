SPECIFICATION PartsSpec
CONSTANTS
    Parts = {"lines", "pen"}
    Devices <- Pens  Settings <- Choices
    sp = sp  tint = tint  ink = ink
INVARIANTS LineShown CursorTracked PenExact
