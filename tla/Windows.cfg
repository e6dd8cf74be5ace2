SPECIFICATION PartsSpec
CONSTANTS
    Parts = {"windows", "tree", "cells", "panels", "menu", "sizes"}
    Screens = {1, 2, 4, 6}
    Uncaring = {}
    g1 = g1  g2 = g2  g3 = g3
    v1 = v1  v2 = v2
    w1 = w1  w2 = w2
    p1 = p1  p2 = p2
    MaxY = 1  MaxX = 1
    PanelWindows = {w1, w2}
    PanelHeight <- TwoHeights
    PanelWidth <- TwoWidths
    Panels = {p1, p2}
    BottomsAlone = FALSE
    Windows <- Two
    NoWin = NoWin
    Columns = 4
    MaxDepth = 1
    Moves = "childless"
    Resizes = {1, 3}
    Grows = FALSE
    Writes = TRUE
    MaxItems = 5
    Counts = {5}
    Name <- Names
    Letters = {"a", "b"}
    Selectable = {4}
    Formats <- MenuFormats
    OptionSets <- MenuOptions
    Toggles = {"onevalue"}
    Jumps = FALSE
    Tall = FALSE
SYMMETRY Alike
INVARIANTS
    NoChangeLost NoOrphan SharesMemory WholeCharacters
    WalksAgree UpdateShows MenuShown SizesFollow
PROPERTIES RefreshExact TypedMatches
