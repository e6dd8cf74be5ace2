SPECIFICATION PartsSpec
CONSTANTS
    Parts = {"pairs"}
    c1 = c1  c2 = c2  c3 = c3  c4 = c4
    p1 = p1  p2 = p2
    norm = norm  bold = bold  alt = alt  nothing = nothing
    Cancelling = FALSE
    OtherBits = {"noflsh"}
    Careless = {}
    Colors = {c1, c2, c3, c4}
    WithDefault = {c4}
    Zero = zero
    Limit = 3
    PairCount = 2
    CellsOfScreen = {x}
    FreesAll = TRUE
    MaxUsed = 5
SYMMETRY Alike
INVARIANTS AllocatedInRange
