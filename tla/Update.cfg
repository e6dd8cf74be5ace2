SPECIFICATION PartsSpec
CONSTANTS
    Parts = {"update", "scroll"}
    pop = pop A = A B = B
    Lines = 3
    Windows <- PopUp
    Height <- OneLine
    YOffset <- NoOffset
    Text = {Blank, A, B}
    Blank = Blank
    Zero = Zero
    Junk = Junk
    CanScroll = TRUE
    ClrEos = TRUE
    Places = {0, 2}
    MaxDamage = 1
INVARIANTS TypeOK PendingMarked ScreenTracked Settled OrderedSurvive HashesAgree
PROPERTY UpdateExact
