CONSTANTS
    Fields <- FieldsOf
    PageOf <- PagesOf
    Place <- Places
    Cols <- ColsOf
    MaxGrow <- MaxGrowOf
    Owner <- OwnerOf
    Edit = {0, 1, 2}
    Passok = {0, 2, 3}
    Nullok = {1}
    Blank = {1}
    Autoskip = {1}
    Overload = TRUE
    Toggled = {2}
    Filled = {2}
    Letters = {"a", "x"}
    Bad = {"x"}
    ClicksAway = FALSE
SPECIFICATION Spec
INVARIANTS FieldShown
PROPERTIES EditsKept
