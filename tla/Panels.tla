-------------------------------- MODULE Panels --------------------------------
(* The panel library (panel/*.c): a stack of windows above stdscr.  The stack *)
(* is a doubly linked list with stdscr's pseudo panel at the bottom.  What is *)
(* hidden and what is seen is left to marks on lines: a panel that changes    *)
(* marks the lines of the panels above it, and update_panels() copies marked  *)
(* cells to newscr from the bottom to the top.                                *)
EXTENDS Integers, FiniteSets, SequencesExt

CONSTANTS
    MaxY, MaxX,     \* the last line and column of the screen
    PanelWindows,   \* the windows of the application
    PanelHeight, PanelWidth,
    Panels,         \* the PANELs it may hold at a time
    BottomsAlone    \* it may call bottom_panel() while no panel is shown

stdscr == "stdscr"
Pseudo == "pseudo"      \* _nc_stdscr_pseudo_panel
NoPanel == "none"       \* a null pointer
AllWindows == PanelWindows \cup {stdscr}
AllPanels == Panels \cup {Pseudo}
Rows == 0..MaxY
ScreenColumns == 0..MaxX
Screen == Rows \X ScreenColumns
Unmarked == <<-1, -1>>  \* firstchar and lastchar of an untouched line: _NOCHANGE twice
Old == <<>>             \* a cell of newscr whose text no window has any more

(* Names are apart, and a window is no larger than the screen.               *)
OnScreen == MaxY \in Nat /\ MaxX \in Nat /\ BottomsAlone \in BOOLEAN
PanelsApart ==
    /\ stdscr \notin PanelWindows /\ NoPanel \notin PanelWindows
    /\ Pseudo \notin Panels /\ NoPanel \notin Panels /\ IsFiniteSet(Panels)
    /\ PanelHeight \in [PanelWindows -> 1..(MaxY + 1)]
    /\ PanelWidth \in [PanelWindows -> 1..(MaxX + 1)]
ASSUME PanelsAssumption == OnScreen /\ PanelsApart

VARIABLES
    beg,            \* _begy and _begx of each window
    changed,        \* changed[w][i]: firstchar and lastchar of line i
    win,            \* the window of each panel, "none" for a PANEL that is not
    above, below,   \*   allocated; its links
    top, bottom,    \* _nc_top_panel, _nc_bottom_panel
    newscr          \* the cell of a window that each cell of newscr was copied from
links == <<win, above, below, top, bottom>>
panelsVars == <<beg, changed, links, newscr>>

Maxy(w) == IF w = stdscr THEN MaxY ELSE PanelHeight[w] - 1
Maxx(w) == IF w = stdscr THEN MaxX ELSE PanelWidth[w] - 1
LinesOf(w) == 0..Maxy(w)
Untouched(w) == [i \in LinesOf(w) |-> Unmarked]
touchwin(w) == [i \in LinesOf(w) |-> <<0, Maxx(w)>>]
Larger(x, y) == IF x < y THEN y ELSE x
Smaller(x, y) == IF x < y THEN x ELSE y

Allocated == {p \in Panels : win[p] # NoPanel}
Free(w) == w \in PanelWindows /\ \A p \in Panels : win[p] # w

(* A window is touched when it is made.                                      *)
PanelsInit ==
    /\ beg = [w \in AllWindows |-> <<0, 0>>]
    /\ changed = [w \in AllWindows |-> touchwin(w)]
    /\ win = [p \in AllPanels |-> IF p = Pseudo THEN stdscr ELSE NoPanel]
    /\ above = [p \in AllPanels |-> NoPanel] /\ below = above
    /\ top = Pseudo /\ bottom = Pseudo
    /\ newscr = [c \in Screen |-> Old]

-----------------------------------------------------------------------------
(* The macros of panel.priv.h, on a record of the stack and the marks.       *)

State == [win |-> win, above |-> above, below |-> below, top |-> top, bottom |-> bottom,
          changed |-> changed]
EMPTY_STACK(s) == s.top = s.bottom
Is_Bottom(s, p) == ~EMPTY_STACK(s) /\ s.above[s.bottom] = p
Is_Top(s, p) == ~EMPTY_STACK(s) /\ s.top = p
IS_LINKED(s, p) == s.above[p] # NoPanel \/ s.below[p] # NoPanel \/ p = s.bottom

(* The panels from p upwards.                                                *)
Upwards(s, p) ==
    LET up[n \in 0..Cardinality(AllPanels)] ==
            IF n = 0 THEN <<p>>
            ELSE LET q == s.above[Last(up[n - 1])]
                 IN IF q = NoPanel THEN up[n - 1] ELSE Append(up[n - 1], q)
    IN IF p = NoPanel THEN <<>> ELSE up[Cardinality(AllPanels)]
Stack == Upwards(State, bottom)

StartY(w) == beg[w][1]
StartX(w) == beg[w][2]
EndY(w) == beg[w][1] + Maxy(w)
EndX(w) == beg[w][2] + Maxx(w)
PANELS_OVERLAPPED(w, v) ==
    /\ StartY(w) <= EndY(v) /\ EndY(w) >= StartY(v)
    /\ StartX(w) <= EndX(v) /\ EndX(w) >= StartX(v)

CHANGED_RANGE(range, start, end) ==
    IF range = Unmarked THEN <<start, end>>
    ELSE <<Smaller(range[1], start), Larger(range[2], end)>>

(* Every panel from start upwards that overlaps p is marked where it does,   *)
(* on the lines that are touched in p.                                       *)
PANEL_UPDATE(s, p, start) ==
    LET w == s.win[p]
        marks(v) == [i \in LinesOf(v) |->
            LET y == StartY(v) + i
            IN IF y \in StartY(w)..EndY(w) /\ s.changed[w][y - StartY(w)] # Unmarked
               THEN CHANGED_RANGE(s.changed[v][i],
                        Larger(StartX(w), StartX(v)) - StartX(v),
                        Smaller(EndX(w), EndX(v)) - StartX(v))
               ELSE s.changed[v][i]]
        touched == {s.win[q] : q \in ToSet(Upwards(s, start)) \ {p}}
    IN [s EXCEPT !.changed = [v \in AllWindows |->
            IF v \in touched /\ PANELS_OVERLAPPED(w, v) THEN marks(v) ELSE s.changed[v]]]

Touchpan(s, p) == [s EXCEPT !.changed[s.win[p]] = touchwin(s.win[p])]

PANEL_UNLINK_NotBelow(s, p) ==              \* mutant: the panel above keeps its link
    LET a == s.above[p]
        b == s.below[p]
    IN [s EXCEPT !.above = [q \in AllPanels |->
                     IF q = p THEN NoPanel ELSE IF q = b THEN a ELSE s.above[q]],
                 !.below[p] = NoPanel,
                 !.bottom = IF p = @ THEN a ELSE @,
                 !.top = IF p = @ THEN b ELSE @]
PANEL_UNLINK(s, p) ==
    LET a == s.above[p]
        b == s.below[p]
    IN [s EXCEPT !.above = [q \in AllPanels |->
                     IF q = p THEN NoPanel ELSE IF q = b THEN a ELSE s.above[q]],
                 !.below = [q \in AllPanels |->
                     IF q = p THEN NoPanel ELSE IF q = a THEN b ELSE s.below[q]],
                 !.bottom = IF p = @ THEN a ELSE @,
                 !.top = IF p = @ THEN b ELSE @]

HIDE_PANEL(s, p) ==
    IF IS_LINKED(s, p)
    THEN LET t == Touchpan(s, p) IN PANEL_UNLINK(PANEL_UPDATE(t, p, t.bottom), p)
    ELSE s

Becomes(s) ==
    /\ win' = s.win /\ above' = s.above /\ below' = s.below
    /\ top' = s.top /\ bottom' = s.bottom /\ changed' = s.changed

-----------------------------------------------------------------------------
(* The functions of the library.                                             *)

Show(s, p) ==
    IF Is_Top(s, p) THEN s
    ELSE LET t == HIDE_PANEL(s, p)
         IN [t EXCEPT !.above = [t.above EXCEPT ![t.top] = p, ![p] = NoPanel],
                      !.below[p] = t.top, !.top = p]

(* new_panel(): the first panel that is not allocated.                       *)
NewPanel(p, w) ==
    /\ p \notin Allocated /\ Free(w)
    /\ Becomes(Show([State EXCEPT !.win[p] = w], p))
    /\ UNCHANGED <<beg, newscr>>

ShowPanel(p) ==
    /\ p \in Allocated
    /\ Becomes(Show(State, p))
    /\ UNCHANGED <<beg, newscr>>

HidePanel(p) ==
    /\ p \in Allocated
    /\ Becomes(HIDE_PANEL(State, p))
    /\ UNCHANGED <<beg, newscr>>

(* _nc_top_panel stays what it is, in an empty stack too.                    *)
BottomPanel(p) ==
    /\ p \in Allocated
    /\ BottomsAlone \/ ~EMPTY_STACK(State)
    /\ IF Is_Bottom(State, p) THEN UNCHANGED <<links, changed>>
       ELSE LET s == HIDE_PANEL(State, p)
                a == s.above[s.bottom]
            IN Becomes([s EXCEPT
                   !.above = [s.above EXCEPT ![p] = a, ![s.bottom] = p],
                   !.below = [q \in AllPanels |->
                       IF q = p THEN s.bottom ELSE IF q = a THEN p ELSE s.below[q]]])
    /\ UNCHANGED <<beg, newscr>>

Uncovered_Untouched(p) == State             \* mutant: nothing is marked
Uncovered(p) ==
    IF IS_LINKED(State, p)
    THEN LET t == Touchpan(State, p) IN PANEL_UPDATE(t, p, t.bottom)
    ELSE State

(* mvwin() refuses a place that is not on the screen.                        *)
MovePanel(p, y, x) ==
    /\ p \in Allocated
    /\ LET s == Uncovered(p)
           w == win[p]
       IN IF y + Maxy(w) > MaxY \/ x + Maxx(w) > MaxX
          THEN Becomes(s) /\ UNCHANGED beg
          ELSE /\ Becomes([s EXCEPT !.changed[w] = touchwin(w)])
               /\ beg' = [beg EXCEPT ![w] = <<y, x>>]
    /\ UNCHANGED newscr

(* The window that replaces the old one is not touched.                      *)
ReplacePanel(p, w) ==
    /\ p \in Allocated /\ Free(w)
    /\ Becomes([Uncovered(p) EXCEPT !.win[p] = w])
    /\ UNCHANGED <<beg, newscr>>

DelPanel(p) ==
    /\ p \in Allocated
    /\ Becomes([HIDE_PANEL(State, p) EXCEPT !.win[p] = NoPanel])
    /\ UNCHANGED <<beg, newscr>>

(* The application writes the cell of a window.                              *)
Write(w, i, j) ==
    /\ i \in LinesOf(w) /\ j \in 0..Maxx(w)
    /\ changed' = [changed EXCEPT ![w][i] = CHANGED_RANGE(@, j, j)]
    /\ newscr' = [c \in Screen |-> IF newscr[c] = <<w, i, j>> THEN Old ELSE newscr[c]]
    /\ UNCHANGED <<beg, links>>

wnoutrefresh(screen, w, marks) ==
    [c \in Screen |->
        LET i == c[1] - StartY(w)
            j == c[2] - StartX(w)
        IN IF i \in LinesOf(w) /\ j \in marks[i][1]..marks[i][2] /\ j >= 0
           THEN <<w, i, j>> ELSE screen[c]]

(* The first k panels of the stack have marked those above them.             *)
Marking(k) ==
    LET s[n \in 0..k] ==
            IF n = 0 THEN State ELSE PANEL_UPDATE(s[n - 1], Stack[n], s[n - 1].above[Stack[n]])
    IN s[k]

(* The first k panels of the stack are copied to newscr.                     *)
Copying(k) ==
    LET marked == Marking(Len(Stack)).changed
        screen[n \in 0..k] ==
            IF n = 0 THEN newscr
            ELSE wnoutrefresh(screen[n - 1], win[Stack[n]], marked[win[Stack[n]]])
    IN screen[k]

UpdatePanels ==
    /\ newscr' = Copying(Len(Stack))
    /\ changed' = [w \in AllWindows |->
           IF \E p \in ToSet(Stack) : win[p] = w THEN Untouched(w) ELSE changed[w]]
    /\ UNCHANGED <<beg, links>>

PanelsNext ==
    \/ \E p \in Panels :
          \/ \E w \in PanelWindows : NewPanel(p, w) \/ ReplacePanel(p, w)
          \/ ShowPanel(p) \/ HidePanel(p) \/ BottomPanel(p) \/ DelPanel(p)
          \/ \E y \in Rows, x \in ScreenColumns : MovePanel(p, y, x)
    \/ \E w \in AllWindows, y \in Rows, x \in ScreenColumns : Write(w, y, x)
    \/ UpdatePanels
PanelsSpec == PanelsInit /\ [][PanelsNext]_panelsVars

-----------------------------------------------------------------------------
(* What an application sees of the stack: panel_above(), panel_below() and   *)
(* panel_hidden(), where ground is panel_above(NULL).                        *)
panel_above(p) == IF p = NoPanel THEN above[bottom] ELSE above[p]
panel_below(p) ==
    IF p = NoPanel THEN IF EMPTY_STACK(State) THEN NoPanel ELSE top
    ELSE IF below[p] = bottom THEN NoPanel ELSE below[p]
panel_hidden(p) == ~IS_LINKED(State, p)

Walk(step(_)) ==
    LET walk[n \in 0..Cardinality(Panels)] ==
            IF n = 0 THEN <<>>
            ELSE LET p == step(IF walk[n - 1] = <<>> THEN NoPanel ELSE Last(walk[n - 1]))
                 IN IF p = NoPanel \/ Len(walk[n - 1]) # n - 1 THEN walk[n - 1]
                    ELSE Append(walk[n - 1], p)
    IN walk[Cardinality(Panels)]

(* A program that walks the stack with panel_above() finds the panels that   *)
(* panel_hidden() says are not hidden, each once, and finds them in the      *)
(* opposite order with panel_below(), after any sequence of showing, hiding, *)
(* sinking and deleting.                                                     *)
WalksAgree ==
    LET up == Walk(panel_above)
    IN /\ Reverse(up) = Walk(panel_below)
       /\ ToSet(up) = {p \in Allocated : ~panel_hidden(p)}
       /\ Len(up) = Cardinality(ToSet(up))

Covers(w, c) ==
    /\ c[1] \in StartY(w)..EndY(w) /\ c[2] \in StartX(w)..EndX(w)
Cell(w, c) == <<w, c[1] - StartY(w), c[2] - StartX(w)>>
TopAt(c) ==
    LET seen == {n \in 1..Len(Stack) : Covers(win[Stack[n]], c)}
    IN Cell(win[Stack[CHOOSE n \in seen : \A m \in seen : m <= n]], c)

(* While no window of the stack has marked lines, as after every            *)
(* update_panels(), each cell of the virtual screen is the present cell of   *)
(* the topmost window there, whatever was moved, uncovered, replaced, hidden *)
(* or written before, in however many steps.                                 *)
UpdateShows ==
    (\A p \in ToSet(Stack) : changed[win[p]] = Untouched(win[p]))
        => newscr = [c \in Screen |-> TopAt(c)]
===============================================================================
