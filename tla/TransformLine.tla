---------------------------- MODULE TransformLine ----------------------------
(* Inside a line (tty_update.c): doupdate() makes the lines of the terminal  *)
(* those of newscr.  TransformLine() compares a line with what curscr says   *)
(* the terminal has, and puts, skips, erases, repeats and deletes cells as   *)
(* the capabilities allow and their costs suggest.  The terminal is modelled *)
(* with its cursor, its margin and its pen; what the library believes of     *)
(* them is kept apart.                                                       *)
EXTENDS Integers, Sequences, FiniteSets, SequencesExt

CONSTANTS
    Lines, Columns,
    Cells, Blank,   \* a character with its attributes; the default blank
    Tinted,         \* a blank with a background colour
    Devices,        \* terminals: records of capabilities and costs, see Capabilities
    Texts,          \* Texts[r]: the contents that row r is given
    Homes           \* the places where the application leaves the cursor

Rows == 0..(Lines - 1)
Cols == 0..(Columns - 1)
LastCol == Columns - 1
Infinity == 1000    \* NC_INFINITY: the cost of what the terminal has not
Unknown == -1       \* _cursrow and _curscol when the cursor was lost sight of

(* am, xenl: auto_right_margin, eat_newline_glitch; amMode: enter_am_mode    *)
(* and exit_am_mode; ich, dch: which way it inserts and deletes characters;  *)
(* idcok: _nc_sp_idcok; local: its moves to the right are made by            *)
(* overwriting; background: that of stdscr.                                  *)
Capabilities ==
    [am : BOOLEAN, xenl : BOOLEAN, amMode : BOOLEAN, idcok : BOOLEAN,
     ich : {"none", "parm", "mode", "char"}, dch : {"none", "parm", "char"},
     clear : BOOLEAN, ed : BOOLEAN, el : BOOLEAN, el1 : BOOLEAN, ech : BOOLEAN,
     rep : BOOLEAN, bce : BOOLEAN, local : BOOLEAN, background : {Blank, Tinted},
     elCost : Nat, el1Cost : Nat, echCost : Nat, repCost : Nat, dchCost : Nat,
     inlineCost : Nat]

(* What is assumed of the constants; each instance is checked for it.        *)
CellAssumption == {Blank, Tinted} \subseteq Cells /\ Blank # Tinted
SizeAssumption ==
    /\ Lines \in Nat \ {0} /\ Columns \in Nat \ {0, 1}
    /\ \A r \in Rows : Texts[r] \subseteq [Cols -> Cells]
    /\ Homes \subseteq Rows \X Cols
DeviceAssumption == Devices \subseteq Capabilities

VARIABLES
    device,
    newscr, curscr,
    cursrow, curscol,   \* where the library thinks that the cursor is
    term,               \* the cells of the terminal
    tty                 \* its cursor, wrap pending at the margin, its pen
vars == <<device, newscr, curscr, cursrow, curscol, term, tty>>

BlankLine(c) == [x \in Cols |-> c]
MaxOf(S) == CHOOSE x \in S : \A y \in S : y <= x
MinOf(S) == CHOOSE x \in S : \A y \in S : x <= y

-----------------------------------------------------------------------------
(* The terminal.  An update works on a record s of                           *)
(*   want         newscr                                                     *)
(*   cur, row, col    curscr and the library's cursor                        *)
(*   term, y, x, wrap, am, pen   the terminal; am: margins are automatic now *)
(*   insert       insert mode is on                                          *)

Attribute(c) == IF c = Tinted THEN Tinted ELSE Blank
Erased(s) == IF device.bce THEN s.pen ELSE Blank
UpdateAttrs(s, c) == [s EXCEPT !.pen = Attribute(c)]

NextLine(s) ==
    IF s.y + 1 \in Rows THEN [s EXCEPT !.y = @ + 1, !.x = 0, !.wrap = FALSE]
    ELSE [s EXCEPT !.x = 0, !.wrap = FALSE,
                   !.term = [r \in Rows |-> IF r + 1 \in Rows THEN s.term[r + 1]
                                            ELSE BlankLine(Erased(s))]]

Stored(line, x, c, insert) ==
    [i \in Cols |-> IF i = x THEN c ELSE IF insert /\ i > x THEN line[i - 1] ELSE line[i]]

(* A character arrives: at the margin the cursor waits (xenl) or is already  *)
(* on the next line, or stays.                                               *)
Place(s, c) == [s EXCEPT !.term[s.y] = Stored(@, s.x, c, s.insert)]
Advance(s) ==
    IF s.x < LastCol THEN [s EXCEPT !.x = @ + 1]
    ELSE IF ~s.am THEN s
    ELSE IF device.xenl THEN [s EXCEPT !.wrap = TRUE] ELSE NextLine(s)
Receive(s, c) == Advance(Place(IF s.wrap THEN NextLine(s) ELSE s, c))

EraseCells(s, first, last) ==
    [s EXCEPT !.term[s.y] = [x \in Cols |-> IF x \in first..last THEN Erased(s) ELSE @[x]]]
EraseBelow(s) ==
    [EraseCells(s, s.x, LastCol) EXCEPT
        !.term = [r \in Rows |-> IF r > s.y THEN BlankLine(Erased(s)) ELSE @[r]]]
DeleteCells(s, n) ==
    [s EXCEPT !.term[s.y] = [x \in Cols |-> IF x < s.x THEN @[x]
                                    ELSE IF x + n \in Cols THEN @[x + n] ELSE Erased(s)]]
OpenCells(s, n) ==
    [s EXCEPT !.term[s.y] = [x \in Cols |-> IF x < s.x THEN @[x]
                                    ELSE IF x < s.x + n THEN Erased(s) ELSE @[x - n]]]
-----------------------------------------------------------------------------
(* GoTo() and mvcur().  A move to the right may be made by sending what      *)
(* newscr has in the cells that are crossed, when they need no change of     *)
(* attributes: from the cursor, or from the left margin (after a carriage    *)
(* return or from home).                                                     *)

Crossed(s, row, col) ==
    (IF s.row = row /\ s.col # Unknown /\ s.col < col THEN s.col ELSE 0)..(col - 1)

Moved(s, row, col) ==
    LET crossed == Crossed(s, row, col)
        over == device.local /\ \A x \in crossed : Attribute(s.want[row][x]) = s.pen
    IN [s EXCEPT !.row = row, !.col = col, !.y = row, !.x = col, !.wrap = FALSE,
                 !.term[row] = [x \in Cols |-> IF over /\ x \in crossed
                                               THEN s.want[row][x] ELSE @[x]]]

GoTo(s, row, col) == IF s.row = row /\ s.col = col THEN s ELSE Moved(s, row, col)

PutAttrChar(s, c) == Receive([UpdateAttrs(s, c) EXCEPT !.col = @ + 1], c)

(* InsStr(): the first count cells of line from column first on.             *)
InsertOne(s, c) ==
    [PutAttrChar(CASE device.ich = "char" -> OpenCells(s, 1)
                   [] device.ich = "mode" -> [s EXCEPT !.insert = TRUE]
                   [] OTHER -> s, c) EXCEPT !.insert = FALSE]
InsStr(s, line, first, count) ==
    FoldLeft(LAMBDA t, i : InsertOne(t, line[first + i - 1]),
             IF device.ich = "parm" THEN OpenCells(s, count) ELSE s, [i \in 1..count |-> i])

DelChar(s, count) == DeleteCells(s, count)

has_ic == device.ich # "none" /\ device.dch # "none"
CanWriteCorner == ~device.am \/ device.amMode \/ device.ich # "none"

(* The lower right corner, where a character scrolls the screen: margins are *)
(* turned off, or the character is pushed there from its left neighbour.     *)
PutCharLR(s, c) ==
    IF ~device.am THEN PutAttrChar(s, c)
    ELSE IF device.amMode
      THEN [PutAttrChar([s EXCEPT !.am = FALSE], c) EXCEPT !.col = s.col, !.am = TRUE]
    ELSE IF device.ich # "none"
      THEN LET put == PutAttrChar(GoTo(s, Lines - 1, Columns - 2), c)
           IN InsStr(GoTo(put, Lines - 1, Columns - 2), s.want[Lines - 1], Columns - 2, 1)
    ELSE s

wrap_cursor_NextLine(s) == [s EXCEPT !.row = @ + 1, !.col = 0]      \* mutant: xenl forgotten
wrap_cursor(s) ==
    IF device.xenl THEN [s EXCEPT !.row = Unknown, !.col = Unknown]
    ELSE IF device.am THEN [s EXCEPT !.row = @ + 1, !.col = 0]
    ELSE [s EXCEPT !.col = @ - 1]

Wrapped(s) == IF s.col >= Columns THEN wrap_cursor(s) ELSE s
PutChar(s, c) ==
    Wrapped(IF s.row = Lines - 1 /\ s.col = LastCol THEN PutCharLR(s, c) ELSE PutAttrChar(s, c))
PutEach(s, cells) == FoldLeft(PutChar, s, cells)

can_clear_with(c) == c = Blank \/ (c = Tinted /\ device.bce)
-----------------------------------------------------------------------------
(* EmitRange(): the cells first..last of a line, runs of equal ones erased   *)
(* or repeated.  mid tells that the cursor was left before the end.          *)

RunEnd(line, first, last) ==
    MaxOf({x \in first..last : \A i \in first..x : line[i] = line[first]})

EraseRun(s, c, count) ==
    LET erase(pen) == EraseCells(pen, pen.x, pen.x + count - 1) IN erase(UpdateAttrs(s, c))
Repeated(s, c, n) ==
    FoldLeft(Receive, [UpdateAttrs(s, c) EXCEPT !.col = @ + n], [i \in 1..n |-> c])
RepeatRun(s, c, count) ==
    IF s.col + count < Columns THEN Repeated(s, c, count)
    ELSE PutChar(Repeated(s, c, count - 1), c)
Erases(c, count) == count > 1 /\ device.ech /\ count > device.echCost /\ can_clear_with(c)
Repeats(count) == count > 1 /\ device.rep /\ count > device.repCost

RECURSIVE EmitRange(_, _, _, _)
EmitRange(s, line, first, last) ==
    LET end == RunEnd(line, first, last)
        count == end - first + 1
        c == line[first]
        skip(t) == GoTo(t, t.row, t.col + count)
    IN IF first > last THEN [at |-> s, mid |-> FALSE]
       ELSE IF Erases(c, count) /\ end = last THEN [at |-> EraseRun(s, c, count), mid |-> TRUE]
       ELSE EmitRange(IF Erases(c, count) THEN skip(EraseRun(s, c, count))
                      ELSE IF Repeats(count) THEN RepeatRun(s, c, count)
                      ELSE PutEach(s, [i \in 1..count |-> c]),
                      line, end + 1, last)

(* PutRange(): runs of more than _inline_cost cells that are there already   *)
(* are skipped by a move.                                                    *)
RECURSIVE PutFrom(_, _, _, _, _, _, _, _)
PutFrom(s, old, new, row, first, j, same, last) ==
    IF j > last
      THEN [EmitRange(s, new, first, j - same - 1) EXCEPT !.mid = @ \/ same > 0]
    ELSE IF old[j] = new[j] THEN PutFrom(s, old, new, row, first, j + 1, same + 1, last)
    ELSE IF same > device.inlineCost
      THEN PutFrom(GoTo(EmitRange(s, new, first, j - same - 1).at, row, j),
                   old, new, row, j, j + 1, 0, last)
    ELSE PutFrom(s, old, new, row, first, j + 1, 0, last)

PutRange_AtEnd(s, old, new, row, first, last) ==   \* mutant: a skipped tail is not reported
    [PutFrom(s, old, new, row, first, first, 0, last) EXCEPT !.mid = FALSE]
PutRange(s, old, new, row, first, last) ==
    IF last - first + 1 > device.inlineCost
      THEN PutFrom(s, old, new, row, first, first, 0, last)
      ELSE EmitRange(s, new, first, last)

ElCost == IF device.bce THEN 0 ELSE IF device.el THEN device.elCost ELSE Infinity
DelCharCost(n) ==
    CASE device.dch = "parm" -> device.dchCost
      [] device.dch = "char" -> device.dchCost * n
      [] OTHER -> Infinity

(* ClrToEOL(): from the library's cursor on.                                 *)
ErasedToEOL(s, blank, count) ==
    IF device.el /\ ElCost <= count THEN EraseCells(s, s.x, LastCol)
    ELSE PutEach(s, [i \in 1..count |-> blank])
ClrToEOL(s, blank) ==
    LET rest == IF s.row = Unknown THEN {} ELSE {x \in Cols : x >= s.col}
    IN IF \A x \in rest : s.cur[s.row][x] = blank THEN s
       ELSE ErasedToEOL([UpdateAttrs(s, blank) EXCEPT
                            !.cur[s.row] = [x \in Cols |-> IF x \in rest THEN blank ELSE @[x]]],
                        blank, Columns - s.col)
-----------------------------------------------------------------------------
(* TransformLine(): line r.                                                  *)

FirstNot(line, c) == MinOf({x \in Cols : line[x] # c} \cup {Columns})
FirstDifference(old, new) == MinOf({x \in Cols : old[x] # new[x]} \cup {Columns})
LastNot(line, c, first) == MaxOf({x \in Cols : x > first /\ line[x] # c} \cup {first})

(* Leading blanks may be cheapest to make with clr_bol, which erases up to   *)
(* the cursor's cell.                                                        *)
ClearLeft(s, r, upto) ==
    LET blank == s.want[r][0]
        right == upto >= Columns /\ ElCost <= device.el1Cost
        erased(t) == IF right THEN EraseCells(t, t.x, LastCol) ELSE EraseCells(t, 0, t.x)
    IN [erased(UpdateAttrs(GoTo(s, r, IF right THEN 0 ELSE upto - 1), blank)) EXCEPT
           !.cur[r] = [x \in Cols |-> IF x < upto THEN blank ELSE @[x]]]

(* The line with its leading blanks made, and where the difference starts.   *)
Leading(s, r) ==
    LET old == s.cur[r]  new == s.want[r]
        o == FirstNot(old, new[0])
        n == FirstNot(new, new[0])
        from(t, x) == [at |-> t, first |-> x]
    IN IF ~(device.el1 /\ can_clear_with(new[0])) \/ o = n
         THEN from(s, FirstDifference(old, new))
       ELSE IF o > n THEN from(s, n)
       ELSE IF device.el1Cost < n - o THEN from(ClearLeft(s, r, n), n)
       ELSE from(s, o)

(* How many cells are equal, counted back from two places.                   *)
EqualBack(new, n, old, o) ==
    MaxOf({k \in 0..(n + 1) : k <= o + 1 /\ \A i \in 0..(k - 1) : new[n - i] = old[o - i]})

(* What ends at column last is put from column first on, and the rest of the *)
(* line is cleared.                                                          *)
PutAndClear(s, r, first, last, blank) ==
    LET back(out) == IF out.mid THEN GoTo(out.at, r, last + 1) ELSE out.at
    IN ClrToEOL(back(PutRange(s, s.cur[r], s.want[r], r, first, last)), blank)
PutTo(s, r, first, last) == PutRange(s, s.cur[r], s.want[r], r, first, last).at

(* From column m on the line is there, from o in place of n: it is moved, or *)
(* written when that is cheaper.                                             *)
Shift(s, r, m, o, n, oLast, nLast, blank) ==
    IF o = n THEN s
    ELSE IF o < n
      THEN IF n < nLast \/ device.ich = "none" THEN PutTo(s, r, m, MaxOf({nLast, oLast}))
           ELSE InsStr(s, s.want[r], m, n - o)
    ELSE IF DelCharCost(o - n) > ElCost + nLast - m THEN PutAndClear(s, r, m, nLast, blank)
    ELSE DelChar(UpdateAttrs(s, blank), o - n)
InsertOrDelete(s, r, first, oLast, nLast, blank) ==
    LET k == EqualBack(s.want[r], nLast, s.cur[r], oLast)
        o == oLast - k   n == nLast - k
        m == IF o < n THEN o ELSE n
        put == IF m >= first THEN PutTo(GoTo(s, r, first), r, first, m) ELSE s
    IN Shift(IF o = n THEN put ELSE GoTo(put, r, m + 1), r, m + 1, o, n, oLast, nLast, blank)

(* The cells from first on, when the line ends with blanks that an erasing   *)
(* command can make.                                                         *)
Trailing(s, r, first) ==
    LET old == s.cur[r]  new == s.want[r]
        blank == new[LastCol]
        oLast == LastNot(old, blank, first)
        nLast == LastNot(new, blank, first)
        go == GoTo(s, r, first)
    IN IF nLast = first /\ ElCost < oLast - nLast
         THEN ClrToEOL(IF new[first] = blank THEN go ELSE PutChar(go, new[first]), blank)
       ELSE IF nLast # oLast /\ (new[nLast] # old[oLast] \/ ~(device.idcok /\ has_ic))
         THEN IF oLast - nLast > ElCost THEN PutAndClear(go, r, first, nLast, blank)
              ELSE PutTo(go, r, first, MaxOf({nLast, oLast}))
       ELSE InsertOrDelete(s, r, first, oLast, nLast, blank)

(* All columns from first on.                                                *)
TransformFrom(s, r, first) ==
    IF can_clear_with(s.want[r][LastCol]) THEN Trailing(s, r, first)
    ELSE PutTo(GoTo(s, r, first), r, first,
               LastNot([x \in Cols |-> s.cur[r][x] = s.want[r][x]], TRUE, first))
TransformLine(s, r) ==
    LET start == Leading(s, r)
    IN IF start.first >= Columns THEN start.at
       ELSE [TransformFrom(start.at, r, start.first) EXCEPT !.cur[r] = s.want[r]]
-----------------------------------------------------------------------------
(* doupdate() and what it does before the lines.                             *)

ClrToEOS(s, blank) ==
    [EraseBelow(UpdateAttrs(s, blank)) EXCEPT
        !.cur = [r \in Rows |-> IF r < s.row THEN @[r]
                                ELSE [x \in Cols |-> IF r > s.row \/ x >= s.col THEN blank ELSE @[r][x]]]]

(* ClrBottom(): blank lines at the end of newscr, from the first that        *)
(* differs; the lines that are left to do end there.                         *)
ClrBottom(s) ==
    LET blank == s.want[Lines - 1][LastCol]
        blanks == {r \in Rows : \A q \in r..(Lines - 1) : s.want[q] = BlankLine(blank)}
        top == MinOf({r \in blanks : s.cur[r] # BlankLine(blank)} \cup {Lines})
    IN IF device.ed /\ can_clear_with(blank) /\ top < Lines
         THEN [at |-> ClrToEOS(GoTo(s, top, 0), blank), top |-> top]
         ELSE [at |-> s, top |-> Lines]

Forget(s) == [s EXCEPT !.row = Unknown, !.col = Unknown]
LineCleared(s, r) == LET go == GoTo(s, r, 0) IN EraseCells(go, go.x, LastCol)
LineBlanked(s, r, blank) == PutEach(GoTo(s, r, 0), [x \in 1..Columns |-> blank])
EachRow == [i \in 1..Lines |-> i - 1]

(* ClearScreen(): with the best command that the terminal has.               *)
ClearScreen(s, blank) ==
    LET pen == UpdateAttrs(s, blank)
        cleared ==
            IF device.clear
              THEN EraseBelow([pen EXCEPT !.row = 0, !.col = 0, !.y = 0, !.x = 0, !.wrap = FALSE])
            ELSE IF device.ed
              THEN EraseBelow(UpdateAttrs(GoTo(Forget(s), 0, 0), blank))
            ELSE IF device.el
              THEN GoTo(FoldLeft(LineCleared, Forget(pen), EachRow), 0, 0)
            ELSE GoTo(FoldLeft(LAMBDA t, r : LineBlanked(t, r, blank), pen, EachRow), 0, 0)
    IN [cleared EXCEPT !.cur = [r \in Rows |-> BlankLine(blank)]]

ClrBlank == IF device.bce THEN device.background ELSE Blank

State(want) ==
    [want |-> want, cur |-> curscr, row |-> cursrow, col |-> curscol, term |-> term,
     y |-> tty.y, x |-> tty.x, wrap |-> tty.wrap, am |-> device.am, pen |-> tty.pen,
     insert |-> FALSE]

Update(s) ==
    LET b == ClrBottom(s) IN FoldLeft(TransformLine, b.at, [i \in 1..b.top |-> i - 1])

Finish(s) ==
    /\ newscr' = s.want /\ curscr' = s.cur
    /\ cursrow' = s.row /\ curscol' = s.col
    /\ term' = s.term
    /\ tty' = [y |-> s.y, x |-> s.x, wrap |-> s.wrap, pen |-> s.pen]
    /\ UNCHANGED device

(* At last the cursor goes to where newscr has it.                           *)
Doupdate(want, clear, home) ==
    LET s == State(want)
        cleared == IF clear THEN ClearScreen(s, ClrBlank) ELSE s
    IN Finish(UpdateAttrs(GoTo(Update(cleared), home[1], home[2]), Blank))

(* newterm(): the first update clears the screen.                            *)
Init ==
    /\ device \in Devices
    /\ newscr = [r \in Rows |-> BlankLine(Blank)] /\ curscr = newscr
    /\ cursrow = Unknown /\ curscol = Unknown
    /\ term = newscr
    /\ tty = [y |-> 0, x |-> 0, wrap |-> FALSE, pen |-> Blank]

Screens == {f \in [Rows -> UNION {Texts[r] : r \in Rows}] : \A r \in Rows : f[r] \in Texts[r]}

Next == \E want \in Screens, home \in Homes :
            Doupdate(want, FALSE, home) \/ Doupdate(want, TRUE, home)
Spec == Init /\ [][Next]_vars
-----------------------------------------------------------------------------
(* After an update the terminal shows newscr, and curscr, from which the     *)
(* next one starts, says so: whichever cells were skipped, erased, repeated, *)
(* deleted or crossed by the cursor, in lines before, after and at the lower *)
(* right corner -- which stays as it was on a terminal that cannot write it. *)
Corner(r, x) == r = Lines - 1 /\ x = LastCol
LineShown ==
    /\ curscr = newscr
    /\ \A r \in Rows, x \in Cols :
          (CanWriteCorner \/ ~Corner(r, x)) => term[r][x] = newscr[r][x]

(* Where the library thinks that it knows the cursor, it is there, and not   *)
(* hanging at the margin: a command that works at the cursor acts there.     *)
CursorTracked ==
    cursrow # Unknown => tty.y = cursrow /\ tty.x = curscol /\ ~tty.wrap
=============================================================================
