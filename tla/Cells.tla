--------------------------------- MODULE Cells ---------------------------------
(* The cells of windows in the build for wide characters (base/lib_addch.c and *)
(* its neighbours).  A wide character takes two cells, its base and its        *)
(* extension, and every operation that writes a cell may cut one in two.       *)
(* Windows keep the first and last changed column of each line, from which     *)
(* wnoutrefresh() copies to newscr; of a pad a rectangle is copied.            *)
EXTENDS Integers, Sequences, FiniteSets, FiniteSetsExt

CONSTANTS
    Layouts,        \* records of what differs between runs of the program
    Narrow, Wide,   \* characters of one and of two columns, the blank aside
    Careless        \* calls that may leave halves of characters:
                    \*   "beside", "over", "insert", "cut", "pad"

LayoutsAssumption ==
    \A l \in Layouts : /\ l.rows \in Nat \ {0} /\ l.cols \in Nat \ {0} /\ l.scroll \in BOOLEAN
                       /\ l.beg \in Seq(Nat) /\ l.width \in Seq(Nat \ {0})
                       /\ Len(l.width) = Len(l.beg) /\ l.pads \subseteq 1..Len(l.beg)
                       /\ \A w \in (1..Len(l.beg)) \ l.pads : l.beg[w] + l.width[w] <= l.cols

VARIABLES
    lay,            \* the windows' first columns and widths, which are pads,
                    \*   their lines and scrollok(); the columns of the screen
    text,           \* text[w][y][x]: a character, and 1 or 2 for its halves
    mark,           \* mark[w][y]: firstchar and lastchar
    newscr,
    shown,          \* the cells of newscr that are as w's last refresh left them
    pad,            \* pad[w]: _pad, where a pad was shown last
    did             \* the window that the last call refreshed, or 0
vars == <<lay, text, mark, newscr, shown, pad, did>>

Blank == <<" ", 0>>
Base(c) == c[2] = 1         \* isWidecBase
Ext(c) == c[2] = 2          \* isWidecExt
NoChange == <<-1, -1>>

AllWindows == 1..Len(lay.beg)
Lines == 0..(lay.rows - 1)
Maxx(w) == lay.width[w] - 1
ColumnsOf(w) == 0..Maxx(w)
Screen == 0..(lay.cols - 1)
Pads == lay.pads
Never == [y |-> -1, x |-> -1, top |-> -1, left |-> -1, bottom |-> -1, right |-> -1]
BlankLine(n) == [x \in 0..n |-> Blank]

(* A new window is blank and wholly marked.                                  *)
Init ==
    /\ lay \in Layouts
    /\ text = [w \in AllWindows |-> [y \in Lines |-> BlankLine(Maxx(w))]]
    /\ mark = [w \in AllWindows |-> [y \in Lines |-> <<0, Maxx(w)>>]]
    /\ newscr = [y \in Lines |-> BlankLine(lay.cols - 1)]
    /\ shown = [w \in AllWindows |-> [y \in Lines |-> {}]]
    /\ pad = [w \in Pads |-> Never] /\ did = 0

(* No line has half a character.                                             *)
Whole(line) ==
    \A x \in DOMAIN line :
        /\ Base(line[x]) => x + 1 \in DOMAIN line /\ line[x + 1] = <<line[x][1], 2>>
        /\ Ext(line[x]) => x - 1 \in DOMAIN line /\ Base(line[x - 1])

-----------------------------------------------------------------------------
(* Cells of a window r with its text t and its marks m.                      *)

Blanked(line, S) == [x \in DOMAIN line |-> IF x \in S THEN Blank ELSE line[x]]

Marked(r, y, first, last) ==
    [r EXCEPT !.m[y] = IF @ = NoChange THEN <<first, last>>
                       ELSE <<Min({@[1], first}), Max({@[2], last})>>]
Put(r, y, x, c) == [Marked(r, y, x, x) EXCEPT !.t[y][x] = c]
TouchedAll(r) == [r EXCEPT !.m = [y \in Lines |-> <<0, Max(DOMAIN r.t[y])>>]]

CharacterAt_BaseStays(line, x) ==
    IF Ext(line[x]) THEN {x} ELSE IF Base(line[x]) THEN {x, x + 1} ELSE {}
(* The cells of the character that column x belongs to, and of extensions    *)
(* that follow it by mistake.                                                *)
CharacterAt(line, x) ==
    LET after == {z \in DOMAIN line : z > x /\ \A k \in (x + 1)..z : Ext(line[k])}
        before == {z \in DOMAIN line : z <= x /\ \A k \in z..x : Ext(line[k])}
        base == {z \in DOMAIN line : z = Min(before) - 1 /\ Base(line[z])}
    IN IF Base(line[x]) THEN {x} \cup after
       ELSE IF Ext(line[x]) THEN before \cup base ELSE {}

Scrolled(r) ==
    TouchedAll([r EXCEPT !.t = [y \in Lines |-> IF y + 1 \in Lines THEN @[y + 1]
                                                ELSE BlankLine(Max(DOMAIN @[y]))]])
(* wrap_to_next_line() on line y.                                            *)
Wraps(y) == y + 1 \in Lines \/ lay.scroll
Wrapped(r, y) == IF y + 1 \notin Lines /\ lay.scroll THEN Scrolled(r) ELSE r
LineAfter(y) == IF y + 1 \in Lines THEN y + 1 ELSE y
Ended(r, y, x) == IF x \in DOMAIN r.t[y] THEN r ELSE Wrapped(r, y)

(* What is at a cell goes with all its halves before the cell is written.    *)
Cleared(r, y, x) ==
    Marked([r EXCEPT !.t[y] = Blanked(@, CharacterAt(@, x))], y, x, x)
AddNarrow(r, y, x, c) == Ended(Put(Cleared(r, y, x), y, x, <<c, 0>>), y, x + 1)

(* An extension without its base below the new character is filled with the  *)
(* cells that follow it.                                                     *)
Orphans(line, x) ==
    LET last == {j \in 0..(Max(DOMAIN line) - x) : ~Ext(line[x + j])}
        from(i) == {j \in last : j >= i}
        i == IF line[x][2] # 0 THEN 0 ELSE 1
    IN IF Ext(line[x + i]) /\ from(i) # {} THEN x..(x + Min(from(i)) - 1) ELSE {}
WithoutOrphans(r, y, x) ==
    LET S == Orphans(r.t[y], x) IN
    IF S = {} THEN r ELSE Marked([r EXCEPT !.t[y] = Blanked(@, S)], y, x, Max(S))
PutWide(r, y, x, c) ==
    LET s == WithoutOrphans(r, y, x) IN
    Ended(Put(Put(s, y, x, <<c, 1>>), y, x + 1, <<c, 2>>), y, x + 2)

(* A wide character, when the cell below it is left as it was.  One that does*)
(* not fit goes to the next line and leaves blanks behind; writing those may *)
(* scroll already.                                                           *)
AddWide(r, y, x, c) ==
    LET filled == Ended(Put(r, y, x, Blank), y, x + 1) IN
    IF Max(DOMAIN r.t[y]) = 0 THEN r
    ELSE IF x + 1 \in DOMAIN r.t[y] THEN PutWide(r, y, x, c)
    ELSE IF ~Wraps(y) THEN filled
    ELSE PutWide(Wrapped(filled, y), LineAfter(y), 0, c)

-----------------------------------------------------------------------------
Of(w) == [t |-> text[w], m |-> mark[w]]
Becomes(w, r) ==
    /\ text' = [text EXCEPT ![w] = r.t] /\ mark' = [mark EXCEPT ![w] = r.m]
    /\ did' = 0 /\ UNCHANGED <<lay, newscr, shown, pad>>
(* What an application that minds its characters does not call.              *)
Cuts(r) == ("cut" \in Careless) \/ \A y \in Lines : Whole(r.t[y])

(* The second half of a wide character would cover the first of another.     *)
Beside(w, y, x) ==
    LET at == IF x = Maxx(w) THEN <<LineAfter(y), 1>> ELSE <<y, x + 1>> IN
    at[2] \in ColumnsOf(w) /\ Base(text[w][at[1]][at[2]])

(* mvwaddch(), which gets a wide character byte by byte                      *)
waddch(w) ==
    \E y \in Lines, x \in ColumnsOf(w) :
        \/ \E c \in Narrow \cup {" "} : Becomes(w, AddNarrow(Of(w), y, x, c))
        \/ \E c \in Wide :
            /\ "beside" \in Careless \/ ~Beside(w, y, x)
            /\ Becomes(w, AddWide(Cleared(Of(w), y, x), y, x, c))

(* mvwadd_wch(), which has code of its own and does not clear the cell first.*)
wadd_wch(w) ==
    \E y \in Lines, x \in ColumnsOf(w) :
        \/ \E c \in Narrow :
            LET r == Ended(Put(Of(w), y, x, <<c, 0>>), y, x + 1) IN Cuts(r) /\ Becomes(w, r)
        \/ \E c \in Wide :
            LET r == AddWide(Marked(Of(w), y, x, x), y, x, c) IN
            ("over" \in Careless \/ Cuts(r)) /\ Becomes(w, r)

whline(w) ==
    \E y \in Lines, x \in ColumnsOf(w), c \in Narrow :
    \E end \in x..Maxx(w) :
        LET line == text[w][y]
            before == IF Ext(line[x]) THEN {x - 1} ELSE {}
            after == IF end < Maxx(w) /\ Ext(line[end + 1]) THEN {end + 1} ELSE {}
            r == Marked(Of(w), y, x, end)
        IN Becomes(w, [r EXCEPT !.t[y] = [z \in ColumnsOf(w) |->
                IF z \in x..end THEN <<c, 0>> ELSE IF z \in before \cup after THEN Blank
                ELSE @[z]]])

wvline(w) ==
    \E y \in Lines, x \in ColumnsOf(w), c \in Narrow :
    \E end \in y..(lay.rows - 1) :
        LET beside(line) ==
                {z \in {x - 1} : Ext(line[x])}
                    \cup {z \in ColumnsOf(w) : z = x + 1 /\ Ext(line[z])}
        IN Becomes(w,
            [t |-> [i \in Lines |-> IF i \in y..end
                        THEN [Blanked(text[w][i], beside(text[w][i])) EXCEPT ![x] = <<c, 0>>]
                        ELSE text[w][i]],
             m |-> [i \in Lines |-> IF i \in y..end THEN Marked(Of(w), i, x, x).m[i]
                                    ELSE mark[w][i]]])

(* wclrtoeol() and wclrtobot(): from a cell to the end of its line, and on.  *)
Clear(w, y, x, end) ==
    [t |-> [i \in Lines |-> IF i = y THEN Blanked(text[w][i], x..Maxx(w))
                            ELSE IF i \in y..end THEN BlankLine(Maxx(w)) ELSE text[w][i]],
     m |-> [i \in Lines |-> IF i = y THEN Marked(Of(w), i, x, Maxx(w)).m[i]
                            ELSE IF i \in y..end THEN <<0, Maxx(w)>> ELSE mark[w][i]]]
wclrtoeol(w) ==
    \E y \in Lines, x \in ColumnsOf(w) : \E end \in {y, lay.rows - 1} :
        LET r == Clear(w, y, x, end) IN Cuts(r) /\ Becomes(w, r)
werase(w) ==
    Becomes(w, TouchedAll([Of(w) EXCEPT !.t = [y \in Lines |-> BlankLine(Maxx(w))]]))

(* winsch() and wins_wch(): what follows moves right by n cells.             *)
Inserted(w, y, x, new) ==
    LET n == Len(new) IN
    [Marked(Of(w), y, x, Maxx(w)) EXCEPT !.t[y] = [z \in ColumnsOf(w) |->
        IF z < x THEN @[z] ELSE IF z < x + n THEN new[z - x + 1] ELSE @[z - n]]]
(* The base of a wide character that is inserted does not become one, and its*)
(* extension keeps the character two cells before, which column 0 has not.   *)
(* One that does not fit blanks the rest of the line without a mark.         *)
InsertedWide(w, y, x) ==
    LET before == IF x = 0 THEN Narrow \cup Wide ELSE {text[w][y][x - 1][1]} IN
    IF x = Maxx(w) THEN {[Of(w) EXCEPT !.t[y][x] = Blank]}
    ELSE {Inserted(w, y, x, <<<<c, 0>>, <<d, 2>>>>) : c \in Wide, d \in before}
winsch(w) ==
    \E y \in Lines, x \in ColumnsOf(w) :
    \E r \in {Inserted(w, y, x, <<<<c, 0>>>>) : c \in Narrow}
           \cup IF "insert" \in Careless THEN InsertedWide(w, y, x) ELSE {} :
        ("insert" \in Careless \/ Cuts(r)) /\ Becomes(w, r)

wdelch(w) ==
    \E y \in Lines, x \in ColumnsOf(w) :
        LET r == [Marked(Of(w), y, x, Maxx(w)) EXCEPT !.t[y] = [z \in ColumnsOf(w) |->
                    IF z < x THEN @[z] ELSE IF z < Maxx(w) THEN @[z + 1] ELSE Blank]]
        IN Cuts(r) /\ Becomes(w, r)

touchwin(w) == Becomes(w, TouchedAll(Of(w)))

(* overlay() and overwrite(): the cells of v below those of w.  A line in    *)
(* which a cell changes touches all lines.                                   *)
copywin(v, w) ==
    \E over \in BOOLEAN :
        LET under(x) == x + lay.beg[w] - lay.beg[v]
            taken(y, x) == under(x) \in ColumnsOf(v)
                           /\ (over => text[v][y][under(x)][1] # " ")
            t == [y \in Lines |-> [x \in ColumnsOf(w) |->
                    IF taken(y, x) THEN text[v][y][under(x)] ELSE text[w][y][x]]]
            r == IF t = text[w] THEN Of(w) ELSE TouchedAll([Of(w) EXCEPT !.t = t])
        IN v # w /\ Cuts(r) /\ Becomes(w, r)

-----------------------------------------------------------------------------
(* The columns of w that are copied from a line, widened to whole characters,*)
(* and on the right up to the next wide character when it ends in one.       *)
CopyFrom(line, first) == IF Ext(line[first]) THEN Max({0, first - 1}) ELSE first
CopyTo(line, last) ==
    LET next == {x \in DOMAIN line : x > last /\ Base(line[x])} IN
    IF line[last][2] = 0 THEN last
    ELSE IF next = {} THEN Max(DOMAIN line) ELSE Min(next) - 1

Fixed_LeftOnly(line, first, last) ==
    IF Ext(line[first]) THEN Blanked(line, Max({0, first - 1})..last) ELSE line
(* Characters of newscr that lie across the ends of what is copied.          *)
Fixed(line, first, last) ==
    LET left == IF Ext(line[first]) THEN Max({0, first - 1}) ELSE first
        after == {x \in DOMAIN line : x > last /\ \A k \in (last + 1)..x : Ext(line[k])}
        right == IF line[last][2] # 0 /\ after # {} THEN Max(after) ELSE last
    IN IF left < first \/ right > last THEN Blanked(line, left..right) ELSE line

(* newscr is what it became by a refresh of w.                               *)
Refreshed(w, new, at) ==
    /\ newscr' = new /\ did' = w
    /\ shown' = [v \in AllWindows |-> [y \in Lines |->
        {x \in Screen : IF v = w THEN <<y, x>> \in at
                        ELSE x \in shown[v][y] /\ new[y][x] = newscr[y][x]}]]
    /\ UNCHANGED lay

(* wnoutrefresh()                                                            *)
wnoutrefresh(w) ==
    LET beg == lay.beg[w]
        copied(y) ==
            LET first == CopyFrom(text[w][y], mark[w][y][1])
                last == CopyTo(text[w][y], mark[w][y][2])
                fixed == Fixed(newscr[y], beg + first, beg + last)
            IN [x \in Screen |-> IF x \in (beg + first)..(beg + last)
                                 THEN text[w][y][x - beg] ELSE fixed[x]]
        new == [y \in Lines |-> IF mark[w][y] = NoChange THEN newscr[y] ELSE copied(y)]
    IN /\ w \notin Pads
       /\ Refreshed(w, new, {<<y, x>> \in Lines \X Screen :
                                x - beg \in ColumnsOf(w) /\ new[y][x] = text[w][y][x - beg]})
       /\ mark' = [mark EXCEPT ![w] = [y \in Lines |-> NoChange]]
       /\ UNCHANGED <<text, pad>>

(* The rectangle of pnoutrefresh(): it begins within the pad and the screen, *)
(* and its end is trimmed to the pad; a screen that is too small is an error.*)
AtLeast0(i) == IF i < 0 THEN 0 ELSE i
Trimmed(w, q) ==
    LET y == AtLeast0(q.y)        x == AtLeast0(q.x)
        top == AtLeast0(q.top)    left == AtLeast0(q.left)
    IN [y |-> y, x |-> x, top |-> top, left |-> left,
        bottom |-> Min({q.bottom, top + lay.rows - 1 - y}),
        right |-> Min({q.right, left + Maxx(w) - x})]
Acceptable(q) ==
    q.bottom \in Lines /\ q.right \in Screen /\ q.top <= q.bottom /\ q.left <= q.right

(* pnoutrefresh() of a pad with cells r: half of a character at the left      *)
(* becomes a blank, though none at the right or beside the rectangle.        *)
pnoutrefresh(w, r, q) ==
    LET p == Trimmed(w, q)
        at == (p.top..p.bottom) \X (p.left..p.right)
        cell(y, x) == LET c == r.t[y - p.top + p.y][x - p.left + p.x] IN
                      IF x = p.left /\ p.x > 0 /\ Ext(c) THEN Blank ELSE c
        new == [y \in Lines |-> [x \in Screen |->
                    IF <<y, x>> \in at THEN cell(y, x) ELSE newscr[y][x]]]
    IN /\ Acceptable(p)
       /\ ("pad" \in Careless) \/ \A y \in Lines : Whole(new[y])
       /\ Refreshed(w, new, at) /\ pad' = [pad EXCEPT ![w] = p]
       /\ text' = [text EXCEPT ![w] = r.t]
       /\ mark' = [mark EXCEPT ![w] = [y \in Lines |->
                        IF y \in p.y..(p.y + p.bottom - p.top) THEN NoChange ELSE r.m[y]]]

(* prefresh() of any part to any place, or of what was shown last, which     *)
(* refresh() and wgetch() do for a pad.                                      *)
Near(S) == IF S = {0} THEN S ELSE (Min(S) - 1)..(Max(S) + 1)
prefresh(w) ==
    /\ w \in Pads
    /\ \/ pnoutrefresh(w, Of(w), pad[w])
       \/ \E top, bottom \in Near(Lines), left, right \in Near(Screen) :
          \E y \in Near(Lines), x \in Near(ColumnsOf(w)) :
            pnoutrefresh(w, Of(w), [y |-> y, x |-> x, top |-> top, left |-> left,
                                      bottom |-> bottom, right |-> right])

(* pechochar(): the character and the last rectangle again.                  *)
pechochar(w) ==
    /\ w \in Pads
    /\ \E y \in Lines, x \in ColumnsOf(w), c \in Narrow :
        pnoutrefresh(w, AddNarrow(Of(w), y, x, c), pad[w])

Next ==
    \E w \in AllWindows :
        \/ waddch(w) \/ wadd_wch(w) \/ whline(w) \/ wvline(w) \/ wclrtoeol(w) \/ werase(w)
        \/ winsch(w) \/ wdelch(w) \/ touchwin(w) \/ wnoutrefresh(w)
        \/ prefresh(w) \/ pechochar(w)
        \/ \E v \in AllWindows : copywin(v, w)
Spec == Init /\ [][Next]_vars

-----------------------------------------------------------------------------
(* Neither a window nor newscr has half of a wide character, in whatever     *)
(* order windows that cut each other's characters are written and refreshed. *)
WholeCharacters ==
    /\ \A w \in AllWindows, y \in Lines : Whole(text[w][y])
    /\ \A y \in Lines : Whole(newscr[y])

(* A refresh shows each marked cell, and each cell in which newscr still had *)
(* what the window showed last, though the cell was blanked as the half of a *)
(* character and not marked; of what is outside the window it changes only   *)
(* characters that reach into it.                                            *)
RefreshedExactly ==
    \A w \in AllWindows \ Pads : did' = w =>
        \A y \in Lines : \A x \in Screen :
            LET z == x - lay.beg[w] IN
            IF z \in ColumnsOf(w)
            THEN z \in mark[w][y][1]..mark[w][y][2] \/ x \in shown[w][y]
                    => newscr'[y][x] = text[w][y][z]
            ELSE \/ newscr'[y][x] = newscr[y][x]
                 \/ (newscr'[y][x] = Blank /\ newscr[y][x][2] # 0)

(* The part of a pad that was shown last can be shown again: pechochar() and *)
(* a refresh with the remembered rectangle change newscr where it is, and to *)
(* what the pad has there, whatever was asked for first.                     *)
ShownAgain ==
    \A w \in Pads : did' = w =>
        LET p == pad'[w] IN
        /\ Acceptable(p) /\ Trimmed(w, p) = p
        /\ p.y + p.bottom - p.top \in Lines /\ p.x + p.right - p.left \in ColumnsOf(w)
        /\ \A y \in Lines : \A x \in Screen :
            IF y \in p.top..p.bottom /\ x \in p.left..p.right
            THEN LET c == text'[w][y - p.top + p.y][x - p.left + p.x] IN
                 newscr'[y][x] = c \/ (x = p.left /\ Ext(c) /\ newscr'[y][x] = Blank)
            ELSE newscr'[y][x] = newscr[y][x]
RefreshExact == [][RefreshedExactly /\ ShownAgain]_vars
=============================================================================
