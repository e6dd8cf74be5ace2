------------------------------- MODULE Update -------------------------------
(* From windows to the terminal (lib_refresh.c, tty_update.c): wnoutrefresh()*)
(* copies the touched lines of a window to the virtual screen newscr, and    *)
(* doupdate() brings the terminal, which the library knows as curscr, to     *)
(* newscr.  A line is one value: windows are as wide as the screen, and what *)
(* happens inside a line is TransformLine's.  Other programs may write on    *)
(* the terminal, and do so while curses is suspended by endwin().            *)
EXTENDS Integers, FiniteSets

CONSTANTS
    Lines,          \* lines of the screen
    Windows,
    Height,         \* Height[w]: lines of window w
    YOffset,        \* _yoffset of w: lines ripped off the top of the screen
    Text, Blank,    \* contents of a line, one of them blank
    Zero,           \* a line of curscr that wredrawln() has forgotten
    Junk,           \* a line of the terminal that another program wrote on
    CanScroll,      \* _scrolling: the terminal can scroll a region
    ClrEos,         \* the terminal has clr_eos
    Places,         \* the rows that the application moves its windows to
    MaxDamage       \* bound: lines that others have damaged at a time

Rows == 0..(Lines - 1)
LinesOf(w) == 0..(Height[w] - 1)

ASSUME LinesAssumption == Lines \in Nat \ {0}
ASSUME WindowsAssumption ==
    /\ Height \in [Windows -> 1..Lines]
    /\ YOffset \in [Windows -> Nat]
    /\ Places \subseteq Rows
ASSUME TextAssumption == Blank \in Text /\ Zero \notin Text /\ Junk \notin Text
ASSUME ModeAssumption ==
    CanScroll \in BOOLEAN /\ ClrEos \in BOOLEAN /\ MaxDamage \in Nat

VARIABLES
    begy,           \* _begy of each window
    text,           \* its lines
    touched,        \* the lines with firstchar # _NOCHANGE
    wclear,         \* the windows with _clear set
    newscr, newtouched, newclear,
    curscr, curtouched, curclear,
    term,           \* what the terminal shows
    garbled,        \* history: lines damaged by others and not reported to curses
    suspended       \* _endwin = ewSuspend

windows  == <<begy, text, touched, wclear>>
virtual  == <<newscr, newtouched, newclear>>
physical == <<curscr, curtouched, curclear>>
terminal == <<term, garbled>>
vars == <<windows, virtual, physical, terminal, suspended>>

(* newterm(): every new window is touched, newscr is to be drawn from a      *)
(* cleared screen, the terminal shows what the shell left there.             *)
Init ==
    /\ begy = [w \in Windows |-> 0]
    /\ text = [w \in Windows |-> [i \in LinesOf(w) |-> Blank]]
    /\ touched = [w \in Windows |-> LinesOf(w)]
    /\ wclear = {w \in Windows : Height[w] = Lines}
    /\ newscr = [r \in Rows |-> Blank] /\ newtouched = Rows /\ newclear = TRUE
    /\ curscr = [r \in Rows |-> Blank] /\ curtouched = Rows /\ curclear = FALSE
    /\ term = [r \in Rows |-> Junk] /\ garbled = {}
    /\ suspended = FALSE

-----------------------------------------------------------------------------
(* The application changes its windows.                                      *)

Write(w, i, t) ==
    /\ text' = [text EXCEPT ![w][i] = t]
    /\ touched' = [touched EXCEPT ![w] = @ \cup {i}]
    /\ UNCHANGED <<begy, wclear, virtual, physical, terminal, suspended>>

Wclear(w) ==
    /\ text' = [text EXCEPT ![w] = [i \in LinesOf(w) |-> Blank]]
    /\ touched' = [touched EXCEPT ![w] = LinesOf(w)]
    /\ wclear' = wclear \cup {w}
    /\ UNCHANGED <<begy, virtual, physical, terminal, suspended>>

Wtouchln_Unclipped(w, y, n, changed) ==     \* mutant: lines past the last are touched
    /\ touched' = [touched EXCEPT ![w] =
          IF changed THEN @ \cup (y..(y + n - 1)) ELSE @ \ (y..(y + n - 1))]
    /\ UNCHANGED <<begy, text, wclear, virtual, physical, terminal, suspended>>
Wtouchln(w, y, n, changed) ==
    /\ touched' = [touched EXCEPT ![w] =
          LET lines == LinesOf(w) \cap (y..(y + n - 1))
          IN IF changed THEN @ \cup lines ELSE @ \ lines]
    /\ UNCHANGED <<begy, text, wclear, virtual, physical, terminal, suspended>>

Mvwin(w, by) ==
    /\ by + Height[w] <= Lines
    /\ begy' = [begy EXCEPT ![w] = by]
    /\ touched' = [touched EXCEPT ![w] = LinesOf(w)]
    /\ UNCHANGED <<text, wclear, virtual, physical, terminal, suspended>>

(* clearok(curscr, TRUE)                                                     *)
Clearok ==
    /\ curclear' = TRUE
    /\ UNCHANGED <<windows, virtual, curscr, curtouched, terminal, suspended>>

ScreenRow(w, i) == begy[w] + YOffset[w] + i

(* The application says that num lines of w from beg on are damaged: these   *)
(* are the lines of the terminal on which w is displayed.  The code forgets  *)
(* the lines of curscr at _begy, whatever _yoffset is.                       *)
Wredrawln(w, beg, num) ==
    LET lines == LinesOf(w) \cap (beg..(beg + num - 1))
    IN /\ touched' = [touched EXCEPT ![w] = @ \cup lines]
       /\ curtouched' = curtouched \cup (Rows \cap ((begy[w] + beg)..(begy[w] + beg + num - 1)))
       /\ curscr' = [r \in Rows |-> IF r - begy[w] \in lines THEN Zero ELSE curscr[r]]
       /\ garbled' = garbled \ {ScreenRow(w, i) : i \in lines}
       /\ UNCHANGED <<begy, text, wclear, virtual, curclear, term, suspended>>

-----------------------------------------------------------------------------
(* wnoutrefresh(): the touched lines that lie on the screen go to newscr.    *)

Shown(w) == {i \in touched[w] : ScreenRow(w, i) \in Rows}
OnRow(w, r) == r - begy[w] - YOffset[w]

CopiedText(w) ==
    [r \in Rows |-> IF OnRow(w, r) \in Shown(w) THEN text[w][OnRow(w, r)] ELSE newscr[r]]

CopiedMarks(w) ==
    newtouched \cup {r \in Rows : CopiedText(w)[r] # newscr[r]}

Wnoutrefresh(w) ==
    /\ newscr' = CopiedText(w)
    /\ newtouched' = CopiedMarks(w)
    /\ newclear' = (newclear \/ w \in wclear)
    /\ touched' = [touched EXCEPT ![w] = @ \ Shown(w)]
    /\ wclear' = wclear \ {w}
    /\ UNCHANGED <<begy, text, physical, terminal, suspended>>

-----------------------------------------------------------------------------
(* doupdate().  An update works on s = [cur, term, marks, lost]: curscr, the *)
(* terminal, the lines to look at, and the lines of garbled.                 *)

(* _nc_scrolln() moves the lines top..bot up by n (down by -n) and blanks    *)
(* those that come in.  Which lines are worth it is _nc_hash_map's choice:   *)
(* here any, one region for each of the two passes of _nc_scroll_optimize.   *)
NoScroll == [n |-> 0, top |-> 0, bot |-> 0]
Scrolls(shifts) ==
    {NoScroll} \cup
    IF CanScroll THEN {m \in [n : shifts, top : Rows, bot : Rows] :
                          m.top + m.n <= m.bot /\ m.top - m.n <= m.bot}
                 ELSE {}

Fill == Lines
Source(m, r) ==
    IF r \notin m.top..m.bot THEN r
    ELSE IF r + m.n \in m.top..m.bot THEN r + m.n ELSE Fill
Moved(m, f) == [r \in Rows |-> IF Source(m, r) = Fill THEN Blank ELSE f[Source(m, r)]]

Scrolled_Untouched(s, m) ==     \* mutant: the scrolled lines are not touched
    [cur   |-> Moved(m, s.cur),
     term  |-> Moved(m, s.term),
     marks |-> s.marks,
     lost  |-> {r \in Rows : Source(m, r) \in s.lost}]
Scrolled(s, m) ==
    [cur   |-> Moved(m, s.cur),
     term  |-> Moved(m, s.term),
     marks |-> IF m.n = 0 THEN s.marks ELSE s.marks \cup (m.top..m.bot),
     lost  |-> {r \in Rows : Source(m, r) \in s.lost}]

(* The blank lines at the end of newscr that ClrBottom() clears: from the    *)
(* first that is not blank in curscr.                                        *)
Low(s, new) ==
    {r \in Rows : /\ ClrEos
                  /\ \E q \in 0..r : /\ s.cur[q] # Blank
                                     /\ \A p \in q..(Lines - 1) : new[p] = Blank}

ClrBottom(s, low) ==
    [s EXCEPT !.cur  = [r \in Rows |-> IF r \in low THEN Blank ELSE s.cur[r]],
              !.term = [r \in Rows |-> IF r \in low THEN Blank ELSE s.term[r]]]

(* TransformLine() of the given lines: it sends what differs from curscr, so *)
(* a damaged line gets whole again only where curscr was forgotten.          *)
TransformLines(s, new, rows) ==
    [s EXCEPT !.cur  = [r \in Rows |-> IF r \in rows THEN new[r] ELSE s.cur[r]],
              !.term = [r \in Rows |->
                  IF r \notin rows \/ s.cur[r] = new[r] THEN s.term[r]
                  ELSE IF s.term[r] = Junk /\ s.cur[r] # Zero THEN Junk
                  ELSE new[r]]]

ClearScreen_OnlyTerm(s) ==      \* mutant: the terminal is cleared and curscr not
    [s EXCEPT !.term = [r \in Rows |-> Blank]]
(* ClearScreen(), and every line drawn on the blank screen.                  *)
ClearScreen(s) ==
    [s EXCEPT !.cur  = [r \in Rows |-> Blank],
              !.term = [r \in Rows |-> Blank]]
ClrUpdate(s, new) == TransformLines(ClearScreen(s), new, Rows)

Optimized(s, new, up, down) ==
    LET scrolled == Scrolled(Scrolled(s, up), down)
        low      == Low(scrolled, new)
    IN TransformLines(ClrBottom(scrolled, low), new, scrolled.marks \ low)

Before(marks) == [cur |-> curscr, term |-> term, marks |-> marks, lost |-> garbled]

(* The terminal and curscr after an update, and the damage still on it.      *)
Result(s) ==
    /\ curscr' = s.cur
    /\ term' = s.term
    /\ garbled' = {r \in s.lost : s.term[r] = Junk}

Resumed_AsIs(clear) == clear    \* mutant: the screen is not cleared after endwin()
(* Coming back from endwin(), _nc_screen_resume() sets newscr's _clear.      *)
Resumed(clear) == clear \/ suspended

(* doupdate() with the given contents, marks and _clear of newscr and the    *)
(* _clear of curscr.  It looks for typing (check_pending()) and finds or not:*)
(* the answer is FALSE in either case, and no update is cut short.           *)
Update(new, marks, nclear, cclear) ==
    /\ IF Resumed(nclear) \/ cclear
       THEN Result(ClrUpdate(Before(Rows), new))
       ELSE \E up \in Scrolls(1..Lines), down \in Scrolls({-k : k \in 1..Lines}) :
               Result(Optimized(Before(marks \cup curtouched), new, up, down))
    /\ newscr' = new
    /\ newtouched' = {} /\ curtouched' = {}
    /\ newclear' = FALSE /\ curclear' = FALSE
    /\ suspended' = FALSE

Doupdate ==
    /\ Update(newscr, newtouched, newclear, curclear)
    /\ UNCHANGED windows

Wrefresh(w) ==
    /\ Update(CopiedText(w), CopiedMarks(w), newclear \/ w \in wclear, curclear)
    /\ touched' = [touched EXCEPT ![w] = @ \ Shown(w)]
    /\ wclear' = wclear \ {w}
    /\ UNCHANGED <<begy, text>>

(* wrefresh(curscr)                                                          *)
WrefreshCurscr ==
    /\ Update(newscr, newtouched, newclear, TRUE)
    /\ UNCHANGED windows

(* endwin(): from here to the next update the terminal is the shell's.       *)
Endwin ==
    /\ ~suspended
    /\ suspended' = TRUE
    /\ term' = [r \in Rows |-> Junk] /\ garbled' = {}
    /\ UNCHANGED <<windows, virtual, physical>>

-----------------------------------------------------------------------------
(* Another program writes on the terminal.                                   *)

Garble(r) ==
    /\ ~suspended /\ Cardinality({q \in Rows : term[q] = Junk}) < MaxDamage
    /\ term' = [term EXCEPT ![r] = Junk]
    /\ garbled' = garbled \cup {r}
    /\ UNCHANGED <<windows, virtual, physical, suspended>>

Updating == Doupdate \/ WrefreshCurscr \/ \E w \in Windows : Wrefresh(w)

Next ==
    \/ \E w \in Windows :
          \/ \E i \in LinesOf(w), t \in Text : Write(w, i, t)
          \/ Wclear(w)
          \/ \E y \in LinesOf(w), n \in 1..Lines, changed \in BOOLEAN :
                Wtouchln(w, y, n, changed)
          \/ \E y \in Places : Mvwin(w, y)
          \/ \E y \in LinesOf(w), n \in 1..Height[w] : Wredrawln(w, y, n)
          \/ Wnoutrefresh(w)
    \/ Clearok
    \/ Updating
    \/ Endwin
    \/ \E r \in Rows : Garble(r)

Spec == Init /\ [][Next]_vars

-----------------------------------------------------------------------------
TypeOK ==
    /\ begy \in [Windows -> Rows]
    /\ text \in [Windows -> UNION {[LinesOf(w) -> Text] : w \in Windows}]
    /\ touched \in [Windows -> SUBSET Rows]
    /\ \A w \in Windows : text[w] \in [LinesOf(w) -> Text] /\ touched[w] \subseteq LinesOf(w)
    /\ wclear \subseteq Windows
    /\ newscr \in [Rows -> Text] /\ newtouched \subseteq Rows /\ newclear \in BOOLEAN
    /\ curscr \in [Rows -> Text \cup {Zero}] /\ curtouched \subseteq Rows
    /\ curclear \in BOOLEAN
    /\ term \in [Rows -> Text \cup {Junk}] /\ garbled \subseteq Rows
    /\ suspended \in BOOLEAN

(* doupdate() looks only at marked lines, so each line in which the virtual  *)
(* and the physical screen differ must be marked in one of them, whatever    *)
(* mixture of refreshes, redraws, scrolls and clears came before.            *)
PendingMarked ==
    \A r \in Rows : newscr[r] # curscr[r] => r \in newtouched \cup curtouched

(* Every optimization trusts that curscr is what the terminal shows: it is,  *)
(* but for lines that others damaged, lines that curses was told to forget,  *)
(* and a screen that is about to be cleared.                                 *)
ScreenTracked ==
    newclear \/ suspended \/
    \A r \in Rows \ garbled : curscr[r] = Zero \/ term[r] = curscr[r]

(* When nothing is left to update the terminal shows the virtual screen,     *)
(* except damage nobody reported: what wredrawln() was told of is repaired,  *)
(* and so is whatever the shell did between endwin() and the next update.    *)
Settled ==
    newtouched \cup curtouched = {} /\ ~newclear /\ ~curclear /\ ~suspended
        => \A r \in Rows \ garbled : term[r] = newscr[r]
=============================================================================
