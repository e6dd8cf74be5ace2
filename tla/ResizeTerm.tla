------------------------------ MODULE ResizeTerm ------------------------------
(***************************************************************************)
(* The size of the screen changes (resizeterm.c): every window is fitted   *)
(* to it, level by level of the trees of windows and subwindows, those     *)
(* without subwindows first when it shrinks and those without a parent     *)
(* first when it grows.  One window that does not fit ends the walk, and   *)
(* leaves those before it resized.  Columns are abstracted to the walks    *)
(* that a change of them causes; what windows hold is in WindowTree.       *)
(***************************************************************************)
EXTENDS Integers, Sequences, FiniteSets, FiniteSetsExt, SequencesExt

CONSTANTS
    Names,          \* windows of the application
    RipOffs,        \* lines ripped off, one a window: -1 at the bottom, 1 at the top
    Heights,        \* heights of the terminal
    Sizes,          \* heights and positions that the application asks for
    MaxResizes      \* bound on the changes of size

(* Windows are numbers: the ripped-off ones as in RipOffs, stdscr, and the   *)
(* screens that doupdate() compares.                                         *)
NoWindow == 0
stdscr == -1
curscr == -2
newscr == -3
RipNames == DOMAIN RipOffs
Stolen == Len(RipOffs)
TopStolen == Cardinality({k \in RipNames : RipOffs[k] > 0})

(* With one line left a ripped-off line would be taken for a window that     *)
(* covers the screen, and grow with it.                                      *)
ResizeAssumption ==
    /\ \A k \in RipNames : RipOffs[k] \in {-1, 1}
    /\ Names \cap (RipNames \cup {NoWindow, stdscr, curscr, newscr}) = {}
    /\ Heights \subseteq Nat \ {0, Stolen + 1} /\ Sizes \subseteq Nat

VARIABLES
    list,           \* _nc_windowlist, the newest window first
    win,            \* the windows: _begy, _maxy + 1, _pary, _parent, _yoffset
    lines,          \* screen_lines: the height of the screen
    failed,         \* whether a resize has failed
    resizes
vars == <<list, win, lines, failed, resizes>>

IsSubwin(s, w) == s[w].parent # NoWindow
Window(begy, height, pary, parent, yoffset) ==
    [begy |-> begy, height |-> height, pary |-> pary, parent |-> parent, yoffset |-> yoffset]

(* The number of lines ripped off at one side before the k-th.               *)
Before(k, side) == Cardinality({j \in RipNames : j < k /\ RipOffs[j] = side})

(* _nc_setupscreen(): newscr, curscr, the ripped-off lines, stdscr.          *)
Init ==
    /\ lines \in {n \in Heights : n > Stolen + 1}
    /\ list = <<stdscr>> \o [i \in 1..Stolen |-> Stolen + 1 - i] \o <<curscr, newscr>>
    /\ win = [w \in {newscr, curscr, stdscr} \cup RipNames |->
                 CASE w = stdscr -> Window(0, lines - Stolen, 0, NoWindow, TopStolen)
                   [] w \in RipNames ->
                        Window(IF RipOffs[w] > 0 THEN 0 ELSE lines - w, 1, 0, NoWindow, Before(w, 1))
                   [] OTHER -> Window(0, lines, 0, NoWindow, 0)]
    /\ failed = FALSE /\ resizes = 0

-----------------------------------------------------------------------------
Children(s, w) == {v \in DOMAIN s : s[v].parent = w}

(* wresize(): a subwindow must fit into its parent; the subwindows of a      *)
(* window are fitted into it, from the top down.                             *)
Shrunk(v, limit) ==
    LET pary == Min({v.pary, limit - 1})
    IN [v EXCEPT !.pary = pary, !.height = Min({@, limit - pary})]
RECURSIVE Repaired(_, _)
Repaired(s, w) ==
    FoldSet(LAMBDA v, t : Repaired([t EXCEPT ![v] = Shrunk(@, t[w].height)], v), s, Children(s, w))
CanResize(s, w, height) ==
    /\ height >= 1
    /\ IsSubwin(s, w) /\ height # s[w].height => s[w].pary + height <= s[s[w].parent].height
Resized(s, w, height) ==
    IF height = s[w].height THEN s ELSE Repaired([s EXCEPT ![w].height = height], w)

-----------------------------------------------------------------------------
(* resize_term().  A walk has the windows s, and whether all fitted so far.  *)

(* child_depth(): by the first subwindow that the list has.                  *)
RECURSIVE child_depth(_, _)
child_depth(s, w) ==
    LET children == SelectSeq(list, LAMBDA v : s[v].parent = w)
    IN IF children = <<>> THEN 0 ELSE 1 + child_depth(s, Head(children))
RECURSIVE parent_depth(_, _)
parent_depth(s, w) == IF IsSubwin(s, w) THEN 1 + parent_depth(s, s[w].parent) ELSE 0

ripped_bottom(k) == Before(k, -1) + 1

(* adjust_window(): the screen has now lines, and is to have to.             *)
Position(v, w, now, to) ==
    IF w \in RipNames /\ RipOffs[w] < 0 THEN to - ripped_bottom(w) - v.yoffset
    ELSE IF v.begy >= now + TopStolen - Stolen THEN v.begy + to - now
    ELSE v.begy
Height_AllLines(v, w, now, to) ==   \* mutant: what is ripped off is forgotten
    IF v.height = now \/ v.height = now - Stolen THEN to ELSE Min({v.height, to})
Height(v, w, now, to) ==
    LET stays == (w \in RipNames /\ RipOffs[w] < 0) \/ v.begy >= now + TopStolen - Stolen
        follows == CASE stays \/ to = now -> v.height
                     [] v.height = now - Stolen -> to - Stolen
                     [] v.height = now -> to
                     [] OTHER -> v.height
    IN Min({follows, to})
adjust_window(walk, w, now, to) ==
    LET v == walk.s[w]
        height == Height(v, w, now, to)
        moved == [walk.s EXCEPT ![w].begy = Position(v, w, now, to)]
    IN IF ~walk.ok THEN walk
       ELSE IF CanResize(moved, w, height) THEN [walk EXCEPT !.s = Resized(moved, w, height)]
       ELSE [s |-> moved, ok |-> FALSE]

(* The windows of a level in the order of the list, level after level.       *)
Levels == [i \in 1..Len(list) |-> i - 1]
increase_size(walk, now, to) ==
    LET level(t, depth) ==
            FoldLeft(LAMBDA u, w : adjust_window(u, w, now, to), t,
                     SelectSeq(list, LAMBDA w : parent_depth(t.s, w) = depth))
    IN FoldLeft(level, walk, Levels)
decrease_size(walk, now, to) ==
    LET level(t, depth) ==
            FoldLeft(LAMBDA u, w : adjust_window(u, w, now, to), t,
                     SelectSeq(list, LAMBDA w : child_depth(t.s, w) = depth))
    IN FoldLeft(level, walk, Levels)

(* columns tells how the width changes at the same time: -1, 0 or 1.         *)
resize_term(to, columns) ==
    LET start == [s |-> win, ok |-> TRUE]
        taller == IF to > lines THEN increase_size(start, lines, to) ELSE start
        now == IF to > lines THEN to ELSE lines
        wider == IF columns > 0 THEN increase_size(taller, now, now) ELSE taller
    IN IF to < now \/ columns < 0 THEN decrease_size(wider, now, to) ELSE wider

Resize(to, columns) ==
    /\ resizes < MaxResizes /\ (to # lines \/ columns # 0)
    /\ resizes' = resizes + 1
    /\ LET walk == resize_term(to, columns)
       IN /\ win' = walk.s
          /\ lines' = IF walk.ok THEN to ELSE lines
          /\ failed' = (failed \/ ~walk.ok)
    /\ UNCHANGED list

-----------------------------------------------------------------------------
(* The application's windows.                                                *)
Add(w, window) ==
    /\ w \notin DOMAIN win
    /\ win' = [v \in DOMAIN win \cup {w} |-> IF v = w THEN window ELSE win[v]]
    /\ list' = <<w>> \o list
    /\ UNCHANGED <<lines, failed, resizes>>
Newwin(w, height, begy) ==
    LET n == IF height = 0 THEN lines - Stolen - begy ELSE height
    IN n > 0 /\ Add(w, Window(begy, n, 0, NoWindow, TopStolen))
Derwin(w, orig, height, y) ==
    LET n == IF height = 0 THEN win[orig].height - y ELSE height
    IN n > 0 /\ y + n <= win[orig].height
       /\ Add(w, Window(win[orig].begy + y, n, y, orig, TopStolen))
Mvwin(w, by) ==
    /\ by # win[w].begy /\ by + win[w].height <= lines
    /\ win' = [win EXCEPT ![w].begy = by]
    /\ UNCHANGED <<list, lines, failed, resizes>>
Mvderwin(w, y) ==
    /\ IsSubwin(win, w) /\ y # win[w].pary /\ y + win[w].height <= win[win[w].parent].height
    /\ win' = [win EXCEPT ![w].pary = y]
    /\ UNCHANGED <<list, lines, failed, resizes>>
Wresize(w, height) ==
    /\ height # win[w].height /\ CanResize(win, w, height)
    /\ win' = Resized(win, w, height)
    /\ UNCHANGED <<list, lines, failed, resizes>>

Next ==
    \/ \E to \in Heights, columns \in {-1, 0, 1} : Resize(to, columns)
    \/ \E w \in Names, n, y \in Sizes :
          Newwin(w, n, y) \/ \E orig \in (Names \cap DOMAIN win) \cup {stdscr} : Derwin(w, orig, n, y)
    \/ \E w \in Names \cap DOMAIN win, n \in Sizes : Mvwin(w, n) \/ Mvderwin(w, n) \/ Wresize(w, n)
Spec == Init /\ [][Next]_vars

-----------------------------------------------------------------------------
(* "Resizes the standard and current windows to the specified dimensions"    *)
(* (resizeterm(3x)): the screens that doupdate() compares have the lines of  *)
(* the terminal, stdscr has what is not ripped off, and the ripped-off       *)
(* windows are where they were, counted from their edge.                     *)
ResizedExactly ==
    /\ win[newscr].height = lines /\ win[curscr].height = lines
    /\ win[stdscr].height = lines - Stolen
    /\ \A k \in RipNames :
          /\ win[k].height = 1
          /\ win[k].begy + win[k].yoffset =
                IF RipOffs[k] > 0 THEN Before(k, 1) ELSE lines - 1 - Before(k, -1)

(* So it is until a resize has failed; and whatever happens, resize_term()   *)
(* keeps subwindows "within the updated parent window's limits", whose lines *)
(* they share.                                                               *)
SubwindowsInside ==
    \A w \in DOMAIN win : IsSubwin(win, w) =>
        win[w].height >= 1 /\ win[w].pary >= 0
        /\ win[w].pary + win[w].height <= win[win[w].parent].height
SizesFollow == (~failed => ResizedExactly) /\ SubwindowsInside
=============================================================================
