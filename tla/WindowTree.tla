----------------------------- MODULE WindowTree -----------------------------
(* The windows of a screen (lib_newwin.c, lib_delwin.c, lib_window.c,        *)
(* wresize.c, lib_touch.c, lib_refresh.c): the list of all windows, the      *)
(* subwindows that share the memory of their parents, and the range of each  *)
(* line that was changed since the last wnoutrefresh().  The lines of a      *)
(* window are treated alike and apart: a window has one line here, and what  *)
(* was written is not told, only where.                                      *)
EXTENDS Integers, SequencesExt

CONSTANTS
    Windows,
    NoWin,
    Columns,        \* columns of the screen
    MaxDepth,       \* bound: generations of subwindows
    Moves,          \* what the application gives to mvderwin(): "nothing",
                    \* "childless" windows, or "any"
    Resizes,        \* the sizes it gives to wresize()
    Grows,          \* whether windows grow with changes that wait to be shown
    Writes          \* whether it writes on its windows and refreshes them

ASSUME WindowsAssumption == NoWin \notin Windows
ASSUME ColumnsAssumption == Columns \in Nat \ {0} /\ MaxDepth \in Nat
ASSUME CallsAssumption ==
    /\ Moves \in {"nothing", "childless", "any"}
    /\ Writes \in BOOLEAN /\ Grows \in BOOLEAN
    /\ Resizes \subseteq 1..Columns

Cols == 0..(Columns - 1)
NOCHANGE == -1
Unchanged == [first |-> NOCHANGE, last |-> NOCHANGE]
Whole(m)  == [first |-> 0, last |-> m]

VARIABLES
    list,           \* _nc_windowlist, the window made last at its head
    parent,         \* _parent
    parx, maxx,     \* _parx and _maxx
    text,           \* _line[].text: the root window whose memory it is, and where in it
    range,          \* firstchar and lastchar
    owed            \* history: columns changed and not copied since

tree == <<list, parent, parx, maxx, text>>
vars == <<list, parent, parx, maxx, text, range, owed>>

Freed == [buf |-> NoWin, at |-> 0]

Init ==
    /\ list = <<>>
    /\ parent = [w \in Windows |-> NoWin]
    /\ parx = [w \in Windows |-> 0] /\ maxx = [w \in Windows |-> 0]
    /\ text = [w \in Windows |-> Freed]
    /\ range = [w \in Windows |-> Unchanged]
    /\ owed = [w \in Windows |-> {}]

Live == {list[i] : i \in 1..Len(list)}
IsSubwin(w) == parent[w] # NoWin

(* The window n generations above w, NoWin if there is none.                 *)
Ancestor(w, n) ==
    LET up[k \in 0..n] == IF k = 0 THEN w
                          ELSE IF up[k - 1] = NoWin THEN NoWin ELSE parent[up[k - 1]]
    IN up[n]
Depth(w) == CHOOSE n \in 0..Len(list) : Ancestor(w, n) # NoWin /\ ~IsSubwin(Ancestor(w, n))

-----------------------------------------------------------------------------
(* The macros of curses.priv.h.                                              *)

ChangedCell(r, c) ==
    IF r.first = NOCHANGE THEN [first |-> c, last |-> c]
    ELSE IF c < r.first THEN [r EXCEPT !.first = c]
    ELSE IF c > r.last THEN [r EXCEPT !.last = c]
    ELSE r

ChangedRange(r, start, end) ==
    [first |-> IF r.first = NOCHANGE \/ r.first > start THEN start ELSE r.first,
     last  |-> IF r.last = NOCHANGE \/ r.last < end THEN end ELSE r.last]

ChangedToEol(r, start, end) ==
    [first |-> IF r.first = NOCHANGE \/ r.first > start THEN start ELSE r.first,
     last  |-> end]

-----------------------------------------------------------------------------
(* wsyncup() marks in each ancestor of w what is marked in the generation    *)
(* below it, wsyncdown() marks in each generation, from the root down to w,  *)
(* what is marked above, both on the ranges rs.  wsyncdown() is called by    *)
(* wnoutrefresh() only: the manual sees no other need for it.                *)

SyncedUp(rs, w) ==
    LET up[n \in 0..Depth(w)] ==
          IF n = 0 THEN rs
          ELSE LET child == Ancestor(w, n - 1)
                   r     == up[n - 1][child]
               IN IF r.first < 0 THEN up[n - 1]
                  ELSE [up[n - 1] EXCEPT ![parent[child]] =
                          ChangedRange(@, r.first + parx[child], r.last + parx[child])]
    IN up[Depth(w)]

Clipped_NotLeft(r, w) ==        \* mutant: a change left of the window stays negative
    [start |-> r.first - parx[w],
     end   |-> IF r.last - parx[w] > maxx[w] THEN maxx[w] ELSE r.last - parx[w]]
(* The change r of w's parent in the columns of w.                           *)
Clipped(r, w) ==
    [start |-> IF r.first - parx[w] < 0 THEN 0 ELSE r.first - parx[w],
     end   |-> IF r.last - parx[w] > maxx[w] THEN maxx[w] ELSE r.last - parx[w]]

SyncedDown(rs, w) ==
    LET down[n \in 0..Depth(w)] ==
          IF n = 0 THEN rs
          ELSE LET child == Ancestor(w, Depth(w) - n)
                   r     == down[n - 1][parent[child]]
               IN IF r.first < 0 THEN down[n - 1]
                  ELSE [down[n - 1] EXCEPT ![child] =
                          ChangedRange(@, Clipped(r, child).start, Clipped(r, child).end)]
    IN down[Depth(w)]

Wsyncup(w) ==
    /\ Writes
    /\ range' = SyncedUp(range, w)
    /\ UNCHANGED <<tree, owed>>

-----------------------------------------------------------------------------
(* Writing on a window; synced tells whether syncok() is on for it.          *)

Changed(w, r, cols, synced) ==
    /\ Writes
    /\ range' = IF synced THEN SyncedUp([range EXCEPT ![w] = r], w)
                          ELSE [range EXCEPT ![w] = r]
    /\ owed' = [owed EXCEPT ![w] = @ \cup cols]
    /\ UNCHANGED tree

Waddch(w, c, synced) == Changed(w, ChangedCell(range[w], c), {c}, synced)

Wclrtoeol(w, c, synced) ==
    Changed(w, ChangedToEol(range[w], c, maxx[w]), c..maxx[w], synced)

Wtouchln(w, changed) ==
    /\ Writes
    /\ range' = [range EXCEPT ![w] = IF changed THEN Whole(maxx[w]) ELSE Unchanged]
    /\ owed' = [owed EXCEPT ![w] = IF changed THEN 0..maxx[w] ELSE {}]
    /\ UNCHANGED tree

(* wnoutrefresh() copies the range of w that wsyncdown() left.               *)
Copied(w) ==
    LET r == SyncedDown(range, w)[w]
    IN IF r.first = NOCHANGE THEN {} ELSE {c \in 0..maxx[w] : r.first <= c /\ c <= r.last}

Wnoutrefresh(w) ==
    /\ Writes
    /\ range' = [SyncedDown(range, w) EXCEPT ![w] = Unchanged]
    /\ owed' = [owed EXCEPT ![w] = {}]
    /\ UNCHANGED tree

-----------------------------------------------------------------------------
(* Making, moving, resizing and deleting windows.                            *)

(* _nc_makenew(): at the head of the list, all of it touched.                *)
Made(w, p, x, m, t) ==
    /\ w \notin Live
    /\ list' = <<w>> \o list
    /\ parent' = [parent EXCEPT ![w] = p]
    /\ parx' = [parx EXCEPT ![w] = x] /\ maxx' = [maxx EXCEPT ![w] = m]
    /\ text' = [text EXCEPT ![w] = t]

Newwin(w, cols) ==
    /\ Made(w, NoWin, -1, cols - 1, [buf |-> w, at |-> 0])
    /\ range' = [range EXCEPT ![w] = Whole(cols - 1)]
    /\ owed' = [owed EXCEPT ![w] = 0..(cols - 1)]

Derwin(w, orig, cols, x) ==
    /\ orig \in Live /\ Depth(orig) < MaxDepth
    /\ x + cols <= maxx[orig] + 1
    /\ Made(w, orig, x, cols - 1, [text[orig] EXCEPT !.at = @ + x])
    /\ range' = [range EXCEPT ![w] = Whole(cols - 1)]
    /\ owed' = [owed EXCEPT ![w] = 0..(cols - 1)]

(* dupwin(): the copy is no subwindow, and is marked as the original is.     *)
Dupwin(w, win) ==
    /\ win \in Live
    /\ Made(w, NoWin, 0, maxx[win], [buf |-> w, at |-> 0])
    /\ range' = [range EXCEPT ![w] = range[win]]
    /\ owed' = [owed EXCEPT ![w] = owed[win]]

MayMove(w) ==
    /\ IsSubwin(w) /\ Moves # "nothing"
    /\ Moves = "childless" => \A v \in Live : parent[v] # w

Mvderwin_BeyondParent(w, x) ==  \* mutant: the place in the parent is not looked at
    /\ MayMove(w)
    /\ range' = SyncedUp(range, w)
    /\ parx' = [parx EXCEPT ![w] = x]
    /\ text' = [text EXCEPT ![w] = [text[parent[w]] EXCEPT !.at = @ + x]]
    /\ UNCHANGED <<list, parent, maxx, owed>>

(* mvderwin(): w shows another part of its parent; what w's own subwindows   *)
(* show is not looked at.                                                    *)
Mvderwin(w, x) ==
    /\ MayMove(w)
    /\ x + maxx[w] <= maxx[parent[w]]
    /\ range' = SyncedUp(range, w)
    /\ parx' = [parx EXCEPT ![w] = x]
    /\ text' = [text EXCEPT ![w] = [text[parent[w]] EXCEPT !.at = @ + x]]
    /\ UNCHANGED <<list, parent, maxx, owed>>

(* A subwindow is fitted into its parent, and its pointers are set.          *)
Fitted(g, w) ==
    LET p == parent[w]
        x == IF g.parx[w] > g.maxx[p] THEN g.maxx[p] ELSE g.parx[w]
        m == IF x + g.maxx[w] > g.maxx[p] THEN g.maxx[p] - x ELSE g.maxx[w]
    IN [parx |-> x, maxx |-> m, text |-> [g.text[p] EXCEPT !.at = @ + x]]

FitNext(g, w) ==
    IF IsSubwin(w) /\ parent[w] \in g.done
    THEN [parx |-> [g.parx EXCEPT ![w] = Fitted(g, w).parx],
          maxx |-> [g.maxx EXCEPT ![w] = Fitted(g, w).maxx],
          text |-> [g.text EXCEPT ![w] = Fitted(g, w).text],
          done |-> g.done \cup {w}]
    ELSE g

(* repair_subwindows() goes down the generations below the windows done.     *)
(* Parents are behind their subwindows in the list: from its end to its head *)
(* is such an order.                                                         *)
Repaired(g) ==
    LET n == Len(list)
        fit[k \in 0..n] == IF k = 0 THEN g ELSE FitNext(fit[k - 1], list[n + 1 - k])
    IN fit[n]

(* The marks of a line that is wider or narrower now, and what the           *)
(* application is owed: the columns that came in are to be shown.            *)
Regrown(r, size, to) ==
    [first |-> IF to < size THEN 0
               ELSE IF r.first < size + 1 THEN size + 1 ELSE r.first,
     last  |-> to]

(* The window itself: a root window gets new memory, and whoever used the old *)
(* has nothing until it is fitted.                                           *)
SizedTo(w, cols) ==
    [parx |-> parx, maxx |-> [maxx EXCEPT ![w] = cols - 1],
     text |-> IF IsSubwin(w)
              THEN [text EXCEPT ![w] = [text[parent[w]] EXCEPT !.at = @ + parx[w]]]
              ELSE [v \in Windows |-> IF v # w /\ text[v].buf = w THEN Freed ELSE text[v]],
     done |-> {w}]

Wresize(w, cols) ==
    /\ cols - 1 # maxx[w]
    /\ Grows \/ cols - 1 < maxx[w] \/ range[w] = Unchanged
    /\ IsSubwin(w) => parx[w] + cols - 1 <= maxx[parent[w]]
    /\ LET g == Repaired(SizedTo(w, cols))
       IN /\ parx' = g.parx /\ maxx' = g.maxx /\ text' = g.text
          /\ owed' = [v \in Windows |->
                IF v = w THEN (owed[v] \cap 0..(cols - 1)) \cup ((maxx[w] + 1)..(cols - 1))
                ELSE owed[v] \cap 0..g.maxx[v]]
    /\ range' = [range EXCEPT ![w] = Regrown(@, maxx[w], cols - 1)]
    /\ UNCHANGED <<list, parent>>

CannotDelete_OnlyFound(w) ==    \* mutant: the list is searched for w alone
    w \notin Live
(* cannot_delete(): the list is searched for w, or for a subwindow of it,    *)
(* whichever comes first.                                                    *)
CannotDelete(w) ==
    LET Ends(i) == list[i] = w \/ (IsSubwin(list[i]) /\ parent[list[i]] = w)
    IN ~\E i \in 1..Len(list) : list[i] = w /\ \A j \in 1..(i - 1) : ~Ends(j)

(* delwin() touches the parent, where the subwindow was.                     *)
Delwin(w) ==
    /\ ~CannotDelete(w)
    /\ \E i \in DOMAIN list : list[i] = w /\ list' = RemoveAt(list, i)
    /\ parent' = [parent EXCEPT ![w] = NoWin]
    /\ parx' = [parx EXCEPT ![w] = 0] /\ maxx' = [maxx EXCEPT ![w] = 0]
    /\ text' = [v \in Windows |-> IF v = w \/ text[v].buf = w THEN Freed ELSE text[v]]
    /\ IF IsSubwin(w)
       THEN /\ range' = [range EXCEPT ![w] = Unchanged, ![parent[w]] = Whole(maxx[parent[w]])]
            /\ owed' = [owed EXCEPT ![w] = {}, ![parent[w]] = 0..maxx[parent[w]]]
       ELSE /\ range' = [range EXCEPT ![w] = Unchanged]
            /\ owed' = [owed EXCEPT ![w] = {}]

Next ==
    \/ \E w \in Windows, cols \in 1..Columns : Newwin(w, cols)
    \/ \E w, orig \in Windows, cols \in 1..Columns, x \in Cols : Derwin(w, orig, cols, x)
    \/ \E w, win \in Windows : Dupwin(w, win)
    \/ \E w \in Live :
          \/ \E c \in 0..maxx[w], synced \in BOOLEAN :
                Waddch(w, c, synced) \/ Wclrtoeol(w, c, synced)
          \/ \E changed \in BOOLEAN : Wtouchln(w, changed)
          \/ Wsyncup(w) \/ Wnoutrefresh(w)
          \/ \E x \in Cols : Mvderwin(w, x)
          \/ \E cols \in Resizes : Wresize(w, cols)
          \/ Delwin(w)

Spec == Init /\ [][Next]_vars

-----------------------------------------------------------------------------
TypeOK ==
    /\ Live \subseteq Windows /\ \A i, j \in 1..Len(list) : list[i] = list[j] => i = j
    /\ parent \in [Windows -> Windows \cup {NoWin}]
    /\ parx \in [Windows -> Cols \cup {-1}] /\ maxx \in [Windows -> Cols]
    /\ text \in [Windows -> [buf : Windows \cup {NoWin}, at : 0..(2 * Columns)]]
    /\ range \in [Windows -> [first : -1..(2 * Columns), last : (-Columns)..((MaxDepth + 1) * Columns)]]
    /\ owed \in [Windows -> SUBSET Cols]

(* delwin() refuses a window that is the parent of another (curs_window(3x)):*)
(* it stops at the window itself if that comes first in the list, so no      *)
(* subwindow may ever come behind its parent, and none is left without.      *)
NoOrphan ==
    \A i \in 1..Len(list) : IsSubwin(list[i]) =>
        \E j \in (i + 1)..Len(list) : list[j] = parent[list[i]]

(* A subwindow "shares memory with the window orig": through any sequence of *)
(* moves, resizes and deletions of it, its parents and its siblings, it lies *)
(* inside its parent and its line is the parent's memory at that place.      *)
SharesMemory ==
    \A w \in Live :
        IF IsSubwin(w)
        THEN /\ parx[w] + maxx[w] <= maxx[parent[w]]
             /\ text[w] = [text[parent[w]] EXCEPT !.at = @ + parx[w]]
        ELSE text[w] = [buf |-> w, at |-> 0]

(* wnoutrefresh() shows a window as it is: every change made through it or   *)
(* an ancestor since the window concerned was last shown, whatever the       *)
(* refreshes and syncs of the others did to the marks.                       *)
Seen(w) ==
    {c \in 0..maxx[w] : \E n \in 0..Depth(w) :
        LET shift[k \in 0..n] == IF k = 0 THEN 0 ELSE shift[k - 1] + parx[Ancestor(w, k - 1)]
        IN c + shift[n] \in owed[Ancestor(w, n)]}
NoChangeLost ==
    \A w \in Live : Seen(w) \subseteq Copied(w)
=============================================================================
