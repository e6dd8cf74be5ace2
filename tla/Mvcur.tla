-------------------------------- MODULE Mvcur --------------------------------
(***************************************************************************)
(* Moving the cursor (lib_mvcur.c): the cheapest of the ways that the      *)
(* terminal's capabilities offer, counted in the time that their strings   *)
(* take.  The library decides from what it believes; the terminal does     *)
(* what it is sent.                                                        *)
(***************************************************************************)
EXTENDS Integers, Sequences, FiniteSets, FiniteSetsExt, SequencesExt

CONSTANTS
    Lines, Columns,
    LONG_DIST,      \* below this many steps moves are worth optimizing
    Devices,        \* terminals: costs of their capabilities, see Capabilities
    Screens,        \* contents of newscr: the attributes of its cells
    Attributes,     \* attributes that text is written with
    Normal, AltCharset, \* none; the alternate character set
    NoOverwriting       \* in place of attributes: cells may not be written again

Infinity == 1000000     \* NC_INFINITY: the cost of what the terminal has not
Unknown == -1
Rows == 0..(Lines - 1)
Cols == 0..(Columns - 1)

(* A capability that is missing costs Infinity.  msgr: move_standout_mode;   *)
(* bw: auto_left_margin; xenl: eat_newline_glitch; tabs: init_tabs, 0 when   *)
(* there are none; tab, cbt: there is a string, though it may cost Infinity  *)
(* to use because tabs are not trusted; feed: cursor_down is a line feed.    *)
Costs == {"cup", "hpa", "vpa", "cuu", "cud", "cuf", "cub", "cuu1", "cud1", "cuf1", "cub1",
          "cr", "home", "ll", "ht", "cbt"}
Flags == {"msgr", "bw", "xenl", "tab", "backtab", "feed"}
MvcurAssumption ==
    /\ Lines \in Nat \ {0} /\ Columns \in Nat \ {0}
    /\ \A d \in Devices :
          /\ \A k \in Costs : d[k] \in Nat \ {0}
          /\ \A k \in Flags : d[k] \in BOOLEAN
          /\ d.tabs \in Nat
    /\ Screens \subseteq [Rows -> [Cols -> Attributes]]
    /\ {Normal, AltCharset} \subseteq Attributes /\ NoOverwriting \notin Attributes

VARIABLES
    device, newscr,
    cursrow, curscol,   \* _cursrow, _curscol
    attrs,              \* SCREEN_ATTRS: what the library believes of the pen
    tty,                \* the terminal: its cursor and its pen
    last                \* the last move: where it should go, whether it could, and
                        \* the cells that it wrote otherwise than newscr has them
vars == <<device, newscr, cursrow, curscol, attrs, tty, last>>

Abs(n) == IF n < 0 THEN -n ELSE n
Has(k) == device[k] < Infinity

-----------------------------------------------------------------------------
(* A way is a cost and the commands to send: <<capability, parameters>>.     *)
Fail == [cost |-> Infinity, send |-> <<>>]
Way(k, parameters) == [cost |-> device[k], send |-> << <<k>> \o parameters >>]
Times(k, n) == [cost |-> n * device[k], send |-> [i \in 1..n |-> <<k>>]]
Then(w, v) == [cost |-> w.cost + v.cost, send |-> w.send \o v.send]
(* The first of the cheapest ways.                                           *)
Better(w, v) == IF v.cost < w.cost THEN v ELSE w
Best(ways) == FoldLeft(Better, Fail, ways)

NextTab(x) == x + device.tabs - (x % device.tabs)
LastTab(x) == IF x > 0 THEN ((x - 1) \div device.tabs) * device.tabs ELSE -1

(* Tabs as far as they do not pass the column to.                            *)
TabsRight(from, to) ==
    IF device.tab /\ device.tabs > 0 /\ Has("ht") THEN (to \div device.tabs) - (from \div device.tabs) ELSE 0
AfterTabs(from, n) == IF n = 0 THEN from ELSE (from \div device.tabs + n) * device.tabs
TabsLeft(from, to) ==
    IF device.backtab /\ device.tabs > 0 /\ Has("cbt")
    THEN Cardinality({x \in to..from-1 : x % device.tabs = 0}) ELSE 0
BeforeTabs(from, to, n) ==
    IF n = 0 THEN from ELSE Min({x \in to..from-1 : x % device.tabs = 0})
(* A tab that may not be used makes the way as bad as none.                  *)
Barred(k, has, from, to) ==
    has /\ device.tabs > 0 /\ ~Has(k)
    /\ IF from < to THEN NextTab(from) <= to ELSE LastTab(from) >= to

(* Cells that are crossed may be written again instead, if all have the      *)
(* attributes ovw, those of the pen.                                         *)
Overwrites_AnyPen(y, x, n, ovw) ==      \* mutant: attributes are not compared
    ovw # NoOverwriting /\ n > 0
Overwrites(y, x, n, ovw) == n > 0 /\ \A i \in x..x+n-1 : newscr[y][i] = ovw
Rewritten(y, x, n) == [cost |-> n, send |-> [i \in 1..n |-> <<"put", <<y, x + i - 1>>>>]]

Right(y, from, to, ovw) ==
    LET tabs == TabsRight(from, to)
        x == AfterTabs(from, tabs)
        rest == IF Overwrites(y, x, to - x, ovw) THEN Rewritten(y, x, to - x)
                ELSE Times("cuf1", to - x)
    IN IF ~Has("cuf1") \/ Barred("ht", device.tab, from, to) THEN Fail
       ELSE Then(Times("ht", tabs), rest)
Left(from, to) ==
    LET tabs == TabsLeft(from, to)
    IN IF ~Has("cub1") \/ Barred("cbt", device.backtab, from, to) THEN Fail
       ELSE Then(Times("cbt", tabs), Times("cub1", BeforeTabs(from, to, tabs) - to))

Vertical(from, to) ==
    LET n == Abs(to - from)
    IN IF to = from THEN [cost |-> 0, send |-> <<>>]
       ELSE IF to > from
         THEN Best(<<Way("vpa", <<to>>), Way("cud", <<n>>),
                     IF device.feed THEN Fail ELSE Times("cud1", n)>>)
       ELSE Best(<<Way("vpa", <<to>>), Way("cuu", <<n>>), Times("cuu1", n)>>)
Horizontal(y, from, to, ovw) ==
    LET n == Abs(to - from)
    IN IF to = from THEN [cost |-> 0, send |-> <<>>]
       ELSE IF to > from
         THEN Best(<<Way("hpa", <<to>>), Way("cuf", <<n>>), Right(y, from, to, ovw)>>)
       ELSE Best(<<Way("hpa", <<to>>), Way("cub", <<n>>), Left(from, to)>>)

relative_move(fromy, fromx, y, x, ovw) ==
    LET v == Vertical(fromy, y)
        h == Horizontal(y, fromx, x, ovw)
    IN IF v.cost >= Infinity \/ h.cost >= Infinity THEN Fail ELSE Then(v, h)

-----------------------------------------------------------------------------
(* onscreen_mvcur(): direct addressing, or the best of five starts.          *)
NotLocal(fy, fx, y, x) ==
    x > LONG_DIST /\ x < Columns - 1 - LONG_DIST /\ Abs(y - fy) + Abs(x - fx) > LONG_DIST
Tactic(known, k, w) == IF known /\ Has(k) /\ w.cost < Infinity THEN Then(Times(k, 1), w) ELSE Fail
Wrap(yold, xold, w) ==
    IF device.bw /\ ~device.xenl /\ yold > 0 /\ Has("cub1") /\ w.cost < Infinity
    THEN Then(IF xold > 0 THEN Times("cr", 1) ELSE Times("cr", 0), Then(Times("cub1", 1), w))
    ELSE Fail
Tactics(yold, xold, y, x, ovw) ==
    << IF Has("cup") THEN Way("cup", <<y, x>>) ELSE Fail,
       IF yold # Unknown /\ xold # Unknown THEN relative_move(yold, xold, y, x, ovw) ELSE Fail,
       Tactic(yold # Unknown, "cr", relative_move(yold, 0, y, x, ovw)),
       Tactic(TRUE, "home", relative_move(0, 0, y, x, ovw)),
       Tactic(TRUE, "ll", relative_move(Lines - 1, 0, y, x, ovw)),
       Wrap(yold, xold, relative_move(yold - 1, Columns - 1, y, x, ovw)) >>
onscreen_mvcur(yold, xold, y, x, ovw) ==
    IF Has("cup") /\ (yold = Unknown \/ xold = Unknown \/ NotLocal(yold, xold, y, x))
    THEN Way("cup", <<y, x>>)
    ELSE Best(Tactics(yold, xold, y, x, ovw))

-----------------------------------------------------------------------------
(* The terminal.                                                             *)
Stop(x) ==
    IF device.tabs = 0 THEN x
    ELSE LET next == x + device.tabs - (x % device.tabs)
         IN IF next \in Cols THEN next ELSE Columns - 1
Back(x) == Max({0} \cup {i \in 0..x-1 : device.tabs > 0 /\ i % device.tabs = 0})
Within(n, top) == Max({0, Min({n, top})})
At(s, y, x) == [s EXCEPT !.y = Within(y, Lines - 1), !.x = Within(x, Columns - 1)]
CursorLeft(s) ==
    IF s.x > 0 THEN At(s, s.y, s.x - 1)
    ELSE IF device.bw /\ s.y > 0 THEN At(s, s.y - 1, Columns - 1) ELSE s
Receive(s, c) ==
    LET k == c[1]
    IN CASE k = "cup" -> At(s, c[2], c[3])
         [] k = "hpa" -> At(s, s.y, c[2])
         [] k = "vpa" -> At(s, c[2], s.x)
         [] k = "cuu" -> At(s, s.y - c[2], s.x)   [] k = "cuu1" -> At(s, s.y - 1, s.x)
         [] k = "cud" -> At(s, s.y + c[2], s.x)   [] k = "cud1" -> At(s, s.y + 1, s.x)
         [] k = "cuf" -> At(s, s.y, s.x + c[2])   [] k = "cuf1" -> At(s, s.y, s.x + 1)
         [] k = "cub" -> At(s, s.y, s.x - c[2])   [] k = "cub1" -> CursorLeft(s)
         [] k = "cr" -> At(s, s.y, 0)
         [] k = "home" -> At(s, 0, 0)
         [] k = "ll" -> At(s, Lines - 1, 0)
         [] k = "ht" -> At(s, s.y, Stop(s.x))
         [] k = "cbt" -> At(s, s.y, Back(s.x))
         [] k = "put" ->
              LET right == c[2] = <<s.y, s.x>> /\ s.pen = newscr[s.y][s.x]
              IN At([s EXCEPT !.spoilt = IF right THEN @ ELSE @ \cup {<<s.y, s.x>>}], s.y, s.x + 1)

-----------------------------------------------------------------------------
(* _nc_real_mvcur(): attributes are taken off for a move if the terminal     *)
(* cannot move with them on, and put back; a column behind the last one is   *)
(* one of the lines below.                                                   *)
PutOff == attrs = AltCharset \/ (attrs # Normal /\ ~device.msgr)
Target(y, x) == <<Min({y + x \div Columns, Lines - 1}), x % Columns>>

Sent(way, to) ==
    LET pen == IF PutOff THEN Normal ELSE attrs
        s == FoldLeft(Receive, [y |-> tty.y, x |-> tty.x, pen |-> pen, spoilt |-> {}], way.send)
    IN IF way.cost >= Infinity
       THEN /\ last' = [to |-> to, ok |-> FALSE, spoilt |-> {}]
            /\ UNCHANGED <<cursrow, curscol, tty>>
       ELSE /\ last' = [to |-> to, ok |-> TRUE, spoilt |-> s.spoilt]
            /\ cursrow' = to[1] /\ curscol' = to[2]
            /\ tty' = [y |-> s.y, x |-> s.x]
real_mvcur(yold, xold, ynew, xnew, overwriting) ==
    LET to == Target(ynew, xnew)
        ovw == IF ~overwriting THEN NoOverwriting ELSE IF PutOff THEN Normal ELSE attrs
    IN Sent(onscreen_mvcur(yold, xold, to[1], to[2], ovw), to)

Init ==
    /\ device \in Devices /\ newscr \in Screens
    /\ cursrow = Unknown /\ curscol = Unknown /\ attrs = Normal
    /\ tty \in [y : {0, Lines - 1}, x : {0, Columns - 1}]
    /\ last = [to |-> <<0, 0>>, ok |-> FALSE, spoilt |-> {}]

(* GoTo(), with what newscr has; and mvcur(), for a program that draws for   *)
(* itself.                                                                   *)
GoTo(y, x) ==
    /\ <<y, x>> # <<cursrow, curscol>>
    /\ real_mvcur(cursrow, curscol, y, x, TRUE)
    /\ UNCHANGED <<device, newscr, attrs>>
mvcur(y, x) ==
    /\ <<y, x>> # <<cursrow, curscol>>
    /\ real_mvcur(cursrow, curscol, y, x, FALSE)
    /\ UNCHANGED <<device, newscr, attrs>>
UpdateAttrs(a) ==
    /\ attrs' = a
    /\ UNCHANGED <<device, newscr, cursrow, curscol, tty, last>>

(* _nc_mvcur_wrap() at endwin(), with attributes off: to the last line, from *)
(* wherever the cursor is, and a carriage return.  _nc_mvcur_resume() does   *)
(* not know what has happened meanwhile.                                     *)
mvcur_wrap ==
    /\ attrs = Normal /\ cursrow # Unknown
    /\ real_mvcur(Unknown, Unknown, Lines - 1, 0, TRUE)
    /\ UNCHANGED <<device, newscr, attrs>>
mvcur_resume ==
    /\ attrs = Normal
    /\ cursrow' = Unknown /\ curscol' = Unknown
    /\ tty' \in [y : {0, Lines - 1}, x : {0, Columns - 1}]
    /\ last' = [last EXCEPT !.ok = FALSE]
    /\ UNCHANGED <<device, newscr, attrs>>

Next ==
    \/ \E y \in Rows, x \in Cols \cup {Columns} : GoTo(y, x) \/ mvcur(y, x)
    \/ \E a \in Attributes : UpdateAttrs(a)
    \/ mvcur_wrap \/ mvcur_resume
Spec == Init /\ [][Next]_vars

-----------------------------------------------------------------------------
(* Whichever way was the cheapest, a move that is reported as made has       *)
(* brought the cursor to its place, where the library has it too, and has    *)
(* left on its way nothing but what newscr has there.                        *)
MoveExact ==
    last.ok => /\ <<tty.y, tty.x>> = last.to /\ <<cursrow, curscol>> = last.to
               /\ last.spoilt = {}
=============================================================================
