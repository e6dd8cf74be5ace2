------------------------------ MODULE ColorPairs ------------------------------
(* Colour pairs (new_pair.c, lib_color.c): a table of pairs, an index from   *)
(* colours to pairs, and a list by recency of use threaded through the       *)
(* table.  init_pair() sets a given pair, alloc_pair() finds or makes one,   *)
(* and the cells that are on the screen name their pair.  A combination of   *)
(* foreground and background is one value.                                   *)
EXTENDS Integers, SequencesExt

CONSTANTS
    Colors,         \* combinations of colours
    WithDefault,    \* those with a default colour in them
    Zero,           \* the combination (0,0) of a fresh entry of the table
    Limit,          \* _pair_limit
    PairCount,      \* _pair_count: COLOR_PAIRS of the terminal
    CellsOfScreen,
    FreesAll,       \* the application may free its last pair
    MaxUsed         \* bound: of the counter _pairs_used

PairIds == 0..(Limit - 1)
KEEP == -1  FREE == 0  INIT == 1    \* the modes of an entry: cpKEEP, cpFREE, cpINIT
ERR == -1
Forgotten == -2     \* the pair of a cell of curscr that is to be drawn anew
NoPen == [pair |-> -3, colors |-> Zero]   \* after SET_SCREEN_PAIR(~0)

ASSUME ColorAssumption ==
    /\ WithDefault \subseteq Colors /\ Zero \notin Colors
    /\ Limit \in Nat \ {0, 1} /\ PairCount \in 1..Limit /\ MaxUsed \in Nat
    /\ FreesAll \in BOOLEAN

VARIABLES
    colors, mode, prev, next,   \* the table: fields of each entry
    size,           \* _pair_alloc
    used,           \* _pairs_used
    recent,         \* _recent_pair
    index,          \* _ordered_pairs: the nodes, with the key each was sorted in by
    defaults,       \* _default_pairs
    default,        \* _assumed_color: default colours are in use
    newscr, curscr, \* the pair of each cell
    shown,          \* the colours that the terminal shows
    pen,            \* the pair that the terminal writes with, and its colours
    order,          \* history: the pairs in use, the latest set first
    allocated       \* history: {0} if alloc_pair() returned pair 0
table == <<colors, mode, prev, next, size, used, recent, index, defaults>>
screen == <<newscr, curscr, shown, pen>>
vars == <<table, default, screen, order, allocated>>

InUse(p) == mode[p] = INIT
Node(p, c) == [pair |-> p, key |-> c]
Min2(x, y) == IF x < y THEN x ELSE y

Sizes == {n \in 1..Limit : n = Limit \/ \E m \in 0..Limit : n = 2 ^ m}

(* start_color(): pair 0 has the colours of the terminal, in a table of some  *)
(* size (of 32 entries, if the terminal has as many).                        *)
Init ==
    /\ \E c \in Colors \ WithDefault :
          /\ colors = [p \in PairIds |-> IF p = 0 THEN c ELSE Zero]
          /\ shown = [x \in CellsOfScreen |-> c]
          /\ pen = [pair |-> 0, colors |-> c]
    /\ mode = [p \in PairIds |-> FREE]
    /\ prev = [p \in PairIds |-> 0] /\ next = [p \in PairIds |-> 0]
    /\ size \in Sizes /\ used = 0 /\ recent = 0 /\ index = {} /\ defaults = 0
    /\ default = FALSE
    /\ newscr = [x \in CellsOfScreen |-> 0] /\ curscr = newscr
    /\ order = <<>> /\ allocated = {}

-----------------------------------------------------------------------------
(* The functions of new_pair.c, on a record with the fields of the table,    *)
(* curscr and the pair of the pen.                                           *)

Table == [colors |-> colors, mode |-> mode, prev |-> prev, next |-> next, size |-> size,
          used |-> used, recent |-> recent, index |-> index, defaults |-> defaults,
          curscr |-> curscr, pen |-> pen, ok |-> TRUE]

(* ReservePairs(): the table is doubled until it holds the pair.             *)
ReservePairs(t, want) ==
    IF want < t.size THEN t
    ELSE [t EXCEPT !.size = CHOOSE n \in Sizes : want < n /\ \A m \in Sizes : want < m => n <= m]

Without(t, c) == {n \in t.index : n.key # c}
With(t, p, c) == IF \E n \in t.index : n.key = c THEN t.index ELSE t.index \cup {Node(p, c)}

delink_color_pair(t, p) ==
    LET before == t.prev[p]  after == t.next[p]
    IN IF t.next[before] = p /\ t.prev[after] = p
         THEN [t EXCEPT !.next[before] = after, !.prev[after] = before]
         ELSE t

(* _nc_reset_color_pair(): the index follows a change of colours, and the    *)
(* entry is delinked.  Pair 0, when it is kept, has no part in this.         *)
_nc_reset_color_pair_Stale(t, p, c) ==      \* mutant: the old key stays in the index
    LET d == delink_color_pair(t, p)
    IN IF d.mode[p] = FREE \/ d.colors[p] # c THEN [d EXCEPT !.index = With(d, p, c)] ELSE d
_nc_reset_color_pair(t, p, c) ==
    LET d == delink_color_pair(t, p)
        changes == d.mode[p] > FREE /\ d.colors[p] # c
        removed == IF changes THEN [d EXCEPT !.index = Without(d, d.colors[p])] ELSE d
    IN IF changes \/ d.mode[p] = FREE
         THEN [removed EXCEPT !.index = With(removed, p, c)] ELSE d

(* _nc_set_color_pair(): the pair is in use and comes first in the list.     *)
_nc_set_color_pair(t, p, m) ==
    LET kept == [t EXCEPT !.mode[0] = KEEP]
        counted == [kept EXCEPT !.used = IF kept.mode[p] <= FREE THEN @ + 1 ELSE @, !.mode[p] = m]
    IN IF t.next[0] = p THEN counted
       ELSE [counted EXCEPT !.next = [@ EXCEPT ![p] = t.next[0], ![0] = p],
                            !.prev = [[@ EXCEPT ![t.next[0]] = p] EXCEPT ![p] = 0]]

(* _nc_change_pair(): the cells of the pair are to be drawn anew.            *)
_nc_change_pair_Keep(t, p) == t     \* mutant
_nc_change_pair(t, p) ==
    [t EXCEPT !.curscr = [x \in CellsOfScreen |-> IF @[x] = p THEN Forgotten ELSE @[x]]]

(* The count of pairs with a default colour, if pair p got c.                *)
DefaultPairs(t, p, c) ==
    t.defaults + (IF c \in WithDefault /\ t.colors[p] \notin WithDefault THEN 1
                  ELSE IF c \notin WithDefault /\ t.colors[p] \in WithDefault THEN -1 ELSE 0)

Accepts(t, p, c, usesDefault) ==
    IF usesDefault THEN p <= PairCount + DefaultPairs(t, p, c)
                   ELSE c \notin WithDefault /\ p >= 1

(* The entry is overwritten as a whole: its mode and its links are 0 again   *)
(* before it is set.                                                         *)
_nc_init_pair(s, p, c, usesDefault) ==
    LET t == ReservePairs(s, p)
        counted == [t EXCEPT !.defaults = IF usesDefault THEN DefaultPairs(t, p, c) ELSE @]
        changed == IF t.colors[p] # Zero /\ t.colors[p] # c THEN _nc_change_pair(counted, p) ELSE counted
        reset == _nc_reset_color_pair(changed, p, c)
        copied == [reset EXCEPT !.colors[p] = c, !.mode[p] = FREE, !.prev[p] = 0, !.next[p] = 0]
        set == _nc_set_color_pair(copied, p, INIT)
    IN IF ~Accepts(t, p, c, usesDefault) THEN [t EXCEPT !.ok = FALSE]
       ELSE [set EXCEPT !.pen = IF @.pair = p THEN NoPen ELSE @]

Finish(t) ==
    /\ colors' = t.colors /\ mode' = t.mode /\ prev' = t.prev /\ next' = t.next
    /\ size' = t.size /\ used' = t.used /\ recent' = t.recent /\ index' = t.index
    /\ defaults' = t.defaults /\ curscr' = t.curscr /\ pen' = t.pen
    /\ UNCHANGED <<newscr, shown>>

(* What the history of the order is after a pair was set, or freed.          *)
Dropped(p) ==
    IF \E i \in DOMAIN order : order[i] = p
    THEN RemoveAt(order, CHOOSE i \in DOMAIN order : order[i] = p) ELSE order
Latest(t, p) == IF t.ok THEN <<p>> \o Dropped(p) ELSE order
-----------------------------------------------------------------------------
(* The application.                                                          *)

InitPair(p, c) ==
    LET t == _nc_init_pair(Table, p, c, default)
    IN /\ p >= 1 /\ used < MaxUsed
       /\ Finish(t)
       /\ order' = Latest(t, p)
       /\ UNCHANGED <<default, allocated>>

(* use_default_colors(), assume_default_colors(): pair 0 is set, as if       *)
(* default colours were in use already -- before any other pair, because     *)
(* later it would be cut out of the list together with all that follows.     *)
AssumeDefaultColors(c) ==
    LET t == _nc_init_pair(Table, 0, c, TRUE)
    IN /\ used = 0
       /\ default' = TRUE
       /\ Finish(t)
       /\ UNCHANGED <<order, allocated>>

(* alloc_pair(): the pair that has the colours; or a free one after the one  *)
(* allocated last, in the table, in a larger table, or before it; or, when   *)
(* all are counted as used, the one that was set longest ago.                *)
FreeAfter == {p \in PairIds : recent < p /\ p < size /\ mode[p] = FREE}
FreeBefore == {p \in PairIds : 1 <= p /\ p <= recent /\ mode[p] = FREE}
First(S) == CHOOSE p \in S : \A q \in S : p <= q

NewPair ==
    IF FreeAfter # {} THEN First(FreeAfter)
    ELSE IF size < Limit THEN size
    ELSE IF FreeBefore # {} THEN First(FreeBefore) ELSE ERR

AllocPair(c) ==
    LET room == used + 1 < Limit
        p == IF room THEN NewPair ELSE prev[0]
        t == IF room THEN [ReservePairs(Table, p) EXCEPT !.recent = p] ELSE Table
        u == _nc_init_pair(t, p, c, default)
    IN /\ \A n \in index : n.key # c
       /\ used < MaxUsed
       /\ IF p = ERR THEN UNCHANGED <<table, screen, order>>
                     ELSE Finish(u) /\ order' = Latest(u, p)
       /\ allocated' = (allocated \cup IF p # ERR /\ u.ok THEN {p} ELSE {}) \cap {0}
       /\ UNCHANGED default

FreePair(p) ==
    LET t == delink_color_pair(_nc_change_pair(Table, p), p)
    IN /\ p # 0 /\ p < size /\ InUse(p)
       /\ FreesAll \/ Len(order) > 1
       /\ Finish([t EXCEPT !.index = Without(t, t.colors[p]), !.mode[p] = FREE, !.used = @ - 1])
       /\ order' = Dropped(p)
       /\ UNCHANGED <<default, allocated>>

(* The application writes cells with pairs in use, and doupdate() draws them, *)
(* in some order: a cell whose pair differs, unless its old pair has the same *)
(* colours (TransformLine); the terminal is told of a pair when it is not the *)
(* pen's.  The early cells are drawn before the pen leaves its pair.         *)
SamePair(x, want) ==
    curscr[x] # Forgotten /\ colors[curscr[x]] = colors[want[x]]
UsePen(q, p) == IF q.pair = p THEN q ELSE [pair |-> p, colors |-> colors[p]]
DrawnCells(want) == {x \in CellsOfScreen : ~SamePair(x, want)}
PenLeaves(want) == \E x \in DrawnCells(want) : want[x] # pen.pair
Doupdate(want, early) ==
    /\ \A x \in CellsOfScreen : want[x] = newscr[x] \/ InUse(want[x]) \/ want[x] = 0
    /\ early \subseteq {x \in DrawnCells(want) : want[x] = pen.pair}
    /\ ~PenLeaves(want) => early = DrawnCells(want)
    /\ newscr' = want /\ curscr' = want
    /\ shown' = [x \in CellsOfScreen |-> IF x \notin DrawnCells(want) THEN shown[x]
                                         ELSE IF x \in early THEN pen.colors
                                         ELSE colors[want[x]]]
    /\ pen' = UsePen(IF PenLeaves(want) THEN NoPen ELSE pen, 0)
    /\ UNCHANGED <<table, default, order, allocated>>

Next ==
    \/ \E p \in PairIds, c \in Colors : InitPair(p, c)
    \/ \E c \in Colors : AssumeDefaultColors(c) \/ AllocPair(c)
    \/ \E p \in PairIds : FreePair(p)
    \/ \E want \in [CellsOfScreen -> PairIds], early \in SUBSET CellsOfScreen :
          Doupdate(want, early)
Spec == Init /\ [][Next]_vars
-----------------------------------------------------------------------------
(* The index is sorted by the colours that its nodes point to, in the table: *)
(* they never change under a node, no two nodes are equal, and find_pair()   *)
(* only returns pairs that are in use and have the colours asked for.        *)
IndexSound ==
    /\ \A n \in index : n.pair \in PairIds /\ mode[n.pair] # FREE /\ colors[n.pair] = n.key
    /\ \A m, n \in index : m.key = n.key => m = n

(* The list threaded through the table, forwards and backwards, has the      *)
(* pairs in use by the time they were set, so that prev of pair 0 is the     *)
(* oldest and nothing is recycled before it.                                 *)
Chain == <<0>> \o order \o <<0>>
ListExact ==
    /\ {order[i] : i \in DOMAIN order} = {p \in PairIds \ {0} : InUse(p)}
    /\ \A i \in 1..(Len(Chain) - 1) :
          next[Chain[i]] = Chain[i + 1] /\ prev[Chain[i + 1]] = Chain[i]

(* The pairs are found by their colours and by their age, as both say.       *)
PairsSound == IndexSound /\ ListExact

(* A cell that the library thinks is drawn shows the colours of its pair,    *)
(* however often the pair was set, freed or recycled since.                  *)
CellsTrue == \A x \in CellsOfScreen : curscr[x] # Forgotten => shown[x] = colors[curscr[x]]

(* new_pair.3x: "returns a color pair number in the range 1 through          *)
(* COLOR_PAIRS-1", or -1.                                                    *)
AllocatedInRange == allocated = {}
=============================================================================
