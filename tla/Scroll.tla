------------------------------- MODULE Scroll -------------------------------
(* The choice of scrolls (hashmap.c, hardscroll.c): lines of the old screen  *)
(* curscr are paired with lines of the new screen newscr by their hashes,    *)
(* pairs grow to hunks, and the hunks are moved up and then down.  The hash  *)
(* values are kept from one update to the next and follow the lines.  Lines  *)
(* are one cell wide, as in the test drivers of both files: two lines are    *)
(* the same or they differ.                                                  *)
EXTENDS Integers, SequencesExt

CONSTANTS
    Lines,
    Text, Blank,    \* contents of a line, one of them blank
    Zero,           \* a line of curscr that wredrawln() has forgotten
    Hash,           \* hash(): from contents to numbers; 0 for Zero
    Drawings,       \* the screens that the application draws
    Redraws         \* the ranges of lines that it gives to wredrawln()

Rows == 0..(Lines - 1)
NEWINDEX == -1
Unallocated == [r \in Rows |-> -1]

LinesAssumption == Lines \in Nat \ {0}
TextAssumption == Blank \in Text /\ Zero \notin Text
HashAssumption == Hash \in [Text \cup {Zero} -> Nat] /\ Hash[Zero] = 0
DrawingsAssumption ==
    Drawings \subseteq [Rows -> Text] /\ Redraws \subseteq SUBSET Rows

VARIABLES
    newscr, pending,    \* newscr, and its lines with a mark (PENDING)
    curscr, touched,    \* curscr, and its lines with a mark
    oldhash, newhash,   \* hashes of the lines of curscr and of newscr
    oldnum,             \* OLDNUM: the line of curscr that is to come to a line
    pc,                 \* "app", or the pass of _nc_scroll_optimize: "up", "down"
    at,                 \* the line the pass has reached
    before,             \* history: curscr at the start of the update
    arrived, refused    \* history: lines whose hunk was moved, could not be moved

screens == <<newscr, pending>>
hashes  == <<oldhash, newhash>>
vars == <<screens, curscr, touched, hashes, oldnum, pc, at, before, arrived, refused>>

Init ==
    /\ newscr = [r \in Rows |-> Blank] /\ pending = {}
    /\ curscr = newscr /\ touched = {}
    /\ oldhash = Unallocated /\ newhash = Unallocated
    /\ oldnum = [r \in Rows |-> NEWINDEX]
    /\ pc = "app" /\ at = 0
    /\ before = curscr /\ arrived = {} /\ refused = {}

HashOf(screen) == [r \in Rows |-> Hash[screen[r]]]

-----------------------------------------------------------------------------
(* _nc_hash_map().                                                           *)

(* newhash is computed for the marked lines; both for all the first time.    *)
Rehashed ==
    IF oldhash = Unallocated
    THEN [old |-> HashOf(curscr), new |-> HashOf(newscr)]
    ELSE [old |-> oldhash,
          new |-> [r \in Rows |-> IF r \in pending THEN Hash[newscr[r]] ELSE newhash[r]]]

(* The table is searched from its start up to the first entry with hash 0,   *)
(* which a new hash takes over as it is.  A line whose hash is 0 is counted  *)
(* in that entry, too.                                                       *)
FreeEntry == [hash |-> 0, oldcount |-> 0, newcount |-> 0, oldindex |-> 0, newindex |-> 0]
EmptyTable == [e \in 1..(2 * Lines + 1) |-> FreeEntry]
Entry(table, h) ==
    CHOOSE e \in DOMAIN table :
        /\ table[e].hash \in {h, 0}
        /\ \A d \in 1..(e - 1) : table[d].hash \notin {h, 0}

Counted(hs) ==
    LET old[n \in 0..Lines] ==
          IF n = 0 THEN EmptyTable
          ELSE LET table == old[n - 1]
                   h     == hs.old[n - 1]
               IN [table EXCEPT ![Entry(table, h)] =
                     [@ EXCEPT !.hash = h, !.oldcount = @ + 1, !.oldindex = n - 1]]
        new[n \in 0..Lines] ==
          IF n = 0 THEN old[Lines]
          ELSE LET table == new[n - 1]
                   h     == hs.new[n - 1]
               IN [table EXCEPT ![Entry(table, h)] =
                     [@ EXCEPT !.hash = h, !.newcount = @ + 1, !.newindex = n - 1]]
    IN new[Lines]

(* The lines whose hash is unique in both screens and that have moved.       *)
Unique(table) ==
    LET used  == {e \in DOMAIN table : \A d \in 1..e : table[d].hash # 0}
        pairs == {table[e] : e \in {e \in used : /\ table[e].oldcount = 1 /\ table[e].newcount = 1
                                                 /\ table[e].oldindex # table[e].newindex}}
    IN [r \in Rows |-> IF \E p \in pairs : p.newindex = r
                       THEN (CHOOSE p \in pairs : p.newindex = r).oldindex
                       ELSE NEWINDEX]

Connected(num) == {r \in Rows : num[r] # NEWINDEX}
Shift(num, r) == num[r] - r
InHunk(num, r, s) == r \in Connected(num) /\ Shift(num, r) = Shift(num, s)
Starts(num) == {r \in Connected(num) : ~InHunk(num, r - 1, r)}
(* The line after the hunk of r.                                             *)
End(num, r) ==
    CHOOSE e \in (r + 1)..Lines : /\ \A s \in r..(e - 1) : InHunk(num, s, r)
                                  /\ ~InHunk(num, e, r)
(* The first line of the next hunk, or Lines.                                *)
NextHunk(num, e) ==
    CHOOSE n \in e..Lines : (n = Lines \/ num[n] # NEWINDEX)
                            /\ \A s \in e..(n - 1) : num[s] = NEWINDEX

Cost(t, u) == IF t = u THEN 0 ELSE 1

(* Is it worth to have line from of curscr at line to of newscr?             *)
CostEffective(num, from, to, blank) ==
    LET newfrom == IF num[from] = NEWINDEX THEN from ELSE num[from]
    IN /\ from # to
       /\ Cost(IF blank THEN Blank ELSE curscr[to], newscr[to]) + Cost(curscr[newfrom], newscr[from])
            >= Cost(IF newfrom = from THEN Blank ELSE curscr[newfrom], newscr[from])
                 + Cost(curscr[from], newscr[to])

Extended_WrongWay(num, hs, rows, shift, blank) ==   \* mutant: the shift has the wrong sign
    [num |-> [r \in Rows |-> IF r \in ToSet(rows) THEN r - shift ELSE num[r]], k |-> Len(rows)]
(* Line after line of rows is connected with the given shift, until one is   *)
(* neither the same nor worth it; k lines have been.                         *)
Extended(num, hs, rows, shift, blank) ==
    LET Joins(m, r) == hs.new[r] = hs.old[r + shift] \/ CostEffective(m, r + shift, r, blank)
        ext[n \in 0..Len(rows)] ==
          IF n = 0 THEN [num |-> num, k |-> 0]
          ELSE LET e == ext[n - 1]
               IN IF e.k = n - 1 /\ Joins(e.num, rows[n])
                  THEN [num |-> [e.num EXCEPT ![rows[n]] = rows[n] + shift], k |-> n]
                  ELSE e
    IN ext[Len(rows)]

Downwards(top, limit) ==
    IF limit <= top THEN [n \in 1..(top - limit + 1) |-> top - n + 1] ELSE <<>>
Upwards(first, limit) ==
    IF first < limit THEN [n \in 1..(limit - first) |-> first + n - 1] ELSE <<>>

(* A hunk grows back to lines that the hunks above it do not have and do not *)
(* refer to, and forward to lines that the next hunk does not refer to.      *)
BackLimit(g, shift) == IF shift < 0 THEN g.ref - shift ELSE g.limit
ForwardLimit(num, next, shift) ==
    LET ref == IF next = Lines \/ num[next] >= next THEN next ELSE num[next]
    IN IF shift > 0 THEN ref - shift ELSE next

(* grow_hunks() at the hunk of num that starts in r: g has the connections   *)
(* made so far, the first line that may be connected and the first that may  *)
(* be referred to.                                                           *)
GrownAt(num, hs, g, r) ==
    LET shift   == Shift(num, r)
        end     == End(num, r)
        rows    == Upwards(end, ForwardLimit(num, NextHunk(num, end), shift))
        back    == Extended(g.num, hs, Downwards(r - 1, BackLimit(g, shift)), shift, shift < 0)
        forward == Extended(back.num, hs, rows, shift, shift > 0)
        limit   == end + forward.k
    IN [num |-> forward.num, limit |-> limit,
        ref |-> IF shift > 0 THEN limit + shift ELSE limit]

GrowHunks(num, hs) ==
    LET starts == Starts(num)
        grow[n \in 0..Lines] ==
          IF n = 0 THEN [num |-> num, limit |-> 0, ref |-> 0]
          ELSE IF n - 1 \in starts THEN GrownAt(num, hs, grow[n - 1], n - 1)
          ELSE grow[n - 1]
    IN grow[Lines].num

Abs(n) == IF n < 0 THEN -n ELSE n
Least(m, n) == IF m < n THEN m ELSE n

(* Hunks that are too small, or would move too far for their size, are out.  *)
TooFar(size, shift) == size < 3 \/ size + Least(size \div 8, 2) < Abs(shift)
Eliminated(num) ==
    LET good == {s \in Starts(num) : ~TooFar(End(num, s) - s, Shift(num, s))}
        kept == UNION {s..(End(num, s) - 1) : s \in good}
    IN [r \in Rows |-> IF r \in kept THEN num[r] ELSE NEWINDEX]

HashMap(hs) ==
    LET grown == GrowHunks(Unique(Counted(hs)), hs)
    IN GrowHunks(Eliminated(grown), hs)

-----------------------------------------------------------------------------
(* doupdate() with _scrolling, neither screen to be cleared: the hash map,   *)
(* the two passes, and the lines.                                            *)

StartUpdate ==
    /\ pc = "app" /\ pc' = "up" /\ at' = 0
    /\ oldhash' = Rehashed.old /\ newhash' = Rehashed.new
    /\ oldnum' = HashMap(Rehashed)
    /\ before' = curscr /\ arrived' = {} /\ refused' = {}
    /\ UNCHANGED <<screens, curscr, touched>>

Moved(n, top, bot, f, fill) ==
    [r \in Rows |-> IF r \notin top..bot THEN f[r]
                    ELSE IF r + n \in top..bot THEN f[r + n] ELSE fill]

Scrolln_Untouched(rows, n, top, bot) ==     \* mutant: the scrolled lines are not touched
    /\ curscr' = Moved(n, top, bot, curscr, Blank)
    /\ oldhash' = Moved(n, top, bot, oldhash, Hash[Blank])
    /\ arrived' = arrived \cup rows
    /\ UNCHANGED <<touched, refused>>
(* _nc_scrolln() for the hunk of the lines rows: the terminal may refuse.    *)
Scrolln(rows, n, top, bot) ==
    \/ /\ curscr' = Moved(n, top, bot, curscr, Blank)
       /\ oldhash' = Moved(n, top, bot, oldhash, Hash[Blank])
       /\ touched' = touched \cup (top..bot)
       /\ arrived' = arrived \cup rows
       /\ UNCHANGED refused
    \/ /\ refused' = refused \cup rows
       /\ UNCHANGED <<curscr, oldhash, touched, arrived>>

UpFrom(r)   == {s \in Connected(oldnum) : s >= r /\ oldnum[s] > s}
DownFrom(r) == {s \in Connected(oldnum) : s <= r /\ oldnum[s] < s}

ScrollUp_OneMore ==     \* mutant: the line below the hunk's old place moves, too
    /\ pc = "up"
    /\ \E first \in UpFrom(at) :
          /\ \A s \in UpFrom(at) : first <= s
          /\ LET end == End(oldnum, first)
             IN /\ Scrolln(first..(end - 1), Shift(oldnum, first), first,
                           Least(oldnum[end - 1] + 1, Lines - 1))
                /\ at' = end
    /\ UNCHANGED <<screens, newhash, oldnum, pc, before>>
ScrollUp ==
    /\ pc = "up"
    /\ \E first \in UpFrom(at) :
          /\ \A s \in UpFrom(at) : first <= s
          /\ LET end == End(oldnum, first)
             IN /\ Scrolln(first..(end - 1), Shift(oldnum, first), first, oldnum[end - 1])
                /\ at' = end
    /\ UNCHANGED <<screens, newhash, oldnum, pc, before>>

UpDone ==
    /\ pc = "up" /\ UpFrom(at) = {}
    /\ pc' = "down" /\ at' = Lines - 1
    /\ UNCHANGED <<screens, curscr, touched, hashes, oldnum, before, arrived, refused>>

ScrollDown ==
    /\ pc = "down"
    /\ \E last \in DownFrom(at) :
          /\ \A s \in DownFrom(at) : s <= last
          /\ LET first == CHOOSE s \in Starts(oldnum) : s <= last /\ last < End(oldnum, s)
             IN /\ Scrolln(first..last, Shift(oldnum, last), oldnum[first], last)
                /\ at' = first - 1
    /\ UNCHANGED <<screens, newhash, oldnum, pc, before>>

(* TransformLine() of the marked lines takes the new hash over.  (So does    *)
(* ClrBottom() for the lines it clears, which end up alike.)                 *)
TransformLines ==
    /\ pc = "down" /\ DownFrom(at) = {}
    /\ pc' = "app" /\ at' = 0
    /\ curscr' = [r \in Rows |-> IF r \in pending \cup touched THEN newscr[r] ELSE curscr[r]]
    /\ oldhash' = [r \in Rows |-> IF r \in pending \cup touched THEN newhash[r] ELSE oldhash[r]]
    /\ pending' = {} /\ touched' = {}
    /\ oldnum' = [r \in Rows |-> NEWINDEX]
    /\ before' = curscr' /\ arrived' = {} /\ refused' = {}
    /\ UNCHANGED <<newscr, newhash>>

ClrUpdate_Pending ==    \* mutant: only the marked lines of newscr are hashed anew
    /\ pc = "app"
    /\ curscr' = newscr /\ before' = newscr
    /\ oldhash' = [r \in Rows |-> IF r \in pending THEN newhash[r] ELSE oldhash[r]]
    /\ pending' = {} /\ touched' = {}
    /\ UNCHANGED <<newscr, newhash, oldnum, pc, at, arrived, refused>>
(* doupdate() when a screen has _clear set: no hash is computed, and every   *)
(* line takes over its newhash.                                              *)
ClrUpdate ==
    /\ pc = "app"
    /\ curscr' = newscr /\ before' = newscr
    /\ oldhash' = newhash
    /\ pending' = {} /\ touched' = {}
    /\ UNCHANGED <<newscr, newhash, oldnum, pc, at, arrived, refused>>

-----------------------------------------------------------------------------
(* Between two updates.                                                      *)

(* wnoutrefresh() of a window as large as the screen.                        *)
Draw(s) ==
    /\ pc = "app" /\ pending = {}
    /\ newscr' = s
    /\ pending' = {r \in Rows : s[r] # newscr[r]}
    /\ UNCHANGED <<curscr, touched, hashes, oldnum, pc, at, before, arrived, refused>>

Wredrawln(rows) ==
    /\ pc = "app" /\ touched = {}
    /\ curscr' = [r \in Rows |-> IF r \in rows THEN Zero ELSE curscr[r]]
    /\ before' = curscr'
    /\ touched' = rows
    /\ oldhash' = [r \in Rows |-> IF oldhash # Unallocated /\ r \in rows THEN Hash[Zero]
                                  ELSE oldhash[r]]
    /\ UNCHANGED <<screens, newhash, oldnum, pc, at, arrived, refused>>

Next ==
    \/ StartUpdate \/ ScrollUp \/ UpDone \/ ScrollDown \/ TransformLines
    \/ ClrUpdate
    \/ \E s \in Drawings : Draw(s)
    \/ \E rows \in Redraws : Wredrawln(rows)

Spec == Init /\ [][Next]_vars

-----------------------------------------------------------------------------
TypeOK ==
    /\ newscr \in [Rows -> Text] /\ pending \subseteq Rows
    /\ curscr \in [Rows -> Text \cup {Zero}] /\ touched \subseteq Rows
    /\ oldhash \in [Rows -> Nat \cup {-1}] /\ newhash \in [Rows -> Nat \cup {-1}]
    /\ oldnum \in [Rows -> Rows \cup {NEWINDEX}]
    /\ pc \in {"app", "up", "down"} /\ at \in -1..Lines
    /\ before \in [Rows -> Text \cup {Zero}]
    /\ arrived \subseteq Rows /\ refused \subseteq Rows

(* hardscroll.c: "Obviously enough, no lines to be scrolled will be          *)
(* destroyed": at every moment of the two passes a line of the old screen    *)
(* that has a place in the new one is there, if its hunk was moved, or still *)
(* where it was, unless the terminal refused to move it.                     *)
Survives(r) ==
    IF r \in arrived THEN curscr[r] = before[oldnum[r]]
    ELSE r \in refused \/ curscr[oldnum[r]] = before[oldnum[r]]
NothingDestroyed == \A r \in Connected(oldnum) : Survives(r)

(* So it is when the lines keep their order, whatever hunks there are, and   *)
(* whichever of them the terminal refuses to move.                           *)
Ordered == \A r, s \in Connected(oldnum) : r < s => oldnum[r] < oldnum[s]
OrderedSurvive == Ordered => NothingDestroyed

(* The hashes of a line nobody has marked agree, through scrolls, redraws    *)
(* and clears: an unchanged line is never taken for one that has moved.      *)
HashesAgree ==
    pc = "app" => \A r \in Rows \ (pending \cup touched) : oldhash[r] = newhash[r]

(* hashmap.c: false pairs "will only make the latter stages of update less   *)
(* efficient, not introduce errors": an update ends with the new screen,     *)
(* though it looks at marked lines only.                                     *)
EndsExact == TransformLines => curscr' = newscr
UpdateExact == [][EndsExact]_vars
=============================================================================
