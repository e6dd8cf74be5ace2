---------------------------- MODULE UpdateProofs ----------------------------
(* Proofs about Update, for every number of lines and windows: doupdate()    *)
(* never overlooks a line, and curscr tells what the terminal shows.         *)
EXTENDS Update, TLAPS

Screens == [cur   : [Rows -> Text \cup {Zero}],
            term  : [Rows -> Text \cup {Junk}],
            marks : SUBSET Rows,
            lost  : SUBSET Rows]

Scroll == Scrolls(1..Lines) \cup Scrolls({-k : k \in 1..Lines})

(* What a doupdate() may rely on, and what each of its stages preserves: a   *)
(* line of the terminal is that of curscr, unless curscr forgot it or others *)
(* have damaged it.                                                          *)
Tracks(s) ==
    \A r \in Rows : \/ s.cur[r] = Zero
                    \/ s.term[r] = s.cur[r]
                    \/ r \in s.lost /\ s.term[r] = Junk

-----------------------------------------------------------------------------
(* The stages of doupdate().                                                 *)

LEMMA ScrollTypes ==
    ASSUME NEW m \in Scroll
    PROVE  m.n \in Int /\ m.top \in Rows /\ m.bot \in Rows
  BY LinesAssumption DEF Scroll, Scrolls, NoScroll, Rows

LEMMA SourceLine ==
    ASSUME NEW m \in Scroll,
           NEW r \in Rows
    PROVE  /\ Source(m, r) \in Rows \cup {Fill}
           /\ m.n = 0 => Source(m, r) = r
           /\ r \notin m.top..m.bot => Source(m, r) = r
           /\ Source(m, r) # Fill => Source(m, r) \in Rows
<1>1. m.n \in Int /\ m.top \in Rows /\ m.bot \in Rows
  BY ScrollTypes
<1> QED BY <1>1, LinesAssumption DEF Source, Rows, Fill

LEMMA ScrolledScreen ==
    ASSUME NEW m \in Scroll,
           NEW s \in Screens
    PROVE  /\ Scrolled(s, m) \in Screens
           /\ Tracks(s) => Tracks(Scrolled(s, m))
           /\ s.marks \subseteq Scrolled(s, m).marks
           /\ \A r \in Rows : r \notin Scrolled(s, m).marks => Scrolled(s, m).cur[r] = s.cur[r]
<1> DEFINE t == Scrolled(s, m)
<1>0. /\ s.cur \in [Rows -> Text \cup {Zero}] /\ s.term \in [Rows -> Text \cup {Junk}]
      /\ s.marks \subseteq Rows /\ s.lost \subseteq Rows
  BY DEF Screens
<1>1. t.cur = Moved(m, s.cur) /\ t.term = Moved(m, s.term)
      /\ t.marks = (IF m.n = 0 THEN s.marks ELSE s.marks \cup (m.top..m.bot))
      /\ t.lost = {r \in Rows : Source(m, r) \in s.lost}
  BY DEF Scrolled
<1>2. t.cur \in [Rows -> Text \cup {Zero}] /\ t.term \in [Rows -> Text \cup {Junk}]
  BY <1>0, <1>1, SourceLine, TextAssumption DEF Moved
<1>3. t.marks \subseteq Rows /\ t.lost \subseteq Rows /\ s.marks \subseteq t.marks
  BY <1>0, <1>1, ScrollTypes, LinesAssumption DEF Rows
<1>4. t \in Screens
  BY <1>2, <1>3 DEF Screens, Scrolled
<1>5. ASSUME Tracks(s) PROVE Tracks(t)
  <2> SUFFICES ASSUME NEW r \in Rows
               PROVE  \/ t.cur[r] = Zero \/ t.term[r] = t.cur[r]
                      \/ r \in t.lost /\ t.term[r] = Junk
    BY DEF Tracks
  <2>1. CASE Source(m, r) = Fill
    BY <2>1, <1>1 DEF Moved
  <2>2. CASE Source(m, r) # Fill
    BY <2>2, <1>1, <1>5, SourceLine DEF Moved, Tracks
  <2> QED BY <2>1, <2>2
<1>6. ASSUME NEW r \in Rows, r \notin t.marks PROVE t.cur[r] = s.cur[r]
  <2>1. Source(m, r) = r
    BY <1>1, <1>6, SourceLine
  <2>2. r # Fill
    BY LinesAssumption DEF Fill, Rows
  <2> QED BY <1>1, <2>1, <2>2 DEF Moved
<1> QED BY <1>3, <1>4, <1>5, <1>6

LEMMA ClrBottomScreen ==
    ASSUME NEW s \in Screens, NEW low \in SUBSET Rows
    PROVE  /\ ClrBottom(s, low) \in Screens
           /\ Tracks(s) => Tracks(ClrBottom(s, low))
           /\ ClrBottom(s, low).marks = s.marks
           /\ \A r \in Rows : ClrBottom(s, low).cur[r] = IF r \in low THEN Blank ELSE s.cur[r]
<1> DEFINE t == ClrBottom(s, low)
<1>1. /\ s.cur \in [Rows -> Text \cup {Zero}] /\ s.term \in [Rows -> Text \cup {Junk}]
      /\ s.marks \subseteq Rows /\ s.lost \subseteq Rows
  BY DEF Screens
<1>2. /\ t.cur = [r \in Rows |-> IF r \in low THEN Blank ELSE s.cur[r]]
      /\ t.term = [r \in Rows |-> IF r \in low THEN Blank ELSE s.term[r]]
      /\ t.marks = s.marks /\ t.lost = s.lost
  BY DEF ClrBottom, Screens
<1>3. t \in Screens
  BY <1>1, TextAssumption DEF ClrBottom, Screens
<1>4. Tracks(s) => Tracks(t)
  BY <1>1, <1>2 DEF Tracks
<1> QED BY <1>2, <1>3, <1>4

LEMMA TransformedScreen ==
    ASSUME NEW s \in Screens, NEW new \in [Rows -> Text], NEW rows \in SUBSET Rows
    PROVE  /\ TransformLines(s, new, rows) \in Screens
           /\ Tracks(s) => Tracks(TransformLines(s, new, rows))
           /\ \A r \in Rows : TransformLines(s, new, rows).cur[r] =
                                  IF r \in rows THEN new[r] ELSE s.cur[r]
<1> DEFINE t == TransformLines(s, new, rows)
<1>1. /\ s.cur \in [Rows -> Text \cup {Zero}] /\ s.term \in [Rows -> Text \cup {Junk}]
      /\ s.marks \subseteq Rows /\ s.lost \subseteq Rows
  BY DEF Screens
<1>2. /\ t.cur = [r \in Rows |-> IF r \in rows THEN new[r] ELSE s.cur[r]]
      /\ t.term = [r \in Rows |-> IF r \notin rows \/ s.cur[r] = new[r] THEN s.term[r]
                                  ELSE IF s.term[r] = Junk /\ s.cur[r] # Zero THEN Junk
                                  ELSE new[r]]
      /\ t.lost = s.lost
  BY DEF TransformLines, Screens
<1>3. t \in Screens
  BY <1>1, TextAssumption DEF TransformLines, Screens
<1>4. ASSUME Tracks(s) PROVE Tracks(t)
  <2> SUFFICES ASSUME NEW r \in Rows
               PROVE  \/ t.cur[r] = Zero \/ t.term[r] = t.cur[r]
                      \/ r \in t.lost /\ t.term[r] = Junk
    BY DEF Tracks
  <2>1. new[r] # Zero /\ new[r] # Junk /\ (s.cur[r] # Junk \/ s.cur[r] = Zero)
    BY <1>1, TextAssumption
  <2>2. CASE r \notin rows
    BY <1>2, <1>4, <2>2 DEF Tracks
  <2>3. CASE r \in rows /\ s.cur[r] = new[r]
    BY <1>2, <1>4, <2>1, <2>3, TextAssumption DEF Tracks
  <2>4. CASE r \in rows /\ s.cur[r] # new[r]
    <3>1. CASE s.term[r] = Junk /\ s.cur[r] # Zero
      BY <1>2, <1>4, <2>1, <2>4, <3>1 DEF Tracks
    <3>2. CASE ~(s.term[r] = Junk /\ s.cur[r] # Zero)
      BY <1>2, <2>4, <3>2
    <3> QED BY <3>1, <3>2
  <2> QED BY <2>2, <2>3, <2>4
<1> QED BY <1>2, <1>3, <1>4

LEMMA ClearedScreen ==
    ASSUME NEW s \in Screens
    PROVE  ClearScreen(s) \in Screens /\ Tracks(ClearScreen(s))
<1>1. /\ ClearScreen(s).cur = [r \in Rows |-> Blank]
      /\ ClearScreen(s).term = [r \in Rows |-> Blank]
  BY DEF ClearScreen, Screens
<1>2. ClearScreen(s) \in Screens
  BY TextAssumption DEF ClearScreen, Screens
<1> QED BY <1>1, <1>2 DEF Tracks

(* A full redraw leaves the new contents, whatever was there.                *)
LEMMA ClearedUpdate ==
    ASSUME NEW s \in Screens, NEW new \in [Rows -> Text]
    PROVE  /\ ClrUpdate(s, new) \in Screens
           /\ Tracks(ClrUpdate(s, new))
           /\ \A r \in Rows : ClrUpdate(s, new).cur[r] = new[r]
  BY ClearedScreen, TransformedScreen DEF ClrUpdate

(* An optimized update leaves the new contents if every line that differs    *)
(* from them is marked.                                                      *)
LEMMA OptimizedUpdate ==
    ASSUME NEW s \in Screens, NEW new \in [Rows -> Text],
           NEW up \in Scroll, NEW down \in Scroll,
           \A r \in Rows : new[r] # s.cur[r] => r \in s.marks
    PROVE  /\ Optimized(s, new, up, down) \in Screens
           /\ Tracks(s) => Tracks(Optimized(s, new, up, down))
           /\ \A r \in Rows : Optimized(s, new, up, down).cur[r] = new[r]
<1> DEFINE one == Scrolled(s, up)
           two == Scrolled(one, down)
           low == Low(two, new)
           clr == ClrBottom(two, low)
           end == TransformLines(clr, new, two.marks \ low)
<1>1. /\ one \in Screens /\ s.marks \subseteq one.marks
      /\ Tracks(s) => Tracks(one)
      /\ \A r \in Rows : r \notin one.marks => one.cur[r] = s.cur[r]
  BY ScrolledScreen
<1>2. /\ two \in Screens /\ one.marks \subseteq two.marks
      /\ Tracks(one) => Tracks(two)
      /\ \A r \in Rows : r \notin two.marks => two.cur[r] = one.cur[r]
  BY <1>1, ScrolledScreen
<1>3. low \subseteq Rows /\ two.marks \subseteq Rows
  BY <1>2 DEF Low, Screens
<1>4. ASSUME NEW r \in low PROVE new[r] = Blank
  BY <1>4, LinesAssumption DEF Low, Rows
<1>5. /\ clr \in Screens
      /\ Tracks(two) => Tracks(clr)
      /\ \A r \in Rows : clr.cur[r] = IF r \in low THEN Blank ELSE two.cur[r]
  <2> HIDE DEF two, low
  <2> QED BY <1>2, <1>3, ClrBottomScreen
<1>6. /\ end \in Screens
      /\ Tracks(clr) => Tracks(end)
      /\ \A r \in Rows : end.cur[r] = IF r \in two.marks \ low THEN new[r] ELSE clr.cur[r]
  <2> HIDE DEF two, low, clr
  <2> QED BY <1>3, <1>5, TransformedScreen
<1>7. ASSUME NEW r \in Rows PROVE end.cur[r] = new[r]
  <2> HIDE DEF one, two, low, clr, end
  <2>1. CASE r \in low
    BY <1>4, <1>5, <1>6, <2>1
  <2>2. CASE r \in two.marks \ low
    BY <1>6, <2>2
  <2>3. CASE r \notin low /\ r \notin two.marks
    BY <1>1, <1>2, <1>5, <1>6, <2>3
  <2> QED BY <2>1, <2>2, <2>3
<1>8. Optimized(s, new, up, down) = end
  BY DEF Optimized
<1> HIDE DEF one, two, low, clr, end
<1> QED BY <1>1, <1>2, <1>5, <1>6, <1>7, <1>8

-----------------------------------------------------------------------------
(* The step of an update, from any marks that cover the differences.         *)

LEMMA UpdateStep ==
    ASSUME TypeOK,
           NEW new \in [Rows -> Text], NEW marks \in SUBSET Rows,
           NEW nclear \in BOOLEAN, NEW cclear \in BOOLEAN,
           \A r \in Rows : new[r] # curscr[r] => r \in marks \cup curtouched,
           Update(new, marks, nclear, cclear)
    PROVE  /\ newscr' = new /\ newtouched' = {} /\ newclear' = FALSE
           /\ curscr' \in [Rows -> Text \cup {Zero}] /\ curtouched' = {} /\ curclear' = FALSE
           /\ term' \in [Rows -> Text \cup {Junk}] /\ garbled' \subseteq Rows
           /\ suspended' = FALSE
           /\ \A r \in Rows : curscr'[r] = new[r]
           /\ nclear \/ suspended \/ Tracks(Before({}))
                  => \A r \in Rows \ garbled' : term'[r] = new[r]
           /\ nclear \/ suspended \/ Tracks(Before({})) => Tracks(Before({}))'
<1> DEFINE Finish(s) == /\ s \in Screens
                        /\ \A r \in Rows : s.cur[r] = new[r]
                        /\ nclear \/ suspended \/ Tracks(Before({})) => Tracks(s)
                        /\ Result(s)
<1>1. newscr' = new /\ newtouched' = {} /\ newclear' = FALSE
      /\ curtouched' = {} /\ curclear' = FALSE /\ suspended' = FALSE
  BY DEF Update
<1>3. ASSUME NEW m \in SUBSET Rows
      PROVE  Before(m) \in Screens /\ (Tracks(Before({})) => Tracks(Before(m)))
  BY DEF Before, Screens, TypeOK, Tracks
<1>4. \E s : Finish(s)
  <2>1. CASE Resumed(nclear) \/ cclear
    <3>1. Before(Rows) \in Screens
      BY <1>3
    <3>2. Result(ClrUpdate(Before(Rows), new))
      BY <2>1 DEF Update
    <3>3. Finish(ClrUpdate(Before(Rows), new))
      BY <3>1, <3>2, ClearedUpdate
    <3> QED BY <3>3
  <2>2. CASE ~(Resumed(nclear) \/ cclear)
    <3> DEFINE b == Before(marks \cup curtouched)
    <3>1. PICK up \in Scroll, down \in Scroll : Result(Optimized(b, new, up, down))
      BY <2>2 DEF Update, Scroll
    <3>2. marks \cup curtouched \subseteq Rows
      BY DEF TypeOK
    <3>3. b \in Screens /\ (Tracks(Before({})) => Tracks(b))
      BY <1>3, <3>2
    <3>4. \A r \in Rows : new[r] # b.cur[r] => r \in b.marks
      BY DEF Before
    <3>5. ~nclear /\ ~suspended
      BY <2>2 DEF Resumed
    <3>6. /\ Optimized(b, new, up, down) \in Screens
          /\ Tracks(b) => Tracks(Optimized(b, new, up, down))
          /\ \A r \in Rows : Optimized(b, new, up, down).cur[r] = new[r]
      <4> HIDE DEF b
      <4> QED BY <3>1, <3>3, <3>4, OptimizedUpdate
    <3>7. Finish(Optimized(b, new, up, down))
      <4> HIDE DEF b
      <4> QED BY <3>1, <3>3, <3>5, <3>6
    <3> QED BY <3>7
  <2> QED BY <2>1, <2>2
<1>5. PICK s : Finish(s)
  BY <1>4
<1>6. /\ curscr' = s.cur /\ term' = s.term
      /\ garbled' = {r \in s.lost : s.term[r] = Junk}
      /\ s.lost \subseteq Rows
  BY <1>5 DEF Result, Screens
<1>7. /\ curscr' \in [Rows -> Text \cup {Zero}]
      /\ term' \in [Rows -> Text \cup {Junk}] /\ garbled' \subseteq Rows
      /\ \A r \in Rows : curscr'[r] = new[r]
  BY <1>5, <1>6 DEF Screens
<1>8. ASSUME nclear \/ suspended \/ Tracks(Before({})), NEW r \in Rows \ garbled'
      PROVE  term'[r] = new[r]
  BY <1>5, <1>6, <1>8, TextAssumption DEF Tracks
<1>9. ASSUME nclear \/ suspended \/ Tracks(Before({})) PROVE Tracks(Before({}))'
  BY <1>5, <1>6, <1>9 DEF Tracks, Before
<1> QED BY <1>1, <1>7, <1>8, <1>9

-----------------------------------------------------------------------------
(* The inductive invariants.                                                 *)

(* What wnoutrefresh() leaves in newscr: rows of text, and marks that cover  *)
(* what it changed.                                                          *)
LEMMA CopiedScreen ==
    ASSUME TypeOK, NEW w \in Windows
    PROVE  /\ CopiedText(w) \in [Rows -> Text]
           /\ CopiedMarks(w) \in SUBSET Rows
           /\ newtouched \subseteq CopiedMarks(w)
           /\ \A r \in Rows : CopiedText(w)[r] # newscr[r] => r \in CopiedMarks(w)
<1>1. ASSUME NEW r \in Rows, OnRow(w, r) \in Shown(w) PROVE text[w][OnRow(w, r)] \in Text
  BY <1>1 DEF TypeOK, Shown
<1>2. CopiedText(w) \in [Rows -> Text]
  BY <1>1 DEF CopiedText, TypeOK
<1> QED BY <1>2 DEF CopiedMarks, TypeOK

(* The windows' part of TypeOK, which most actions leave alone.              *)
WindowsOK ==
    /\ begy \in [Windows -> Rows]
    /\ text \in [Windows -> UNION {[LinesOf(w) -> Text] : w \in Windows}]
    /\ touched \in [Windows -> SUBSET Rows]
    /\ \A w \in Windows : text[w] \in [LinesOf(w) -> Text] /\ touched[w] \subseteq LinesOf(w)
    /\ wclear \subseteq Windows

LEMMA LinesOnScreen ==
    ASSUME NEW w \in Windows
    PROVE  LinesOf(w) \subseteq Rows /\ Lines \in Nat /\ Height[w] \in Nat
  BY LinesAssumption, WindowsAssumption DEF LinesOf, Rows

(* wnoutrefresh() and wrefresh() leave the window untouched where shown.     *)
LEMMA CopiedWindow ==
    ASSUME WindowsOK, NEW w \in Windows,
           touched' = [touched EXCEPT ![w] = @ \ Shown(w)],
           wclear' = wclear \ {w}, UNCHANGED <<begy, text>>
    PROVE  WindowsOK'
  BY DEF WindowsOK

LEMMA TypeInit == Init => TypeOK
<1> SUFFICES ASSUME Init PROVE TypeOK
  OBVIOUS
<1>1. WindowsOK
  <2>1. ASSUME NEW w \in Windows PROVE [i \in LinesOf(w) |-> Blank] \in [LinesOf(w) -> Text]
    BY TextAssumption
  <2> QED BY <2>1, LinesOnScreen, LinesAssumption DEF Init, WindowsOK, Rows
<1>2. newscr \in [Rows -> Text] /\ curscr \in [Rows -> Text \cup {Zero}]
  BY TextAssumption DEF Init
<1>3. term \in [Rows -> Text \cup {Junk}]
  BY DEF Init
<1>4. newtouched \subseteq Rows /\ curtouched \subseteq Rows /\ garbled \subseteq Rows
  BY DEF Init
<1>5. newclear \in BOOLEAN /\ curclear \in BOOLEAN /\ suspended \in BOOLEAN
  BY DEF Init
<1> QED BY <1>1, <1>2, <1>3, <1>4, <1>5 DEF WindowsOK, TypeOK

(* Every update, from the marks that wnoutrefresh() made or from those that  *)
(* were there, has the premises of UpdateStep and leaves the windows typed.  *)
LEMMA Updates ==
    ASSUME TypeOK, PendingMarked, Updating
    PROVE  /\ WindowsOK'
           /\ \E new \in [Rows -> Text], marks \in SUBSET Rows, nclear, cclear \in BOOLEAN :
                 /\ \A r \in Rows : new[r] # curscr[r] => r \in marks \cup curtouched
                 /\ newclear => nclear
                 /\ Update(new, marks, nclear, cclear)
<1>1. newscr \in [Rows -> Text] /\ newtouched \in SUBSET Rows
      /\ newclear \in BOOLEAN /\ curclear \in BOOLEAN /\ TRUE \in BOOLEAN /\ WindowsOK
  BY DEF TypeOK, WindowsOK
<1>2. \A r \in Rows : newscr[r] # curscr[r] => r \in newtouched \cup curtouched
  BY DEF PendingMarked
<1>3. CASE Doupdate
  <2>1. WindowsOK'
    BY <1>1, <1>3 DEF Doupdate, windows, WindowsOK
  <2> QED BY <1>1, <1>2, <1>3, <2>1 DEF Doupdate
<1>4. CASE WrefreshCurscr
  <2>1. WindowsOK'
    BY <1>1, <1>4 DEF WrefreshCurscr, windows, WindowsOK
  <2> QED BY <1>1, <1>2, <1>4, <2>1 DEF WrefreshCurscr
<1>5. ASSUME NEW w \in Windows, Wrefresh(w)
      PROVE  /\ WindowsOK'
             /\ \E new \in [Rows -> Text], marks \in SUBSET Rows, nclear, cclear \in BOOLEAN :
                   /\ \A r \in Rows : new[r] # curscr[r] => r \in marks \cup curtouched
                   /\ newclear => nclear
                   /\ Update(new, marks, nclear, cclear)
  <2>1. WindowsOK'
    BY <1>1, <1>5, CopiedWindow DEF Wrefresh
  <2>2. Update(CopiedText(w), CopiedMarks(w), newclear \/ w \in wclear, curclear)
    BY <1>5 DEF Wrefresh
  <2>3. CopiedText(w) \in [Rows -> Text] /\ CopiedMarks(w) \in SUBSET Rows
        /\ (newclear \/ w \in wclear) \in BOOLEAN
    BY CopiedScreen
  <2>4. \A r \in Rows : CopiedText(w)[r] # curscr[r] => r \in CopiedMarks(w) \cup curtouched
    BY <1>2, CopiedScreen
  <2> QED BY <1>1, <2>1, <2>2, <2>3, <2>4
<1> QED BY <1>3, <1>4, <1>5 DEF Updating

(* The screens' part of TypeOK.                                              *)
ScreensOK ==
    /\ newscr \in [Rows -> Text] /\ newtouched \subseteq Rows /\ newclear \in BOOLEAN
    /\ curscr \in [Rows -> Text \cup {Zero}] /\ curtouched \subseteq Rows
    /\ curclear \in BOOLEAN
    /\ term \in [Rows -> Text \cup {Junk}] /\ garbled \subseteq Rows
    /\ suspended \in BOOLEAN

Inv == TypeOK /\ PendingMarked

LEMMA Parts == TypeOK <=> WindowsOK /\ ScreensOK
  BY DEF TypeOK, WindowsOK, ScreensOK

LEMMA InitInv == Init => Inv
<1>1. Init => PendingMarked
  BY DEF Init, PendingMarked
<1> QED BY <1>1, TypeInit DEF Inv

(* No step leaves a line that differs and is not marked.                     *)
LEMMA StepInv == Inv /\ [Next]_vars => Inv'
<1> SUFFICES ASSUME Inv, [Next]_vars PROVE Inv'
  OBVIOUS
<1>1. TypeOK /\ WindowsOK /\ ScreensOK /\ PendingMarked
  BY Parts DEF Inv
<1>2. ASSUME WindowsOK', UNCHANGED <<virtual, physical, terminal, suspended>>
      PROVE  Inv'
  <2>1. ScreensOK' /\ PendingMarked'
    BY <1>1, <1>2 DEF ScreensOK, PendingMarked, virtual, physical, terminal
  <2> QED BY <1>2, <2>1 DEF Inv, TypeOK, WindowsOK, ScreensOK
<1>3. ASSUME NEW w \in Windows, NEW i \in LinesOf(w), NEW t \in Text, Write(w, i, t)
      PROVE  Inv'
  <2>1. WindowsOK'
    <3>1. [text[w] EXCEPT ![i] = t] \in [LinesOf(w) -> Text]
      BY <1>1 DEF WindowsOK
    <3>2. text' = [text EXCEPT ![w] = [text[w] EXCEPT ![i] = t]]
      BY <1>3 DEF Write
    <3> QED BY <1>1, <1>3, <3>1, <3>2, LinesOnScreen DEF Write, WindowsOK
  <2> QED BY <1>2, <1>3, <2>1 DEF Write
<1>4. ASSUME NEW w \in Windows, Wclear(w) PROVE Inv'
  <2>1. WindowsOK'
    <3>1. [i \in LinesOf(w) |-> Blank] \in [LinesOf(w) -> Text]
      BY TextAssumption
    <3> QED BY <1>1, <1>4, <3>1, LinesOnScreen DEF Wclear, WindowsOK
  <2> QED BY <1>2, <1>4, <2>1 DEF Wclear
<1>5. ASSUME NEW w \in Windows, NEW y \in LinesOf(w), NEW n \in 1..Lines,
             NEW changed \in BOOLEAN, Wtouchln(w, y, n, changed)
      PROVE  Inv'
  <2>1. WindowsOK'
    <3>1. touched'[w] \subseteq LinesOf(w) /\ touched'[w] \subseteq Rows
      BY <1>1, <1>5, LinesOnScreen DEF Wtouchln, WindowsOK
    <3> QED BY <1>1, <1>5, <3>1 DEF Wtouchln, WindowsOK
  <2> QED BY <1>2, <1>5, <2>1 DEF Wtouchln
<1>6. ASSUME NEW w \in Windows, NEW y \in Places, Mvwin(w, y) PROVE Inv'
  <2>1. WindowsOK'
    BY <1>1, <1>6, LinesOnScreen, WindowsAssumption DEF Mvwin, WindowsOK
  <2> QED BY <1>2, <1>6, <2>1 DEF Mvwin
<1>7. ASSUME NEW w \in Windows, NEW y \in LinesOf(w), NEW n \in 1..Height[w],
             Wredrawln(w, y, n)
      PROVE  Inv'
  <2> DEFINE lines == LinesOf(w) \cap (y..(y + n - 1))
  <2>1. /\ touched' = [touched EXCEPT ![w] = @ \cup lines]
        /\ curtouched' = curtouched \cup (Rows \cap ((begy[w] + y)..(begy[w] + y + n - 1)))
        /\ curscr' = [r \in Rows |-> IF r - begy[w] \in lines THEN Zero ELSE curscr[r]]
        /\ garbled' \subseteq garbled
        /\ UNCHANGED <<begy, text, wclear, virtual, curclear, term, suspended>>
    BY <1>7 DEF Wredrawln
  <2>2. WindowsOK'
    BY <1>1, <2>1, LinesOnScreen DEF WindowsOK
  <2>3. ScreensOK'
    BY <1>1, <2>1 DEF ScreensOK, virtual
  <2>4. PendingMarked'
    <3> SUFFICES ASSUME NEW r \in Rows, newscr'[r] # curscr'[r]
                 PROVE  r \in newtouched' \cup curtouched'
      BY DEF PendingMarked
    <3>1. begy[w] \in Int /\ y \in Int /\ n \in Int /\ r \in Int
      BY <1>1, LinesOnScreen DEF WindowsOK, Rows, LinesOf
    <3>2. CASE r - begy[w] \in lines
      BY <2>1, <3>1, <3>2
    <3>3. CASE r - begy[w] \notin lines
      BY <1>1, <2>1, <3>3 DEF PendingMarked, virtual
    <3> QED BY <3>2, <3>3
  <2> QED BY <2>2, <2>3, <2>4, Parts DEF Inv, TypeOK, WindowsOK, ScreensOK
<1>8. ASSUME NEW w \in Windows, Wnoutrefresh(w) PROVE Inv'
  <2>1. WindowsOK'
    BY <1>1, <1>8, CopiedWindow DEF Wnoutrefresh
  <2>2. ScreensOK'
    BY <1>1, <1>8, CopiedScreen DEF Wnoutrefresh, ScreensOK, physical, terminal
  <2>3. PendingMarked'
    BY <1>1, <1>8, CopiedScreen DEF Wnoutrefresh, PendingMarked, physical
  <2> QED BY <2>1, <2>2, <2>3 DEF Inv, TypeOK, WindowsOK, ScreensOK
<1>9. CASE Clearok
  BY <1>1, <1>9 DEF Clearok, Inv, TypeOK, PendingMarked, windows, virtual, terminal
<1>10. CASE Updating
  <2>1. WindowsOK'
    BY <1>1, <1>10, Updates
  <2>2. PICK new \in [Rows -> Text], marks \in SUBSET Rows, nclear \in BOOLEAN,
             cclear \in BOOLEAN :
                /\ \A r \in Rows : new[r] # curscr[r] => r \in marks \cup curtouched
                /\ Update(new, marks, nclear, cclear)
    BY <1>1, <1>10, Updates
  <2>3. /\ newscr' = new /\ newtouched' = {} /\ newclear' = FALSE
        /\ curscr' \in [Rows -> Text \cup {Zero}] /\ curtouched' = {} /\ curclear' = FALSE
        /\ term' \in [Rows -> Text \cup {Junk}] /\ garbled' \subseteq Rows
        /\ suspended' = FALSE
        /\ \A r \in Rows : curscr'[r] = new[r]
    BY <1>1, <2>2, UpdateStep
  <2> QED BY <2>1, <2>3 DEF Inv, TypeOK, PendingMarked, WindowsOK
<1>11. CASE Endwin
  BY <1>1, <1>11 DEF Endwin, Inv, TypeOK, PendingMarked, windows, virtual, physical
<1>12. ASSUME NEW r \in Rows, Garble(r) PROVE Inv'
  BY <1>1, <1>12 DEF Garble, Inv, TypeOK, PendingMarked, windows, virtual, physical
<1>13. CASE UNCHANGED vars
  BY <1>1, <1>13 DEF vars, windows, virtual, physical, terminal, Inv, TypeOK, PendingMarked
<1> QED
  BY <1>3, <1>4, <1>5, <1>6, <1>7, <1>8, <1>9, <1>10, <1>11, <1>12, <1>13 DEF Next

(* TypeOK holds for every number of lines, windows and contents of lines.    *)
THEOREM TypeCorrect == Spec => []TypeOK
<1>1. Inv => TypeOK
  BY DEF Inv
<1> QED BY <1>1, InitInv, StepInv, PTL DEF Spec

(* No line that doupdate() has to send is ever unmarked.                     *)
THEOREM PendingIsMarked == Spec => []PendingMarked
<1>1. Inv => PendingMarked
  BY DEF Inv
<1> QED BY <1>1, InitInv, StepInv, PTL DEF Spec

-----------------------------------------------------------------------------
(* Where no line is ripped off the top of the screen.                        *)

Tracked == newclear \/ suspended \/ Tracks(Before({}))

LEMMA InitTracked == Init => Tracked
  BY DEF Init, Tracked

LEMMA StepTracked ==
    ASSUME \A w \in Windows : YOffset[w] = 0
    PROVE  Inv /\ Tracked /\ [Next]_vars => Tracked'
<1> SUFFICES ASSUME Inv, Tracked, [Next]_vars PROVE Tracked'
  OBVIOUS
<1>1. TypeOK /\ PendingMarked
  BY DEF Inv
<1>2. ASSUME newclear => newclear', UNCHANGED <<physical, terminal, suspended>>
      PROVE  Tracked'
  BY <1>2 DEF Tracked, Tracks, Before, physical, terminal
<1>3. ASSUME NEW w \in Windows, NEW i \in LinesOf(w), NEW t \in Text, Write(w, i, t)
      PROVE  Tracked'
  BY <1>2, <1>3 DEF Write, virtual
<1>4. ASSUME NEW w \in Windows, Wclear(w) PROVE Tracked'
  BY <1>2, <1>4 DEF Wclear, virtual
<1>5. ASSUME NEW w \in Windows, NEW y \in LinesOf(w), NEW n \in 1..Lines,
             NEW changed \in BOOLEAN, Wtouchln(w, y, n, changed)
      PROVE  Tracked'
  BY <1>2, <1>5 DEF Wtouchln, virtual
<1>6. ASSUME NEW w \in Windows, NEW y \in Places, Mvwin(w, y) PROVE Tracked'
  BY <1>2, <1>6 DEF Mvwin, virtual
<1>7. ASSUME NEW w \in Windows, NEW y \in LinesOf(w), NEW n \in 1..Height[w],
             Wredrawln(w, y, n)
      PROVE  Tracked'
  <2> DEFINE lines == LinesOf(w) \cap (y..(y + n - 1))
  <2>1. /\ curscr' = [r \in Rows |-> IF r - begy[w] \in lines THEN Zero ELSE curscr[r]]
        /\ garbled' = garbled \ {ScreenRow(w, i) : i \in lines}
        /\ UNCHANGED <<virtual, term, suspended>>
    BY <1>7 DEF Wredrawln
  <2>2. begy[w] \in Int /\ YOffset[w] = 0
    BY <1>1 DEF TypeOK, Rows
  <2>3. ASSUME NEW r \in Rows, r - begy[w] \notin lines, r \in garbled PROVE r \in garbled'
    <3>1. ASSUME NEW i \in lines PROVE r # ScreenRow(w, i)
      <4>1. i \in Int /\ r \in Int
        BY LinesAssumption DEF LinesOf, Rows
      <4>2. r - begy[w] # i
        BY <2>3, <3>1
      <4> QED BY <2>2, <4>1, <4>2 DEF ScreenRow
    <3> QED BY <2>1, <2>3, <3>1
  <2>4. ASSUME Tracks(Before({})) PROVE Tracks(Before({}))'
    <3> SUFFICES ASSUME NEW r \in Rows
                 PROVE  \/ curscr'[r] = Zero
                        \/ term'[r] = curscr'[r]
                        \/ r \in garbled' /\ term'[r] = Junk
      BY DEF Tracks, Before
    <3>1. CASE r - begy[w] \in lines
      BY <2>1, <3>1
    <3>2. CASE r - begy[w] \notin lines
      <4>1. \/ curscr[r] = Zero
            \/ term[r] = curscr[r]
            \/ r \in garbled /\ term[r] = Junk
        BY <2>4 DEF Tracks, Before
      <4> QED BY <2>1, <2>3, <3>2, <4>1
    <3> QED BY <3>1, <3>2
  <2> QED BY <2>1, <2>4 DEF Tracked, virtual
<1>8. ASSUME NEW w \in Windows, Wnoutrefresh(w) PROVE Tracked'
  BY <1>2, <1>8 DEF Wnoutrefresh
<1>9. CASE Clearok
  BY <1>9 DEF Clearok, Tracked, Tracks, Before, virtual, terminal
<1>10. CASE Updating
  <2>1. PICK new \in [Rows -> Text], marks \in SUBSET Rows, nclear \in BOOLEAN,
             cclear \in BOOLEAN :
                /\ \A r \in Rows : new[r] # curscr[r] => r \in marks \cup curtouched
                /\ newclear => nclear
                /\ Update(new, marks, nclear, cclear)
    BY <1>1, <1>10, Updates
  <2>2. nclear \/ suspended \/ Tracks(Before({})) => Tracks(Before({}))'
    BY <1>1, <2>1, UpdateStep, ZenonT(30)
  <2> QED BY <2>1, <2>2 DEF Tracked
<1>11. CASE Endwin
  BY <1>11 DEF Endwin, Tracked
<1>12. ASSUME NEW r \in Rows, Garble(r) PROVE Tracked'
  <2>1. /\ term' = [term EXCEPT ![r] = Junk] /\ garbled' = garbled \cup {r}
        /\ UNCHANGED <<virtual, physical, suspended>> /\ term \in [Rows -> Text \cup {Junk}]
    BY <1>1, <1>12 DEF Garble, TypeOK
  <2> QED BY <2>1 DEF Tracked, Tracks, Before, virtual, physical
<1>13. CASE UNCHANGED vars
  BY <1>2, <1>13 DEF vars, virtual
<1> QED
  BY <1>3, <1>4, <1>5, <1>6, <1>7, <1>8, <1>9, <1>10, <1>11, <1>12, <1>13 DEF Next

LEMMA TrackedMeans ==
    ASSUME Inv, Tracked
    PROVE  ScreenTracked /\ Settled
<1>1. ScreenTracked
  BY DEF Tracked, ScreenTracked, Tracks, Before
<1>2. ASSUME newtouched \cup curtouched = {}, ~newclear, ~suspended, NEW r \in Rows \ garbled
      PROVE  term[r] = newscr[r]
  <2>1. newscr[r] = curscr[r] /\ newscr[r] \in Text
    BY <1>2 DEF Inv, TypeOK, PendingMarked
  <2> QED BY <1>1, <1>2, <2>1, TextAssumption DEF ScreenTracked
<1> QED BY <1>1, <1>2 DEF Settled

(* On a whole screen curscr tells what the terminal shows.                   *)
THEOREM ScreenIsTracked ==
    ASSUME \A w \in Windows : YOffset[w] = 0
    PROVE  Spec => []ScreenTracked
<1>1. Inv /\ Tracked => ScreenTracked
  BY TrackedMeans
<1>2. Inv /\ Tracked /\ [Next]_vars => (Inv /\ Tracked)'
  BY StepInv, StepTracked
<1> QED BY <1>1, <1>2, InitInv, InitTracked, PTL DEF Spec

(* On a whole screen an update leaves the terminal showing newscr.           *)
THEOREM UpdateSettles ==
    ASSUME \A w \in Windows : YOffset[w] = 0
    PROVE  Spec => []Settled
<1>1. Inv /\ Tracked => Settled
  BY TrackedMeans
<1>2. Inv /\ Tracked /\ [Next]_vars => (Inv /\ Tracked)'
  BY StepInv, StepTracked
<1> QED BY <1>1, <1>2, InitInv, InitTracked, PTL DEF Spec
=============================================================================
