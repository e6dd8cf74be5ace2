------------------------------ MODULE MCUpdate ------------------------------
(* Instances of an update of the screen: a window of one line that moves     *)
(* between the ends of a screen of three, or screens of eight lines drawn    *)
(* one after the other and reached by scrolling.  A behaviour is one of      *)
(* either.                                                                   *)
EXTENDS Update
CONSTANTS
    Parts,              \* those that take part in a run
    pop, A, B
VARIABLES
    part,
    drawn, pending, shown, marked, oldhash, newhash, oldnum, pc, at, before,
    arrived, refused

PopUp     == {pop}
OneLine   == [w \in Windows |-> 1]
NoOffset  == [w \in Windows |-> 0]

(* The screens are the numbers 1, 2, 3, ... in order, and what inserting and *)
(* deleting lines, scrolling the halves, swapping and repeating makes of     *)
(* them; 0 is the blank.  Lines 1 and 8 have the same hash.                  *)
Height8   == 8
Half      == Height8 \div 2
Numbered  == 0..Height8
Ordered   == [r \in 0..(Height8 - 1) |-> r + 1]
Scrolled8(s, n, first, last) ==
    [r \in 0..(Height8 - 1) |->
        IF r \notin first..last THEN s[r] ELSE IF r + n \in first..last THEN s[r + n] ELSE 0]
Halves  == {Scrolled8(Scrolled8(Ordered, n, 0, Half - 1), m, Half, Height8 - 1) :
               n \in {-1, 1}, m \in {-1, 0, 1}}
Deleted == Scrolled8(Scrolled8(Ordered, 1, 0, Height8 - 1), 1, Half - 1, Height8 - 1)
Doubled == [r \in 0..(Height8 - 1) |-> (r \div 2) + 1]
Swapped == [r \in 0..(Height8 - 1) |-> IF r < Half THEN r + 1 + Half ELSE r + 1 - Half]

Hunks == INSTANCE Scroll WITH
    Lines <- Height8, Text <- Numbered, Blank <- 0,
    Hash <- [t \in Numbered \cup {Zero} |->
                IF t = Zero THEN 0 ELSE IF t = Height8 THEN 33 ELSE t + 32],
    Drawings <- Halves \cup {Deleted, Doubled, Swapped}, Redraws <- {{1}},
    newscr <- drawn, curscr <- shown, touched <- marked
ASSUME ScrollAssumption ==
    /\ Hunks!LinesAssumption /\ Hunks!TextAssumption
    /\ Hunks!HashAssumption /\ Hunks!DrawingsAssumption

(* The variables of the scrolled screens, when they are not looked at.       *)
scrollVars == <<drawn, pending, shown, marked, oldhash, newhash, oldnum, pc, at, before,
                arrived, refused>>
NoScrolls ==
    /\ drawn = 0 /\ pending = 0 /\ shown = 0 /\ marked = 0 /\ oldhash = 0 /\ newhash = 0
    /\ oldnum = 0 /\ pc = 0 /\ at = 0 /\ before = 0 /\ arrived = 0 /\ refused = 0

PartsInit ==
    /\ part \in Parts /\ Init
    /\ IF part = "scroll" THEN Hunks!Init ELSE NoScrolls
PartsNext ==
    \/ part = "update" /\ Next /\ UNCHANGED <<part, scrollVars>>
    \/ part = "scroll" /\ Hunks!Next /\ UNCHANGED <<part, vars>>
PartsSpec == PartsInit /\ [][PartsNext]_<<part, vars, scrollVars>>

(* Lines that keep their order survive the scrolls, as Scroll says.          *)
OrderedSurvive == part = "scroll" => Hunks!OrderedSurvive
(* Lines nobody has marked have the same hash twice, as Scroll says.         *)
HashesAgree == part = "scroll" => Hunks!HashesAgree
(* An update ends with the new screen, as Scroll says.                       *)
UpdateExact == [][part = "scroll" => Hunks!EndsExact]_scrollVars
=============================================================================
