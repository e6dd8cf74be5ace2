------------------------------ MODULE MCWindows ------------------------------
(* Instances of windows and of what is built upon them: a behaviour is one   *)
(* of two windows that are written and refreshed, of three generations that  *)
(* share their memory, of cells with wide characters, of a stack of panels,  *)
(* of a menu, or of a screen that changes its size.                          *)
EXTENDS WindowTree, Panels, Menu, TLC

CONSTANTS
    Parts,                  \* those that take part in a run
    Screens,                \* heights of a screen
    Uncaring,               \* calls with which the application cuts characters
    g1, g2, g3,
    v1, v2, w1, w2, p1, p2
VARIABLES
    part,
    treeRange, treeOwed,
    lay, cells, mark, shown, pad, screen, did,
    order, fitted, lines, failed, resizes

Two == {v1, v2}
Three == {g1, g2, g3}
Alike == Permutations(Three)

(* Three windows whose memory is followed through three generations.         *)
Treed == INSTANCE WindowTree WITH
    Windows <- Three, Columns <- 3, MaxDepth <- 2, Moves <- "childless", Resizes <- {1, 2},
    Grows <- TRUE, Writes <- FALSE, range <- treeRange, owed <- treeOwed

(* Two windows of which one cuts characters of the other; one that scrolls;  *)
(* and pads, wider and higher than the screen shows of them.                 *)
Flat(x, width, pads, height, right, scroll) ==
    [beg |-> x, width |-> width, pads |-> pads, rows |-> height, cols |-> right,
     scroll |-> scroll]
Celled == INSTANCE Cells WITH
    Layouts <- {Flat(<<0, 2>>, <<3, 1>>, {}, 1, 3, FALSE), Flat(<<0>>, <<2>>, {}, 2, 2, TRUE),
                Flat(<<0>>, <<3>>, {1}, 1, 2, FALSE), Flat(<<0>>, <<1>>, {1}, 2, 1, FALSE)},
    Narrow <- {"n"}, Wide <- {"W"}, Careless <- Uncaring, text <- cells, newscr <- screen

(* Two panels, a flat window and a high one, on a screen of two by two.      *)
TwoHeights == (w1 :> 1) @@ (w2 :> 2)
TwoWidths == (w1 :> 2) @@ (w2 :> 1)

(* Five items with names that are prefixes of others, in a column and in two.*)
Names == [i \in 0..4 |-> <<<<"a", "b">>, <<"b">>, <<"a", "a">>, <<"b", "a">>, <<"a">>>>[i + 1]]
MenuFormats == {<<1, 2>>, <<2, 2>>}
MenuOptions == {s \cup {"ignorecase"} : s \in SUBSET {"onevalue", "rowmajor", "noncyclic"}}

(* Windows 11 and 12, with a line ripped off at the top and one at the bottom*)
(* of a screen that may become too low for them.                             *)
Resized == INSTANCE ResizeTerm WITH
    Names <- {11, 12}, RipOffs <- <<-1, 1>>, Heights <- Screens, Sizes <- {0, 2},
    MaxResizes <- 2, list <- order, win <- fitted

ASSUME CelledAssumption == Celled!LayoutsAssumption
ASSUME SizesAssumption == Resized!ResizeAssumption

(* The variables of a part that is not looked at, and the marks of windows   *)
(* that are not written on.                                                  *)
NoTree == treeRange = 0 /\ treeOwed = 0
NoMarks == range = [w \in Three |-> Unchanged] /\ owed = [w \in Three |-> {}]
NoCells ==
    /\ lay = 0 /\ cells = 0 /\ mark = 0 /\ shown = 0 /\ pad = 0 /\ screen = 0 /\ did = 0
NoResize == order = 0 /\ fitted = 0 /\ lines = 0 /\ failed = 0 /\ resizes = 0
treeVars == <<treeRange, treeOwed>>
cellVars == <<lay, cells, mark, shown, pad, screen, did>>
sizeVars == <<order, fitted, lines, failed, resizes>>

PartsInit ==
    /\ part \in Parts
    /\ IF part = "tree" THEN Treed!Init /\ NoMarks ELSE Init /\ NoTree
    /\ IF part = "cells" THEN Celled!Init ELSE NoCells
    /\ PanelsInit /\ MenuInit
    /\ IF part = "sizes" THEN Resized!Init ELSE NoResize
PartsNext ==
    \/ part = "windows" /\ Next
       /\ UNCHANGED <<part, treeVars, cellVars, panelsVars, menuVars, sizeVars>>
    \/ part = "tree" /\ Treed!Next
       /\ UNCHANGED <<part, range, owed, cellVars, panelsVars, menuVars, sizeVars>>
    \/ part = "cells" /\ Celled!Next
       /\ UNCHANGED <<part, vars, treeVars, panelsVars, menuVars, sizeVars>>
    \/ part = "panels" /\ PanelsNext
       /\ UNCHANGED <<part, vars, treeVars, cellVars, menuVars, sizeVars>>
    \/ part = "menu" /\ MenuNext
       /\ UNCHANGED <<part, vars, treeVars, cellVars, panelsVars, sizeVars>>
    \/ part = "sizes" /\ Resized!Next
       /\ UNCHANGED <<part, vars, treeVars, cellVars, panelsVars, menuVars>>
PartsSpec == PartsInit
    /\ [][PartsNext]_<<part, vars, treeVars, cellVars, panelsVars, menuVars, sizeVars>>

(* Nothing has half of a wide character, as Cells says.                      *)
WholeCharacters == part = "cells" => Celled!WholeCharacters
(* A refresh shows what it should and nothing else, as Cells says.           *)
RefreshExact ==
    [][part = "cells" => Celled!RefreshedExactly /\ Celled!ShownAgain]_cellVars
(* Windows follow the screen, and subwindows their parents, as ResizeTerm    *)
(* says.                                                                     *)
SizesFollow == part = "sizes" => Resized!SizesFollow
(* The screens and stdscr get the size that is asked for, as ResizeTerm says.*)
ResizedExactly == part = "sizes" => Resized!ResizedExactly
==============================================================================
