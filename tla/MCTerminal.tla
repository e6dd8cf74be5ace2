----------------------------- MODULE MCTerminal ------------------------------
(* Instances of what is written to a terminal: the changes inside a line on  *)
(* six terminals, and attributes and colours on five.  A behaviour is one of *)
(* these.                                                                    *)
EXTENDS Vidputs, FiniteSets, TLC

CONSTANTS
    Parts,              \* those that take part in a run
    sp, tint, ink       \* cells
VARIABLES part, lineDevice, newscr, curscr, cursrow, curscol, term, lineTty

(* One row that is blank or full, and one with every text of three cells.    *)
AllTexts == [0..3 -> {sp, tint, ink}]
Xterm == [am |-> TRUE, xenl |-> TRUE, amMode |-> TRUE, idcok |-> TRUE, ich |-> "parm",
          dch |-> "parm", clear |-> TRUE, ed |-> TRUE, el |-> TRUE, el1 |-> TRUE, ech |-> TRUE,
          rep |-> TRUE, bce |-> TRUE, local |-> TRUE, background |-> tint, elCost |-> 1,
          el1Cost |-> 1, echCost |-> 2, repCost |-> 1, dchCost |-> 1, inlineCost |-> 1]
Vt100 == [Xterm EXCEPT !.amMode = FALSE, !.ich = "none", !.dch = "none", !.ech = FALSE,
          !.rep = FALSE, !.bce = FALSE, !.background = sp]
Ansi == [Xterm EXCEPT !.xenl = FALSE, !.amMode = FALSE, !.ich = "char", !.dch = "char",
         !.bce = FALSE, !.ed = FALSE, !.clear = FALSE, !.inlineCost = 0, !.repCost = 2,
         !.el1Cost = 0]
Insert == [Xterm EXCEPT !.amMode = FALSE, !.xenl = FALSE, !.ich = "mode", !.el = FALSE,
           !.el1 = FALSE, !.dchCost = 0, !.ech = FALSE, !.clear = FALSE, !.local = FALSE,
           !.background = sp]
Glass == [Vt100 EXCEPT !.xenl = FALSE, !.am = FALSE, !.elCost = 2, !.local = FALSE,
          !.ech = TRUE, !.echCost = 1]
Bare == [Vt100 EXCEPT !.xenl = FALSE, !.clear = FALSE, !.ed = FALSE, !.el = FALSE, !.el1 = FALSE]

Lined == INSTANCE TransformLine WITH
    Lines <- 2, Columns <- 4, Cells <- {sp, tint, ink}, Blank <- sp, Tinted <- tint,
    Devices <- {Xterm, Vt100, Ansi, Insert, Glass, Bare},
    Texts <- 0 :> {[x \in 0..3 |-> sp], [x \in 0..3 |-> ink]} @@ 1 :> AllTexts,
    Homes <- {<<1, 1>>},
    device <- lineDevice, tty <- lineTty
ASSUME LinedAssumption ==
    Lined!CellAssumption /\ Lined!SizeAssumption /\ Lined!DeviceAssumption

(* An xterm; a console that ends attributes one by one and has no underline  *)
(* in colours; one whose colours exclude reverse video; one with two         *)
(* attributes; and one whose colours stay when attributes end.               *)
Each == {"standout", "underline", "reverse", "bold", "altcharset", "italic"}
XtermPen == [can |-> Each, sgr |-> TRUE, sgr0 |-> TRUE, exits |-> Each \ {"reverse", "bold"},
             resets |-> TRUE, resetsAcs |-> TRUE, ncv |-> {}, ax |-> TRUE]
LinuxPen == [XtermPen EXCEPT !.sgr = FALSE, !.exits = {"underline", "italic", "altcharset"},
             !.resetsAcs = FALSE, !.ncv = {"underline"}]
ConsPen == [XtermPen EXCEPT !.can = Each \ {"italic"}, !.exits = {"altcharset"}, !.ax = FALSE,
            !.ncv = {"standout", "reverse"}]
PlainPen == [XtermPen EXCEPT !.can = {"standout", "underline"}, !.sgr = FALSE, !.sgr0 = FALSE,
             !.exits = {"standout", "underline"}]
StickyPen == [LinuxPen EXCEPT !.resets = FALSE, !.ncv = {"reverse"}]

(* White on black for pair 0, or what the user has; -1 is the default.       *)
Fixed == [fixed |-> TRUE, pairs |-> 0 :> <<7, 0>> @@ 1 :> <<1, 2>> @@ 2 :> <<3, 2>>]
Users == [fixed |-> FALSE, pairs |-> 0 :> <<-1, -1>> @@ 1 :> <<1, 2>> @@ 2 :> <<3, -1>>]
Pens == {XtermPen, LinuxPen, ConsPen, PlainPen, StickyPen}
Choices == {Fixed, Users}

lineVars == <<lineDevice, newscr, curscr, cursrow, curscol, term, lineTty>>

(* The variables that only one part uses, when the other is looked at.       *)
NoLines ==
    /\ lineDevice = 0 /\ newscr = 0 /\ curscr = 0 /\ cursrow = 0 /\ curscol = 0
    /\ term = 0 /\ lineTty = 0
PartsInit ==
    /\ part \in Parts /\ Init
    /\ \/ part = "lines" /\ Lined!Init /\ device = XtermPen /\ setting = Fixed
       \/ part = "pen" /\ NoLines
PartsNext ==
    \/ part = "lines" /\ Lined!Next /\ UNCHANGED <<part, vars>>
    \/ part = "pen" /\ Next /\ UNCHANGED <<part, lineVars>>
PartsSpec == PartsInit /\ [][PartsNext]_<<part, vars, lineVars>>

(* An updated line is on the terminal, as TransformLine says.                *)
LineShown == part = "lines" => Lined!LineShown
(* The terminal's cursor is where the library has it, as TransformLine says. *)
CursorTracked == part = "lines" => Lined!CursorTracked
==============================================================================
