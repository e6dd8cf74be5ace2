------------------------------ MODULE MCTables -------------------------------
(* Instances of parts of the library that do not meet: the colour pairs, the *)
(* ring of mouse events, the trees of keys, the movements of the cursor, the *)
(* modes of the terminal's driver and the compiler of terminals' entries.  A *)
(* behaviour is one of these.                                                *)
EXTENDS ColorPairs, TtyModes, TLC

CONSTANTS
    Parts,                  \* those that take part in a run
    c1, c2, c3, c4,         \* combinations of colours
    p1, p2,                 \* places of the pointer
    norm, bold, alt, nothing,   \* attributes, and NoOverwriting
    Cancelling              \* whether several entries may cancel booleans and numbers
VARIABLES
    part,
    ring, read, write, mask, bstate, maxclick, protocol, runcount, waiting, fifo,
    held, place, sent, got, seen, calls, hung,
    keytry, keyOk, filled, call, defines,
    device, text, cursrow, curscol, attrs, drawn, last,
    source, entries, qp, attempts, progress, stage

Alike == Permutations({c1, c2, c3}) \cup Permutations({p1, p2})

(* One button and a wheel; six reports of a terminal that tells of clicks,   *)
(* or four of one that tells of movements too while the application changes  *)
(* its mind twice.                                                           *)
Pointed == INSTANCE Mouse WITH
    EV_MAX <- 8, Buttons <- {1}, Wheel <- {4}, Places <- {p1, p2},
    Masks <- {{"click", "double", "triple"} \X {1}, {"press"} \X {1, 4}},
    Protocols <- {[format |-> "X10", motion |-> FALSE, reports |-> 6, calls |-> 0],
                  [format |-> "SGR1006", motion |-> TRUE, reports |-> 4, calls |-> 2]}

(* Strings of which one begins with another, bound twice by the description. *)
Keyed == INSTANCE KeyTries WITH
    Strings <- {<<1>>, <<1, 2>>, <<1, 2, 3>>, <<2>>}, Codes <- {7, 8, 9},
    Standard <- << <<<<1, 2>>, 7>>, <<<<2>>, 7>>, <<<<1>>, 8>> >>,
    Extended <- << <<<<1, 2, 3>>, 9>>, <<<<2>>, 9>> >>,
    MaxDefines <- 2

(* Three lines of ten columns with a stop at every fourth.  The costs are *)
(* those of an xterm; of a terminal that steps, and turns attributes off for *)
(* it; of one without addresses, whose tabs are not trusted; and of one that *)
(* steps from a line back into the one above.                                *)
None == 1000000
Ansi3 == [cup |-> 8, hpa |-> 5, vpa |-> 5, cuu |-> 5, cud |-> 5, cuf |-> 5, cub |-> 5,
          cuu1 |-> 3, cud1 |-> 1, cuf1 |-> 3, cub1 |-> 1, cr |-> 1, home |-> 3, ll |-> None,
          ht |-> 1, cbt |-> 3, tabs |-> 4, msgr |-> TRUE, bw |-> TRUE, xenl |-> TRUE,
          tab |-> TRUE, backtab |-> TRUE, feed |-> TRUE]
Stepping == [Ansi3 EXCEPT !.cup = 4, !.hpa = None, !.vpa = None, !.cuu = None, !.cud = None,
             !.cuf = None, !.cub = None, !.cuu1 = 2, !.cuf1 = 2, !.cbt = None, !.backtab = FALSE,
             !.msgr = FALSE, !.feed = FALSE, !.xenl = FALSE, !.bw = FALSE]
Homing == [Stepping EXCEPT !.cup = None, !.cuu1 = 1, !.cuf1 = 1, !.msgr = TRUE, !.bw = TRUE,
           !.ht = None, !.home = 1, !.ll = 2]
Backing == [Stepping EXCEPT !.cup = 20, !.bw = TRUE, !.cuf1 = 4, !.cbt = 2, !.backtab = TRUE]

Moving == INSTANCE Mvcur WITH
    Lines <- 3, Columns <- 10, LONG_DIST <- 3, Devices <- {Ansi3, Stepping, Homing, Backing},
    newscr <- text, Screens <- {[y \in 0..2 |-> [x \in 0..9 |-> norm]],
                [y \in 0..2 |-> [x \in 0..9 |-> IF (x \div 3) % 2 = 0 THEN norm ELSE bold]]},
    Attributes <- {norm, bold, alt}, Normal <- norm, AltCharset <- alt,
    NoOverwriting <- nothing, tty <- drawn
ASSUME MovingAssumption == Moving!MvcurAssumption

(* Two booleans, a number between them and a string.  At most one boolean or *)
(* number of a file is cancelled, unless the run is about those.              *)
Kinds == 1 :> "bool" @@ 2 :> "num" @@ 3 :> "bool" @@ 4 :> "str"
Whole == [c \in 1..4 |-> "set"]
Half == [c \in 1..4 |-> IF c = 2 THEN "set" ELSE "none"]
Plain == [1..3 -> {"set", "none"}]
Cut == {[k EXCEPT ![c] = "cancel"] : k \in Plain, c \in 1..3}
Own(S) == {[c \in 1..4 |-> IF c = 4 THEN s ELSE k[c]] :
                k \in S, s \in {"set", "cancel", "none"}}
TwoOwn == (Own(Plain) \X Own(Plain \cup Cut)) \cup (Own(Cut) \X Own(Plain))
          \cup (IF Cancelling THEN Own(Cut) \X Own(Cut) ELSE {})

(* A chain, an entry that uses two, and one that uses two of which one is on *)
(* disk; then a circle, a missing entry, one that uses itself, and a chain   *)
(* against the order in the file.                                            *)
Trees == {<<<<<<"b">>, <<"c">>, <<>>>>, Half>>, <<<<<<"b", "c">>, <<>>, <<>>>>, Whole>>,
          <<<<<<"b">>, <<"c", "d">>, <<>>>>, Half>>}
Others == {<<<<"b">>, <<"c">>, <<"a">>>>, <<<<"b">>, <<"e">>, <<>>>>, <<<<"a">>, <<"c">>, <<>>>>,
           <<<<>>, <<"a">>, <<"c", "b">>>>, <<<<>>, <<"a">>, <<"b", "a">>>>}
Entry(name, own, uses) == [name |-> name, own |-> own, uses |-> uses]
File(u, a, b, c) == <<Entry("a", a, u[1]), Entry("b", b, u[2]), Entry("c", c, u[3])>>
Compiler == INSTANCE UseEntries WITH
    Type <- Kinds, Compiled <- <<Entry("d", Whole, <<>>)>>,
    Files <- {File(t[1], two[1], two[2], t[2]) : t \in Trees, two \in TwoOwn}
             \cup {File(u, Half, Whole, Half) : u \in Others}

mouseVars == <<ring, read, write, mask, bstate, maxclick, protocol, runcount, waiting, fifo,
               held, place, sent, got, seen, calls, hung>>
keyVars == <<keytry, keyOk, filled, call, defines>>
moveVars == <<device, text, cursrow, curscol, attrs, drawn, last>>
entryVars == <<source, entries, qp, attempts, progress, stage>>

(* The variables of a part that is not looked at.                            *)
NoMouse ==
    /\ ring = 0 /\ read = 0 /\ write = 0 /\ mask = 0 /\ bstate = 0 /\ maxclick = 0
    /\ protocol = 0 /\ runcount = 0 /\ waiting = 0 /\ fifo = 0 /\ held = 0 /\ place = 0
    /\ sent = 0 /\ got = 0 /\ seen = 0 /\ calls = 0 /\ hung = 0
NoKeys == keytry = 0 /\ keyOk = 0 /\ filled = 0 /\ call = 0 /\ defines = 0
NoMoves ==
    /\ device = 0 /\ text = 0 /\ cursrow = 0 /\ curscol = 0 /\ attrs = 0 /\ drawn = 0 /\ last = 0
NoEntries ==
    source = 0 /\ entries = 0 /\ qp = 0 /\ attempts = 0 /\ progress = 0 /\ stage = 0

PartsInit ==
    /\ part \in Parts /\ Init /\ (part # "pairs" => size = Limit)
    /\ IF part = "mouse" THEN Pointed!Init ELSE NoMouse
    /\ IF part = "keys" THEN Keyed!Init ELSE NoKeys
    /\ IF part = "moves" THEN Moving!Init ELSE NoMoves
    /\ ModesInit /\ (part # "modes" => Ottyb = {ICANON, ISIG})
    /\ IF part = "entries" THEN Compiler!Init ELSE NoEntries
PartsNext ==
    \/ /\ part = "pairs" /\ Next
       /\ UNCHANGED <<part, mouseVars, keyVars, moveVars, modeVars, entryVars>>
    \/ /\ part = "mouse" /\ Pointed!Next
       /\ UNCHANGED <<part, vars, keyVars, moveVars, modeVars, entryVars>>
    \/ /\ part = "keys" /\ Keyed!Next
       /\ UNCHANGED <<part, vars, mouseVars, moveVars, modeVars, entryVars>>
    \/ /\ part = "moves" /\ Moving!Next
       /\ UNCHANGED <<part, vars, mouseVars, keyVars, modeVars, entryVars>>
    \/ /\ part = "modes" /\ ModesNext
       /\ UNCHANGED <<part, vars, mouseVars, keyVars, moveVars, entryVars>>
    \/ /\ part = "entries" /\ Compiler!Next
       /\ UNCHANGED <<part, vars, mouseVars, keyVars, moveVars, modeVars>>
PartsSpec ==
    PartsInit /\ [][PartsNext]_<<part, vars, mouseVars, keyVars, moveVars, modeVars, entryVars>>

(* What the mouse module calls a click was one, as Mouse says.               *)
GesturesTrue == part = "mouse" => Pointed!GesturesTrue
(* getmouse() keeps the order of events, as Mouse says.                      *)
EventsInOrder == [][part = "mouse" => Pointed!InOrder]_mouseVars
(* Keys change only by the calls that name them, as KeyTries says.           *)
KeysKept == [][part = "keys" => Keyed!OnlyNamed]_keyVars
(* A move ends where it should and spoils nothing, as Mvcur says.            *)
MoveExact == part = "moves" => Moving!MoveExact
(* A compiled entry holds what it and the entries it uses say, as UseEntries *)
(* has it.                                                                   *)
EntriesTrue == part = "entries" => Compiler!EntriesTrue
==============================================================================
