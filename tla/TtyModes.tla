------------------------------ MODULE TtyModes --------------------------------
(* The modes of the terminal's driver, and its keypad and meta modes           *)
(* (tinfo/lib_raw.c, lib_ttyflags.c, lib_options.c, base/lib_endwin.c,         *)
(* lib_getstr.c, tty/lib_tstp.c): three copies of the bits and the flags of    *)
(* the screen, through changes of the modes, lines that are read, the shell    *)
(* behind endwin() and the stops of SIGTSTP.                                   *)
EXTENDS Naturals

CONSTANTS
    OtherBits,      \* bits that only intrflush() and the shell change
    Careless        \* what may happen besides: "again", a second endwin() in the shell;
                    \*   "escaped", a stop in the shell behind endwin(); "first", a stop
                    \*   before the first endwin() when Nttyb has not followed

ICANON == "icanon"
ISIG == "isig"
ASSUME BitsAssumption == OtherBits \cap {ICANON, ISIG} = {}
NotReading == [tty |-> {}, raw |-> FALSE, cbreak |-> 0]

VARIABLES
    tty,            \* the bits of the driver
    Nttyb, Ottyb,   \* those of the program and of the shell
    saved,          \* _saved_tty
    flags,          \* _tty_flags
    endwin,         \* _endwin: "initial", "running", "suspended"
    use_meta, keypad_on, use_keypad,    \* of the screen, and of stdscr
    term,           \* the terminal's own keypad and meta modes
    buf,            \* what wgetnstr() keeps, while it is at work
    asked,          \* history: the modes asked for, and whether the screen is
    stopped,        \*   the shell's; what SIGTSTP has stopped, if it has
    lineRead        \* history: a line was read in cooked mode
modeVars == <<tty, Nttyb, Ottyb, saved, flags, endwin, use_meta, keypad_on, use_keypad, term,
              buf, asked, stopped, lineRead>>

Modes == <<tty, Nttyb, flags, asked, lineRead>>
Running == ~stopped.is
(* The application makes a call, within curses.                              *)
Calls == Running /\ buf = NotReading /\ ~asked.shell

(* After initscr(): cbreak mode.                                             *)
ModesInit ==
    /\ Ottyb \in {{ICANON, ISIG} \cup S : S \in SUBSET OtherBits}
    /\ Nttyb = Ottyb \ {ICANON} /\ tty = Nttyb /\ saved = Ottyb
    /\ flags = [raw |-> FALSE, cbreak |-> 1]
    /\ endwin = "initial" /\ use_meta = TRUE /\ keypad_on = FALSE /\ use_keypad = FALSE
    /\ term = [keypad |-> FALSE, meta |-> TRUE]
    /\ buf = NotReading /\ lineRead = FALSE
    /\ asked = [raw |-> FALSE, cbreak |-> 1, meta |-> TRUE, shell |-> FALSE]
    /\ stopped = [is |-> FALSE, tty |-> {}]

-----------------------------------------------------------------------------
(* The modes are set in the driver and, if it takes them, in Nttyb.          *)
Sets(bits, r, c) ==
    /\ Calls
    /\ tty' = bits /\ Nttyb' = bits
    /\ flags' = [raw |-> r, cbreak |-> c]
    /\ asked' = [asked EXCEPT !.raw = r, !.cbreak = c]
    /\ lineRead' = (lineRead /\ ICANON \notin bits)
    /\ UNCHANGED <<Ottyb, saved, endwin, use_meta, keypad_on, use_keypad, term, buf, stopped>>
raw == Sets(Nttyb \ {ICANON, ISIG}, TRUE, 1)
cbreak == Sets(Nttyb \ {ICANON}, flags.raw, 1)
halfdelay == Sets(Nttyb \ {ICANON}, flags.raw, 3)
noraw_KeepsCbreak == Sets(Nttyb \cup {ISIG, ICANON}, FALSE, flags.cbreak)
noraw == Sets(Nttyb \cup {ISIG, ICANON}, FALSE, 0)
nocbreak == Sets(Nttyb \cup {ICANON}, flags.raw, 0)
intrflush ==
    \E b \in OtherBits : \E bits \in {Nttyb \ {b}, Nttyb \cup {b}} :
        Sets(bits, flags.raw, flags.cbreak)

savetty == Calls /\ saved' = tty /\ UNCHANGED <<Modes, Ottyb, endwin, use_meta, keypad_on,
                                                use_keypad, term, buf, stopped>>
(* An application that resets the modes sees to it that they are those of the*)
(* calls before: resetty() does not tell the screen.                         *)
resetty ==
    /\ Calls /\ saved \cap {ICANON, ISIG} = tty \cap {ICANON, ISIG}
    /\ tty' = saved
    /\ UNCHANGED <<Nttyb, Ottyb, saved, flags, endwin, use_meta, keypad_on, use_keypad, term, buf,
                   asked, stopped, lineRead>>
def_prog_mode ==
    /\ Calls /\ Nttyb' = tty
    /\ UNCHANGED <<tty, Ottyb, saved, flags, endwin, use_meta, keypad_on, use_keypad, term, buf,
                   asked, stopped, lineRead>>

meta ==
    /\ Calls
    /\ \E f \in BOOLEAN :
        use_meta' = f /\ term' = [term EXCEPT !.meta = f] /\ asked' = [asked EXCEPT !.meta = f]
    /\ UNCHANGED <<tty, Nttyb, Ottyb, saved, flags, endwin, keypad_on, use_keypad, buf, stopped,
                   lineRead>>
(* keypad() of stdscr, and wgetch() of it or of another window               *)
keypad ==
    /\ Running /\ ~asked.shell
    /\ \E f \in BOOLEAN :
        /\ keypad_on' = f /\ term' = [term EXCEPT !.keypad = f]
        /\ use_keypad' \in {use_keypad, f}
    /\ UNCHANGED <<Modes, Ottyb, saved, endwin, use_meta, buf, stopped>>

-----------------------------------------------------------------------------
(* wgetnstr() reads in cbreak mode, and puts back flags and modes with one   *)
(* call, of which Nttyb is not told.                                         *)
wgetnstr ==
    /\ Calls
    /\ buf' = [tty |-> tty, raw |-> flags.raw, cbreak |-> flags.cbreak]
    /\ IF flags.raw THEN UNCHANGED Modes
       ELSE /\ Nttyb' = Nttyb \ {ICANON} /\ tty' = Nttyb \ {ICANON}
            /\ flags' = [flags EXCEPT !.cbreak = 1]
            /\ lineRead' = (lineRead \/ flags.cbreak = 0)
            /\ UNCHANGED asked
    /\ UNCHANGED <<Ottyb, saved, endwin, use_meta, keypad_on, use_keypad, term, stopped>>
wgetnstrEnds ==
    /\ Running /\ buf # NotReading
    /\ tty' = buf.tty /\ flags' = [raw |-> buf.raw, cbreak |-> buf.cbreak]
    /\ buf' = NotReading
    /\ UNCHANGED <<Nttyb, Ottyb, saved, endwin, use_meta, keypad_on, use_keypad, term, asked,
                   stopped, lineRead>>

(* endwin(): keypad and meta modes are off in the terminal, but remembered   *)
(* if the screen was not suspended before.                                   *)
ToShell ==
    /\ endwin' = "suspended"
    /\ tty' = Ottyb /\ term' = [keypad |-> FALSE, meta |-> FALSE]
    /\ keypad_on' = FALSE /\ use_meta' = (use_meta /\ endwin # "suspended")
endwins ==
    /\ Running /\ buf = NotReading /\ (asked.shell => "again" \in Careless)
    /\ ToShell
    /\ asked' = [asked EXCEPT !.shell = TRUE]
    /\ UNCHANGED <<Nttyb, Ottyb, saved, flags, use_keypad, buf, stopped, lineRead>>

(* doupdate() of a suspended screen                                          *)
ToProgram_ShellsModes ==
    /\ endwin' = "running"
    /\ tty' = tty /\ term' = [keypad |-> keypad_on \/ use_keypad, meta |-> use_meta]
    /\ keypad_on' = (keypad_on \/ use_keypad)
ToProgram ==
    /\ endwin' = "running"
    /\ tty' = Nttyb /\ term' = [keypad |-> keypad_on \/ use_keypad, meta |-> use_meta]
    /\ keypad_on' = (keypad_on \/ use_keypad)
refresh ==
    /\ Running /\ asked.shell /\ buf = NotReading
    /\ IF endwin = "suspended" THEN ToProgram ELSE UNCHANGED <<endwin, tty, term, keypad_on>>
    /\ asked' = [asked EXCEPT !.shell = FALSE]
    /\ UNCHANGED <<Nttyb, Ottyb, saved, flags, use_meta, use_keypad, buf, stopped, lineRead>>

-----------------------------------------------------------------------------
(* The program may have changed its modes: they are saved, but not before the*)
(* screen was suspended and resumed for the first time.                      *)
Saved == IF endwin = "running" THEN tty ELSE Nttyb
(* The handler of SIGTSTP ends curses and stops the program,                 *)
stop ==
    /\ Running
    /\ asked.shell => "escaped" \in Careless
    /\ endwin = "initial" => Nttyb = tty \/ "first" \in Careless
    /\ stopped' = [is |-> TRUE, tty |-> tty]
    /\ Nttyb' = Saved /\ ToShell
    /\ UNCHANGED <<Ottyb, saved, flags, use_keypad, buf, asked, lineRead>>
stty ==
    /\ ~Running
    /\ \E S \in SUBSET OtherBits : tty' = {ICANON, ISIG} \cup S
    /\ UNCHANGED <<Nttyb, Ottyb, saved, flags, endwin, use_meta, keypad_on, use_keypad, term, buf,
                   asked, stopped, lineRead>>
(* and when it goes on takes over the shell's modes and resumes the screen.  *)
continue ==
    /\ ~Running
    /\ Ottyb' = tty /\ ToProgram
    /\ stopped' = [stopped EXCEPT !.is = FALSE]
    /\ UNCHANGED <<Nttyb, saved, flags, use_meta, use_keypad, buf, asked, lineRead>>

ModesNext ==
    \/ raw \/ noraw \/ cbreak \/ nocbreak \/ halfdelay \/ intrflush
    \/ savetty \/ resetty \/ def_prog_mode \/ meta \/ keypad
    \/ wgetnstr \/ wgetnstrEnds \/ endwins \/ refresh
    \/ stop \/ stty \/ continue
ModesSpec == ModesInit /\ [][ModesNext]_modeVars

-----------------------------------------------------------------------------
(* Within curses, and while no line is read, the flags and the driver are in *)
(* the modes that the application asked for, whatever it has read, left and  *)
(* been stopped in since; only when a line was read in cooked mode, which    *)
(* curses edits itself, may the driver be left in cbreak mode.  The terminal *)
(* has the keypad and meta modes the library believes it has.  In the shell  *)
(* all is as the shell had it.                                               *)
ModesTrue ==
    IF stopped.is THEN endwin = "suspended" /\ term = [keypad |-> FALSE, meta |-> FALSE]
    ELSE IF asked.shell
    THEN endwin = "suspended" /\ tty = Ottyb /\ term = [keypad |-> FALSE, meta |-> FALSE]
    ELSE /\ endwin # "suspended"
         /\ term = [keypad |-> keypad_on, meta |-> asked.meta] /\ use_meta = asked.meta
         /\ buf = NotReading =>
                /\ flags = [raw |-> asked.raw, cbreak |-> asked.cbreak]
                /\ ISIG \in tty <=> ~asked.raw
                /\ ICANON \in tty => asked.cbreak = 0
                /\ asked.cbreak = 0 /\ ~lineRead => ICANON \in tty

(* A program that was stopped goes on in the modes it had, and with those of *)
(* the shell ready for its end.                                              *)
Kept == stopped.is /\ ~stopped'.is => tty' = stopped.tty /\ Ottyb' = tty
StopKeeps == [][Kept]_modeVars
===============================================================================
