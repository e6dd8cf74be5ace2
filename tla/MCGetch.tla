------------------------------ MODULE MCGetch -------------------------------
(* Instances of Getch: its windows and its keys.                             *)
EXTENDS Getch

ShortKeyTry == <<"ESC", "A">> :> "KEY_UP"

(* Two keys that share a prefix, and the one-byte keys of old terminals.     *)
LongKeyTry ==
    <<"ESC", "A">> :> "KEY_UP" @@ <<"ESC", "O", "A">> :> "KEY_F1"
      @@ <<"^H">> :> "KEY_BACKSPACE" @@ <<"^J">> :> "KEY_DOWN" @@ <<"^L">> :> "KEY_RIGHT"

Window(k, t, l) == [keypad |-> k, timed |-> t, line |-> l, echo |-> l]

CbreakWindows == {Window(k, t, FALSE) : k, t \in BOOLEAN}
TimedWindows  == {Window(k, TRUE, FALSE) : k \in BOOLEAN}
KeypadOrLine  == {Window(TRUE, FALSE, FALSE)} \cup {Window(k, FALSE, TRUE) : k \in BOOLEAN}

(* A keyboard for each of them, as a constraint on steps: parts of keys, or  *)
(* the keys of a line.                                                       *)
BytesFor(w) == IF ~w.line THEN {"ESC", "O", "A"}
               ELSE IF w.keypad THEN {"a", "^H", "^J", "^L", KILL}
               ELSE {"a", ERASE, KILL, NL}
ThreeKeyboards ==
    win' = win /\ (Len(tty') > Len(tty) => Last(tty') \in BytesFor(win))
=============================================================================
