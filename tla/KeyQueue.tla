------------------------------ MODULE KeyQueue ------------------------------
(* What curs_getch(3X) promises of the input of a screen, without the ring   *)
(* buffer: one queue serves all windows; typed bytes join it at the back,    *)
(* ungetch() puts a key in front, and a read takes the first key, or the     *)
(* typed bytes of a whole key sequence, or fails and takes nothing.          *)
EXTENDS Integers, Sequences

CONSTANTS
    Bytes,          \* what the keyboard sends
    Keys,           \* what ungetch() may be given
    KeyTry,         \* function from the byte sequences of the keypad to codes
    ERR

VARIABLES
    keys,           \* sequence of [key, typed]
    got             \* what the last read returned

Typed(b)  == [key |-> b, typed |-> TRUE]
Cooked(k) == [key |-> k, typed |-> FALSE]

Init == keys = <<>> /\ got = ERR

Arrive(b) == keys' = Append(keys, Typed(b)) /\ UNCHANGED got

Unget(k) == keys' = <<Cooked(k)>> \o keys /\ UNCHANGED got

Flush == keys' = <<>> /\ UNCHANGED got

Take == keys # <<>> /\ got' = Head(keys).key /\ keys' = Tail(keys)

TakeSequence(s) ==
    /\ Len(s) <= Len(keys)
    /\ SubSeq(keys, 1, Len(s)) = [i \in DOMAIN s |-> Typed(s[i])]
    /\ got' = KeyTry[s]
    /\ keys' = SubSeq(keys, Len(s) + 1, Len(keys))

Fail == got' = ERR /\ UNCHANGED keys

Next ==
    \/ \E b \in Bytes : Arrive(b)
    \/ \E k \in Keys : Unget(k)
    \/ Flush
    \/ Take
    \/ \E s \in DOMAIN KeyTry : TakeSequence(s)
    \/ Fail

Spec == Init /\ [][Next]_<<keys, got>>
=============================================================================
