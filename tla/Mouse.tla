-------------------------------- MODULE Mouse --------------------------------
(***************************************************************************)
(* The mouse: reports of an xterm in the stream of keys, the ring in which *)
(* wgetch() collects them, the parser that turns a run of presses and      *)
(* releases into clicks, and the calls by which an application takes them  *)
(* out (lib_mouse.c, and the loop over mouse events in lib_getch.c).       *)
(***************************************************************************)
EXTENDS Integers, Sequences, FiniteSets, FiniteSetsExt, SequencesExt

CONSTANTS
    EV_MAX,         \* slots of the ring
    Buttons,        \* buttons that are pressed and released
    Wheel,          \* buttons of the wheel: pressed and never released
    Places,         \* where the pointer can be
    Masks,          \* what the application may ask for
    Protocols       \* records of a format, "X10" or "SGR1006"; motion, whether the
                    \* terminal reports movements; and two bounds on a behaviour:
                    \* reports, and calls that change settings or put events back

(* A bit of bstate is a kind with a button; an event that no slot of the     *)
(* ring holds any more is NoEvent.                                           *)
Kinds == {"press", "release", "click", "double", "triple"}
Position == <<"position", 0>>
Bits == (Kinds \X (Buttons \cup Wheel)) \cup {Position}
AllButtons == Buttons \cup Wheel
NoEvent == [valid |-> FALSE, bits |-> {}, at |-> 0, of |-> <<>>]

VARIABLES
    ring,           \* _mouse_events
    read, write,    \* _mouse_read, _mouse_write: they only grow
    mask,           \* _mouse_mask
    bstate,         \* _mouse_bstate: the buttons the library knows pressed
    maxclick,       \* _maxclick is not zero
    protocol,       \* _mouse_format and what the terminal was told to report
    runcount,       \* wgetch()'s count of the run, -1 outside wgetch()
    waiting,        \* whether it waits for more of the run
    fifo,           \* keys that were put back, KEY_MOUSE among them
    held, place,    \* the user's hand
    sent,           \* reports of the terminal so far
    got, seen,      \* what getmouse() gave since wgetch(); the newest report it gave
    calls,          \* such calls so far
    hung            \* the parser has entered a loop it cannot leave
vars == <<ring, read, write, mask, bstate, maxclick, protocol, runcount, waiting, fifo, held, place,
          sent, got, seen, calls, hung>>

Slot(i) == i % EV_MAX
Of(kind, S) == {kind} \X S
Pressed(bits) == {b \in AllButtons : <<"press", b>> \in bits}
Holding(kind, bits) == {b \in AllButtons : <<kind, b>> \in bits}

(* _mouse_mask2: what is kept until it has become what was asked for.        *)
Mask2(m) ==
    LET double == Holding("double", m) \cup Holding("triple", m)
        click == Holding("click", m) \cup double
    IN m \cup Of("double", double) \cup Of("click", click)
         \cup Of("press", click) \cup Of("release", click)

Init ==
    /\ ring = [i \in 0..EV_MAX-1 |-> NoEvent] /\ read = 0 /\ write = 0
    /\ mask \in Masks /\ bstate = {} /\ maxclick = TRUE /\ protocol \in Protocols
    /\ runcount = -1 /\ waiting = FALSE /\ fifo = <<>>
    /\ held = {} /\ place \in Places /\ sent = 0
    /\ got = NoEvent /\ seen = 0 /\ calls = 0 /\ hung = FALSE

-----------------------------------------------------------------------------
(* Reports.  A movement with a button held arrives as a press of it.         *)

DecodedX10(what, b) ==
    CASE what = "press" \/ what = "wheel" -> {<<"press", b>>}
      [] what = "release" \/ b = 0 ->
            IF bstate = {} THEN {Position} ELSE Of("release", bstate)
      [] OTHER -> {<<"press", b>>}
DecodedSGR(what, b) ==
    CASE what = "release" -> {<<"release", b>>}
      [] OTHER -> {<<"press", b>>}
Decoded(what, b) ==
    IF what = "press" /\ b \in bstate THEN {Position}
    ELSE IF protocol.format = "X10" THEN DecodedX10(what, b) ELSE DecodedSGR(what, b)
PressedAfter(what, b) ==
    CASE what = "press" -> bstate \cup {b}
      [] protocol.format = "X10" /\ (what = "release" \/ b = 0) -> {}
      [] what = "release" -> bstate \ {b}
      [] OTHER -> bstate

-----------------------------------------------------------------------------
(* _nc_mouse_parse().                                                        *)

(* The first pass: a press and the release after it become a click.          *)
Paired_Anywhere(ep, next) ==    \* mutant: the places are not compared
    /\ ep.valid /\ next.valid /\ Pressed(ep.bits) # {}
    /\ Pressed(ep.bits) = Holding("release", next.bits)
Paired(ep, next) ==
    /\ ep.valid /\ next.valid /\ ep.at = next.at
    /\ Pressed(ep.bits) # {} /\ Pressed(next.bits) = {}
    /\ Pressed(ep.bits) = Holding("release", next.bits)
(* next in which the buttons B turn from one kind into another, ep merged.   *)
Merged(ep, next, from, B, to) ==
    [next EXCEPT !.bits = (@ \ Of(from, B)) \cup Of(to, B), !.of = ep.of \o @]
Clicks(s, i, j) ==
    LET ep == s.ring[i]
        next == s.ring[j]
        B == {b \in Pressed(ep.bits) : <<"click", b>> \in Mask2(mask)}
    IN IF Paired(ep, next) /\ B # {}
       THEN [s EXCEPT !.ring[j] = Merged(ep, next, "release", B, "click"),
                      !.ring[i].valid = FALSE]
       ELSE s

(* Valid events move down into the first invalid slot behind a valid one.    *)
Moved_Copied(s, i) ==     \* mutant: the event stays where it was, too
    [s EXCEPT !.ring[s.invalid] = s.ring[i], !.invalid = Slot(s.invalid + 1)]
Moved(s, i) ==
    [s EXCEPT !.ring[s.invalid] = s.ring[i], !.ring[i].valid = FALSE,
              !.invalid = Slot(s.invalid + 1)]
Compacted(s, i) ==
    IF ~s.ring[i].valid
    THEN IF s.first # -1 /\ s.invalid = -1 THEN [s EXCEPT !.invalid = i] ELSE s
    ELSE IF s.first = -1 THEN [s EXCEPT !.first = i]
    ELSE IF s.invalid # -1 THEN Moved(s, i) ELSE s
PressReleasePass(s, start, n) ==
    FoldLeft(LAMBDA t, k :
                 LET i == Slot(start + k - 1)
                 IN Compacted(IF k = n THEN t ELSE Clicks(t, i, Slot(i + 1)), i),
             s, [k \in 1..n |-> k])

(* The second pass: clicks become double clicks, those triple clicks.        *)
Multiplied(s, i, j, from, to) ==
    LET B == {b \in Holding(from, s.ring[i].bits) \cap Holding("click", s.ring[j].bits) :
                 <<to, b>> \in Mask2(mask)}
    IN IF B = {} THEN s
       ELSE [s EXCEPT !.ring[j] = Merged(s.ring[i], @, "click", B, to),
                      !.ring[i].valid = FALSE]
MultiClicks(s, i, j) ==
    Multiplied(Multiplied(s, i, j, "click", "double"), i, j, "double", "triple")
Discarded(s, i) ==
    IF s.ring[i].bits \cap Mask2(mask) = {} THEN [s EXCEPT !.ring[i].valid = FALSE] ELSE s
CompactedClicks(s, i) ==
    IF ~s.ring[i].valid
    THEN IF i = s.first THEN [s EXCEPT !.first = Slot(i + 1)]
         ELSE IF s.invalid = -1 THEN [s EXCEPT !.invalid = i] ELSE s
    ELSE IF s.invalid # -1 THEN Moved(s, i) ELSE s
ClickPass(s, start, n) ==
    FoldLeft(LAMBDA t, k :
                 LET i == Slot(start + k - 1)
                     j == Slot(i + 1)
                 IN IF t.hung THEN t
                    ELSE IF k < n /\ ~t.ring[j].valid THEN [t EXCEPT !.hung = TRUE]
                    ELSE CompactedClicks(Discarded(IF k = n THEN t ELSE MultiClicks(t, i, j), i), i),
             s, [k \in 1..n |-> k])

(* Both passes over the last r slots, the others being invalid from now on.  *)
Parsed(r) ==
    LET n == Min({r, EV_MAX})
        start == write + EV_MAX - n
        run == [ring |-> [i \in 0..EV_MAX-1 |->
                             IF \E k \in 0..n-1 : i = Slot(start + k) THEN ring[i]
                             ELSE NoEvent],
                first |-> -1, invalid |-> -1, hung |-> FALSE]
        s == PressReleasePass(run, start, n)
        end == IF s.invalid # -1 THEN s.invalid ELSE Slot(write)
        m == (end + EV_MAX - s.first) % EV_MAX
    IN IF s.first = -1 THEN s
       ELSE ClickPass([s EXCEPT !.invalid = -1], s.first, IF m = 0 THEN EV_MAX ELSE m)

Fresh(events) == [i \in DOMAIN events |-> IF events[i].valid THEN events[i] ELSE NoEvent]

(* The indices after it: past what is invalid, 0 when nothing is valid.      *)
ReadAfter(events) ==
    IF \A i \in DOMAIN events : ~events[i].valid THEN 0
    ELSE read + Min({k \in 0..EV_MAX-1 : events[Slot(read + k)].valid})
WriteAfter(events) ==
    IF \A i \in DOMAIN events : ~events[i].valid THEN 0
    ELSE LET from == ReadAfter(events)
         IN IF write <= from + 1 THEN write
            ELSE Max({from + 1} \cup {w \in from+2..write : events[Slot(w - 1)].valid})


(* An event that is ready when gestures are not waited for.                  *)
Ready == ring[Slot(read)].valid /\ ring[Slot(read)].bits \cap mask # {}

-----------------------------------------------------------------------------
(* wgetch(), from outside: what was put back is returned before anything is  *)
(* read.                                                                     *)

device == <<held, place, sent>>
queue == <<ring, read, write>>
setting == <<mask, maxclick, protocol>>
ghost == <<got, seen>>
Called == calls < protocol.calls /\ calls' = calls + 1

Wgetch ==
    /\ runcount = -1
    /\ IF fifo = <<>> THEN runcount' = 0 /\ UNCHANGED fifo
       ELSE fifo' = Tail(fifo) /\ UNCHANGED runcount
    /\ got' = NoEvent
    /\ UNCHANGED <<waiting, queue, setting, bstate, device, seen, calls, hung>>
Returned == runcount' = -1 /\ waiting' = FALSE

(* _nc_mouse_inline(): a report is put into the next slot.  The wheel and    *)
(* movements end the run at once; a movement without a button is an error in *)
(* the protocol SGR1006, which ends it too.                                  *)
Report(what, b) ==
    /\ runcount >= 0 /\ mask # {} /\ sent < protocol.reports /\ ~hung
    /\ write - read < EV_MAX
    /\ sent' = sent + 1
    /\ bstate' = PressedAfter(what, b)
    /\ LET bits == Decoded(what, b)
           event == [valid |-> TRUE, bits |-> bits, at |-> place',
                     of |-> <<[n |-> sent', what |-> what, b |-> b, at |-> place']>>]
       IN IF protocol.format = "SGR1006" /\ what = "move" /\ b = 0
          THEN Returned /\ UNCHANGED queue
          ELSE /\ ring' = [ring EXCEPT ![Slot(write)] = event]
               /\ write' = write + 1 /\ UNCHANGED read
               /\ IF Position \in bits \/ what = "wheel" THEN Returned
                  ELSE runcount' = runcount + 1 /\ waiting' = TRUE
    /\ UNCHANGED <<setting, fifo, ghost, calls, hung>>
Press(b) ==
    /\ b \notin held /\ held' = held \cup {b} /\ UNCHANGED place
    /\ Report("press", b)
Release(b) ==
    /\ b \in held /\ held' = held \ {b} /\ UNCHANGED place
    /\ Report("release", b)
Turn(b) == UNCHANGED <<held, place>> /\ Report("wheel", b)
Move(to) ==
    /\ to # place /\ place' = to /\ UNCHANGED held
    /\ IF protocol.motion THEN Report("move", IF held = {} THEN 0 ELSE Min(held))
       ELSE /\ runcount >= 0 /\ held # {}
            /\ UNCHANGED <<queue, setting, bstate, runcount, waiting, fifo, sent, ghost, calls, hung>>

(* No report has followed in time: the run is parsed.  With nothing valid    *)
(* the event before the first slot is looked at, and may be anything.        *)
Timeout ==
    /\ waiting /\ ~hung
    /\ IF ~maxclick /\ Ready THEN Returned /\ UNCHANGED <<queue, hung>>
       ELSE LET s == Parsed(runcount)
                w == WriteAfter(s.ring)
            IN /\ ring' = Fresh(s.ring) /\ hung' = s.hung
               /\ read' = ReadAfter(s.ring) /\ write' = w
               /\ \E complete \in IF w = 0 THEN BOOLEAN
                                  ELSE {s.ring[Slot(w - 1)].bits \cap mask # {}} :
                     IF complete THEN Returned ELSE waiting' = FALSE /\ UNCHANGED runcount
    /\ UNCHANGED <<setting, bstate, fifo, device, ghost, calls>>

(* A key ends the run; it is put back, and KEY_MOUSE returned instead.       *)
Key ==
    /\ runcount >= 0
    /\ fifo' = IF runcount > 0 THEN <<"key">> \o fifo ELSE fifo
    /\ Returned
    /\ UNCHANGED <<queue, setting, bstate, device, ghost, calls, hung>>

-----------------------------------------------------------------------------
(* The application's calls.                                                  *)

(* _nc_get_mouse(): what is not wanted is thrown away on the way.            *)
Wanted(b) == IF b = -1 THEN Mask2(mask)
             ELSE Mask2(mask) \cap ((Kinds \X {b}) \cup {Position})
Found(b) ==
    Min({write} \cup {i \in read..write-1 :
             ring[Slot(i)].valid /\ ring[Slot(i)].bits \cap Wanted(b) # {}})
Without(from, to) ==
    [i \in 0..EV_MAX-1 |-> IF \E k \in from..to-1 : i = Slot(k) THEN NoEvent ELSE ring[i]]

Take(b) ==
    /\ runcount = -1
    /\ LET at == Found(b)
           past == IF at = write THEN at ELSE at + 1
       IN /\ ring' = Without(read, past) /\ read' = past
          /\ got' = IF at = write THEN NoEvent ELSE ring[Slot(at)]
          /\ seen' = IF at = write \/ ring[Slot(at)].of = <<>> THEN seen
                     ELSE Last(ring[Slot(at)].of).n
    /\ UNCHANGED <<write, setting, bstate, runcount, waiting, fifo, device, calls, hung>>
Getmouse == Take(-1)
MouseGet(b) == Take(b)
Testmouse ==
    /\ runcount = -1 /\ read # Found(-1)
    /\ ring' = Without(read, Found(-1)) /\ read' = Found(-1)
    /\ UNCHANGED <<write, setting, bstate, runcount, waiting, fifo, device, ghost, calls, hung>>

Ungetmouse ==
    /\ runcount = -1 /\ got.valid /\ Called /\ write - read < EV_MAX
    /\ ring' = [ring EXCEPT ![Slot(write)] = [got EXCEPT !.of = <<>>]]
    /\ write' = write + 1 /\ fifo' = <<"mouse">> \o fifo
    /\ UNCHANGED <<read, setting, bstate, runcount, waiting, device, got, seen, hung>>

Mousemask(m) ==
    /\ runcount = -1 /\ Called /\ mask' = m /\ mask # m
    /\ bstate' = IF m = {} THEN bstate ELSE {}
    /\ UNCHANGED <<queue, maxclick, protocol, runcount, waiting, fifo, device, ghost, hung>>
Mouseinterval ==
    /\ runcount = -1 /\ Called /\ maxclick' = ~maxclick
    /\ UNCHANGED <<queue, mask, protocol, bstate, runcount, waiting, fifo, device, ghost, hung>>

(* endwin() and the refresh after it: reports are switched off and on, and   *)
(* the user may have let the buttons go meanwhile.                           *)
Suspend ==
    /\ runcount = -1 /\ Called /\ mask # {} /\ bstate # {}
    /\ bstate' = {} /\ held' \in {held, {}}
    /\ UNCHANGED <<queue, setting, runcount, waiting, fifo, place, sent, ghost, hung>>

Next ==
    \/ Wgetch \/ Timeout \/ Key \/ Getmouse \/ Testmouse \/ Ungetmouse
    \/ Mouseinterval \/ Suspend
    \/ \E b \in Buttons : Press(b) \/ Release(b) \/ MouseGet(b)
    \/ \E b \in Wheel : Turn(b)
    \/ \E p \in Places : Move(p)
    \/ \E m \in Masks : Mousemask(m)
Spec == Init /\ [][Next]_vars

-----------------------------------------------------------------------------
(* An event that says click, double or triple click stands for so many       *)
(* presses and releases of that button at that place, in this order and with *)
(* nothing between them, whatever runs they came in (a movement with the     *)
(* button held is a press to the library); and the parser leaves its loops.  *)
Times == [press |-> 0, release |-> 0, position |-> 0, click |-> 2, double |-> 4, triple |-> 6]
Stands(e, kind, b) ==
    LET n == Times[kind]
    IN n > 0 =>
        /\ Len(e.of) = n
        /\ \A k \in 1..n : /\ e.of[k].what \in IF k % 2 = 1 THEN {"press", "move"} ELSE {"release"}
                           /\ e.of[k].b = b /\ e.of[k].at = e.at
                           /\ e.of[k].n = e.of[1].n + k - 1
GesturesTrue ==
    /\ ~hung
    /\ \A i \in DOMAIN ring : ring[i].valid /\ ring[i].of # <<>> =>
          \A bit \in ring[i].bits : Stands(ring[i], bit[1], bit[2])

(* getmouse() gives events in the order in which they happened, none of them *)
(* twice, alone or as a part of another.                                     *)
InOrder == got' # got /\ got'.of # <<>> => Head(got'.of).n > seen
EventsInOrder == [][InOrder]_vars
=============================================================================
