------------------------------- MODULE Getch --------------------------------
(* wgetch() of one SCREEN (lib_getch.c): the wait for input, the matching of *)
(* key sequences in the FIFO, cooked (line) mode, and the SIGWINCH flag that *)
(* ends as a KEY_RESIZE in the same FIFO.  The keyboard, the terminal's size *)
(* and signals interleave with every step of the library.  Default build: no *)
(* wgetch_events, no GPM, no sysmouse; 7-bit bytes, no carriage returns.     *)
EXTENDS Fifo, Sequences, SequencesExt

CONSTANTS
    Bytes,          \* what the keyboard sends
    NL,             \* '\n'
    ERASE, KILL,    \* erasechar() and killchar()
    KeyTry,         \* _keytry: function from byte sequences to key codes
    KEY_RESIZE,
    KEY_DOWN, KEY_ENTER, KEY_LEFT, KEY_BACKSPACE,   \* those wgetnstr() knows
    Keys,           \* what the application gives ungetch()
    Windows,        \* set of [keypad, timed, line, echo]: how wgetch is called
    Sizes,          \* terminal sizes
    MAXLINE,        \* longest line wgetnstr() takes (MAXCOLUMNS - 1)
    MaxTty,         \* bound: bytes waiting in the terminal driver
    Backlog         \* bound: the application lets no more keys wait than this

(* What is at least KEY_MIN: the codes of <curses.h> and what the terminal's *)
(* keys give.                                                                *)
KeyCodes ==
    {KEY_RESIZE, KEY_DOWN, KEY_ENTER, KEY_LEFT, KEY_BACKSPACE}
      \cup {KeyTry[s] : s \in DOMAIN KeyTry}

(* Codes are above all bytes (KEY_MIN is 0401) and ERR is neither; a key     *)
(* sequence is not empty (_nc_add_to_try refuses it).                        *)
ASSUME KeyAssumption ==
    /\ Bytes \cap KeyCodes = {}
    /\ ERR \notin Bytes \cup Keys \cup KeyCodes \cup {NL}
    /\ KEY_RESIZE \notin {NL, KEY_DOWN, KEY_ENTER, KEY_LEFT, KEY_BACKSPACE}
    /\ DOMAIN KeyTry \subseteq Seq(Bytes) \ {<<>>}
ASSUME BoundAssumption == MAXLINE \in Nat /\ Backlog \in Nat /\ MaxTty \in Nat

IsPrefixOfKey_NoSiblings(s) ==  \* mutant: one child of each node is looked at
    \E k \in DOMAIN KeyTry : IsPrefix(s, k) /\ \A j \in DOMAIN KeyTry : Len(j) >= Len(k)
IsPrefixOfKey(s) == \E k \in DOMAIN KeyTry : IsPrefix(s, k)

VARIABLES
    q,              \* the FIFO
    tty,            \* bytes typed and not yet read
    pc,             \* where the library is
    ret,            \* where doupdate()'s size check returns to
    win,            \* the window and modes of the current call
    node,           \* the bytes kgetch() has matched: its place in the trie
    line,           \* the line wgetnstr() is editing
    called,         \* _called_wgetch
    result,         \* what the last wgetch() returned
    have_sigwinch,  \* set by the handler
    sig_winch,      \* _sig_winch of the screen
    size,           \* the terminal's size
    lines,          \* the size the library works with
    owed            \* history: a resize the application was not told of

input == <<q, result, owed>>
winch == <<have_sigwinch, sig_winch, size, lines>>
vars  == <<q, tty, pc, ret, win, node, line, called, result, winch, owed>>

Init ==
    /\ q = EmptyFifo
    /\ tty = <<>>
    /\ pc = "app" /\ ret = "app"
    /\ win \in Windows
    /\ node = <<>> /\ line = <<>> /\ called = FALSE
    /\ result = ERR
    /\ have_sigwinch = FALSE /\ sig_winch = FALSE
    /\ size \in Sizes /\ lines = size
    /\ owed = FALSE

Goto(label) == pc' = label /\ UNCHANGED ret

(* Run doupdate()'s size check (or the one of check_sigwinch), go on at label *)
CheckSize(label) == pc' = "winch" /\ ret' = label

(* A wrefresh() that happens only if the window is touched or has moved.     *)
MayRefresh(label) == Goto(label) \/ CheckSize(label)

(* A KEY_RESIZE that reaches the application settles the debt; one taken for *)
(* wgetnstr() does not.                                                      *)
Settle(ch) == owed' = (owed /\ (ch # KEY_RESIZE \/ called))

(* wgetch takes ch off the FIFO and leaves q1.                               *)
Take(ch, q1) == q' = q1 /\ result' = ch /\ Settle(ch)

-----------------------------------------------------------------------------
(* The application.                                                          *)

Wgetch(w) ==
    /\ pc = "app" /\ Goto("top")
    /\ win' = w
    /\ UNCHANGED <<input, tty, node, line, called, winch>>

Ungetch(k) ==
    /\ pc = "app" /\ Count(q) < Backlog
    /\ q' = safe_ungetch(q, k)
    /\ UNCHANGED <<tty, pc, ret, win, node, line, called, result, winch, owed>>

(* flushinp() drops the typed bytes and the whole FIFO, a KEY_RESIZE too.    *)
Flushinp ==
    /\ pc = "app"
    /\ q' = Flushed(q) /\ tty' = <<>>
    /\ owed' = (owed /\ (have_sigwinch \/ sig_winch))
    /\ UNCHANGED <<pc, ret, win, node, line, called, result, winch>>

Doupdate ==
    /\ pc = "app" /\ Count(q) < Backlog
    /\ CheckSize("app")
    /\ UNCHANGED <<input, tty, win, node, line, called, winch>>

-----------------------------------------------------------------------------
(* _nc_handle_sigwinch() and _nc_update_screensize().                        *)

HandleSigwinch ==
    /\ pc = "winch"
    /\ have_sigwinch' = FALSE
    /\ sig_winch' = (sig_winch \/ have_sigwinch)
    /\ Goto(IF sig_winch' THEN "size" ELSE IF ret = "resized" THEN "done" ELSE ret)
    /\ UNCHANGED <<input, tty, win, node, line, called, size, lines>>

(* Mutant: the resize is reported and not made.                              *)
UpdateScreensize_Ignores ==
    /\ pc = "size" /\ Goto(ret)
    /\ sig_winch' = FALSE
    /\ q' = safe_ungetch(q, KEY_RESIZE)
    /\ UNCHANGED <<tty, win, node, line, called, result, have_sigwinch, lines, size, owed>>

(* Mutant: only a changed size is reported.                                  *)
UpdateScreensize_IfChanged ==
    /\ pc = "size" /\ Goto(ret)
    /\ lines' = size
    /\ sig_winch' = FALSE
    /\ q' = IF size # lines THEN safe_ungetch(q, KEY_RESIZE) ELSE q
    /\ UNCHANGED <<tty, win, node, line, called, result, have_sigwinch, size, owed>>

(* A changed size goes through resizeterm(), an unchanged one only reports   *)
(* the signal; both unget a KEY_RESIZE.                                      *)
UpdateScreensize ==
    /\ pc = "size" /\ Goto(ret)
    /\ lines' = size
    /\ sig_winch' = FALSE
    /\ q' = safe_ungetch(q, KEY_RESIZE)
    /\ UNCHANGED <<tty, win, node, line, called, result, have_sigwinch, size, owed>>

(* Mutant: the ERR stays in the FIFO.                                        *)
Resized_LeavesErr ==
    /\ pc = "resized" /\ Goto("done")
    /\ IF CookedKeyInFifo(q) THEN Take(HeadKey(q), fifo_pull(q)) ELSE UNCHANGED input
    /\ UNCHANGED <<tty, win, node, line, called, winch>>

(* check_sigwinch in _nc_wgetch: return the KEY_RESIZE instead of the ERR,   *)
(* and take the ERR that the signal left in the FIFO with it.                *)
Resized ==
    /\ pc = "resized" /\ Goto("done")
    /\ LET pulled == fifo_pull(q)
           peeked == fifo_peek(pulled)
       IN  IF CookedKeyInFifo(q)
           THEN Take(HeadKey(q), IF PeekKey(pulled) = ERR THEN fifo_pull(peeked) ELSE peeked)
           ELSE UNCHANGED input
    /\ UNCHANGED <<tty, win, node, line, called, winch>>

-----------------------------------------------------------------------------
(* The head of _nc_wgetch().                                                 *)

LineMode == q.head = -1 /\ win.line /\ ~called

TopCooked ==
    /\ pc = "top" /\ CookedKeyInFifo(q)
    /\ MayRefresh("pull")
    /\ UNCHANGED <<input, tty, win, node, line, called, winch>>

PullCooked ==
    /\ pc = "pull" /\ Goto("done")
    /\ Take(HeadKey(q), fifo_pull(q))
    /\ UNCHANGED <<tty, win, node, line, called, winch>>

TopLine ==
    /\ pc = "top" /\ ~CookedKeyInFifo(q) /\ LineMode
    /\ called' = TRUE /\ line' = <<>>
    /\ MayRefresh("top")
    /\ UNCHANGED <<input, tty, win, node, winch>>

TopRaw ==
    /\ pc = "top" /\ ~CookedKeyInFifo(q) /\ ~LineMode
    /\ MayRefresh("start")
    /\ UNCHANGED <<input, tty, win, node, line, called, winch>>

-----------------------------------------------------------------------------
(* The timed wait, only made while the FIFO is empty.                        *)

Waiting == pc = "start" /\ win.timed /\ q.head = -1

StartRead ==
    /\ pc = "start" /\ (Waiting => tty # <<>>)
    /\ Goto("key")
    /\ UNCHANGED <<input, tty, win, node, line, called, winch>>

(* The wait gave up: time ran out, or a signal interrupted poll().           *)
WaitFails ==
    /\ Waiting
    /\ CheckSize("resized")
    /\ result' = ERR
    /\ UNCHANGED <<q, win, node, line, called>>

-----------------------------------------------------------------------------
(* Reading: kgetch() in keypad mode, fifo_push and fifo_pull without it.     *)

(* What _nc_wgetch does with ch: an ERR may stand for a SIGWINCH; echo() has *)
(* wechochar() refresh the window (wgetnstr() turns echo off and refreshes   *)
(* by itself).                                                               *)
After(ch) ==
    IF ch = ERR THEN CheckSize("resized")
    ELSE IF win.echo /\ ~called /\ ch \notin KeyCodes THEN CheckSize("done")
    ELSE Goto("done")

Give(ch, q1) == q' = q1 /\ result' = ch /\ node' = <<>> /\ After(ch)

Deliver(ch, q1) == Give(ch, q1) /\ Settle(ch)

HighPriorityKey == CookedKeyInFifo(q) /\ HeadKey(q) \in KeyCodes

(* The library is, or is about to be, blocked in read().  (fifo_push refuses *)
(* a FIFO without room, but such a one always holds a raw key.)              *)
Reading ==
    /\ pc = "key"
    /\ IF win.keypad THEN ~HighPriorityKey /\ ~RawKeyInFifo(q) ELSE q.head = -1

ReadByte ==
    /\ Reading /\ tty # <<>>
    /\ tty' = Tail(tty)
    /\ IF win.keypad
       THEN q' = fifo_push(q, Head(tty)) /\ UNCHANGED <<pc, ret, result, owed, node>>
       ELSE LET pushed == fifo_push(q, Head(tty))
            IN  Deliver(HeadKey(pushed), fifo_pull(pushed))
    /\ UNCHANGED <<win, line, called, winch>>

(* A signal interrupts read(): the ERR goes into the FIFO like a byte, and   *)
(* the bytes of an unfinished key sequence become uninterpreted again.       *)
ReadFails ==
    /\ Reading
    /\ LET pushed == fifo_push(q, ERR)
       IN  Give(ERR, IF win.keypad THEN Uninterpreted(pushed) ELSE fifo_pull(pushed))
    /\ UNCHANGED <<win, line, called>>

PullRaw ==
    /\ pc = "key" /\ ~win.keypad /\ q.head # -1
    /\ Deliver(HeadKey(q), fifo_pull(q))
    /\ UNCHANGED <<tty, win, line, called, winch>>

KeyWithPriority ==
    /\ pc = "key" /\ win.keypad /\ HighPriorityKey
    /\ Deliver(HeadKey(q), Uninterpreted(fifo_pull(q)))
    /\ UNCHANGED <<tty, win, line, called, winch>>

(* One turn of kgetch()'s loop over a raw byte ch.                           *)
Match ==
    /\ pc = "key" /\ win.keypad /\ ~HighPriorityKey /\ RawKeyInFifo(q)
    /\ LET ch     == PeekKey(q)
           peeked == fifo_peek(q)
           seen   == Append(node, ch)
       IN  \/ /\ ch \in KeyCodes
              /\ Deliver(ch, t_dec(Uninterpreted(q)))
           \/ /\ ch \notin KeyCodes /\ ~IsPrefixOfKey(seen)
              /\ Deliver(HeadKey(q), Uninterpreted(fifo_pull(peeked)))
           \/ /\ seen \in DOMAIN KeyTry
              /\ Deliver(KeyTry[seen], IF peeked.peek = q.tail THEN fifo_clear(q)
                                       ELSE [peeked EXCEPT !.head = peeked.peek])
           \/ /\ IsPrefixOfKey(seen) /\ seen \notin DOMAIN KeyTry
              /\ q' = peeked /\ node' = seen
              /\ Goto(IF RawKeyInFifo(peeked) THEN "key" ELSE "esc")
              /\ UNCHANGED <<result, owed>>
    /\ UNCHANGED <<tty, win, line, called, winch>>

RestReady ==
    /\ pc = "esc" /\ tty # <<>>
    /\ Goto("key")
    /\ UNCHANGED <<input, tty, win, node, line, called, winch>>

(* Mutant: the wait for the rest of a sequence has no timer.                 *)
RestFails_Never == pc = "esc" /\ FALSE /\ Give(HeadKey(q), q) /\ UNCHANGED <<win, line, called>>

(* ESCDELAY ran out, or a signal interrupted poll(): the first byte is a key *)
(* of its own, the others stay raw.                                          *)
RestFails ==
    /\ pc = "esc"
    /\ Give(HeadKey(q), Uninterpreted(fifo_pull(q)))
    /\ UNCHANGED <<win, line, called>>

-----------------------------------------------------------------------------
(* The end of a call, and the client wgetnstr() in cooked mode.              *)

Return ==
    /\ pc = "done" /\ ~called
    /\ Goto("app")
    /\ UNCHANGED <<input, tty, win, node, line, called, winch>>

EndsLine == result \in {NL, KEY_DOWN, KEY_ENTER}
LineEnds == EndsLine \/ result \in {ERR, KEY_RESIZE}

Erases == result \in {ERASE, KEY_LEFT, KEY_BACKSPACE}
Kills  == result = KILL /\ ~Erases
Types  == ~Erases /\ ~Kills /\ result \notin KeyCodes

(* A key that does not end the line: it takes the last character back, or    *)
(* all of them; it goes into the line if that fits, and its echo refreshes   *)
(* the window; or the terminal beeps.  A character echoed at the lower-right *)
(* corner of a window that does not scroll is wiped out again.               *)
EditLine(fits) ==
    /\ pc = "done" /\ called /\ ~LineEnds
    /\ \/ /\ Erases /\ Goto("top")
          /\ line' = IF line = <<>> THEN line ELSE Front(line)
       \/ /\ Kills /\ Goto("top")
          /\ line' = <<>>
       \/ /\ Types /\ fits
          /\ \/ line' = Append(line, result) /\ IF win.echo THEN CheckSize("top") ELSE Goto("top")
             \/ line' = line /\ win.echo /\ Goto("top")
       \/ /\ ~Erases /\ ~Kills /\ ~(Types /\ fits) /\ Goto("top")
          /\ line' = line
    /\ UNCHANGED <<input, tty, win, node, called, winch>>

LineEdit_OffByOne == EditLine(Len(line) <= MAXLINE)     \* mutant
LineEdit == EditLine(Len(line) < MAXLINE)

(* The newline is echoed at the bottom of a window that scrolls.             *)
LineEcho ==
    /\ pc = "done" /\ called /\ EndsLine /\ win.echo
    /\ CheckSize("end")
    /\ UNCHANGED <<input, tty, win, node, line, called, winch>>

(* wgetnstr() ends in wrefresh(); _nc_wgetch adds the newline unless it got  *)
(* ERR from it.                                                              *)
LineEnd ==
    /\ called /\ (pc = "end" \/ (pc = "done" /\ LineEnds))
    /\ line' = (IF result = ERR THEN line ELSE Append(line, NL))
    /\ called' = FALSE
    /\ CheckSize("stuff")
    /\ UNCHANGED <<input, tty, win, node, winch>>

StuffKey ==
    /\ pc = "stuff" /\ line # <<>>
    /\ q' = safe_ungetch(q, Last(line))
    /\ line' = SubSeq(line, 1, Len(line) - 1)
    /\ UNCHANGED <<tty, pc, ret, win, node, called, result, winch, owed>>

StuffPull ==
    /\ pc = "stuff" /\ line = <<>> /\ Goto("done")
    /\ Take(HeadKey(q), fifo_pull(q))
    /\ UNCHANGED <<tty, win, node, line, called, winch>>

-----------------------------------------------------------------------------
(* The environment.                                                          *)

Keyboard(b) ==
    /\ Len(tty) < MaxTty
    /\ tty' = Append(tty, b)
    /\ UNCHANGED <<input, pc, ret, win, node, line, called, winch>>

Timeout == (WaitFails \/ RestFails) /\ UNCHANGED <<tty, owed, winch>>

(* A signal lands in a system call that is waiting for input.                *)
Interrupted == tty = <<>> /\ (WaitFails \/ RestFails \/ ReadFails)

Handler(s) ==
    /\ size' = s
    /\ have_sigwinch' = TRUE /\ owed' = TRUE
    /\ UNCHANGED <<tty, sig_winch, lines>>

(* SIGWINCH's handler runs between two steps of the library ...              *)
Sigwinch(s) ==
    /\ Handler(s)
    /\ UNCHANGED <<q, pc, ret, win, node, line, called, result>>

(* ... or while it is blocked (it is installed without SA_RESTART).          *)
SigwinchInterrupts(s) == Handler(s) /\ Interrupted

(* A handler of the application's own, also without SA_RESTART.              *)
SignalInterrupts == Interrupted /\ UNCHANGED <<tty, owed, winch>>

Library ==
    \/ HandleSigwinch \/ UpdateScreensize \/ Resized
    \/ TopCooked \/ PullCooked \/ TopLine \/ TopRaw \/ StartRead
    \/ ReadByte \/ PullRaw \/ KeyWithPriority \/ Match
    \/ RestReady \/ Return \/ LineEdit \/ LineEcho \/ LineEnd \/ StuffKey \/ StuffPull

Application ==
    \/ \E w \in Windows : Wgetch(w)
    \/ \E k \in Keys : Ungetch(k)
    \/ Flushinp \/ Doupdate

Environment ==
    \/ \E b \in Bytes : Keyboard(b)
    \/ \E s \in Sizes : Sigwinch(s) \/ SigwinchInterrupts(s)
    \/ SignalInterrupts
    \/ Timeout

Next == Library \/ Application \/ Environment

Spec == Init /\ [][Next]_vars

-----------------------------------------------------------------------------
(* Properties.                                                               *)

Labels == {"app", "winch", "size", "resized", "top", "pull", "start", "key",
           "esc", "done", "end", "stuff"}
Entries == Bytes \cup Keys \cup KeyCodes \cup {ERR, NL, NUL}

(* The type invariant, with the shape of the ring.                           *)
TypeOK ==
    /\ q \in FifoType(Entries) /\ RingOK(q)
    /\ tty \in Seq(Bytes) /\ line \in Seq(Entries)
    /\ pc \in Labels /\ ret \in Labels
    /\ win \in Windows
    /\ called \in BOOLEAN /\ owed \in BOOLEAN
    /\ have_sigwinch \in BOOLEAN /\ sig_winch \in BOOLEAN
    /\ size \in Sizes /\ lines \in Sizes
    /\ result \in Entries

(* A size change is never forgotten: while the library's idea of the size    *)
(* differs from the terminal's, a flag or a step under way will correct it.  *)
SizeTracked == size # lines => have_sigwinch \/ sig_winch

(* A resize the application was not told of is still on its way: as a flag,  *)
(* or as a KEY_RESIZE in the FIFO (resizeterm(3X): "which will be read on    *)
(* the next call to wgetch").                                                *)
ResizeOnItsWay ==
    owed => \/ have_sigwinch \/ sig_winch
            \/ \E i \in 0 .. Count(q) - 1 : At(q, i) = KEY_RESIZE

(* check_sigwinch: the ERR that the signal left in the FIFO goes with the    *)
(* KEY_RESIZE; the next wgetch() must not fail for it ("Get the ERR from     *)
(* queue").                                                                  *)
WinchErrTaken ==
    [][Resized /\ result' = KEY_RESIZE
         => \A i \in 0 .. Count(q') - 1 : At(q', i) # ERR]_vars

(* A byte is returned for want of a matching key sequence only if the bytes  *)
(* typed so far do begin none.                                               *)
NoMissedKey ==
    [][Match /\ pc' # "key" /\ pc' # "esc" /\ result' \in Bytes
         => \A s \in DOMAIN KeyTry : ~IsPrefix(s, Contents(q) \o tty)]_vars

(* A line typed in cooked mode goes back into the FIFO whole: there is a     *)
(* slot for each of its characters and for the newline, whatever was typed   *)
(* and resized meanwhile.  (The last of them may leave none free.)           *)
LineFits == [][StuffKey => HasRoom(q)]_vars

(* The FIFO and the driver's bytes together are the one queue of KeyQueue.   *)
(* The ERR of a failed read is no key (an ERR anywhere but in the last slot  *)
(* would be taken for one); while kgetch() has bytes in hand all are raw.    *)
Kept == IF Count(q) > 0 /\ At(q, Count(q) - 1) = ERR THEN Count(q) - 1 ELSE Count(q)
QueuedKeys ==
    [i \in 1 .. Kept + Len(tty) |->
        IF i <= Kept THEN [key |-> At(q, i - 1), typed |-> node # <<>> \/ i > Cooked(q)]
                     ELSE [key |-> tty[i - Kept], typed |-> TRUE]]

KQ == INSTANCE KeyQueue WITH
         keys <- QueuedKeys, got <- result,
         Keys <- Keys \cup Bytes \cup {KEY_RESIZE, NL}

(* No key is lost, made up, read twice or overtaken.                         *)
IsKeyQueue == KQ!Spec

-----------------------------------------------------------------------------
(* Liveness: the library's steps are ordinary code and go on; timers expire. *)

Fairness == WF_vars(Library) /\ WF_vars(Timeout)

(* The application's loop refreshes the screen and calls wgetch() again and  *)
(* again.  (Without the refreshes a user who never pauses typing keeps the   *)
(* KEY_RESIZE away: wgetch looks at the flag only when it has no key.)       *)
FairSpec == Spec /\ Fairness /\ SF_vars(\E w \in Windows : Wgetch(w)) /\ SF_vars(Doupdate)

(* A call with a delay returns whatever the keyboard and the signals do.     *)
CallReturns == pc # "app" ~> pc = "app"

(* The application is told of every resize, unless it keeps calling          *)
(* flushinp(), which drops the KEY_RESIZE with the typed keys.               *)
ResizeReported == (owed ~> ~owed) \/ []<><<Flushinp>>_vars
=============================================================================
