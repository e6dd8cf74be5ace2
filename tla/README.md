# Verification of ncurses

TLA+ modules for the core of ncurses — from the bytes a terminal sends to the
keys, events and menu or form actions they become, and from the cells an
application writes to those the terminal shows — with TLC configurations that
check them on small instances and TLAPS proofs that hold for every instance.
The source is the reference: every definition translates lines of `src/`, and
`PROJECT.json` (`map`) says which.

    tlc -config Getch.cfg MCGetch          # a run
    tlapm GetchProofs.tla                  # the proofs of a module

Sections: 1 the system, 2 the modules, 3 the runs, 4 the proofs, 5 what was
found, 6 what is not modelled, 7 what is left to do.

## 1. The system

ncurses is a library inside one process, without threads of its own (the
`pthreads` build is not modelled).  What runs "at the same time" is the user
and the terminal's driver, other programs that write on the terminal, and
signal handlers.  Everything it knows of a terminal is in a `SCREEN`; most
of what is hard about it are long sequences of legal calls, and two or three
copies of the same thing that must agree.

| Part | Source | State | Operations | Hard behaviour | Correct when |
|---|---|---|---|---|---|
| Keyboard input | `base/lib_getch.c`, `lib_ungetch.c`, `lib_getstr.c`, `fifo_defs.h` | `_fifo` with `_fifohead`, `_fifotail`, `_fifopeek`; `_sig_winch`, `have_sigwinch` | `wgetch`, `ungetch`, `flushinp`, `wgetnstr` | timeouts inside a key sequence, SIGWINCH at any step, cooked lines read through the FIFO they are put into | keys come out in order, none lost; a resize is reported; a call with a delay returns |
| Key definitions | `tinfo/add_tries.c`, `base/key_defined.c`, `define_key.c`, `keyok.c`, `init_keytry.c` | two tries | `define_key`, `key_defined`, `keyok` | strings that begin others, a key with several strings | a call changes the keys it names and no other |
| Mouse | `base/lib_mouse.c` | a ring of events | the reports' parser, `getmouse`, `ungetmouse`, `mousemask`, `mouseinterval` | merging presses into clicks across the ring's end, suspension | a click is what the user did; events keep their order |
| Virtual screen and update | `base/lib_refresh.c`, `tty/tty_update.c`, `base/lib_redrawln.c`, `lib_endwin.c` | windows with marks; `newscr`, `curscr`; `_clear` flags; `_endwin` | `wnoutrefresh`, `doupdate`, `wredrawln`, `clearok`, `touchline`, `endwin` | two screens and two sets of marks; damage by others; suspension | the terminal shows what was refreshed, and `curscr` what it shows |
| Inside a line | `tty/tty_update.c` | a line of `curscr`, `newscr` and the terminal; the cursor | put, insert, delete, clear, repeat | last column, automatic margins, costs, blanks with attributes | the line becomes the wanted one |
| Cursor movement | `tty/lib_mvcur.c` | capabilities and their costs | `mvcur` | the cheapest of many ways, tabs, margins, rewriting cells | the cursor ends where it should and no cell changes |
| Video attributes | `tty/lib_vidattr.c`, `base/lib_color.c` | what the terminal is believed to write with | `vidputs`, `_nc_do_color` | attributes that end only together, or with the colours; colours that exclude attributes | the terminal writes with what is believed |
| Scrolling optimization | `tty/hashmap.c`, `hardscroll.c` | `oldhash`, `newhash`, `_oldnum_list` | `_nc_scroll_optimize` and below | stale hashes, crossing hunks, refused scrolls | the screen is right, ordered lines survive |
| Window list and subwindows | `base/lib_newwin.c`, `lib_window.c`, `wresize.c`, `lib_delwin.c`, `lib_touch.c` | the list; `_parent`, `_parx`; pointers to the parent's text; marks | `newwin`, `derwin`, `dupwin`, `mvderwin`, `wresize`, `delwin`, `wsyncup`, `wsyncdown` | pointers into memory of another window | a subwindow lies in its parent; no change is overlooked |
| Cells, wide characters, pads | `base/lib_addch.c`, `lib_add_wch.c`, `lib_ins_wch.c`, `lib_pad.c` and others | cells of one and two columns, marks, a pad's last place | add, insert, delete, erase, `copywin`, `pnoutrefresh` | operations that cut a character in two, clipping | whole characters; a refresh copies what changed |
| Colour pairs | `base/new_pair.c`, `lib_color.c` | table, index, list by recency | `init_pair`, `alloc_pair`, `free_pair`, `assume_default_colors` | recycling, keys that change in place, cells already drawn | index and list are exact; no cell keeps old colours |
| Screens, sizes, signals | `base/resizeterm.c`, `tinfo/lib_raw.c`, `lib_ttyflags.c`, `tty/lib_tstp.c` | sizes; three copies of the driver's modes | `resizeterm`, `raw` and kin, `savetty`, `endwin`, SIGTSTP | a walk that fails in the middle; stops anywhere | windows follow the size; the driver is in the modes asked for |
| Panels | `panel/` | a stack of panels | `top_panel`, `hide_panel`, `move_panel`, `update_panels` and the rest | overlapping windows, marks only | what is on top is seen |
| Menus | `menu/` | links between items, current item, top row, pattern | `menu_driver`, `post_menu`, options, format | long sequences of requests | the current item is seen and matches the pattern |
| Forms | `form/` | current field, its window, buffers, status bits | `form_driver`, `set_current_field`, `set_field_buffer`, ... | text in a window or in a buffer, linked and growing fields | the cursor is on text that is shown; no typing is lost |
| Terminfo entries | `tinfo/comp_parse.c`, `alloc_entry.c`, `alloc_ttype.c` | entries with `use=`, arrays of extended names | resolving and merging | cycles, order, arrays brought into line while walked | an entry holds what it and its uses say |
| Soft labels, `tparm`, termcap, tools, tracing, bindings | `base/lib_slk*.c`, `tinfo/`, `progs/`, `trace/`, `c++/` | — | — | — | not modelled, see section 6 |

How they interact: the application changes cells through windows;
`wnoutrefresh` copies changed cells to `newscr`; `doupdate` lets the optimizer
scroll (which changes terminal, `curscr`, marks and hashes), then
`TransformLine` does the rest line by line through `mvcur` and `vidputs`.
`wgetch` refreshes its window, finds keys in a trie and mouse reports in the
stream; a resize makes `doupdate` walk over all windows and pushes KEY_RESIZE
into the FIFO.  `wredrawln`, `clearok`, `init_pair` and `endwin` make the
library distrust `curscr`.  Panels, menus and forms are clients of windows.

`PROJECT.json` lists every part with its status and, under `hazards`, each
place where this code is hard to test.

## 2. The modules

A component has a module; `MC...` modules instantiate several at once, each
behaviour being of one `part`; `...Proofs` modules hold theorems.

| Module | Models | State in the model and in the code |
|---|---|---|
| `Fifo` | the macros of `fifo_defs.h`, `fifo_push`, `fifo_pull`, `fifo_peek`, `fifo_clear`, `safe_ungetch` | a record `[buf, head, tail, peek]`; `head = -1` is empty, `tail = -1` full |
| `KeyQueue` | what `curs_getch(3X)` promises: one queue | the abstract specification that `Getch` implements |
| `Getch` | `_nc_wgetch`, `kgetch`, `wgetnstr`, `_nc_handle_sigwinch`, step by step | `pc`, the ring, `tty` (bytes in the driver), `have_sigwinch` and the screen's own flag apart, because the race is between them; `owed`, the resizes not yet reported, is history |
| `KeyTries` | `_nc_add_to_try` and the calls over it | `_keytry` and `_key_ok` as functions from strings; what is a node and what a leaf is kept apart |
| `Mouse` | parsing of reports, `_nc_mouse_parse`, the ring, the calls | ring, read and write index; `sent` and `got` are history |
| `Update` | `wnoutrefresh` … `doupdate`, a line being one value | windows, `newscr`, `curscr`, the terminal; `garbled`, damage curses was not told of |
| `Scroll` | `hashmap.c`, `hardscroll.c`, lines one cell wide | hashes, hunks, both passes; the choice that `Update` leaves open |
| `TransformLine` | `TransformLine` and everything below it, `ClearScreen` | the line in three copies; the terminal with its cursor, margin and pen |
| `Mvcur` | `mvcur` and its tactics | capabilities as costs; what the terminal does is external |
| `Vidputs` | `vidputs`, `_nc_do_color`, `ClearScreen`, endwin and resume | `attrs`, `pair` are `SCREEN_ATTRS`; `tty` what the terminal writes with |
| `WindowTree` | windows of one line, subwindows, marks | `list`, `parent`, `parx`; `text[w]` is the pointer `_line[].text`: owner and offset; `range[w]` is `firstchar` and `lastchar` |
| `Cells` | cells of windows and pads in the wide build | lines of bases, extensions and narrow cells |
| `Panels` | `panel/*.c` | the list with its three pointers, marks of windows, `newscr` |
| `Menu` | `menu/*.c` | links, current item, top row, pattern, what the pad shows |
| `Form` | `form/*.c` for fields of one line | current field, its window, buffers, status bits |
| `ResizeTerm` | `resizeterm.c` | windows, their sizes and parents, ripped-off lines |
| `ColorPairs` | `new_pair.c`, pairs in `lib_color.c` | table, index, list, the cells drawn |
| `TtyModes` | modes of the driver | `tty`, `Nttyb`, `Ottyb`, flags; `asked` is what the application asked for |
| `UseEntries` | `_nc_resolve_uses2`, `_nc_merge_entry`, `_nc_align_termtype` | entries, the pass and the entry it is at |
| `SequenceLemmas` | — | lemmas about least and greatest numbers, about what is defined step by step, about sequences with an element removed or put in front, and about their parts |

What a step is: within `Getch` whatever the environment can get between
(`pc` steps); elsewhere a call is one action, because nothing of the process
runs between its steps but signal handlers, and those are modelled where they
change the same state (SIGWINCH in `Getch`, SIGTSTP in `TtyModes`, between
calls).  A terminal is external: it does what its terminfo entry says.

`Getch` implements `KeyQueue`: `KQ == INSTANCE KeyQueue WITH ...` maps the
keys of the ring followed by the bytes in the driver to the queue.

## 3. The runs

Every passing run is exhaustive for its constants.

| Run | Shows | Bounds and why they are enough |
|---|---|---|
| `getch` | `TypeOK`; `SizeTracked`: an unknown size has a flag set somewhere; `ResizeOnItsWay`: an unreported resize is in the FIFO or will be noticed; `WinchErrTaken`: the ERR of an interrupted read leaves with its call; `IsKeyQueue`: refinement | FIFO of 4, so that head and tail wrap and the ring fills; a key of two bytes; two sizes; every mix of keypad and delay |
| `getch_calls` | `NoMissedKey`: a byte is returned raw only when it starts no complete key that is there; `LineFits`: nothing of a cooked line is dropped | keys of two and three bytes that share a prefix, as long as the FIFO allows; lines of two bytes in a FIFO of 5, which is `MAXLINE + 3` as in the source: erased, killed, too long, ended by the newline, a key, a resize or an interrupted read, in windows with and without keypad; an action constraint gives each kind of window its own keyboard |
| `getch_live` | `CallReturns`, `ResizeReported` under `FairSpec` | windows with a delay, one resize at a time |
| `update` | `TypeOK`; `PendingMarked`: lines that differ are marked; `ScreenTracked`: `curscr` is the terminal, damage apart; `Settled`: nothing marked means the terminal shows `newscr`; and of the optimizer `OrderedSurvive`, `HashesAgree`, `UpdateExact` | three lines, two texts, a window of one line that moves between first and last: a scroll has a region smaller than the screen, lines that stay, enter and leave, and a line no window writes.  Eight lines for the optimizer: hunks of three, the least that may move, in both halves |
| `terminal` | `LineShown`, `CursorTracked`: the line is on the terminal and its cursor where the library has it; `PenExact`: the terminal writes with what the library believes | lines of four cells of three kinds, every pair of texts, six terminals; five terminals of attributes, fixed and default colours |
| `tables` | `PairsSound`, `CellsTrue`; `GesturesTrue`, `EventsInOrder`; `KeysKept`; `MoveExact`; `ModesTrue`, `StopKeeps`; `EntriesTrue` | pairs: a table of 3 that grows, fills and is recycled, 4 colours; mouse: six reports, a ring of 8; keys: four strings of which one begins others, two definitions; moves: a screen of 3 by 10, four terminals; modes: one bit that curses does not manage; entries: three in a file and one on disk, two booleans, a number and a string, chains, two uses, a circle, a missing and an own use |
| `form` | `FieldShown`: the cursor is inside what is shown of the field; `EditsKept`: typed text reaches the buffer, checked, before the field is left | four fields on two pages, one that grows, two that share a buffer, a letter that is accepted and one that is not |
| `windows` | `NoChangeLost`: what is changed through a window or its parent is copied by its refresh; `NoOrphan`, `SharesMemory`; `WholeCharacters`, `RefreshExact`; `WalksAgree`, `UpdateShows`; `MenuShown`, `TypedMatches`; `SizesFollow` | parent and child of four columns: a change left of, right of, inside and across the child, and both made smaller and larger; three windows of three columns, two generations; cells of lines that hold two wide characters; two panels on two lines of two columns; five items; heights 1, 2, 4, 6 and two resizes |

Violation runs show where the code does not do what its documentation or a
comment says: `pair_zero`, `form_mouse`, `first_stop`, `lost_cancel`; section 5.

In the source `FIFO_SIZE` is `MAXCOLUMNS + 2` (`curses.priv.h:380`) and
`_nc_wgetch` asks `wgetnstr` for at most `MAXCOLUMNS - 1` bytes
(`lib_getch.c:411`); `getch_calls` keeps that proportion, `FIFO_SIZE = MAXLINE +
3`, at its smallest interesting size.  The longest line, its newline and the
KEY_RESIZEs of the refresh before it and the one behind it take every slot: the
run reaches that ring, each key has its slot, and the ring is marked full when
the last one is taken (what comes of that is in section 5).
Counters are bounded by `MaxTty` (bytes in the
driver), `Backlog` (keys in the ring when the application puts one back),
`MaxDamage` (lines damaged at once), `Places` (rows a window moves to),
`MaxDepth` (generations of windows), `MaxUsed`, `MaxDefines`, the reports and
calls of a mouse's protocol and `MaxResizes`; each is a guard of the
environment's or the application's actions, never of the library's.  Some
constants exclude what the code is known to do wrong, so that the rest can be
checked: `Moves = "childless"`, `FreesAll = FALSE`, `ClicksAway = FALSE`,
`BottomsAlone = FALSE`, `Grows = FALSE`, `Jumps = FALSE`, `Tall = FALSE`, `Careless = {}`, `Cancelling = FALSE`; section 5 says
what each excludes.

Fairness: `Fairness` asks that the library's own steps go on and that timers
expire (`WF(Library)`, `WF(Timeout)`).  `FairSpec` adds an application that
reads keys in a loop: it calls `wgetch` and `doupdate` again and again (`SF`,
because the signals and the user may disable each call again and again).
Nothing is assumed of the user, the driver or the signals: they may stop, or
never stop.

## 4. The proofs

| Theorem | Says, for every value of the constants | For the run's |
|---|---|---|
| `GetchProofs!TypeCorrect`, `SizeIsTracked` | types, and no change of size is overlooked, for every trie, set of windows and FIFO | `TypeOK`, `SizeTracked` |
| `GetchProofs!PushAppends`, `UngetPrepends`, `PullTakesFirst` | the ring is a queue with two ends, for every `FIFO_SIZE > 2` | — |
| `GetchProofs!FullStaysFull` | no pull makes room in a ring marked full | — |
| `GetchProofs!RoomIsKept` | under `Roomy` the ring is never full | — |
| `GetchProofs!LinesFit` | under `Fits`, which the source's ring meets to the slot (in keypad mode for keys of one byte), a line of any length goes back whole, whatever filled the ring before | `LineFits` |
| `GetchProofs!ErrIsTaken`, `KeysAreMatched` | under `Roomy` the ERR of an interrupted read leaves with its call, a byte is returned raw only if it begins no complete key | `WinchErrTaken`, `NoMissedKey` |
| `GetchProofs!ResizeIsOnItsWay` | under `Roomy`, and with windows that read key by key, no resize is forgotten | `ResizeOnItsWay` |
| `GetchProofs!ImplementsKeyQueue` | under `Roomy`, `Getch` implements `KeyQueue` | `IsKeyQueue` |
| `UpdateProofs!TypeCorrect`, `PendingIsMarked` | types, and lines that differ are marked, for every screen and set of windows | `TypeOK`, `PendingMarked` |
| `UpdateProofs!ScreenIsTracked`, `UpdateSettles` | `curscr` is the terminal; nothing marked means all shown; with no line ripped off the top | `ScreenTracked`, `Settled` |
| `WindowsProofs!NoneIsOrphaned` | no window outlives its parent, for every set of windows and depth | `NoOrphan` |
| `WindowsProofs!MemoryIsShared` | a subwindow points at its place in its parent's memory, if only childless windows are moved by `mvderwin` | `SharesMemory` |
| `TablesProofs!PairsAreSound` | index and list hold exactly the pairs in use, for every size of the table above 2, if the last pair is never freed | `PairsSound` |
| `TablesProofs!CellsShowTheirPairs` | no cell that counts as drawn has old colours, in every case | `CellsTrue` |
| `TablesProofs!ModesAreTrue` | the driver is in the modes asked for, for every set of other bits, if `endwin` is not called twice and the program not stopped behind it | `ModesTrue` |
| `TablesProofs!StopIsKept` | a stopped program goes on in its modes, unless it was stopped before its first `endwin` in modes curses was not told of, or behind `endwin` | `StopKeeps` |
| `WindowsProofs!ChangesAreShown` | what is changed through a window or its parent is copied when the window is refreshed, for every set and size of windows, if `MaxDepth <= 1` and `~Grows` | `NoChangeLost` |
| `WindowsProofs!StackIsLayered` | the links thread one stack on `stdscr`, and what is not shown is marked, for every screen and set of windows and panels, under `~BottomsAlone` | — |
| `WindowsProofs!WalksAreRight`, `UpdatesShowTop` | `panel_above` and `panel_below` walk over what is not hidden; what is not marked shows the topmost window; under `~BottomsAlone` | `WalksAgree`, `UpdateShows` |
| `FormProofs!FieldIsShown` | the current field of a posted form has its cursor in sight, and what is in sight is what the application reads or what is being edited; for every form whose fields have one line, on any pages and places, of any lengths and limits, with any options, under `~ClicksAway` | `FieldShown` |
| `FormProofs!EditsAreKept` | for the same forms, a field is left with exactly its text in its buffer, and an edited one only if the text passes its check | `EditsKept` |
| `MenuProofs!MenuIsShown` | the current item of a posted menu is in a row that is shown, and the pad shows every item once, where it is and as it is; for every menu, in both orders, cyclic or not, with any format, under `~Jumps`, `~Tall` and `KeepsLinks` | `MenuShown` |
| `MenuProofs!TypingMatches` | for the same menus with O_IGNORECASE, a typed character leads to an item whose name begins with the pattern, to the current one if its name does, and is taken back if no name begins so | `TypedMatches` |
| `VidputsProofs!PenIsExact` | the terminal writes with what the library believes, for every set of terminals and of colours | `PenExact` |

Assumptions are the named ASSUMEs of the modules, and TLC evaluates each one on
its run: sizes are positive, ERR is not a key, the codes of keys are not bytes,
no key sequence is empty, a terminal can end the
attributes it can begin, pair 0 has two colours or none, panels are finitely
many, a page of a form has a field whose options are left alone, a linked field
does not grow.  Where a theorem has
a hypothesis of its own (`Roomy`, `Fits`, `NoLines`, `YOffset` is 0, `Moves # "any"`, `~FreesAll`,
`~BottomsAlone`, `~ClicksAway`, `~Jumps`, `~Tall`, `KeepsLinks`, `Careless`), it excludes a case in which the code does fail: section 5 has the
run or the description of each.

The arguments:

- **Input.** The inductive invariant is `TypeOK /\ SizeTracked`; `TypeOK`
  contains `RingOK`: an empty ring has its tail at 0, head and tail never
  meet, peek is an index unless the ring is empty.  Without it no macro keeps
  its indices in range, and the code asserts it nowhere.
- **The queue of keys.** `Roomy` says that the ring has two slots more than a
  key sequence or what the application puts back, and than a line with its
  newline; and, for windows that read lines in keypad mode, that the bytes of a
  key fit behind a line.  For 137 slots and windows in cbreak mode it asks for
  keys of less than 136 bytes and an application that puts back less than 136
  keys; for windows that read lines, it asks for one slot more than the source
  has beside the longest line, because a ring that has been full is no queue
  any more (section 5).  With it `RoomInv` is inductive: how many slots are free
  at each point of a call (`CallRoom`) and of a line that is read through calls
  (`LineRoom`), which is two where a check of the size may still push a
  KEY_RESIZE on each side of the key.
  `QueueInv` says what the ring is: raw bytes are behind cooked keys; an ERR is
  alone, or last and raw (`Orderly`); between two bytes of a key the ring is
  those bytes and nothing else (`MatchInv`); a KEY_RESIZE is first where a
  check of the size has just been (`CheckInv`).  Neither is inductive without
  the other: without room `safe_ungetch` drops a key, and room depends on what
  is cooked.  Together with the first invariant they are `Safe`.
  `LinesFit` needs no room but the line's: `Fits` is `Roomy`'s part on lines with
  `<=` for `<`.  The ring may then be full after a line, so that `Safe` is no
  invariant; but `wgetnstr` is entered only when the ring is empty and not full
  (`LineBegins`), and between its first call and its last key (`InLine`) the same
  `QueueInv` and `RoomInv`, counted to the last slot, are kept (`LineSafe`).
  `NoMissedKey` needs besides that the bytes peeked at are exactly the node's
  (`SeenRing`) and that they hold no shorter key (`MatchInv`).  `ResizeOnItsWay`
  is inductive over `Safe` (`OnItsWay`): a KEY_RESIZE leaves the ring as the
  result of a call only; `wgetnstr` is the exception, which takes it for
  itself, hence `NoLines`.
  The refinement takes the ring and the driver's bytes as one sequence
  (`Queue`), and shows what each operation on the ring makes of it: a key in
  front (`InFront`), the first n gone (`Dropped`), a byte moved from the driver
  to the ring (`Moved`, which leaves it as it is), a byte behind (`AtBack`).
  The steps of `Getch` are then those of `KeyQueue` or stutter (`QueueSteps`).
  Two branches are seen to be dead in passing: `kgetch` never finds the code of
  a key among raw bytes, and when `check_sigwinch` looks behind a KEY_RESIZE
  there is an ERR or nothing.
- **Update.** `TypeOK /\ PendingMarked`: each stage of an update leaves the
  premises of the next (`UpdateStep`), whatever was scrolled by whatever
  distance.  `Tracked` is added for `ScreenTracked`; `Settled` follows from
  both, because a line that is marked nowhere is equal in `newscr` and
  `curscr`, hence not forgotten, hence equal on the terminal.
- **Windows.** `ListInv` adds to `NoOrphan` that the list has no window twice
  and that parents are windows or none: what `delwin` looks for in the list is
  then found there.  `MemInv` adds the types of places and pointers.  The step
  that needs most is `wresize`, which repairs the pointers of all windows in
  one walk from the oldest to the newest: `Passed` says that after each window
  of the walk all windows that were visited point right, which works only
  because parents are older than their children.  The walk is a recursive
  function; a least counterexample (`LeastNatural`) stands in for induction.
  `ChangeInv` is about marks: what a window is owed is marked in its own line,
  and every range is empty or upright (`Line`).  `UpWidens` shows that
  `wsyncup` only adds to marks, whatever it carries, so that each operation is
  seen one window at a time (`OneLine`); `OwedIsCopied` then follows the clipping
  of `wsyncdown` through every position of the parent's change.  A change
  outside the child gives an inverted range, which copies nothing; that none
  stays in a window is what needs a single generation of subwindows: it stays
  in the middle one of three (section 5).
- **Pairs.** `TableInv` relates the table to the sequence `order` of the pairs
  in use by age: its `Fits` says that `next` and `prev` thread it through the
  table with pair 0 at its ends, that `mode` marks its members and that the
  index has their colours.  Each of the functions of `new_pair.c` is shown to
  take a table that fits a sequence to one that fits the sequence with a pair
  removed or put in front (`Removed`, `Prepended`).  `CellsInv` needs none of
  this, only that a pair in use has colours, that no cell of `newscr` names
  one without, and that the colours set last are those of their pair.
- **Modes.** `ModesInv` says where the bits asked for are while the program
  has the terminal, reads a line, has left it to the shell or is stopped: in
  `Nttyb` always, in the driver while the program has it, in `buf` while a
  line is read.  `StopInv` adds what the handler has saved.
- **Panels.** `PanelsInv` says that there is a sequence `o` of panels, with
  `stdscr`'s pseudo panel first, that the links thread (`Threads`); that no
  window is in two panels and each panel of `o` has one (`Windowed`); that a
  window outside `o` is marked all over (`OthersTouched`: a window is touched
  when it is made, and by `HIDE_PANEL` and `replace_panel` when it leaves); and
  that each cell of `newscr` is the cell of the topmost window there or is
  marked in it (`Shown`).  `Shown` alone is not inductive: a panel may come
  into the stack without being touched, as `show_panel` and `replace_panel`
  let it, only because it was marked all over outside.  A change of the stack
  is taken apart into a panel taken out (`Hides`, `Lifts`) and a touched one
  put in (`AddedShown`).  Taking it out uses that `PANEL_UPDATE` marks every
  window of the stack wherever the panel, touched just before, overlaps it
  (`Uncovers`), so that whatever is on top after is marked.
  `update_panels()` needs both of its loops: the first spreads the marks of
  each window to those above it (`MarkingSpreads`), so that in the second one
  whatever a lower window overwrites is copied again from the window on top
  (`CopyingShows`).  The loops are recursive functions (`Marking`, `Copying`);
  `Iterates` shows that they exist, by a least counterexample.  `WalksAgree`
  follows from `Threads`: a walk of n steps is the first n panels of `o`
  without `stdscr`'s, from below or from above (`UpWalk`, `DownWalk`).
  `BottomPanel` is the one step that does not keep `Threads` in every state:
  called while no panel is shown it leaves `_nc_top_panel` at `stdscr`'s panel,
  hence `~BottomsAlone`.  The application of the model leaves refreshing its
  panels' windows to the library, as `panel.3x:210` asks, and takes no marks
  from them.
- **Forms.** `FormInv` tells a form that is posted, whose current field is open
  and `InSight`, from one that is not, whose field has no window (`Closed`).
  A field is `Opened` when its window is as long as its buffer, the cursor and
  the first column shown are inside it, the other fields of the page show a
  part of their buffers, and the form's window shows the text of a field that
  is not a pad: this last part is what lets `_nc_Set_Current_Field` take the
  text of a field out of the form's window again, and it must hold after the
  field has been left.  `Edits` adds the typing: a window and a buffer that
  differ are marked (`modified`), and an edited field will be checked although
  its mark was cleared by storing it (`fcheck`).  `Buffers` says that a buffer
  fills the columns of its fields and has room to grow while it may.
  The requests keep `Edits` alone; `_nc_Refresh_Current_Field`, which ends
  every call, makes of it `InSight` (`RefreshIs`), wherever the request left
  the cursor.  So each request is shown once to keep `Edits`: storing and
  growing (`SyncIs`, `GrownIs`), validation (`ValidatedIs`), change of field
  and page (`SetCurrentIs`, `SetPageIs`), movement and scrolling (`MovedIs`,
  `ScrolledIs`), typing and editing (`DataEntryIs`, `EditingIs`),
  `set_field_buffer` with its linked fields (`SyncLinkedIs`, `SetBufferIs`).
  Growing needs `LinkedAssumption`: a linked field that grows leaves
  `_MAY_GROW` to the others (section 5).  Navigation needs that every page
  has a field that can be visited, which `FieldsAssumption` asks, and that
  each order of a page lists its fields and no other (`OnPageLists`,
  `SortedLists`); `TargetIs` follows each of the walks over neighbours to its
  end, a recursive function that exists by `Iterates`.
- **Menus.** `MenuInv` says that the format fits the items (`Sized`: which
  rows and columns there are, in either order); that the top row is one of those
  that can be on top, and the current item connected and in the window
  (`Placed`); that the links are those that `_nc_Link_Items` makes, or are
  marked to be made again before they are used; and that the pad of a posted
  menu has each item where its own row and column say (`PaintedWith`).
  `MenuShown` is not inductive without the links: a request walks along them,
  and the pad is painted by a walk along them.  `RowLinks` and `ColumnLinks`
  give, for a menu of any size, the neighbours of the item in column q of row m;
  `Division`, `Quotient` and `InLine` are the arithmetic they stand on.
  `RowWalk` and `ColumnWalk` follow `_nc_Draw_Menu` along them: `Follow` ends
  (`FollowIs`), the lines it paints hold every item once, and each is painted
  where `y` and `x` say; so `~hung`, and `_nc_Post_Item` of a single item
  later overwrites what was painted of it.  The requests that walk
  (`Along`, `After`, `Before`) are recursive functions, which stay among the items
  by `StaysIn`.  What `menu_driver` itself goes to it scrolls to (`Shown`); what
  `set_current_item` and `set_menu_pattern` go to is left to
  `Adjust_Current_Item`: `AdjustFits` is the lemma that fails without
  `MayGoTo`, the guard that `~Jumps` switches on (section 5).  `KeepsLinks`: a
  change of O_ROWMAJOR or O_NONCYCLIC while items are connected leaves links
  and format of another order (section 5).  For `TypedMatches`, `MatchesTyped`
  shows that the search, which goes round from the current item in either
  direction (`Order`), finds the first item that begins with the pattern, and
  `NameLenIs` that a pattern longer than all names is refused rightly.
- **Attributes.** `PenInv` is `PenExact` with types and with the fact that
  `endwin` leaves nothing to end.  `Ready` and `Lit` are what each stage of
  `vidputs` leaves to the last one that sets the colours: the colours are
  those of the pair still known of or all of them will be set, and what is
  lit is what is known of but for reverse video that an exchange of colours
  stands for.  The lemmas follow the code: `DoColor`, `Exited`, `Toggled`,
  then the three ways (`ToNormalRight`, `BySetRight`, `OneByOneRight`), then
  `VidputsRight` from any attributes and pair to any others.

Only model-checked: liveness (`CallReturns`, `ResizeReported`), which TLAPS
does not treat, like ENABLED; `ResizeOnItsWay` for windows that read lines;
`OrderedSurvive`, `HashesAgree`, `UpdateExact` and `MoveExact`, which are about what
recursive functions or folds compute and would need induction over them;
`LineShown`, `CursorTracked`, `SizesFollow`, `EntriesTrue`, whose modules have
RECURSIVE operators; the mouse, keys and cells, which wait for their
invariants (section 7).

## 5. What was found

Runs that show it (`PROJECT.json`, `findings`, has the lines):

- `pair_zero`: `_nc_init_pair()` counts a pair that is set again as one more in
  use (`new_pair.c:334`, `lib_color.c:656`); after enough of them
  `alloc_pair()` takes the head of an empty list and changes pair 0.  It takes
  an application that frees its last pair: `FreesAll`.
- `form_mouse`: a click on another field leaves the current one without
  validation, and what was typed never reaches its buffer
  (`frm_driver.c:4500`): `ClicksAway`.
- `first_stop`: the first SIGTSTP of a program that has not called `endwin()`
  does not save its modes (`lib_tstp.c:162`): `Careless` with `"first"`.
- `lost_cancel`: two cancelled booleans or numbers in two entries of a file,
  and an entry loses a capability of its own (`alloc_ttype.c:390`):
  `Cancelling`.

Excluded by a constant, hypothesis or guard, and described here:

- Once the ring of keys is marked full, `tail` stays -1: later `ungetch` calls
  fail although the queue is empty (`fifo_defs.h:49`; `curs_getch.3x:533-538`).
  The longest cooked line and two KEY_RESIZEs are enough (`curses.priv.h:380`):
  `Roomy`.
- In cooked mode with `keypad`, the bytes of a key that was given up may lie
  behind the line when a KEY_RESIZE ends it: of the longest line, put back
  between them and another KEY_RESIZE, the first character is dropped without a
  sign (`lib_getch.c:478`): `Fits`, and the one-byte keys of `getch_calls`.
- `wredrawln` forgets lines at `_begy`, but a window is shown at
  `_begy + _yoffset` (`lib_redrawln.c:66`, `lib_refresh.c:160`;
  `curs_refresh.3x:126-127`).
- `wresize` overwrites `firstchar` when a line grows (`wresize.c:216`): changes
  not yet refreshed lose their mark (`curs_refresh.3x:117-118`): `Grows`.
- The optimizer destroys lines it is about to move when halves of the screen
  change places (`hardscroll.c:111`, `hashmap.c:408`); `TransformLine` repairs
  the picture, so it costs time only.
- `mvderwin` does not re-point the text of the window's own subwindows
  (`lib_window.c:75`; `curs_window.3x:142-145`): `Moves`.
- `wsyncdown` leaves an inverted range (as `2..0`) in the middle one of three
  generations when the root's change lies beside it (`lib_window.c:152`);
  `wsyncup` or `syncok` carries it to the root, and `CHANGED_CELL`
  (`curses.priv.h:1639-1645`) then widens it at one end only: a cell written
  between is not refreshed.  `NoChangeLost` is checked and proved for one
  generation: `MaxDepth`.
- `bottom_panel` on the only panel leaves `_nc_top_panel` as it was
  (`p_bottom.c:63-69`): `BottomsAlone`.
- `Adjust_Current_Item`, whose comment says that it "ensures, that the item
  becomes visible" (`menu.priv.h:99`), compares the item's row with the rows
  above the top one, `rows-row`, where it means the rows left below
  (`menu.priv.h:107`).  With ten rows of which one is shown and row 6 on top,
  `set_current_item` of the item in row 7 finds 7 not below 4 and shows row 9:
  the item is hidden.  `set_menu_pattern` can do the same: `Jumps`.
- A second `endwin()` loses meta mode (`Careless` with `"again"`); SIGTSTP while
  `endwin()` has left the screen to the shell resumes curses (`"escaped"`;
  `curs_initscr.3x:233-242`).
- After a failed resize `newscr` keeps a wrong height.

Seen while modelling.  Input and keys:

- A KEY_RESIZE inside cooked `wgetch` is not put back (`lib_getch.c:475`;
  `curs_getch.3x:446-455`); the check for typeahead is FALSE on every path
  (`tty_update.c:430`; `curs_inopts.3x:497-503`).
- A node of a trie that has lost what was below it makes `key_defined` say ERR
  and `define_key` fail; `key_defined("ESC X")` gives the key of `ESC`;
  `define_key` that deletes and is then refused loses the old binding; `keyok`
  after `define_key` can lose a definition; `define_key(s, 0)` leaves strings
  that `s` begins (`define_key.3x:77-82`).
- `getmouse` delivers the oldest event, "next older" in the manual; drags
  (1002, 1003) decode as presses, so that the end of one becomes a click;
  `mouse_get` of a button discards the events of others; `ungetmouse` never
  sees a full queue; a ring that overflows reorders; events may not match the
  mask (`curs_mouse.3x:467`).

Screen and terminal:

- After `ClrUpdate` hashes of marked lines are copied uncomputed
  (`tty_update.c:1335`, `hashmap.c:308`), and a forgotten line has hash 0,
  which means a free entry (`hashmap.c:349`): both harmless.
- The insert branch of `TransformLine` is dead without wide characters
  (`tty_update.c:1604`, but see the comment at 1303-1316), so that the comparison
  of its cost (1605) decides nothing and `Shift` leaves it out; the branch for
  `ceol_standout_glitch` writes without moving; `PutCharLR` draws nothing on
  terminals with automatic margins and nothing to switch them off or to insert
  with; `ClearScreen` keeps `newscr`'s cell at the corner.
- With colours that are not fixed the library trusts `exit_attribute_mode` to
  reset them and colours to leave reverse video alone; where
  `no_color_video` has reverse, going from a pair with reverse to reverse alone
  never turns it on.  `Trusted` is that assumption.
- Half a default (`assume_default_colors(-1, 4)`): `vidputs` sets the colours of
  pair 0 before `exit_attribute_mode` (`lib_vidattr.c:229`), which resets what
  the library then believes is set (`default_colors.3x:83-86`).
- With hard tabs off, a `tab` and no addressing, crossing a tab stop fails.
- `tparm` of termcap-style strings with `%i` swaps the parameters: the stack is
  filled in reverse, the increment stored unreversed (`lib_tparm.c`,
  `tparm_tc_compat` and the case `'i'`).
- In raw and cooked modes: `wgetnstr` leaves cbreak in `Nttyb`; called right
  after `endwin` it would put back the shell's modes; `restartterm` in cbreak
  mode calls `noraw`; `noraw` after `cbreak` leaves ICRNL off; `resetty` does
  not tell flags and `Nttyb`; `reset_shell_mode` and `reset_prog_mode` lose
  keypad and meta mode.

Windows, pads, wide characters:

- A wide character written before another leaves the other's second half; wide
  functions other than `waddch` do not clear the halves of what they overwrite
  (`lib_add_wch.c:250-251` and the comment above; `lib_addch.c:271-303` does
  it); `wins_wch` does not mark the base and reads before column 0; `wdelch`
  leaves half a character; a wide character at the end of a scrolling window
  scrolls twice; a line of length 0 at column 0 sets `lastchar` to -1.
  `Uncaring` lists the calls left out.
- `pnoutrefresh` does not repair halves beside its rectangle, does not make
  negative limits 0 (`curs_pad.3x`), and under a ripped-off line may set the
  cursor below the last line.
- Windows follow the screen only if they cover `LINES` or all lines, not all
  that "extend to the screen's limits"; the old bottom is compared; a
  subwindow's `begy` is not adjusted.

Pairs, panels, menus, forms, entries:

- `free_pair` of a pair that was never set returns OK and counts down; setting
  the same colours twice loses an index entry; default colours assumed late
  wipe the list's head; `alloc_pair` recycles while slots are free, fails with
  default colours instead of recycling, and does not redraw cells of a pair
  that was (0,0).
- Shrinking a panel's window with `wresize` and replacing it with itself leaves
  its old cells.
- `set_menu_opts` computes the format before O_ROWMAJOR changes; `left` in a
  cyclic column-major menu can read behind the items; O_NONCYCLIC does not
  relink (`Toggles`, `KeepsLinks`); in a window higher than the rows shown, a
  double click below them makes an item the current one and leaves it there
  (`Tall`);
  without O_IGNORECASE a pattern matches one character of any item, and never
  two; a click leaves the pattern of another item; `set_menu_items(NULL)`
  leaves the current item.
- `unfocus_current_field` drops text and makes `set_form_page` dereference
  NULL; `unpost_form` drops text; REQ_NEW_LINE erases a field without O_EDIT;
  of linked growing fields only one stops to grow; a form whose current field
  is made inactive can loop for ever; deleting a word can pass a negative
  length.
- Duplicate names of entries are looked for by comparing pointers; the last of
  several matches wins; a cancellation through a use becomes absence
  (`tic.1m:605-619` says so).

## 6. What is not modelled

- Input: `wgetch_events`, GPM and sysmouse, end of file and hangup, stripping
  of the eighth bit, CR to NL, `get_wch`, several screens.  Of `wgetnstr`, where
  the cursor is: whether an echo wraps, scrolls or is wiped out at the lower
  right corner is left open, and both are taken.
- Update: more than one scroll per update in `Update` (`Scroll` has them all);
  SIGTSTP and SIGINT in the middle of a call; magic cookies; padding.
- Windows: `WindowTree` has windows of one line; `immedok`, the application
  calling `wsyncdown`, `winsdelln`, failures of `malloc` anywhere.
- Forms: options of the current field of a form that is not posted, which may
  change (`frm_driver.c:1365-1371` refuses only while it is posted): such a form
  can loop for ever (section 5); fields of several lines, justification,
  choices, hooks; menus: hooks,
  descriptions, attributes.  Mouse: `mouse_test`, modifiers, invalid reports.
- The list of screens, soft labels, `tparm` and `tputs` (pure functions over
  characters), the termcap interface, scanning and writing of entries, the
  programs of `progs/`, tracing, the C++ and Ada95 bindings, the Windows
  drivers, tests, configuration and packaging.
- The wide build is in `Cells` only; other modules follow the build without.

## 7. What is left to do

- Getch: `ResizeOnItsWay` with lines, where a KEY_RESIZE that `wgetnstr` takes
  has to be accounted for.
- Cells: an invariant for `WholeCharacters`.
- Mouse: `EventsInOrder` needs the order of the ring's slots as an invariant.
- Modules not written: the list of screens with `set_term` and `delscreen`,
  soft labels, multi-line fields.
