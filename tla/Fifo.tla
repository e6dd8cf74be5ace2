-------------------------------- MODULE Fifo --------------------------------
(* The ring buffer behind wgetch() and ungetch(): _fifo, _fifohead,          *)
(* _fifotail and _fifopeek of struct screen, with the macros of fifo_defs.h  *)
(* and the functions of lib_getch.c and lib_ungetch.c that move through it.  *)
(*                                                                           *)
(* A FIFO is a record.  head = -1 says "empty", tail = -1 says "no room";    *)
(* the keys in head .. peek-1 are cooked (to be returned as they are), those *)
(* in peek .. tail-1 are raw (still to be matched against key sequences).    *)
EXTENDS Integers

CONSTANTS
    FIFO_SIZE,      \* slots of _fifo (137 in the source)
    ERR,            \* what a failed read() leaves in a slot
    NUL             \* what a slot of a new SCREEN holds

ASSUME SizeAssumption == FIFO_SIZE \in Nat /\ FIFO_SIZE > 2

Slots == 0 .. FIFO_SIZE - 1

(* The FIFO of a new SCREEN; fifo_clear() also wipes the slots, flushinp()   *)
(* leaves them.                                                              *)
EmptyFifo == [buf |-> [i \in Slots |-> NUL], head |-> -1, tail |-> 0, peek |-> 0]
fifo_clear(q) == EmptyFifo
Flushed(q) == [q EXCEPT !.head = -1, !.tail = 0, !.peek = 0]

-----------------------------------------------------------------------------
(* The index macros.                                                         *)

Up(i)   == IF i >= FIFO_SIZE - 1 THEN 0 ELSE i + 1
Down(i) == IF i <= 0 THEN FIFO_SIZE - 1 ELSE i - 1

h_inc_KeepsTail(q) ==           \* mutant: an emptied ring keeps its tail
    [q EXCEPT !.head = IF Up(q.head) = q.tail THEN -1 ELSE Up(q.head)]
h_inc(q) == IF Up(q.head) = q.tail THEN [q EXCEPT !.head = -1, !.tail = 0]
                                   ELSE [q EXCEPT !.head = Up(q.head)]
h_dec_Overruns(q) == [q EXCEPT !.head = Down(q.head)]   \* mutant: no mark when full
h_dec(q) == [q EXCEPT !.head = Down(q.head),
                      !.tail = IF Down(q.head) = q.tail THEN -1 ELSE q.tail]
t_inc(q) == [q EXCEPT !.tail = IF Up(q.tail) = q.head THEN -1 ELSE Up(q.tail)]
t_dec(q) == IF Down(q.tail) = q.head THEN fifo_clear(q)
                                     ELSE [q EXCEPT !.tail = Down(q.tail)]
p_inc(q) == [q EXCEPT !.peek = Up(q.peek)]

CookedKeyInFifo(q) == q.head >= 0 /\ q.peek # q.head
RawKeyInFifo(q)    == q.head >= 0 /\ q.peek # q.tail

-----------------------------------------------------------------------------
(* The functions.  HeadKey and PeekKey are what fifo_pull and fifo_peek      *)
(* return; fifo_pull and fifo_peek are the FIFO they leave.                  *)

HeadKey(q) == IF q.head >= 0 THEN q.buf[q.head] ELSE ERR
PeekKey(q) == IF q.peek >= 0 THEN q.buf[q.peek] ELSE ERR

fifo_peek(q) == p_inc(q)
fifo_pull(q) == LET r == h_inc(q)
                IN  IF q.peek = q.head THEN [r EXCEPT !.peek = r.head] ELSE r
Uninterpreted_Cooks(q) == q     \* mutant: peek is not set back
Uninterpreted(q) == [q EXCEPT !.peek = q.head]

HasRoom(q) == q.tail >= 0

(* The end of fifo_push(), after its read(): ch is the byte, or ERR.         *)
fifo_push(q, ch) ==
    LET stored == [q EXCEPT !.buf[q.tail] = ch]
        headed == IF q.head = -1
                  THEN [stored EXCEPT !.head = q.tail, !.peek = q.tail]
                  ELSE stored
    IN  IF HasRoom(q) THEN t_inc(headed) ELSE q

(* Mutant: the key put in an empty FIFO counts as raw.                       *)
safe_ungetch_Raw(q, ch) ==
    LET moved == IF q.head < 0 THEN t_inc([q EXCEPT !.head = 0, !.peek = 0])
                               ELSE h_dec(q)
    IN  IF HasRoom(q) THEN [moved EXCEPT !.buf[moved.head] = ch] ELSE q

(* safe_ungetch() pushes in front of the head; on an empty FIFO the key goes *)
(* in slot 0 with nothing raw behind it.  It fails when there is no room.    *)
safe_ungetch(q, ch) ==
    LET first == t_inc([q EXCEPT !.head = 0])
        moved == IF q.head < 0 THEN [first EXCEPT !.peek = first.tail]
                               ELSE h_dec(q)
    IN  IF HasRoom(q) THEN [moved EXCEPT !.buf[moved.head] = ch] ELSE q

-----------------------------------------------------------------------------
(* What the ring holds.                                                      *)

Wrap(i) == IF i >= FIFO_SIZE THEN i - FIFO_SIZE ELSE i

(* Slots from index i up to, not including, index j, going up.               *)
Ahead(i, j) == IF j >= i THEN j - i ELSE j - i + FIFO_SIZE

Count(q) == IF q.head < 0 THEN 0
            ELSE IF q.tail < 0 THEN FIFO_SIZE
            ELSE Ahead(q.head, q.tail)

At(q, i) == q.buf[Wrap(q.head + i)]

Cooked(q) == IF q.head < 0 THEN 0 ELSE Ahead(q.head, q.peek)

Contents(q) == [i \in 1 .. Count(q) |-> At(q, i - 1)]

(* The shape of a reachable ring: an empty one has its tail at 0, head and   *)
(* tail never meet, and peek is an index (-1 at most while it is empty).     *)
FifoType(E) == [buf : [Slots -> E], head : Slots \cup {-1},
                tail : Slots \cup {-1}, peek : Slots \cup {-1}]

RingOK(q) ==
    /\ q.head = -1 => q.tail = 0
    /\ q.head # -1 => q.tail # q.head /\ q.peek # -1
=============================================================================
