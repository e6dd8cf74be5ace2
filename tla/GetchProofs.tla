---------------------------- MODULE GetchProofs -----------------------------
(* What wgetch()'s queue is, for every FIFO_SIZE, keyboard, set of key       *)
(* sequences and set of windows: what the FIFO's operations do to the keys    *)
(* it holds, the input machine's types, and the shape of its queue; and what  *)
(* wgetch() does with it when there is room for what is put into it: no key   *)
(* is overwritten, none that is a key's bytes is missed, a resize reaches the *)
(* application, and the ring with the driver's bytes is one queue of keys.    *)
EXTENDS Getch, SequenceTheorems, TLAPS

-----------------------------------------------------------------------------
(* Every operation leaves a ring that is one of the shapes of RingOK.        *)

(* The index macros stay in the ring and move by one slot.                   *)
LEMMA Indices ==
    /\ 0 \in Slots /\ 1 \in Slots /\ -1 \notin Slots
    /\ \A i \in Slots \cup {-1} : Up(i) \in Slots /\ Down(i) \in Slots /\ Up(i) # i /\ Down(i) # i
    /\ \A i \in Slots : i \in Int /\ i >= 0 /\ ~(i < 0)
    /\ Up(0) = 1 /\ Up(-1) = 0
BY SizeAssumption DEF Slots, Up, Down

(* The FIFO of a new screen, fifo_clear() and flushinp() give an empty ring. *)
LEMMA EmptyType ==
    ASSUME NEW E, NUL \in E
    PROVE  EmptyFifo \in FifoType(E) /\ RingOK(EmptyFifo)
BY Indices DEF EmptyFifo, FifoType, RingOK

(* fifo_clear() and the reset of a ring leave one of the shapes, too.        *)
LEMMA FlushedType ==
    ASSUME NEW E, NEW f \in FifoType(E)
    PROVE  Flushed(f) \in FifoType(E) /\ RingOK(Flushed(f))
BY Indices DEF Flushed, FifoType, RingOK

(* fifo_push() keeps the shape, with or without room.                        *)
LEMMA PushType ==
    ASSUME NEW E, NEW f \in FifoType(E), RingOK(f), NEW ch \in E
    PROVE  fifo_push(f, ch) \in FifoType(E) /\ RingOK(fifo_push(f, ch))
<1>1. CASE ~HasRoom(f)
  BY <1>1 DEF fifo_push
<1>2. CASE HasRoom(f) /\ f.head = -1
  BY <1>2, Indices DEF fifo_push, HasRoom, t_inc, FifoType, RingOK
<1>3. CASE HasRoom(f) /\ f.head # -1
  <2>1. f.tail \in Slots /\ f.head \in Slots
    BY <1>3, Indices DEF HasRoom, FifoType
  <2> QED
    BY <1>3, <2>1, Indices DEF fifo_push, HasRoom, t_inc, FifoType, RingOK
<1> QED BY <1>1, <1>2, <1>3

(* safe_ungetch() keeps the shape, with or without room.                     *)
LEMMA UngetType ==
    ASSUME NEW E, NEW f \in FifoType(E), RingOK(f), NEW ch \in E
    PROVE  safe_ungetch(f, ch) \in FifoType(E) /\ RingOK(safe_ungetch(f, ch))
<1>1. CASE ~HasRoom(f)
  BY <1>1 DEF safe_ungetch
<1>2. CASE HasRoom(f) /\ f.head = -1
  <2> DEFINE first == t_inc([f EXCEPT !.head = 0])
             moved == [first EXCEPT !.peek = first.tail]
  <2>1. /\ moved \in FifoType(E)
        /\ moved.head = 0 /\ moved.tail = 1 /\ moved.peek = 1
    BY <1>2, Indices DEF t_inc, FifoType, RingOK
  <2>2. safe_ungetch(f, ch) = [moved EXCEPT !.buf[moved.head] = ch]
    BY <1>2 DEF safe_ungetch
  <2> HIDE DEF moved
  <2> QED BY <2>1, <2>2, Indices DEF FifoType, RingOK
<1>3. CASE HasRoom(f) /\ f.head # -1
  <2>1. f.tail \in Slots /\ f.head \in Slots /\ ~(f.head < 0)
    BY <1>3, Indices DEF HasRoom, FifoType
  <2> QED
    BY <1>3, <2>1, Indices DEF safe_ungetch, h_dec, FifoType, RingOK
<1> QED BY <1>1, <1>2, <1>3

(* fifo_pull() keeps the shape, even on an empty FIFO.                       *)
LEMMA PullType ==
    ASSUME NEW E, NEW f \in FifoType(E), RingOK(f)
    PROVE  fifo_pull(f) \in FifoType(E) /\ RingOK(fifo_pull(f))
<1>1. (h_inc(f) \in FifoType(E) /\ RingOK(h_inc(f))) \/ (f.peek = -1 /\ f.head = -1)
  BY Indices DEF h_inc, FifoType, RingOK
<1> QED BY <1>1, Indices DEF fifo_pull, h_inc, FifoType, RingOK

(* fifo_peek() keeps the shape, even on an empty FIFO.                       *)
LEMMA PeekType ==
    ASSUME NEW E, NEW f \in FifoType(E), RingOK(f)
    PROVE  fifo_peek(f) \in FifoType(E) /\ RingOK(fifo_peek(f))
BY Indices DEF fifo_peek, p_inc, FifoType, RingOK

(* Setting peek back to the head keeps the shape.                            *)
LEMMA UninterpretedType ==
    ASSUME NEW E, NEW f \in FifoType(E), RingOK(f)
    PROVE  Uninterpreted(f) \in FifoType(E) /\ RingOK(Uninterpreted(f))
BY Indices DEF Uninterpreted, FifoType, RingOK

(* Taking the last key off a FIFO that is not empty keeps the shape.         *)
LEMMA DropType ==
    ASSUME NEW E, NUL \in E, NEW f \in FifoType(E), RingOK(f), f.head # -1
    PROVE  t_dec(f) \in FifoType(E) /\ RingOK(t_dec(f))
<1>1. CASE Down(f.tail) = f.head
  BY <1>1, EmptyType DEF t_dec, fifo_clear
<1>2. CASE Down(f.tail) # f.head
  BY <1>2, Indices DEF t_dec, FifoType, RingOK
<1> QED BY <1>1, <1>2

-----------------------------------------------------------------------------
(* Every operation leaves the other keys where they were in the queue.       *)

(* A ring that is not marked full has room for Count(f) + 1 keys at most.    *)
LEMMA CountBounds ==
    ASSUME NEW E, NEW f \in FifoType(E), RingOK(f)
    PROVE  /\ Count(f) \in 0 .. FIFO_SIZE
           /\ Count(f) = 0 <=> f.head = -1
           /\ Count(f) = FIFO_SIZE <=> ~HasRoom(f)
BY SizeAssumption DEF Count, Ahead, HasRoom, FifoType, RingOK, Slots

(* fifo_push() appends: it adds one key behind those there are.              *)
THEOREM PushAppends ==
    ASSUME NEW E, NEW f \in FifoType(E), RingOK(f), NEW ch \in E, HasRoom(f)
    PROVE  /\ Count(fifo_push(f, ch)) = Count(f) + 1
           /\ At(fifo_push(f, ch), Count(f)) = ch
           /\ \A i \in 0 .. Count(f) - 1 : At(fifo_push(f, ch), i) = At(f, i)
<1> DEFINE p == fifo_push(f, ch)
<1>1. CASE f.head = -1
  <2>1. /\ f.tail = 0 /\ Count(f) = 0
        /\ p.buf = [f.buf EXCEPT ![0] = ch] /\ p.head = 0 /\ p.tail = 1
    BY <1>1, Indices DEF fifo_push, t_inc, Count, FifoType, RingOK
  <2> QED
    BY <2>1, SizeAssumption DEF Count, Ahead, At, Wrap, FifoType, Slots
<1>2. CASE f.head # -1
  <2>1. /\ f.head \in Slots /\ f.tail \in Slots /\ f.tail # f.head
        /\ p.buf = [f.buf EXCEPT ![f.tail] = ch] /\ p.head = f.head
        /\ p.tail = IF Up(f.tail) = f.head THEN -1 ELSE Up(f.tail)
    BY <1>2, SizeAssumption DEF fifo_push, HasRoom, t_inc, FifoType, RingOK, Slots
  <2>2. Count(p) = Count(f) + 1
    BY <2>1, SizeAssumption DEF Count, Ahead, Up, Slots
  <2>3. Wrap(f.head + Count(f)) = f.tail
    BY <2>1, SizeAssumption DEF Count, Ahead, Wrap, Slots
  <2>4. \A i \in 0 .. Count(f) - 1 :
            Wrap(f.head + i) \in Slots /\ Wrap(f.head + i) # f.tail
    BY <2>1, SizeAssumption DEF Count, Ahead, Wrap, Slots
  <2> QED
    BY <2>1, <2>2, <2>3, <2>4 DEF At, FifoType
<1> QED BY <1>1, <1>2

(* safe_ungetch() prepends: the key becomes the first, before all others.    *)
THEOREM UngetPrepends ==
    ASSUME NEW E, NEW f \in FifoType(E), RingOK(f), NEW ch \in E, HasRoom(f)
    PROVE  /\ Count(safe_ungetch(f, ch)) = Count(f) + 1
           /\ At(safe_ungetch(f, ch), 0) = ch
           /\ \A i \in 0 .. Count(f) - 1 :
                 At(safe_ungetch(f, ch), i + 1) = At(f, i)
<1> DEFINE p == safe_ungetch(f, ch)
<1>1. CASE f.head = -1
  <2>1. /\ f.tail = 0 /\ Count(f) = 0
        /\ p.buf = [f.buf EXCEPT ![0] = ch] /\ p.head = 0 /\ p.tail = 1
    BY <1>1, Indices DEF safe_ungetch, t_inc, Count, FifoType, RingOK
  <2> QED
    BY <2>1, SizeAssumption DEF Count, Ahead, At, Wrap, FifoType, Slots
<1>2. CASE f.head # -1
  <2>1. /\ f.head \in Slots /\ f.tail \in Slots /\ f.tail # f.head
        /\ p.buf = [f.buf EXCEPT ![Down(f.head)] = ch] /\ p.head = Down(f.head)
        /\ p.tail = IF Down(f.head) = f.tail THEN -1 ELSE f.tail
    BY <1>2, SizeAssumption DEF safe_ungetch, HasRoom, h_dec, Down, FifoType, RingOK, Slots
  <2>2. Count(p) = Count(f) + 1
    BY <2>1, SizeAssumption DEF Count, Ahead, Down, Slots
  <2>3. Down(f.head) \in Slots /\ Wrap(Down(f.head) + 0) = Down(f.head)
    BY <2>1, SizeAssumption DEF Down, Wrap, Slots
  <2>4. \A i \in 0 .. Count(f) - 1 :
            /\ Wrap(Down(f.head) + (i + 1)) = Wrap(f.head + i)
            /\ Wrap(f.head + i) \in Slots /\ Wrap(f.head + i) # Down(f.head)
    BY <2>1, SizeAssumption DEF Count, Ahead, Down, Wrap, Slots
  <2>5. At(p, 0) = ch
    BY <2>1, <2>3 DEF At, FifoType
  <2>6. \A i \in 0 .. Count(f) - 1 : At(p, i + 1) = At(f, i)
    BY <2>1, <2>4 DEF At, FifoType
  <2> QED BY <2>2, <2>5, <2>6
<1> QED BY <1>1, <1>2

(* fifo_pull() takes the first key and no other, while the ring was never    *)
(* filled to the last slot.                                                  *)
THEOREM PullTakesFirst ==
    ASSUME NEW E, NEW f \in FifoType(E), RingOK(f), f.head # -1, HasRoom(f)
    PROVE  /\ HeadKey(f) = At(f, 0)
           /\ Count(fifo_pull(f)) = Count(f) - 1
           /\ \A i \in 0 .. Count(f) - 2 : At(fifo_pull(f), i) = At(f, i + 1)
<1> DEFINE p == fifo_pull(f)
<1>1. /\ f.head \in Slots /\ f.tail \in Slots /\ f.tail # f.head
      /\ p.buf = f.buf
      /\ p.head = IF Up(f.head) = f.tail THEN -1 ELSE Up(f.head)
      /\ p.tail = IF Up(f.head) = f.tail THEN 0 ELSE f.tail
  BY SizeAssumption DEF fifo_pull, h_inc, Up, HasRoom, FifoType, RingOK, Slots
<1>2. HeadKey(f) = At(f, 0)
  <2>1. Wrap(f.head + 0) = f.head /\ f.head >= 0
    BY <1>1, SizeAssumption DEF Wrap, Slots
  <2> QED BY <2>1 DEF HeadKey, At
<1>3. Count(p) = Count(f) - 1
  BY <1>1, SizeAssumption DEF Count, Ahead, Up, Slots
<1>4. \A i \in 0 .. Count(f) - 2 : p.head # -1 /\ Wrap(p.head + i) = Wrap(f.head + (i + 1))
  BY <1>1, SizeAssumption DEF Count, Ahead, Up, Wrap, Slots
<1>5. \A i \in 0 .. Count(f) - 2 : At(p, i) = At(f, i + 1)
  BY <1>1, <1>4 DEF At
<1> QED BY <1>2, <1>3, <1>5

-----------------------------------------------------------------------------
(* The same with the split of the keys into cooked and raw ones, as long as  *)
(* the ring has room.                                                        *)

Sound(E, f) ==
    /\ f \in FifoType(E) /\ RingOK(f) /\ HasRoom(f)
    /\ Cooked(f) <= Count(f)

(* Distances along the ring.                                                 *)
LEMMA Distances ==
    ASSUME NEW h \in Slots, NEW t \in Slots, NEW k \in Slots, t # h,
           Ahead(h, k) <= Ahead(h, t)
    PROVE  /\ Ahead(h, t) \in 1 .. FIFO_SIZE - 1 /\ Ahead(h, k) \in 0 .. Ahead(h, t)
           /\ (k # h <=> Ahead(h, k) > 0)
           /\ (k # t <=> Ahead(h, k) < Ahead(h, t))
           /\ Wrap(h + 0) = h /\ Wrap(h + Ahead(h, k)) = k
           /\ \A i \in 0 .. Ahead(h, t) - 1 : Wrap(h + i) \in Slots
BY SizeAssumption DEF Ahead, Wrap, Slots

(* What the tests of a sound ring say; its first key and its first raw one.  *)
LEMMA SoundRing ==
    ASSUME NEW E, NEW f, Sound(E, f)
    PROVE  /\ Count(f) \in 0 .. FIFO_SIZE - 1 /\ Cooked(f) \in 0 .. Count(f)
           /\ f.head = -1 <=> Count(f) = 0
           /\ CookedKeyInFifo(f) <=> Cooked(f) > 0
           /\ RawKeyInFifo(f) <=> Cooked(f) < Count(f)
           /\ HeadKey(f) = IF Count(f) > 0 THEN At(f, 0) ELSE ERR
           /\ Cooked(f) < Count(f) => PeekKey(f) = At(f, Cooked(f))
           /\ \A i \in 0 .. Count(f) - 1 : At(f, i) \in E
<1>1. CASE f.head = -1
  BY <1>1, SizeAssumption
     DEF Sound, Count, Cooked, CookedKeyInFifo, RawKeyInFifo, HeadKey
<1>2. CASE f.head # -1
  <2>1. /\ f.head \in Slots /\ f.tail \in Slots /\ f.peek \in Slots /\ f.tail # f.head
        /\ f.buf \in [Slots -> E]
    BY <1>2, SizeAssumption DEF Sound, HasRoom, FifoType, RingOK, Slots
  <2>2. /\ Count(f) = Ahead(f.head, f.tail) /\ Cooked(f) = Ahead(f.head, f.peek)
        /\ Cooked(f) <= Count(f)
    BY <2>1, SizeAssumption DEF Sound, Count, Cooked, Slots
  <2>3. /\ Count(f) \in 1 .. FIFO_SIZE - 1 /\ Cooked(f) \in 0 .. Count(f)
        /\ (f.peek # f.head <=> Cooked(f) > 0)
        /\ (f.peek # f.tail <=> Cooked(f) < Count(f))
        /\ Wrap(f.head + 0) = f.head /\ Wrap(f.head + Cooked(f)) = f.peek
        /\ \A i \in 0 .. Count(f) - 1 : Wrap(f.head + i) \in Slots
    BY <2>1, <2>2, Distances
  <2>4. f.head >= 0 /\ f.peek >= 0
    BY <2>1, SizeAssumption DEF Slots
  <2> QED BY <1>2, <2>1, <2>3, <2>4 DEF CookedKeyInFifo, RawKeyInFifo, HeadKey, PeekKey, At
<1> QED BY <1>1, <1>2

(* An empty ring is sound.                                                   *)
LEMMA EmptySound ==
    ASSUME NEW E
    PROVE  /\ NUL \in E => Sound(E, EmptyFifo)
           /\ Count(EmptyFifo) = 0 /\ Cooked(EmptyFifo) = 0
           /\ \A f \in FifoType(E) :
                 Sound(E, Flushed(f)) /\ Count(Flushed(f)) = 0 /\ Cooked(Flushed(f)) = 0
<1>1. \A f : f.head = -1 => Count(f) = 0 /\ Cooked(f) = 0
  BY DEF Count, Cooked
<1>2. EmptyFifo.head = -1 /\ HasRoom(EmptyFifo)
  BY DEF EmptyFifo, HasRoom
<1>3. ASSUME NEW f \in FifoType(E) PROVE Flushed(f).head = -1 /\ HasRoom(Flushed(f))
  BY <1>3 DEF Flushed, HasRoom, FifoType
<1> QED BY <1>1, <1>2, <1>3, EmptyType, FlushedType DEF Sound

(* fifo_push() adds a raw key.                                               *)
LEMMA PushSound ==
    ASSUME NEW E, NEW f, Sound(E, f), NEW ch \in E
    PROVE  /\ Count(fifo_push(f, ch)) = Count(f) + 1
           /\ At(fifo_push(f, ch), Count(f)) = ch
           /\ \A i \in 0 .. Count(f) - 1 : At(fifo_push(f, ch), i) = At(f, i)
           /\ HasRoom(fifo_push(f, ch)) => /\ Sound(E, fifo_push(f, ch))
                                           /\ Cooked(fifo_push(f, ch)) = Cooked(f)
<1> DEFINE p == fifo_push(f, ch)
<1>1. /\ Count(p) = Count(f) + 1 /\ At(p, Count(f)) = ch
      /\ \A i \in 0 .. Count(f) - 1 : At(p, i) = At(f, i)
  BY PushAppends DEF Sound
<1>2. p \in FifoType(E) /\ RingOK(p)
  BY PushType DEF Sound
<1>3. Cooked(p) = Cooked(f)
  <2>1. CASE f.head = -1
    BY <2>1, SizeAssumption DEF Sound, fifo_push, HasRoom, t_inc, Cooked, Ahead, Up, FifoType, RingOK
  <2>2. CASE f.head # -1
    BY <2>2, SizeAssumption DEF Sound, fifo_push, HasRoom, t_inc, Cooked, FifoType, RingOK
  <2> QED BY <2>1, <2>2
<1> QED BY <1>1, <1>2, <1>3, SoundRing DEF Sound

(* safe_ungetch() adds a cooked one.                                         *)
LEMMA UngetSound ==
    ASSUME NEW E, NEW f, Sound(E, f), NEW ch \in E
    PROVE  /\ Count(safe_ungetch(f, ch)) = Count(f) + 1
           /\ At(safe_ungetch(f, ch), 0) = ch
           /\ \A i \in 0 .. Count(f) - 1 : At(safe_ungetch(f, ch), i + 1) = At(f, i)
           /\ HasRoom(safe_ungetch(f, ch)) => /\ Sound(E, safe_ungetch(f, ch))
                                              /\ Cooked(safe_ungetch(f, ch)) = Cooked(f) + 1
<1> DEFINE p == safe_ungetch(f, ch)
<1>1. /\ Count(p) = Count(f) + 1 /\ At(p, 0) = ch
      /\ \A i \in 0 .. Count(f) - 1 : At(p, i + 1) = At(f, i)
  BY UngetPrepends DEF Sound
<1>2. p \in FifoType(E) /\ RingOK(p)
  BY UngetType DEF Sound
<1>3. ASSUME HasRoom(p) PROVE Cooked(p) = Cooked(f) + 1
  <2>1. CASE f.head = -1
    <3>1. f.tail = 0 /\ p.head = 0 /\ p.tail = 1 /\ p.peek = 1
      BY <2>1, Indices DEF Sound, safe_ungetch, t_inc, FifoType, RingOK
    <3> QED BY <2>1, <3>1 DEF Cooked, Ahead
  <2>2. CASE f.head # -1
    <3>1. /\ f.head \in Slots /\ f.tail \in Slots /\ f.peek \in Slots /\ f.tail # f.head
          /\ p.head = Down(f.head) /\ p.peek = f.peek
          /\ Down(f.head) # f.tail
      BY <1>3, <2>2, SizeAssumption DEF Sound, safe_ungetch, HasRoom, h_dec, Down, FifoType, RingOK, Slots
    <3>2. Ahead(f.head, f.peek) <= Ahead(f.head, f.tail)
      BY <3>1, SizeAssumption DEF Sound, Cooked, Count, Slots
    <3> QED BY <3>1, <3>2, SizeAssumption DEF Cooked, Ahead, Down, Slots
  <2> QED BY <2>1, <2>2
<1>4. Cooked(f) <= Count(f) /\ Cooked(f) \in Int /\ Count(f) \in Int
  BY SoundRing
<1> QED BY <1>1, <1>2, <1>3, <1>4 DEF Sound

(* fifo_pull() takes the first key, cooked or raw, if there is one.          *)
LEMMA PullSound ==
    ASSUME NEW E, NEW f, Sound(E, f)
    PROVE  /\ Sound(E, fifo_pull(f))
           /\ Count(fifo_pull(f)) = IF Count(f) = 0 THEN 0 ELSE Count(f) - 1
           /\ Cooked(fifo_pull(f)) = IF Cooked(f) = 0 THEN 0 ELSE Cooked(f) - 1
           /\ \A i \in 0 .. Count(f) - 2 : At(fifo_pull(f), i) = At(f, i + 1)
<1> DEFINE p == fifo_pull(f)
<1>1. p \in FifoType(E) /\ RingOK(p)
  BY PullType DEF Sound
<1>2. CASE f.head = -1
  <2>1. p.head = -1 /\ HasRoom(p)
    BY <1>2, SizeAssumption DEF Sound, fifo_pull, h_inc, HasRoom, FifoType, RingOK, Up
  <2> QED BY <1>1, <1>2, <2>1 DEF Sound, Count, Cooked
<1>3. CASE f.head # -1
  <2>1. /\ Count(p) = Count(f) - 1
        /\ \A i \in 0 .. Count(f) - 2 : At(p, i) = At(f, i + 1)
    BY <1>3, PullTakesFirst DEF Sound
  <2>2. /\ f.head \in Slots /\ f.tail \in Slots /\ f.peek \in Slots /\ f.tail # f.head
        /\ p.head = IF Up(f.head) = f.tail THEN -1 ELSE Up(f.head)
        /\ p.tail = IF Up(f.head) = f.tail THEN 0 ELSE f.tail
        /\ p.peek = IF f.peek = f.head THEN p.head ELSE f.peek
    BY <1>3, SizeAssumption DEF Sound, fifo_pull, h_inc, Up, HasRoom, FifoType, RingOK, Slots
  <2>3. Ahead(f.head, f.peek) <= Ahead(f.head, f.tail)
    BY <2>2, SizeAssumption DEF Sound, Cooked, Count, Slots
  <2>4. Cooked(p) = IF Cooked(f) = 0 THEN 0 ELSE Cooked(f) - 1
    BY <2>2, <2>3, SizeAssumption DEF Cooked, Ahead, Up, Slots
  <2>5. HasRoom(p)
    BY <2>2, SizeAssumption DEF HasRoom, Slots
  <2>6. Count(f) \in 1 .. FIFO_SIZE /\ Cooked(f) \in 0 .. Count(f)
    <3>1. Count(f) \in 0 .. FIFO_SIZE - 1 /\ Cooked(f) \in 0 .. Count(f) /\ Count(f) # 0
      BY <1>3, SoundRing
    <3> QED BY <3>1, SizeAssumption
  <2> QED BY <1>1, <2>1, <2>4, <2>5, <2>6 DEF Sound
<1> QED BY <1>2, <1>3

(* fifo_peek() makes the first raw key cooked.                               *)
LEMMA PeekSound ==
    ASSUME NEW E, NEW f, Sound(E, f), f.head # -1 => RawKeyInFifo(f)
    PROVE  /\ Sound(E, fifo_peek(f))
           /\ Count(fifo_peek(f)) = Count(f)
           /\ Cooked(fifo_peek(f)) = IF Count(f) = 0 THEN 0 ELSE Cooked(f) + 1
           /\ \A i \in 0 .. Count(f) - 1 : At(fifo_peek(f), i) = At(f, i)
<1> DEFINE p == fifo_peek(f)
<1>1. p \in FifoType(E) /\ RingOK(p)
  BY PeekType DEF Sound
<1>2. p.head = f.head /\ p.tail = f.tail /\ p.buf = f.buf /\ p.peek = Up(f.peek)
  BY DEF Sound, fifo_peek, p_inc, FifoType
<1>3. CASE f.head = -1
  BY <1>1, <1>2, <1>3 DEF Sound, Count, Cooked, HasRoom, At
<1>4. CASE f.head # -1
  <2>1. /\ f.head \in Slots /\ f.tail \in Slots /\ f.peek \in Slots /\ f.tail # f.head
        /\ f.peek # f.tail
    BY <1>4, SizeAssumption DEF Sound, HasRoom, RawKeyInFifo, FifoType, RingOK, Slots
  <2>2. Ahead(f.head, f.peek) <= Ahead(f.head, f.tail)
    BY <2>1, SizeAssumption DEF Sound, Cooked, Count, Slots
  <2>3. Cooked(p) = Cooked(f) + 1 /\ Cooked(p) <= Count(p) /\ Count(p) = Count(f) /\ Count(f) # 0
    BY <1>2, <2>1, <2>2, SizeAssumption DEF Cooked, Count, Ahead, Up, Slots
  <2> QED BY <1>1, <1>2, <2>3 DEF Sound, HasRoom, At
<1> QED BY <1>3, <1>4

(* peek = head makes all keys raw.                                           *)
LEMMA UninterpretedSound ==
    ASSUME NEW E, NEW f, Sound(E, f)
    PROVE  /\ Sound(E, Uninterpreted(f))
           /\ Count(Uninterpreted(f)) = Count(f) /\ Cooked(Uninterpreted(f)) = 0
           /\ \A i \in 0 .. Count(f) - 1 : At(Uninterpreted(f), i) = At(f, i)
<1> DEFINE p == Uninterpreted(f)
<1>1. p \in FifoType(E) /\ RingOK(p)
  BY UninterpretedType DEF Sound
<1>2. p.head = f.head /\ p.tail = f.tail /\ p.buf = f.buf /\ p.peek = f.head
  BY DEF Sound, Uninterpreted, FifoType
<1>3. Cooked(p) = 0
  BY <1>2, SizeAssumption DEF Sound, Cooked, Ahead, FifoType, Slots
<1>4. Count(f) >= 0
  BY SoundRing
<1> QED BY <1>1, <1>2, <1>3, <1>4 DEF Sound, Count, HasRoom, At

(* The end of a match drops the cooked keys and the first raw one.           *)
LEMMA MatchedSound ==
    ASSUME NEW E, NUL \in E, NEW f, Sound(E, f), RawKeyInFifo(f),
           NEW p, p = IF fifo_peek(f).peek = f.tail THEN fifo_clear(f)
                      ELSE [fifo_peek(f) EXCEPT !.head = fifo_peek(f).peek]
    PROVE  /\ Sound(E, p)
           /\ Count(p) = Count(f) - (Cooked(f) + 1) /\ Cooked(p) = 0
           /\ \A i \in 0 .. Count(p) - 1 : At(p, i) = At(f, i + (Cooked(f) + 1))
<1>1. /\ f.head \in Slots /\ f.tail \in Slots /\ f.peek \in Slots /\ f.tail # f.head
      /\ f.peek # f.tail /\ fifo_peek(f).peek = Up(f.peek)
  BY SizeAssumption DEF Sound, HasRoom, RawKeyInFifo, FifoType, RingOK, Slots, fifo_peek, p_inc
<1>2. Ahead(f.head, f.peek) <= Ahead(f.head, f.tail)
  BY <1>1, SizeAssumption DEF Sound, Cooked, Count, Slots
<1>3. CASE Up(f.peek) = f.tail
  <2>1. Count(f) = Cooked(f) + 1
    BY <1>1, <1>2, <1>3, SizeAssumption DEF Cooked, Count, Ahead, Up, Slots
  <2>2. p = EmptyFifo
    BY <1>1, <1>3 DEF fifo_clear
  <2>3. Sound(E, p) /\ Count(p) = 0 /\ Cooked(p) = 0
    BY <2>2, EmptySound
  <2>4. Cooked(f) \in Int
    BY SoundRing
  <2> QED BY <2>1, <2>3, <2>4
<1>4. CASE Up(f.peek) # f.tail
  <2>1. /\ p.head = Up(f.peek) /\ p.peek = Up(f.peek) /\ p.tail = f.tail /\ p.buf = f.buf
        /\ p \in FifoType(E)
    BY <1>1, <1>4, Indices DEF Sound, fifo_peek, p_inc, FifoType
  <2>2. /\ Count(p) = Count(f) - (Cooked(f) + 1) /\ Cooked(p) = 0 /\ 0 <= Count(p)
        /\ \A i \in 0 .. Count(p) - 1 :
              p.head # -1 /\ Wrap(p.head + i) = Wrap(f.head + (i + (Cooked(f) + 1)))
    BY <1>1, <1>2, <1>4, <2>1, SizeAssumption DEF Cooked, Count, Ahead, Up, Wrap, Slots
  <2>3. RingOK(p) /\ HasRoom(p)
    BY <1>1, <1>4, <2>1, SizeAssumption DEF RingOK, HasRoom, Up, Slots
  <2> QED BY <2>1, <2>2, <2>3 DEF Sound, At
<1> QED BY <1>3, <1>4

-----------------------------------------------------------------------------
(* The constants' members are entries of the FIFO.                           *)
LEMMA KeyTypes ==
    /\ ERR \in Entries /\ NUL \in Entries /\ NL \in Entries /\ KEY_RESIZE \in Entries
    /\ Bytes \subseteq Entries /\ Keys \subseteq Entries /\ KeyCodes \subseteq Entries
    /\ \A s \in DOMAIN KeyTry : KeyTry[s] \in Entries
BY DEF Entries, KeyCodes

(* What is read off a ring is one of its entries.                            *)
LEMMA HeadTypes ==
    ASSUME NEW f \in FifoType(Entries)
    PROVE  HeadKey(f) \in Entries /\ PeekKey(f) \in Entries
BY KeyTypes, Indices DEF HeadKey, PeekKey, FifoType

RingType(f) == f \in FifoType(Entries) /\ RingOK(f)

(* The ring's operations, for the FIFO of the machine.                       *)
LEMMA RingTypes ==
    ASSUME NEW f, RingType(f)
    PROVE  /\ RingType(Flushed(f)) /\ RingType(fifo_pull(f)) /\ RingType(fifo_peek(f))
           /\ RingType(Uninterpreted(f)) /\ RingType(fifo_clear(f))
           /\ \A ch \in Entries : RingType(fifo_push(f, ch)) /\ RingType(safe_ungetch(f, ch))
           /\ f.head # -1 => RingType(t_dec(f))
BY KeyTypes, EmptyType, FlushedType, PushType, UngetType, PullType, PeekType,
   UninterpretedType, DropType DEF RingType, fifo_clear

(* The end of a matched sequence leaves head and peek at the next raw key.   *)
LEMMA MatchedType ==
    ASSUME NEW f, RingType(f), RawKeyInFifo(f), fifo_peek(f).peek # f.tail
    PROVE  RingType([fifo_peek(f) EXCEPT !.head = fifo_peek(f).peek])
BY Indices DEF RingType, RawKeyInFifo, fifo_peek, p_inc, FifoType, RingOK

(* A step that gives a key to the caller goes to a label there is.           *)
LEMMA GiveType ==
    ASSUME TypeOK, NEW ch \in Entries, NEW f, RingType(f), Give(ch, f)
    PROVE  RingType(q') /\ result' \in Entries /\ pc' \in Labels /\ ret' \in Labels
BY DEF TypeOK, Give, After, CheckSize, Goto, Labels

(* The last or all but the last of a line, and a longer line, are lines.     *)
LEMMA LineTypes ==
    ASSUME NEW l \in Seq(Entries)
    PROVE  /\ \A ch \in Entries : Append(l, ch) \in Seq(Entries)
           /\ l # <<>> => /\ Last(l) \in Entries
                          /\ Front(l) \in Seq(Entries)
                          /\ SubSeq(l, 1, Len(l) - 1) \in Seq(Entries)
<1>1. \A ch \in Entries : Append(l, ch) \in Seq(Entries)
  OBVIOUS
<1>2. ASSUME l # <<>> PROVE Len(l) \in Nat \ {0}
  BY <1>2
<1>3. ASSUME l # <<>> PROVE Last(l) \in Entries
  BY <1>2, <1>3 DEF Last
<1>4. ASSUME l # <<>> PROVE SubSeq(l, 1, Len(l) - 1) \in Seq(Entries)
  <2>1. Len(l) - 1 \in Nat /\ \A i \in 1 .. Len(l) - 1 : l[i] \in Entries
    BY <1>2, <1>4
  <2> QED BY <2>1
<1> QED BY <1>1, <1>3, <1>4 DEF Front

-----------------------------------------------------------------------------
Inv == TypeOK /\ SizeTracked

(* The state a screen starts in.                                             *)
LEMMA InitInv == Init => Inv
<1> SUFFICES ASSUME Init PROVE Inv
  OBVIOUS
<1>1. EmptyFifo \in FifoType(Entries) /\ RingOK(EmptyFifo)
  BY KeyTypes, EmptyType
<1>2. q \in FifoType(Entries) /\ RingOK(q)
  BY <1>1 DEF Init
<1>3. tty \in Seq(Bytes) /\ line \in Seq(Entries)
  BY DEF Init
<1>4. TypeOK
  BY <1>2, <1>3, KeyTypes DEF Init, TypeOK, Labels
<1> QED BY <1>4 DEF Init, Inv, SizeTracked

(* The application's calls.                                                  *)
LEMMA ApplicationInv == Inv /\ Application => Inv'
<1> SUFFICES ASSUME Inv, Application PROVE Inv'
  OBVIOUS
<1> USE DEF Inv, TypeOK, SizeTracked, winch, input
<1>1. ASSUME NEW w \in Windows, Wgetch(w) PROVE Inv'
  BY <1>1 DEF Wgetch, Goto, Labels
<1>2. ASSUME NEW k \in Keys, Ungetch(k) PROVE Inv'
  <2>1. RingType(q')
    BY <1>2, RingTypes, KeyTypes DEF Ungetch, RingType
  <2> QED BY <1>2, <2>1 DEF Ungetch, RingType
<1>3. ASSUME Flushinp PROVE Inv'
  <2>1. RingType(q')
    BY <1>3, RingTypes DEF Flushinp, RingType
  <2>2. tty' \in Seq(Bytes)
    BY <1>3 DEF Flushinp
  <2> QED BY <1>3, <2>1, <2>2 DEF Flushinp, RingType
<1>4. ASSUME Doupdate PROVE Inv'
  BY <1>4 DEF Doupdate, CheckSize, Labels
<1> QED BY <1>1, <1>2, <1>3, <1>4 DEF Application

(* The size check, the one place where the flags are taken down.             *)
LEMMA CheckSizeInv == Inv /\ (HandleSigwinch \/ UpdateScreensize \/ Resized) => Inv'
<1> USE DEF Inv, TypeOK, SizeTracked, winch, input
<1>1. ASSUME Inv, HandleSigwinch PROVE Inv'
  BY <1>1 DEF HandleSigwinch, Goto, Labels
<1>2. ASSUME Inv, UpdateScreensize PROVE Inv'
  <2>1. RingType(q')
    BY <1>2, RingTypes, KeyTypes DEF UpdateScreensize, RingType
  <2> QED BY <1>2, <2>1 DEF UpdateScreensize, Goto, RingType
<1>3. ASSUME Inv, Resized PROVE Inv'
  <2> DEFINE pulled == fifo_pull(q)
             peeked == fifo_peek(pulled)
  <2>1. RingType(pulled) /\ RingType(peeked) /\ RingType(fifo_pull(peeked))
    <3>1. RingType(pulled)
      BY <1>3, RingTypes DEF RingType
    <3>2. RingType(peeked)
      BY <3>1, RingTypes
    <3> QED BY <3>1, <3>2, RingTypes
  <2>2. HeadKey(q) \in Entries
    BY <1>3, HeadTypes
  <2>3. RingType(q') /\ result' \in Entries /\ owed' \in BOOLEAN
    BY <1>3, <2>1, <2>2 DEF Resized, Take, Settle, RingType
  <2> QED BY <1>3, <2>3 DEF Resized, Goto, Labels, RingType
<1> QED BY <1>1, <1>2, <1>3

(* The head of a call.                                                       *)
LEMMA TopInv ==
    Inv /\ (TopCooked \/ PullCooked \/ TopLine \/ TopRaw \/ StartRead \/ Return) => Inv'
<1> USE DEF Inv, TypeOK, SizeTracked, winch, input
<1>1. ASSUME Inv, TopCooked PROVE Inv'
  BY <1>1 DEF TopCooked, MayRefresh, CheckSize, Goto, Labels
<1>2. ASSUME Inv, PullCooked PROVE Inv'
  <2>1. RingType(q') /\ result' \in Entries /\ owed' \in BOOLEAN
    BY <1>2, RingTypes, HeadTypes DEF PullCooked, Take, Settle, RingType
  <2> QED BY <1>2, <2>1 DEF PullCooked, Goto, Labels, RingType
<1>3. ASSUME Inv, TopLine PROVE Inv'
  <2>1. line' \in Seq(Entries)
    BY <1>3 DEF TopLine
  <2> QED BY <1>3, <2>1 DEF TopLine, MayRefresh, CheckSize, Goto, Labels
<1>4. ASSUME Inv, TopRaw PROVE Inv'
  BY <1>4 DEF TopRaw, MayRefresh, CheckSize, Goto, Labels
<1>5. ASSUME Inv, StartRead PROVE Inv'
  BY <1>5 DEF StartRead, Goto, Labels
<1>6. ASSUME Inv, Return PROVE Inv'
  BY <1>6 DEF Return, Goto, Labels
<1> QED BY <1>1, <1>2, <1>3, <1>4, <1>5, <1>6

(* A step that ends in Deliver keeps the invariant if its ring and key are   *)
(* well formed and it leaves the flags alone.                                *)
LEMMA DeliverInv ==
    ASSUME Inv, NEW ch \in Entries, NEW f, RingType(f), Deliver(ch, f),
           tty' \in Seq(Bytes), UNCHANGED <<win, line, called, winch>>
    PROVE  Inv'
<1>1. RingType(q') /\ result' \in Entries /\ pc' \in Labels /\ ret' \in Labels
  BY GiveType DEF Inv, Deliver
<1>2. owed' \in BOOLEAN
  BY DEF Deliver, Settle, Inv, TypeOK
<1> QED BY <1>1, <1>2 DEF Inv, TypeOK, SizeTracked, winch, RingType

(* Reading and matching.                                                     *)
LEMMA ReadInv ==
    Inv /\ (ReadByte \/ PullRaw \/ KeyWithPriority \/ Match \/ RestReady) => Inv'
<1>1. ASSUME Inv, ReadByte PROVE Inv'
  <2>1. Head(tty) \in Entries /\ tty' \in Seq(Bytes)
    BY <1>1, KeyTypes DEF Inv, TypeOK, ReadByte
  <2>2. RingType(fifo_push(q, Head(tty)))
    BY <1>1, <2>1, RingTypes DEF Inv, TypeOK, RingType
  <2>3. CASE win.keypad
    BY <1>1, <2>1, <2>2, <2>3 DEF ReadByte, Inv, TypeOK, SizeTracked, winch, RingType
  <2>4. CASE ~win.keypad
    <3>1. RingType(fifo_pull(fifo_push(q, Head(tty)))) /\ HeadKey(fifo_push(q, Head(tty))) \in Entries
      BY <2>2, RingTypes, HeadTypes DEF RingType
    <3>2. Deliver(HeadKey(fifo_push(q, Head(tty))), fifo_pull(fifo_push(q, Head(tty))))
      BY <1>1, <2>4 DEF ReadByte
    <3> QED BY <1>1, <2>1, <3>1, <3>2, DeliverInv DEF ReadByte
  <2> QED BY <2>3, <2>4
<1>2. ASSUME Inv, PullRaw PROVE Inv'
  <2>1. RingType(fifo_pull(q)) /\ HeadKey(q) \in Entries
    BY <1>2, RingTypes, HeadTypes DEF RingType, Inv, TypeOK
  <2> QED BY <1>2, <2>1, DeliverInv DEF PullRaw, Inv, TypeOK
<1>3. ASSUME Inv, KeyWithPriority PROVE Inv'
  <2>1. RingType(fifo_pull(q)) /\ HeadKey(q) \in Entries
    BY <1>3, RingTypes, HeadTypes DEF RingType, Inv, TypeOK
  <2>2. RingType(Uninterpreted(fifo_pull(q)))
    BY <2>1, RingTypes
  <2> QED BY <1>3, <2>1, <2>2, DeliverInv DEF KeyWithPriority, Inv, TypeOK
<1>4. ASSUME Inv, Match PROVE Inv'
  <2> DEFINE ch     == PeekKey(q)
             peeked == fifo_peek(q)
             seen   == Append(node, ch)
  <2>1. RingType(q) /\ q.head # -1 /\ RawKeyInFifo(q)
    BY <1>4 DEF Inv, TypeOK, RingType, Match, RawKeyInFifo
  <2>2. RingType(peeked) /\ RingType(fifo_pull(peeked)) /\ ch \in Entries /\ HeadKey(q) \in Entries
    <3>1. RingType(peeked)
      BY <2>1, RingTypes
    <3> QED BY <2>1, <3>1, RingTypes, HeadTypes DEF RingType
  <2>3. CASE Deliver(ch, t_dec(Uninterpreted(q)))
    <3>1. RingType(Uninterpreted(q)) /\ Uninterpreted(q).head # -1
      BY <2>1, RingTypes DEF Uninterpreted, RingType, FifoType
    <3>2. RingType(t_dec(Uninterpreted(q)))
      BY <3>1, RingTypes
    <3> QED BY <1>4, <2>2, <2>3, <3>2, DeliverInv DEF Match, Inv, TypeOK
  <2>4. CASE Deliver(HeadKey(q), Uninterpreted(fifo_pull(peeked)))
    <3>1. RingType(Uninterpreted(fifo_pull(peeked)))
      BY <2>2, RingTypes
    <3> QED BY <1>4, <2>2, <2>4, <3>1, DeliverInv DEF Match, Inv, TypeOK
  <2>5. CASE /\ seen \in DOMAIN KeyTry
             /\ Deliver(KeyTry[seen], IF peeked.peek = q.tail THEN fifo_clear(q)
                                      ELSE [peeked EXCEPT !.head = peeked.peek])
    <3> DEFINE f == IF peeked.peek = q.tail THEN fifo_clear(q)
                    ELSE [peeked EXCEPT !.head = peeked.peek]
    <3>1. RingType(f)
      BY <2>1, RingTypes, MatchedType
    <3>2. KeyTry[seen] \in Entries
      BY <2>5, KeyTypes
    <3> QED BY <1>4, <2>5, <3>1, <3>2, DeliverInv DEF Match, Inv, TypeOK
  <2>6. CASE /\ q' = peeked /\ node' = seen
             /\ Goto(IF RawKeyInFifo(peeked) THEN "key" ELSE "esc")
             /\ UNCHANGED <<result, owed>>
    BY <1>4, <2>2, <2>6 DEF Match, Goto, Labels, Inv, TypeOK, SizeTracked, winch, RingType
  <2> QED BY <1>4, <2>3, <2>4, <2>5, <2>6 DEF Match
<1>5. ASSUME Inv, RestReady PROVE Inv'
  BY <1>5 DEF RestReady, Goto, Labels, Inv, TypeOK, SizeTracked, winch, input
<1> QED BY <1>1, <1>2, <1>3, <1>4, <1>5

(* Cooked mode.                                                              *)
LEMMA LineInv == Inv /\ (LineEdit \/ LineEcho \/ LineEnd \/ StuffKey \/ StuffPull) => Inv'
<1> USE DEF Inv, TypeOK, SizeTracked, winch, input
<1>1. ASSUME Inv, LineEdit PROVE Inv'
  <2>1. line' \in Seq(Entries)
    <3>1. result \in Entries /\ line \in Seq(Entries) /\ <<>> \in Seq(Entries)
      BY <1>1
    <3>2. \/ line' = line \/ line' = <<>> \/ line' = Append(line, result)
          \/ line # <<>> /\ line' = Front(line)
      BY <1>1 DEF LineEdit, EditLine
    <3> QED BY <3>1, <3>2, LineTypes
  <2>2. pc' \in Labels /\ ret' \in Labels
    BY <1>1 DEF LineEdit, EditLine, CheckSize, Goto, Labels
  <2> QED BY <1>1, <2>1, <2>2 DEF LineEdit, EditLine
<1>5. ASSUME Inv, LineEcho PROVE Inv'
  BY <1>5 DEF LineEcho, CheckSize, Labels
<1>2. ASSUME Inv, LineEnd PROVE Inv'
  <2>1. line' \in Seq(Entries)
    BY <1>2, LineTypes, KeyTypes DEF LineEnd
  <2> QED BY <1>2, <2>1 DEF LineEnd, CheckSize, Labels
<1>3. ASSUME Inv, StuffKey PROVE Inv'
  <2>1. line' \in Seq(Entries) /\ Last(line) \in Entries
    BY <1>3, LineTypes DEF StuffKey
  <2>2. RingType(q')
    BY <1>3, <2>1, RingTypes DEF StuffKey, RingType
  <2> QED BY <1>3, <2>1, <2>2 DEF StuffKey, RingType
<1>4. ASSUME Inv, StuffPull PROVE Inv'
  <2>1. RingType(q') /\ result' \in Entries /\ owed' \in BOOLEAN
    BY <1>4, RingTypes, HeadTypes DEF StuffPull, Take, Settle, RingType
  <2> QED BY <1>4, <2>1 DEF StuffPull, Goto, Labels, RingType
<1> QED BY <1>1, <1>2, <1>3, <1>4, <1>5

(* A wait or a read that fails: the parts of the state it writes.            *)
LEMMA FailureTypes ==
    ASSUME Inv, WaitFails \/ RestFails \/ ReadFails
    PROVE  /\ RingType(q') /\ result' \in Entries /\ pc' \in Labels /\ ret' \in Labels
           /\ UNCHANGED <<win, line, called>>
<1>1. CASE WaitFails
  BY <1>1, KeyTypes DEF WaitFails, CheckSize, Labels, Inv, TypeOK, RingType
<1>2. CASE RestFails
  <2>1. HeadKey(q) \in Entries /\ RingType(fifo_pull(q))
    BY RingTypes, HeadTypes DEF Inv, TypeOK, RingType
  <2>2. RingType(Uninterpreted(fifo_pull(q)))
    BY <2>1, RingTypes
  <2> QED BY <1>2, <2>1, <2>2, GiveType DEF RestFails, Inv
<1>3. CASE ReadFails
  <2>1. RingType(fifo_push(q, ERR))
    BY RingTypes, KeyTypes DEF Inv, TypeOK, RingType
  <2>2. RingType(Uninterpreted(fifo_push(q, ERR))) /\ RingType(fifo_pull(fifo_push(q, ERR)))
    BY <2>1, RingTypes
  <2> QED BY <1>3, <2>2, GiveType, KeyTypes DEF ReadFails, Inv
<1> QED BY <1>1, <1>2, <1>3

(* The keyboard, timers and signals.                                         *)
LEMMA EnvironmentInv == Inv /\ Environment => Inv'
<1>1. ASSUME Inv, NEW b \in Bytes, Keyboard(b) PROVE Inv'
  <2>1. tty' \in Seq(Bytes)
    BY <1>1 DEF Keyboard, Inv, TypeOK
  <2> QED BY <1>1, <2>1 DEF Keyboard, Inv, TypeOK, SizeTracked, winch, input
<1>2. ASSUME Inv, NEW s \in Sizes, Sigwinch(s) PROVE Inv'
  BY <1>2 DEF Sigwinch, Handler, Inv, TypeOK, SizeTracked
<1>3. ASSUME Inv, NEW s \in Sizes, SigwinchInterrupts(s) PROVE Inv'
  BY <1>3, FailureTypes DEF SigwinchInterrupts, Interrupted, Handler, Inv, TypeOK, SizeTracked, RingType
<1>4. ASSUME Inv, SignalInterrupts PROVE Inv'
  BY <1>4, FailureTypes DEF SignalInterrupts, Interrupted, Inv, TypeOK, SizeTracked, winch, RingType
<1>5. ASSUME Inv, Timeout PROVE Inv'
  BY <1>5, FailureTypes DEF Timeout, Inv, TypeOK, SizeTracked, winch, RingType
<1> QED BY <1>1, <1>2, <1>3, <1>4, <1>5 DEF Environment

(* Inv is inductive.                                                         *)
LEMMA StepInv == Inv /\ [Next]_vars => Inv'
<1>1. Inv /\ Next => Inv'
  BY ApplicationInv, CheckSizeInv, TopInv, ReadInv, LineInv, EnvironmentInv DEF Next, Library
<1>2. Inv /\ UNCHANGED vars => Inv'
  BY DEF vars, Inv, TypeOK, SizeTracked, winch
<1> QED BY <1>1, <1>2

(* Every reachable state keeps the invariant, the types and the ring's shape included. *)
THEOREM Invariance == Spec => []Inv
BY InitInv, StepInv, PTL DEF Spec

(* Every reachable ring has one of the shapes of RingOK, and the rest of the *)
(* state its type.                                                           *)
THEOREM TypeCorrect == Spec => []TypeOK
BY Invariance, PTL DEF Inv

(* However signals fall between the steps of _nc_handle_sigwinch and         *)
(* _nc_update_screensize, a size the library does not know leaves a flag set.*)
THEOREM SizeIsTracked == Spec => []SizeTracked
BY Invariance, PTL DEF Inv

(* The ring's one defect, for every size: a FIFO that was filled once stays  *)
(* marked full however many keys are taken from it.                          *)
THEOREM FullStaysFull ==
    ASSUME NEW f, RingType(f), ~HasRoom(f)
    PROVE  ~HasRoom(fifo_pull(f)) /\ fifo_pull(f).head # -1
BY Indices DEF RingType, fifo_pull, h_inc, HasRoom, FifoType, RingOK

-----------------------------------------------------------------------------
(* The keys that may be in the ring, beside the ERR of a failed read.        *)
Known == Bytes \cup Keys \cup {KEY_RESIZE, NL}

(* ERR, the codes of keys and the bytes that arrive are different things.    *)
LEMMA Apart ==
    /\ ERR \notin Known /\ ERR \notin KeyCodes /\ ERR \notin Bytes
    /\ KEY_RESIZE \in KeyCodes /\ KEY_RESIZE \in Known /\ KEY_RESIZE \notin Bytes
    /\ \A b \in Bytes : b \in Known /\ b \notin KeyCodes
    /\ \A s \in DOMAIN KeyTry : KeyTry[s] \in KeyCodes /\ s \in Seq(Bytes) /\ s # <<>>
    /\ Known \subseteq Entries /\ ERR \in Entries /\ Keys \subseteq Known /\ NL \in Known
BY KeyAssumption DEF Known, KeyCodes, Entries

(* What is raw was typed, or is the ERR of a failed read, which is then      *)
(* alone and last.                                                           *)
Raw(f, i) == At(f, i) \in Bytes \cup {ERR}
Lone(f, i) == At(f, i) = ERR => i = Cooked(f) /\ Count(f) = i + 1

Orderly(f) ==
    /\ Sound(Entries, f)
    /\ \A i \in 0 .. Count(f) - 1 :
         /\ At(f, i) \in Known \cup {ERR}
         /\ i >= Cooked(f) => Raw(f, i)
         /\ Lone(f, i)

OnlyBytes(f)   == \A i \in 0 .. Count(f) - 1 : At(f, i) \in Bytes
FailedRead(f)  == \A i \in 0 .. Count(f) - 1 : i >= Cooked(f) => At(f, i) = ERR
ResizeFirst(f) == Cooked(f) <= 1 /\ (Cooked(f) = 1 => At(f, 0) = KEY_RESIZE)
Holds(f, s)    == Len(s) = Cooked(f) /\ \A i \in 1 .. Len(s) : At(f, i - 1) = s[i]

(* An orderly ring is one, whatever operation gave it.                       *)
LEMMA OrderlyRing ==
    ASSUME NEW f, Orderly(f)
    PROVE  /\ Sound(Entries, f) /\ RingType(f)
           /\ Count(f) \in 0 .. FIFO_SIZE - 1 /\ Cooked(f) \in 0 .. Count(f)
           /\ (f.head = -1 <=> Count(f) = 0)
           /\ (CookedKeyInFifo(f) <=> Cooked(f) > 0)
           /\ (RawKeyInFifo(f) <=> Cooked(f) < Count(f))
           /\ HeadKey(f) = IF Count(f) > 0 THEN At(f, 0) ELSE ERR
           /\ Cooked(f) < Count(f) => PeekKey(f) = At(f, Cooked(f))
           /\ HeadKey(f) \in Known \cup {ERR}
           /\ HeadKey(f) = ERR => Count(f) = 0 \/ (Count(f) = 1 /\ Cooked(f) = 0)
<1>1. Sound(Entries, f) /\ RingType(f)
  BY DEF Orderly, Sound, RingType
<1>2. /\ Count(f) \in 0 .. FIFO_SIZE - 1 /\ Cooked(f) \in 0 .. Count(f)
      /\ (f.head = -1 <=> Count(f) = 0)
      /\ (CookedKeyInFifo(f) <=> Cooked(f) > 0)
      /\ (RawKeyInFifo(f) <=> Cooked(f) < Count(f))
      /\ HeadKey(f) = IF Count(f) > 0 THEN At(f, 0) ELSE ERR
      /\ Cooked(f) < Count(f) => PeekKey(f) = At(f, Cooked(f))
  BY <1>1, SoundRing
<1>3. Count(f) > 0 => 0 \in 0 .. Count(f) - 1
  BY <1>2
<1>4. HeadKey(f) \in Known \cup {ERR}
  BY <1>2, <1>3 DEF Orderly
<1>5. HeadKey(f) = ERR => Count(f) = 0 \/ (Count(f) = 1 /\ Cooked(f) = 0)
  BY <1>2, <1>3 DEF Orderly, Lone
<1> QED BY <1>1, <1>2, <1>4, <1>5

(* A sound ring without keys is in order.                                    *)
LEMMA OrderlyEmpty ==
    ASSUME NEW f, Sound(Entries, f), Count(f) = 0
    PROVE  Orderly(f)
BY DEF Orderly

(* A byte, or an ERR, is read only when nothing is raw.                      *)
LEMMA OrderlyPush ==
    ASSUME NEW f, Orderly(f), Cooked(f) = Count(f), NEW ch \in Bytes \cup {ERR},
           HasRoom(fifo_push(f, ch))
    PROVE  Orderly(fifo_push(f, ch))
<1> DEFINE p == fifo_push(f, ch)
<1>1. /\ Sound(Entries, p) /\ Count(p) = Count(f) + 1 /\ Cooked(p) = Count(f)
      /\ At(p, Count(f)) = ch /\ \A i \in 0 .. Count(f) - 1 : At(p, i) = At(f, i)
  BY PushSound, Apart DEF Orderly
<1>2. Count(f) \in Nat
  BY OrderlyRing
<1>3. \A i \in 0 .. Count(f) - 1 : At(f, i) \in Known
  BY <1>2 DEF Orderly, Lone
<1> HIDE DEF p
<1>4. ASSUME NEW i \in 0 .. Count(p) - 1
      PROVE  At(p, i) \in Known \cup {ERR} /\ (i >= Cooked(p) => Raw(p, i)) /\ Lone(p, i)
  <2>1. CASE i = Count(f)
    BY <1>1, <1>2, <2>1, Apart DEF Raw, Lone
  <2>2. CASE i # Count(f)
    <3>1. i \in 0 .. Count(f) - 1
      BY <1>1, <1>2, <2>2
    <3>2. At(p, i) \in Known /\ At(p, i) # ERR /\ ~(i >= Cooked(p))
      BY <1>1, <1>2, <1>3, <3>1, Apart
    <3> QED BY <3>2 DEF Lone
  <2> QED BY <2>1, <2>2
<1> QED BY <1>1, <1>4 DEF Orderly, p

(* A key in front of the others is cooked.                                   *)
LEMMA OrderlyUnget ==
    ASSUME NEW f, Orderly(f), NEW ch \in Known, HasRoom(safe_ungetch(f, ch))
    PROVE  Orderly(safe_ungetch(f, ch))
<1> DEFINE p == safe_ungetch(f, ch)
<1>1. /\ Sound(Entries, p) /\ Count(p) = Count(f) + 1 /\ Cooked(p) = Cooked(f) + 1
      /\ At(p, 0) = ch /\ \A i \in 0 .. Count(f) - 1 : At(p, i + 1) = At(f, i)
  BY UngetSound, Apart DEF Orderly
<1>2. Count(f) \in Nat /\ Cooked(f) \in Nat
  BY OrderlyRing
<1> HIDE DEF p
<1>3. ASSUME NEW i \in 0 .. Count(p) - 1
      PROVE  At(p, i) \in Known \cup {ERR} /\ (i >= Cooked(p) => Raw(p, i)) /\ Lone(p, i)
  <2>1. CASE i = 0
    BY <1>1, <1>2, <2>1, Apart DEF Lone
  <2>2. CASE i # 0
    <3>1. i - 1 \in 0 .. Count(f) - 1 /\ At(p, (i - 1) + 1) = At(p, i)
      BY <1>1, <1>2, <2>2
    <3>2. At(p, i) = At(f, i - 1)
      BY <1>1, <3>1
    <3> QED BY <1>1, <1>2, <3>1, <3>2 DEF Orderly, Raw, Lone
  <2> QED BY <2>1, <2>2
<1> QED BY <1>1, <1>3 DEF Orderly, p

(* A ring that lost its first key, and one that has its bytes raw again.     *)
LEMMA OrderlyShift ==
    ASSUME NEW f, Orderly(f), NEW p, Sound(Entries, p), NEW n \in 0 .. Count(f),
           Count(p) = Count(f) - n,
           \A i \in 0 .. Count(p) - 1 : At(p, i) = At(f, i + n),
           \/ Cooked(p) = IF Cooked(f) < n THEN 0 ELSE Cooked(f) - n
           \/ Cooked(p) = 0 /\ (Cooked(f) <= n \/ OnlyBytes(f))
    PROVE  Orderly(p)
<1>1. Count(f) \in Nat /\ Cooked(f) \in Nat
  BY OrderlyRing
<1>2. ASSUME NEW i \in 0 .. Count(p) - 1
      PROVE  At(p, i) \in Known \cup {ERR} /\ (i >= Cooked(p) => Raw(p, i)) /\ Lone(p, i)
  <2>1. i + n \in 0 .. Count(f) - 1 /\ At(p, i) = At(f, i + n)
    BY <1>1
  <2>2. CASE OnlyBytes(f)
    BY <2>1, <2>2, Apart DEF OnlyBytes, Raw, Lone
  <2>3. CASE Cooked(p) = IF Cooked(f) < n THEN 0 ELSE Cooked(f) - n
    BY <1>1, <2>1, <2>3 DEF Orderly, Raw, Lone
  <2>4. CASE Cooked(p) = 0 /\ Cooked(f) <= n
    BY <1>1, <2>1, <2>4 DEF Orderly, Raw, Lone
  <2> QED BY <2>2, <2>3, <2>4
<1> QED BY <1>2 DEF Orderly

(* fifo_pull() takes the first key, and the others move up.                  *)
LEMMA OrderlyPull ==
    ASSUME NEW f, Orderly(f)
    PROVE  /\ Orderly(fifo_pull(f))
           /\ Count(fifo_pull(f)) = IF Count(f) = 0 THEN 0 ELSE Count(f) - 1
           /\ Cooked(fifo_pull(f)) = IF Cooked(f) = 0 THEN 0 ELSE Cooked(f) - 1
           /\ \A i \in 0 .. Count(f) - 2 : At(fifo_pull(f), i) = At(f, i + 1)
<1> DEFINE p == fifo_pull(f)
           n == IF Count(f) = 0 THEN 0 ELSE 1
<1>1. Count(f) \in Nat /\ Cooked(f) \in 0 .. Count(f)
  BY OrderlyRing
<1>2. /\ Sound(Entries, p)
      /\ Count(p) = IF Count(f) = 0 THEN 0 ELSE Count(f) - 1
      /\ Cooked(p) = IF Cooked(f) = 0 THEN 0 ELSE Cooked(f) - 1
      /\ \A i \in 0 .. Count(f) - 2 : At(p, i) = At(f, i + 1)
  BY PullSound DEF Orderly
<1> HIDE DEF p
<1>3. /\ n \in 0 .. Count(f) /\ Count(p) = Count(f) - n
      /\ \A i \in 0 .. Count(p) - 1 : At(p, i) = At(f, i + n)
      /\ Cooked(p) = IF Cooked(f) < n THEN 0 ELSE Cooked(f) - n
  BY <1>1, <1>2
<1> HIDE DEF n
<1>4. Orderly(p)
  BY <1>2, <1>3, OrderlyShift
<1> QED BY <1>2, <1>4 DEF p

(* fifo_pull() and peek = head.                                              *)
LEMMA PulledRaw ==
    ASSUME NEW f, Sound(Entries, f), Count(f) \in Nat \ {0}
    PROVE  LET p == Uninterpreted(fifo_pull(f)) IN
           /\ Sound(Entries, p) /\ Count(p) = Count(f) - 1 /\ Cooked(p) = 0
           /\ \A i \in 0 .. Count(p) - 1 : At(p, i) = At(f, i + 1)
<1> DEFINE r == fifo_pull(f)
           p == Uninterpreted(r)
<1>1. /\ Sound(Entries, r) /\ Count(r) = Count(f) - 1
      /\ \A i \in 0 .. Count(f) - 2 : At(r, i) = At(f, i + 1)
  BY PullSound
<1> HIDE DEF r
<1>2. /\ Sound(Entries, p) /\ Count(p) = Count(r) /\ Cooked(p) = 0
      /\ \A i \in 0 .. Count(r) - 1 : At(p, i) = At(r, i)
  BY <1>1, UninterpretedSound
<1> HIDE DEF p
<1>3. \A i \in 0 .. Count(p) - 1 : At(p, i) = At(f, i + 1)
  BY <1>1, <1>2
<1> QED BY <1>1, <1>2, <1>3 DEF p, r

(* The rest of a ring whose first key, or whose matched sequence, is gone    *)
(* and whose keys are all raw.                                               *)
LEMMA OrderlyRest ==
    ASSUME NEW f, Orderly(f), Count(f) > 0, Cooked(f) <= 1 \/ OnlyBytes(f)
    PROVE  LET p == Uninterpreted(fifo_pull(f)) IN
           /\ Orderly(p) /\ Count(p) = Count(f) - 1 /\ Cooked(p) = 0
           /\ \A i \in 0 .. Count(p) - 1 : At(p, i) = At(f, i + 1)
<1> DEFINE p == Uninterpreted(fifo_pull(f))
<1>1. Count(f) \in Nat /\ Cooked(f) \in 0 .. Count(f)
  BY OrderlyRing
<1>2. /\ Sound(Entries, p) /\ Count(p) = Count(f) - 1 /\ Cooked(p) = 0
      /\ \A i \in 0 .. Count(p) - 1 : At(p, i) = At(f, i + 1)
  BY <1>1, PulledRaw DEF Orderly
<1> HIDE DEF p
<1>3. Orderly(p)
  BY <1>1, <1>2, OrderlyShift
<1> QED BY <1>2, <1>3 DEF p

(* No key fits: the first byte is taken, the others are looked at again.     *)
LEMMA OrderlyUnmatched ==
    ASSUME NEW f, Orderly(f), RawKeyInFifo(f), Cooked(f) = 0 \/ OnlyBytes(f)
    PROVE  LET p == Uninterpreted(fifo_pull(fifo_peek(f))) IN
           /\ Orderly(p) /\ Count(p) = Count(f) - 1 /\ Cooked(p) = 0
           /\ \A i \in 0 .. Count(p) - 1 : At(p, i) = At(f, i + 1)
<1> DEFINE k == fifo_peek(f)
           p == Uninterpreted(fifo_pull(k))
<1>1. Count(f) \in Nat /\ Cooked(f) \in 0 .. Count(f) /\ Cooked(f) < Count(f)
  BY OrderlyRing
<1>2. /\ Sound(Entries, k) /\ Count(k) = Count(f)
      /\ \A i \in 0 .. Count(f) - 1 : At(k, i) = At(f, i)
  BY <1>1, PeekSound DEF Orderly
<1> HIDE DEF k
<1>3. /\ Sound(Entries, p) /\ Count(p) = Count(f) - 1 /\ Cooked(p) = 0
      /\ \A i \in 0 .. Count(p) - 1 : At(p, i) = At(k, i + 1)
  BY <1>1, <1>2, PulledRaw
<1> HIDE DEF p
<1>4. \A i \in 0 .. Count(p) - 1 : At(p, i) = At(f, i + 1)
  BY <1>1, <1>2, <1>3
<1>5. Orderly(p)
  BY <1>1, <1>3, <1>4, OrderlyShift
<1> QED BY <1>3, <1>4, <1>5 DEF p, k

(* A key fits: all its bytes are taken.                                      *)
LEMMA OrderlyMatched ==
    ASSUME NEW f, Orderly(f), RawKeyInFifo(f), Cooked(f) = 0 \/ OnlyBytes(f),
           NEW p, p = IF fifo_peek(f).peek = f.tail THEN fifo_clear(f)
                      ELSE [fifo_peek(f) EXCEPT !.head = fifo_peek(f).peek]
    PROVE  /\ Orderly(p) /\ Count(p) = Count(f) - (Cooked(f) + 1) /\ Cooked(p) = 0
           /\ \A i \in 0 .. Count(p) - 1 : At(p, i) = At(f, i + (Cooked(f) + 1))
<1>1. Cooked(f) + 1 \in 0 .. Count(f)
  BY OrderlyRing
<1>2. /\ Sound(Entries, p) /\ Count(p) = Count(f) - (Cooked(f) + 1) /\ Cooked(p) = 0
      /\ \A i \in 0 .. Count(p) - 1 : At(p, i) = At(f, i + (Cooked(f) + 1))
  BY MatchedSound, KeyTypes DEF Orderly
<1>3. Cooked(f) <= Cooked(f) + 1
  BY OrderlyRing
<1>4. Orderly(p)
  BY <1>1, <1>2, <1>3, OrderlyShift
<1> QED BY <1>2, <1>4

(* A byte that was peeked at counts as cooked until the match is decided.    *)
LEMMA OrderlyPeek ==
    ASSUME NEW f, Orderly(f), RawKeyInFifo(f), PeekKey(f) \in Bytes
    PROVE  /\ Orderly(fifo_peek(f))
           /\ Count(fifo_peek(f)) = Count(f) /\ Cooked(fifo_peek(f)) = Cooked(f) + 1
           /\ \A i \in 0 .. Count(f) - 1 : At(fifo_peek(f), i) = At(f, i)
<1> DEFINE p == fifo_peek(f)
<1>1. Count(f) \in Nat /\ Cooked(f) \in 0 .. Count(f) - 1 /\ At(f, Cooked(f)) \in Bytes
  BY OrderlyRing
<1>2. /\ Sound(Entries, p) /\ Count(p) = Count(f) /\ Cooked(p) = Cooked(f) + 1
      /\ \A i \in 0 .. Count(f) - 1 : At(p, i) = At(f, i)
  BY <1>1, PeekSound DEF Orderly
<1> HIDE DEF p
<1>3. ASSUME NEW i \in 0 .. Count(p) - 1
      PROVE  At(p, i) \in Known \cup {ERR} /\ (i >= Cooked(p) => Raw(p, i)) /\ Lone(p, i)
  <2>1. At(f, i) # ERR
    BY <1>1, <1>2, Apart DEF Orderly, Lone
  <2> QED BY <1>1, <1>2, <2>1 DEF Orderly, Raw, Lone
<1> QED BY <1>2, <1>3 DEF Orderly, p

-----------------------------------------------------------------------------
(* Key sequences.                                                            *)

(* A sequence that is not empty has a length from 1 on.                      *)
LEMMA NotEmpty ==
    ASSUME NEW S, NEW s \in Seq(S), s # <<>>
    PROVE  Len(s) \in Nat \ {0}
OBVIOUS

(* IsPrefix() compares the elements one by one.                              *)
LEMMA IsPrefixFact ==
    ASSUME NEW S, NEW s \in Seq(S), NEW t \in Seq(S)
    PROVE  IsPrefix(s, t) <=> Len(s) <= Len(t) /\ \A i \in 1 .. Len(s) : s[i] = t[i]
<1>1. ASSUME Len(s) <= Len(t)
      PROVE  /\ SubSeq(s, 1, Len(s)) = s
             /\ SubSeq(t, 1, Len(s)) = [i \in 1 .. Len(s) |-> t[i]]
  BY <1>1
<1>2. s = [i \in 1 .. Len(s) |-> s[i]]
  OBVIOUS
<1>3. ASSUME Len(s) <= Len(t), \A i \in 1 .. Len(s) : s[i] = t[i] PROVE IsPrefix(s, t)
  BY <1>1, <1>2, <1>3 DEF IsPrefix
<1>4. ASSUME IsPrefix(s, t) PROVE Len(s) <= Len(t) /\ \A i \in 1 .. Len(s) : s[i] = t[i]
  <2>1. Len(s) <= Len(t) /\ SubSeq(s, 1, Len(s)) = SubSeq(t, 1, Len(s))
    BY <1>4 DEF IsPrefix
  <2>2. s = [i \in 1 .. Len(s) |-> t[i]]
    BY <1>1, <2>1
  <2> QED BY <2>1, <2>2
<1> QED BY <1>3, <1>4 DEF IsPrefix

NoKeyIn(s) == \A k \in DOMAIN KeyTry : ~IsPrefix(k, s)

(* The bytes matched so far, one of them more, begin a key and hold none.    *)
LEMMA Longer ==
    ASSUME NEW s \in Seq(Bytes), NoKeyIn(s), NEW ch \in Bytes, Append(s, ch) \notin DOMAIN KeyTry
    PROVE  NoKeyIn(Append(s, ch))
<1> DEFINE t == Append(s, ch)
<1>1. /\ t \in Seq(Bytes) /\ Len(t) = Len(s) + 1 /\ Len(s) \in Nat
      /\ \A i \in 1 .. Len(s) : t[i] = s[i]
  OBVIOUS
<1> HIDE DEF t
<1>2. SUFFICES ASSUME NEW k \in DOMAIN KeyTry, IsPrefix(k, t) PROVE FALSE
  BY DEF NoKeyIn, t
<1>3. k \in Seq(Bytes) /\ k # t
  BY Apart DEF t
<1>4. Len(k) \in Nat /\ Len(k) <= Len(t) /\ \A i \in 1 .. Len(k) : k[i] = t[i]
  BY <1>1, <1>2, <1>3, IsPrefixFact
<1>5. CASE Len(k) = Len(t)
  BY <1>1, <1>3, <1>4, <1>5, SeqEqual
<1>6. CASE Len(k) # Len(t)
  <2>1. Len(k) <= Len(s) /\ \A i \in 1 .. Len(k) : k[i] = s[i]
    BY <1>1, <1>4, <1>6
  <2>2. IsPrefix(k, s)
    BY <1>3, <2>1, IsPrefixFact
  <2> QED BY <2>2 DEF NoKeyIn
<1> QED BY <1>5, <1>6

(* A sequence that begins a key is of bytes, and shorter than a key if it is *)
(* none.                                                                     *)
LEMMA Beginning ==
    ASSUME NEW s \in Seq(Bytes), NEW ch, IsPrefixOfKey(Append(s, ch)), ch \in Known \cup {ERR}
    PROVE  ch \in Bytes
<1> DEFINE E == Bytes \cup Known \cup {ERR}
           t == Append(s, ch)
<1>1. t \in Seq(E) /\ Len(t) = Len(s) + 1 /\ t[Len(s) + 1] = ch /\ Len(s) \in Nat
  <2>1. s \in Seq(E)
    OBVIOUS
  <2> QED BY <2>1, AppendProperties
<1>2. PICK k \in DOMAIN KeyTry : IsPrefix(t, k)
  BY DEF IsPrefixOfKey
<1>3. k \in Seq(Bytes)
  BY Apart
<1>4. k \in Seq(E)
  BY <1>3
<1> HIDE DEF t, E
<1>5. Len(t) <= Len(k) /\ \A i \in 1 .. Len(t) : t[i] = k[i]
  BY <1>1, <1>2, <1>4, IsPrefixFact
<1>6. Len(s) + 1 \in 1 .. Len(k) /\ ch = k[Len(s) + 1]
  BY <1>1, <1>3, <1>5
<1> QED BY <1>3, <1>6

(* Nothing read yet holds no key.                                            *)
LEMMA NoEmptyKey == NoKeyIn(<<>>)
<1> SUFFICES ASSUME NEW k \in DOMAIN KeyTry, IsPrefix(k, <<>>) PROVE FALSE
  BY DEF NoKeyIn
<1>1. k \in Seq(Bytes) /\ k # <<>>
  BY Apart
<1> QED BY <1>1 DEF IsPrefix

-----------------------------------------------------------------------------
(* The queue's invariant.                                                    *)

Checking(label) == pc \in {"winch", "size"} /\ ret = label

(* kgetch()'s bytes are the cooked keys, they begin a key and contain none;  *)
(* what lies behind them was typed as well.                                  *)
MatchInv ==
    /\ node \in Seq(Bytes) /\ NoKeyIn(node)
    /\ pc \notin {"key", "esc"} => node = <<>>
    /\ pc = "esc" => node # <<>> /\ Cooked(q) = Count(q)
    /\ node # <<>> => /\ win.keypad
                      /\ Holds(q, node) /\ OnlyBytes(q) /\ IsPrefixOfKey(node)
                      /\ pc = "key" /\ Cooked(q) = Count(q) => tty # <<>>

(* Once wgetch() has found nothing cooked, only its size check puts a key    *)
(* before the raw ones; after a failure nothing is raw but its ERR.          *)
CheckInv ==
    /\ pc \in {"start", "resized"} \/ (pc = "key" /\ node = <<>>) => ResizeFirst(q)
    /\ Checking("start") \/ Checking("resized") => Cooked(q) = 0
    /\ pc = "resized" \/ Checking("resized") => FailedRead(q) /\ result = ERR
    /\ pc \in {"winch", "size"} =>
          ret \in {"app", "top", "pull", "start", "done", "end", "stuff", "resized"}

TakenInv ==
    /\ line \in Seq(Bytes \cup Keys \cup {NL})
    /\ pc = "done" \/ Checking("done") => result \in Known \cup KeyCodes \cup {ERR}

QueueInv == Orderly(q) /\ MatchInv /\ CheckInv /\ TakenInv

(* The queue begins in order.                                                *)
LEMMA InitQueue == Init => QueueInv
<1> SUFFICES ASSUME Init PROVE QueueInv
  OBVIOUS
<1>1. Orderly(q)
  BY KeyTypes, EmptySound, OrderlyEmpty DEF Init
<1>2. MatchInv /\ CheckInv /\ TakenInv
  BY NoEmptyKey DEF Init, MatchInv, CheckInv, TakenInv, Checking
<1> QED BY <1>1, <1>2 DEF QueueInv

(* A step that hands ch to the caller and leaves the ring f.                 *)
LEMMA GiveQueue ==
    ASSUME QueueInv, NEW ch \in Known \cup KeyCodes \cup {ERR}, NEW f, Orderly(f),
           ch = ERR => Cooked(f) = 0 /\ FailedRead(f), Give(ch, f), line' = line
    PROVE  QueueInv'
<1>1. q' = f /\ node' = <<>> /\ result' = ch
  BY DEF Give
<1>2. \/ ch = ERR /\ pc' = "winch" /\ ret' = "resized"
      \/ pc' = "winch" /\ ret' = "done"
      \/ pc' = "done"
  BY DEF Give, After, CheckSize, Goto
<1>3. Orderly(q')
  BY <1>1
<1>4. MatchInv'
  BY <1>1, <1>2, NoEmptyKey DEF MatchInv
<1>5. CheckInv'
  BY <1>1, <1>2 DEF CheckInv, Checking
<1>6. TakenInv'
  BY <1>1 DEF QueueInv, TakenInv, Checking
<1> QED BY <1>3, <1>4, <1>5, <1>6 DEF QueueInv

(* The last key of an orderly ring that gave an ERR was that ERR.            *)
LEMMA AfterErr ==
    ASSUME NEW f, Orderly(f), HeadKey(f) = ERR
    PROVE  Count(f) = 0 \/ (Count(f) = 1 /\ Cooked(f) = 0)
BY OrderlyRing

(* kgetch() and the plain read block only when there is nothing to read in   *)
(* the ring.                                                                 *)
LEMMA ReadingRing ==
    ASSUME QueueInv, Reading
    PROVE  Cooked(q) = Count(q) /\ (node = <<>> => Count(q) = 0)
<1>1. Orderly(q)
  BY DEF QueueInv
<1>2. CASE ~win.keypad
  <2>1. q.head = -1
    BY <1>2 DEF Reading
  <2> QED BY <1>1, <2>1, OrderlyRing
<1>3. CASE win.keypad
  <2>1. pc = "key" /\ ~HighPriorityKey /\ ~RawKeyInFifo(q)
    BY <1>3 DEF Reading
  <2>2. Cooked(q) = Count(q)
    BY <1>1, <2>1, OrderlyRing
  <2>3. ASSUME node = <<>> PROVE Count(q) = 0
    <3>1. ResizeFirst(q)
      BY <2>1, <2>3 DEF QueueInv, CheckInv
    <3> QED BY <1>1, <2>1, <2>2, <3>1, OrderlyRing, Apart DEF ResizeFirst, HighPriorityKey
  <2> QED BY <2>2, <2>3
<1> QED BY <1>2, <1>3

(* While kgetch() matches, no key code is in the ring.                       *)
LEMMA MatchingRing ==
    ASSUME QueueInv, pc = "key", ~HighPriorityKey, RawKeyInFifo(q)
    PROVE  /\ Cooked(q) = 0 \/ OnlyBytes(q)
           /\ node = <<>> => Cooked(q) = 0
           /\ \A i \in 0 .. Count(q) - 1 : At(q, i) \in Bytes \cup {ERR}
           /\ PeekKey(q) \in Bytes \cup {ERR}
           /\ Len(node) = Cooked(q)
<1>1. Orderly(q) /\ Count(q) \in Nat /\ Cooked(q) \in 0 .. Count(q) - 1
  BY OrderlyRing DEF QueueInv
<1>2. PeekKey(q) \in Bytes \cup {ERR}
  BY <1>1, OrderlyRing DEF Orderly, Raw
<1>3. CASE node = <<>>
  <2>1. ResizeFirst(q)
    BY <1>3 DEF QueueInv, CheckInv
  <2>2. Cooked(q) = 0
    BY <1>1, <2>1, OrderlyRing, Apart DEF ResizeFirst, HighPriorityKey
  <2>3. \A i \in 0 .. Count(q) - 1 : At(q, i) \in Bytes \cup {ERR}
    BY <1>1, <2>2 DEF Orderly, Raw
  <2> QED BY <1>2, <1>3, <2>2, <2>3
<1>4. CASE node # <<>>
  BY <1>2, <1>4 DEF QueueInv, MatchInv, OnlyBytes, Holds
<1> QED BY <1>3, <1>4

(* A step to a label where kgetch() is not at work, nor about to be.         *)
LEMMA IdleQueue ==
    ASSUME node' = <<>>, Orderly(q)', TakenInv',
           pc' \notin {"start", "resized", "key", "esc"},
           pc' \in {"winch", "size"} => ret' \in {"app", "top", "pull", "done", "end", "stuff"}
    PROVE  QueueInv'
<1>1. MatchInv'
  BY NoEmptyKey DEF MatchInv
<1>2. CheckInv'
  BY DEF CheckInv, Checking
<1> QED BY <1>1, <1>2 DEF QueueInv

(* What the application calls keeps the queue in order, if there was room.   *)
LEMMA ApplicationQueue == TypeOK /\ QueueInv /\ Application /\ HasRoom(q)' => QueueInv'
<1> SUFFICES ASSUME TypeOK, QueueInv, Application, HasRoom(q)' PROVE QueueInv'
  OBVIOUS
<1> USE DEF winch, input
<1>1. pc = "app" /\ node = <<>> /\ node' = node /\ TakenInv /\ line' = line /\ result' = result
  BY DEF Application, Wgetch, Ungetch, Flushinp, Doupdate, QueueInv, MatchInv
<1>3. /\ pc' \notin {"start", "resized", "key", "esc"}
      /\ pc' # "done" /\ (pc' \in {"winch", "size"} => ret' = "app")
  BY DEF Application, Wgetch, Ungetch, Flushinp, Doupdate, Goto, CheckSize
<1>2. TakenInv'
  BY <1>1, <1>3 DEF TakenInv, Checking
<1>4. Orderly(q')
  <2>1. CASE \E w \in Windows : Wgetch(w)
    BY <2>1 DEF Wgetch, QueueInv
  <2>2. ASSUME NEW k \in Keys, Ungetch(k) PROVE Orderly(q')
    BY <2>2, OrderlyUnget, Apart DEF Ungetch, QueueInv
  <2>3. CASE Flushinp
    BY <2>3, EmptySound, OrderlyEmpty DEF Flushinp, TypeOK
  <2>4. CASE Doupdate
    BY <2>4 DEF Doupdate, QueueInv
  <2> QED BY <2>1, <2>2, <2>3, <2>4 DEF Application
<1> QED BY <1>1, <1>2, <1>3, <1>4, IdleQueue

(* When _nc_wgetch() looks for a KEY_RESIZE in place of the ERR it has, the  *)
(* ring holds the two at most.                                               *)
LEMMA ResizedRing ==
    ASSUME QueueInv, Resized
    PROVE  /\ CookedKeyInFifo(q) => /\ result' = KEY_RESIZE /\ Settle(KEY_RESIZE)
                                    /\ HeadKey(q) = KEY_RESIZE
                                    /\ Orderly(q') /\ Count(q') = 0
                                    /\ Count(q) > 0 /\ At(q, 0) = KEY_RESIZE
                                    /\ \A i \in 1 .. Count(q) - 1 : At(q, i) = ERR
           /\ ~CookedKeyInFifo(q) => UNCHANGED input /\ result = ERR
<1> DEFINE pulled == fifo_pull(q)
           peeked == fifo_peek(pulled)
<1>1. pc = "resized" /\ ResizeFirst(q) /\ FailedRead(q) /\ result = ERR /\ Orderly(q)
  BY DEF Resized, QueueInv, CheckInv
<1>2. ASSUME ~CookedKeyInFifo(q) PROVE UNCHANGED input
  BY <1>2 DEF Resized
<1>3. SUFFICES ASSUME CookedKeyInFifo(q)
               PROVE  /\ result' = KEY_RESIZE /\ Settle(KEY_RESIZE)
                      /\ HeadKey(q) = KEY_RESIZE
                      /\ Orderly(q') /\ Count(q') = 0
                      /\ Count(q) > 0 /\ At(q, 0) = KEY_RESIZE
                      /\ \A i \in 1 .. Count(q) - 1 : At(q, i) = ERR
  BY <1>1, <1>2
<1>4. /\ Count(q) \in Nat /\ Count(q) > 0 /\ Cooked(q) = 1
      /\ At(q, 0) = KEY_RESIZE /\ HeadKey(q) = KEY_RESIZE
  BY <1>1, <1>3, OrderlyRing DEF ResizeFirst
<1>5. \A i \in 1 .. Count(q) - 1 : At(q, i) = ERR
  BY <1>1, <1>4 DEF FailedRead
<1>6. /\ result' = KEY_RESIZE /\ Settle(KEY_RESIZE)
      /\ q' = IF PeekKey(pulled) = ERR THEN fifo_pull(peeked) ELSE peeked
  BY <1>3, <1>4 DEF Resized, Take
<1>7. /\ Orderly(pulled) /\ Count(pulled) = Count(q) - 1 /\ Cooked(pulled) = 0
      /\ \A i \in 0 .. Count(q) - 2 : At(pulled, i) = ERR
  BY <1>1, <1>4, <1>5, OrderlyPull
<1> HIDE DEF pulled
<1>8. Count(pulled) = 0 \/ (Count(pulled) = 1 /\ At(pulled, 0) = ERR)
  BY <1>4, <1>7 DEF Orderly, Lone
<1>9. /\ Sound(Entries, peeked) /\ Count(peeked) = Count(pulled)
      /\ Count(pulled) = 1 => PeekKey(pulled) = ERR
  BY <1>7, <1>8, PeekSound, OrderlyRing
<1> HIDE DEF peeked
<1>10. Sound(Entries, q') /\ Count(q') = 0
  BY <1>6, <1>8, <1>9, PullSound
<1> QED BY <1>4, <1>5, <1>6, <1>10, OrderlyEmpty

(* The size check puts its key before the others.                            *)
LEMMA CheckSizeQueue ==
    TypeOK /\ QueueInv /\ (HandleSigwinch \/ UpdateScreensize \/ Resized) /\ HasRoom(q)' => QueueInv'
<1> USE DEF winch, input
<1>1. ASSUME QueueInv, HandleSigwinch PROVE QueueInv'
  <2>1. /\ node = <<>> /\ node' = <<>> /\ q' = q /\ line' = line /\ result' = result
        /\ ret' = ret /\ ret \in {"app", "top", "pull", "start", "done", "end", "stuff", "resized"}
        /\ pc' = "size" \/ (pc' = "done" /\ ret = "resized") \/ (pc' = ret /\ ret # "resized")
    BY <1>1 DEF HandleSigwinch, Goto, QueueInv, MatchInv, CheckInv
  <2>2. MatchInv'
    BY <2>1, NoEmptyKey DEF MatchInv
  <2>3. CheckInv'
    BY <1>1, <2>1 DEF HandleSigwinch, QueueInv, CheckInv, Checking, ResizeFirst
  <2>4. TakenInv'
    BY <1>1, <2>1 DEF HandleSigwinch, QueueInv, CheckInv, TakenInv, Checking
  <2> QED BY <1>1, <2>1, <2>2, <2>3, <2>4 DEF QueueInv
<1>2. ASSUME QueueInv, UpdateScreensize, HasRoom(q)' PROVE QueueInv'
  <2>1. /\ node = <<>> /\ node' = <<>> /\ q' = safe_ungetch(q, KEY_RESIZE)
        /\ line' = line /\ result' = result /\ pc' = ret
        /\ ret \in {"app", "top", "pull", "start", "done", "end", "stuff", "resized"}
    BY <1>2 DEF UpdateScreensize, Goto, QueueInv, MatchInv, CheckInv
  <2>2. Orderly(q) /\ Orderly(q') /\ Count(q) \in Nat /\ Cooked(q) \in Nat
    BY <1>2, <2>1, OrderlyUnget, OrderlyRing, Apart DEF QueueInv
  <2>3. /\ Count(q') = Count(q) + 1 /\ Cooked(q') = Cooked(q) + 1 /\ At(q', 0) = KEY_RESIZE
        /\ \A i \in 0 .. Count(q) - 1 : At(q', i + 1) = At(q, i)
    BY <1>2, <2>1, <2>2, UngetSound, Apart DEF Orderly
  <2>4. MatchInv'
    BY <2>1, NoEmptyKey DEF MatchInv
  <2>5. ret \in {"start", "resized"} => Cooked(q) = 0
    BY <1>2 DEF UpdateScreensize, QueueInv, CheckInv, Checking
  <2>6. ret = "resized" => FailedRead(q')
    <3>1. SUFFICES ASSUME ret = "resized", NEW i \in 0 .. Count(q') - 1, i >= Cooked(q')
                   PROVE  At(q', i) = ERR
      BY DEF FailedRead
    <3>2. FailedRead(q) /\ i - 1 \in 0 .. Count(q) - 1 /\ i - 1 >= Cooked(q)
      BY <1>2, <2>2, <2>3, <3>1 DEF UpdateScreensize, QueueInv, CheckInv, Checking
    <3>3. At(q', (i - 1) + 1) = ERR
      BY <2>3, <3>2 DEF FailedRead
    <3> QED BY <3>3
  <2>7. ret = "resized" => result = ERR
    BY <1>2 DEF UpdateScreensize, QueueInv, CheckInv, Checking
  <2>8. CheckInv'
    BY <2>1, <2>3, <2>5, <2>6, <2>7 DEF CheckInv, Checking, ResizeFirst
  <2>9. TakenInv'
    BY <1>2, <2>1 DEF UpdateScreensize, QueueInv, TakenInv, Checking
  <2> QED BY <2>2, <2>4, <2>8, <2>9 DEF QueueInv
<1>3. ASSUME QueueInv, Resized PROVE QueueInv'
  <2>1. Orderly(q') /\ result' \in Known \cup KeyCodes \cup {ERR}
    <3>1. pc = "resized" /\ result = ERR
      BY <1>3 DEF Resized, QueueInv, CheckInv
    <3> QED BY <1>3, <3>1, ResizedRing, Apart DEF QueueInv
  <2>2. node' = <<>> /\ pc' = "done" /\ TakenInv'
    BY <1>3, <2>1 DEF Resized, Goto, QueueInv, MatchInv, TakenInv, Checking
  <2> QED BY <2>1, <2>2, IdleQueue
<1> QED BY <1>1, <1>2, <1>3

(* The head of a call looks at the ring and takes a cooked key, if any.      *)
LEMMA TopQueue ==
    QueueInv /\ (TopCooked \/ PullCooked \/ TopLine \/ TopRaw \/ StartRead \/ Return) => QueueInv'
<1> USE DEF winch, input
<1>1. ASSUME QueueInv, TopCooked PROVE QueueInv'
  BY <1>1, IdleQueue DEF TopCooked, MayRefresh, Goto, CheckSize, QueueInv, MatchInv, TakenInv, Checking
<1>2. ASSUME QueueInv, PullCooked PROVE QueueInv'
  <2>1. Orderly(q') /\ result' \in Known \cup KeyCodes \cup {ERR}
    BY <1>2, OrderlyPull, OrderlyRing DEF PullCooked, Take, QueueInv
  <2>2. node' = <<>> /\ pc' = "done" /\ TakenInv'
    BY <1>2, <2>1 DEF PullCooked, Goto, QueueInv, MatchInv, TakenInv, Checking
  <2> QED BY <2>1, <2>2, IdleQueue
<1>3. ASSUME QueueInv, TopLine PROVE QueueInv'
  <2>1. TakenInv'
    BY <1>3 DEF TopLine, MayRefresh, Goto, CheckSize, TakenInv, Checking
  <2> QED BY <1>3, <2>1, IdleQueue DEF TopLine, MayRefresh, Goto, CheckSize, QueueInv, MatchInv
<1>4. ASSUME QueueInv, TopRaw PROVE QueueInv'
  <2>1. Orderly(q) /\ Cooked(q) = 0
    BY <1>4, OrderlyRing DEF TopRaw, QueueInv
  <2>2. /\ node = <<>> /\ node' = <<>> /\ q' = q /\ line' = line /\ result' = result
        /\ pc' = "start" \/ (pc' = "winch" /\ ret' = "start")
    BY <1>4 DEF TopRaw, MayRefresh, Goto, CheckSize, QueueInv, MatchInv
  <2>3. MatchInv' /\ CheckInv'
    BY <2>1, <2>2, NoEmptyKey DEF MatchInv, CheckInv, Checking, ResizeFirst
  <2> QED BY <1>4, <2>1, <2>2, <2>3 DEF QueueInv, TakenInv, Checking
<1>5. ASSUME QueueInv, StartRead PROVE QueueInv'
  <2>1. node = <<>> /\ node' = <<>> /\ q' = q /\ line' = line /\ result' = result /\ pc' = "key"
        /\ ResizeFirst(q)
    BY <1>5 DEF StartRead, Goto, QueueInv, MatchInv, CheckInv
  <2>2. MatchInv' /\ CheckInv'
    BY <2>1, NoEmptyKey DEF MatchInv, CheckInv, Checking, ResizeFirst
  <2> QED BY <1>5, <2>1, <2>2 DEF QueueInv, TakenInv, Checking
<1>6. ASSUME QueueInv, Return PROVE QueueInv'
  BY <1>6, IdleQueue DEF Return, Goto, QueueInv, MatchInv, TakenInv, Checking
<1> QED BY <1>1, <1>2, <1>3, <1>4, <1>5, <1>6

(* A byte that is read goes behind keys that are all being matched.          *)
LEMMA ReadByteQueue == TypeOK /\ QueueInv /\ ReadByte /\ HasRoom(q)' => QueueInv'
<1> SUFFICES ASSUME TypeOK, QueueInv, ReadByte, HasRoom(q)' PROVE QueueInv'
  OBVIOUS
<1> DEFINE b == Head(tty)
           pushed == fifo_push(q, b)
<1>1. b \in Bytes /\ Orderly(q) /\ pc = "key" /\ Reading
  BY DEF TypeOK, ReadByte, Reading, QueueInv
<1>2. /\ Cooked(q) = Count(q) /\ (node = <<>> => Count(q) = 0) /\ Count(q) \in Nat
  BY <1>1, ReadingRing, OrderlyRing
<1>3. /\ Count(pushed) = Count(q) + 1 /\ At(pushed, Count(q)) = b
      /\ \A i \in 0 .. Count(q) - 1 : At(pushed, i) = At(q, i)
      /\ HasRoom(pushed) => Sound(Entries, pushed) /\ Cooked(pushed) = Cooked(q) /\ Orderly(pushed)
  BY <1>1, <1>2, PushSound, OrderlyPush, Apart DEF Orderly
<1>4. CASE win.keypad
  <2>1. q' = pushed /\ UNCHANGED <<pc, ret, result, node, win, line>>
    BY <1>4 DEF ReadByte
  <2>2. Orderly(q')
    BY <1>3, <2>1
  <2>3. node # <<>> => Holds(q', node) /\ OnlyBytes(q') /\ Cooked(q') # Count(q')
    <3>1. SUFFICES ASSUME node # <<>> PROVE Holds(q', node) /\ OnlyBytes(q') /\ Cooked(q') # Count(q')
      OBVIOUS
    <3>2. Holds(q, node) /\ OnlyBytes(q) /\ node \in Seq(Bytes)
      BY <3>1 DEF QueueInv, MatchInv
    <3>3. Holds(q', node)
      BY <1>2, <1>3, <2>1, <3>2 DEF Holds
    <3>4. OnlyBytes(q')
      BY <1>1, <1>2, <1>3, <2>1, <3>2 DEF OnlyBytes
    <3> QED BY <1>2, <1>3, <2>1, <3>3, <3>4
  <2>4. MatchInv'
    BY <1>1, <2>1, <2>3 DEF QueueInv, MatchInv
  <2>5. CheckInv'
    BY <1>1, <1>2, <1>3, <2>1 DEF CheckInv, Checking, ResizeFirst
  <2> QED BY <2>1, <2>2, <2>4, <2>5 DEF QueueInv, TakenInv, Checking
<1>5. CASE ~win.keypad
  <2>1. Deliver(HeadKey(pushed), fifo_pull(pushed)) /\ line' = line
    BY <1>5 DEF ReadByte
  <2>2. Count(q) = 0
    BY <1>1, <1>2, <1>5 DEF QueueInv, MatchInv
  <2>3. HasRoom(pushed)
    <3>1. pushed \in FifoType(Entries) /\ RingOK(pushed)
      BY <1>1, PushType, Apart DEF Orderly, Sound
    <3>2. Count(pushed) # FIFO_SIZE
      BY <1>3, <2>2, SizeAssumption
    <3> QED BY <3>1, <3>2, CountBounds
  <2>4. HeadKey(pushed) \in Known \cup {ERR} /\ HeadKey(pushed) = b /\ Orderly(fifo_pull(pushed))
    BY <1>2, <1>3, <2>2, <2>3, OrderlyRing, OrderlyPull
  <2> QED BY <1>1, <2>1, <2>4, GiveQueue, Apart DEF Deliver
<1> QED BY <1>4, <1>5

(* One turn of kgetch()'s loop: no key of the ring matches, a key has been   *)
(* matched, or the bytes are still the beginning of one.                     *)
LEMMA MatchSteps ==
    ASSUME QueueInv, Match
    PROVE  LET ch == PeekKey(q)
               seen == Append(node, ch)
               unmatched == Uninterpreted(fifo_pull(fifo_peek(q)))
               matched == IF fifo_peek(q).peek = q.tail THEN fifo_clear(q)
                          ELSE [fifo_peek(q) EXCEPT !.head = fifo_peek(q).peek]
           IN  /\ pc = "key" /\ win.keypad /\ RawKeyInFifo(q) /\ ~HighPriorityKey
               /\ ch \in Bytes \cup {ERR}
               /\ UNCHANGED <<tty, win, line, called, winch>>
               /\ \/ ~IsPrefixOfKey(seen) /\ Deliver(HeadKey(q), unmatched)
                  \/ /\ seen \in DOMAIN KeyTry /\ ch \in Bytes
                     /\ Deliver(KeyTry[seen], matched)
                  \/ /\ IsPrefixOfKey(seen) /\ seen \notin DOMAIN KeyTry /\ ch \in Bytes
                     /\ q' = fifo_peek(q) /\ node' = seen
                     /\ Goto(IF RawKeyInFifo(q') THEN "key" ELSE "esc")
                     /\ UNCHANGED <<result, owed>>
<1>1. pc = "key" /\ win.keypad /\ RawKeyInFifo(q) /\ ~HighPriorityKey
  BY DEF Match
<1>2. PeekKey(q) \in Bytes \cup {ERR} /\ node \in Seq(Bytes)
  BY <1>1, MatchingRing DEF QueueInv, MatchInv
<1>3. PeekKey(q) \notin KeyCodes
  BY <1>2, Apart
<1>4. ASSUME Append(node, PeekKey(q)) \in DOMAIN KeyTry PROVE IsPrefixOfKey(Append(node, PeekKey(q)))
  <2>1. Append(node, PeekKey(q)) \in Seq(Bytes)
    BY <1>4, Apart
  <2>2. IsPrefix(Append(node, PeekKey(q)), Append(node, PeekKey(q)))
    <3>1. Len(Append(node, PeekKey(q))) \in Nat
      BY <2>1, LenProperties
    <3> QED BY <3>1 DEF IsPrefix
  <2> QED BY <1>4, <2>2 DEF IsPrefixOfKey
<1>5. IsPrefixOfKey(Append(node, PeekKey(q))) => PeekKey(q) \in Bytes
  BY <1>2, Beginning, Apart
<1> QED BY <1>1, <1>2, <1>3, <1>4, <1>5 DEF Match

(* So does a byte of a key sequence, however the match goes on.              *)
LEMMA MatchQueue == QueueInv /\ Match => QueueInv'
<1> SUFFICES ASSUME QueueInv, Match PROVE QueueInv'
  OBVIOUS
<1> DEFINE ch == PeekKey(q)
           seen == Append(node, ch)
           unmatched == Uninterpreted(fifo_pull(fifo_peek(q)))
           matched == IF fifo_peek(q).peek = q.tail THEN fifo_clear(q)
                      ELSE [fifo_peek(q) EXCEPT !.head = fifo_peek(q).peek]
<1>1. /\ pc = "key" /\ win.keypad /\ RawKeyInFifo(q) /\ ~HighPriorityKey
      /\ line' = line /\ win' = win
      /\ \/ ~IsPrefixOfKey(seen) /\ Deliver(HeadKey(q), unmatched)
         \/ seen \in DOMAIN KeyTry /\ Deliver(KeyTry[seen], matched)
         \/ /\ IsPrefixOfKey(seen) /\ seen \notin DOMAIN KeyTry /\ ch \in Bytes
            /\ q' = fifo_peek(q) /\ node' = seen
            /\ Goto(IF RawKeyInFifo(q') THEN "key" ELSE "esc")
            /\ UNCHANGED <<result, owed>>
  BY MatchSteps
<1>2. /\ Orderly(q) /\ Count(q) \in Nat /\ Cooked(q) \in 0 .. Count(q) - 1
      /\ Cooked(q) = 0 \/ OnlyBytes(q)
      /\ Len(node) = Cooked(q) /\ node \in Seq(Bytes) /\ NoKeyIn(node)
      /\ node = <<>> => Cooked(q) = 0
      /\ node # <<>> => Holds(q, node) /\ OnlyBytes(q)
  BY <1>1, MatchingRing, OrderlyRing DEF QueueInv, MatchInv
<1>3. CASE Deliver(HeadKey(q), unmatched)
  <2>1. Orderly(unmatched) /\ Count(unmatched) = Count(q) - 1 /\ Cooked(unmatched) = 0
    BY <1>1, <1>2, OrderlyUnmatched
  <2>2. HeadKey(q) \in Known \cup {ERR} /\ (HeadKey(q) = ERR => Count(q) = 1)
    BY <1>2, OrderlyRing
  <2> HIDE DEF unmatched
  <2>3. HeadKey(q) = ERR => FailedRead(unmatched)
    BY <2>1, <2>2 DEF FailedRead
  <2> QED BY <1>1, <1>3, <2>1, <2>2, <2>3, GiveQueue DEF Deliver
<1>4. CASE seen \in DOMAIN KeyTry /\ Deliver(KeyTry[seen], matched)
  <2>1. Orderly(matched)
    BY <1>1, <1>2, OrderlyMatched
  <2> HIDE DEF matched
  <2>2. KeyTry[seen] \in KeyCodes /\ KeyTry[seen] # ERR
    BY <1>4, Apart
  <2> QED BY <1>1, <1>4, <2>1, <2>2, GiveQueue DEF Deliver
<1>5. CASE /\ IsPrefixOfKey(seen) /\ seen \notin DOMAIN KeyTry /\ ch \in Bytes
           /\ q' = fifo_peek(q) /\ node' = seen
           /\ Goto(IF RawKeyInFifo(q') THEN "key" ELSE "esc")
           /\ UNCHANGED <<result, owed>>
  <2>1. /\ Orderly(q') /\ Count(q') = Count(q) /\ Cooked(q') = Cooked(q) + 1
        /\ \A i \in 0 .. Count(q) - 1 : At(q', i) = At(q, i)
    BY <1>1, <1>2, <1>5, OrderlyPeek
  <2>2. ch = At(q, Cooked(q))
    BY <1>2, OrderlyRing
  <2>3. /\ seen \in Seq(Bytes) /\ seen # <<>> /\ Len(seen) = Len(node) + 1
        /\ \A i \in 1 .. Len(node) : seen[i] = node[i]
        /\ seen[Len(node) + 1] = ch
    BY <1>2, <1>5, AppendProperties
  <2>4. NoKeyIn(seen)
    BY <1>2, <1>5, Longer
  <2> HIDE DEF seen, ch
  <2>5. Holds(q', node')
    <3>1. Len(node') = Cooked(q')
      BY <1>2, <1>5, <2>1, <2>3
    <3>2. ASSUME NEW i \in 1 .. Len(node') PROVE At(q', i - 1) = node'[i]
      <4>1. i - 1 \in 0 .. Count(q) - 1 /\ At(q', i - 1) = At(q, i - 1)
        BY <1>2, <1>5, <2>1, <2>3
      <4>2. CASE i = Len(node) + 1
        BY <1>2, <1>5, <2>2, <2>3, <4>1, <4>2
      <4>3. CASE i # Len(node) + 1
        <5>1. i \in 1 .. Len(node) /\ node # <<>>
          BY <1>2, <1>5, <2>3, <4>3
        <5>2. At(q, i - 1) = node[i]
          BY <1>2, <5>1 DEF Holds
        <5> QED BY <1>5, <2>3, <4>1, <5>1, <5>2
      <4> QED BY <4>2, <4>3
    <3> QED BY <3>1, <3>2 DEF Holds
  <2>6. OnlyBytes(q')
    <3>1. CASE node # <<>>
      BY <1>2, <2>1, <3>1 DEF OnlyBytes
    <3>2. CASE node = <<>>
      <4>1. \A i \in 0 .. Count(q) - 1 : At(q, i) \in Bytes \cup {ERR}
        BY <1>2, <3>2 DEF Orderly, Raw
      <4>2. \A i \in 0 .. Count(q) - 1 : At(q, i) # ERR
        BY <1>2, <1>5, <2>2, <3>2, Apart DEF Orderly, Lone
      <4> QED BY <2>1, <4>1, <4>2 DEF OnlyBytes
    <3> QED BY <3>1, <3>2
  <2>7. /\ pc' = "key" \/ pc' = "esc"
        /\ pc' = "esc" <=> Cooked(q') = Count(q')
    BY <1>5, <2>1, OrderlyRing DEF Goto
  <2>8. MatchInv'
    BY <1>1, <1>5, <2>3, <2>4, <2>5, <2>6, <2>7 DEF MatchInv
  <2>9. CheckInv'
    BY <1>5, <2>3, <2>7 DEF CheckInv, Checking
  <2>10. TakenInv'
    BY <1>1, <2>7 DEF QueueInv, TakenInv, Checking
  <2> QED BY <2>1, <2>8, <2>9, <2>10 DEF QueueInv
<1> QED BY <1>1, <1>3, <1>4, <1>5

(* The other ways to get a key from the ring.                                *)
LEMMA ReadQueue ==
    TypeOK /\ QueueInv /\ (PullRaw \/ KeyWithPriority \/ RestReady) => QueueInv'
<1>1. ASSUME QueueInv, PullRaw PROVE QueueInv'
  <2>1. Orderly(q) /\ HeadKey(q) \in Known \cup {ERR}
    BY <1>1, OrderlyRing DEF QueueInv
  <2>2. Orderly(fifo_pull(q)) /\ (HeadKey(q) = ERR => Count(fifo_pull(q)) = 0)
    BY <2>1, OrderlyPull, AfterErr
  <2>3. HeadKey(q) = ERR => Cooked(fifo_pull(q)) = 0 /\ FailedRead(fifo_pull(q))
    BY <2>2, OrderlyRing DEF FailedRead
  <2> QED BY <1>1, <2>1, <2>2, <2>3, GiveQueue DEF PullRaw, Deliver
<1>2. ASSUME QueueInv, KeyWithPriority PROVE QueueInv'
  <2>1. /\ Orderly(q) /\ HeadKey(q) \in Known \cup KeyCodes \cup {ERR} /\ HeadKey(q) # ERR
        /\ Count(q) > 0
    BY <1>2, OrderlyRing, Apart DEF QueueInv, KeyWithPriority, HighPriorityKey
  <2>2. Cooked(q) <= 1 \/ OnlyBytes(q)
    BY <1>2 DEF KeyWithPriority, QueueInv, MatchInv, CheckInv, ResizeFirst
  <2>3. Orderly(Uninterpreted(fifo_pull(q)))
    BY <2>1, <2>2, OrderlyRest
  <2> QED BY <1>2, <2>1, <2>3, GiveQueue DEF KeyWithPriority, Deliver
<1>3. ASSUME QueueInv, RestReady PROVE QueueInv'
  <2>1. /\ q' = q /\ node' = node /\ line' = line /\ result' = result /\ tty' = tty /\ win' = win
        /\ pc = "esc" /\ pc' = "key" /\ tty # <<>> /\ node # <<>>
    BY <1>3 DEF RestReady, Goto, input, QueueInv, MatchInv
  <2>2. MatchInv' /\ CheckInv'
    BY <1>3, <2>1 DEF QueueInv, MatchInv, CheckInv, Checking
  <2> QED BY <1>3, <2>1, <2>2 DEF QueueInv, TakenInv, Checking
<1> QED BY <1>1, <1>2, <1>3

(* A wait or a read that fails.                                              *)
LEMMA FailureQueue ==
    ASSUME QueueInv, WaitFails \/ RestFails \/ (ReadFails /\ tty = <<>>)
    PROVE  QueueInv'
<1>1. CASE WaitFails
  <2>1. /\ Orderly(q) /\ Count(q) = 0 /\ Cooked(q) = 0 /\ node = <<>>
        /\ q' = q /\ node' = node /\ line' = line /\ result' = ERR
        /\ pc' = "winch" /\ ret' = "resized"
    BY <1>1, OrderlyRing DEF WaitFails, Waiting, CheckSize, QueueInv, MatchInv
  <2>2. MatchInv' /\ CheckInv'
    BY <2>1, NoEmptyKey DEF MatchInv, CheckInv, Checking, FailedRead
  <2> QED BY <2>1, <2>2 DEF QueueInv, TakenInv, Checking
<1>2. CASE RestFails
  <2>1. Orderly(q) /\ OnlyBytes(q) /\ Count(q) > 0
    <3>1. node # <<>> /\ Cooked(q) = Len(node) /\ node \in Seq(Bytes) /\ Cooked(q) = Count(q)
      BY <1>2 DEF RestFails, QueueInv, MatchInv, Holds
    <3>2. Len(node) \in Nat \ {0}
      BY <3>1, NotEmpty
    <3> QED BY <1>2, <3>1, <3>2 DEF RestFails, QueueInv, MatchInv
  <2>2. Orderly(Uninterpreted(fifo_pull(q)))
    BY <2>1, OrderlyRest
  <2>3. HeadKey(q) \in Bytes /\ HeadKey(q) # ERR
    BY <2>1, OrderlyRing, Apart DEF OnlyBytes
  <2> QED BY <1>2, <2>2, <2>3, GiveQueue, Apart DEF RestFails
<1>3. CASE ReadFails /\ tty = <<>>
  <2> DEFINE pushed == fifo_push(q, ERR)
  <2>1. Orderly(q) /\ Cooked(q) = Count(q) /\ (node = <<>> => Count(q) = 0)
    BY <1>3, ReadingRing DEF ReadFails, QueueInv
  <2>2. Count(q) = 0
    BY <1>3, <2>1 DEF ReadFails, Reading, QueueInv, MatchInv
  <2>3. pushed \in FifoType(Entries) /\ RingOK(pushed) /\ Count(pushed) = 1 /\ At(pushed, 0) = ERR
    BY <2>1, <2>2, PushType, PushSound, Apart DEF Orderly, Sound
  <2>4. HasRoom(pushed)
    BY <2>3, CountBounds, SizeAssumption
  <2>5. Orderly(pushed) /\ Cooked(pushed) = 0
    BY <2>1, <2>2, <2>4, OrderlyPush, PushSound, Apart DEF Orderly
  <2> HIDE DEF pushed
  <2>6. /\ Sound(Entries, Uninterpreted(pushed)) /\ Count(Uninterpreted(pushed)) = 1
        /\ Cooked(Uninterpreted(pushed)) = 0 /\ At(Uninterpreted(pushed), 0) = ERR
    <3>1. /\ Sound(Entries, Uninterpreted(pushed)) /\ Count(Uninterpreted(pushed)) = Count(pushed)
          /\ Cooked(Uninterpreted(pushed)) = 0
          /\ \A i \in 0 .. Count(pushed) - 1 : At(Uninterpreted(pushed), i) = At(pushed, i)
      BY <2>5, UninterpretedSound DEF Orderly
    <3>2. 0 \in 0 .. Count(pushed) - 1
      BY <2>3
    <3> QED BY <2>3, <3>1, <3>2
  <2>7. /\ Orderly(Uninterpreted(pushed)) /\ FailedRead(Uninterpreted(pushed))
    BY <2>6 DEF Orderly, FailedRead, Raw, Lone
  <2>8. Orderly(fifo_pull(pushed)) /\ Count(fifo_pull(pushed)) = 0 /\ Cooked(fifo_pull(pushed)) = 0
    BY <2>3, <2>5, OrderlyPull
  <2>9. FailedRead(fifo_pull(pushed))
    BY <2>8 DEF FailedRead
  <2> QED BY <1>3, <2>6, <2>7, <2>8, <2>9, GiveQueue DEF ReadFails, pushed
<1> QED BY <1>1, <1>2, <1>3

(* Cooked mode: what is put back was taken, and the ERR never is.            *)
LEMMA LineQueue ==
    TypeOK /\ QueueInv /\ (LineEdit \/ LineEcho \/ LineEnd \/ StuffKey \/ StuffPull) /\ HasRoom(q)'
      => QueueInv'
<1> DEFINE Chars == Bytes \cup Keys \cup {NL}
<1> USE DEF winch, input
<1>0. ASSUME NEW l \in Seq(Chars), l # <<>>
      PROVE  Last(l) \in Chars /\ Front(l) \in Seq(Chars) /\ SubSeq(l, 1, Len(l) - 1) \in Seq(Chars)
  <2>1. Len(l) \in Nat \ {0} /\ \A i \in 1 .. Len(l) : l[i] \in Chars
    BY <1>0
  <2>2. Last(l) \in Chars
    BY <2>1 DEF Last
  <2>3. SubSeq(l, 1, Len(l) - 1) \in Seq(Chars)
    BY <2>1, SubSeqProperties
  <2> QED BY <2>2, <2>3 DEF Front
<1> HIDE DEF Chars
<1>1. ASSUME QueueInv, LineEdit PROVE QueueInv'
  <2>1. line \in Seq(Chars) /\ (Types /\ ~LineEnds => result \in Chars)
    BY <1>1 DEF LineEdit, EditLine, QueueInv, TakenInv, Types, LineEnds, Known, Chars
  <2>2. line' \in Seq(Chars)
    <3>1. <<>> \in Seq(Chars) /\ \A ch \in Chars : Append(line, ch) \in Seq(Chars)
      BY <2>1
    <3>2. CASE line' \in {line, <<>>}
      BY <2>1, <3>1, <3>2
    <3>3. CASE line # <<>> /\ line' = Front(line)
      BY <1>0, <2>1, <3>3
    <3>4. CASE Types /\ ~LineEnds /\ line' = Append(line, result)
      BY <2>1, <3>1, <3>4
    <3> QED BY <1>1, <3>2, <3>3, <3>4 DEF LineEdit, EditLine
  <2>4. /\ node = <<>> /\ node' = node /\ q' = q
        /\ pc' = "top" \/ (pc' = "winch" /\ ret' = "top")
    BY <1>1 DEF LineEdit, EditLine, Goto, CheckSize, QueueInv, MatchInv
  <2>3. TakenInv'
    BY <2>2, <2>4 DEF TakenInv, Checking, Chars
  <2> QED BY <1>1, <2>3, <2>4, IdleQueue DEF QueueInv
<1>5. ASSUME QueueInv, LineEcho PROVE QueueInv'
  <2>1. TakenInv'
    BY <1>5 DEF LineEcho, CheckSize, QueueInv, TakenInv, Checking
  <2> QED BY <1>5, <2>1, IdleQueue DEF LineEcho, CheckSize, QueueInv, MatchInv
<1>2. ASSUME QueueInv, LineEnd PROVE QueueInv'
  <2>1. line' \in Seq(Chars)
    <3>1. line \in Seq(Chars) /\ NL \in Chars
      BY <1>2 DEF QueueInv, TakenInv, Checking, Chars
    <3> QED BY <1>2, <3>1 DEF LineEnd
  <2>2. TakenInv'
    BY <1>2, <2>1 DEF LineEnd, CheckSize, TakenInv, Checking, Chars
  <2> QED BY <1>2, <2>2, IdleQueue DEF LineEnd, CheckSize, QueueInv, MatchInv
<1>3. ASSUME QueueInv, StuffKey, HasRoom(q)' PROVE QueueInv'
  <2>1. line \in Seq(Chars) /\ line # <<>> /\ line' = SubSeq(line, 1, Len(line) - 1)
        /\ q' = safe_ungetch(q, Last(line))
    BY <1>3 DEF StuffKey, QueueInv, TakenInv, Checking, Chars
  <2>2. Last(line) \in Known /\ line' \in Seq(Chars)
    BY <1>0, <2>1 DEF Known, Chars
  <2>3. Orderly(q')
    BY <1>3, <2>1, <2>2, OrderlyUnget DEF QueueInv
  <2>4. TakenInv'
    BY <1>3, <2>2 DEF StuffKey, QueueInv, TakenInv, Checking, Chars
  <2> QED BY <1>3, <2>3, <2>4, IdleQueue DEF StuffKey, QueueInv, MatchInv
<1>4. ASSUME QueueInv, StuffPull PROVE QueueInv'
  <2>1. Orderly(q') /\ result' \in Known \cup KeyCodes \cup {ERR}
    BY <1>4, OrderlyPull, OrderlyRing DEF StuffPull, Take, QueueInv
  <2>2. node' = <<>> /\ pc' = "done" /\ TakenInv'
    BY <1>4, <2>1 DEF StuffPull, Goto, QueueInv, MatchInv, TakenInv, Checking
  <2> QED BY <2>1, <2>2, IdleQueue
<1> QED BY <1>1, <1>2, <1>3, <1>4, <1>5

(* Arriving bytes, signals and timeouts keep it.                             *)
LEMMA EnvironmentQueue == TypeOK /\ QueueInv /\ Environment => QueueInv'
<1>1. ASSUME TypeOK, QueueInv, NEW b \in Bytes, Keyboard(b) PROVE QueueInv'
  <2>1. tty' # <<>>
    BY <1>1 DEF Keyboard, TypeOK
  <2> QED BY <1>1, <2>1
          DEF Keyboard, input, QueueInv, MatchInv, CheckInv, TakenInv, Checking
<1>2. ASSUME QueueInv, NEW s \in Sizes, Sigwinch(s) PROVE QueueInv'
  BY <1>2 DEF Sigwinch, Handler, QueueInv, MatchInv, CheckInv, TakenInv, Checking
<1>3. ASSUME QueueInv, NEW s \in Sizes, SigwinchInterrupts(s) PROVE QueueInv'
  BY <1>3, FailureQueue DEF SigwinchInterrupts, Interrupted
<1>4. ASSUME QueueInv, SignalInterrupts PROVE QueueInv'
  BY <1>4, FailureQueue DEF SignalInterrupts, Interrupted
<1>5. ASSUME QueueInv, Timeout PROVE QueueInv'
  BY <1>5, FailureQueue DEF Timeout
<1> QED BY <1>1, <1>2, <1>3, <1>4, <1>5 DEF Environment

(* Every step that leaves room in the ring keeps the queue in order.         *)
LEMMA QueueStep == TypeOK /\ QueueInv /\ Next /\ HasRoom(q)' => QueueInv'
BY ApplicationQueue, CheckSizeQueue, TopQueue, ReadByteQueue, MatchQueue, ReadQueue, LineQueue,
   EnvironmentQueue DEF Next, Library
-----------------------------------------------------------------------------
(* There is room in the ring.                                                *)

(* The application leaves two slots free when it puts a key back, and a key  *)
(* sequence leaves two as well: the slots for the KEY_RESIZEs of a size      *)
(* check before and one after a key is taken.                                *)
Calls ==
    /\ Backlog + 1 < FIFO_SIZE
    /\ \A s \in DOMAIN KeyTry : Len(s) + 1 < FIFO_SIZE

(* What may lie behind a line when it goes back: the first of those two, or  *)
(* the bytes of a key, if the line is read in keypad mode.                   *)
Leaves(n) ==
    /\ n \in Int /\ n + MAXLINE + 2 <= FIFO_SIZE
    /\ \A w \in Windows : w.line =>
          n >= 1 /\ (w.keypad => \A s \in DOMAIN KeyTry : Len(s) <= n)

(* How full the ring is at each point of a call.                             *)
CallRoom ==
    /\ Count(q) <= FIFO_SIZE - 1
    /\ pc \in {"app", "top", "done", "esc", "winch", "size"} => Count(q) <= FIFO_SIZE - 2
    /\ pc \in {"start", "key"} /\ (Cooked(q) = 0 \/ node # <<>>) => Count(q) <= FIFO_SIZE - 2
    /\ Checking("app") \/ Checking("top") \/ Checking("done") => Count(q) <= FIFO_SIZE - 3

(* And while wgetnstr() reads a line, which goes back into the ring.         *)
LineRoom(n) ==
    /\ called => win.line /\ Len(line) <= MAXLINE
    /\ called => pc \notin {"app", "stuff"} /\ ~Checking("app") /\ ~Checking("stuff") /\ ~Checking("done")
    /\ called /\ pc = "top" => ResizeFirst(q) /\ Count(q) - Cooked(q) <= n - 1
    /\ called /\ pc = "pull" => Count(q) > 0 /\ At(q, 0) = KEY_RESIZE /\ Count(q) <= n + 1
    /\ called /\ pc = "start" => Count(q) - Cooked(q) <= n - 1
    /\ called /\ pc = "key" /\ node = <<>> => Count(q) - Cooked(q) <= n
    /\ called /\ node # <<>> => Count(q) <= n
    /\ called /\ pc = "done" => Count(q) <= n
    /\ called /\ pc = "done" /\ result \notin {KEY_RESIZE, ERR} =>
          Cooked(q) = 0 /\ Count(q) <= n - 1
    /\ called /\ pc = "end" => Count(q) <= n
    /\ Checking("end") => called
    /\ called /\ Checking("end") => Count(q) <= n - 1
    /\ called /\ Checking("top") => Cooked(q) = 0 /\ Count(q) <= n - 1
    /\ called /\ Checking("pull") => Count(q) > 0 /\ At(q, 0) = KEY_RESIZE /\ Count(q) <= n
    /\ called /\ Checking("start") => Count(q) <= n - 1
    /\ Checking("stuff") => Count(q) <= n /\ Len(line) <= MAXLINE + 1
    /\ pc = "stuff" => Count(q) + Len(line) <= n + MAXLINE + 2
    /\ Checking("top") => called

RoomInv(n) == CallRoom /\ LineRoom(n)

(* wgetnstr() is at work, or a part of its line is still to be put back.     *)
InLine == called \/ Checking("stuff") \/ (pc = "stuff" /\ line # <<>>)

(* An empty ring has room.                                                   *)
LEMMA InitRoom == ASSUME NEW n, Leaves(n), Init PROVE RoomInv(n)
<1>1. Count(q) = 0 /\ Cooked(q) = 0 /\ pc = "app" /\ ~called /\ node = <<>>
  BY EmptySound DEF Init
<1> QED BY <1>1, SizeAssumption DEF RoomInv, CallRoom, LineRoom, Checking

(* Such a ring is never full.                                                *)
LEMMA NotFull ==
    ASSUME NEW f, RingType(f), Count(f) <= FIFO_SIZE - 1
    PROVE  HasRoom(f)
<1>1. Count(f) # FIFO_SIZE
  BY CountBounds, SizeAssumption DEF RingType
<1> QED BY <1>1, CountBounds DEF RingType

(* The bounds as numbers.                                                    *)
LEMMA Numbers ==
    ASSUME NEW n, Leaves(n)
    PROVE  /\ FIFO_SIZE \in Int /\ FIFO_SIZE >= 3 /\ MAXLINE \in Nat /\ n \in Int
           /\ n + MAXLINE + 2 <= FIFO_SIZE
           /\ \A w \in Windows : w.line => n >= 1
BY SizeAssumption, BoundAssumption DEF Leaves

(* What a ring in order counts.                                              *)
LEMMA QueueNumbers ==
    ASSUME QueueInv
    PROVE  Orderly(q) /\ Count(q) \in Nat /\ Cooked(q) \in Nat /\ Cooked(q) <= Count(q)
BY OrderlyRing DEF QueueInv

(* What begins a key and holds none is shorter than that key.                *)
LEMMA ShorterThanKey ==
    ASSUME NEW s \in Seq(Bytes), IsPrefixOfKey(s), NoKeyIn(s)
    PROVE  \E k \in DOMAIN KeyTry : Len(k) \in Nat /\ Len(s) + 1 <= Len(k)
<1>1. PICK k \in DOMAIN KeyTry : IsPrefix(s, k)
  BY DEF IsPrefixOfKey
<1>2. k \in Seq(Bytes) /\ Len(s) \in Nat /\ Len(k) \in Nat
  BY Apart
<1>3. Len(s) <= Len(k) /\ \A i \in 1 .. Len(s) : s[i] = k[i]
  BY <1>1, <1>2, IsPrefixFact
<1>4. Len(s) # Len(k)
  <2>1. SUFFICES ASSUME Len(s) = Len(k) PROVE FALSE
    OBVIOUS
  <2>2. Len(k) <= Len(s) /\ \A i \in 1 .. Len(k) : k[i] = s[i]
    BY <1>2, <1>3, <2>1
  <2>3. IsPrefix(k, s)
    BY <1>2, <2>2, IsPrefixFact
  <2> QED BY <2>3 DEF NoKeyIn
<1> QED BY <1>2, <1>3, <1>4

(* A key handed to the caller leaves a slot more.                            *)
LEMMA GiveRoom ==
    ASSUME NEW n, Leaves(n), TypeOK, QueueInv, RoomInv(n), NEW ch, NEW f, Orderly(f), Give(ch, f), pc \in {"key", "esc"},
           UNCHANGED <<win, line, called>>,
           Count(f) <= FIFO_SIZE - 2,
           ch \notin KeyCodes \cup {ERR} => Count(f) <= FIFO_SIZE - 3,
           called => Count(f) <= n,
           called /\ ch \notin {KEY_RESIZE, ERR} => Cooked(f) = 0 /\ Count(f) <= n - 1
    PROVE  RoomInv(n)'
<1>1. q' = f /\ node' = <<>> /\ result' = ch /\ Count(f) \in Nat
  BY OrderlyRing DEF Give
<1>2. \/ ch = ERR /\ pc' = "winch" /\ ret' = "resized"
      \/ pc' = "winch" /\ ret' = "done" /\ ~called /\ ch \notin KeyCodes \cup {ERR}
      \/ pc' = "done"
  BY DEF Give, After, CheckSize, Goto
<1>3. CallRoom'
  BY <1>1, <1>2, Numbers DEF CallRoom, Checking
<1>4. LineRoom(n)'
  BY <1>1, <1>2, Numbers DEF RoomInv, LineRoom, Checking
<1> QED BY <1>3, <1>4 DEF RoomInv

(* The application's calls leave room.                                       *)
LEMMA ApplicationRoom ==
    ASSUME NEW n, Leaves(n), Calls \/ InLine, TypeOK, QueueInv, RoomInv(n), Application
    PROVE  RoomInv(n)'
<1> USE QueueNumbers, Numbers DEF winch, input
<1>0. pc = "app" /\ ~called /\ called' = called /\ node = <<>> /\ node' = node /\ line' = line /\ Count(q) <= FIFO_SIZE - 2
  BY DEF Application, Wgetch, Ungetch, Flushinp, Doupdate, QueueInv, MatchInv, RoomInv, CallRoom, LineRoom
<1>5. Backlog <= FIFO_SIZE - 2
  BY <1>0, BoundAssumption DEF Calls, InLine, Checking
<1>1. ASSUME NEW w \in Windows, Wgetch(w) PROVE RoomInv(n)'
  BY <1>0, <1>1 DEF Wgetch, Goto, RoomInv, CallRoom, LineRoom, Checking
<1>2. ASSUME NEW k \in Keys, Ungetch(k) PROVE RoomInv(n)'
  <2>1. Count(q') = Count(q) + 1 /\ Count(q) < Backlog /\ pc' = "app"
    BY <1>0, <1>2, UngetSound, Apart DEF Ungetch, Orderly
  <2> QED BY <1>0, <1>5, <2>1, BoundAssumption DEF RoomInv, CallRoom, LineRoom, Checking
<1>3. ASSUME Flushinp PROVE RoomInv(n)'
  <2>1. Count(q') = 0 /\ pc' = "app"
    BY <1>0, <1>3, EmptySound DEF Flushinp, TypeOK
  <2> QED BY <1>0, <2>1 DEF RoomInv, CallRoom, LineRoom, Checking
<1>4. ASSUME Doupdate PROVE RoomInv(n)'
  <2>1. q' = q /\ Count(q) < Backlog /\ pc' = "winch" /\ ret' = "app"
    BY <1>4 DEF Doupdate, CheckSize
  <2> QED BY <1>0, <1>5, <2>1, BoundAssumption DEF RoomInv, CallRoom, LineRoom, Checking
<1> QED BY <1>1, <1>2, <1>3, <1>4 DEF Application

(* So does a check of the size, which may put a KEY_RESIZE in front.         *)
LEMMA CheckSizeRoom ==
    ASSUME NEW n, Leaves(n), TypeOK, TypeOK', QueueInv, RoomInv(n), HandleSigwinch \/ UpdateScreensize \/ Resized
    PROVE  RoomInv(n)'
<1> USE QueueNumbers, Numbers DEF winch, input
<1>1. ASSUME HandleSigwinch PROVE RoomInv(n)'
  <2>1. /\ UNCHANGED <<q, node, line, called, win, result>> /\ node = <<>>
        /\ pc = "winch" /\ ret' = ret
        /\ ret \in {"app", "top", "pull", "start", "done", "end", "stuff", "resized"}
        /\ pc' = "size" \/ (pc' = "done" /\ ret = "resized") \/ (pc' = ret /\ ret # "resized")
    BY <1>1 DEF HandleSigwinch, Goto, QueueInv, MatchInv, CheckInv
  <2>2. Count(q) <= FIFO_SIZE - 2
    BY <2>1 DEF RoomInv, CallRoom
  <2>3. CallRoom'
    BY <2>1, <2>2 DEF RoomInv, CallRoom, Checking
  <2>4. ret = "resized" => Cooked(q) = 0 /\ Count(q) <= 1 /\ result = ERR
    BY <2>1 DEF QueueInv, CheckInv, Checking, FailedRead, Orderly, Lone
  <2>5. ret \in {"top", "start"} => Cooked(q) = 0 \/ ~called
    BY <2>1 DEF RoomInv, LineRoom, QueueInv, CheckInv, Checking
  <2>6. called => n >= 1
    BY DEF RoomInv, LineRoom, TypeOK
  <2>7. LineRoom(n)'
    BY <2>1, <2>4, <2>5, <2>6 DEF RoomInv, LineRoom, Checking, ResizeFirst
  <2> QED BY <2>3, <2>7 DEF RoomInv
<1>2. ASSUME UpdateScreensize PROVE RoomInv(n)'
  <2>1. /\ UNCHANGED <<node, line, called, win, result>> /\ node = <<>>
        /\ pc = "size" /\ ret' = ret /\ pc' = ret
        /\ ret \in {"app", "top", "pull", "start", "done", "end", "stuff", "resized"}
        /\ q' = safe_ungetch(q, KEY_RESIZE)
    BY <1>2 DEF UpdateScreensize, Goto, QueueInv, MatchInv, CheckInv
  <2>2. /\ Count(q') = Count(q) + 1 /\ At(q', 0) = KEY_RESIZE
        /\ HasRoom(q') => Cooked(q') = Cooked(q) + 1
    BY <2>1, UngetSound, Apart DEF Orderly
  <2>3. Count(q) <= FIFO_SIZE - 2
    BY <2>1 DEF RoomInv, CallRoom
  <2>4. HasRoom(q')
    BY <2>2, <2>3, NotFull DEF TypeOK, RingType
  <2>5. CallRoom'
    BY <2>1, <2>2, <2>3, <2>4 DEF RoomInv, CallRoom, Checking
  <2>6. LineRoom(n)'
    BY <2>1, <2>2, <2>4 DEF RoomInv, LineRoom, Checking, ResizeFirst
  <2> QED BY <2>5, <2>6 DEF RoomInv
<1>3. ASSUME Resized PROVE RoomInv(n)'
  <2>1. /\ node' = <<>> /\ UNCHANGED <<line, called, win>> /\ pc = "resized" /\ pc' = "done"
        /\ ResizeFirst(q)
    BY <1>3 DEF Resized, Goto, QueueInv, MatchInv, CheckInv
  <2>2. Count(q') <= 1 /\ result' \in {KEY_RESIZE, ERR} /\ Count(q') \in Nat
    <3>1. CASE CookedKeyInFifo(q)
      BY <1>3, <3>1, ResizedRing
    <3>2. CASE ~CookedKeyInFifo(q)
      <4>1. q' = q /\ result' = ERR /\ Cooked(q) = 0 /\ FailedRead(q)
        BY <1>3, <3>2, ResizedRing, OrderlyRing DEF QueueInv, CheckInv, Resized
      <4>2. Count(q) <= 1
        BY <4>1 DEF FailedRead, Orderly, Lone
      <4> QED BY <4>1, <4>2
    <3> QED BY <3>1, <3>2
  <2>3. called => n >= 1
    BY DEF RoomInv, LineRoom, TypeOK
  <2> QED BY <2>1, <2>2, <2>3 DEF RoomInv, CallRoom, LineRoom, Checking
<1> QED BY <1>1, <1>2, <1>3

(* So do the steps between two keys.                                         *)
LEMMA TopRoom ==
    ASSUME NEW n, Leaves(n), TypeOK, QueueInv, RoomInv(n),
           TopCooked \/ PullCooked \/ TopLine \/ TopRaw \/ StartRead \/ Return
    PROVE  RoomInv(n)'
<1> USE QueueNumbers, Numbers DEF winch, input
<1>1. ASSUME TopCooked PROVE RoomInv(n)'
  <2>1. Cooked(q) > 0
    BY <1>1, OrderlyRing DEF TopCooked
  <2> QED BY <1>1, <2>1 DEF TopCooked, MayRefresh, Goto, CheckSize,
                            RoomInv, CallRoom, LineRoom, Checking, QueueInv, MatchInv, ResizeFirst
<1>2. ASSUME PullCooked PROVE RoomInv(n)'
  <2>1. /\ Count(q') = IF Count(q) = 0 THEN 0 ELSE Count(q) - 1
        /\ result' = IF Count(q) > 0 THEN At(q, 0) ELSE ERR
    BY <1>2, OrderlyPull, OrderlyRing DEF PullCooked, Take
  <2> QED BY <1>2, <2>1 DEF PullCooked, Goto, RoomInv, CallRoom, LineRoom, Checking, QueueInv, MatchInv
<1>3. ASSUME TopLine PROVE RoomInv(n)'
  <2>1. Count(q) = 0 /\ win.line /\ n >= 1
    BY <1>3, OrderlyRing DEF TopLine, LineMode, TypeOK
  <2> QED BY <1>3, <2>1 DEF TopLine, MayRefresh, Goto, CheckSize,
                            RoomInv, CallRoom, LineRoom, Checking, QueueInv, MatchInv, ResizeFirst
<1>4. ASSUME TopRaw PROVE RoomInv(n)'
  <2>1. Cooked(q) = 0
    BY <1>4, OrderlyRing DEF TopRaw
  <2> QED BY <1>4, <2>1 DEF TopRaw, MayRefresh, Goto, CheckSize,
                            RoomInv, CallRoom, LineRoom, Checking, QueueInv, MatchInv
<1>5. ASSUME StartRead PROVE RoomInv(n)'
  BY <1>5 DEF StartRead, Goto, RoomInv, CallRoom, LineRoom, Checking, QueueInv, MatchInv
<1>6. ASSUME Return PROVE RoomInv(n)'
  BY <1>6 DEF Return, Goto, RoomInv, CallRoom, LineRoom, Checking, QueueInv, MatchInv
<1> QED BY <1>1, <1>2, <1>3, <1>4, <1>5, <1>6

(* So does a byte that is read, behind what begins a key or behind nothing.  *)
LEMMA ReadByteRoom ==
    ASSUME NEW n, Leaves(n), Calls \/ InLine, TypeOK, QueueInv, RoomInv(n), ReadByte
    PROVE  RoomInv(n)'
<1> USE QueueNumbers, Numbers DEF winch
<1> DEFINE b == Head(tty)
           pushed == fifo_push(q, b)
<1>1. b \in Bytes /\ pc = "key" /\ UNCHANGED <<win, line, called>>
  BY DEF TypeOK, ReadByte, Reading
<1>2. Cooked(q) = Count(q) /\ (node = <<>> => Count(q) = 0)
  BY ReadingRing DEF ReadByte
<1>3. /\ Count(pushed) = Count(q) + 1 /\ At(pushed, Count(q)) = b
      /\ HasRoom(pushed) => Sound(Entries, pushed) /\ Cooked(pushed) = Cooked(q) /\ Orderly(pushed)
      /\ RingType(pushed)
  <2>1. /\ Orderly(q) /\ Sound(Entries, q) /\ b \in Entries /\ b \in Bytes \cup {ERR}
        /\ q \in FifoType(Entries) /\ RingOK(q)
    BY <1>1, Apart DEF Orderly, Sound
  <2> HIDE DEF b
  <2>2. /\ Count(pushed) = Count(q) + 1 /\ At(pushed, Count(q)) = b
        /\ HasRoom(pushed) => Sound(Entries, pushed) /\ Cooked(pushed) = Cooked(q)
    BY <2>1, PushSound
  <2>3. HasRoom(pushed) => Orderly(pushed)
    BY <1>2, <2>1, OrderlyPush
  <2>4. RingType(pushed)
    BY <2>1, PushType DEF RingType
  <2> QED BY <2>2, <2>3, <2>4
<1>4. CASE win.keypad
  <2>1. q' = pushed /\ UNCHANGED <<pc, ret, result, node>>
    BY <1>4 DEF ReadByte
  <2>2. ASSUME node # <<>> PROVE Count(q) + 1 <= FIFO_SIZE - 2 /\ (called => Count(q) + 1 <= n)
    <3>1. Len(node) = Count(q)
      BY <1>2, <2>2 DEF QueueInv, MatchInv, Holds
    <3>2. PICK k \in DOMAIN KeyTry : Len(k) \in Nat /\ Len(node) + 1 <= Len(k)
      BY <2>2, ShorterThanKey DEF QueueInv, MatchInv
    <3>3. called => Len(k) <= n
      BY <1>4, <3>2 DEF Leaves, RoomInv, LineRoom, TypeOK
    <3>4. ~called => Len(k) + 1 < FIFO_SIZE
      BY <1>1, <3>2 DEF Calls, InLine, Checking
    <3> QED BY <3>1, <3>2, <3>3, <3>4
  <2>3. called => n >= 1
    BY DEF RoomInv, LineRoom, TypeOK
  <2>4. Count(q') <= FIFO_SIZE - 2 /\ (called => Count(q') <= n)
    BY <1>2, <1>3, <2>1, <2>2, <2>3
  <2>5. HasRoom(q')
    BY <1>3, <2>1, <2>4, NotFull
  <2>6. Cooked(q') = Count(q)
    BY <1>2, <1>3, <2>1, <2>5
  <2> QED BY <1>1, <1>3, <2>1, <2>4, <2>6 DEF RoomInv, CallRoom, LineRoom, Checking
<1>5. CASE ~win.keypad
  <2>1. Deliver(HeadKey(pushed), fifo_pull(pushed))
    BY <1>5 DEF ReadByte
  <2>2. Count(q) = 0
    BY <1>1, <1>2, <1>5 DEF QueueInv, MatchInv
  <2>3. HasRoom(pushed)
    BY <1>3, <2>2, NotFull
  <2>4. HeadKey(pushed) = b /\ Orderly(fifo_pull(pushed)) /\ Count(fifo_pull(pushed)) = 0
        /\ Cooked(fifo_pull(pushed)) = 0
    BY <1>2, <1>3, <2>2, <2>3, OrderlyRing, OrderlyPull
  <2>5. called => n >= 1
    BY DEF RoomInv, LineRoom, TypeOK
  <2> QED BY <1>1, <2>1, <2>4, <2>5, GiveRoom DEF Deliver
<1> QED BY <1>4, <1>5

(* So does a byte of a key sequence.                                         *)
LEMMA MatchRoom ==
    ASSUME NEW n, Leaves(n), TypeOK, QueueInv, RoomInv(n), Match PROVE RoomInv(n)'
<1> USE QueueNumbers, Numbers
<1> DEFINE ch == PeekKey(q)
           seen == Append(node, ch)
           unmatched == Uninterpreted(fifo_pull(fifo_peek(q)))
           matched == IF fifo_peek(q).peek = q.tail THEN fifo_clear(q)
                      ELSE [fifo_peek(q) EXCEPT !.head = fifo_peek(q).peek]
<1>1. /\ pc = "key" /\ win.keypad /\ RawKeyInFifo(q) /\ ~HighPriorityKey
      /\ UNCHANGED <<win, line, called>>
      /\ \/ Deliver(HeadKey(q), unmatched)
         \/ seen \in DOMAIN KeyTry /\ Deliver(KeyTry[seen], matched)
         \/ /\ q' = fifo_peek(q) /\ node' = seen /\ ch \in Bytes
            /\ Goto(IF RawKeyInFifo(q') THEN "key" ELSE "esc")
            /\ UNCHANGED <<result, owed>>
  BY MatchSteps DEF winch
<1>2. /\ Cooked(q) < Count(q) /\ (Cooked(q) = 0 \/ OnlyBytes(q))
      /\ node \in Seq(Bytes) /\ Len(node) = Cooked(q)
      /\ node = <<>> => Cooked(q) = 0
  BY <1>1, MatchingRing, OrderlyRing DEF QueueInv, MatchInv
<1>3. Count(q) <= FIFO_SIZE - 2 /\ (called => Count(q) <= n)
  BY <1>1, <1>2 DEF RoomInv, CallRoom, LineRoom
<1>4. CASE Deliver(HeadKey(q), unmatched)
  <2>1. Orderly(unmatched) /\ Count(unmatched) = Count(q) - 1 /\ Cooked(unmatched) = 0
    BY <1>1, <1>2, OrderlyUnmatched
  <2> HIDE DEF unmatched
  <2> QED BY <1>1, <1>3, <1>4, <2>1, GiveRoom DEF Deliver
<1>5. CASE seen \in DOMAIN KeyTry /\ Deliver(KeyTry[seen], matched)
  <2>1. Orderly(matched) /\ Count(matched) = Count(q) - (Cooked(q) + 1) /\ Cooked(matched) = 0
    BY <1>1, <1>2, OrderlyMatched
  <2> HIDE DEF matched
  <2> QED BY <1>1, <1>3, <1>5, <2>1, GiveRoom DEF Deliver
<1>6. CASE /\ q' = fifo_peek(q) /\ node' = seen /\ ch \in Bytes
           /\ Goto(IF RawKeyInFifo(q') THEN "key" ELSE "esc")
           /\ UNCHANGED <<result, owed>>
  <2>1. Orderly(q') /\ Count(q') = Count(q)
    BY <1>1, <1>6, OrderlyPeek
  <2>2. node' # <<>>
    BY <1>2, <1>6, AppendProperties
  <2>3. pc' \in {"key", "esc"}
    BY <1>6 DEF Goto
  <2> QED BY <1>1, <1>3, <2>1, <2>2, <2>3 DEF RoomInv, CallRoom, LineRoom, Checking
<1> QED BY <1>1, <1>4, <1>5, <1>6

(* So does a key that is taken.                                              *)
LEMMA ReadRoom ==
    ASSUME NEW n, Leaves(n), TypeOK, QueueInv, RoomInv(n), PullRaw \/ KeyWithPriority \/ RestReady PROVE RoomInv(n)'
<1> USE QueueNumbers, Numbers DEF winch, input
<1>1. ASSUME PullRaw PROVE RoomInv(n)'
  <2>1. /\ pc = "key" /\ ~win.keypad /\ q.head # -1
        /\ Deliver(HeadKey(q), fifo_pull(q)) /\ UNCHANGED <<win, line, called>>
    BY <1>1 DEF PullRaw
  <2>2. node = <<>>
    BY <2>1 DEF QueueInv, MatchInv
  <2>3. Count(q) > 0 /\ HeadKey(q) = At(q, 0)
    BY <2>1, OrderlyRing
  <2>4. /\ Orderly(fifo_pull(q)) /\ Count(fifo_pull(q)) = Count(q) - 1
        /\ Cooked(fifo_pull(q)) = IF Cooked(q) = 0 THEN 0 ELSE Cooked(q) - 1
    BY <2>3, OrderlyPull
  <2>5. Cooked(q) = 0 \/ (Cooked(q) = 1 /\ At(q, 0) = KEY_RESIZE)
    BY <2>1, <2>2 DEF QueueInv, CheckInv, ResizeFirst
  <2>6. /\ Count(q) <= FIFO_SIZE - 1 /\ (Cooked(q) = 0 => Count(q) <= FIFO_SIZE - 2)
        /\ called => Count(q) - Cooked(q) <= n
    BY <2>1, <2>2 DEF RoomInv, CallRoom, LineRoom
  <2> QED BY <2>1, <2>3, <2>4, <2>5, <2>6, GiveRoom, Apart DEF Deliver
<1>2. ASSUME KeyWithPriority PROVE RoomInv(n)'
  <2> DEFINE p == Uninterpreted(fifo_pull(q))
  <2>1. /\ pc = "key" /\ Cooked(q) > 0 /\ HeadKey(q) = At(q, 0) /\ HeadKey(q) \in KeyCodes
        /\ Deliver(HeadKey(q), p) /\ UNCHANGED <<win, line, called>>
    BY <1>2, OrderlyRing DEF KeyWithPriority, HighPriorityKey
  <2>2. node = <<>>
    <3>1. 0 \in 0 .. Count(q) - 1
      BY <2>1
    <3> QED BY <2>1, <3>1, Apart DEF QueueInv, MatchInv, OnlyBytes
  <2>3. Cooked(q) = 1 /\ At(q, 0) = KEY_RESIZE
    BY <2>1, <2>2 DEF QueueInv, CheckInv, ResizeFirst
  <2>4. Orderly(p) /\ Count(p) = Count(q) - 1
    BY <2>1, <2>3, OrderlyRest
  <2> HIDE DEF p
  <2>5. Count(q) <= FIFO_SIZE - 1 /\ (called => Count(q) - Cooked(q) <= n)
    BY <2>1, <2>2 DEF RoomInv, CallRoom, LineRoom
  <2> QED BY <2>1, <2>3, <2>4, <2>5, GiveRoom DEF Deliver
<1>3. ASSUME RestReady PROVE RoomInv(n)'
  BY <1>3 DEF RestReady, Goto, RoomInv, CallRoom, LineRoom, Checking, QueueInv, MatchInv
<1> QED BY <1>1, <1>2, <1>3

(* So does a wait or a read that fails.                                      *)
LEMMA FailureRoom ==
    ASSUME NEW n, Leaves(n), TypeOK, QueueInv, RoomInv(n), WaitFails \/ RestFails \/ (ReadFails /\ tty = <<>>)
    PROVE  RoomInv(n)'
<1> USE QueueNumbers, Numbers
<1>1. CASE WaitFails
  <2>1. /\ Count(q) = 0 /\ node = <<>> /\ pc' = "winch" /\ ret' = "resized"
        /\ UNCHANGED <<q, win, node, line, called>>
    BY <1>1, OrderlyRing DEF WaitFails, Waiting, CheckSize, QueueInv, MatchInv
  <2> QED BY <2>1 DEF RoomInv, CallRoom, LineRoom, Checking
<1>2. CASE RestFails
  <2> DEFINE p == Uninterpreted(fifo_pull(q))
  <2>1. pc = "esc" /\ node # <<>> /\ OnlyBytes(q) /\ Give(HeadKey(q), p) /\ UNCHANGED <<win, line, called>>
        /\ Count(q) = Cooked(q) /\ Cooked(q) = Len(node) /\ node \in Seq(Bytes)
    BY <1>2 DEF RestFails, QueueInv, MatchInv, Holds
  <2>2. Count(q) > 0
    BY <2>1, NotEmpty
  <2>3. Orderly(p) /\ Count(p) = Count(q) - 1 /\ Cooked(p) = 0
    BY <2>1, <2>2, OrderlyRest
  <2> HIDE DEF p
  <2>4. Count(q) <= FIFO_SIZE - 2 /\ (called => Count(q) <= n)
    BY <2>1 DEF RoomInv, CallRoom, LineRoom
  <2> QED BY <2>1, <2>3, <2>4, GiveRoom
<1>3. CASE ReadFails /\ tty = <<>>
  <2> DEFINE pushed == fifo_push(q, ERR)
  <2>1. /\ pc' = "winch" /\ ret' = "resized" /\ node' = <<>> /\ UNCHANGED <<win, line, called>>
        /\ q' = IF win.keypad THEN Uninterpreted(pushed) ELSE fifo_pull(pushed)
    BY <1>3 DEF ReadFails, Give, After, CheckSize
  <2>2. Count(q) = 0
    BY <1>3, ReadingRing DEF ReadFails, Reading, QueueInv, MatchInv
  <2>3. Count(pushed) = 1 /\ RingType(pushed)
    BY <2>2, PushSound, PushType, Apart DEF Orderly, Sound, RingType
  <2>4. HasRoom(pushed)
    BY <2>3, NotFull
  <2>5. Sound(Entries, pushed)
    BY <2>4, PushSound, Apart DEF Orderly
  <2> HIDE DEF pushed
  <2>6. Count(q') <= 1 /\ Count(q') \in Nat
    <3>1. Count(Uninterpreted(pushed)) = 1
      BY <2>3, <2>5, UninterpretedSound
    <3>2. Count(fifo_pull(pushed)) = IF Count(pushed) = 0 THEN 0 ELSE Count(pushed) - 1
      BY <2>5, PullSound
    <3> QED BY <2>1, <2>3, <3>1, <3>2
  <2> QED BY <2>1, <2>6 DEF RoomInv, CallRoom, LineRoom, Checking
<1> QED BY <1>1, <1>2, <1>3

(* A line that loses its last character is shorter by one.                   *)
LEMMA Shorter ==
    ASSUME NEW S, NEW l \in Seq(S), l # <<>>
    PROVE  Len(Front(l)) = Len(l) - 1 /\ Len(SubSeq(l, 1, Len(l) - 1)) = Len(l) - 1
<1> DEFINE n == Len(l) - 1
<1>1. n \in Nat /\ 1 \in Int /\ n \in Int /\ \A i \in 1 .. n : l[i] \in S
  BY NotEmpty
<1> HIDE DEF n
<1>2. Len(SubSeq(l, 1, n)) = IF 1 <= n THEN n - 1 + 1 ELSE 0
  BY <1>1, SubSeqProperties
<1>3. Len(SubSeq(l, 1, n)) = n
  BY <1>1, <1>2
<1> QED BY <1>3 DEF Front, n

(* A line that is edited, ended and put back has room.                       *)
LEMMA LineRoomStep ==
    ASSUME NEW n, Leaves(n), TypeOK, TypeOK', QueueInv, RoomInv(n),
           LineEdit \/ LineEcho \/ LineEnd \/ StuffKey \/ StuffPull,
           n + MAXLINE + 2 < FIFO_SIZE \/ InLine'
    PROVE  RoomInv(n)'
<1> USE QueueNumbers, Numbers DEF winch, input
<1>0. line \in Seq(Entries) /\ Len(line) \in Nat /\ (line # <<>> => Len(line) > 0)
  BY NotEmpty DEF TypeOK
<1>1. ASSUME LineEdit PROVE RoomInv(n)'
  <2>1. /\ pc = "done" /\ called /\ result \notin {ERR, KEY_RESIZE}
        /\ UNCHANGED <<q, win, node, called>> /\ node = <<>>
        /\ pc' = "top" \/ (pc' = "winch" /\ ret' = "top")
    BY <1>1 DEF LineEdit, EditLine, LineEnds, Goto, CheckSize, QueueInv, MatchInv
  <2>2. Cooked(q) = 0 /\ Count(q) <= n - 1 /\ Len(line) <= MAXLINE /\ win.line
    BY <2>1 DEF RoomInv, LineRoom
  <2>3. Len(line') <= MAXLINE
    <3>1. line # <<>> => Len(Front(line)) = Len(line) - 1
      BY <1>0, Shorter
    <3>2. result \in Entries => Len(Append(line, result)) = Len(line) + 1
      BY <1>0, AppendProperties
    <3>3. result \in Entries
      BY DEF TypeOK
    <3>4. \/ line' = line \/ line' = <<>>
          \/ line # <<>> /\ line' = Front(line)
          \/ Len(line) < MAXLINE /\ line' = Append(line, result)
      BY <1>1 DEF LineEdit, EditLine
    <3>5. Len(<<>>) = 0
      OBVIOUS
    <3> QED BY <1>0, <2>2, <3>1, <3>2, <3>3, <3>4, <3>5, Numbers
  <2> QED BY <2>1, <2>2, <2>3 DEF RoomInv, CallRoom, LineRoom, Checking, ResizeFirst
<1>5. ASSUME LineEcho PROVE RoomInv(n)'
  <2>1. /\ pc = "done" /\ called /\ result \notin {ERR, KEY_RESIZE}
        /\ UNCHANGED <<q, win, node, line, called>> /\ node = <<>>
        /\ pc' = "winch" /\ ret' = "end"
    BY <1>5, KeyAssumption DEF LineEcho, EndsLine, CheckSize, QueueInv, MatchInv, KeyCodes
  <2> QED BY <2>1 DEF RoomInv, CallRoom, LineRoom, Checking
<1>2. ASSUME LineEnd PROVE RoomInv(n)'
  <2>1. /\ pc \in {"done", "end"} /\ called /\ ~called' /\ UNCHANGED <<q, win, node>> /\ node = <<>>
        /\ pc' = "winch" /\ ret' = "stuff"
    BY <1>2 DEF LineEnd, CheckSize, QueueInv, MatchInv
  <2>2. Count(q) <= n /\ Len(line) <= MAXLINE
    BY <2>1 DEF RoomInv, LineRoom
  <2>3. Len(line') <= MAXLINE + 1
    <3>1. Len(Append(line, NL)) = Len(line) + 1
      BY <1>0, KeyTypes, AppendProperties
    <3> QED BY <1>0, <1>2, <2>2, <3>1 DEF LineEnd
  <2> QED BY <2>1, <2>2, <2>3 DEF RoomInv, CallRoom, LineRoom, Checking
<1>3. ASSUME StuffKey PROVE RoomInv(n)'
  <2>1. /\ pc = "stuff" /\ pc' = pc /\ UNCHANGED <<win, node, called>> /\ node = <<>> /\ ~called
        /\ line # <<>> /\ line' = SubSeq(line, 1, Len(line) - 1) /\ q' = safe_ungetch(q, Last(line))
    BY <1>3 DEF StuffKey, QueueInv, MatchInv, RoomInv, LineRoom
  <2>2. Len(line') = Len(line) - 1 /\ Last(line) \in Entries
    BY <1>0, <2>1, Shorter, LineTypes
  <2>3. Count(q') = Count(q) + 1
    BY <2>1, <2>2, UngetSound DEF Orderly
  <2>4. Count(q') + Len(line') <= n + MAXLINE + 2 /\ Len(line') \in Nat
    BY <1>0, <2>1, <2>2, <2>3 DEF RoomInv, LineRoom
  <2>5. n + MAXLINE + 2 < FIFO_SIZE \/ Len(line') > 0
    <3>1. CASE InLine'
      <4>1. line' # <<>> /\ line' \in Seq(Entries)
        BY <2>1, <3>1 DEF InLine, Checking, TypeOK
      <4> QED BY <4>1, NotEmpty
    <3> QED BY <3>1
  <2> QED BY <2>1, <2>3, <2>4, <2>5 DEF RoomInv, CallRoom, LineRoom, Checking
<1>4. ASSUME StuffPull PROVE RoomInv(n)'
  <2>1. /\ pc = "stuff" /\ pc' = "done" /\ UNCHANGED <<win, node, line, called>> /\ node = <<>> /\ ~called
        /\ line = <<>> /\ Count(q') = IF Count(q) = 0 THEN 0 ELSE Count(q) - 1
    BY <1>4, OrderlyPull DEF StuffPull, Goto, Take, QueueInv, MatchInv, RoomInv, LineRoom
  <2>2. Count(q) <= FIFO_SIZE - 1
    BY DEF RoomInv, CallRoom
  <2> QED BY <2>1, <2>2 DEF RoomInv, CallRoom, LineRoom, Checking
<1> QED BY <1>1, <1>2, <1>3, <1>4, <1>5

(* Arriving bytes, signals and timeouts leave room.                          *)
LEMMA EnvironmentRoom ==
    ASSUME NEW n, Leaves(n), TypeOK, QueueInv, RoomInv(n), Environment PROVE RoomInv(n)'
<1>1. ASSUME NEW b \in Bytes, Keyboard(b) PROVE RoomInv(n)'
  BY <1>1 DEF Keyboard, input, RoomInv, CallRoom, LineRoom, Checking
<1>2. ASSUME NEW s \in Sizes, Sigwinch(s) PROVE RoomInv(n)'
  BY <1>2 DEF Sigwinch, RoomInv, CallRoom, LineRoom, Checking
<1>3. ASSUME NEW s \in Sizes, SigwinchInterrupts(s) PROVE RoomInv(n)'
  BY <1>3, FailureRoom DEF SigwinchInterrupts, Interrupted
<1>4. ASSUME SignalInterrupts PROVE RoomInv(n)'
  BY <1>4, FailureRoom DEF SignalInterrupts, Interrupted
<1>5. ASSUME Timeout PROVE RoomInv(n)'
  BY <1>5, FailureRoom DEF Timeout
<1> QED BY <1>1, <1>2, <1>3, <1>4, <1>5 DEF Environment

(* Every step leaves room in the ring; the last key of a line may not.       *)
LEMMA RoomStep ==
    ASSUME NEW n, Leaves(n), Calls \/ InLine, n + MAXLINE + 2 < FIFO_SIZE \/ InLine',
           TypeOK, TypeOK', QueueInv, RoomInv(n), Next
    PROVE  RoomInv(n)' /\ HasRoom(q)'
<1>1. RoomInv(n)'
  BY ApplicationRoom, CheckSizeRoom, TopRoom, ReadByteRoom, MatchRoom, ReadRoom, LineRoomStep,
     EnvironmentRoom DEF Next, Library
<1>2. HasRoom(q')
  BY <1>1, NotFull DEF RoomInv, CallRoom, TypeOK, RingType
<1> QED BY <1>1, <1>2

-----------------------------------------------------------------------------
(* The whole invariant, and what follows from it.                            *)

(* A line of full length with its newline leaves two slots, and behind the   *)
(* bytes of a key that was read in keypad mode one more.                     *)
Roomy ==
    /\ Calls
    /\ \A w \in Windows : w.line =>
          /\ MAXLINE + 3 < FIFO_SIZE
          /\ w.keypad => \A s \in DOMAIN KeyTry : Len(s) + MAXLINE + 2 < FIFO_SIZE

Spare == FIFO_SIZE - (MAXLINE + 3)

Safe == Inv /\ QueueInv /\ RoomInv(Spare) /\ HasRoom(q)

(* Then the last key of a line is not the last of the ring.                  *)
LEMMA SpareLeaves ==
    Spare + MAXLINE + 2 < FIFO_SIZE /\ (Roomy => Calls /\ Leaves(Spare))
<1>1. FIFO_SIZE \in Nat /\ MAXLINE \in Nat
  BY SizeAssumption, BoundAssumption
<1>2. \A s \in DOMAIN KeyTry : Len(s) \in Nat
  BY Apart
<1> QED BY <1>1, <1>2 DEF Spare, Roomy, Leaves

(* The whole invariant holds at first.                                       *)
LEMMA InitSafe == Roomy /\ Init => Safe
<1>1. Roomy /\ Init => Inv /\ QueueInv /\ RoomInv(Spare)
  BY SpareLeaves, InitInv, InitQueue, InitRoom
<1>2. Init => HasRoom(q)
  BY DEF Init, EmptyFifo, HasRoom
<1> QED BY <1>1, <1>2 DEF Safe

(* Every step keeps the whole invariant.                                     *)
LEMMA StepSafe == Roomy /\ Safe /\ [Next]_vars => Safe'
<1> SUFFICES ASSUME Roomy, Safe, [Next]_vars PROVE Safe'
  OBVIOUS
<1>1. Inv'
  BY StepInv DEF Safe
<1>2. CASE Next
  <2>1. RoomInv(Spare)' /\ HasRoom(q)'
    BY <1>1, <1>2, RoomStep, SpareLeaves DEF Safe, Inv
  <2>2. QueueInv'
    BY <1>2, <2>1, QueueStep DEF Safe, Inv
  <2> QED BY <1>1, <2>1, <2>2 DEF Safe
<1>3. CASE UNCHANGED vars
  BY <1>1, <1>3 DEF vars, winch, Safe, QueueInv, MatchInv, CheckInv, TakenInv, Checking,
                    RoomInv, CallRoom, LineRoom
<1> QED BY <1>2, <1>3

(* Every reachable queue is in order and its ring has room.                  *)
THEOREM QueueIsSafe == ASSUME Roomy PROVE Spec => []Safe
<1>1. Init => Safe
  BY InitSafe
<1>2. Safe /\ [Next]_vars => Safe'
  BY StepSafe
<1> QED BY <1>1, <1>2, PTL DEF Spec

(* The ring never fills up, so the defect of FullStaysFull never shows: no   *)
(* key is lost however the calls, the keyboard, lines and resizes alternate. *)
THEOREM RoomIsKept == ASSUME Roomy PROVE Spec => []HasRoom(q)
<1>1. Safe => HasRoom(q)
  BY DEF Safe
<1> QED BY <1>1, QueueIsSafe, PTL

(* With the KEY_RESIZE goes the ERR that the signal left in the ring.        *)
THEOREM ErrIsTaken == ASSUME Roomy PROVE Spec => WinchErrTaken
<1> DEFINE P == Resized /\ result' = KEY_RESIZE => \A i \in 0 .. Count(q') - 1 : At(q', i) # ERR
<1>1. ASSUME Safe, Resized, result' = KEY_RESIZE PROVE \A i \in 0 .. Count(q') - 1 : At(q', i) # ERR
  <2>1. CookedKeyInFifo(q) => Count(q') = 0
    BY <1>1, ResizedRing DEF Safe
  <2>2. ~CookedKeyInFifo(q) => result' = ERR
    BY <1>1, ResizedRing DEF Safe, input
  <2> QED BY <1>1, <2>1, <2>2, Apart
<1>2. Safe /\ [Next]_vars => [P]_vars
  BY <1>1
<1> QED BY <1>2, QueueIsSafe, PTL DEF Spec, WinchErrTaken

(* The bytes that kgetch() has seen are the first keys of the ring.          *)
LEMMA SeenRing ==
    ASSUME QueueInv, pc = "key", ~HighPriorityKey, RawKeyInFifo(q),
           NEW seen, seen = Append(node, PeekKey(q))
    PROVE  /\ seen \in Seq(Entries) /\ Len(seen) = Cooked(q) + 1 /\ Len(node) = Cooked(q)
           /\ \A i \in 1 .. Cooked(q) + 1 : seen[i] = At(q, i - 1)
           /\ \A i \in 1 .. Cooked(q) : seen[i] = node[i]
<1>1. /\ Cooked(q) \in Nat /\ PeekKey(q) \in Bytes \cup {ERR} /\ PeekKey(q) = At(q, Cooked(q))
      /\ node \in Seq(Bytes) /\ Len(node) = Cooked(q)
  BY MatchingRing, OrderlyRing DEF QueueInv, MatchInv
<1>2. \A i \in 1 .. Cooked(q) : At(q, i - 1) = node[i]
  <2>1. CASE node = <<>>
    BY <1>1, <2>1
  <2>2. CASE node # <<>>
    BY <1>1, <2>2 DEF QueueInv, MatchInv, Holds
  <2> QED BY <2>1, <2>2
<1>3. /\ seen \in Seq(Entries) /\ Len(seen) = Cooked(q) + 1
      /\ \A i \in 1 .. Cooked(q) : seen[i] = node[i]
      /\ seen[Cooked(q) + 1] = PeekKey(q)
  <2>1. node \in Seq(Entries) /\ PeekKey(q) \in Entries
    BY <1>1, Apart DEF Known
  <2> QED BY <1>1, <2>1, AppendProperties
<1>4. ASSUME NEW i \in 1 .. Cooked(q) + 1 PROVE seen[i] = At(q, i - 1)
  <2>1. CASE i = Cooked(q) + 1
    BY <1>1, <1>3, <2>1
  <2>2. CASE i # Cooked(q) + 1
    <3>1. i \in 1 .. Cooked(q)
      BY <1>1, <2>2
    <3> QED BY <1>2, <1>3, <3>1
  <2> QED BY <2>1, <2>2
<1> QED BY <1>1, <1>3, <1>4

(* A byte is only given for a byte when no key sequence fits what was typed. *)
LEMMA UnmatchedBytes ==
    ASSUME Inv, QueueInv, Match, pc' # "key", pc' # "esc", result' \in Bytes,
           NEW s \in DOMAIN KeyTry, IsPrefix(s, Contents(q) \o tty)
    PROVE  FALSE
<1> DEFINE seen == Append(node, PeekKey(q))
           typed == Contents(q) \o tty
           n == Cooked(q)
<1>1. pc = "key" /\ RawKeyInFifo(q) /\ ~HighPriorityKey /\ ~IsPrefixOfKey(seen)
  BY MatchSteps, Apart DEF Deliver, Give, Goto
<1>2. /\ Orderly(q) /\ Count(q) \in Nat /\ n \in 0 .. Count(q) - 1
      /\ node \in Seq(Bytes) /\ NoKeyIn(node)
  BY <1>1, OrderlyRing DEF QueueInv, MatchInv
<1>3. /\ seen \in Seq(Entries) /\ Len(seen) = n + 1 /\ Len(node) = n
      /\ \A i \in 1 .. n + 1 : seen[i] = At(q, i - 1)
      /\ \A i \in 1 .. n : seen[i] = node[i]
  BY <1>1, SeenRing
<1>4. /\ typed \in Seq(Entries) /\ Len(typed) \in Nat /\ Len(typed) >= Count(q)
      /\ \A i \in 1 .. Count(q) : typed[i] = At(q, i - 1)
  <2>1. /\ Contents(q) \in Seq(Entries) /\ Len(Contents(q)) = Count(q)
        /\ \A i \in 1 .. Count(q) : Contents(q)[i] = At(q, i - 1)
    <3>1. \A i \in 1 .. Count(q) : i - 1 \in 0 .. Count(q) - 1 /\ At(q, i - 1) \in Entries
      BY <1>2, Apart DEF Orderly
    <3> QED BY <1>2, <3>1 DEF Contents
  <2>2. tty \in Seq(Entries) /\ Len(tty) \in Nat
    BY Apart DEF Inv, TypeOK
  <2> QED BY <1>2, <2>1, <2>2, ConcatProperties
<1>5. s \in Seq(Bytes) /\ s \in Seq(Entries) /\ Len(s) \in Nat
  BY Apart DEF Known
<1>6. IsPrefix(s, typed)
  OBVIOUS
<1> HIDE DEF seen, typed, n
<1>7. Len(s) <= Len(typed) /\ \A i \in 1 .. Len(s) : s[i] = typed[i]
  BY <1>4, <1>5, <1>6, IsPrefixFact
<1>8. ASSUME NEW i \in 1 .. n + 1 PROVE typed[i] = seen[i]
  <2>1. i \in 1 .. Count(q)
    BY <1>2
  <2> QED BY <1>3, <1>4, <2>1
<1>9. CASE Len(s) <= n
  <2>1. \A i \in 1 .. Len(s) : s[i] = node[i]
    BY <1>2, <1>3, <1>5, <1>7, <1>8, <1>9
  <2>2. IsPrefix(s, node)
    BY <1>2, <1>3, <1>5, <1>9, <2>1, IsPrefixFact
  <2> QED BY <1>2, <2>2 DEF NoKeyIn
<1>10. CASE Len(s) > n
  <2>1. Len(seen) <= Len(s)
    BY <1>2, <1>3, <1>5, <1>10
  <2>2. ASSUME NEW i \in 1 .. Len(seen) PROVE seen[i] = s[i]
    <3>1. i \in 1 .. n + 1 /\ i \in 1 .. Len(s)
      BY <1>2, <1>3, <1>5, <1>10
    <3> QED BY <1>7, <1>8, <3>1
  <2>3. IsPrefix(seen, s)
    BY <1>3, <1>5, <2>1, <2>2, IsPrefixFact
  <2> QED BY <1>1, <2>3 DEF IsPrefixOfKey
<1> QED BY <1>2, <1>5, <1>9, <1>10

(* No byte is given to the application on its own when it is the first of a  *)
(* key sequence that has arrived whole.                                      *)
THEOREM KeysAreMatched == ASSUME Roomy PROVE Spec => NoMissedKey
<1> DEFINE P == Match /\ pc' # "key" /\ pc' # "esc" /\ result' \in Bytes
                  => \A s \in DOMAIN KeyTry : ~IsPrefix(s, Contents(q) \o tty)
<1>1. Safe /\ [Next]_vars => [P]_vars
  <2>1. Safe => P
    BY UnmatchedBytes DEF Safe
  <2> QED BY <2>1
<1> QED BY <1>1, QueueIsSafe, PTL DEF Spec, NoMissedKey

-----------------------------------------------------------------------------
(* A line goes back into the ring whole.                                     *)

(* All that a line, its newline and the KEY_RESIZEs of the last two size     *)
(* checks need; the source has just that (FIFO_SIZE is MAXCOLUMNS + 2, a     *)
(* line has at most MAXCOLUMNS - 1 bytes).  The bytes of a key that may lie  *)
(* behind the line of a window in keypad mode are all but one more.          *)
Fits ==
    \A w \in Windows : w.line =>
        /\ MAXLINE + 3 <= FIFO_SIZE
        /\ w.keypad => \A s \in DOMAIN KeyTry : Len(s) + MAXLINE + 2 <= FIFO_SIZE

Left == FIFO_SIZE - (MAXLINE + 2)

(* That is the room a line needs, to the last slot.                          *)
LEMMA LeftLeaves == Fits => Leaves(Left)
<1>1. FIFO_SIZE \in Nat /\ MAXLINE \in Nat
  BY SizeAssumption, BoundAssumption
<1>2. \A s \in DOMAIN KeyTry : Len(s) \in Nat
  BY Apart
<1> QED BY <1>1, <1>2 DEF Left, Fits, Leaves

(* The ring may have been filled before, by a line or by the application: it *)
(* then never gives rise to a line again, until flushinp() empties it.       *)
LineSafe ==
    /\ Inv
    /\ pc \notin {"key", "esc"} => node = <<>>
    /\ InLine => QueueInv /\ RoomInv(Left) /\ HasRoom(q)

(* kgetch()'s bytes are given back whenever it is left.                      *)
LEMMA StepNode ==
    (pc \notin {"key", "esc"} => node = <<>>) /\ Next => (pc \notin {"key", "esc"} => node = <<>>)'
<1> SUFFICES ASSUME pc \notin {"key", "esc"} => node = <<>>, Next, pc' \notin {"key", "esc"}
             PROVE  node' = <<>>
  OBVIOUS
<1> USE DEF winch, input
<1>1. CASE Application
  BY <1>1 DEF Application, Wgetch, Ungetch, Flushinp, Doupdate
<1>2. CASE Environment
  BY <1>2 DEF Environment, Keyboard, Sigwinch, SigwinchInterrupts, SignalInterrupts, Timeout, Interrupted,
              Handler, WaitFails, Waiting, RestFails, ReadFails, Give
<1>3. CASE HandleSigwinch \/ UpdateScreensize \/ Resized \/ TopCooked \/ PullCooked \/ TopLine \/ TopRaw
           \/ StartRead \/ RestReady \/ Return
  BY <1>3 DEF HandleSigwinch, UpdateScreensize, Resized, TopCooked, PullCooked, TopLine, TopRaw,
              StartRead, RestReady, Return, Goto
<1>4. CASE LineEdit \/ LineEcho \/ LineEnd \/ StuffKey \/ StuffPull
  BY <1>4 DEF LineEdit, EditLine, LineEcho, LineEnd, StuffKey, StuffPull
<1>5. CASE ReadByte \/ PullRaw \/ KeyWithPriority
  BY <1>5 DEF ReadByte, Reading, PullRaw, KeyWithPriority, Deliver, Give
<1>6. CASE Match
  BY <1>6 DEF Match, Deliver, Give, Goto
<1> QED BY <1>1, <1>2, <1>3, <1>4, <1>5, <1>6 DEF Next, Library

(* Only _nc_wgetch() itself calls wgetnstr().                                *)
LEMMA EntersLine == ASSUME ~InLine, InLine', Next PROVE TopLine
<1> USE DEF winch, input, Checking, InLine
<1>1. CASE Application
  BY <1>1 DEF Application, Wgetch, Ungetch, Flushinp, Doupdate, CheckSize, Goto
<1>2. CASE Environment
  BY <1>2 DEF Environment, Keyboard, Sigwinch, SigwinchInterrupts, SignalInterrupts, Timeout, Interrupted,
              Handler, WaitFails, RestFails, ReadFails, Give, After, CheckSize, Goto
<1>3. CASE HandleSigwinch \/ UpdateScreensize \/ Resized
  BY <1>3 DEF HandleSigwinch, UpdateScreensize, Resized, Goto
<1>4. CASE TopCooked \/ PullCooked \/ TopRaw \/ StartRead \/ RestReady \/ Return
  BY <1>4 DEF TopCooked, PullCooked, TopRaw, StartRead, RestReady, Return, MayRefresh, CheckSize, Goto
<1>5. CASE LineEdit \/ LineEcho \/ LineEnd \/ StuffKey \/ StuffPull
  BY <1>5 DEF LineEdit, EditLine, LineEcho, LineEnd, StuffKey, StuffPull, Goto
<1>6. CASE ReadByte \/ PullRaw \/ KeyWithPriority
  BY <1>6 DEF ReadByte, Reading, PullRaw, KeyWithPriority, Deliver, Give, After, CheckSize, Goto
<1>7. CASE Match
  BY <1>7 DEF Match, Deliver, Give, After, CheckSize, Goto
<1> QED BY <1>1, <1>2, <1>3, <1>4, <1>5, <1>6, <1>7 DEF Next, Library

(* It does so with an empty ring, whatever happened before.                  *)
LEMMA LineBegins ==
    ASSUME Fits, Inv, node = <<>>, TopLine PROVE QueueInv' /\ RoomInv(Left)' /\ HasRoom(q)'
<1>1. /\ q' = q /\ q.head = -1 /\ node' = <<>> /\ line' = <<>> /\ called' = TRUE /\ win' = win /\ win.line
      /\ pc' = "top" \/ (pc' = "winch" /\ ret' = "top")
  BY DEF TopLine, LineMode, MayRefresh, CheckSize, Goto, input, winch
<1>2. HasRoom(q) /\ Count(q) = 0 /\ Cooked(q) = 0 /\ RingType(q)
  BY <1>1, Indices DEF Inv, TypeOK, RingOK, HasRoom, Count, Cooked, RingType
<1>3. Orderly(q')
  BY <1>1, <1>2, OrderlyEmpty DEF Sound, RingType
<1>4. TakenInv'
  BY <1>1 DEF TakenInv, Checking
<1>5. QueueInv'
  BY <1>1, <1>3, <1>4, IdleQueue
<1>6. Leaves(Left) /\ Left >= 1
  BY <1>1, LeftLeaves DEF Leaves, Inv, TypeOK
<1>7. RoomInv(Left)'
  <2>1. Len(line') = 0
    BY <1>1
  <2> QED BY <1>1, <1>2, <1>6, <2>1, Numbers DEF RoomInv, CallRoom, LineRoom, Checking, ResizeFirst
<1> QED BY <1>1, <1>2, <1>5, <1>7

(* Every step keeps it.                                                      *)
LEMMA StepLineSafe == Fits /\ LineSafe /\ [Next]_vars => LineSafe'
<1> SUFFICES ASSUME Fits, LineSafe, [Next]_vars PROVE LineSafe'
  OBVIOUS
<1>1. Inv'
  BY StepInv DEF LineSafe
<1>2. CASE Next
  <2>1. (pc \notin {"key", "esc"} => node = <<>>)'
    BY <1>2, StepNode DEF LineSafe
  <2>2. ASSUME InLine, InLine' PROVE QueueInv' /\ RoomInv(Left)' /\ HasRoom(q)'
    <3>1. RoomInv(Left)' /\ HasRoom(q)'
      BY <1>1, <1>2, <2>2, RoomStep, LeftLeaves DEF LineSafe, Inv
    <3>2. QueueInv'
      BY <1>2, <2>2, <3>1, QueueStep DEF LineSafe, Inv
    <3> QED BY <3>1, <3>2
  <2>3. ASSUME ~InLine, InLine' PROVE QueueInv' /\ RoomInv(Left)' /\ HasRoom(q)'
    <3>1. TopLine /\ node = <<>>
      BY <1>2, <2>3, EntersLine DEF LineSafe, TopLine
    <3> QED BY <3>1, LineBegins DEF LineSafe
  <2> QED BY <1>1, <2>1, <2>2, <2>3 DEF LineSafe
<1>3. CASE UNCHANGED vars
  BY <1>1, <1>3 DEF vars, winch, LineSafe, InLine, QueueInv, MatchInv, CheckInv, TakenInv, Checking,
                    RoomInv, CallRoom, LineRoom
<1> QED BY <1>2, <1>3

(* A line read in cooked mode is put back whole: whatever is typed, erased,  *)
(* resized and interrupted meanwhile, and whatever filled the ring before,   *)
(* there is a slot for each of its keys and its newline.                     *)
THEOREM LinesFit == ASSUME Fits PROVE Spec => LineFits
<1>1. Init => LineSafe
  BY InitInv DEF Init, LineSafe, InLine, Checking
<1>2. LineSafe /\ [Next]_vars => LineSafe'
  BY StepLineSafe
<1>3. LineSafe => (StuffKey => HasRoom(q))
  BY DEF LineSafe, InLine, StuffKey
<1>4. LineSafe /\ [Next]_vars => [StuffKey => HasRoom(q)]_vars
  BY <1>3
<1> QED BY <1>1, <1>2, <1>4, PTL DEF Spec, LineFits

-----------------------------------------------------------------------------
(* A resize is on its way to the application, unless wgetnstr() reads it.    *)

NoLines == \A w \in Windows : ~w.line

Flagged   == have_sigwinch \/ sig_winch
Queued(f) == \E i \in 0 .. Count(f) - 1 : At(f, i) = KEY_RESIZE
OnItsWay  == ~called /\ (owed => Flagged \/ Queued(q))

(* A step that neither takes a key nor touches the flags.                    *)
LEMMA WayKept ==
    ASSUME OnItsWay, owed' => owed, called' = called, Flagged' = Flagged, NEW p, q' = p,
           NEW n \in Nat, Count(q) \in Nat, Count(p) \in Nat, Count(q) + n <= Count(p),
           \A i \in 0 .. Count(q) - 1 : At(p, i + n) = At(q, i)
    PROVE  OnItsWay'
<1>1. CASE owed /\ Queued(q)
  <2>1. PICK i \in 0 .. Count(q) - 1 : At(q, i) = KEY_RESIZE
    BY <1>1 DEF Queued
  <2>2. i + n \in 0 .. Count(p) - 1 /\ At(p, i + n) = KEY_RESIZE
    BY <2>1
  <2> QED BY <2>2 DEF OnItsWay, Queued
<1> QED BY <1>1 DEF OnItsWay

(* The first key is taken: the KEY_RESIZE itself, or one before it.          *)
LEMMA WayTaken ==
    ASSUME TypeOK, OnItsWay, Orderly(q), called' = called, Flagged' = Flagged, Settle(HeadKey(q)), NEW p, q' = p,
           Count(p) = IF Count(q) = 0 THEN 0 ELSE Count(q) - 1,
           \A i \in 0 .. Count(q) - 2 : At(p, i) = At(q, i + 1)
    PROVE  OnItsWay'
<1>1. ~called' /\ (owed' <=> owed /\ HeadKey(q) # KEY_RESIZE) /\ Count(q) \in Nat
  <2>1. ~called' /\ Count(q) \in Nat
    BY OrderlyRing DEF OnItsWay
  <2>2. owed' <=> owed /\ HeadKey(q) # KEY_RESIZE
    BY DEF OnItsWay, Settle, TypeOK
  <2> QED BY <2>1, <2>2
<1>2. CASE owed' /\ Queued(q)
  <2>1. PICK i \in 0 .. Count(q) - 1 : At(q, i) = KEY_RESIZE
    BY <1>2 DEF Queued
  <2>2. i # 0
    BY <1>1, <1>2, <2>1, OrderlyRing
  <2>3. i - 1 \in 0 .. Count(q) - 2 /\ i - 1 \in 0 .. Count(p) - 1 /\ (i - 1) + 1 = i
    BY <1>1, <2>1, <2>2
  <2>4. At(p, i - 1) = KEY_RESIZE
    BY <2>1, <2>3
  <2> QED BY <1>1, <2>3, <2>4 DEF OnItsWay, Queued
<1> QED BY <1>1, <1>2 DEF OnItsWay

(* A ring without one: it is still a flag.                                   *)
LEMMA WayFlagged ==
    ASSUME OnItsWay, owed' => owed, called' = called, Flagged' = Flagged, ~Queued(q)
    PROVE  OnItsWay'
BY DEF OnItsWay

(* Every step keeps an owed resize on its way.                               *)
LEMMA StepWay ==
    ASSUME NoLines, Safe, Safe', OnItsWay, Next PROVE OnItsWay'
<1>0. Orderly(q) /\ Count(q) \in Nat /\ TypeOK /\ ~called /\ called \in BOOLEAN
  BY OrderlyRing DEF Safe, QueueInv, Inv, TypeOK, OnItsWay
<1>1. ASSUME UNCHANGED <<q, owed, called, have_sigwinch, sig_winch>> PROVE OnItsWay'
  BY <1>1 DEF OnItsWay, Flagged, Queued
<1>2. CASE TopCooked \/ TopRaw \/ StartRead \/ RestReady \/ Return \/ (\E w \in Windows : Wgetch(w)) \/ Doupdate
  BY <1>1, <1>2 DEF TopCooked, TopRaw, StartRead, RestReady, Return, Wgetch, Doupdate, winch, input
<1>3. CASE TopLine \/ LineEdit \/ LineEcho \/ LineEnd
  BY <1>0, <1>3 DEF TopLine, LineMode, LineEdit, EditLine, LineEcho, LineEnd, NoLines, TypeOK
<1>4. CASE \E b \in Bytes : Keyboard(b)
  BY <1>1, <1>4 DEF Keyboard, winch, input
<1>5. CASE \E s \in Sizes : Sigwinch(s) \/ SigwinchInterrupts(s)
  <2>1. have_sigwinch' /\ called' = called
    BY <1>5 DEF Sigwinch, SigwinchInterrupts, Handler, Interrupted, WaitFails, RestFails, ReadFails
  <2> QED BY <1>0, <2>1 DEF OnItsWay, Flagged
<1>6. CASE SignalInterrupts \/ Timeout
  <2>1. /\ UNCHANGED <<owed, called, have_sigwinch, sig_winch>>
        /\ WaitFails \/ RestFails \/ (ReadFails /\ tty = <<>>)
    BY <1>6 DEF SignalInterrupts, Timeout, Interrupted, WaitFails, RestFails, ReadFails, winch
  <2>2. Flagged' = Flagged
    BY <2>1 DEF Flagged
  <2>3. ~Queued(q)
    <3>1. CASE WaitFails
      BY <1>0, <3>1, OrderlyRing DEF WaitFails, Waiting, Queued
    <3>2. CASE RestFails
      BY <3>2, Apart DEF RestFails, Safe, QueueInv, MatchInv, OnlyBytes, Queued
    <3>3. CASE ReadFails /\ tty = <<>>
      <4>1. Count(q) = 0
        BY <3>3, ReadingRing DEF ReadFails, Reading, Safe, QueueInv, MatchInv
      <4> QED BY <4>1 DEF Queued
    <3> QED BY <2>1, <3>1, <3>2, <3>3
  <2> QED BY <2>1, <2>2, <2>3, WayFlagged
<1>7. CASE Flushinp
  BY <1>0, <1>7 DEF Flushinp, winch, OnItsWay, Flagged
<1>8. CASE HandleSigwinch
  BY <1>0, <1>8 DEF HandleSigwinch, input, TypeOK, OnItsWay, Flagged, Queued
<1>9. CASE UpdateScreensize
  <2>1. q' = safe_ungetch(q, KEY_RESIZE) /\ called' = called
    BY <1>9 DEF UpdateScreensize
  <2>2. Count(q') = Count(q) + 1 /\ At(q', 0) = KEY_RESIZE
    BY <1>0, <2>1, UngetSound, Apart DEF Orderly
  <2>3. 0 \in 0 .. Count(q') - 1
    BY <1>0, <2>2
  <2> QED BY <1>0, <2>1, <2>2, <2>3 DEF OnItsWay, Queued
<1>10. CASE Resized
  <2>1. called' = called /\ UNCHANGED winch
    BY <1>10 DEF Resized
  <2>2. CASE CookedKeyInFifo(q)
    BY <1>0, <1>10, <2>1, <2>2, ResizedRing DEF Safe, Settle, OnItsWay
  <2>3. CASE ~CookedKeyInFifo(q)
    BY <1>1, <1>10, <2>1, <2>3, ResizedRing DEF Safe, input, winch
  <2> QED BY <2>2, <2>3
<1>11. CASE (\E k \in Keys : Ungetch(k)) \/ StuffKey
  <2>1. PICK k \in Entries : q' = safe_ungetch(q, k)
    <3>1. CASE \E k \in Keys : Ungetch(k)
      BY <3>1, KeyTypes DEF Ungetch
    <3>2. CASE StuffKey
      BY <1>0, <3>2, LineTypes DEF StuffKey, TypeOK
    <3> QED BY <1>11, <3>1, <3>2
  <2>2. UNCHANGED <<owed, called, have_sigwinch, sig_winch>>
    BY <1>11 DEF Ungetch, StuffKey, winch
  <2>3. Count(q') = Count(q) + 1 /\ \A i \in 0 .. Count(q) - 1 : At(q', i + 1) = At(q, i)
    BY <1>0, <2>1, UngetSound DEF Orderly
  <2>4. Flagged' = Flagged
    BY <2>2 DEF Flagged
  <2> QED BY <1>0, <2>2, <2>3, <2>4, WayKept
<1>12. CASE PullCooked \/ StuffPull \/ PullRaw \/ KeyWithPriority
  <2>1. /\ Settle(HeadKey(q)) /\ UNCHANGED <<called, have_sigwinch, sig_winch>>
        /\ q' = fifo_pull(q) \/ (KeyWithPriority /\ q' = Uninterpreted(fifo_pull(q)))
    BY <1>12 DEF PullCooked, StuffPull, PullRaw, KeyWithPriority, Deliver, Give, Take, winch
  <2>2. Flagged' = Flagged
    BY <2>1 DEF Flagged
  <2>3. CASE q' = fifo_pull(q)
    BY <1>0, <2>1, <2>2, <2>3, OrderlyPull, WayTaken
  <2>4. CASE KeyWithPriority /\ q' = Uninterpreted(fifo_pull(q))
    <3>1. Count(q) > 0 /\ Count(q) \in Nat \ {0}
      BY <1>0, <2>4, OrderlyRing DEF KeyWithPriority, HighPriorityKey
    <3>2. /\ Count(q') = Count(q) - 1
          /\ \A i \in 0 .. Count(q') - 1 : At(q', i) = At(q, i + 1)
      BY <1>0, <2>4, <3>1, PulledRaw DEF Orderly
    <3> QED BY <1>0, <2>1, <2>2, <3>1, <3>2, WayTaken
  <2> QED BY <2>1, <2>3, <2>4
<1>13. CASE Match
  <2> DEFINE ch == PeekKey(q)
             seen == Append(node, ch)
             unmatched == Uninterpreted(fifo_pull(fifo_peek(q)))
             matched == IF fifo_peek(q).peek = q.tail THEN fifo_clear(q)
                        ELSE [fifo_peek(q) EXCEPT !.head = fifo_peek(q).peek]
  <2>1. /\ pc = "key" /\ RawKeyInFifo(q) /\ ~HighPriorityKey
        /\ UNCHANGED <<tty, win, line, called, winch>>
        /\ \/ Deliver(HeadKey(q), unmatched)
           \/ seen \in DOMAIN KeyTry /\ Deliver(KeyTry[seen], matched)
           \/ q' = fifo_peek(q) /\ ch \in Bytes /\ UNCHANGED <<result, owed>>
    BY <1>13, MatchSteps DEF Safe
  <2>2. Flagged' = Flagged /\ called' = called /\ (owed' => owed)
    BY <1>0, <2>1 DEF Flagged, winch, Deliver, Settle, TypeOK
  <2>3. ~Queued(q)
    BY <2>1, MatchingRing, Apart DEF Safe, Queued
  <2> QED BY <2>2, <2>3, WayFlagged
<1>14. CASE ReadByte
  <2> DEFINE b == Head(tty)
             pushed == fifo_push(q, b)
  <2>1. b \in Bytes /\ UNCHANGED <<called, have_sigwinch, sig_winch>> /\ Reading /\ pc = "key"
    BY <1>0, <1>14 DEF ReadByte, Reading, TypeOK, winch
  <2>2. Flagged' = Flagged
    BY <2>1 DEF Flagged
  <2>3. CASE win.keypad
    <3>1. q' = pushed /\ owed' = owed
      BY <1>14, <2>3 DEF ReadByte
    <3>2. Count(q') = Count(q) + 1 /\ \A i \in 0 .. Count(q) - 1 : At(q', i) = At(q, i)
      BY <1>0, <2>1, <3>1, PushSound, Apart DEF Orderly
    <3>3. \A i \in 0 .. Count(q) - 1 : i + 0 = i
      BY <1>0
    <3> QED BY <1>0, <2>1, <2>2, <3>1, <3>2, <3>3, WayKept
  <2>4. CASE ~win.keypad
    <3>1. ~Queued(q)
      BY <1>0, <2>1, <2>4, OrderlyRing DEF Reading, Queued
    <3>2. owed' => owed
      BY <1>0, <1>14, <2>4 DEF ReadByte, Deliver, Settle, TypeOK
    <3> QED BY <2>1, <2>2, <3>1, <3>2, WayFlagged
  <2> QED BY <2>3, <2>4
<1> QED BY <1>2, <1>3, <1>4, <1>5, <1>6, <1>7, <1>8, <1>9, <1>10, <1>11, <1>12, <1>13, <1>14
        DEF Next, Library, Application, Environment

(* A resize that the application was not told of has its KEY_RESIZE in the   *)
(* ring or a flag that will put it there, whatever is read, put back and     *)
(* flushed meanwhile, if no window reads whole lines.                        *)
THEOREM ResizeIsOnItsWay == ASSUME Roomy, NoLines PROVE Spec => []ResizeOnItsWay
<1>1. Init => OnItsWay
  BY DEF Init, OnItsWay
<1>2. Safe /\ Safe' /\ OnItsWay /\ [Next]_vars => OnItsWay'
  <2>1. CASE UNCHANGED vars
    BY <2>1 DEF vars, winch, OnItsWay, Flagged, Queued
  <2> QED BY <2>1, StepWay
<1>3. OnItsWay => ResizeOnItsWay
  BY DEF OnItsWay, Flagged, Queued, ResizeOnItsWay
<1> QED BY <1>1, <1>2, <1>3, QueueIsSafe, PTL DEF Spec

-----------------------------------------------------------------------------
(* The ring and the driver's bytes are one queue.                            *)

Item == [key : Entries, typed : BOOLEAN]

KeptIn(f) == IF Count(f) > 0 /\ At(f, Count(f) - 1) = ERR THEN Count(f) - 1 ELSE Count(f)
Queue(f, s, t) ==
    [i \in 1 .. KeptIn(f) + Len(t) |->
        IF i <= KeptIn(f) THEN [key |-> At(f, i - 1), typed |-> s # <<>> \/ i > Cooked(f)]
                          ELSE [key |-> t[i - KeptIn(f)], typed |-> TRUE]]

(* Functions on 1 .. n are sequences of length n.                            *)
LEMMA FunctionSeq ==
    ASSUME NEW S, NEW n \in Nat, NEW g \in [1 .. n -> S]
    PROVE  g \in Seq(S) /\ Len(g) = n
OBVIOUS

(* The queue's length and its items, place by place.                         *)
LEMMA QueueItems ==
    ASSUME NEW f, Orderly(f), NEW s, NEW t \in Seq(Bytes)
    PROVE  /\ KeptIn(f) \in 0 .. Count(f) /\ Len(t) \in Nat
           /\ Queue(f, s, t) \in Seq(Item) /\ Len(Queue(f, s, t)) = KeptIn(f) + Len(t)
           /\ \A i \in 1 .. KeptIn(f) :
                 Queue(f, s, t)[i] = [key |-> At(f, i - 1), typed |-> s # <<>> \/ i > Cooked(f)]
           /\ \A i \in KeptIn(f) + 1 .. KeptIn(f) + Len(t) :
                 Queue(f, s, t)[i] = [key |-> t[i - KeptIn(f)], typed |-> TRUE]
<1>1. KeptIn(f) \in 0 .. Count(f) /\ Len(t) \in Nat /\ Count(f) \in Nat
  BY OrderlyRing DEF KeptIn
<1>2. ASSUME NEW i \in 1 .. KeptIn(f) + Len(t)
      PROVE  (IF i <= KeptIn(f) THEN [key |-> At(f, i - 1), typed |-> s # <<>> \/ i > Cooked(f)]
                                ELSE [key |-> t[i - KeptIn(f)], typed |-> TRUE]) \in Item
  <2>1. CASE i <= KeptIn(f)
    <3>1. i - 1 \in 0 .. Count(f) - 1
      BY <1>1, <2>1
    <3>2. At(f, i - 1) \in Entries /\ (s # <<>> \/ i > Cooked(f)) \in BOOLEAN
      BY <3>1, Apart DEF Orderly
    <3> QED BY <2>1, <3>2 DEF Item
  <2>2. CASE ~(i <= KeptIn(f))
    <3>1. i - KeptIn(f) \in 1 .. Len(t)
      BY <1>1, <2>2
    <3>2. t[i - KeptIn(f)] \in Bytes
      BY <3>1
    <3> QED BY <2>2, <3>2, KeyTypes DEF Item
  <2> QED BY <2>1, <2>2
<1>3. Queue(f, s, t) \in Seq(Item) /\ Len(Queue(f, s, t)) = KeptIn(f) + Len(t)
  <2>1. Queue(f, s, t) \in [1 .. KeptIn(f) + Len(t) -> Item]
    BY <1>2 DEF Queue
  <2>2. KeptIn(f) + Len(t) \in Nat
    BY <1>1
  <2> QED BY <2>1, <2>2, FunctionSeq
<1>4. \A i \in 1 .. KeptIn(f) :
         Queue(f, s, t)[i] = [key |-> At(f, i - 1), typed |-> s # <<>> \/ i > Cooked(f)]
  BY <1>1 DEF Queue
<1>5. \A i \in KeptIn(f) + 1 .. KeptIn(f) + Len(t) :
         Queue(f, s, t)[i] = [key |-> t[i - KeptIn(f)], typed |-> TRUE]
  BY <1>1 DEF Queue
<1> QED BY <1>1, <1>3, <1>4, <1>5

(* What is left of a sequence.                                               *)
LEMMA Behind ==
    ASSUME NEW S, NEW a \in Seq(S), NEW b \in Seq(S), NEW n \in 0 .. Len(a),
           Len(b) = Len(a) - n, \A i \in 1 .. Len(b) : b[i] = a[i + n]
    PROVE  /\ b = SubSeq(a, n + 1, Len(a))
           /\ n = 0 => b = a
           /\ n = 1 => a # <<>> /\ b = Tail(a)
<1>1. Len(a) \in Nat /\ n + 1 \in Int /\ Len(a) \in Int /\ \A i \in n + 1 .. Len(a) : a[i] \in S
  OBVIOUS
<1>2. b = SubSeq(a, n + 1, Len(a))
  <2> DEFINE c == SubSeq(a, n + 1, Len(a))
  <2>1. /\ c \in Seq(S) /\ Len(c) = IF n + 1 <= Len(a) THEN Len(a) - (n + 1) + 1 ELSE 0
        /\ \A i \in 1 .. Len(a) - (n + 1) + 1 : c[i] = a[n + 1 + i - 1]
    BY <1>1, SubSeqProperties
  <2> HIDE DEF c
  <2>2. Len(c) = Len(b) /\ \A i \in 1 .. Len(b) : c[i] = b[i]
    BY <1>1, <2>1
  <2>3. c = b
    BY <2>1, <2>2, SeqEqual
  <2> QED BY <2>3 DEF c
<1>3. n = 0 => b = a
  BY SeqEqual
<1>4. ASSUME n = 1 PROVE a # <<>> /\ b = Tail(a)
  <2>1. a # <<>>
    BY <1>4
  <2>2. Tail(a) \in Seq(S) /\ Len(Tail(a)) = Len(a) - 1 /\ \A i \in 1 .. Len(Tail(a)) : Tail(a)[i] = a[i + 1]
    BY <2>1, HeadTailProperties
  <2> QED BY <1>4, <2>1, <2>2, SeqEqual
<1> QED BY <1>2, <1>3, <1>4

(* A ring that lost its first n keys.                                        *)
Loses(f, s, n, p, r) ==
    /\ n \in 0 .. KeptIn(f) /\ Count(p) = Count(f) - n
    /\ \A i \in 0 .. Count(p) - 1 : At(p, i) = At(f, i + n)
    /\ \A i \in 1 .. Count(p) : r # <<>> \/ i > Cooked(p) <=> s # <<>> \/ i + n > Cooked(f)

(* The queue of a ring that lost its first n keys lost its first n items.    *)
LEMMA Dropped ==
    ASSUME NEW f, Orderly(f), NEW p, Orderly(p), NEW s, NEW r, NEW t \in Seq(Bytes),
           NEW n, Loses(f, s, n, p, r)
    PROVE  /\ n \in 0 .. Len(Queue(f, s, t)) /\ Len(Queue(p, r, t)) = Len(Queue(f, s, t)) - n
           /\ \A i \in 1 .. Len(Queue(p, r, t)) : Queue(p, r, t)[i] = Queue(f, s, t)[i + n]
<1>0. /\ n \in 0 .. KeptIn(f) /\ Count(p) = Count(f) - n
      /\ \A i \in 0 .. Count(p) - 1 : At(p, i) = At(f, i + n)
      /\ \A i \in 1 .. Count(p) : r # <<>> \/ i > Cooked(p) <=> s # <<>> \/ i + n > Cooked(f)
  BY DEF Loses
<1>1. Count(f) \in Nat /\ Count(p) \in Nat /\ KeptIn(f) \in 0 .. Count(f)
  BY OrderlyRing DEF KeptIn
<1>2. KeptIn(p) = KeptIn(f) - n
  <2>1. Count(p) > 0 => At(p, Count(p) - 1) = At(f, Count(f) - 1)
    <3>1. SUFFICES ASSUME Count(p) > 0 PROVE At(p, Count(p) - 1) = At(f, Count(f) - 1)
      OBVIOUS
    <3>2. Count(p) - 1 \in 0 .. Count(p) - 1 /\ (Count(p) - 1) + n = Count(f) - 1
      BY <1>0, <1>1, <3>1
    <3>3. At(p, Count(p) - 1) = At(f, (Count(p) - 1) + n)
      BY <1>0, <3>2
    <3> QED BY <3>2, <3>3
  <2> QED BY <1>0, <1>1, <2>1 DEF KeptIn
<1> DEFINE a == Queue(f, s, t)
           b == Queue(p, r, t)
<1>3. /\ KeptIn(f) \in 0 .. Count(f) /\ Len(t) \in Nat /\ Len(a) = KeptIn(f) + Len(t)
      /\ \A i \in 1 .. KeptIn(f) : a[i] = [key |-> At(f, i - 1), typed |-> s # <<>> \/ i > Cooked(f)]
      /\ \A i \in KeptIn(f) + 1 .. KeptIn(f) + Len(t) : a[i] = [key |-> t[i - KeptIn(f)], typed |-> TRUE]
  BY QueueItems
<1>4. /\ KeptIn(p) \in 0 .. Count(p) /\ Len(b) = KeptIn(p) + Len(t)
      /\ \A i \in 1 .. KeptIn(p) : b[i] = [key |-> At(p, i - 1), typed |-> r # <<>> \/ i > Cooked(p)]
      /\ \A i \in KeptIn(p) + 1 .. KeptIn(p) + Len(t) : b[i] = [key |-> t[i - KeptIn(p)], typed |-> TRUE]
  BY QueueItems
<1> HIDE DEF a, b
<1>5. ASSUME NEW i \in 1 .. Len(b) PROVE b[i] = a[i + n]
  <2>1. CASE i <= KeptIn(p)
    <3>1. i \in 1 .. KeptIn(p) /\ i + n \in 1 .. KeptIn(f) /\ i - 1 \in 0 .. Count(p) - 1 /\ i \in 1 .. Count(p)
          /\ (i - 1) + n = (i + n) - 1
      BY <1>0, <1>1, <1>2, <1>4, <2>1
    <3>2. At(p, i - 1) = At(f, (i + n) - 1)
      BY <1>0, <3>1
    <3>3. (r # <<>> \/ i > Cooked(p)) = (s # <<>> \/ i + n > Cooked(f))
      BY <1>0, <3>1
    <3>4. b[i] = [key |-> At(p, i - 1), typed |-> r # <<>> \/ i > Cooked(p)]
      BY <1>4, <3>1
    <3>5. a[i + n] = [key |-> At(f, (i + n) - 1), typed |-> s # <<>> \/ i + n > Cooked(f)]
      BY <1>3, <3>1
    <3> QED BY <3>2, <3>3, <3>4, <3>5
  <2>2. CASE ~(i <= KeptIn(p))
    <3>1. /\ i \in KeptIn(p) + 1 .. KeptIn(p) + Len(t) /\ i + n \in KeptIn(f) + 1 .. KeptIn(f) + Len(t)
          /\ (i + n) - KeptIn(f) = i - KeptIn(p)
      <4>1. /\ KeptIn(f) \in Nat /\ Len(t) \in Nat /\ n \in 0 .. KeptIn(f)
            /\ KeptIn(p) = KeptIn(f) - n /\ Len(b) = KeptIn(p) + Len(t)
        BY <1>0, <1>1, <1>2, <1>3, <1>4
      <4> QED BY <4>1, <2>2
    <3>2. b[i] = [key |-> t[i - KeptIn(p)], typed |-> TRUE]
      BY <1>4, <3>1
    <3>3. a[i + n] = [key |-> t[(i + n) - KeptIn(f)], typed |-> TRUE]
      BY <1>3, <3>1
    <3> QED BY <3>1, <3>2, <3>3
  <2> QED BY <2>1, <2>2
<1>6. n \in 0 .. Len(a) /\ Len(b) = Len(a) - n
  BY <1>0, <1>1, <1>2, <1>3, <1>4
<1> QED BY <1>5, <1>6 DEF a, b

(* A step after which the queue is the same, or shorter by its first keys.   *)
LEMMA Same ==
    ASSUME NEW f, Orderly(f), NEW p, Orderly(p), NEW s, NEW r, NEW t \in Seq(Bytes),
           Count(p) = Count(f), \A i \in 0 .. Count(f) - 1 : At(p, i) = At(f, i),
           \A i \in 1 .. Count(f) : r # <<>> \/ i > Cooked(p) <=> s # <<>> \/ i > Cooked(f)
    PROVE  Queue(p, r, t) = Queue(f, s, t)
<1> DEFINE n == 0
           a == Queue(f, s, t)
           b == Queue(p, r, t)
<1>1. Count(f) \in Nat /\ a \in Seq(Item) /\ b \in Seq(Item)
  BY QueueItems, OrderlyRing
<1>2. Loses(f, s, n, p, r)
  <2>1. KeptIn(f) \in 0 .. Count(f)
    BY <1>1 DEF KeptIn
  <2>2. \A i \in 0 .. Count(p) - 1 : At(p, i) = At(f, i + n)
    BY <1>1
  <2>3. \A i \in 1 .. Count(p) : r # <<>> \/ i > Cooked(p) <=> s # <<>> \/ i + n > Cooked(f)
    BY <1>1
  <2> QED BY <1>1, <2>1, <2>2, <2>3 DEF Loses
<1>3. n = 0
  OBVIOUS
<1> HIDE DEF n
<1>4. n \in 0 .. Len(a) /\ Len(b) = Len(a) - n /\ \A i \in 1 .. Len(b) : b[i] = a[i + n]
  BY <1>2, Dropped
<1> HIDE DEF a, b
<1>5. b = a
  BY <1>1, <1>3, <1>4, Behind
<1> QED BY <1>5 DEF a, b

(* An entry is put in front, or a byte arrives at the back.                  *)
LEMMA InFront ==
    ASSUME NEW f, Orderly(f), NEW p, Orderly(p), NEW t \in Seq(Bytes), NEW ch \in Known,
           Count(p) = Count(f) + 1, Cooked(p) = Cooked(f) + 1, At(p, 0) = ch,
           \A i \in 0 .. Count(f) - 1 : At(p, i + 1) = At(f, i)
    PROVE  Queue(p, <<>>, t) = <<[key |-> ch, typed |-> FALSE]>> \o Queue(f, <<>>, t)
<1> DEFINE a == Queue(f, <<>>, t)
           b == Queue(p, <<>>, t)
           c == <<[key |-> ch, typed |-> FALSE]>>
<1>1. Count(f) \in Nat /\ Cooked(f) \in Nat /\ ch # ERR /\ ch \in Entries
  BY OrderlyRing, Apart
<1>2. /\ KeptIn(f) \in 0 .. Count(f) /\ Len(t) \in Nat /\ a \in Seq(Item) /\ Len(a) = KeptIn(f) + Len(t)
      /\ \A i \in 1 .. KeptIn(f) : a[i] = [key |-> At(f, i - 1), typed |-> <<>> # <<>> \/ i > Cooked(f)]
      /\ \A i \in KeptIn(f) + 1 .. KeptIn(f) + Len(t) : a[i] = [key |-> t[i - KeptIn(f)], typed |-> TRUE]
  BY QueueItems
<1>3. /\ b \in Seq(Item) /\ Len(b) = KeptIn(p) + Len(t)
      /\ \A i \in 1 .. KeptIn(p) : b[i] = [key |-> At(p, i - 1), typed |-> <<>> # <<>> \/ i > Cooked(p)]
      /\ \A i \in KeptIn(p) + 1 .. KeptIn(p) + Len(t) : b[i] = [key |-> t[i - KeptIn(p)], typed |-> TRUE]
  BY QueueItems
<1> HIDE DEF a, b
<1>4. KeptIn(p) = KeptIn(f) + 1
  <2>1. At(p, Count(p) - 1) = IF Count(f) = 0 THEN ch ELSE At(f, Count(f) - 1)
    <3>1. CASE Count(f) = 0
      BY <3>1
    <3>2. CASE Count(f) # 0
      <4>1. Count(f) - 1 \in 0 .. Count(f) - 1 /\ (Count(f) - 1) + 1 = Count(p) - 1
        BY <1>1, <3>2
      <4>2. At(p, (Count(f) - 1) + 1) = At(f, Count(f) - 1)
        BY <4>1
      <4> QED BY <3>2, <4>1, <4>2
    <3> QED BY <3>1, <3>2
  <2> QED BY <1>1, <2>1 DEF KeptIn
<1>5. /\ c \in Seq(Item) /\ Len(c) = 1 /\ c[1] = [key |-> ch, typed |-> FALSE]
  BY <1>1 DEF Item
<1> HIDE DEF c
<1>6. /\ c \o a \in Seq(Item) /\ Len(c \o a) = Len(a) + 1
      /\ (c \o a)[1] = [key |-> ch, typed |-> FALSE]
      /\ \A i \in 2 .. Len(a) + 1 : (c \o a)[i] = a[i - 1]
  <2>1. /\ c \o a \in Seq(Item) /\ Len(c \o a) = Len(c) + Len(a)
        /\ \A i \in 1 .. Len(c) + Len(a) : (c \o a)[i] = IF i <= Len(c) THEN c[i] ELSE a[i - Len(c)]
    <3>1. c \in Seq(Item) /\ a \in Seq(Item)
      BY <1>2, <1>5
    <3> HIDE DEF Item
    <3> QED BY <3>1, ConcatProperties, Zenon
  <2>2. Len(a) \in Nat
    BY <1>2
  <2> DEFINE d == c \o a
  <2>3. /\ d \in Seq(Item) /\ Len(d) = 1 + Len(a)
        /\ \A i \in 1 .. 1 + Len(a) : d[i] = IF i <= 1 THEN c[i] ELSE a[i - 1]
    BY <1>5, <2>1
  <2> HIDE DEF d
  <2>4. d[1] = c[1] /\ \A i \in 2 .. Len(a) + 1 : d[i] = a[i - 1]
    BY <2>2, <2>3
  <2> QED BY <1>5, <2>2, <2>3, <2>4 DEF d
<1>7. ASSUME NEW i \in 1 .. Len(b) PROVE b[i] = (c \o a)[i]
  <2>1. CASE i = 1
    <3>1. i \in 1 .. KeptIn(p) /\ ~(i > Cooked(p)) /\ At(p, i - 1) = ch
      BY <1>1, <1>2, <1>4, <2>1
    <3>2. (<<>> # <<>> \/ i > Cooked(p)) = FALSE
      BY <3>1
    <3>3. b[i] = [key |-> At(p, i - 1), typed |-> <<>> # <<>> \/ i > Cooked(p)]
      BY <1>3, <3>1
    <3> QED BY <1>6, <2>1, <3>1, <3>2, <3>3
  <2>2. CASE i # 1 /\ i <= KeptIn(p)
    <3>1. /\ i \in 1 .. KeptIn(p) /\ i - 1 \in 1 .. KeptIn(f) /\ i \in 2 .. Len(a) + 1
          /\ (i - 1) - 1 \in 0 .. Count(f) - 1 /\ ((i - 1) - 1) + 1 = i - 1
      <4>1. /\ KeptIn(f) \in 0 .. Count(f) /\ Len(t) \in Nat /\ Count(f) \in Nat
            /\ Len(a) = KeptIn(f) + Len(t) /\ KeptIn(p) = KeptIn(f) + 1 /\ Len(b) = KeptIn(p) + Len(t)
        BY <1>1, <1>2, <1>3, <1>4
      <4> QED BY <4>1, <2>2
    <3>2. At(p, i - 1) = At(f, (i - 1) - 1)
      BY <3>1
    <3>3. (<<>> # <<>> \/ i > Cooked(p)) = (<<>> # <<>> \/ i - 1 > Cooked(f))
      BY <1>1, <3>1
    <3>4. b[i] = [key |-> At(p, i - 1), typed |-> <<>> # <<>> \/ i > Cooked(p)]
      BY <1>3, <3>1
    <3>5. a[i - 1] = [key |-> At(f, (i - 1) - 1), typed |-> <<>> # <<>> \/ i - 1 > Cooked(f)]
      BY <1>2, <3>1
    <3>6. (c \o a)[i] = a[i - 1]
      BY <1>6, <3>1
    <3> QED BY <3>2, <3>3, <3>4, <3>5, <3>6
  <2>3. CASE ~(i <= KeptIn(p))
    <3>1. /\ i \in KeptIn(p) + 1 .. KeptIn(p) + Len(t) /\ i - 1 \in KeptIn(f) + 1 .. KeptIn(f) + Len(t)
          /\ (i - 1) - KeptIn(f) = i - KeptIn(p) /\ i \in 2 .. Len(a) + 1
      <4>1. /\ KeptIn(f) \in Nat /\ Len(t) \in Nat /\ Len(a) = KeptIn(f) + Len(t)
            /\ KeptIn(p) = KeptIn(f) + 1 /\ Len(b) = KeptIn(p) + Len(t)
        BY <1>1, <1>2, <1>3, <1>4
      <4> QED BY <4>1, <2>3
    <3>2. b[i] = [key |-> t[i - KeptIn(p)], typed |-> TRUE]
      BY <1>3, <3>1
    <3>3. a[i - 1] = [key |-> t[(i - 1) - KeptIn(f)], typed |-> TRUE]
      BY <1>2, <3>1
    <3>4. (c \o a)[i] = a[i - 1]
      BY <1>6, <3>1
    <3> QED BY <3>1, <3>2, <3>3, <3>4
  <2> QED BY <1>2, <2>1, <2>2, <2>3
<1>8. Len(b) = Len(c \o a)
  BY <1>2, <1>3, <1>4, <1>6
<1>9. b = c \o a
  BY <1>3, <1>6, <1>7, <1>8, SeqEqual
<1> QED BY <1>9 DEF a, b, c

(* A byte that arrives is the last item.                                     *)
LEMMA AtBack ==
    ASSUME NEW f, Orderly(f), NEW s, NEW t \in Seq(Bytes), NEW ch \in Bytes
    PROVE  Queue(f, s, Append(t, ch)) = Append(Queue(f, s, t), [key |-> ch, typed |-> TRUE])
<1> DEFINE u == Append(t, ch)
           a == Queue(f, s, t)
           b == Queue(f, s, u)
           x == [key |-> ch, typed |-> TRUE]
           c == Append(a, x)
<1>1. /\ u \in Seq(Bytes) /\ Len(u) = Len(t) + 1 /\ u[Len(t) + 1] = ch
      /\ \A i \in 1 .. Len(t) : u[i] = t[i]
  <2>1. Append(t, ch) \in Seq(Bytes) /\ Len(Append(t, ch)) = Len(t) + 1
    BY AppendProperties
  <2>2. Append(t, ch)[Len(t) + 1] = ch
    BY AppendProperties
  <2>3. \A i \in 1 .. Len(t) : Append(t, ch)[i] = t[i]
    BY AppendProperties
  <2> QED BY <2>1, <2>2, <2>3
<1>2. x \in Item
  BY KeyTypes DEF Item
<1> HIDE DEF u, x
<1>3. /\ KeptIn(f) \in Nat /\ Len(t) \in Nat /\ a \in Seq(Item) /\ Len(a) = KeptIn(f) + Len(t)
      /\ \A i \in 1 .. KeptIn(f) : a[i] = [key |-> At(f, i - 1), typed |-> s # <<>> \/ i > Cooked(f)]
      /\ \A i \in KeptIn(f) + 1 .. KeptIn(f) + Len(t) : a[i] = [key |-> t[i - KeptIn(f)], typed |-> TRUE]
  BY QueueItems, OrderlyRing
<1>4. /\ b \in Seq(Item) /\ Len(b) = KeptIn(f) + Len(u)
      /\ \A i \in 1 .. KeptIn(f) : b[i] = [key |-> At(f, i - 1), typed |-> s # <<>> \/ i > Cooked(f)]
      /\ \A i \in KeptIn(f) + 1 .. KeptIn(f) + Len(u) : b[i] = [key |-> u[i - KeptIn(f)], typed |-> TRUE]
  BY <1>1, QueueItems
<1> HIDE DEF a, b
<1>5. /\ c \in Seq(Item) /\ Len(c) = Len(a) + 1 /\ c[Len(a) + 1] = x
      /\ \A i \in 1 .. Len(a) : c[i] = a[i]
  BY <1>2, <1>3, AppendProperties
<1> HIDE DEF c
<1>6. ASSUME NEW i \in 1 .. Len(b) PROVE b[i] = c[i]
  <2>1. CASE i <= KeptIn(f)
    <3>1. i \in 1 .. KeptIn(f) /\ i \in 1 .. Len(a)
      BY <1>3, <2>1
    <3> QED BY <1>3, <1>4, <1>5, <3>1
  <2>2. CASE ~(i <= KeptIn(f)) /\ i # Len(a) + 1
    <3>1. /\ i \in KeptIn(f) + 1 .. KeptIn(f) + Len(t) /\ i \in KeptIn(f) + 1 .. KeptIn(f) + Len(u)
          /\ i \in 1 .. Len(a) /\ i - KeptIn(f) \in 1 .. Len(t)
      BY <1>1, <1>3, <1>4, <2>2
    <3>2. a[i] = [key |-> t[i - KeptIn(f)], typed |-> TRUE]
      BY <1>3, <3>1
    <3>3. b[i] = [key |-> u[i - KeptIn(f)], typed |-> TRUE]
      BY <1>4, <3>1
    <3>4. u[i - KeptIn(f)] = t[i - KeptIn(f)] /\ c[i] = a[i]
      BY <1>1, <1>5, <3>1
    <3> QED BY <3>2, <3>3, <3>4
  <2>3. CASE ~(i <= KeptIn(f)) /\ i = Len(a) + 1
    <3>1. i \in KeptIn(f) + 1 .. KeptIn(f) + Len(u) /\ i - KeptIn(f) = Len(t) + 1
      BY <1>1, <1>3, <1>4, <2>3
    <3> QED BY <1>1, <1>4, <1>5, <2>3, <3>1 DEF x
  <2> QED BY <2>1, <2>2, <2>3
<1>7. Len(b) = Len(c)
  BY <1>1, <1>3, <1>4, <1>5
<1>8. b = c
  BY <1>4, <1>5, <1>6, <1>7, SeqEqual
<1> QED BY <1>8 DEF a, b, c, u, x

(* A byte goes from the driver to the ring.                                  *)
LEMMA Moved ==
    ASSUME NEW f, Orderly(f), NEW p, Orderly(p), NEW s, NEW t \in Seq(Bytes), t # <<>>,
           Cooked(f) = Count(f), Cooked(p) = Count(f), s # <<>> \/ Count(f) = 0, OnlyBytes(f),
           Count(p) = Count(f) + 1, At(p, Count(f)) = Head(t),
           \A i \in 0 .. Count(f) - 1 : At(p, i) = At(f, i)
    PROVE  Queue(p, s, Tail(t)) = Queue(f, s, t)
<1> DEFINE u == Tail(t)
           a == Queue(f, s, t)
           b == Queue(p, s, u)
<1>1. /\ u \in Seq(Bytes) /\ Len(u) = Len(t) - 1 /\ Head(t) = t[1] /\ Head(t) \in Bytes
      /\ \A i \in 1 .. Len(u) : u[i] = t[i + 1]
      /\ Len(t) \in Nat /\ Len(t) > 0
  BY HeadTailProperties, NotEmpty
<1>2. Count(f) \in Nat
  BY OrderlyRing
<1>3. KeptIn(f) = Count(f) /\ KeptIn(p) = Count(f) + 1
  <2>1. Count(f) > 0 => At(f, Count(f) - 1) \in Bytes
    BY <1>2 DEF OnlyBytes
  <2>2. At(p, Count(p) - 1) = Head(t)
    BY <1>2
  <2> QED BY <1>1, <1>2, <2>1, <2>2, Apart DEF KeptIn
<1> HIDE DEF u
<1>4. /\ a \in Seq(Item) /\ Len(a) = KeptIn(f) + Len(t)
      /\ \A i \in 1 .. KeptIn(f) : a[i] = [key |-> At(f, i - 1), typed |-> s # <<>> \/ i > Cooked(f)]
      /\ \A i \in KeptIn(f) + 1 .. KeptIn(f) + Len(t) : a[i] = [key |-> t[i - KeptIn(f)], typed |-> TRUE]
  <2>1. a \in Seq(Item) /\ Len(a) = KeptIn(f) + Len(t)
    BY QueueItems
  <2>2. \A i \in 1 .. KeptIn(f) : a[i] = [key |-> At(f, i - 1), typed |-> s # <<>> \/ i > Cooked(f)]
    BY QueueItems
  <2>3. \A i \in KeptIn(f) + 1 .. KeptIn(f) + Len(t) : a[i] = [key |-> t[i - KeptIn(f)], typed |-> TRUE]
    BY QueueItems
  <2> HIDE DEF a
  <2> QED BY <2>1, <2>2, <2>3
<1>5. /\ b \in Seq(Item) /\ Len(b) = KeptIn(p) + Len(u)
      /\ \A i \in 1 .. KeptIn(p) : b[i] = [key |-> At(p, i - 1), typed |-> s # <<>> \/ i > Cooked(p)]
      /\ \A i \in KeptIn(p) + 1 .. KeptIn(p) + Len(u) : b[i] = [key |-> u[i - KeptIn(p)], typed |-> TRUE]
  <2>1. b \in Seq(Item) /\ Len(b) = KeptIn(p) + Len(u)
    BY <1>1, QueueItems
  <2>2. \A i \in 1 .. KeptIn(p) : b[i] = [key |-> At(p, i - 1), typed |-> s # <<>> \/ i > Cooked(p)]
    BY <1>1, QueueItems
  <2>3. \A i \in KeptIn(p) + 1 .. KeptIn(p) + Len(u) : b[i] = [key |-> u[i - KeptIn(p)], typed |-> TRUE]
    BY <1>1, QueueItems
  <2> HIDE DEF b
  <2> QED BY <2>1, <2>2, <2>3
<1> HIDE DEF a, b
<1>6. ASSUME NEW i \in 1 .. Len(b) PROVE b[i] = a[i]
  <2>1. CASE i <= KeptIn(f)
    <3>1. i \in 1 .. KeptIn(f) /\ i \in 1 .. KeptIn(p) /\ i - 1 \in 0 .. Count(f) - 1 /\ Count(f) # 0
      BY <1>2, <1>3, <2>1
    <3>2. (s # <<>> \/ i > Cooked(p)) = (s # <<>> \/ i > Cooked(f))
      BY <3>1
    <3>3. At(p, i - 1) = At(f, i - 1)
      BY <3>1
    <3>4. a[i] = [key |-> At(f, i - 1), typed |-> s # <<>> \/ i > Cooked(f)]
      BY <1>4, <3>1
    <3>5. b[i] = [key |-> At(p, i - 1), typed |-> s # <<>> \/ i > Cooked(p)]
      BY <1>5, <3>1
    <3> QED BY <3>2, <3>3, <3>4, <3>5
  <2>2. CASE i = KeptIn(p)
    <3>1. i \in 1 .. KeptIn(p) /\ i \in KeptIn(f) + 1 .. KeptIn(f) + Len(t) /\ i - KeptIn(f) = 1
          /\ i - 1 = Count(f)
      BY <1>1, <1>2, <1>3, <2>2
    <3>2. (s # <<>> \/ i > Cooked(p)) = TRUE
      BY <1>2, <1>3, <2>2
    <3>3. At(p, i - 1) = t[i - KeptIn(f)]
      BY <1>1, <3>1
    <3>4. a[i] = [key |-> t[i - KeptIn(f)], typed |-> TRUE]
      BY <1>4, <3>1
    <3>5. b[i] = [key |-> At(p, i - 1), typed |-> s # <<>> \/ i > Cooked(p)]
      BY <1>5, <3>1
    <3> QED BY <3>2, <3>3, <3>4, <3>5
  <2>3. CASE ~(i <= KeptIn(p))
    <3>1. /\ i \in KeptIn(p) + 1 .. KeptIn(p) + Len(u) /\ i \in KeptIn(f) + 1 .. KeptIn(f) + Len(t)
          /\ i - KeptIn(p) \in 1 .. Len(u) /\ (i - KeptIn(p)) + 1 = i - KeptIn(f)
      <4>1. /\ Count(f) \in Nat /\ KeptIn(f) = Count(f) /\ KeptIn(p) = Count(f) + 1
            /\ Len(t) \in Nat /\ Len(u) = Len(t) - 1 /\ Len(b) = KeptIn(p) + Len(u)
        BY <1>1, <1>2, <1>3, <1>5
      <4> QED BY <4>1, <2>3
    <3>2. u[i - KeptIn(p)] = t[i - KeptIn(f)]
      BY <1>1, <3>1
    <3>3. a[i] = [key |-> t[i - KeptIn(f)], typed |-> TRUE]
      BY <1>4, <3>1
    <3>4. b[i] = [key |-> u[i - KeptIn(p)], typed |-> TRUE]
      BY <1>5, <3>1
    <3> QED BY <3>2, <3>3, <3>4
  <2> QED BY <1>2, <1>3, <2>1, <2>2, <2>3
<1>7. Len(b) = Len(a)
  BY <1>1, <1>2, <1>3, <1>4, <1>5
<1>8. b = a
  BY <1>4, <1>5, <1>6, <1>7, SeqEqual
<1> QED BY <1>8 DEF a, b, u

-----------------------------------------------------------------------------
(* The queue of the refinement, before and after a step.                     *)
LEMMA QueueIs ==
    /\ QueuedKeys = Queue(q, node, tty)
    /\ QueuedKeys' = Queue(q', node', tty')
BY DEF QueuedKeys, Kept, Queue, KeptIn

(* Rings with no key in them, but perhaps the ERR of a failed read.          *)
LEMMA Drained ==
    ASSUME NEW f, Orderly(f), NEW p, Orderly(p), NEW s, NEW r, NEW t \in Seq(Bytes),
           KeptIn(f) = 0, KeptIn(p) = 0
    PROVE  Queue(p, r, t) = Queue(f, s, t)
<1> DEFINE a == Queue(f, s, t)
           b == Queue(p, r, t)
<1>1. /\ a \in Seq(Item) /\ Len(a) = KeptIn(f) + Len(t) /\ Len(t) \in Nat
      /\ \A i \in KeptIn(f) + 1 .. KeptIn(f) + Len(t) : a[i] = [key |-> t[i - KeptIn(f)], typed |-> TRUE]
  BY QueueItems
<1>2. /\ b \in Seq(Item) /\ Len(b) = KeptIn(p) + Len(t)
      /\ \A i \in KeptIn(p) + 1 .. KeptIn(p) + Len(t) : b[i] = [key |-> t[i - KeptIn(p)], typed |-> TRUE]
  BY QueueItems
<1> HIDE DEF a, b
<1>3. Len(a) = Len(t) /\ Len(b) = Len(t)
  BY <1>1, <1>2
<1>4. ASSUME NEW i \in 1 .. Len(a) PROVE a[i] = b[i]
  <2>1. /\ i \in KeptIn(f) + 1 .. KeptIn(f) + Len(t) /\ i \in KeptIn(p) + 1 .. KeptIn(p) + Len(t)
        /\ i - KeptIn(f) = i - KeptIn(p)
    BY <1>1, <1>3
  <2> QED BY <1>1, <1>2, <2>1
<1>5. a = b
  BY <1>1, <1>2, <1>3, <1>4, SeqEqual
<1> QED BY <1>5 DEF a, b

(* What fifo_pull() returns is the first of the queue, or the ERR that is    *)
(* not in it.                                                                *)
LEMMA TakeOrFail ==
    ASSUME NEW f, Orderly(f), NEW p, Orderly(p), NEW s, NEW r, NEW t \in Seq(Bytes),
           QueuedKeys = Queue(f, s, t), QueuedKeys' = Queue(p, r, t), result' = HeadKey(f),
           Count(p) = IF Count(f) = 0 THEN 0 ELSE Count(f) - 1,
           Count(f) > 0 /\ HeadKey(f) # ERR =>
              /\ \A i \in 0 .. Count(f) - 2 : At(p, i) = At(f, i + 1)
              /\ \A i \in 1 .. Count(f) - 1 : r # <<>> \/ i > Cooked(p) <=> s # <<>> \/ i + 1 > Cooked(f)
    PROVE  KQ!Next
<1>1. Count(f) \in Nat /\ HeadKey(f) = IF Count(f) > 0 THEN At(f, 0) ELSE ERR
  BY OrderlyRing
<1>2. CASE HeadKey(f) = ERR
  <2>1. Count(f) = 0 \/ (Count(f) = 1 /\ At(f, 0) = ERR)
    BY <1>1, <1>2, OrderlyRing
  <2>2. KeptIn(f) = 0 /\ KeptIn(p) = 0
    BY <2>1 DEF KeptIn
  <2>3. QueuedKeys' = QueuedKeys
    BY <2>2, Drained
  <2> QED BY <1>2, <2>3 DEF KQ!Next, KQ!Fail
<1>3. CASE HeadKey(f) # ERR
  <2> DEFINE n == 1
             a == Queue(f, s, t)
             b == Queue(p, r, t)
  <2>1. Count(f) > 0 /\ At(f, 0) # ERR
    BY <1>1, <1>3
  <2>2. KeptIn(f) \in 1 .. Count(f)
    BY <1>1, <2>1 DEF KeptIn
  <2>3. Loses(f, s, n, p, r)
    <3>1. Count(p) = Count(f) - 1
      BY <1>1, <2>1
    <3> QED BY <1>1, <1>3, <2>1, <2>2, <3>1 DEF Loses
  <2>4. n = 1
    OBVIOUS
  <2> HIDE DEF n
  <2>5. /\ n \in 0 .. Len(a) /\ Len(b) = Len(a) - n /\ a \in Seq(Item) /\ b \in Seq(Item)
        /\ \A i \in 1 .. Len(b) : b[i] = a[i + n]
    <3>1. a \in Seq(Item) /\ b \in Seq(Item)
      BY QueueItems
    <3>2. n \in 0 .. Len(a) /\ Len(b) = Len(a) - n /\ \A i \in 1 .. Len(b) : b[i] = a[i + n]
      BY <2>3, Dropped
    <3> QED BY <3>1, <3>2
  <2>6. a[1] = [key |-> At(f, 0), typed |-> s # <<>> \/ 1 > Cooked(f)]
    <3>1. 1 \in 1 .. KeptIn(f) /\ 1 - 1 = 0
      BY <2>2
    <3>2. a[1] = [key |-> At(f, 1 - 1), typed |-> s # <<>> \/ 1 > Cooked(f)]
      BY <3>1, QueueItems
    <3> QED BY <3>1, <3>2
  <2> HIDE DEF a, b
  <2>7. a # <<>> /\ b = Tail(a)
    BY <2>4, <2>5, Behind
  <2>8. Head(a) = a[1]
    BY <2>5, <2>7, HeadTailProperties
  <2>9. result' = Head(a).key
    BY <1>1, <2>1, <2>6, <2>8
  <2>10. QueuedKeys = a /\ QueuedKeys' = b
    BY DEF a, b
  <2> QED BY <2>7, <2>9, <2>10 DEF KQ!Next, KQ!Take
<1> QED BY <1>2, <1>3

(* A step that takes the first key of the ring.                              *)
LEMMA TakeStep ==
    ASSUME TypeOK, QueueInv, NEW p, Orderly(p), q' = p, tty' = tty, result' = HeadKey(q),
           Count(p) = IF Count(q) = 0 THEN 0 ELSE Count(q) - 1,
           Count(q) > 0 => \A i \in 0 .. Count(p) - 1 : At(p, i) = At(q, i + 1),
           \/ Cooked(p) = 0 /\ (node # <<>> \/ Cooked(q) <= 1)
           \/ /\ node = <<>> /\ node' = <<>>
              /\ Cooked(p) = IF Cooked(q) = 0 THEN 0 ELSE Cooked(q) - 1
    PROVE  KQ!Next
<1>1. /\ tty \in Seq(Bytes) /\ Orderly(q) /\ Count(q) \in Nat /\ Cooked(q) \in Nat
  BY OrderlyRing DEF TypeOK, QueueInv
<1>2. QueuedKeys = Queue(q, node, tty) /\ QueuedKeys' = Queue(p, node', tty)
  BY QueueIs
<1>3. Count(q) > 0 => \A i \in 0 .. Count(q) - 2 : At(p, i) = At(q, i + 1)
  BY <1>1
<1>4. \A i \in 1 .. Count(q) - 1 : node' # <<>> \/ i > Cooked(p) <=> node # <<>> \/ i + 1 > Cooked(q)
  BY <1>1
<1> QED BY <1>1, <1>2, <1>3, <1>4, TakeOrFail

(* A step that leaves ring, driver and result alone leaves the queue alone.  *)
LEMMA Stutters == UNCHANGED <<q, tty, node, result>> => UNCHANGED <<QueuedKeys, result>>
BY QueueIs

(* A key put before the others.                                              *)
LEMMA UngetStep ==
    ASSUME Safe, Safe', NEW ch \in Known, q' = safe_ungetch(q, ch),
           node = <<>>, UNCHANGED <<tty, node, result>>
    PROVE  KQ!Next
<1>1. Orderly(q) /\ Orderly(q') /\ tty \in Seq(Bytes) /\ ch \in Entries /\ HasRoom(safe_ungetch(q, ch))
  BY Apart DEF Safe, QueueInv, Inv, TypeOK, HasRoom
<1>2. /\ Count(q') = Count(q) + 1 /\ Cooked(q') = Cooked(q) + 1 /\ At(q', 0) = ch
      /\ \A i \in 0 .. Count(q) - 1 : At(q', i + 1) = At(q, i)
  BY <1>1, UngetSound DEF Orderly
<1>3. Queue(q', <<>>, tty) = <<[key |-> ch, typed |-> FALSE]>> \o Queue(q, <<>>, tty)
  BY <1>1, <1>2, InFront
<1>4. QueuedKeys' = <<KQ!Cooked(ch)>> \o QueuedKeys
  BY <1>3, QueueIs DEF KQ!Cooked
<1> QED BY <1>4 DEF KQ!Next, KQ!Unget, Known

-----------------------------------------------------------------------------
(* Nothing is queued in a ring without keys when no byte waits.              *)
LEMMA NoneQueued ==
    ASSUME NEW f, Orderly(f), NEW s, NEW t, t = <<>>, Count(f) = 0
    PROVE  Queue(f, s, t) = <<>>
<1>1. KeptIn(f) = 0 /\ t \in Seq(Bytes) /\ Len(t) = 0
  BY DEF KeptIn
<1> DEFINE a == Queue(f, s, t)
<1>2. a \in Seq(Item) /\ Len(a) = KeptIn(f) + Len(t)
  BY <1>1, QueueItems
<1> HIDE DEF a
<1>3. a = <<>>
  BY <1>1, <1>2
<1> QED BY <1>3 DEF a

(* Steps that put a key in front.                                            *)
LEMMA UngetSteps ==
    ASSUME Safe, Safe', (\E k \in Keys : Ungetch(k)) \/ StuffKey \/ UpdateScreensize PROVE KQ!Next
<1>1. CASE \E k \in Keys : Ungetch(k)
  BY <1>1, UngetStep, Apart DEF Ungetch, Safe, QueueInv, MatchInv
<1>2. CASE StuffKey
  <2>1. Last(line) \in Known
    <3> DEFINE C == Bytes \cup Keys \cup {NL}
    <3>1. line \in Seq(C) /\ line # <<>>
      BY <1>2 DEF StuffKey, Safe, QueueInv, TakenInv, Checking
    <3> HIDE DEF C
    <3>2. Len(line) \in Nat \ {0}
      BY <3>1
    <3>3. Last(line) \in C
      BY <3>1, <3>2 DEF Last
    <3> QED BY <3>3 DEF C, Known
  <2> QED BY <1>2, <2>1, UngetStep DEF StuffKey, Safe, QueueInv, MatchInv
<1>3. CASE UpdateScreensize
  BY <1>3, UngetStep, Apart DEF UpdateScreensize, Safe, QueueInv, MatchInv
<1> QED BY <1>1, <1>2, <1>3

(* Steps that take the first key.                                            *)
LEMMA TakeSteps ==
    ASSUME Safe, PullCooked \/ StuffPull \/ PullRaw \/ KeyWithPriority PROVE KQ!Next
<1>0. Orderly(q) /\ Count(q) \in Nat /\ TypeOK /\ QueueInv
  BY OrderlyRing DEF Safe, QueueInv, Inv
<1>1. CASE PullCooked \/ StuffPull \/ PullRaw
  <2>1. /\ q' = fifo_pull(q) /\ tty' = tty /\ result' = HeadKey(q) /\ node = <<>> /\ node' = <<>>
    BY <1>1 DEF PullCooked, StuffPull, PullRaw, Take, Deliver, Give, Safe, QueueInv, MatchInv
  <2>2. /\ Orderly(fifo_pull(q))
        /\ Count(fifo_pull(q)) = IF Count(q) = 0 THEN 0 ELSE Count(q) - 1
        /\ Cooked(fifo_pull(q)) = IF Cooked(q) = 0 THEN 0 ELSE Cooked(q) - 1
        /\ \A i \in 0 .. Count(q) - 2 : At(fifo_pull(q), i) = At(q, i + 1)
    BY <1>0, OrderlyPull
  <2>3. Count(q) > 0 => \A i \in 0 .. Count(fifo_pull(q)) - 1 : At(fifo_pull(q), i) = At(q, i + 1)
    BY <1>0, <2>2
  <2> QED BY <1>0, <2>1, <2>2, <2>3, TakeStep
<1>2. CASE KeyWithPriority
  <2> DEFINE p == Uninterpreted(fifo_pull(q))
  <2>1. /\ q' = p /\ tty' = tty /\ result' = HeadKey(q) /\ HighPriorityKey /\ pc = "key"
    BY <1>2 DEF KeyWithPriority, Deliver, Give
  <2>2. Count(q) > 0
    BY <1>0, <2>1, OrderlyRing DEF HighPriorityKey
  <2>3. node # <<>> \/ Cooked(q) <= 1
    BY <1>0, <2>1 DEF QueueInv, CheckInv, ResizeFirst
  <2>4. node # <<>> => OnlyBytes(q)
    BY <1>0 DEF QueueInv, MatchInv
  <2>5. /\ Orderly(p) /\ Count(p) = Count(q) - 1 /\ Cooked(p) = 0
        /\ \A i \in 0 .. Count(p) - 1 : At(p, i) = At(q, i + 1)
    BY <1>0, <2>2, <2>3, <2>4, OrderlyRest
  <2> HIDE DEF p
  <2>6. Count(p) = IF Count(q) = 0 THEN 0 ELSE Count(q) - 1
    BY <2>2, <2>5
  <2> QED BY <1>0, <2>1, <2>3, <2>5, <2>6, TakeStep
<1> QED BY <1>1, <1>2

(* The ring behind a key sequence that fits.                                 *)
Matched(f) == IF fifo_peek(f).peek = f.tail THEN fifo_clear(f)
              ELSE [fifo_peek(f) EXCEPT !.head = fifo_peek(f).peek]

(* A key sequence that fits is taken whole.                                  *)
LEMMA SequenceTaken ==
    ASSUME Safe, pc = "key", ~HighPriorityKey, RawKeyInFifo(q), PeekKey(q) \in Bytes,
           NEW seen \in DOMAIN KeyTry, seen = Append(node, PeekKey(q)),
           NEW p, p = Matched(q),
           q' = p, tty' = tty, node' = <<>>, result' = KeyTry[seen]
    PROVE  KQ!Next
<1> DEFINE a == Queue(q, node, tty)
           b == Queue(p, <<>>, tty)
           n == Cooked(q) + 1
<1>1. /\ Orderly(q) /\ tty \in Seq(Bytes) /\ Count(q) \in Nat /\ Cooked(q) \in Nat
      /\ Cooked(q) = 0 \/ OnlyBytes(q)
      /\ Cooked(q) < Count(q) /\ At(q, Cooked(q)) \in Bytes
      /\ node # <<>> \/ Cooked(q) = 0
  BY MatchingRing, OrderlyRing DEF Safe, Inv, TypeOK, QueueInv
<1>2. n \in 1 .. KeptIn(q) /\ KeptIn(q) \in 0 .. Count(q)
  BY <1>1, Apart DEF KeptIn
<1>3. /\ Orderly(p) /\ Count(p) = Count(q) - n /\ Cooked(p) = 0
      /\ \A i \in 0 .. Count(p) - 1 : At(p, i) = At(q, i + n)
  BY <1>1, OrderlyMatched DEF Matched
<1>4. /\ seen \in Seq(Bytes) /\ Len(seen) = n /\ \A i \in 1 .. n : seen[i] = At(q, i - 1)
  BY Apart, SeenRing DEF Safe
<1>5. Loses(q, node, n, p, <<>>)
  <2>1. \A i \in 1 .. Count(p) : <<>> # <<>> \/ i > Cooked(p) <=> node # <<>> \/ i + n > Cooked(q)
    BY <1>1, <1>2, <1>3
  <2> QED BY <1>2, <1>3, <2>1 DEF Loses
<1> HIDE DEF n
<1>6. /\ a \in Seq(Item) /\ b \in Seq(Item) /\ Len(a) \in Nat
      /\ \A i \in 1 .. KeptIn(q) : a[i] = [key |-> At(q, i - 1), typed |-> node # <<>> \/ i > Cooked(q)]
  <2>1. /\ a \in Seq(Item) /\ Len(a) = KeptIn(q) + Len(tty) /\ Len(tty) \in Nat
        /\ \A i \in 1 .. KeptIn(q) : a[i] = [key |-> At(q, i - 1), typed |-> node # <<>> \/ i > Cooked(q)]
    BY <1>1, QueueItems
  <2>2. b \in Seq(Item)
    BY <1>1, <1>3, QueueItems
  <2> HIDE DEF a, b
  <2>3. Len(a) \in Nat
    BY <2>1
  <2> QED BY <2>1, <2>2, <2>3
<1>7. n \in 0 .. Len(a) /\ Len(b) = Len(a) - n /\ \A i \in 1 .. Len(b) : b[i] = a[i + n]
  <2>1. Orderly(q) /\ Orderly(p) /\ tty \in Seq(Bytes)
    BY <1>1, <1>3
  <2> QED BY <2>1, <1>5, Dropped
<1>8. QueuedKeys = a /\ QueuedKeys' = b
  BY QueueIs
<1> HIDE DEF a, b
<1>9. b = SubSeq(a, n + 1, Len(a))
  BY <1>6, <1>7, Behind
<1>10. SubSeq(a, 1, n) = [i \in DOMAIN seen |-> KQ!Typed(seen[i])]
  <2>1. /\ SubSeq(a, 1, n) = [i \in 1 .. n |-> a[i]]
    BY <1>6, <1>7
  <2>2. DOMAIN seen = 1 .. n
    BY <1>4
  <2>3. ASSUME NEW i \in 1 .. n PROVE a[i] = KQ!Typed(seen[i])
    <3>1. (node # <<>> \/ i > Cooked(q)) = TRUE
      BY <1>1
    <3>2. i \in 1 .. KeptIn(q) /\ seen[i] = At(q, i - 1)
      BY <1>2, <1>4
    <3> QED BY <1>6, <3>1, <3>2 DEF KQ!Typed
  <2> QED BY <2>1, <2>2, <2>3
<1>11. KQ!TakeSequence(seen)
  <2>1. Len(seen) <= Len(QueuedKeys)
    BY <1>2, <1>4, <1>6, <1>7, <1>8
  <2>2. SubSeq(QueuedKeys, 1, Len(seen)) = [i \in DOMAIN seen |-> KQ!Typed(seen[i])]
    BY <1>4, <1>8, <1>10
  <2>3. QueuedKeys' = SubSeq(QueuedKeys, Len(seen) + 1, Len(QueuedKeys))
    BY <1>4, <1>8, <1>9
  <2> QED BY <2>1, <2>2, <2>3 DEF KQ!TakeSequence
<1> QED BY <1>11 DEF KQ!Next

(* A byte that is matched: a key, the first byte alone, or nothing yet.      *)
LEMMA MatchStep ==
    ASSUME Safe, Match PROVE KQ!Next \/ UNCHANGED <<QueuedKeys, result>>
<1> DEFINE ch == PeekKey(q)
           seen == Append(node, ch)
           unmatched == Uninterpreted(fifo_pull(fifo_peek(q)))
           matched == IF fifo_peek(q).peek = q.tail THEN fifo_clear(q)
                      ELSE [fifo_peek(q) EXCEPT !.head = fifo_peek(q).peek]
<1>1. /\ pc = "key" /\ win.keypad /\ RawKeyInFifo(q) /\ ~HighPriorityKey
      /\ tty' = tty
      /\ \/ Deliver(HeadKey(q), unmatched)
         \/ seen \in DOMAIN KeyTry /\ ch \in Bytes /\ Deliver(KeyTry[seen], matched)
         \/ /\ ch \in Bytes /\ q' = fifo_peek(q) /\ node' = seen /\ UNCHANGED <<result, owed>>
  BY MatchSteps DEF Safe
<1>2. /\ Orderly(q) /\ Count(q) \in Nat /\ Cooked(q) \in 0 .. Count(q) - 1
      /\ Cooked(q) = 0 \/ OnlyBytes(q)
      /\ node # <<>> \/ Cooked(q) = 0
      /\ TypeOK /\ QueueInv /\ tty \in Seq(Bytes) /\ node \in Seq(Bytes)
  BY <1>1, MatchingRing, OrderlyRing DEF Safe, QueueInv, MatchInv, Inv, TypeOK
<1>3. CASE Deliver(HeadKey(q), unmatched)
  <2>1. /\ Orderly(unmatched) /\ Count(unmatched) = Count(q) - 1 /\ Cooked(unmatched) = 0
        /\ \A i \in 0 .. Count(unmatched) - 1 : At(unmatched, i) = At(q, i + 1)
    BY <1>1, <1>2, OrderlyUnmatched
  <2>2. q' = unmatched /\ result' = HeadKey(q)
    BY <1>3 DEF Deliver, Give
  <2> HIDE DEF unmatched
  <2>3. Count(unmatched) = IF Count(q) = 0 THEN 0 ELSE Count(q) - 1
    BY <1>2, <2>1
  <2> QED BY <1>1, <1>2, <2>1, <2>2, <2>3, TakeStep
<1>4. CASE seen \in DOMAIN KeyTry /\ ch \in Bytes /\ Deliver(KeyTry[seen], matched)
  <2>1. q' = matched /\ result' = KeyTry[seen] /\ node' = <<>>
    BY <1>4 DEF Deliver, Give
  <2>2. matched = Matched(q)
    BY DEF Matched
  <2> HIDE DEF matched
  <2> QED BY <1>1, <1>4, <2>1, <2>2, SequenceTaken
<1>5. CASE ch \in Bytes /\ q' = fifo_peek(q) /\ node' = seen /\ UNCHANGED <<result, owed>>
  <2>1. /\ Orderly(q') /\ Count(q') = Count(q)
        /\ \A i \in 0 .. Count(q) - 1 : At(q', i) = At(q, i)
    BY <1>1, <1>2, <1>5, OrderlyPeek
  <2>2. node' # <<>>
    BY <1>2, <1>5, AppendProperties
  <2>3. \A i \in 1 .. Count(q) : node' # <<>> \/ i > Cooked(q') <=> node # <<>> \/ i > Cooked(q)
    BY <1>2, <2>2
  <2>4. Queue(q', node', tty) = Queue(q, node, tty)
    BY <1>2, <2>1, <2>3, Same
  <2> QED BY <1>1, <1>5, <2>4, QueueIs
<1> QED BY <1>1, <1>3, <1>4, <1>5

(* A byte is read.                                                           *)
LEMMA ReadByteStep ==
    ASSUME Safe, Safe', ReadByte PROVE KQ!Next \/ UNCHANGED <<QueuedKeys, result>>
<1> DEFINE pushed == fifo_push(q, Head(tty))
<1>1. /\ Reading /\ pc = "key" /\ tty # <<>> /\ tty' = Tail(tty) /\ tty \in Seq(Bytes) /\ Head(tty) \in Bytes
      /\ Orderly(q) /\ Count(q) \in Nat
  BY OrderlyRing DEF ReadByte, Reading, Safe, Inv, TypeOK, QueueInv
<1>2. Cooked(q) = Count(q) /\ (node = <<>> => Count(q) = 0) /\ OnlyBytes(q)
  <2>1. Cooked(q) = Count(q) /\ (node = <<>> => Count(q) = 0)
    BY <1>1, ReadingRing DEF Safe
  <2>2. OnlyBytes(q)
    <3>1. CASE node = <<>>
      BY <1>1, <2>1, <3>1 DEF OnlyBytes
    <3>2. CASE node # <<>>
      BY <3>2 DEF Safe, QueueInv, MatchInv
    <3> QED BY <3>1, <3>2
  <2> QED BY <2>1, <2>2
<1>3. /\ Count(pushed) = Count(q) + 1 /\ At(pushed, Count(q)) = Head(tty)
      /\ \A i \in 0 .. Count(q) - 1 : At(pushed, i) = At(q, i)
      /\ HasRoom(pushed) => Cooked(pushed) = Count(q) /\ Orderly(pushed)
  BY <1>1, <1>2, PushSound, OrderlyPush, Apart DEF Orderly
<1>4. ASSUME HasRoom(pushed) PROVE Queue(pushed, node, Tail(tty)) = Queue(q, node, tty)
  BY <1>1, <1>2, <1>3, <1>4, Moved
<1>5. CASE win.keypad
  <2>1. q' = pushed /\ UNCHANGED <<node, result>>
    BY <1>5 DEF ReadByte
  <2>2. HasRoom(pushed)
    BY <2>1 DEF Safe, HasRoom
  <2> QED BY <1>1, <1>4, <2>1, <2>2, QueueIs
<1>6. CASE ~win.keypad
  <2>1. q' = fifo_pull(pushed) /\ result' = HeadKey(pushed)
    BY <1>6 DEF ReadByte, Deliver, Give
  <2>2. Count(q) = 0 /\ node = <<>>
    BY <1>1, <1>2, <1>6 DEF Safe, QueueInv, MatchInv
  <2>3. HasRoom(pushed)
    <3>1. pushed \in FifoType(Entries) /\ RingOK(pushed)
      BY <1>1, PushType, Apart DEF Orderly, Sound
    <3>2. Count(pushed) # FIFO_SIZE
      BY <1>3, <2>2, SizeAssumption
    <3> QED BY <3>1, <3>2, CountBounds
  <2>4. Orderly(pushed) /\ Count(pushed) = 1 /\ tty' \in Seq(Bytes)
    BY <1>1, <1>3, <2>2, <2>3, HeadTailProperties
  <2>5. QueuedKeys = Queue(pushed, node, tty') /\ QueuedKeys' = Queue(fifo_pull(pushed), node', tty')
    BY <1>1, <1>4, <2>1, <2>3, QueueIs
  <2> HIDE DEF pushed
  <2>6. Orderly(fifo_pull(pushed)) /\ Count(fifo_pull(pushed)) = 0
    BY <2>4, OrderlyPull
  <2> QED BY <2>1, <2>4, <2>5, <2>6, TakeOrFail
<1> QED BY <1>5, <1>6

(* A wait or a read that fails takes nothing, or the first byte of a key     *)
(* sequence that was not finished in time.                                   *)
LEMMA FailureStep ==
    ASSUME Safe, Safe', tty' = tty, WaitFails \/ RestFails \/ (ReadFails /\ tty = <<>>) PROVE KQ!Next
<1>0. Orderly(q) /\ Count(q) \in Nat /\ TypeOK /\ QueueInv /\ tty \in Seq(Bytes) /\ Orderly(q')
  BY OrderlyRing DEF Safe, QueueInv, Inv, TypeOK
<1>1. CASE WaitFails
  <2>1. q' = q /\ node' = node /\ result' = ERR
    BY <1>1 DEF WaitFails
  <2>2. QueuedKeys' = QueuedKeys
    BY <2>1, QueueIs
  <2> QED BY <2>1, <2>2 DEF KQ!Next, KQ!Fail
<1>2. CASE RestFails
  <2> DEFINE p == Uninterpreted(fifo_pull(q))
  <2>1. node # <<>> /\ OnlyBytes(q) /\ q' = p /\ result' = HeadKey(q) /\ Count(q) > 0
    <3>1. node # <<>> /\ OnlyBytes(q) /\ Cooked(q) = Len(node) /\ node \in Seq(Bytes) /\ Cooked(q) = Count(q)
      BY <1>2 DEF RestFails, Safe, QueueInv, MatchInv, Holds
    <3>2. Len(node) \in Nat \ {0}
      BY <3>1, NotEmpty
    <3> QED BY <1>2, <3>1, <3>2 DEF RestFails, Give
  <2>2. /\ Orderly(p) /\ Count(p) = Count(q) - 1 /\ Cooked(p) = 0
        /\ \A i \in 0 .. Count(p) - 1 : At(p, i) = At(q, i + 1)
    BY <1>0, <2>1, OrderlyRest
  <2> HIDE DEF p
  <2>3. Count(p) = IF Count(q) = 0 THEN 0 ELSE Count(q) - 1
    BY <2>1, <2>2
  <2> QED BY <1>0, <2>1, <2>2, <2>3, TakeStep
<1>3. CASE ReadFails /\ tty = <<>>
  <2> DEFINE pushed == fifo_push(q, ERR)
  <2>1. /\ result' = ERR /\ q' = IF win.keypad THEN Uninterpreted(pushed) ELSE fifo_pull(pushed)
    BY <1>3 DEF ReadFails, Give
  <2>2. Count(q) = 0 /\ Cooked(q) = 0
    BY <1>3, ReadingRing DEF ReadFails, Reading, Safe, QueueInv, MatchInv
  <2>3. /\ pushed \in FifoType(Entries) /\ RingOK(pushed) /\ Count(pushed) = 1 /\ At(pushed, 0) = ERR
    BY <1>0, <2>2, PushType, PushSound, Apart DEF Orderly, Sound
  <2>4. HasRoom(pushed)
    BY <2>3, CountBounds, SizeAssumption
  <2>5. Sound(Entries, pushed)
    BY <1>0, <2>4, PushSound, Apart DEF Orderly
  <2> HIDE DEF pushed
  <2>6. KeptIn(q') = 0
    <3>1. CASE win.keypad
      <4>1. /\ Count(q') = Count(pushed) /\ \A i \in 0 .. Count(pushed) - 1 : At(q', i) = At(pushed, i)
        BY <2>1, <2>5, <3>1, UninterpretedSound
      <4>2. 0 \in 0 .. Count(pushed) - 1
        BY <2>3
      <4>3. Count(q') = 1 /\ At(q', 0) = ERR
        BY <2>3, <4>1, <4>2
      <4> QED BY <4>3 DEF KeptIn
    <3>2. CASE ~win.keypad
      <4>1. Count(q') = IF Count(pushed) = 0 THEN 0 ELSE Count(pushed) - 1
        BY <2>1, <2>5, <3>2, PullSound
      <4> QED BY <2>3, <4>1 DEF KeptIn
    <3> QED BY <3>1, <3>2
  <2>7. QueuedKeys' = QueuedKeys
    <3>1. KeptIn(q) = 0
      BY <2>2 DEF KeptIn
    <3> QED BY <1>0, <2>6, <3>1, Drained, QueueIs
  <2> QED BY <2>1, <2>7 DEF KQ!Next, KQ!Fail
<1> QED BY <1>1, <1>2, <1>3

(* The KEY_RESIZE in place of an ERR.                                        *)
LEMMA ResizedStep ==
    ASSUME Safe, Resized PROVE KQ!Next \/ UNCHANGED <<QueuedKeys, result>>
<1>1. /\ Orderly(q) /\ tty' = tty /\ node = <<>> /\ node' = <<>> /\ tty \in Seq(Bytes) /\ Count(q) \in Nat
  BY OrderlyRing DEF Resized, Safe, QueueInv, MatchInv, Inv, TypeOK
<1>2. CASE ~CookedKeyInFifo(q)
  BY <1>1, <1>2, ResizedRing, Stutters DEF Safe, input
<1>3. CASE CookedKeyInFifo(q)
  <2> DEFINE p == fifo_pull(q)
  <2>1. /\ result' = KEY_RESIZE /\ HeadKey(q) = KEY_RESIZE /\ Orderly(q') /\ Count(q') = 0
        /\ Count(q) > 0 /\ \A i \in 1 .. Count(q) - 1 : At(q, i) = ERR
    BY <1>3, ResizedRing DEF Safe
  <2>2. /\ Orderly(p) /\ Count(p) = Count(q) - 1
        /\ Cooked(p) = IF Cooked(q) = 0 THEN 0 ELSE Cooked(q) - 1
        /\ \A i \in 0 .. Count(q) - 2 : At(p, i) = At(q, i + 1)
    BY <1>1, <2>1, OrderlyPull
  <2> HIDE DEF p
  <2>3. Cooked(q) \in Nat
    BY <1>1, OrderlyRing
  <2>4. KeptIn(p) = 0 /\ KeptIn(q') = 0
    <3>1. ASSUME Count(p) > 0 PROVE Count(p) = 1 /\ At(p, 0) = ERR
      <4>1. 0 \in 0 .. Count(q) - 2 /\ 0 + 1 \in 1 .. Count(q) - 1 /\ 0 \in 0 .. Count(p) - 1
        BY <1>1, <2>2, <3>1
      <4>2. At(p, 0) = ERR
        BY <2>1, <2>2, <4>1
      <4>3. Lone(p, 0)
        BY <2>2, <4>1 DEF Orderly
      <4> QED BY <4>2, <4>3 DEF Lone
    <3>2. Count(p) \in Nat
      BY <2>2, OrderlyRing
    <3> QED BY <2>1, <3>1, <3>2 DEF KeptIn
  <2>5. QueuedKeys = Queue(q, <<>>, tty) /\ QueuedKeys' = Queue(p, <<>>, tty)
    <3>1. Queue(q', <<>>, tty) = Queue(p, <<>>, tty)
      BY <1>1, <2>1, <2>2, <2>4, Drained
    <3> QED BY <1>1, <3>1, QueueIs
  <2>6. \A i \in 1 .. Count(q) - 1 : <<>> # <<>> \/ i > Cooked(p) <=> <<>> # <<>> \/ i + 1 > Cooked(q)
    BY <1>1, <2>2, <2>3
  <2> QED BY <1>1, <2>1, <2>2, <2>5, <2>6, TakeOrFail
<1> QED BY <1>2, <1>3

(* Flushing, and typing.                                                     *)
LEMMA TypingSteps ==
    ASSUME Safe, Safe', Flushinp \/ (\E b \in Bytes : Keyboard(b)) PROVE KQ!Next
<1>1. CASE Flushinp
  <2>1. /\ Count(q') = 0 /\ tty' = <<>> /\ result' = result /\ Orderly(q')
    BY <1>1, EmptySound DEF Flushinp, Safe, Inv, TypeOK, QueueInv
  <2>2. QueuedKeys' = <<>>
    BY <2>1, NoneQueued, QueueIs
  <2> QED BY <2>1, <2>2 DEF KQ!Next, KQ!Flush
<1>2. ASSUME NEW b \in Bytes, Keyboard(b) PROVE KQ!Next
  <2>1. /\ q' = q /\ node' = node /\ result' = result /\ tty' = Append(tty, b)
        /\ tty \in Seq(Bytes) /\ Orderly(q)
    BY <1>2 DEF Keyboard, input, Safe, Inv, TypeOK, QueueInv
  <2>2. QueuedKeys' = Append(QueuedKeys, KQ!Typed(b))
    BY <2>1, AtBack, QueueIs DEF KQ!Typed
  <2> QED BY <2>1, <2>2 DEF KQ!Next, KQ!Arrive
<1> QED BY <1>1, <1>2

(* Every step is one of the key queue's, or none.                            *)
LEMMA QueueSteps ==
    ASSUME Safe, Safe', Next PROVE KQ!Next \/ UNCHANGED <<QueuedKeys, result>>
<1>1. CASE TopCooked \/ TopLine \/ TopRaw \/ StartRead \/ RestReady \/ Return \/ LineEdit \/ LineEcho \/ LineEnd
           \/ HandleSigwinch \/ (\E w \in Windows : Wgetch(w)) \/ Doupdate
           \/ (\E s \in Sizes : Sigwinch(s))
  BY <1>1, Stutters DEF TopCooked, TopLine, TopRaw, StartRead, RestReady, Return, LineEdit, EditLine, LineEcho, LineEnd,
                        HandleSigwinch, Wgetch, Doupdate, Sigwinch, Handler, input
<1>2. CASE (\E s \in Sizes : SigwinchInterrupts(s)) \/ SignalInterrupts \/ Timeout
  <2>1. tty' = tty /\ (WaitFails \/ RestFails \/ (ReadFails /\ tty = <<>>))
    BY <1>2 DEF SigwinchInterrupts, SignalInterrupts, Timeout, Handler, Interrupted
  <2> QED BY <2>1, FailureStep
<1> QED BY <1>1, <1>2, UngetSteps, TakeSteps, MatchStep, ReadByteStep, ResizedStep, TypingSteps
        DEF Next, Library, Application, Environment

(* No key is lost, made up, read twice or overtaken.                         *)
THEOREM ImplementsKeyQueue == ASSUME Roomy PROVE Spec => IsKeyQueue
<1>1. Init => KQ!Init
  <2>1. Init => result = ERR /\ Count(q) = 0 /\ tty = <<>> /\ Orderly(q)
    BY EmptySound, InitQueue DEF Init, QueueInv
  <2>2. ASSUME Count(q) = 0, tty = <<>>, Orderly(q) PROVE QueuedKeys = <<>>
    BY <2>2, NoneQueued, QueueIs
  <2> QED BY <2>1, <2>2 DEF KQ!Init
<1>2. Safe /\ Safe' /\ [Next]_vars => [KQ!Next]_<<QueuedKeys, result>>
  <2>1. UNCHANGED vars => UNCHANGED <<QueuedKeys, result>>
    BY Stutters DEF vars
  <2> QED BY <2>1, QueueSteps
<1> QED BY <1>1, <1>2, QueueIsSafe, PTL DEF Spec, IsKeyQueue, KQ!Spec
=============================================================================
