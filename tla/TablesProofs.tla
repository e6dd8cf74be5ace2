----------------------------- MODULE TablesProofs -----------------------------
(* The tables of the library that do not meet.  The table of colour pairs,   *)
(* its index and its list agree, and cells show the colours of their pairs,  *)
(* for every size of the table, set of colours and screen.  The modes of the *)
(* driver follow the application, and a stop keeps them, for every set of    *)
(* bits that others change.                                                  *)
EXTENDS ColorPairs, TtyModes, SequenceLemmas

Pairs == PairIds \ {0}

(* The i-th of the list s, which begins and ends at pair 0.                  *)
At(s, i) == IF i \in 1..Len(s) THEN s[i] ELSE 0
Listed(s) == s \in Seq(Pairs) /\ \A i, j \in 1..Len(s) : s[i] = s[j] => i = j
Linked(s, nx, pv) == \A i \in 0..Len(s) : nx[At(s, i)] = At(s, i + 1) /\ pv[At(s, i + 1)] = At(s, i)

(* Links that are not of the list are never taken for some of it.            *)
Unlinked(p, nx, pv) == nx[pv[p]] # p

-----------------------------------------------------------------------------
(* The doubly linked list, as a sequence.                                    *)

LEMMA PairFacts ==
    /\ Limit \in Nat /\ Limit > 1 /\ 0 \in PairIds
    /\ \A p \in PairIds : p \in Nat /\ p < Limit
    /\ \A p \in Pairs : p \in PairIds /\ p # 0
BY ColorAssumption DEF PairIds, Pairs

LEMMA AtFacts ==
    ASSUME NEW s, Listed(s)
    PROVE  /\ Len(s) \in Nat /\ At(s, 0) = 0 /\ At(s, Len(s) + 1) = 0
           /\ \A i \in 1..Len(s) : At(s, i) = s[i] /\ At(s, i) \in Pairs
           /\ \A i \in Int : At(s, i) \in PairIds
           /\ \A i, j \in 0..Len(s) : At(s, i) = At(s, j) => i = j
           /\ \A i, j \in 1..(Len(s) + 1) : At(s, i) = At(s, j) => i = j
<1>1. s \in Seq(Pairs) /\ Len(s) \in Nat /\ \A i, j \in 1..Len(s) : s[i] = s[j] => i = j
  BY DEF Listed
<1>2. \A i \in 1..Len(s) : s[i] \in Pairs /\ s[i] # 0
  BY <1>1, PairFacts
<1>3. At(s, 0) = 0 /\ At(s, Len(s) + 1) = 0
  BY <1>1 DEF At
<1>4. \A i \in 1..Len(s) : At(s, i) = s[i] /\ At(s, i) \in Pairs
  BY <1>2 DEF At
<1>5. \A i \in Int : At(s, i) \in PairIds
  BY <1>2, PairFacts DEF At
<1>6. \A i, j \in 0..Len(s) : At(s, i) = At(s, j) => i = j
  BY <1>1, <1>2 DEF At
<1>7. \A i, j \in 1..(Len(s) + 1) : At(s, i) = At(s, j) => i = j
  BY <1>1, <1>2 DEF At
<1> QED BY <1>1, <1>3, <1>4, <1>5, <1>6, <1>7

(* The list begins at next of pair 0 and ends at prev of it.                 *)
LEMMA LinkedEnds ==
    ASSUME NEW s, Listed(s), NEW nx, NEW pv, Linked(s, nx, pv)
    PROVE  /\ nx[0] = At(s, 1) /\ pv[0] = At(s, Len(s))
           /\ \A i \in 1..Len(s) : nx[s[i]] = At(s, i + 1) /\ pv[s[i]] = At(s, i - 1)
<1>1. /\ Len(s) \in Nat /\ At(s, 0) = 0 /\ At(s, Len(s) + 1) = 0
      /\ \A i \in 1..Len(s) : At(s, i) = s[i]
  BY AtFacts
<1>2. nx[0] = At(s, 1)
  <2>1. 0 \in 0..Len(s) /\ 0 + 1 = 1
    BY <1>1
  <2> QED BY <1>1, <2>1 DEF Linked
<1>3. pv[0] = At(s, Len(s))
  <2>1. Len(s) \in 0..Len(s)
    BY <1>1
  <2> QED BY <1>1, <2>1 DEF Linked
<1>4. ASSUME NEW i \in 1..Len(s)
      PROVE  nx[s[i]] = At(s, i + 1) /\ pv[s[i]] = At(s, i - 1)
  <2>1. i \in 0..Len(s) /\ i - 1 \in 0..Len(s) /\ (i - 1) + 1 = i
    BY <1>1
  <2> QED BY <1>1, <2>1 DEF Linked
<1> QED BY <1>2, <1>3, <1>4

(* delink_color_pair() takes a linked pair out.                              *)
LEMMA Delinked ==
    ASSUME NEW s, Listed(s), NEW nx \in [PairIds -> PairIds], NEW pv \in [PairIds -> PairIds],
           Linked(s, nx, pv), NEW k \in 1..Len(s)
    PROVE  LET b == At(s, k - 1)  a == At(s, k + 1)
           IN /\ Listed(RemoveAt(s, k))
              /\ Linked(RemoveAt(s, k), [nx EXCEPT ![b] = a], [pv EXCEPT ![a] = b])
<1> DEFINE b == At(s, k - 1)
           a == At(s, k + 1)
           r == RemoveAt(s, k)
           n == Len(s)
           nn == [nx EXCEPT ![b] = a]
           pp == [pv EXCEPT ![a] = b]
<1>1. /\ n \in Nat /\ At(s, 0) = 0 /\ At(s, n + 1) = 0
      /\ \A i \in 1..n : At(s, i) = s[i] /\ At(s, i) \in Pairs
      /\ \A i \in Int : At(s, i) \in PairIds
      /\ \A i, j \in 0..n : At(s, i) = At(s, j) => i = j
      /\ \A i, j \in 1..(n + 1) : At(s, i) = At(s, j) => i = j
  BY AtFacts
<1>2. s \in Seq(Pairs) /\ \A i, j \in 1..n : s[i] = s[j] => i = j
  BY DEF Listed
<1>3. /\ r \in Seq(Pairs) /\ Len(r) = n - 1
      /\ \A i \in 1..(n - 1) : r[i] = IF i < k THEN s[i] ELSE s[i + 1]
  BY <1>2, Removed
<1>4. Listed(r)
  BY <1>1, <1>2, <1>3 DEF Listed
<1> HIDE DEF r
<1>5. \A i \in 0..n : At(r, i) = IF i < k THEN At(s, i) ELSE At(s, i + 1)
  <2> SUFFICES ASSUME NEW i \in 0..n PROVE At(r, i) = IF i < k THEN At(s, i) ELSE At(s, i + 1)
    OBVIOUS
  <2>1. CASE i \in 1..(n - 1)
    BY <1>1, <1>3, <2>1 DEF At
  <2>2. CASE i = 0
    BY <1>1, <1>3, <2>2 DEF At
  <2>3. CASE i = n
    BY <1>1, <1>3, <2>3 DEF At
  <2> QED BY <1>1, <2>1, <2>2, <2>3
<1>6. ASSUME NEW i \in 0..(n - 1)
      PROVE  nn[At(r, i)] = At(r, i + 1) /\ pp[At(r, i + 1)] = At(r, i)
  <2>1. i \in 0..n /\ i + 1 \in 0..n
    BY <1>1
  <2>2. CASE i < k - 1
    <3>1. At(r, i) = At(s, i) /\ At(r, i + 1) = At(s, i + 1)
      BY <1>5, <2>1, <2>2
    <3>2. At(s, i) # b /\ At(s, i + 1) # a
      BY <1>1, <2>1, <2>2
    <3> QED BY <1>1, <2>1, <3>1, <3>2 DEF Linked
  <2>3. CASE i = k - 1
    <3>1. At(r, i) = b /\ At(r, i + 1) = a
      BY <1>5, <2>1, <2>3
    <3>2. a \in PairIds /\ b \in PairIds
      BY <1>1
    <3> QED BY <3>1, <3>2
  <2>4. CASE i > k - 1
    <3>1. At(r, i) = At(s, i + 1) /\ At(r, i + 1) = At(s, i + 2)
      BY <1>5, <2>1, <2>4
    <3>2. At(s, i + 1) # b
      BY <1>1, <2>1, <2>4
    <3>3. At(s, i + 2) # a
      BY <1>1, <2>1, <2>4
    <3>4. nx[At(s, i + 1)] = At(s, i + 2) /\ pv[At(s, i + 2)] = At(s, i + 1)
      BY <1>1, <2>1 DEF Linked
    <3> QED BY <1>1, <3>1, <3>2, <3>3, <3>4
  <2> QED BY <2>2, <2>3, <2>4
<1>7. Linked(r, nn, pp)
  BY <1>1, <1>3, <1>6 DEF Linked
<1> QED BY <1>4, <1>7 DEF r

(* _nc_set_color_pair() puts a pair before all others.                       *)
LEMMA SetFirst ==
    ASSUME NEW s, Listed(s), NEW nx \in [PairIds -> PairIds], NEW pv \in [PairIds -> PairIds],
           Linked(s, nx, pv), NEW p \in Pairs, \A i \in 1..Len(s) : s[i] # p
    PROVE  /\ Listed(<<p>> \o s)
           /\ Linked(<<p>> \o s, [nx EXCEPT ![p] = nx[0], ![0] = p],
                                 [[pv EXCEPT ![nx[0]] = p] EXCEPT ![p] = 0])
<1> DEFINE r == <<p>> \o s
           n == Len(s)
           nn == [nx EXCEPT ![p] = nx[0], ![0] = p]
           pp == [[pv EXCEPT ![nx[0]] = p] EXCEPT ![p] = 0]
<1>1. /\ n \in Nat /\ At(s, 0) = 0 /\ At(s, n + 1) = 0
      /\ \A i \in 1..n : At(s, i) = s[i] /\ At(s, i) \in Pairs
      /\ \A i \in Int : At(s, i) \in PairIds
      /\ \A i, j \in 0..n : At(s, i) = At(s, j) => i = j
      /\ \A i, j \in 1..(n + 1) : At(s, i) = At(s, j) => i = j
  BY AtFacts
<1>2. s \in Seq(Pairs) /\ p \in PairIds /\ p # 0 /\ 0 \in PairIds
  BY PairFacts DEF Listed
<1>3. /\ r \in Seq(Pairs) /\ Len(r) = n + 1 /\ r[1] = p
      /\ \A i \in 2..(n + 1) : i - 1 \in 1..n /\ r[i] = s[i - 1]
  BY <1>2
<1>4. Listed(r)
  <2> SUFFICES ASSUME NEW i \in 1..(n + 1), NEW j \in 1..(n + 1), r[i] = r[j] PROVE i = j
    BY <1>3 DEF Listed
  <2>1. \A k \in 2..(n + 1) : r[k] # p
    BY <1>3
  <2>2. CASE i = 1 \/ j = 1
    BY <1>1, <1>3, <2>1, <2>2
  <2>3. CASE i # 1 /\ j # 1
    <3>1. i - 1 \in 1..n /\ j - 1 \in 1..n /\ s[i - 1] = s[j - 1]
      BY <1>1, <1>3, <2>3
    <3>2. i - 1 = j - 1
      BY <3>1 DEF Listed
    <3> QED BY <3>2
  <2> QED BY <2>2, <2>3
<1> HIDE DEF r
<1>5. \A i \in 0..(n + 2) : At(r, i) = IF i = 0 THEN 0 ELSE IF i = 1 THEN p ELSE At(s, i - 1)
  BY <1>1, <1>3 DEF At
<1>6. nx[0] = At(s, 1) /\ nx[0] \in PairIds /\ nx[0] # p
  <2>1. nx[0] = At(s, 1)
    BY LinkedEnds
  <2>2. At(s, 1) # p
    BY <1>1, <1>2 DEF At
  <2> QED BY <1>1, <2>1, <2>2
<1>7. ASSUME NEW i \in 0..(n + 1)
      PROVE  nn[At(r, i)] = At(r, i + 1) /\ pp[At(r, i + 1)] = At(r, i)
  <2>1. CASE i = 0
    <3>1. At(r, 0) = 0 /\ At(r, 1) = p
      BY <1>1, <1>5
    <3>2. nn[0] = p /\ pp[p] = 0
      BY <1>2, <1>6
    <3>3. i + 1 = 1
      BY <2>1
    <3> HIDE DEF nn, pp
    <3> QED BY <2>1, <3>1, <3>2, <3>3
  <2>2. CASE i = 1
    <3>1. At(r, 1) = p /\ At(r, 2) = At(s, 1)
      BY <1>1, <1>5
    <3>2. nn[p] = nx[0] /\ pp[nx[0]] = p
      BY <1>2, <1>6
    <3> QED BY <1>6, <2>2, <3>1, <3>2
  <2>3. CASE i >= 2
    <3> DEFINE x == At(s, i - 1)
               y == At(s, i)
    <3>1. At(r, i) = x /\ At(r, i + 1) = y
      BY <1>1, <1>5, <2>3
    <3>2. nx[x] = y /\ pv[y] = x
      BY <1>1, <2>3 DEF Linked
    <3>3. x # 0 /\ x # p
      BY <1>1, <1>2, <2>3
    <3>4. y # p /\ y # nx[0]
      <4>1. y # At(s, 1)
        BY <1>1, <2>3
      <4>2. y # p
        BY <1>1, <1>2, <2>3 DEF At
      <4> QED BY <1>6, <4>1, <4>2
    <3>5. x \in PairIds /\ y \in PairIds
      BY <1>1
    <3>6. nn[x] = nx[x] /\ pp[y] = pv[y]
      BY <1>2, <1>6, <3>3, <3>4, <3>5
    <3> QED BY <3>1, <3>2, <3>6
  <2> QED BY <2>1, <2>2, <2>3
<1>8. Linked(r, nn, pp)
  BY <1>1, <1>3, <1>7 DEF Linked
<1> QED BY <1>4, <1>8 DEF r

-----------------------------------------------------------------------------
(* What the functions of new_pair.c and lib_color.c do to each field.        *)

Tables ==
    [colors : [PairIds -> Colors \cup {Zero}], mode : [PairIds -> {KEEP, FREE, INIT}],
     prev : [PairIds -> PairIds], next : [PairIds -> PairIds], size : 1..Limit, used : Int,
     recent : PairIds, index : SUBSET [pair : PairIds, key : Colors \cup {Zero}], defaults : Int,
     curscr : [CellsOfScreen -> PairIds \cup {Forgotten}],
     pen : [pair : PairIds \cup {-3}, colors : Colors \cup {Zero}], ok : BOOLEAN]

LEMMA ReserveFields ==
    ASSUME NEW t \in Tables, NEW p \in PairIds
    PROVE  \E n \in 1..Limit : ReservePairs(t, p) = [t EXCEPT !.size = n]
<1>1. CASE p < t.size
  <2>1. t = [t EXCEPT !.size = t.size] /\ t.size \in 1..Limit
    BY DEF Tables
  <2> QED BY <1>1, <2>1 DEF ReservePairs
<1>2. CASE ~(p < t.size)
  <2> DEFINE T == {n \in Sizes : p < n}
             Least(n) == n \in Sizes /\ p < n /\ \A m \in Sizes : p < m => n <= m
  <2>1. Limit \in T /\ T \subseteq Nat
    BY PairFacts DEF Sizes
  <2>2. PICK n \in T : \A m \in T : n <= m
    BY <2>1, LeastNatural
  <2>3. Least(n)
    BY <2>2
  <2>4. Least(CHOOSE m : Least(m))
    BY <2>3
  <2>5. ReservePairs(t, p).size \in 1..Limit
    BY <1>2, <2>3 DEF ReservePairs, Sizes, Tables
  <2>6. ReservePairs(t, p) = [t EXCEPT !.size = ReservePairs(t, p).size]
    BY <1>2 DEF ReservePairs, Tables
  <2> QED BY <2>5, <2>6
<1> QED BY <1>1, <1>2

(* t and u have the same fields but for next and prev.                       *)
LEMMA DelinkFields ==
    ASSUME NEW t \in Tables, NEW p \in PairIds
    PROVE  LET d == delink_color_pair(t, p)
           IN /\ d \in Tables
              /\ d = [t EXCEPT !.next = d.next, !.prev = d.prev]
<1> DEFINE b == t.prev[p]
           a == t.next[p]
           nn == [t.next EXCEPT ![b] = a]
           pp == [t.prev EXCEPT ![a] = b]
<1>1. nn \in [PairIds -> PairIds] /\ pp \in [PairIds -> PairIds]
  BY DEF Tables
<1>2. delink_color_pair(t, p) = IF t.next[b] = p /\ t.prev[a] = p
                                THEN [t EXCEPT !.next = nn, !.prev = pp] ELSE t
  BY DEF delink_color_pair, Tables
<1>3. [t EXCEPT !.next = nn, !.prev = pp] \in Tables
  BY <1>1 DEF Tables
<1> HIDE DEF nn, pp
<1>4. CASE t.next[b] = p /\ t.prev[a] = p
  BY <1>2, <1>3, <1>4 DEF Tables
<1>5. CASE ~(t.next[b] = p /\ t.prev[a] = p)
  <2>1. delink_color_pair(t, p) = t
    BY <1>2, <1>5
  <2> QED BY <2>1 DEF Tables
<1> QED BY <1>4, <1>5

(* The index after _nc_reset_color_pair().                                   *)
IndexAfter(t, p, c) ==
    LET changes == t.mode[p] > FREE /\ t.colors[p] # c
        kept == IF changes THEN Without(t, t.colors[p]) ELSE t.index
    IN IF ~changes /\ t.mode[p] # FREE THEN t.index
       ELSE IF \E n \in kept : n.key = c THEN kept ELSE kept \cup {Node(p, c)}

LEMMA ResetFields ==
    ASSUME NEW t \in Tables, NEW p \in PairIds, NEW c \in Colors
    PROVE  LET r == _nc_reset_color_pair(t, p, c)
               d == delink_color_pair(t, p)
           IN /\ r \in Tables
              /\ r = [t EXCEPT !.next = d.next, !.prev = d.prev, !.index = IndexAfter(t, p, c)]
<1> DEFINE d == delink_color_pair(t, p)
           r == _nc_reset_color_pair(t, p, c)
           w == IndexAfter(t, p, c)
<1>1. d \in Tables /\ d = [t EXCEPT !.next = d.next, !.prev = d.prev]
  BY DelinkFields
<1>2. d.mode = t.mode /\ d.colors = t.colors /\ d.index = t.index
  BY <1>1 DEF Tables
<1>3. r = IF ~(t.mode[p] > FREE /\ t.colors[p] # c) /\ t.mode[p] # FREE THEN d
          ELSE [d EXCEPT !.index = w]
  <2>1. CASE t.mode[p] > FREE /\ t.colors[p] # c
    <3>1. r = [[d EXCEPT !.index = Without(d, d.colors[p])] EXCEPT
                  !.index = With([d EXCEPT !.index = Without(d, d.colors[p])], p, c)]
      BY <1>2, <2>1 DEF _nc_reset_color_pair
    <3>2. [d EXCEPT !.index = Without(d, d.colors[p])].index = Without(t, t.colors[p])
      BY <1>1, <1>2 DEF Tables, Without
    <3>3. With([d EXCEPT !.index = Without(d, d.colors[p])], p, c) = w
      BY <2>1, <3>2 DEF With, IndexAfter
    <3> QED BY <1>1, <2>1, <3>1, <3>3 DEF Tables
  <2>2. CASE ~(t.mode[p] > FREE /\ t.colors[p] # c) /\ t.mode[p] = FREE
    <3>1. r = [d EXCEPT !.index = With(d, p, c)]
      BY <1>2, <2>2 DEF _nc_reset_color_pair
    <3>2. With(d, p, c) = w
      BY <1>2, <2>2 DEF With, IndexAfter
    <3> QED BY <2>2, <3>1, <3>2
  <2>3. CASE ~(t.mode[p] > FREE /\ t.colors[p] # c) /\ t.mode[p] # FREE
    BY <1>2, <2>3 DEF _nc_reset_color_pair
  <2> QED BY <2>1, <2>2, <2>3
<1>4. w \in SUBSET [pair : PairIds, key : Colors \cup {Zero}]
  <2>1. t.index \in SUBSET [pair : PairIds, key : Colors \cup {Zero}]
    BY DEF Tables
  <2>2. Node(p, c) \in [pair : PairIds, key : Colors \cup {Zero}]
    BY DEF Node
  <2> QED BY <2>1, <2>2 DEF IndexAfter, Without
<1>5. ~(t.mode[p] > FREE /\ t.colors[p] # c) /\ t.mode[p] # FREE => w = t.index
  BY DEF IndexAfter
<1> HIDE DEF d, r, w
<1>6. r = [d EXCEPT !.index = w]
  <2>1. CASE ~(t.mode[p] > FREE /\ t.colors[p] # c) /\ t.mode[p] # FREE
    <3>1. r = d /\ w = d.index
      BY <1>2, <1>3, <1>5, <2>1
    <3> QED BY <1>1, <3>1 DEF Tables
  <2>2. CASE ~(~(t.mode[p] > FREE /\ t.colors[p] # c) /\ t.mode[p] # FREE)
    BY <1>3, <2>2
  <2> QED BY <2>1, <2>2
<1>7. r \in Tables
  BY <1>1, <1>4, <1>6 DEF Tables
<1>8. r = [t EXCEPT !.next = d.next, !.prev = d.prev, !.index = w]
  BY <1>1, <1>6 DEF Tables
<1> QED BY <1>7, <1>8 DEF d, r, w

(* The links after an entry was overwritten and set.                         *)
NextAfter(nx, p) ==
    LET z == [nx EXCEPT ![p] = 0] IN IF z[0] = p THEN z ELSE [z EXCEPT ![p] = z[0], ![0] = p]
PrevAfter(nx, pv, p) ==
    LET z == [nx EXCEPT ![p] = 0]
        y == [pv EXCEPT ![p] = 0]
    IN IF z[0] = p THEN y ELSE [[y EXCEPT ![z[0]] = p] EXCEPT ![p] = 0]

LEMMA SetFields ==
    ASSUME NEW t \in Tables, NEW p \in PairIds, t.mode[p] = FREE
    PROVE  LET u == _nc_set_color_pair(t, p, INIT)
           IN /\ u \in Tables
              /\ u = [t EXCEPT !.mode = [[@ EXCEPT ![0] = KEEP] EXCEPT ![p] = INIT], !.used = @ + 1,
                      !.next = IF t.next[0] = p THEN @ ELSE [@ EXCEPT ![p] = t.next[0], ![0] = p],
                      !.prev = IF t.next[0] = p THEN @
                               ELSE [[@ EXCEPT ![t.next[0]] = p] EXCEPT ![p] = 0]]
<1> DEFINE m == [[t.mode EXCEPT ![0] = KEEP] EXCEPT ![p] = INIT]
           kept == [t EXCEPT !.mode[0] = KEEP]
           counted == [kept EXCEPT !.used = IF kept.mode[p] <= FREE THEN @ + 1 ELSE @, !.mode[p] = INIT]
           nn == [t.next EXCEPT ![p] = t.next[0], ![0] = p]
           pp == [[t.prev EXCEPT ![t.next[0]] = p] EXCEPT ![p] = 0]
<1>1. kept = [t EXCEPT !.mode = [t.mode EXCEPT ![0] = KEEP]] /\ kept.mode = [t.mode EXCEPT ![0] = KEEP]
  BY DEF Tables
<1>2. kept.mode[p] <= FREE
  BY <1>1, PairFacts DEF Tables, KEEP, FREE
<1>3. m \in [PairIds -> {KEEP, FREE, INIT}]
  BY PairFacts DEF Tables
<1>4. counted = [t EXCEPT !.mode = m, !.used = @ + 1]
  <2>1. counted = [kept EXCEPT !.used = @ + 1, !.mode[p] = INIT]
    BY <1>2
  <2> QED BY <1>1, <2>1 DEF Tables
<1> HIDE DEF m, counted
<1>5. counted \in Tables
  <2>1. t.used + 1 \in Int
    BY DEF Tables
  <2> QED BY <1>3, <1>4, <2>1 DEF Tables
<1>6. nn \in [PairIds -> PairIds] /\ pp \in [PairIds -> PairIds]
  BY PairFacts DEF Tables
<1>7. counted.next = t.next /\ counted.prev = t.prev
  BY <1>4 DEF Tables
<1>8. _nc_set_color_pair(t, p, INIT) =
        IF t.next[0] = p THEN counted ELSE [counted EXCEPT !.next = nn, !.prev = pp]
  BY <1>7 DEF _nc_set_color_pair, counted, kept
<1> DEFINE ni == IF t.next[0] = p THEN t.next ELSE nn
           pi == IF t.next[0] = p THEN t.prev ELSE pp
           u == _nc_set_color_pair(t, p, INIT)
<1>9. ni \in [PairIds -> PairIds] /\ pi \in [PairIds -> PairIds]
  BY <1>6 DEF Tables
<1>10. u = [counted EXCEPT !.next = ni, !.prev = pi]
  <2>1. CASE t.next[0] = p
    <3>1. u = counted /\ ni = counted.next /\ pi = counted.prev
      BY <1>7, <1>8, <2>1
    <3> HIDE DEF u, ni, pi
    <3> QED BY <1>5, <3>1 DEF Tables
  <2>2. CASE t.next[0] # p
    <3>1. u = [counted EXCEPT !.next = nn, !.prev = pp] /\ ni = nn /\ pi = pp
      BY <1>8, <2>2
    <3> HIDE DEF u, ni, pi
    <3> QED BY <3>1
  <2> QED BY <2>1, <2>2
<1> HIDE DEF u, ni, pi
<1>11. u \in Tables
  BY <1>5, <1>9, <1>10 DEF Tables
<1>12. u = [t EXCEPT !.mode = m, !.used = @ + 1, !.next = ni, !.prev = pi]
  BY <1>4, <1>10 DEF Tables
<1> QED BY <1>11, <1>12 DEF u, ni, pi, m, nn, pp

(* What t becomes, u, when pair p is to be given c.                          *)
Initialised(t, p, c, u) ==
    LET d == delink_color_pair(t, p)
    IN /\ u \in Tables /\ u.recent = t.recent
       /\ t.ok /\ ~u.ok => \E n \in 1..Limit : u = [t EXCEPT !.size = n, !.ok = FALSE]
       /\ u.ok =>
             /\ t.ok
             /\ u.colors = [t.colors EXCEPT ![p] = c] /\ u.used = t.used + 1
             /\ u.mode = [[t.mode EXCEPT ![0] = KEEP] EXCEPT ![p] = INIT]
             /\ u.index = IndexAfter(t, p, c)
             /\ u.next = NextAfter(d.next, p) /\ u.prev = PrevAfter(d.next, d.prev, p)
             /\ \A x \in CellsOfScreen :
                   u.curscr[x] = IF t.colors[p] # Zero /\ t.colors[p] # c /\ t.curscr[x] = p
                                 THEN Forgotten ELSE t.curscr[x]
             /\ u.pen = IF t.pen.pair = p THEN NoPen ELSE t.pen

LEMMA InitFields ==
    ASSUME NEW t \in Tables, NEW p \in PairIds, NEW c \in Colors, NEW usesDefault \in BOOLEAN
    PROVE  Initialised(t, p, c, _nc_init_pair(t, p, c, usesDefault))
<1> DEFINE u == _nc_init_pair(t, p, c, usesDefault)
           d == delink_color_pair(t, p)
           re == ReservePairs(t, p)
           counted == [re EXCEPT !.defaults = IF usesDefault THEN DefaultPairs(re, p, c) ELSE @]
           changed == IF re.colors[p] # Zero /\ re.colors[p] # c
                      THEN _nc_change_pair(counted, p) ELSE counted
           reset == _nc_reset_color_pair(changed, p, c)
           copied == [reset EXCEPT !.colors[p] = c, !.mode[p] = FREE, !.prev[p] = 0, !.next[p] = 0]
           set == _nc_set_color_pair(copied, p, INIT)
<1>1. PICK n \in 1..Limit : re = [t EXCEPT !.size = n]
  BY ReserveFields
<1>2. re \in Tables
  BY <1>1 DEF Tables
<1>3. u = IF ~Accepts(re, p, c, usesDefault) THEN [re EXCEPT !.ok = FALSE]
          ELSE [set EXCEPT !.pen = IF @.pair = p THEN NoPen ELSE @]
  BY DEF _nc_init_pair
<1>4. CASE ~Accepts(re, p, c, usesDefault)
  <2>1. u = [re EXCEPT !.ok = FALSE]
    BY <1>3, <1>4
  <2> HIDE DEF u, re
  <2>2. u \in Tables /\ ~u.ok /\ u.recent = t.recent
    BY <1>1, <1>2, <2>1 DEF Tables
  <2>3. u = [t EXCEPT !.size = n, !.ok = FALSE]
    BY <1>1, <2>1 DEF Tables
  <2> QED BY <2>2, <2>3 DEF u, Initialised
<1>5. CASE Accepts(re, p, c, usesDefault)
  <2>1. PICK e \in Int : counted = [re EXCEPT !.defaults = e]
    <3>1. DefaultPairs(re, p, c) \in Int /\ re.defaults \in Int
      BY <1>2 DEF DefaultPairs, Tables
    <3>2. usesDefault => counted = [re EXCEPT !.defaults = DefaultPairs(re, p, c)]
      OBVIOUS
    <3>3. ~usesDefault => counted = [re EXCEPT !.defaults = re.defaults]
      OBVIOUS
    <3> QED BY <3>1, <3>2, <3>3
  <2> DEFINE Cells(x) == IF t.colors[p] # Zero /\ t.colors[p] # c /\ t.curscr[x] = p
                         THEN Forgotten ELSE t.curscr[x]
             cells == [x \in CellsOfScreen |-> Cells(x)]
  <2>2. cells \in [CellsOfScreen -> PairIds \cup {Forgotten}]
    BY DEF Tables
  <2>3. changed = [t EXCEPT !.size = n, !.defaults = e, !.curscr = cells]
    <3>1. re.colors = t.colors /\ counted.curscr = t.curscr
          /\ counted = [t EXCEPT !.size = n, !.defaults = e]
      BY <1>1, <2>1 DEF Tables
    <3> HIDE DEF re, counted
    <3>2. CASE t.colors[p] # Zero /\ t.colors[p] # c
      <4>1. changed = [counted EXCEPT !.curscr =
                          [x \in CellsOfScreen |-> IF @[x] = p THEN Forgotten ELSE @[x]]]
        BY <3>1, <3>2 DEF _nc_change_pair
      <4>2. cells = [x \in CellsOfScreen |-> IF counted.curscr[x] = p THEN Forgotten ELSE counted.curscr[x]]
        BY <3>1, <3>2
      <4>3. changed = [counted EXCEPT !.curscr = cells]
        BY <4>1, <4>2
      <4> HIDE DEF changed, cells
      <4> QED BY <3>1, <4>3 DEF Tables
    <3>3. CASE ~(t.colors[p] # Zero /\ t.colors[p] # c)
      <4>1. changed = counted
        BY <3>1, <3>3
      <4>2. cells = t.curscr
        BY <3>3 DEF Tables
      <4> HIDE DEF changed, cells
      <4> QED BY <3>1, <4>1, <4>2 DEF Tables
    <3> QED BY <3>2, <3>3
  <2> HIDE DEF re, counted, changed, cells
  <2>4. changed \in Tables
    BY <1>1, <2>2, <2>3 DEF Tables
  <2>5. /\ changed.next = t.next /\ changed.prev = t.prev /\ changed.mode = t.mode
        /\ changed.colors = t.colors /\ changed.index = t.index /\ changed.curscr = cells
        /\ changed.pen = t.pen /\ changed.used = t.used /\ changed.recent = t.recent /\ changed.ok = t.ok
    BY <2>3 DEF Tables
  <2> DEFINE dc == delink_color_pair(changed, p)
  <2>6. /\ reset \in Tables
        /\ reset = [changed EXCEPT !.next = dc.next, !.prev = dc.prev, !.index = IndexAfter(changed, p, c)]
    BY <2>4, ResetFields
  <2>7. dc.next = d.next /\ dc.prev = d.prev
    BY <2>4, <2>5 DEF delink_color_pair, Tables
  <2>8. IndexAfter(changed, p, c) = IndexAfter(t, p, c)
    BY <2>5 DEF IndexAfter, Without
  <2> HIDE DEF dc, reset, d
  <2>9. /\ reset.next = d.next /\ reset.prev = d.prev /\ reset.mode = t.mode
        /\ reset.colors = t.colors /\ reset.index = IndexAfter(t, p, c) /\ reset.curscr = cells
        /\ reset.pen = t.pen /\ reset.used = t.used /\ reset.recent = t.recent /\ reset.ok = t.ok
    BY <2>4, <2>5, <2>6, <2>7, <2>8 DEF Tables
  <2>10. copied = [reset EXCEPT !.colors = [reset.colors EXCEPT ![p] = c], !.mode = [reset.mode EXCEPT ![p] = FREE],
                                !.prev = [reset.prev EXCEPT ![p] = 0], !.next = [reset.next EXCEPT ![p] = 0]]
    BY <2>6 DEF Tables
  <2> HIDE DEF copied
  <2>11. copied \in Tables /\ copied.mode[p] = FREE
    <3>1. /\ [reset.colors EXCEPT ![p] = c] \in [PairIds -> Colors \cup {Zero}]
          /\ [reset.mode EXCEPT ![p] = FREE] \in [PairIds -> {FREE, INIT, KEEP}]
          /\ [reset.prev EXCEPT ![p] = 0] \in [PairIds -> PairIds]
          /\ [reset.next EXCEPT ![p] = 0] \in [PairIds -> PairIds]
      BY <2>6, PairFacts DEF Tables
    <3>2. copied.mode = [reset.mode EXCEPT ![p] = FREE] /\ p \in DOMAIN reset.mode
      BY <2>6, <2>10 DEF Tables
    <3> DEFINE c1 == [reset.colors EXCEPT ![p] = c]
               c2 == [reset.mode EXCEPT ![p] = FREE]
               c3 == [reset.prev EXCEPT ![p] = 0]
               c4 == [reset.next EXCEPT ![p] = 0]
    <3>3. copied = [reset EXCEPT !.colors = c1, !.mode = c2, !.prev = c3, !.next = c4]
      BY <2>10
    <3> HIDE DEF c1, c2, c3, c4
    <3>4. copied \in Tables
      <4>1. /\ c1 \in [PairIds -> Colors \cup {Zero}] /\ c2 \in [PairIds -> {KEEP, FREE, INIT}]
            /\ c3 \in [PairIds -> PairIds] /\ c4 \in [PairIds -> PairIds]
        BY <3>1 DEF c1, c2, c3, c4
      <4> QED BY <2>6, <3>3, <4>1 DEF Tables
    <3> QED BY <3>2, <3>4
  <2>12. /\ copied.next = [d.next EXCEPT ![p] = 0] /\ copied.prev = [d.prev EXCEPT ![p] = 0]
         /\ copied.mode = [t.mode EXCEPT ![p] = FREE]
         /\ copied.colors = [t.colors EXCEPT ![p] = c] /\ copied.index = IndexAfter(t, p, c)
         /\ copied.curscr = cells
         /\ copied.pen = t.pen /\ copied.used = t.used /\ copied.recent = t.recent /\ copied.ok = t.ok
    BY <2>6, <2>9, <2>10 DEF Tables
  <2> DEFINE fn == copied.next
             fp == copied.prev
  <2>13. /\ set \in Tables
         /\ set = [copied EXCEPT !.mode = [[@ EXCEPT ![0] = KEEP] EXCEPT ![p] = INIT], !.used = @ + 1,
                      !.next = IF fn[0] = p THEN @ ELSE [@ EXCEPT ![p] = fn[0], ![0] = p],
                      !.prev = IF fn[0] = p THEN @ ELSE [[@ EXCEPT ![fn[0]] = p] EXCEPT ![p] = 0]]
    BY <2>11, SetFields
  <2> HIDE DEF set
  <2>14. /\ set.next = (IF fn[0] = p THEN fn ELSE [fn EXCEPT ![p] = fn[0], ![0] = p])
         /\ set.prev = (IF fn[0] = p THEN fp ELSE [[fp EXCEPT ![fn[0]] = p] EXCEPT ![p] = 0])
         /\ set.mode = [[copied.mode EXCEPT ![0] = KEEP] EXCEPT ![p] = INIT]
         /\ set.colors = copied.colors /\ set.index = copied.index
         /\ set.curscr = cells
         /\ set.pen = t.pen /\ set.used = t.used + 1 /\ set.recent = t.recent /\ set.ok = t.ok
    BY <2>11, <2>12, <2>13, ZenonT(30) DEF Tables
  <2>15. set.next = NextAfter(d.next, p) /\ set.prev = PrevAfter(d.next, d.prev, p)
    BY <2>12, <2>14 DEF NextAfter, PrevAfter
  <2>16. set.mode = [[t.mode EXCEPT ![0] = KEEP] EXCEPT ![p] = INIT]
    BY <2>12, <2>14, PairFacts DEF Tables
  <2> DEFINE np == IF t.pen.pair = p THEN NoPen ELSE t.pen
  <2>17. u = [set EXCEPT !.pen = np]
    BY <1>3, <1>5, <2>14
  <2>18. np \in [pair : PairIds \cup {-3}, colors : Colors \cup {Zero}]
    BY DEF NoPen, Tables
  <2> HIDE DEF u, np
  <2>19. u \in Tables /\ u.recent = t.recent /\ u.ok = t.ok
    <3>1. set \in Tables
      BY <2>13
    <3>2. u \in Tables
      BY <2>17, <2>18, <3>1 DEF Tables
    <3>3. u.recent = set.recent /\ u.ok = set.ok
      BY <2>17, <3>1 DEF Tables
    <3> QED BY <2>14, <3>2, <3>3
  <2>20. /\ u.colors = set.colors /\ u.used = set.used /\ u.mode = set.mode /\ u.index = set.index
         /\ u.next = set.next /\ u.prev = set.prev /\ u.curscr = set.curscr
         /\ u.pen = np
    BY <2>13, <2>17 DEF Tables
  <2>21. \A x \in CellsOfScreen : u.curscr[x] = Cells(x)
    BY <2>14, <2>20 DEF cells
  <2>22. /\ u.colors = [t.colors EXCEPT ![p] = c] /\ u.used = t.used + 1
         /\ u.mode = [[t.mode EXCEPT ![0] = KEEP] EXCEPT ![p] = INIT]
         /\ u.index = IndexAfter(t, p, c)
         /\ u.next = NextAfter(d.next, p) /\ u.prev = PrevAfter(d.next, d.prev, p)
    BY <2>12, <2>14, <2>15, <2>16, <2>20
  <2>23. ~(t.ok /\ ~u.ok)
    BY <2>19
  <2> QED BY <2>19, <2>20, <2>21, <2>22, <2>23 DEF u, d, np, Initialised
<1> QED BY <1>4, <1>5

-----------------------------------------------------------------------------
(* The inductive invariant: the list, the index and the count.               *)

In(p, s) == \E i \in 1..Len(s) : s[i] = p
Drop(p, s) == IF \E i \in DOMAIN s : s[i] = p
              THEN RemoveAt(s, CHOOSE i \in DOMAIN s : s[i] = p) ELSE s

ListFits(nx, pv, s) ==
    /\ nx \in [PairIds -> PairIds] /\ pv \in [PairIds -> PairIds]
    /\ Listed(s) /\ Linked(s, nx, pv)
    /\ \A p \in Pairs : ~In(p, s) => Unlinked(p, nx, pv)
IndexFits(t) ==
    /\ \A n \in t.index : n.pair \in PairIds /\ t.mode[n.pair] # FREE /\ t.colors[n.pair] = n.key
    /\ \A m, n \in t.index : m.key = n.key => m = n

(* What is in the list is in use; the count is never below its length, and an *)
(* empty list means that at most pair 0 was set.                             *)
Fits(t, s) ==
    /\ t \in Tables /\ IndexFits(t) /\ ListFits(t.next, t.prev, s)
    /\ \A p \in Pairs : t.mode[p] \in {FREE, INIT} /\ (t.mode[p] = INIT <=> In(p, s))
    /\ Len(s) <= t.used
    /\ s = <<>> => t.used = 1 \/ (t.used = 0 /\ t.mode[0] = FREE)

LEMMA ListDelinked ==
    ASSUME NEW t \in Tables, NEW s, ListFits(t.next, t.prev, s), NEW p \in Pairs
    PROVE  LET d == delink_color_pair(t, p)
               r == Drop(p, s)
           IN /\ ListFits(d.next, d.prev, r) /\ ~In(p, r)
              /\ \A q : q # p => (In(q, r) <=> In(q, s))
              /\ Len(r) = IF In(p, s) THEN Len(s) - 1 ELSE Len(s)
<1> DEFINE d == delink_color_pair(t, p)
           r == Drop(p, s)
           b == t.prev[p]
           a == t.next[p]
           n == Len(s)
<1>1. /\ n \in Nat /\ At(s, 0) = 0 /\ At(s, n + 1) = 0
      /\ \A i \in 1..n : At(s, i) = s[i] /\ At(s, i) \in Pairs
      /\ \A i \in Int : At(s, i) \in PairIds
      /\ \A i, j \in 0..n : At(s, i) = At(s, j) => i = j
      /\ \A i, j \in 1..(n + 1) : At(s, i) = At(s, j) => i = j
  BY AtFacts DEF ListFits
<1>2. s \in Seq(Pairs) /\ DOMAIN s = 1..n
  BY DEF ListFits, Listed
<1>3. p \in PairIds /\ p # 0 /\ 0 \in PairIds
  BY PairFacts
<1>4. /\ t.next \in [PairIds -> PairIds] /\ t.prev \in [PairIds -> PairIds]
      /\ a \in PairIds /\ b \in PairIds
  BY <1>3 DEF Tables
<1>5. CASE In(p, s)
  <2> DEFINE k == CHOOSE i \in DOMAIN s : s[i] = p
  <2>1. k \in 1..n /\ s[k] = p
    BY <1>2, <1>5 DEF In
  <2>2. r = RemoveAt(s, k)
    BY <1>2, <1>5 DEF Drop, In
  <2> HIDE DEF k
  <2>3. a = At(s, k + 1) /\ b = At(s, k - 1)
    BY <2>1, LinkedEnds DEF ListFits
  <2>4. t.next[b] = p /\ t.prev[a] = p
    <3>1. k - 1 \in 0..n /\ (k - 1) + 1 = k /\ k \in 0..n
      BY <1>1, <2>1
    <3>2. t.next[At(s, k - 1)] = At(s, k) /\ t.prev[At(s, k + 1)] = At(s, k)
      BY <3>1 DEF ListFits, Linked
    <3> QED BY <1>1, <2>1, <2>3, <3>2
  <2> DEFINE nn == [t.next EXCEPT ![b] = a]
             pp == [t.prev EXCEPT ![a] = b]
  <2>5. d.next = nn /\ d.prev = pp
    BY <1>4, <2>4 DEF delink_color_pair, Tables
  <2>6. Listed(r) /\ Linked(r, nn, pp)
    <3>1. /\ Listed(RemoveAt(s, k))
          /\ Linked(RemoveAt(s, k), [t.next EXCEPT ![At(s, k - 1)] = At(s, k + 1)],
                                    [t.prev EXCEPT ![At(s, k + 1)] = At(s, k - 1)])
      BY <1>4, <2>1, Delinked DEF ListFits
    <3> QED BY <2>2, <2>3, <3>1
  <2>7. /\ Len(r) = n - 1
        /\ \A i \in 1..(n - 1) : r[i] = IF i < k THEN s[i] ELSE s[i + 1]
    BY <1>2, <2>1, <2>2, Removed
  <2>8. \A i \in 1..n : i # k => s[i] # p
    BY <2>1 DEF ListFits, Listed
  <2>9. ~In(p, r)
    <3> SUFFICES ASSUME NEW i \in 1..(n - 1) PROVE r[i] # p
      BY <2>7 DEF In
    <3>1. CASE i < k
      BY <1>1, <2>7, <2>8, <3>1
    <3>2. CASE ~(i < k)
      <4>1. i + 1 \in 1..n /\ i + 1 # k
        BY <1>1, <2>1, <3>2
      <4> QED BY <2>7, <2>8, <3>2, <4>1
    <3> QED BY <3>1, <3>2
  <2>10. ASSUME NEW q, q # p PROVE In(q, r) <=> In(q, s)
    <3>1. ASSUME NEW i \in 1..(n - 1), r[i] = q PROVE \E j \in 1..n : s[j] = q
      <4>1. i \in 1..n /\ i + 1 \in 1..n
        BY <1>1
      <4> QED BY <2>7, <3>1, <4>1
    <3>2. ASSUME NEW j \in 1..n, s[j] = q PROVE \E i \in 1..(n - 1) : r[i] = q
      <4>1. j # k
        BY <2>1, <2>10, <3>2
      <4>2. CASE j < k
        <5>1. j \in 1..(n - 1)
          BY <1>1, <2>1, <4>2
        <5> QED BY <2>7, <3>2, <4>2, <5>1
      <4>3. CASE j > k
        <5>1. j - 1 \in 1..(n - 1) /\ ~(j - 1 < k) /\ (j - 1) + 1 = j
          BY <1>1, <2>1, <4>3
        <5>2. r[j - 1] = s[j]
          BY <2>7, <5>1
        <5> QED BY <3>2, <5>1, <5>2
      <4> QED BY <1>1, <2>1, <4>1, <4>2, <4>3
    <3> QED BY <2>7, <3>1, <3>2 DEF In
  <2>11. nn \in [PairIds -> PairIds] /\ pp \in [PairIds -> PairIds]
    BY <1>4
  <2>12. ASSUME NEW q \in Pairs, ~In(q, r) PROVE Unlinked(q, nn, pp)
    <3>1. CASE q = p
      <4>1. a # p
        BY <1>1, <2>1, <2>3
      <4>2. pp[p] = b /\ nn[b] = a
        <5>1. pp[p] = t.prev[p]
          BY <1>3, <1>4, <4>1
        <5> QED BY <1>4, <5>1
      <4> QED BY <3>1, <4>1, <4>2 DEF Unlinked
    <3>2. CASE q # p
      <4>1. ~In(q, s) /\ t.next[t.prev[q]] # q /\ q \in PairIds /\ q # 0
        BY <2>10, <2>12, <3>2, PairFacts DEF ListFits, Unlinked
      <4>2. q # a
        <5>1. a = 0 \/ In(a, s)
          BY <2>3 DEF At, In
        <5> QED BY <4>1, <5>1
      <4>3. pp[q] = t.prev[q]
        BY <1>4, <4>1, <4>2
      <4>4. nn[t.prev[q]] # q
        BY <1>4, <4>1, <4>2
      <4> QED BY <4>3, <4>4 DEF Unlinked
    <3> QED BY <3>1, <3>2
  <2> HIDE DEF nn, pp, d, r
  <2> QED BY <1>5, <2>5, <2>6, <2>7, <2>9, <2>10, <2>11, <2>12 DEF ListFits, d, r
<1>6. CASE ~In(p, s)
  <2>1. r = s
    BY <1>2, <1>6 DEF Drop, In
  <2>2. d = t
    BY <1>6 DEF ListFits, Unlinked, delink_color_pair
  <2> QED BY <1>6, <2>1, <2>2
<1> QED BY <1>5, <1>6

LEMMA ListSet ==
    ASSUME NEW nx, NEW pv, NEW s, ListFits(nx, pv, s), NEW p \in Pairs, ~In(p, s)
    PROVE  ListFits(NextAfter(nx, p), PrevAfter(nx, pv, p), <<p>> \o s)
<1> DEFINE z == [nx EXCEPT ![p] = 0]
           y == [pv EXCEPT ![p] = 0]
           nn == [z EXCEPT ![p] = z[0], ![0] = p]
           pp == [[y EXCEPT ![z[0]] = p] EXCEPT ![p] = 0]
           r == <<p>> \o s
<1>1. p \in PairIds /\ p # 0 /\ 0 \in PairIds
  BY PairFacts
<1>2. /\ nx \in [PairIds -> PairIds] /\ pv \in [PairIds -> PairIds]
      /\ Listed(s) /\ Linked(s, nx, pv)
      /\ \A q \in Pairs : ~In(q, s) => nx[pv[q]] # q
  BY DEF ListFits, Unlinked
<1>3. /\ Len(s) \in Nat /\ \A i \in 1..Len(s) : At(s, i) = s[i] /\ At(s, i) \in Pairs
      /\ \A i \in Int : At(s, i) \in PairIds
  BY <1>2, AtFacts
<1>4. z \in [PairIds -> PairIds] /\ y \in [PairIds -> PairIds]
  BY <1>1, <1>2
<1>5. \A i \in Int : At(s, i) # p
  BY <1>1, <1>3 DEF At, In
<1>6. Linked(s, z, y)
  <2>1. \A i \in 0..Len(s) : i \in Int /\ i + 1 \in Int
    BY <1>3
  <2>2. \A i \in 0..Len(s) : z[At(s, i)] = nx[At(s, i)] /\ y[At(s, i + 1)] = pv[At(s, i + 1)]
    BY <1>2, <1>3, <1>5, <2>1
  <2> QED BY <1>2, <2>2 DEF Linked
<1>7. z[0] = At(s, 1) /\ z[0] # p /\ z[0] \in PairIds
  <2>1. z[0] = At(s, 1)
    <3> HIDE DEF z, y
    <3> QED BY <1>2, <1>6, LinkedEnds
  <2> HIDE DEF z
  <2> QED BY <1>3, <1>5, <2>1
<1>8. NextAfter(nx, p) = nn /\ PrevAfter(nx, pv, p) = pp
  BY <1>7 DEF NextAfter, PrevAfter
<1>9. Listed(r) /\ Linked(r, nn, pp)
  <2>1. \A i \in 1..Len(s) : s[i] # p
    BY DEF In
  <2> HIDE DEF z, y
  <2> QED BY <1>2, <1>4, <1>6, <2>1, SetFirst
<1>10. nn \in [PairIds -> PairIds] /\ pp \in [PairIds -> PairIds]
  BY <1>1, <1>4, <1>7
<1>11. ASSUME NEW q \in Pairs, ~In(q, r) PROVE Unlinked(q, nn, pp)
  <2>1. q # p /\ ~In(q, s)
    <3>1. /\ Len(r) = Len(s) + 1 /\ r[1] = p
          /\ \A i \in 1..Len(s) : r[i + 1] = s[i]
      BY <1>2, Prepended DEF Listed
    <3>2. 1 \in 1..Len(r) /\ \A i \in 1..Len(s) : i + 1 \in 1..Len(r)
      BY <1>3, <3>1
    <3> QED BY <1>11, <3>1, <3>2 DEF In
  <2>2. q \in PairIds /\ q # 0 /\ nx[pv[q]] # q
    BY <1>2, <2>1, PairFacts
  <2>3. q # z[0]
    BY <1>3, <1>7, <2>1, <2>2 DEF At, In
  <2>4. y[q] = pv[q] /\ pv[q] \in PairIds
    BY <1>2, <2>1, <2>2
  <2>5. z[pv[q]] # q
    BY <1>1, <1>2, <2>2, <2>4
  <2>6. pp[q] = pv[q]
    BY <1>1, <1>4, <1>7, <2>1, <2>2, <2>3, <2>4
  <2>7. nn[pv[q]] # q
    BY <1>1, <1>4, <1>7, <2>1, <2>3, <2>4, <2>5
  <2> QED BY <2>6, <2>7 DEF Unlinked
<1> HIDE DEF z, y, nn, pp
<1> QED BY <1>8, <1>9, <1>10, <1>11 DEF ListFits

(* The index follows an entry that is set: the node of its old colours is     *)
(* gone, and no node is for another pair's colours.                          *)
LEMMA IndexSet ==
    ASSUME NEW t \in Tables, IndexFits(t), NEW p \in PairIds, NEW c \in Colors,
           t.mode[p] \in {FREE, INIT}, NEW u \in Tables, u.colors = [t.colors EXCEPT ![p] = c],
           u.mode = [[t.mode EXCEPT ![0] = KEEP] EXCEPT ![p] = INIT], u.index = IndexAfter(t, p, c)
    PROVE  IndexFits(u)
<1>1. /\ u.colors[p] = c /\ u.mode[p] = INIT
      /\ \A q \in PairIds : q # p => u.colors[q] = t.colors[q] /\ u.mode[q] \in {t.mode[q], KEEP}
  BY PairFacts DEF Tables
<1>2. /\ \A n \in t.index : n.pair \in PairIds /\ t.mode[n.pair] # FREE /\ t.colors[n.pair] = n.key
      /\ \A m, n \in t.index : m.key = n.key => m = n
  BY DEF IndexFits
<1>3. \A n \in t.index : n.pair # p =>
          n.pair \in PairIds /\ u.mode[n.pair] # FREE /\ u.colors[n.pair] = n.key
  BY <1>1, <1>2 DEF KEEP, FREE
<1>4. Node(p, c).pair = p /\ Node(p, c).key = c
  BY DEF Node
<1>5. u.mode[p] # FREE
  BY <1>1 DEF INIT, FREE
<1> DEFINE changes == t.mode[p] > FREE /\ t.colors[p] # c
           kept == IF changes THEN Without(t, t.colors[p]) ELSE t.index
<1>6. kept \subseteq t.index
  BY DEF Without
<1>7. CASE ~changes /\ t.mode[p] # FREE
  <2>1. u.index = t.index /\ t.colors[p] = c
    BY <1>7 DEF IndexAfter, FREE, INIT
  <2>2. \A n \in t.index : n.pair = p => u.colors[p] = n.key
    BY <1>1, <1>2, <2>1
  <2> QED BY <1>2, <1>3, <1>5, <2>1, <2>2 DEF IndexFits
<1>8. CASE changes \/ t.mode[p] = FREE
  <2>1. u.index = IF \E n \in kept : n.key = c THEN kept ELSE kept \cup {Node(p, c)}
    BY <1>8 DEF IndexAfter
  <2>2. \A n \in kept : n.pair # p
    BY <1>2, <1>6, <1>8 DEF Without
  <2> HIDE DEF kept
  <2>3. \A n \in u.index : n.pair \in PairIds /\ u.mode[n.pair] # FREE /\ u.colors[n.pair] = n.key
    BY <1>1, <1>3, <1>4, <1>5, <1>6, <2>1, <2>2
  <2>4. \A m, n \in u.index : m.key = n.key => m = n
    BY <1>2, <1>4, <1>6, <2>1
  <2> QED BY <2>3, <2>4 DEF IndexFits
<1> QED BY <1>7, <1>8

(* _nc_init_pair() of a pair other than 0 puts it first.                     *)
LEMMA InitFits ==
    ASSUME NEW t, NEW s, Fits(t, s), t.ok, NEW p \in Pairs, NEW c \in Colors,
           NEW usesDefault \in BOOLEAN
    PROVE  LET u == _nc_init_pair(t, p, c, usesDefault)
           IN Fits(u, IF u.ok THEN <<p>> \o Drop(p, s) ELSE s)
<1> DEFINE u == _nc_init_pair(t, p, c, usesDefault)
           d == delink_color_pair(t, p)
           r == Drop(p, s)
<1>1. t \in Tables /\ p \in PairIds /\ p # 0 /\ 0 \in PairIds
  BY PairFacts DEF Fits
<1>2. Initialised(t, p, c, u)
  BY <1>1, InitFields
<1> HIDE DEF u
<1>3. CASE ~u.ok
  <2>1. PICK n \in 1..Limit : u = [t EXCEPT !.size = n, !.ok = FALSE]
    BY <1>2, <1>3 DEF Initialised
  <2>2. /\ u.next = t.next /\ u.prev = t.prev /\ u.mode = t.mode /\ u.index = t.index
        /\ u.colors = t.colors /\ u.used = t.used
    BY <1>1, <2>1 DEF Tables
  <2>3. Fits(u, s)
    <3>1. u \in Tables
      BY <1>2 DEF Initialised
    <3>2. IndexFits(u)
      BY <2>2 DEF Fits, IndexFits
    <3>3. ListFits(u.next, u.prev, s)
      BY <2>2 DEF Fits
    <3> QED BY <2>2, <3>1, <3>2, <3>3 DEF Fits
  <2> QED BY <1>3, <2>3 DEF u
<1>4. CASE u.ok
  <2>1. /\ u.colors = [t.colors EXCEPT ![p] = c] /\ u.used = t.used + 1
        /\ u.mode = [[t.mode EXCEPT ![0] = KEEP] EXCEPT ![p] = INIT]
        /\ u.index = IndexAfter(t, p, c)
        /\ u.next = NextAfter(d.next, p) /\ u.prev = PrevAfter(d.next, d.prev, p)
    BY <1>2, <1>4 DEF Initialised
  <2>2. /\ ListFits(d.next, d.prev, r) /\ ~In(p, r)
        /\ \A q : q # p => (In(q, r) <=> In(q, s))
        /\ Len(r) = IF In(p, s) THEN Len(s) - 1 ELSE Len(s)
    BY <1>1, ListDelinked DEF Fits
  <2> HIDE DEF d, r
  <2>3. ListFits(u.next, u.prev, <<p>> \o r)
    BY <2>1, <2>2, ListSet
  <2>4. t.mode[p] \in {FREE, INIT}
    BY DEF Fits
  <2>5. IndexFits(u)
    BY <1>1, <1>2, <2>1, <2>4, IndexSet DEF Fits, Initialised
  <2>6. /\ <<p>> \o r \in Seq(Pairs) /\ Len(<<p>> \o r) = Len(r) + 1 /\ Len(r) \in Nat
        /\ (<<p>> \o r)[1] = p /\ \A i \in 1..Len(r) : (<<p>> \o r)[i + 1] = r[i]
        /\ \A i \in 2..(Len(r) + 1) : i - 1 \in 1..Len(r) /\ (<<p>> \o r)[i] = r[i - 1]
    <3>1. r \in Seq(Pairs) /\ Len(r) \in Nat
      BY <2>2 DEF ListFits, Listed
    <3>2. /\ <<p>> \o r \in Seq(Pairs) /\ Len(<<p>> \o r) = Len(r) + 1
          /\ (<<p>> \o r)[1] = p /\ \A i \in 1..Len(r) : (<<p>> \o r)[i + 1] = r[i]
          /\ \A i \in 2..(Len(r) + 1) : i - 1 \in 1..Len(r) /\ (<<p>> \o r)[i] = r[i - 1]
      BY <3>1, Prepended
    <3> QED BY <3>1, <3>2
  <2>7. \A q \in Pairs : In(q, <<p>> \o r) <=> q = p \/ In(q, s)
    <3> SUFFICES ASSUME NEW q \in Pairs PROVE In(q, <<p>> \o r) <=> q = p \/ In(q, s)
      OBVIOUS
    <3>1. CASE q = p
      BY <2>6, <3>1 DEF In
    <3>2. CASE q # p
      <4>1. In(q, <<p>> \o r) => In(q, r)
        BY <2>6, <3>2 DEF In
      <4>2. In(q, r) => In(q, <<p>> \o r)
        <5> SUFFICES ASSUME NEW i \in 1..Len(r), r[i] = q PROVE In(q, <<p>> \o r)
          BY DEF In
        <5>1. i + 1 \in 1..Len(<<p>> \o r) /\ (<<p>> \o r)[i + 1] = q
          BY <2>6
        <5> QED BY <5>1 DEF In
      <4> QED BY <2>2, <3>2, <4>1, <4>2
    <3> QED BY <3>1, <3>2
  <2>8. \A q \in Pairs : u.mode[q] \in {FREE, INIT} /\ (u.mode[q] = INIT <=> In(q, <<p>> \o r))
    <3> SUFFICES ASSUME NEW q \in Pairs
                 PROVE  u.mode[q] \in {FREE, INIT} /\ (u.mode[q] = INIT <=> q = p \/ In(q, s))
      BY <2>7
    <3>1. q \in PairIds /\ q # 0
      BY PairFacts
    <3>2. u.mode[q] = IF q = p THEN INIT ELSE t.mode[q]
      BY <1>1, <2>1, <3>1 DEF Tables
    <3> QED BY <3>2 DEF Fits
  <2>9. Len(<<p>> \o r) <= u.used /\ <<p>> \o r # <<>>
    <3>1. Len(s) \in Nat /\ Len(s) <= t.used /\ t.used \in Int
      BY <1>1, AtFacts DEF Fits, ListFits, Tables
    <3>2. Len(r) <= Len(s)
      BY <2>2, <3>1
    <3> QED BY <2>1, <2>6, <3>1, <3>2
  <2>10. Fits(u, <<p>> \o r)
    BY <1>2, <2>3, <2>5, <2>8, <2>9 DEF Fits, Initialised
  <2> QED BY <1>4, <2>10 DEF u, r
<1> QED BY <1>3, <1>4

(* assume_default_colors() sets pair 0 of an empty table.                    *)
LEMMA DefaultFits ==
    ASSUME NEW t, NEW s, Fits(t, s), t.ok, t.used = 0, NEW c \in Colors
    PROVE  Fits(_nc_init_pair(t, 0, c, TRUE), s)
<1> DEFINE u == _nc_init_pair(t, 0, c, TRUE)
           d == delink_color_pair(t, 0)
<1>1. t \in Tables /\ 0 \in PairIds
  BY PairFacts DEF Fits
<1>2. s = <<>> /\ t.mode[0] = FREE
  <2>1. Len(s) = 0 /\ s \in Seq(Pairs)
    BY AtFacts DEF Fits, ListFits, Listed
  <2>2. s = <<>>
    BY <2>1
  <2> QED BY <2>2 DEF Fits
<1>3. Initialised(t, 0, c, u)
  BY <1>1, InitFields
<1> HIDE DEF u
<1>4. CASE ~u.ok
  <2>1. PICK n \in 1..Limit : u = [t EXCEPT !.size = n, !.ok = FALSE]
    BY <1>3, <1>4 DEF Initialised
  <2>2. /\ u.next = t.next /\ u.prev = t.prev /\ u.mode = t.mode /\ u.index = t.index
        /\ u.colors = t.colors /\ u.used = t.used
    BY <1>1, <2>1 DEF Tables
  <2>3. Fits(u, s)
    <3>1. u \in Tables
      BY <1>3 DEF Initialised
    <3>2. IndexFits(u)
      BY <2>2 DEF Fits, IndexFits
    <3>3. ListFits(u.next, u.prev, s)
      BY <2>2 DEF Fits
    <3> QED BY <2>2, <3>1, <3>2, <3>3 DEF Fits
  <2> QED BY <2>3 DEF u
<1>5. CASE u.ok
  <2>1. /\ u.colors = [t.colors EXCEPT ![0] = c] /\ u.used = t.used + 1
        /\ u.mode = [[t.mode EXCEPT ![0] = KEEP] EXCEPT ![0] = INIT]
        /\ u.index = IndexAfter(t, 0, c)
        /\ u.next = NextAfter(d.next, 0) /\ u.prev = PrevAfter(d.next, d.prev, 0)
    BY <1>3, <1>5 DEF Initialised
  <2>2. t.next[0] = 0 /\ t.prev[0] = 0
    <3>1. At(s, 1) = 0 /\ At(s, Len(s)) = 0
      BY <1>2 DEF At
    <3> QED BY <3>1, LinkedEnds DEF Fits, ListFits
  <2>3. d.next = t.next /\ d.prev = t.prev
    BY <1>1, <2>2 DEF delink_color_pair, Tables
  <2>4. u.next = t.next /\ u.prev = t.prev
    BY <1>1, <2>1, <2>2, <2>3 DEF NextAfter, PrevAfter, Tables
  <2> HIDE DEF d
  <2>5. IndexFits(u)
    <3>1. u \in Tables
      BY <1>3 DEF Initialised
    <3>2. IndexFits(t) /\ t.mode[0] \in {FREE, INIT}
      BY <1>2 DEF Fits
    <3> QED BY <1>1, <2>1, <3>1, <3>2, IndexSet
  <2>6. ListFits(u.next, u.prev, s)
    BY <2>4 DEF Fits
  <2>7. \A q \in Pairs : u.mode[q] = t.mode[q]
    BY <1>1, <2>1, PairFacts DEF Tables
  <2>8. Len(s) <= u.used /\ u.used = 1
    BY <1>2, <2>1
  <2>9. Fits(u, s)
    BY <1>3, <2>5, <2>6, <2>7, <2>8, ZenonT(30) DEF Fits, Initialised
  <2> QED BY <2>9 DEF u
<1> QED BY <1>4, <1>5

(* The fields that Fits() looks at.                                          *)
LEMMA FitsKept ==
    ASSUME NEW t, NEW s, Fits(t, s), NEW u \in Tables,
           u.next = t.next, u.prev = t.prev, u.mode = t.mode, u.index = t.index,
           u.colors = t.colors, u.used = t.used
    PROVE  Fits(u, s)
<1>1. IndexFits(u)
  BY DEF Fits, IndexFits
<1>2. ListFits(u.next, u.prev, s)
  BY DEF Fits
<1> QED BY <1>1, <1>2 DEF Fits

(* free_pair() gives back an entry.                                          *)
GivenBack(t, p) ==
    LET d == delink_color_pair(_nc_change_pair(t, p), p)
    IN [d EXCEPT !.index = Without(d, d.colors[p]), !.mode[p] = FREE, !.used = @ - 1]

LEMMA FreeFields ==
    ASSUME NEW t \in Tables, NEW p \in Pairs
    PROVE  LET u == GivenBack(t, p)
               d == delink_color_pair(t, p)
           IN /\ u \in Tables /\ u.ok = t.ok
              /\ u.next = d.next /\ u.prev = d.prev /\ u.colors = t.colors /\ u.pen = t.pen
              /\ u.mode = [t.mode EXCEPT ![p] = FREE] /\ u.used = t.used - 1
              /\ u.index = Without(t, t.colors[p])
              /\ \A x \in CellsOfScreen : u.curscr[x] = IF t.curscr[x] = p THEN Forgotten ELSE t.curscr[x]
<1> DEFINE cells == [x \in CellsOfScreen |-> IF t.curscr[x] = p THEN Forgotten ELSE t.curscr[x]]
           e == _nc_change_pair(t, p)
           d == delink_color_pair(e, p)
           u == GivenBack(t, p)
           w == Without(t, t.colors[p])
           m == [t.mode EXCEPT ![p] = FREE]
           n == delink_color_pair(t, p)
<1>1. e = [t EXCEPT !.curscr = cells]
  BY DEF _nc_change_pair
<1>2. cells \in [CellsOfScreen -> PairIds \cup {Forgotten}]
  BY DEF Tables
<1>3. p \in PairIds
  BY PairFacts
<1>4. \A x \in CellsOfScreen : cells[x] = IF t.curscr[x] = p THEN Forgotten ELSE t.curscr[x]
  OBVIOUS
<1>5. w \in SUBSET [pair : PairIds, key : Colors \cup {Zero}]
  BY DEF Without, Tables
<1>6. m \in [PairIds -> {KEEP, FREE, INIT}]
  BY DEF Tables
<1> HIDE DEF cells, e, d, u, w, m, n
<1>7. e \in Tables
  BY <1>1, <1>2 DEF Tables
<1>8. /\ e.next = t.next /\ e.prev = t.prev /\ e.mode = t.mode /\ e.colors = t.colors /\ e.pen = t.pen
      /\ e.index = t.index /\ e.used = t.used /\ e.curscr = cells /\ e.ok = t.ok
  BY <1>1 DEF Tables
<1>9. d \in Tables /\ d = [e EXCEPT !.next = d.next, !.prev = d.prev]
  BY <1>3, <1>7, DelinkFields DEF d
<1>10. d.next = n.next /\ d.prev = n.prev
  BY <1>7, <1>8 DEF delink_color_pair, Tables, d, n
<1>11. /\ d.mode = t.mode /\ d.colors = t.colors /\ d.pen = t.pen /\ d.index = t.index
       /\ d.used = t.used /\ d.curscr = cells /\ d.ok = t.ok
  BY <1>7, <1>8, <1>9 DEF Tables
<1>12. Without(d, d.colors[p]) = w
  BY <1>11 DEF Without, w
<1>13. u = [d EXCEPT !.index = w, !.mode = m, !.used = @ - 1]
  <2>1. u = [d EXCEPT !.index = w, !.mode[p] = FREE, !.used = @ - 1]
    BY <1>12 DEF u, GivenBack, d, e
  <2> QED BY <1>9, <1>11, <2>1 DEF Tables, m
<1>14. u \in Tables
  <2>1. d.used - 1 \in Int
    BY <1>9 DEF Tables
  <2> QED BY <1>5, <1>6, <1>9, <1>13, <2>1 DEF Tables
<1>15. /\ u.next = d.next /\ u.prev = d.prev /\ u.colors = d.colors /\ u.pen = d.pen /\ u.ok = d.ok
       /\ u.mode = m /\ u.used = d.used - 1 /\ u.index = w /\ u.curscr = d.curscr
  BY <1>9, <1>13 DEF Tables
<1> QED BY <1>4, <1>10, <1>11, <1>14, <1>15 DEF u, n, w, m

LEMMA FreeFits ==
    ASSUME NEW t, NEW s, Fits(t, s), NEW p \in Pairs, t.mode[p] = INIT, Len(s) > 1
    PROVE  Fits(GivenBack(t, p), Drop(p, s))
<1> DEFINE u == GivenBack(t, p)
           d == delink_color_pair(t, p)
           r == Drop(p, s)
<1>1. t \in Tables /\ p \in PairIds /\ In(p, s)
  BY PairFacts DEF Fits
<1>2. /\ u \in Tables
      /\ u.next = d.next /\ u.prev = d.prev /\ u.colors = t.colors
      /\ u.mode = [t.mode EXCEPT ![p] = FREE] /\ u.used = t.used - 1
      /\ u.index = Without(t, t.colors[p])
  BY <1>1, FreeFields
<1>3. /\ ListFits(d.next, d.prev, r) /\ ~In(p, r)
      /\ \A q : q # p => (In(q, r) <=> In(q, s))
      /\ Len(r) = Len(s) - 1
  BY <1>1, ListDelinked DEF Fits
<1> HIDE DEF u, d, r
<1>4. \A q \in PairIds : u.mode[q] = IF q = p THEN FREE ELSE t.mode[q]
  BY <1>1, <1>2 DEF Tables
<1>5. IndexFits(u)
  <2>1. /\ \A n \in t.index : n.pair \in PairIds /\ t.mode[n.pair] # FREE /\ t.colors[n.pair] = n.key
        /\ \A m, n \in t.index : m.key = n.key => m = n
    BY DEF Fits, IndexFits
  <2>2. u.index \subseteq t.index /\ \A n \in u.index : n.key # t.colors[p]
    BY <1>2 DEF Without
  <2>3. \A n \in u.index : n.pair # p
    BY <2>1, <2>2
  <2>4. \A n \in u.index : u.mode[n.pair] = t.mode[n.pair]
    BY <1>4, <2>1, <2>2, <2>3
  <2> QED BY <1>2, <2>1, <2>2, <2>4 DEF IndexFits
<1>6. \A q \in Pairs : u.mode[q] \in {FREE, INIT} /\ (u.mode[q] = INIT <=> In(q, r))
  <2> SUFFICES ASSUME NEW q \in Pairs
               PROVE  u.mode[q] \in {FREE, INIT} /\ (u.mode[q] = INIT <=> In(q, r))
    OBVIOUS
  <2>1. q \in PairIds
    BY PairFacts
  <2>2. CASE q = p
    BY <1>3, <1>4, <2>1, <2>2 DEF FREE, INIT
  <2>3. CASE q # p
    BY <1>3, <1>4, <2>1, <2>3 DEF Fits
  <2> QED BY <2>2, <2>3
<1>7. Len(r) <= u.used /\ r # <<>>
  <2>1. Len(s) \in Nat /\ Len(s) <= t.used /\ t.used \in Int
    BY <1>1, AtFacts DEF Fits, ListFits, Tables
  <2>2. Len(r) > 0
    BY <1>3, <2>1
  <2> QED BY <1>2, <1>3, <2>1, <2>2
<1>8. Fits(u, r)
  BY <1>2, <1>3, <1>5, <1>6, <1>7 DEF Fits
<1> QED BY <1>8 DEF u, r

-----------------------------------------------------------------------------
(* Types.                                                                    *)

Typed ==
    /\ Table \in Tables /\ default \in BOOLEAN
    /\ newscr \in [CellsOfScreen -> PairIds] /\ shown \in [CellsOfScreen -> Colors \cup {Zero}]

(* The state after a function of the table is what it returned.              *)
LEMMA Finished ==
    ASSUME NEW t \in Tables, Finish(t)
    PROVE  /\ Table' \in Tables /\ UNCHANGED <<newscr, shown>>
           /\ Table'.next = t.next /\ Table'.prev = t.prev /\ Table'.mode = t.mode
           /\ Table'.index = t.index /\ Table'.colors = t.colors /\ Table'.used = t.used
           /\ Table'.curscr = t.curscr /\ Table'.pen = t.pen
BY DEF Finish, Table, Tables

(* What init_pair(), alloc_pair() and assume_default_colors() begin with, and *)
(* give to _nc_init_pair(), pair p and colours c.                            *)
Begins(t) ==
    /\ t \in Tables /\ t.ok
    /\ t.next = next /\ t.prev = prev /\ t.mode = mode /\ t.index = index /\ t.colors = colors
    /\ t.used = used /\ t.curscr = curscr /\ t.pen = pen

LEMMA TableBegins == Typed => Begins(Table)
BY DEF Typed, Begins, Table

LEMMA NewPairInTable == Typed => NewPair \in Pairs \cup {ERR}
<1> SUFFICES ASSUME Typed PROVE NewPair \in Pairs \cup {ERR}
  OBVIOUS
<1>1. /\ Limit \in Nat /\ Limit > 1 /\ \A p \in PairIds : p \in Nat
      /\ size \in 1..Limit /\ recent \in PairIds
  BY PairFacts DEF Typed, Table, Tables
<1>2. \A S : S \subseteq Pairs /\ S # {} => First(S) \in Pairs
  <2> SUFFICES ASSUME NEW S, S \subseteq Pairs, S # {} PROVE First(S) \in Pairs
    OBVIOUS
  <2>1. S \subseteq Nat
    BY PairFacts
  <2>2. \E p \in S : \A q \in S : p <= q
    BY <2>1, LeastNatural
  <2> QED BY <2>2 DEF First
<1>3. FreeAfter \subseteq Pairs /\ FreeBefore \subseteq Pairs
  BY <1>1 DEF FreeAfter, FreeBefore, Pairs
<1>4. size < Limit => size \in Pairs
  BY <1>1 DEF Pairs, PairIds
<1> QED BY <1>2, <1>3, <1>4 DEF NewPair

LEMMA AllocBegins ==
    ASSUME Typed, NEW p \in PairIds
    PROVE  Begins([ReservePairs(Table, p) EXCEPT !.recent = p])
<1>1. Table \in Tables
  BY DEF Typed
<1>2. PICK n \in 1..Limit : ReservePairs(Table, p) = [Table EXCEPT !.size = n]
  BY <1>1, ReserveFields
<1> DEFINE u == [Table EXCEPT !.size = n, !.recent = p]
<1>3. [ReservePairs(Table, p) EXCEPT !.recent = p] = u
  BY <1>2
<1>4. u \in Tables
  BY <1>1 DEF Tables
<1>5. /\ u.ok /\ u.next = next /\ u.prev = prev /\ u.mode = mode /\ u.index = index
      /\ u.colors = colors /\ u.used = used /\ u.curscr = curscr /\ u.pen = pen
  BY DEF Table
<1> HIDE DEF u
<1> QED BY <1>3, <1>4, <1>5 DEF Begins

-----------------------------------------------------------------------------
(* The cells of the screen.                                                  *)

(* What the pen knows is so; every pair that a cell may have was given        *)
(* colours, so that a change of them makes the library draw the cell again.  *)
CellsInv ==
    /\ Typed
    /\ pen.pair \in PairIds => pen.colors = colors[pen.pair]
    /\ colors[0] # Zero /\ \A p \in PairIds : InUse(p) => colors[p] # Zero
    /\ \A x \in CellsOfScreen :
          /\ colors[newscr[x]] # Zero
          /\ curscr[x] # Forgotten => colors[curscr[x]] # Zero /\ shown[x] = colors[curscr[x]]

LEMMA PairTypes ==
    ASSUME Typed
    PROVE  /\ colors \in [PairIds -> Colors \cup {Zero}] /\ mode \in [PairIds -> {KEEP, FREE, INIT}]
           /\ prev \in [PairIds -> PairIds] /\ next \in [PairIds -> PairIds]
           /\ curscr \in [CellsOfScreen -> PairIds \cup {Forgotten}]
           /\ pen \in [pair : PairIds \cup {-3}, colors : Colors \cup {Zero}]
           /\ newscr \in [CellsOfScreen -> PairIds] /\ shown \in [CellsOfScreen -> Colors \cup {Zero}]
           /\ default \in BOOLEAN
BY DEF Typed, Table, Tables

LEMMA ZeroIsNoPair == Zero \notin Colors /\ Forgotten \notin PairIds /\ -3 \notin PairIds
BY ColorAssumption, PairFacts DEF Forgotten

LEMMA InitCells ==
    ASSUME CellsInv, NEW t, Begins(t), NEW p \in PairIds, NEW c \in Colors,
           NEW usesDefault \in BOOLEAN, default' \in BOOLEAN,
           Finish(_nc_init_pair(t, p, c, usesDefault))
    PROVE  CellsInv'
<1> DEFINE u == _nc_init_pair(t, p, c, usesDefault)
<1>1. Initialised(t, p, c, u) /\ Finish(u)
  BY InitFields DEF Begins
<1> HIDE DEF u
<1>2. u \in Tables
  BY <1>1 DEF Initialised
<1>3. /\ Table' \in Tables /\ UNCHANGED <<newscr, shown>>
      /\ mode' = u.mode /\ colors' = u.colors /\ curscr' = u.curscr /\ pen' = u.pen
  BY <1>1, <1>2, Finished DEF Finish
<1>4. Typed'
  BY <1>3 DEF CellsInv, Typed
<1>5. /\ t.mode = mode /\ t.colors = colors /\ t.curscr = curscr /\ t.pen = pen /\ t.ok /\ t \in Tables
  BY DEF Begins
<1>6. CASE ~u.ok
  <2>1. PICK n \in 1..Limit : u = [t EXCEPT !.size = n, !.ok = FALSE]
    BY <1>1, <1>5, <1>6 DEF Initialised
  <2>2. UNCHANGED <<mode, colors, curscr, pen, newscr, shown>>
    BY <1>3, <1>5, <2>1 DEF Tables
  <2> QED BY <1>4, <2>2 DEF CellsInv, InUse
<1>7. CASE u.ok
  <2>1. /\ colors' = [colors EXCEPT ![p] = c]
        /\ mode' = [[mode EXCEPT ![0] = KEEP] EXCEPT ![p] = INIT]
        /\ \A x \in CellsOfScreen :
              curscr'[x] = IF colors[p] # Zero /\ colors[p] # c /\ curscr[x] = p
                           THEN Forgotten ELSE curscr[x]
        /\ pen' = IF pen.pair = p THEN NoPen ELSE pen
    BY <1>1, <1>3, <1>5, <1>7 DEF Initialised
  <2>2. Typed
    BY DEF CellsInv
  <2>3. \A q \in PairIds : colors'[q] = IF q = p THEN c ELSE colors[q]
    BY <2>1, <2>2, PairTypes
  <2>4. c # Zero
    BY ZeroIsNoPair
  <2>5. pen'.pair \in PairIds => pen'.colors = colors'[pen'.pair]
    <3>1. CASE pen.pair = p
      BY <2>1, <3>1, ZeroIsNoPair DEF NoPen
    <3>2. CASE pen.pair # p
      BY <2>1, <2>3, <3>2 DEF CellsInv
    <3> QED BY <3>1, <3>2
  <2>6. colors'[0] # Zero
    BY <2>3, <2>4, PairFacts DEF CellsInv
  <2>7. ASSUME NEW q \in PairIds, mode'[q] = INIT PROVE colors'[q] # Zero
    <3>1. CASE q = p
      BY <2>3, <2>4, <3>1
    <3>2. CASE q # p
      <4>1. mode'[q] = IF q = 0 THEN KEEP ELSE mode[q]
        BY <2>1, <2>2, <3>2, PairTypes
      <4>2. mode[q] = INIT
        BY <2>7, <4>1 DEF KEEP, INIT
      <4> QED BY <2>3, <3>2, <4>2 DEF CellsInv, InUse
    <3> QED BY <3>1, <3>2
  <2>8. ASSUME NEW x \in CellsOfScreen
        PROVE  /\ colors'[newscr'[x]] # Zero
               /\ curscr'[x] # Forgotten =>
                     colors'[curscr'[x]] # Zero /\ shown'[x] = colors'[curscr'[x]]
    <3>1. newscr'[x] = newscr[x] /\ shown'[x] = shown[x] /\ newscr[x] \in PairIds
      BY <1>3, <2>2, PairTypes
    <3>2. colors'[newscr[x]] # Zero
      BY <2>3, <2>4, <3>1 DEF CellsInv
    <3>3. ASSUME curscr'[x] # Forgotten
          PROVE  colors'[curscr'[x]] # Zero /\ shown[x] = colors'[curscr'[x]]
      <4>1. curscr'[x] = curscr[x] /\ ~(colors[p] # Zero /\ colors[p] # c /\ curscr[x] = p)
        BY <2>1, <3>3
      <4>2. curscr[x] # Forgotten /\ curscr[x] \in PairIds
        BY <2>2, <3>3, <4>1, PairTypes
      <4>3. colors[curscr[x]] # Zero /\ shown[x] = colors[curscr[x]]
        BY <4>2 DEF CellsInv
      <4>4. colors'[curscr[x]] = colors[curscr[x]]
        BY <2>3, <4>1, <4>2, <4>3
      <4> QED BY <4>1, <4>3, <4>4
    <3> QED BY <3>1, <3>2, <3>3
  <2> QED BY <1>4, <2>5, <2>6, <2>7, <2>8 DEF CellsInv, InUse
<1> QED BY <1>6, <1>7

LEMMA FreePairCells ==
    ASSUME CellsInv, NEW p \in PairIds, FreePair(p)
    PROVE  CellsInv'
<1> DEFINE u == GivenBack(Table, p)
<1>1. Typed /\ Table \in Tables /\ p \in Pairs
  BY DEF CellsInv, Typed, FreePair, Pairs
<1>2. Finish(u) /\ UNCHANGED default
  BY DEF FreePair, GivenBack
<1>3. /\ u \in Tables /\ u.colors = colors /\ u.pen = pen /\ u.mode = [mode EXCEPT ![p] = FREE]
      /\ \A x \in CellsOfScreen : u.curscr[x] = IF curscr[x] = p THEN Forgotten ELSE curscr[x]
  <2>1. /\ u \in Tables /\ u.colors = Table.colors /\ u.pen = Table.pen
        /\ u.mode = [Table.mode EXCEPT ![p] = FREE]
        /\ \A x \in CellsOfScreen :
              u.curscr[x] = IF Table.curscr[x] = p THEN Forgotten ELSE Table.curscr[x]
    BY <1>1, FreeFields, SMTT(30)
  <2>2. /\ Table.colors = colors /\ Table.pen = pen /\ Table.mode = mode
        /\ Table.curscr = curscr
    BY DEF Table
  <2> HIDE DEF u
  <2> QED BY <2>1, <2>2
<1> HIDE DEF u
<1>4. /\ Table' \in Tables /\ UNCHANGED <<newscr, shown>>
      /\ mode' = u.mode /\ colors' = u.colors /\ curscr' = u.curscr /\ pen' = u.pen
  BY <1>2, <1>3, Finished DEF Finish
<1>5. Typed'
  BY <1>1, <1>2, <1>4 DEF Typed
<1>6. \A q \in PairIds : mode'[q] = INIT => mode[q] = INIT
  BY <1>1, <1>3, <1>4, PairTypes DEF FREE, INIT
<1> QED BY <1>3, <1>4, <1>5, <1>6 DEF CellsInv, InUse

LEMMA DoupdateCells ==
    ASSUME CellsInv, NEW want \in [CellsOfScreen -> PairIds], NEW early, Doupdate(want, early)
    PROVE  CellsInv'
<1>1. Typed
  BY DEF CellsInv
<1>2. /\ UNCHANGED <<table, default>> /\ newscr' = want /\ curscr' = want
      /\ \A x \in CellsOfScreen :
            shown'[x] = IF x \notin DrawnCells(want) THEN shown[x]
                        ELSE IF x \in early THEN pen.colors ELSE colors[want[x]]
      /\ pen' = UsePen(IF PenLeaves(want) THEN NoPen ELSE pen, 0)
      /\ \A x \in CellsOfScreen : x \in early => want[x] = pen.pair
      /\ DOMAIN shown' = CellsOfScreen
      /\ shown' = [x \in CellsOfScreen |-> shown'[x]]
      /\ \A x \in CellsOfScreen : want[x] = newscr[x] \/ InUse(want[x]) \/ want[x] = 0
  BY DEF Doupdate
<1>3. UNCHANGED <<colors, mode>>
  BY <1>2 DEF table
<1>4. \A x \in CellsOfScreen : want[x] \in PairIds /\ colors[want[x]] # Zero
  BY <1>2 DEF CellsInv
<1>5. ASSUME NEW x \in CellsOfScreen PROVE shown'[x] = colors[want[x]]
  <2>1. CASE x \notin DrawnCells(want)
    <3>1. curscr[x] # Forgotten /\ colors[curscr[x]] = colors[want[x]]
      BY <2>1 DEF DrawnCells, SamePair
    <3> QED BY <1>2, <2>1, <3>1 DEF CellsInv
  <2>2. CASE x \in DrawnCells(want) /\ x \in early
    <3>1. pen.pair = want[x]
      BY <1>2, <2>2
    <3>2. pen.colors = colors[want[x]]
      BY <1>4, <3>1 DEF CellsInv
    <3> QED BY <1>2, <2>2, <3>2
  <2>3. CASE x \in DrawnCells(want) /\ x \notin early
    BY <1>2, <2>3
  <2> QED BY <2>1, <2>2, <2>3
<1>6. pen'.pair = 0 /\ pen'.colors = colors[0]
  <2> DEFINE q == IF PenLeaves(want) THEN NoPen ELSE pen
  <2>1. q.pair = 0 => q.colors = colors[0]
    <3>1. q = NoPen \/ q = pen
      OBVIOUS
    <3>2. NoPen.pair # 0
      BY DEF NoPen
    <3>3. pen.pair = 0 => pen.colors = colors[0]
      BY PairFacts DEF CellsInv
    <3> QED BY <3>1, <3>2, <3>3
  <2>2. pen' = IF q.pair = 0 THEN q ELSE [pair |-> 0, colors |-> colors[0]]
    BY <1>2 DEF UsePen
  <2> QED BY <2>1, <2>2
<1>7. pen' \in [pair : PairIds \cup {-3}, colors : Colors \cup {Zero}]
  <2>1. colors[0] \in Colors \cup {Zero} /\ NoPen \in [pair : PairIds \cup {-3}, colors : Colors \cup {Zero}]
    BY <1>1, PairTypes, PairFacts DEF NoPen
  <2> QED BY <1>1, <1>2, <2>1, PairTypes, PairFacts DEF UsePen
<1>8. shown' \in [CellsOfScreen -> Colors \cup {Zero}]
  BY <1>1, <1>2, <1>4, <1>5, PairTypes
<1>9. Typed'
  <2>1. curscr' \in [CellsOfScreen -> PairIds \cup {Forgotten}] /\ newscr' \in [CellsOfScreen -> PairIds]
    BY <1>2
  <2>2. Table' \in Tables
    BY <1>1, <1>2, <1>7, <2>1 DEF Typed, Table, Tables, table
  <2> QED BY <1>1, <1>2, <1>8, <2>1, <2>2 DEF Typed
<1> QED BY <1>2, <1>3, <1>4, <1>5, <1>6, <1>9 DEF CellsInv, InUse

LEMMA CellsKept ==
    ASSUME CellsInv, UNCHANGED <<table, screen, default>>
    PROVE  CellsInv'
BY DEF CellsInv, Typed, Table, table, screen, InUse

LEMMA CellsStep == CellsInv /\ [Next]_vars => CellsInv'
<1> SUFFICES ASSUME CellsInv, [Next]_vars PROVE CellsInv'
  OBVIOUS
<1>1. Typed /\ Begins(Table) /\ default \in BOOLEAN
  BY TableBegins, PairTypes DEF CellsInv
<1>2. ASSUME NEW p \in PairIds, NEW c \in Colors, InitPair(p, c)
      PROVE  CellsInv'
  BY <1>1, <1>2, InitCells DEF InitPair
<1>3. ASSUME NEW c \in Colors, AssumeDefaultColors(c)
      PROVE  CellsInv'
  <2>1. Finish(_nc_init_pair(Table, 0, c, TRUE)) /\ default' \in BOOLEAN
    BY <1>3 DEF AssumeDefaultColors
  <2> QED BY <1>1, <2>1, InitCells, PairFacts
<1>4. ASSUME NEW c \in Colors, AllocPair(c)
      PROVE  CellsInv'
  <2> DEFINE room == used + 1 < Limit
             p == IF room THEN NewPair ELSE prev[0]
             t == IF room THEN [ReservePairs(Table, p) EXCEPT !.recent = p] ELSE Table
  <2>1. UNCHANGED default
        /\ IF p = ERR THEN UNCHANGED <<table, screen>> ELSE Finish(_nc_init_pair(t, p, c, default))
    BY <1>4 DEF AllocPair
  <2>2. p = ERR \/ p \in PairIds
    BY <1>1, NewPairInTable, PairTypes, PairFacts
  <2>3. p \in PairIds => Begins(t)
    BY <1>1, AllocBegins
  <2>4. CASE p = ERR
    BY <2>1, <2>4, CellsKept
  <2>5. CASE p # ERR
    <3>1. p \in PairIds /\ Begins(t) /\ default' \in BOOLEAN /\ Finish(_nc_init_pair(t, p, c, default))
      BY <1>1, <2>1, <2>2, <2>3, <2>5
    <3> HIDE DEF p, t
    <3> QED BY <1>1, <3>1, InitCells
  <2> QED BY <2>4, <2>5
<1>5. ASSUME NEW p \in PairIds, FreePair(p)
      PROVE  CellsInv'
  BY <1>5, FreePairCells
<1>6. ASSUME NEW want \in [CellsOfScreen -> PairIds], NEW early \in SUBSET CellsOfScreen,
             Doupdate(want, early)
      PROVE  CellsInv'
  BY <1>6, DoupdateCells
<1>7. CASE UNCHANGED vars
  BY <1>7, CellsKept DEF vars
<1> QED BY <1>2, <1>3, <1>4, <1>5, <1>6, <1>7 DEF Next

LEMMA CellsInit == Init => CellsInv
<1> SUFFICES ASSUME Init PROVE CellsInv
  OBVIOUS
<1>1. PICK c \in Colors : /\ colors = [p \in PairIds |-> IF p = 0 THEN c ELSE Zero]
                          /\ shown = [x \in CellsOfScreen |-> c] /\ pen = [pair |-> 0, colors |-> c]
  BY DEF Init
<1>2. c # Zero /\ 0 \in PairIds
  BY ZeroIsNoPair, PairFacts
<1>3. /\ colors \in [PairIds -> Colors \cup {Zero}] /\ mode \in [PairIds -> {KEEP, FREE, INIT}]
      /\ prev \in [PairIds -> PairIds] /\ next \in [PairIds -> PairIds] /\ size \in 1..Limit
      /\ used \in Int /\ recent \in PairIds /\ index = {} /\ defaults \in Int
      /\ curscr \in [CellsOfScreen -> PairIds \cup {Forgotten}]
      /\ pen \in [pair : PairIds \cup {-3}, colors : Colors \cup {Zero}]
  BY <1>1, <1>2 DEF Init, Sizes
<1>4. Typed
  <2>1. Table \in Tables
    BY <1>3 DEF Table, Tables
  <2> QED BY <1>1, <1>2, <2>1 DEF Typed, Init
<1>5. \A p \in PairIds : ~InUse(p)
  BY DEF Init, InUse, FREE, INIT
<1>6. \A x \in CellsOfScreen : newscr[x] = 0 /\ curscr[x] = 0 /\ shown[x] = c
  BY <1>1 DEF Init
<1> QED BY <1>1, <1>2, <1>4, <1>5, <1>6 DEF CellsInv

(* No cell keeps old colours: what the library thinks is drawn has the        *)
(* colours its pair has now, however often init_pair(), alloc_pair(),         *)
(* free_pair() and assume_default_colors() changed it since.                 *)
THEOREM CellsShowTheirPairs == Spec => []CellsTrue
<1>1. CellsInv => CellsTrue
  BY DEF CellsInv, CellsTrue
<1> QED BY <1>1, CellsInit, CellsStep, PTL DEF Spec

-----------------------------------------------------------------------------
(* The table, its index and its list.                                        *)

TableInv == Typed /\ Fits(Table, order)

LEMMA BeginsFits ==
    ASSUME TableInv, NEW t, Begins(t)
    PROVE  Fits(t, order)
<1>1. Fits(Table, order) /\ t \in Tables
  BY DEF TableInv, Begins
<1>2. /\ t.next = Table.next /\ t.prev = Table.prev /\ t.mode = Table.mode
      /\ t.index = Table.index /\ t.colors = Table.colors /\ t.used = Table.used
  BY DEF Begins, Table
<1> QED BY <1>1, <1>2, FitsKept

LEMMA FinishFits ==
    ASSUME Typed, NEW t, NEW s, Fits(t, s), Finish(t), default' \in BOOLEAN, order' = s
    PROVE  TableInv'
<1>1. t \in Tables
  BY DEF Fits
<1>2. /\ Table' \in Tables /\ UNCHANGED <<newscr, shown>>
      /\ Table'.next = t.next /\ Table'.prev = t.prev /\ Table'.mode = t.mode
      /\ Table'.index = t.index /\ Table'.colors = t.colors /\ Table'.used = t.used
  BY <1>1, Finished
<1>3. Fits(Table', s)
  BY <1>2, FitsKept
<1> QED BY <1>2, <1>3 DEF TableInv, Typed

LEMMA DroppedIsDrop ==
    ASSUME NEW t, NEW p
    PROVE  /\ Dropped(p) = Drop(p, order)
           /\ Latest(t, p) = IF t.ok THEN <<p>> \o Drop(p, order) ELSE order
BY DEF Dropped, Drop, Latest

LEMMA SetTable ==
    ASSUME TableInv, NEW t, Begins(t), NEW p \in Pairs, NEW c \in Colors,
           Finish(_nc_init_pair(t, p, c, default)),
           order' = Latest(_nc_init_pair(t, p, c, default), p), UNCHANGED default
    PROVE  TableInv'
<1> DEFINE u == _nc_init_pair(t, p, c, default)
           s == IF u.ok THEN <<p>> \o Drop(p, order) ELSE order
<1>1. Fits(t, order) /\ t.ok /\ default \in BOOLEAN /\ Typed
  BY BeginsFits, PairTypes DEF TableInv, Begins
<1>2. Fits(u, s)
  BY <1>1, InitFits
<1>3. order' = s
  BY DroppedIsDrop
<1>4. Finish(u) /\ default' \in BOOLEAN
  BY <1>1
<1> HIDE DEF u, s
<1> QED BY <1>1, <1>2, <1>3, <1>4, FinishFits

LEMMA AssumeDefaultColorsTable ==
    ASSUME TableInv, NEW c \in Colors, AssumeDefaultColors(c)
    PROVE  TableInv'
<1> DEFINE u == _nc_init_pair(Table, 0, c, TRUE)
<1>1. Typed /\ Fits(Table, order) /\ Table.ok /\ Table.used = 0
  BY DEF TableInv, AssumeDefaultColors, Table
<1>2. Fits(u, order)
  BY <1>1, DefaultFits
<1>3. Finish(u) /\ default' \in BOOLEAN /\ order' = order
  BY DEF AssumeDefaultColors
<1> HIDE DEF u
<1> QED BY <1>1, <1>2, <1>3, FinishFits

(* When no entry is left, the list is not empty: its last is recycled.       *)
LEMMA OldestIsPair ==
    ASSUME TableInv, Limit > 2, ~(used + 1 < Limit)
    PROVE  prev[0] \in Pairs
<1>1. /\ Listed(order) /\ Linked(order, next, prev)
      /\ order = <<>> => used = 1 \/ used = 0
  BY DEF TableInv, Fits, ListFits, Table
<1>2. order # <<>>
  BY <1>1, PairFacts
<1>3. Len(order) \in 1..Len(order)
  <2>1. order \in Seq(Pairs)
    BY <1>1 DEF Listed
  <2> QED BY <1>2, <2>1
<1>4. prev[0] = At(order, Len(order))
  BY <1>1, LinkedEnds
<1> QED BY <1>1, <1>3, <1>4, AtFacts

LEMMA TableKept ==
    ASSUME TableInv, UNCHANGED <<table, screen, default, order>>
    PROVE  TableInv'
<1>1. Table' = Table /\ Typed'
  BY DEF TableInv, Typed, Table, table, screen
<1> QED BY <1>1 DEF TableInv

LEMMA AllocPairTable ==
    ASSUME TableInv, Limit > 2, NEW c \in Colors, AllocPair(c)
    PROVE  TableInv'
<1> DEFINE room == used + 1 < Limit
           p == IF room THEN NewPair ELSE prev[0]
           t == IF room THEN [ReservePairs(Table, p) EXCEPT !.recent = p] ELSE Table
           u == _nc_init_pair(t, p, c, default)
<1>1. UNCHANGED default
      /\ IF p = ERR THEN UNCHANGED <<table, screen, order>>
                    ELSE Finish(u) /\ order' = Latest(u, p)
  BY DEF AllocPair
<1>2. Typed
  BY DEF TableInv
<1>3. p = ERR \/ p \in Pairs
  BY <1>2, NewPairInTable, OldestIsPair
<1>4. p \in Pairs => Begins(t)
  BY <1>2, AllocBegins, TableBegins, PairFacts
<1> HIDE DEF p, t
<1>5. CASE p = ERR
  BY <1>1, <1>5, TableKept
<1>6. CASE p # ERR
  BY <1>1, <1>3, <1>4, <1>6, SetTable
<1> QED BY <1>5, <1>6

LEMMA FreePairTable ==
    ASSUME TableInv, FreesAll = FALSE, NEW p \in PairIds, FreePair(p)
    PROVE  TableInv'
<1> DEFINE u == GivenBack(Table, p)
<1>1. Typed /\ Fits(Table, order) /\ p \in Pairs /\ Table.mode[p] = INIT /\ Len(order) > 1
  BY DEF TableInv, FreePair, InUse, Pairs, Table
<1>2. Fits(u, Drop(p, order))
  BY <1>1, FreeFits
<1>3. Finish(u) /\ default' \in BOOLEAN /\ order' = Drop(p, order)
  <2>1. default \in BOOLEAN
    BY <1>1, PairTypes
  <2>2. order' = Dropped(p)
    BY DEF FreePair
  <2>3. Finish(u) /\ UNCHANGED default
    BY DEF FreePair, GivenBack
  <2> QED BY <2>1, <2>2, <2>3, DroppedIsDrop
<1> HIDE DEF u
<1> QED BY <1>1, <1>2, <1>3, FinishFits

LEMMA DoupdateTable ==
    ASSUME TableInv, Typed', NEW want, NEW early, Doupdate(want, early)
    PROVE  TableInv'
<1>1. /\ Table' \in Tables /\ order' = order
      /\ Table'.next = Table.next /\ Table'.prev = Table.prev /\ Table'.mode = Table.mode
      /\ Table'.index = Table.index /\ Table'.colors = Table.colors /\ Table'.used = Table.used
  BY DEF Typed, Doupdate, table, Table
<1>2. Fits(Table, order)
  BY DEF TableInv
<1>3. Fits(Table', order)
  BY <1>1, <1>2, FitsKept
<1> QED BY <1>1, <1>3 DEF TableInv

LEMMA TableStep ==
    ASSUME FreesAll = FALSE, Limit > 2
    PROVE  CellsInv /\ TableInv /\ [Next]_vars => CellsInv' /\ TableInv'
<1> SUFFICES ASSUME CellsInv, TableInv, [Next]_vars PROVE TableInv'
  BY CellsStep
<1>1. Typed' /\ Begins(Table)
  BY CellsStep, TableBegins DEF CellsInv
<1>2. ASSUME NEW p \in PairIds, NEW c \in Colors, InitPair(p, c)
      PROVE  TableInv'
  <2>1. p \in Pairs
    BY <1>2, PairFacts DEF InitPair, Pairs
  <2>2. /\ Finish(_nc_init_pair(Table, p, c, default)) /\ UNCHANGED default
        /\ order' = Latest(_nc_init_pair(Table, p, c, default), p)
    BY <1>2 DEF InitPair
  <2> QED BY <1>1, <2>1, <2>2, SetTable
<1>3. ASSUME NEW c \in Colors, AssumeDefaultColors(c)
      PROVE  TableInv'
  BY <1>3, AssumeDefaultColorsTable
<1>4. ASSUME NEW c \in Colors, AllocPair(c)
      PROVE  TableInv'
  BY <1>4, AllocPairTable
<1>5. ASSUME NEW p \in PairIds, FreePair(p)
      PROVE  TableInv'
  BY <1>5, FreePairTable
<1>6. ASSUME NEW want \in [CellsOfScreen -> PairIds], NEW early \in SUBSET CellsOfScreen,
             Doupdate(want, early)
      PROVE  TableInv'
  BY <1>1, <1>6, DoupdateTable
<1>7. CASE UNCHANGED vars
  BY <1>7, TableKept DEF vars
<1> QED BY <1>2, <1>3, <1>4, <1>5, <1>6, <1>7 DEF Next

LEMMA TableInit == Init => TableInv
<1> SUFFICES ASSUME Init PROVE TableInv
  OBVIOUS
<1>1. Typed
  BY CellsInit DEF CellsInv
<1>2. /\ order = <<>> /\ Table.index = {} /\ Table.used = 0
      /\ Table.mode = [p \in PairIds |-> FREE] /\ Table.next = [p \in PairIds |-> 0]
      /\ Table.prev = [p \in PairIds |-> 0]
  BY DEF Init, Table
<1>3. Table \in Tables
  BY <1>1 DEF Typed
<1> HIDE DEF Table
<1>4. Len(<<>>) = 0 /\ <<>> \in Seq(Pairs)
  OBVIOUS
<1>5. ListFits(Table.next, Table.prev, <<>>)
  <2>1. Linked(<<>>, Table.next, Table.prev)
    <3>1. \A i \in 0..0 : At(<<>>, i) = 0 /\ At(<<>>, i + 1) = 0
      BY <1>4 DEF At
    <3> QED BY <1>2, <1>4, <3>1, PairFacts DEF Linked
  <2>2. \A p \in Pairs : Unlinked(p, Table.next, Table.prev)
    BY <1>2, PairFacts DEF Unlinked
  <2> QED BY <1>2, <1>3, <1>4, <2>1, <2>2 DEF ListFits, Listed, Tables
<1>6. \A p \in Pairs : Table.mode[p] = FREE /\ ~In(p, <<>>)
  BY <1>2, <1>4, PairFacts DEF In
<1>7. Table.mode[0] = FREE
  BY <1>2, PairFacts
<1>8. IndexFits(Table)
  BY <1>2 DEF IndexFits
<1>9. Fits(Table, <<>>)
  BY <1>2, <1>3, <1>4, <1>5, <1>6, <1>7, <1>8 DEF Fits, FREE, INIT
<1> QED BY <1>1, <1>2, <1>9 DEF TableInv

LEMMA TableSound == TableInv => PairsSound
<1> SUFFICES ASSUME TableInv PROVE IndexSound /\ ListExact
  BY DEF PairsSound
<1>1. /\ Fits(Table, order) /\ Table.next = next /\ Table.prev = prev /\ Table.mode = mode
      /\ Table.index = index /\ Table.colors = colors
  BY DEF TableInv, Table
<1>2. /\ Listed(order) /\ Linked(order, next, prev) /\ order \in Seq(Pairs)
      /\ \A p \in Pairs : mode[p] = INIT <=> In(p, order)
  BY <1>1 DEF Fits, ListFits, Listed
<1>3. IndexSound
  BY <1>1 DEF Fits, IndexFits, IndexSound
<1>4. {order[i] : i \in DOMAIN order} = {p \in PairIds \ {0} : InUse(p)}
  <2>1. \A i \in DOMAIN order : order[i] \in Pairs /\ In(order[i], order)
    BY <1>2 DEF In
  <2>2. \A p \in Pairs : In(p, order) => \E i \in DOMAIN order : order[i] = p
    BY <1>2 DEF In
  <2> QED BY <1>2, <2>1, <2>2 DEF InUse, Pairs
<1>5. /\ Len(Chain) = Len(order) + 2
      /\ \A i \in 1..(Len(order) + 2) : Chain[i] = At(order, i - 1)
  <2> DEFINE first == <<0>> \o order
  <2>1. order \in Seq(PairIds) /\ Len(order) \in Nat
    BY <1>2, PairFacts
  <2>2. /\ first \in Seq(PairIds) /\ Len(first) = Len(order) + 1 /\ first[1] = 0
        /\ \A i \in 2..(Len(order) + 1) : first[i] = order[i - 1]
    BY <2>1, PairFacts, Prepended
  <2>3. Chain = first \o <<0>>
    BY DEF Chain
  <2> HIDE DEF first
  <2>4. /\ Len(Chain) = Len(order) + 2
        /\ \A i \in 1..(Len(order) + 1) : Chain[i] = first[i]
        /\ Chain[Len(order) + 2] = 0
    BY <2>1, <2>2, <2>3
  <2> QED BY <2>1, <2>2, <2>4 DEF At
<1>6. ASSUME NEW i \in 1..(Len(Chain) - 1)
      PROVE  next[Chain[i]] = Chain[i + 1] /\ prev[Chain[i + 1]] = Chain[i]
  <2>1. Len(order) \in Nat /\ i - 1 \in 0..Len(order) /\ (i - 1) + 1 = i
    BY <1>2, <1>5
  <2>2. Chain[i] = At(order, i - 1) /\ Chain[i + 1] = At(order, (i - 1) + 1)
    BY <1>5, <2>1
  <2> QED BY <1>2, <2>1, <2>2 DEF Linked
<1> QED BY <1>3, <1>4, <1>6 DEF ListExact

(* As long as an application does not free its last pair, find_pair() finds   *)
(* only pairs in use, by the colours they have, and the list that recycling   *)
(* takes the oldest pair from is exactly the pairs in use by their age.      *)
THEOREM PairsAreSound ==
    ASSUME FreesAll = FALSE, Limit > 2
    PROVE  Spec => []PairsSound
<1>1. Init => CellsInv /\ TableInv
  BY CellsInit, TableInit
<1>2. CellsInv /\ TableInv /\ [Next]_vars => (CellsInv /\ TableInv)'
  BY TableStep
<1>3. TableInv => PairsSound
  BY TableSound
<1> QED BY <1>1, <1>2, <1>3, PTL DEF Spec

-----------------------------------------------------------------------------
(* The modes of the driver.                                                  *)

AllBits == OtherBits \cup {ICANON, ISIG}

ModesType ==
    /\ tty \in SUBSET AllBits /\ Nttyb \in SUBSET AllBits /\ Ottyb \in SUBSET AllBits
    /\ saved \in SUBSET AllBits
    /\ flags \in [raw : BOOLEAN, cbreak : {0, 1, 3}]
    /\ endwin \in {"initial", "running", "suspended"}
    /\ use_meta \in BOOLEAN /\ keypad_on \in BOOLEAN /\ use_keypad \in BOOLEAN
    /\ term \in [keypad : BOOLEAN, meta : BOOLEAN]
    /\ buf \in [tty : SUBSET AllBits, raw : BOOLEAN, cbreak : {0, 1, 3}]
    /\ asked \in [raw : BOOLEAN, cbreak : {0, 1, 3}, meta : BOOLEAN, shell : BOOLEAN]
    /\ stopped \in [is : BOOLEAN, tty : SUBSET AllBits]
    /\ lineRead \in BOOLEAN

(* Bits that are those of the modes asked for, but for lines that were read. *)
Fit(bits) ==
    /\ ISIG \in bits <=> ~asked.raw
    /\ ICANON \in bits => asked.cbreak = 0
    /\ asked.cbreak = 0 /\ ~lineRead => ICANON \in bits

(* The bits of the program fit at all times, those of the driver whenever the *)
(* program has it, and those wgetnstr() will put back while it is at work.    *)
BitsFit ==
    /\ Fit(Nttyb)
    /\ ~stopped.is /\ ~asked.shell => Fit(tty)
    /\ buf # NotReading => Fit(buf.tty)
FlagsFit ==
    LET kept == IF buf = NotReading THEN flags ELSE buf
    IN kept.raw = asked.raw /\ kept.cbreak = asked.cbreak

(* Where the screen is, and the terminal's own modes with it.                *)
ScreenFits ==
    /\ use_meta = asked.meta
    /\ IF stopped.is \/ asked.shell
       THEN endwin = "suspended" /\ term = [keypad |-> FALSE, meta |-> FALSE]
       ELSE endwin # "suspended" /\ term = [keypad |-> keypad_on, meta |-> asked.meta]
    /\ stopped.is => ~asked.shell
    /\ asked.shell => tty = Ottyb /\ buf = NotReading

ModesInv == ModesType /\ BitsFit /\ FlagsFit /\ ScreenFits

-----------------------------------------------------------------------------
(* The state after initscr().                                                *)
LEMMA ModesInitInv == ModesInit => ModesInv
<1> SUFFICES ASSUME ModesInit PROVE ModesInv
  OBVIOUS
<1>1. PICK S \in SUBSET OtherBits : Ottyb = {ICANON, ISIG} \cup S
  BY DEF ModesInit
<1>2. ISIG \in Nttyb /\ ICANON \notin Nttyb /\ tty = Nttyb
  BY <1>1, BitsAssumption DEF ModesInit, ICANON, ISIG
<1>3. ModesType
  BY <1>1 DEF ModesInit, ModesType, AllBits, NotReading
<1>4. Fit(Nttyb) /\ Fit(tty)
  BY <1>2 DEF ModesInit, Fit
<1> QED BY <1>3, <1>4 DEF ModesInit, ModesInv, BitsFit, FlagsFit, ScreenFits

(* Every step keeps the types.                                               *)
LEMMA ModesTypeStep == ModesType /\ [ModesNext]_modeVars => ModesType'
<1> SUFFICES ASSUME ModesType, [ModesNext]_modeVars PROVE ModesType'
  OBVIOUS
<1>1. ASSUME NEW bits \in SUBSET AllBits, NEW r \in BOOLEAN, NEW c \in {0, 1, 3},
             Sets(bits, r, c)
      PROVE  ModesType'
  <2>1. asked' \in [raw : BOOLEAN, cbreak : {0, 1, 3}, meta : BOOLEAN, shell : BOOLEAN]
    BY <1>1 DEF Sets, ModesType
  <2> QED BY <1>1, <2>1 DEF Sets, ModesType
<1>2. /\ Nttyb \in SUBSET AllBits /\ {ICANON, ISIG} \in SUBSET AllBits
      /\ flags.raw \in BOOLEAN /\ flags.cbreak \in {0, 1, 3}
  BY DEF ModesType, AllBits
<1>3. CASE raw
  BY <1>1, <1>2, <1>3 DEF raw
<1>4. CASE noraw
  BY <1>1, <1>2, <1>4 DEF noraw
<1>5. CASE cbreak
  BY <1>1, <1>2, <1>5 DEF cbreak
<1>6. CASE nocbreak
  BY <1>1, <1>2, <1>6 DEF nocbreak
<1>7. CASE halfdelay
  BY <1>1, <1>2, <1>7 DEF halfdelay
<1>8. CASE intrflush
  BY <1>1, <1>2, <1>8 DEF intrflush, AllBits
<1>9. CASE savetty \/ resetty \/ def_prog_mode
  BY <1>9 DEF savetty, resetty, def_prog_mode, Modes, ModesType
<1>10. CASE meta \/ keypad
  <2>1. PICK f \in BOOLEAN : term' \in {[term EXCEPT !.meta = f], [term EXCEPT !.keypad = f]}
    BY <1>10 DEF meta, keypad
  <2>2. term' \in [keypad : BOOLEAN, meta : BOOLEAN]
    BY <2>1 DEF ModesType
  <2>3. asked' \in [raw : BOOLEAN, cbreak : {0, 1, 3}, meta : BOOLEAN, shell : BOOLEAN]
    BY <1>10 DEF meta, keypad, Modes, ModesType
  <2> QED BY <1>10, <2>2, <2>3 DEF meta, keypad, Modes, ModesType
<1>11. CASE wgetnstr \/ wgetnstrEnds
  <2>1. flags' \in [raw : BOOLEAN, cbreak : {0, 1, 3}]
    BY <1>11 DEF wgetnstr, wgetnstrEnds, Modes, ModesType
  <2>2. buf' \in [tty : SUBSET AllBits, raw : BOOLEAN, cbreak : {0, 1, 3}]
    <3>1. NotReading \in [tty : SUBSET AllBits, raw : BOOLEAN, cbreak : {0, 1, 3}]
      BY DEF NotReading
    <3>2. CASE wgetnstr
      BY <3>2 DEF wgetnstr, ModesType
    <3>3. CASE wgetnstrEnds
      BY <3>1, <3>3 DEF wgetnstrEnds
    <3> QED BY <1>11, <3>2, <3>3
  <2>3. tty' \in SUBSET AllBits /\ Nttyb' \in SUBSET AllBits /\ lineRead' \in BOOLEAN
    BY <1>11 DEF wgetnstr, wgetnstrEnds, Modes, ModesType
  <2>4. UNCHANGED <<Ottyb, saved, endwin, use_meta, keypad_on, use_keypad, term, stopped, asked>>
    BY <1>11 DEF wgetnstr, wgetnstrEnds, Modes
  <2> QED BY <2>1, <2>2, <2>3, <2>4 DEF ModesType
<1>12. CASE endwins \/ refresh
  <2>1. asked' \in [raw : BOOLEAN, cbreak : {0, 1, 3}, meta : BOOLEAN, shell : BOOLEAN]
    BY <1>12 DEF endwins, refresh, ModesType
  <2>2. CASE endwins
    BY <2>1, <2>2 DEF endwins, ToShell, ModesType
  <2>3. CASE refresh
    BY <2>1, <2>3 DEF refresh, ToProgram, ModesType
  <2> QED BY <1>12, <2>2, <2>3
<1>13. CASE stop
  <2>1. /\ stopped' \in [is : BOOLEAN, tty : SUBSET AllBits] /\ Nttyb' \in SUBSET AllBits
        /\ term' \in [keypad : BOOLEAN, meta : BOOLEAN] /\ use_meta' \in BOOLEAN
    BY <1>13 DEF stop, Saved, ToShell, ModesType
  <2>2. endwin' \in {"initial", "running", "suspended"} /\ tty' \in SUBSET AllBits
    BY <1>13 DEF stop, ToShell, ModesType
  <2>3. UNCHANGED <<Ottyb, saved, flags, use_keypad, buf, asked, lineRead>>
    BY <1>13 DEF stop
  <2>4. keypad_on' \in BOOLEAN
    BY <1>13 DEF stop, ToShell, ModesType
  <2> QED BY <2>1, <2>2, <2>3, <2>4 DEF ModesType
<1>14. CASE stty
  <2>1. tty' \in SUBSET AllBits
    BY <1>14 DEF stty, AllBits
  <2> QED BY <1>14, <2>1 DEF stty, ModesType
<1>15. CASE continue
  <2>1. stopped' \in [is : BOOLEAN, tty : SUBSET AllBits]
    BY <1>15 DEF continue, ModesType
  <2> QED BY <1>15, <2>1 DEF continue, ToProgram, ModesType
<1>16. CASE UNCHANGED modeVars
  BY <1>16 DEF modeVars, ModesType
<1> QED BY <1>3, <1>4, <1>5, <1>6, <1>7, <1>8, <1>9, <1>10, <1>11, <1>12, <1>13, <1>14, <1>15,
           <1>16 DEF ModesNext

(* A call of the application that sets bits, flags and what is asked for.    *)
LEMMA SetsInv ==
    ASSUME ModesInv, NEW bits \in SUBSET AllBits, NEW r \in BOOLEAN, NEW c \in {0, 1, 3},
           ISIG \in bits <=> ~r, ICANON \in bits => c = 0,
           c = 0 => ICANON \in bits \/ (lineRead /\ asked.cbreak = 0),
           Sets(bits, r, c), ModesType'
    PROVE  ModesInv'
<1>1. /\ tty' = bits /\ Nttyb' = bits /\ flags' = [raw |-> r, cbreak |-> c]
      /\ asked' = [asked EXCEPT !.raw = r, !.cbreak = c]
      /\ lineRead' = (lineRead /\ ICANON \notin bits)
      /\ buf = NotReading /\ ~stopped.is /\ ~asked.shell
      /\ UNCHANGED <<Ottyb, saved, endwin, use_meta, keypad_on, use_keypad, term, buf, stopped>>
  BY DEF Sets, Calls, Running
<1>2. /\ asked'.raw = r /\ asked'.cbreak = c /\ asked'.meta = asked.meta
      /\ asked'.shell = asked.shell
      /\ asked' \in [raw : BOOLEAN, cbreak : {0, 1, 3}, meta : BOOLEAN, shell : BOOLEAN]
  BY <1>1 DEF ModesInv, ModesType
<1>4. Fit(bits)'
  BY <1>1, <1>2 DEF Fit
<1>5. BitsFit' /\ FlagsFit'
  BY <1>1, <1>2, <1>4 DEF BitsFit, FlagsFit, Fit
<1>6. ScreenFits'
  BY <1>1, <1>2 DEF ModesInv, ScreenFits
<1> QED BY <1>5, <1>6 DEF ModesInv

(* The calls of lib_raw.c and halfdelay().                                   *)
LEMMA RawInv ==
    ModesInv /\ (raw \/ noraw \/ cbreak \/ nocbreak \/ halfdelay \/ intrflush) => ModesInv'
<1> SUFFICES ASSUME ModesInv,
                    raw \/ noraw \/ cbreak \/ nocbreak \/ halfdelay \/ intrflush
             PROVE  ModesInv'
  OBVIOUS
<1>0. ModesType'
  BY ModesTypeStep DEF ModesInv, ModesNext
<1>1. /\ Nttyb \in SUBSET AllBits /\ flags.raw \in BOOLEAN /\ flags.cbreak \in {0, 1, 3}
      /\ Fit(Nttyb) /\ buf = NotReading
      /\ flags.raw = asked.raw /\ flags.cbreak = asked.cbreak
  <2>1. Calls
    BY DEF raw, noraw, cbreak, nocbreak, halfdelay, intrflush, Sets
  <2> QED BY <2>1 DEF Calls, ModesInv, ModesType, BitsFit, FlagsFit
<1>2. CASE raw
  <2> DEFINE bits == Nttyb \ {ICANON, ISIG}
  <2>1. Sets(bits, TRUE, 1) /\ bits \in SUBSET AllBits
    BY <1>1, <1>2 DEF raw
  <2>2. (ISIG \in bits <=> ~TRUE) /\ (ICANON \in bits => 1 = 0)
    OBVIOUS
  <2>3. 1 = 0 => ICANON \in bits \/ (lineRead /\ asked.cbreak = 0)
    OBVIOUS
  <2> HIDE DEF bits
  <2> QED BY <1>0, <2>1, <2>2, <2>3, SetsInv
<1>3. CASE noraw
  BY <1>0, <1>1, <1>3, SetsInv DEF noraw, AllBits
<1>4. CASE cbreak
  BY <1>0, <1>1, <1>4, SetsInv DEF cbreak, AllBits, Fit, ICANON, ISIG
<1>5. CASE nocbreak
  BY <1>0, <1>1, <1>5, SetsInv DEF nocbreak, AllBits, Fit, ICANON, ISIG
<1>6. CASE halfdelay
  BY <1>0, <1>1, <1>6, SetsInv DEF halfdelay, AllBits, Fit, ICANON, ISIG
<1>7. CASE intrflush
  <2>1. PICK b \in OtherBits : \E bits \in {Nttyb \ {b}, Nttyb \cup {b}} :
            Sets(bits, flags.raw, flags.cbreak)
    BY <1>7 DEF intrflush
  <2>0. PICK bits \in {Nttyb \ {b}, Nttyb \cup {b}} : Sets(bits, flags.raw, flags.cbreak)
    BY <2>1
  <2>2. bits \in SUBSET AllBits
    BY <1>1 DEF AllBits
  <2>3. (ISIG \in bits <=> ISIG \in Nttyb) /\ (ICANON \in bits <=> ICANON \in Nttyb)
    BY BitsAssumption
  <2> QED BY <1>0, <1>1, <2>0, <2>2, <2>3, SetsInv DEF Fit
<1> QED BY <1>2, <1>3, <1>4, <1>5, <1>6, <1>7

(* Calls that copy the bits from one place to another.                       *)
LEMMA CopyInv == ModesInv /\ (savetty \/ resetty \/ def_prog_mode) => ModesInv'
<1>1. ASSUME ModesInv, savetty PROVE ModesInv'
  BY <1>1 DEF savetty, Modes, ModesInv, ModesType, BitsFit, FlagsFit, ScreenFits, Fit
<1>2. ASSUME ModesInv, resetty PROVE ModesInv'
  <2>1. (ISIG \in saved <=> ISIG \in tty) /\ (ICANON \in saved <=> ICANON \in tty)
    BY <1>2 DEF resetty
  <2>2. Fit(saved)
    BY <1>2, <2>1 DEF resetty, Calls, Running, ModesInv, BitsFit, Fit
  <2> QED BY <1>2, <2>2 DEF resetty, Calls, Running, ModesInv, ModesType, BitsFit, FlagsFit,
                            ScreenFits, Fit
<1>3. ASSUME ModesInv, def_prog_mode PROVE ModesInv'
  BY <1>3 DEF def_prog_mode, Calls, Running, ModesInv, ModesType, BitsFit, FlagsFit,
              ScreenFits, Fit
<1> QED BY <1>1, <1>2, <1>3

(* The terminal's own modes.                                                 *)
LEMMA ScreenModesInv == ModesInv /\ (meta \/ keypad) => ModesInv'
<1>1. ASSUME ModesInv, meta PROVE ModesInv'
  <2>1. PICK f \in BOOLEAN : /\ use_meta' = f /\ term' = [term EXCEPT !.meta = f]
                             /\ asked' = [asked EXCEPT !.meta = f]
    BY <1>1 DEF meta
  <2>2. /\ asked'.raw = asked.raw /\ asked'.cbreak = asked.cbreak /\ asked'.meta = f
        /\ asked'.shell = asked.shell
        /\ asked' \in [raw : BOOLEAN, cbreak : {0, 1, 3}, meta : BOOLEAN, shell : BOOLEAN]
        /\ term' \in [keypad : BOOLEAN, meta : BOOLEAN]
        /\ ~stopped.is /\ ~asked.shell /\ term' = [keypad |-> keypad_on, meta |-> f]
    BY <1>1, <2>1 DEF ModesInv, ModesType, ScreenFits, meta, Calls, Running
  <2>3. UNCHANGED <<tty, Nttyb, Ottyb, saved, flags, endwin, keypad_on, use_keypad, buf, stopped,
                    lineRead>>
    BY <1>1 DEF meta
  <2>4. ModesType'
    BY <1>1, ModesTypeStep DEF ModesInv, ModesNext
  <2>5. BitsFit' /\ FlagsFit'
    BY <1>1, <2>2, <2>3 DEF ModesInv, BitsFit, FlagsFit, Fit
  <2>6. ScreenFits'
    BY <1>1, <2>1, <2>2, <2>3 DEF ModesInv, ScreenFits
  <2> QED BY <2>4, <2>5, <2>6 DEF ModesInv
<1>2. ASSUME ModesInv, keypad PROVE ModesInv'
  <2>1. PICK f \in BOOLEAN : /\ keypad_on' = f /\ term' = [term EXCEPT !.keypad = f]
                             /\ use_keypad' \in {use_keypad, f}
    BY <1>2 DEF keypad
  <2>2. /\ term' \in [keypad : BOOLEAN, meta : BOOLEAN]
        /\ ~stopped.is /\ ~asked.shell /\ term' = [keypad |-> f, meta |-> asked.meta]
    BY <1>2, <2>1 DEF ModesInv, ModesType, ScreenFits, keypad, Running
  <2>3. UNCHANGED <<tty, Nttyb, flags, asked, lineRead, Ottyb, saved, endwin, use_meta, buf,
                    stopped>>
    BY <1>2 DEF keypad, Modes
  <2> QED BY <1>2, <2>1, <2>2, <2>3 DEF ModesInv, ModesType, BitsFit, FlagsFit, ScreenFits, Fit
<1> QED BY <1>1, <1>2

(* The beginning and the end of wgetnstr().                                  *)
LEMMA LineReadInv == ModesInv /\ (wgetnstr \/ wgetnstrEnds) => ModesInv'
<1>1. ASSUME ModesInv, wgetnstr PROVE ModesInv'
  <2>1. /\ buf' = [tty |-> tty, raw |-> flags.raw, cbreak |-> flags.cbreak]
        /\ buf = NotReading /\ ~stopped.is /\ ~asked.shell /\ Fit(tty) /\ Fit(Nttyb)
        /\ flags.raw = asked.raw /\ flags.cbreak = asked.cbreak
        /\ UNCHANGED <<asked, Ottyb, saved, endwin, use_meta, keypad_on, use_keypad, term, stopped>>
    BY <1>1 DEF wgetnstr, Calls, Running, ModesInv, BitsFit, FlagsFit, Modes
  <2>2. Fit(tty)' /\ Fit(Nttyb)' /\ Fit(buf.tty)'
    <3>1. CASE flags.raw
      BY <1>1, <2>1, <3>1 DEF wgetnstr, Modes, Fit
    <3>2. CASE ~flags.raw
      <4>1. /\ Nttyb' = Nttyb \ {ICANON} /\ tty' = Nttyb \ {ICANON} /\ buf'.tty = tty
            /\ lineRead' = (lineRead \/ asked.cbreak = 0) /\ asked' = asked
        BY <1>1, <2>1, <3>2 DEF wgetnstr
      <4>2. (ISIG \in Nttyb \ {ICANON} <=> ISIG \in Nttyb) /\ ICANON \notin Nttyb \ {ICANON}
        BY DEF ICANON, ISIG
      <4> QED BY <2>1, <4>1, <4>2 DEF Fit
    <3> QED BY <3>1, <3>2
  <2>3. ModesType'
    BY <1>1, ModesTypeStep DEF ModesInv, ModesNext
  <2>4. buf' # NotReading
    BY <2>1 DEF Fit, NotReading
  <2> QED BY <1>1, <2>1, <2>2, <2>3, <2>4 DEF ModesInv, BitsFit, FlagsFit, ScreenFits
<1>2. ASSUME ModesInv, wgetnstrEnds PROVE ModesInv'
  BY <1>2 DEF wgetnstrEnds, Running, ModesInv, ModesType, BitsFit, FlagsFit, ScreenFits, Fit,
              NotReading, AllBits
<1> QED BY <1>1, <1>2

(* endwin() and the refresh behind it.                                       *)
LEMMA ShellInv == ASSUME "again" \notin Careless PROVE ModesInv /\ (endwins \/ refresh) => ModesInv'
<1>1. ASSUME ModesInv, endwins PROVE ModesInv'
  <2>1. /\ asked' = [asked EXCEPT !.shell = TRUE] /\ ~asked.shell /\ ~stopped.is
        /\ endwin # "suspended" /\ endwin' = "suspended" /\ tty' = Ottyb
        /\ term' = [keypad |-> FALSE, meta |-> FALSE] /\ keypad_on' = FALSE
        /\ use_meta' = use_meta /\ buf = NotReading
        /\ UNCHANGED <<Nttyb, Ottyb, saved, flags, use_keypad, buf, stopped, lineRead>>
    BY <1>1 DEF endwins, ToShell, Running, ModesInv, ModesType, ScreenFits
  <2>2. /\ asked'.raw = asked.raw /\ asked'.cbreak = asked.cbreak /\ asked'.meta = asked.meta
        /\ asked'.shell
        /\ asked' \in [raw : BOOLEAN, cbreak : {0, 1, 3}, meta : BOOLEAN, shell : BOOLEAN]
    BY <1>1, <2>1 DEF ModesInv, ModesType
  <2>3. ModesType'
    BY <1>1, ModesTypeStep DEF ModesInv, ModesNext
  <2> QED BY <1>1, <2>1, <2>2, <2>3 DEF ModesInv, BitsFit, FlagsFit, ScreenFits, Fit
<1>2. ASSUME ModesInv, refresh PROVE ModesInv'
  <2>1. /\ asked' = [asked EXCEPT !.shell = FALSE] /\ ~stopped.is /\ ToProgram
        /\ buf = NotReading /\ endwin' = "running" /\ tty' = Nttyb
        /\ term' = [keypad |-> keypad_on \/ use_keypad, meta |-> use_meta]
        /\ keypad_on' = (keypad_on \/ use_keypad)
        /\ UNCHANGED <<Nttyb, Ottyb, saved, flags, use_meta, use_keypad, buf, stopped, lineRead>>
    BY <1>2 DEF refresh, ToProgram, Running, ModesInv, ScreenFits
  <2>2. /\ asked'.raw = asked.raw /\ asked'.cbreak = asked.cbreak /\ asked'.meta = asked.meta
        /\ ~asked'.shell
        /\ asked' \in [raw : BOOLEAN, cbreak : {0, 1, 3}, meta : BOOLEAN, shell : BOOLEAN]
    BY <1>2, <2>1 DEF ModesInv, ModesType
  <2>3. ModesType'
    BY <1>2, ModesTypeStep DEF ModesInv, ModesNext
  <2> QED BY <1>2, <2>1, <2>2, <2>3 DEF ModesInv, BitsFit, FlagsFit, ScreenFits, Fit
<1> QED BY <1>1, <1>2

(* The stop, what the shell does meanwhile, and going on.                    *)
LEMMA StopModesInv ==
    ASSUME "escaped" \notin Careless PROVE ModesInv /\ (stop \/ stty \/ continue) => ModesInv'
<1>1. ASSUME ModesInv, stop PROVE ModesInv'
  <2>1. /\ stopped' = [is |-> TRUE, tty |-> tty] /\ ~asked.shell /\ ~stopped.is
        /\ endwin # "suspended" /\ endwin' = "suspended" /\ tty' = Ottyb
        /\ Nttyb' \in {tty, Nttyb}
        /\ term' = [keypad |-> FALSE, meta |-> FALSE] /\ keypad_on' = FALSE
        /\ use_meta' = use_meta
        /\ UNCHANGED <<Ottyb, saved, flags, use_keypad, buf, asked, lineRead>>
    BY <1>1 DEF stop, Saved, ToShell, Running, ModesInv, ModesType, ScreenFits
  <2>2. ModesType'
    BY <1>1, ModesTypeStep DEF ModesInv, ModesNext
  <2>3. BitsFit' /\ FlagsFit'
    BY <1>1, <2>1 DEF ModesInv, BitsFit, FlagsFit, Fit
  <2> QED BY <1>1, <2>1, <2>2, <2>3 DEF ModesInv, ScreenFits
<1>2. ASSUME ModesInv, stty PROVE ModesInv'
  <2>1. tty' \in SUBSET AllBits
    BY <1>2 DEF stty, AllBits
  <2> QED BY <1>2, <2>1 DEF stty, Running, ModesInv, ModesType, BitsFit, FlagsFit, ScreenFits, Fit
<1>3. ASSUME ModesInv, continue PROVE ModesInv'
  <2>1. /\ stopped' = [stopped EXCEPT !.is = FALSE] /\ stopped.is /\ ~asked.shell
        /\ Ottyb' = tty /\ endwin' = "running" /\ tty' = Nttyb
        /\ term' = [keypad |-> keypad_on \/ use_keypad, meta |-> use_meta]
        /\ keypad_on' = (keypad_on \/ use_keypad)
        /\ UNCHANGED <<Nttyb, saved, flags, use_meta, use_keypad, buf, asked, lineRead>>
    BY <1>3 DEF continue, ToProgram, Running, ModesInv, ScreenFits
  <2>2. ModesType' /\ ~stopped'.is
    BY <1>3, <2>1, ModesTypeStep DEF ModesInv, ModesNext, ModesType
  <2>3. BitsFit' /\ FlagsFit'
    BY <1>3, <2>1, <2>2 DEF ModesInv, BitsFit, FlagsFit, Fit
  <2> QED BY <1>3, <2>1, <2>2, <2>3 DEF ModesInv, ScreenFits
<1> QED BY <1>1, <1>2, <1>3

(* The modes are those asked for, if the application does not call endwin()  *)
(* twice and is not stopped in the shell behind it.                          *)
THEOREM ModesAreTrue ==
    ASSUME Careless \subseteq {"first"}
    PROVE  ModesSpec => []ModesTrue
<1>1. ModesInv /\ ModesNext => ModesInv'
  BY RawInv, CopyInv, ScreenModesInv, LineReadInv, ShellInv, StopModesInv DEF ModesNext
<1>2. ModesInv /\ UNCHANGED modeVars => ModesInv'
  BY DEF modeVars, ModesInv, ModesType, BitsFit, FlagsFit, ScreenFits, Fit
<1>3. ModesInv => ModesTrue
  BY DEF ModesInv, ModesType, BitsFit, FlagsFit, ScreenFits, Fit, ModesTrue
<1> QED BY ModesInitInv, <1>1, <1>2, <1>3, PTL DEF ModesSpec

-----------------------------------------------------------------------------
(* While the program is stopped, Nttyb has the modes it was stopped in.      *)
StopInv ==
    /\ ~stopped.is /\ ~asked.shell => endwin # "suspended"
    /\ stopped.is => ~asked.shell /\ Nttyb = stopped.tty

(* A step while nothing is stopped, that stops nothing and leaves endwin.    *)
LEMMA GoesOn ==
    ASSUME StopInv, ~stopped.is, ~stopped'.is, endwin' = endwin, asked'.shell = asked.shell
    PROVE  StopInv' /\ Kept
BY DEF StopInv, Kept

(* A program that was stopped goes on in the modes it had, if the stop is not *)
(* in the shell behind endwin(), nor before the first endwin() with modes     *)
(* that curses has not been told of.                                          *)
THEOREM StopIsKept ==
    ASSUME Careless \subseteq {"again"}
    PROVE  ModesSpec => StopKeeps
<1>1. ModesInit => StopInv
  BY DEF ModesInit, StopInv
<1>2. ModesType /\ StopInv /\ ModesNext => StopInv' /\ Kept
  <2> SUFFICES ASSUME ModesType, StopInv, ModesNext PROVE StopInv' /\ Kept
    OBVIOUS
  <2>1. ASSUME NEW bits, NEW r, NEW c, Sets(bits, r, c) PROVE StopInv' /\ Kept
    <3>1. asked'.shell = asked.shell
      BY <2>1 DEF Sets, ModesType
    <3> QED BY <2>1, <3>1, GoesOn DEF Sets, Calls, Running
  <2>2. CASE raw \/ noraw \/ cbreak \/ nocbreak \/ halfdelay \/ intrflush
    BY <2>1, <2>2 DEF raw, noraw, cbreak, nocbreak, halfdelay, intrflush
  <2>3. CASE savetty \/ resetty \/ def_prog_mode \/ keypad \/ wgetnstr \/ wgetnstrEnds
    BY <2>3, GoesOn
    DEF savetty, resetty, def_prog_mode, keypad, wgetnstr, wgetnstrEnds, Calls, Running, Modes
  <2>4. CASE meta
    <3>1. asked'.shell = asked.shell
      BY <2>4 DEF meta, ModesType
    <3> QED BY <2>4, <3>1, GoesOn DEF meta, Calls, Running
  <2>5. CASE endwins
    <3>1. asked'.shell
      BY <2>5 DEF endwins, ModesType
    <3> QED BY <2>5, <3>1 DEF endwins, Running, StopInv, Kept
  <2>6. CASE refresh
    <3>1. ~stopped.is /\ ~stopped'.is /\ endwin' # "suspended"
      BY <2>6 DEF refresh, ToProgram, Running, ModesType
    <3> QED BY <3>1 DEF StopInv, Kept
  <2>7. CASE stop
    <3>1. /\ ~stopped.is /\ ~asked.shell /\ asked' = asked
          /\ stopped' = [is |-> TRUE, tty |-> tty]
      BY <2>7 DEF stop, Running
    <3>2. Nttyb' = tty
      BY <2>7, <3>1 DEF stop, Saved, StopInv, ModesType
    <3> QED BY <3>1, <3>2 DEF StopInv, Kept
  <2>8. CASE stty
    BY <2>8 DEF stty, Running, StopInv, Kept
  <2>9. CASE continue
    <3>1. /\ stopped.is /\ ~stopped'.is /\ stopped'.tty = stopped.tty /\ asked' = asked
          /\ tty' = Nttyb /\ Ottyb' = tty /\ endwin' = "running"
      BY <2>9 DEF continue, ToProgram, Running, ModesType
    <3> QED BY <3>1 DEF StopInv, Kept
  <2> QED BY <2>2, <2>3, <2>4, <2>5, <2>6, <2>7, <2>8, <2>9 DEF ModesNext
<1>3. ModesInit => ModesType
  BY ModesInitInv DEF ModesInv
<1>4. StopInv /\ UNCHANGED modeVars => StopInv' /\ Kept
  BY DEF modeVars, StopInv, Kept
<1> QED BY ModesTypeStep, <1>1, <1>2, <1>3, <1>4, PTL DEF ModesSpec, StopKeeps
==============================================================================
