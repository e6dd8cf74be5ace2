------------------------------ MODULE MenuProofs ------------------------------
(* Proofs about the menu library.                                            *)
EXTENDS Menu, SequenceLemmas

-----------------------------------------------------------------------------
(* Division: a is in line q, at place m, when there are s in a line.         *)

At(a, s, q, m) == q \in Nat /\ m \in 0..(s - 1) /\ a = s * q + m

LEMMA Division ==
    ASSUME NEW a \in Nat, NEW s \in Nat \ {0}
    PROVE  At(a, s, a \div s, a % s)
BY DEF At

LEMMA Quotient ==
    ASSUME NEW s \in Nat \ {0}, NEW q, NEW m, NEW a, At(a, s, q, m)
    PROVE  a \div s = q /\ a % s = m
BY DEF At

LEMMA DivisionGrows ==
    ASSUME NEW a \in Nat, NEW b \in Nat, a <= b, NEW s \in Nat \ {0}
    PROVE  a \div s <= b \div s
OBVIOUS

(* What is beside the a-th item, and what is in the lines before and after.  *)
LEMMA Beside ==
    ASSUME NEW a, NEW s \in Nat \ {0}, NEW q, NEW m, At(a, s, q, m)
    PROVE  /\ a \in Nat
           /\ m # s - 1 => At(a + 1, s, q, m + 1)
           /\ m # 0 => a # 0 /\ At(a - 1, s, q, m - 1)
           /\ At(a + s, s, q + 1, m)
           /\ q # 0 => At(a - s, s, q - 1, m)
<1>1. q \in Nat /\ m \in 0..(s - 1) /\ a = s * q + m
  BY DEF At
<1>2. a \in Nat
  BY <1>1
<1>3. m # s - 1 => At(a + 1, s, q, m + 1)
  BY <1>1 DEF At
<1>4. m # 0 => a # 0 /\ At(a - 1, s, q, m - 1)
  BY <1>1 DEF At
<1>5. At(a + s, s, q + 1, m)
  BY <1>1 DEF At
<1>6. q # 0 => At(a - s, s, q - 1, m)
  BY <1>1 DEF At
<1> QED BY <1>2, <1>3, <1>4, <1>5, <1>6

LEMMA InLine ==
    ASSUME NEW a, NEW s \in Nat \ {0}, NEW q, NEW m, At(a, s, q, m)
    PROVE  /\ q # 0 <=> a >= s
           /\ q * s \in 0..a /\ m <= a /\ q <= a
<1>1. q \in Nat /\ m \in 0..(s - 1) /\ a = s * q + m
  BY DEF At
<1>2. q # 0 => a >= s
  BY <1>1
<1>3. q = 0 => ~(a >= s)
  BY <1>1
<1>4. q * s \in 0..a /\ m <= a
  BY <1>1
<1>5. q <= a
  BY <1>1
<1> QED BY <1>2, <1>3, <1>4, <1>5

(* Once around n places.                                                     *)
LEMMA Around ==
    ASSUME NEW a \in Nat, NEW n \in Nat \ {0}, a < 2 * n
    PROVE  (a + n * n) % n = IF a < n THEN a ELSE a - n
<1> DEFINE m == IF a < n THEN a ELSE a - n
           q == IF a < n THEN n ELSE n + 1
<1>1. At(a + n * n, n, q, m)
  BY Z3 DEF At
<1> HIDE DEF q, m
<1>2. (a + n * n) % n = m
  BY <1>1, Quotient
<1> QED BY <1>2 DEF m

-----------------------------------------------------------------------------
(* The grid.                                                                 *)

Cyclic == "noncyclic" \notin opt
ByRows == "rowmajor" \in opt
YOf(i) == IF ByRows THEN i \div cols ELSE i % rows
XOf(i) == IF ByRows THEN i % cols ELSE i \div rows
Somewhere(n) == (0..(n - 1)) \cup {NULL, Wild}

(* What set_menu_format() makes of the items.                                *)
Sized ==
    /\ nitems \in Nat \ {0} /\ rows \in 1..nitems /\ cols \in 1..nitems
    /\ IF ByRows THEN rows = (nitems - 1) \div cols + 1 ELSE cols = (nitems - 1) \div rows + 1

(* In rows: every link leads to an item or nowhere, and the first items of   *)
(* the rows are linked with each other.                                      *)
LEMMA RowLinks ==
    ASSUME NEW n \in Nat \ {0}, NEW c \in 1..n, NEW r, r = (n - 1) \div c + 1,
           NEW cycle \in BOOLEAN, NEW i \in 0..(n - 1), NEW q, NEW m, At(i, c, q, m),
           NEW g, g = RowMajor(n, r, c, cycle)
    PROVE  /\ q \in 0..(r - 1) /\ m \in 0..(c - 1) /\ g.y[i] = q /\ g.x[i] = m
           /\ \A link \in {g.left, g.right, g.up, g.down} : link[i] \in Somewhere(n)
           /\ m = 0 => g.down[i] = IF q < r - 1 THEN i + c ELSE IF cycle THEN 0 ELSE NULL
           /\ g.right[i] = IF m < c - 1 /\ i + 1 < n THEN i + 1 ELSE IF cycle THEN q * c ELSE NULL
<1>1. c \in Nat \ {0} /\ i \div c = q /\ i % c = m /\ r \in Nat \ {0} /\ q \in Nat /\ m \in 0..(c - 1)
  <2>1. c \in Nat \ {0} /\ n - 1 \in Nat
    OBVIOUS
  <2>2. (n - 1) \div c \in Nat
    BY <2>1, Division DEF At
  <2> QED BY <2>1, <2>2, Quotient DEF At
<1>2. q <= r - 1
  <2>1. i \div c <= (n - 1) \div c
    BY <1>1, DivisionGrows
  <2> QED BY <1>1, <2>1
<1>3. /\ q # 0 <=> i >= c
      /\ q * c \in 0..i /\ m <= i
  BY <1>1, InLine
<1>4. g.y[i] = q /\ g.x[i] = m
  BY <1>1 DEF RowMajor
<1>5. g.right[i] = IF m < c - 1 /\ i + 1 < n THEN i + 1 ELSE IF cycle THEN q * c ELSE NULL
  BY <1>1 DEF RowMajor
<1>6. g.left[i] = IF m # 0 THEN i - 1
                  ELSE IF cycle THEN Lesser(q * c + c - 1, n - 1) ELSE NULL
  BY <1>1 DEF RowMajor
<1>7. g.up[i] = IF q # 0 THEN i - c
                ELSE IF cycle THEN Lesser((r - 1) * c + m, n - 1) ELSE NULL
  BY <1>1 DEF RowMajor
<1>8. g.down[i] = IF i + c < n THEN i + c
                  ELSE IF cycle THEN IF q + 1 < r THEN n - 1 ELSE m ELSE NULL
  BY <1>1 DEF RowMajor
<1>9. \A link \in {g.left, g.right, g.up, g.down} : link[i] \in Somewhere(n)
  <2>1. g.left[i] \in Somewhere(n)
    <3>1. q * c + c - 1 \in Nat
      BY <1>1, <1>3
    <3> QED BY <1>1, <1>3, <1>6, <3>1 DEF Somewhere, Lesser
  <2>2. g.right[i] \in Somewhere(n)
    BY <1>1, <1>3, <1>5 DEF Somewhere
  <2>3. g.up[i] \in Somewhere(n)
    <3>1. (r - 1) * c + m \in Nat
      BY <1>1
    <3> QED BY <1>1, <1>3, <1>7, <3>1 DEF Somewhere, Lesser
  <2>4. g.down[i] \in Somewhere(n)
    BY <1>1, <1>3, <1>8 DEF Somewhere
  <2> QED BY <2>1, <2>2, <2>3, <2>4
<1>10. m = 0 => (i + c < n <=> q < r - 1)
  <2>1. SUFFICES ASSUME m = 0 PROVE i + c < n <=> q < r - 1
    OBVIOUS
  <2>2. (i + c) \div c = q + 1
    BY <1>1, Beside, Quotient
  <2>3. i + c < n => q < r - 1
    <3>1. SUFFICES ASSUME i + c < n PROVE q < r - 1
      OBVIOUS
    <3>2. (i + c) \div c <= (n - 1) \div c
      <4>1. i + c \in Nat /\ n - 1 \in Nat /\ i + c <= n - 1
        BY <1>1, <3>1
      <4> QED BY ONLY <1>1, <4>1, DivisionGrows
    <3> QED BY <1>1, <2>2, <3>2
  <2>4. q < r - 1 => i + c < n
    <3>1. SUFFICES ASSUME q < r - 1 PROVE i + c < n
      OBVIOUS
    <3>2. PICK e \in Nat : n - 1 = c * (r - 1) + e
      <4>1. At(n - 1, c, (n - 1) \div c, (n - 1) % c)
        <5>1. n - 1 \in Nat
          OBVIOUS
        <5> QED BY <1>1, <5>1, Division
      <4> QED BY <1>1, <4>1 DEF At
    <3>3. i = c * q
      BY <1>1, <2>1 DEF At
    <3>4. c * (q + 1) <= c * (r - 1)
      BY <1>1, <3>1
    <3>5. c * (q + 1) = c * q + c
      BY <1>1
    <3>6. c * (r - 1) \in Nat /\ c * q \in Nat
      BY <1>1
    <3> HIDE DEF At
    <3> QED BY <1>1, <3>2, <3>3, <3>4, <3>5, <3>6
  <2> QED BY <2>3, <2>4
<1>11. m = 0 => g.down[i] = IF q < r - 1 THEN i + c ELSE IF cycle THEN 0 ELSE NULL
  <2>1. q + 1 < r <=> q < r - 1
    BY <1>1
  <2> QED BY <1>8, <1>10, <2>1
<1> QED BY <1>1, <1>2, <1>4, <1>5, <1>9, <1>11

(* And in columns.                                                           *)
LEMMA ColumnLinks ==
    ASSUME NEW n \in Nat \ {0}, NEW r \in 1..n, NEW c, c = (n - 1) \div r + 1,
           NEW cycle \in BOOLEAN, NEW i \in 0..(n - 1), NEW q, NEW m, At(i, r, q, m),
           NEW g, g = ColumnMajor(n, r, c, cycle)
    PROVE  /\ m \in 0..(r - 1) /\ q \in 0..(c - 1) /\ g.y[i] = m /\ g.x[i] = q
           /\ \A link \in {g.left, g.right, g.up, g.down} : link[i] \in Somewhere(n)
           /\ q = 0 => g.down[i] = IF m < r - 1 THEN i + 1 ELSE IF cycle THEN 0 ELSE NULL
           /\ g.right[i] = IF i + r < n THEN i + r ELSE IF cycle THEN m ELSE NULL
<1>1. r \in Nat \ {0} /\ i \div r = q /\ i % r = m /\ c \in Nat \ {0} /\ q \in Nat /\ m \in 0..(r - 1)
  <2>1. r \in Nat \ {0} /\ n - 1 \in Nat
    OBVIOUS
  <2>2. (n - 1) \div r \in Nat
    BY <2>1, Division DEF At
  <2> QED BY <2>1, <2>2, Quotient DEF At
<1>2. q <= c - 1
  <2>1. i \div r <= (n - 1) \div r
    BY <1>1, DivisionGrows
  <2> QED BY <1>1, <2>1
<1>3. /\ q # 0 <=> i >= r
      /\ q * r \in 0..i /\ m <= i
  BY <1>1, InLine
<1>4. g.y[i] = m /\ g.x[i] = q
  BY <1>1 DEF ColumnMajor
<1>5. g.right[i] = IF i + r < n THEN i + r ELSE IF cycle THEN m ELSE NULL
  BY <1>1 DEF ColumnMajor
<1>6. g.left[i] = IF q # 0 THEN i - r
                  ELSE IF ~cycle THEN NULL
                  ELSE ItemAt(n, IF (c - 1) * r + m >= n THEN ((c - 1) * r + m) - r
                                 ELSE (c - 1) * r + m)
  BY <1>1 DEF ColumnMajor
<1>7. g.up[i] = IF m # 0 THEN i - 1
                ELSE IF cycle THEN Lesser(q * r + r - 1, n - 1) ELSE NULL
  BY <1>1 DEF ColumnMajor
<1>8. g.down[i] = IF m < r - 1 THEN IF i + 1 < n THEN i + 1 ELSE (q - 1) * r + m + 1
                  ELSE IF cycle THEN q * r ELSE NULL
  BY <1>1 DEF ColumnMajor
<1>9. i + 1 >= n /\ m < r - 1 => q # 0
  <2>1. q = 0 => i = m
    BY <1>1 DEF At
  <2> QED BY <1>1, <2>1
<1>10. \A link \in {g.left, g.right, g.up, g.down} : link[i] \in Somewhere(n)
  <2>1. g.left[i] \in Somewhere(n)
    <3> DEFINE z == (c - 1) * r + m
               k == IF z >= n THEN z - r ELSE z
    <3>1. z \in Nat
      BY <1>1
    <3>2. k \in Nat
      <4> HIDE DEF z
      <4> QED BY <1>1, <3>1
    <3> HIDE DEF k, z
    <3>3. ItemAt(n, k) \in Somewhere(n)
      BY <3>2 DEF ItemAt, Somewhere
    <3>4. g.left[i] = IF q # 0 THEN i - r ELSE IF ~cycle THEN NULL ELSE ItemAt(n, k)
      BY <1>6 DEF k, z
    <3>5. NULL \in Somewhere(n)
      BY DEF Somewhere
    <3>6. i >= r => i - r \in Somewhere(n)
      BY <1>1 DEF Somewhere
    <3> QED BY <1>3, <3>3, <3>4, <3>5, <3>6
  <2>2. g.right[i] \in Somewhere(n)
    BY <1>1, <1>3, <1>5 DEF Somewhere
  <2>3. g.up[i] \in Somewhere(n)
    <3>1. q * r + r - 1 \in Nat
      BY <1>1, <1>3
    <3> QED BY <1>1, <1>3, <1>7, <3>1 DEF Somewhere, Lesser
  <2>4. g.down[i] \in Somewhere(n)
    <3>1. q # 0 => (q - 1) * r \in Nat /\ (q - 1) * r + m = i - r
      <4>1. (q - 1) * r = q * r - r
        BY <1>1
      <4>2. i = q * r + m
        BY <1>1 DEF At
      <4>3. q # 0 => (q - 1) * r \in Nat
        BY <1>1
      <4>4. q * r \in Nat
        BY <1>1
      <4> QED BY <1>1, <4>1, <4>2, <4>3, <4>4
    <3>2. q # 0 => (q - 1) * r + m + 1 \in 0..(n - 1)
      BY <1>1, <3>1
    <3> QED BY <1>1, <1>3, <1>8, <1>9, <3>2 DEF Somewhere
  <2> QED BY <2>1, <2>2, <2>3, <2>4
<1>11. q = 0 => g.down[i] = IF m < r - 1 THEN i + 1 ELSE IF cycle THEN 0 ELSE NULL
  BY <1>1, <1>8, <1>9
<1> QED BY <1>1, <1>2, <1>4, <1>5, <1>10, <1>11

(* Its first column.                                                         *)
LEMMA FirstColumn ==
    ASSUME NEW n \in Nat \ {0}, NEW r \in 1..n, NEW c, c = (n - 1) \div r + 1,
           NEW cycle \in BOOLEAN, NEW i \in 0..(n - 1), At(i, r, 0, i),
           NEW g, g = ColumnMajor(n, r, c, cycle)
    PROVE  g.down[i] = IF i < r - 1 THEN i + 1 ELSE IF cycle THEN 0 ELSE NULL
BY ColumnLinks

-----------------------------------------------------------------------------
(* The walk that paints.                                                     *)

(* A walk that is as the links say, and ends where they lead back to its     *)
(* first item, or nowhere, is what _nc_Draw_Menu() follows.                  *)
LEMMA FollowIs ==
    ASSUME nitems \in Nat, NEW link, NEW S, NEW w \in Seq(S), Len(w) \in 1..nitems,
           NULL \notin S,
           \A j \in 1..(Len(w) - 1) : link[w[j]] = w[j + 1] /\ w[j + 1] # w[1],
           link[w[Len(w)]] = IF Cyclic THEN w[1] ELSE NULL
    PROVE  Follow(link, w[1]) = w
<1> DEFINE N == nitems
           first == w[1]
           L == Len(w)
           stop == IF "noncyclic" \in opt THEN NULL ELSE first
           Longer(e, n) == LET next == link[Last(e)]
                           IN IF Len(e) # n \/ next \in {stop, NULL} THEN e ELSE Append(e, next)
           Ok(g) == g = [n \in 0..N |-> IF n = 0 THEN <<first>> ELSE Longer(g[n - 1], n)]
           End(n) == IF n + 1 <= L THEN n + 1 ELSE L
           f == [n \in 0..N |-> SubSeq(w, 1, End(n))]
           steps == CHOOSE g : Ok(g)
<1>1. L \in 1..N /\ N \in Nat /\ w \in Seq(S)
  OBVIOUS
<1>2. ASSUME NEW e \in 1..L
      PROVE  /\ Len(SubSeq(w, 1, e)) = e /\ Last(SubSeq(w, 1, e)) = w[e]
             /\ e # L => SubSeq(w, 1, e + 1) = Append(SubSeq(w, 1, e), w[e + 1])
  <2>1. 1 \in 1..Len(w) /\ e \in 1..Len(w)
    BY <1>1
  <2>2. Len(SubSeq(w, 1, e)) = e - 1 + 1
    BY ONLY <1>1, <2>1, Slice
  <2>3. /\ Last(SubSeq(w, 1, e)) = w[e]
        /\ e # Len(w) => SubSeq(w, 1, e + 1) = Append(SubSeq(w, 1, e), w[e + 1])
    BY ONLY <1>1, <2>1, Slice
  <2>4. e - 1 + 1 = e
    BY <2>1
  <2> QED BY <2>2, <2>3, <2>4
<1>3. ASSUME NEW n \in 1..N PROVE SubSeq(w, 1, End(n)) = Longer(SubSeq(w, 1, End(n - 1)), n)
  <2> DEFINE e == End(n - 1)
  <2>1. e \in 1..L /\ End(n) = (IF e = L THEN L ELSE e + 1) /\ (e # L => e = n)
    BY <1>1
  <2> HIDE DEF e, End
  <2>2. e # L => w[e + 1] # first /\ w[e + 1] # NULL /\ link[w[e]] = w[e + 1]
    <3>1. e # L => e \in 1..(L - 1) /\ e + 1 \in 1..L
      BY <1>1, <2>1
    <3>2. e # L => w[e + 1] \in S
      BY <1>1, <3>1
    <3> QED BY <3>1, <3>2
  <2>3. link[w[L]] = stop
    BY DEF Cyclic
  <2>4. Len(SubSeq(w, 1, e)) = e /\ Last(SubSeq(w, 1, e)) = w[e]
    BY <1>2, <2>1
  <2>5. CASE e = L
    <3>1. Longer(SubSeq(w, 1, e), n) = SubSeq(w, 1, e)
      <4> HIDE DEF stop
      <4> QED BY <2>3, <2>4, <2>5
    <3> HIDE DEF Longer
    <3> QED BY <2>1, <2>5, <3>1 DEF e
  <2>6. CASE e # L
    <3>1. Longer(SubSeq(w, 1, e), n) = Append(SubSeq(w, 1, e), w[e + 1])
      BY <2>1, <2>2, <2>4, <2>6
    <3>2. SubSeq(w, 1, e + 1) = Append(SubSeq(w, 1, e), w[e + 1])
      BY <1>2, <2>1, <2>6
    <3>3. End(n) = e + 1
      BY <2>1, <2>6
    <3>4. SubSeq(w, 1, End(n)) = Longer(SubSeq(w, 1, e), n)
      <4> HIDE DEF Longer
      <4> QED BY <3>1, <3>2, <3>3
    <3> QED BY <3>4 DEF e
  <2> QED BY <2>5, <2>6
<1> HIDE DEF Longer
<1>4. f[0] = <<first>> /\ \A n \in 1..N : f[n] = Longer(f[n - 1], n)
  <2>1. f[0] = SubSeq(w, 1, 1)
    <3>1. 0 \in 0..N /\ End(0) = 1
      BY <1>1
    <3> HIDE DEF End
    <3> QED BY <3>1
  <2>2. SubSeq(w, 1, 1) = <<first>>
    <3>1. SubSeq(w, 1, 1) \in Seq(S) /\ Len(SubSeq(w, 1, 1)) = 1 /\ SubSeq(w, 1, 1)[1] = w[1]
      BY <1>1
    <3>2. <<first>> \in Seq(S) /\ Len(<<first>>) = 1 /\ <<first>>[1] = w[1]
      BY <1>1
    <3>3. \A i \in 1..1 : i = 1
      OBVIOUS
    <3> HIDE DEF first
    <3> QED BY <3>1, <3>2, <3>3, SeqEqual
  <2>3. \A n \in 1..N : n \in 0..N /\ n - 1 \in 0..N
    BY <1>1
  <2> HIDE DEF End
  <2> QED BY <1>3, <2>1, <2>2, <2>3
<1>5. \E g : Ok(g)
  <2>1. ASSUME NEW n \in 0..N PROVE f[n] = IF n = 0 THEN <<first>> ELSE Longer(f[n - 1], n)
    <3>1. n # 0 => n \in 1..N
      BY <1>1
    <3> HIDE DEF f
    <3> QED BY <1>4, <3>1
  <2>2. f = [n \in 0..N |-> f[n]]
    OBVIOUS
  <2> HIDE DEF f
  <2>3. Ok(f)
    BY <2>1, <2>2
  <2> QED BY <2>3
<1>6. Ok(steps)
  <2> HIDE DEF Ok
  <2> QED BY <1>5
<1> HIDE DEF steps, f
<1>7. steps[0] = <<first>> /\ \A n \in 1..N : steps[n] = Longer(steps[n - 1], n)
  <2>1. 0 \in 0..N /\ \A n \in 1..N : n \in 0..N /\ n # 0
    BY <1>1
  <2> QED BY <1>6, <2>1
<1>8. steps[N] = f[N]
  <2>1. \A n \in 1..N : steps[n - 1] = f[n - 1] => steps[n] = f[n]
    BY <1>4, <1>7
  <2>2. \A n \in 0..N : steps[n] = f[n]
    <3>1. N \in Nat /\ steps[0] = f[0]
      BY <1>1, <1>4, <1>7
    <3> QED BY ONLY <2>1, <3>1, SameStepwise
  <2> QED BY <1>1, <2>2
<1>9. f[N] = w
  <2>1. End(N) = L /\ N \in 0..N
    BY <1>1
  <2>2. f[N] = SubSeq(w, 1, L)
    <3> HIDE DEF End
    <3> QED BY <2>1 DEF f
  <2>3. SubSeq(w, 1, Len(w)) = w
    BY <1>1
  <2> QED BY <2>2, <2>3
<1>10. Follow(link, first) = steps[N]
  BY DEF Follow, steps, N, Longer, stop
<1> QED BY <1>8, <1>9, <1>10

(* Where the walk of the first column, and that of each line, puts item i.   *)
Column(g) == Follow(g.down, 0)
Line(g, k) == Follow(g.right, Column(g)[k])
Found(g, i) ==
    {p \in (1..Len(Column(g))) \X (1..nitems) :
        p[2] <= Len(Line(g, p[1])) /\ Line(g, p[1])[p[2]] = i}

(* A menu in rows: the walk takes each row from its first item.              *)
LEMMA RowWalk ==
    ASSUME Sized, ByRows, NEW g, g = RowMajor(nitems, rows, cols, Cyclic)
    PROVE  /\ Len(Column(g)) = rows
           /\ \A k \in 1..rows :
                 /\ Len(Line(g, k)) = Lesser(cols, nitems - (k - 1) * cols)
                 /\ \A j \in 1..Len(Line(g, k)) : Line(g, k)[j] = cols * (k - 1) + (j - 1)
<1> DEFINE n == nitems
           c == cols
           r == rows
           w == [k \in 1..r |-> c * (k - 1)]
<1>1. n \in Nat \ {0} /\ r \in 1..n /\ c \in 1..n /\ r = (n - 1) \div c + 1 /\ Cyclic \in BOOLEAN
  BY DEF Sized, Cyclic
<1> HIDE DEF n, c, r
<1>2. g = RowMajor(n, r, c, Cyclic)
  BY DEF n, c, r
<1>3. PICK e \in 0..(c - 1) : n - 1 = c * (r - 1) + e
  <2>1. n - 1 \in Nat /\ c \in Nat \ {0}
    BY <1>1
  <2>2. At(n - 1, c, (n - 1) \div c, (n - 1) % c)
    BY <2>1, Division
  <2>3. (n - 1) \div c = r - 1
    BY <1>1, <2>2 DEF At
  <2> QED BY <2>2, <2>3 DEF At
<1>4. ASSUME NEW k \in 1..r
      PROVE  /\ c * (k - 1) \in 0..(n - 1) /\ At(c * (k - 1), c, k - 1, 0)
             /\ k < r => c * (k - 1) + c = c * k /\ c * k # 0
  <2>1. k - 1 \in Nat /\ c \in Nat \ {0} /\ k - 1 <= r - 1
    BY <1>1
  <2>2. c * (k - 1) \in Nat /\ c * (k - 1) <= c * (r - 1)
    BY <1>1, <2>1
  <2>3. c * (r - 1) <= n - 1
    <3>1. c * (r - 1) \in Nat
      BY <1>1
    <3> QED BY <1>1, <1>3, <3>1
  <2>4. c * (k - 1) \in 0..(n - 1)
    BY <1>1, <2>2, <2>3
  <2>5. c * (k - 1) + c = c * k /\ c * k # 0
    BY <1>1, <2>1
  <2> QED BY <2>1, <2>4, <2>5 DEF At
<1>5. w \in Seq(Nat) /\ Len(w) = r /\ \A k \in 1..r : w[k] = c * (k - 1)
  <2>1. w \in [1..r -> Nat] /\ r \in Nat
    BY <1>1, <1>4
  <2> QED BY <2>1
<1>6. w[1] = 0
  <2>1. c * (1 - 1) = 0 /\ 1 \in 1..r
    BY <1>1
  <2> QED BY <1>5, <2>1
<1>7. ASSUME NEW k \in 1..r
      PROVE  g.down[w[k]] = IF k < r THEN w[k + 1] ELSE IF Cyclic THEN 0 ELSE NULL
  <2>1. g.down[w[k]] = IF k - 1 < r - 1 THEN c * (k - 1) + c ELSE IF Cyclic THEN 0 ELSE NULL
    <3> DEFINE i == c * (k - 1)
               q == k - 1
    <3>1. i \in 0..(n - 1) /\ At(i, c, q, 0)
      BY <1>4
    <3> HIDE DEF i, q
    <3>2. g.down[i] = IF q < r - 1 THEN i + c ELSE IF Cyclic THEN 0 ELSE NULL
      BY ONLY <1>1, <1>2, <3>1, RowLinks
    <3>3. w[k] = i
      BY <1>5 DEF i
    <3> QED BY <3>2, <3>3 DEF i, q
  <2>2. k < r => w[k + 1] = c * (k - 1) + c
    <3>1. k < r => k + 1 \in 1..r /\ k + 1 - 1 = k
      BY <1>1
    <3> QED BY <1>4, <1>5, <3>1
  <2>3. k - 1 < r - 1 <=> k < r
    BY <1>1
  <2> QED BY <2>1, <2>2, <2>3
<1>8. Column(g) = w
  <2>1. \A k \in 1..(Len(w) - 1) : g.down[w[k]] = w[k + 1] /\ w[k + 1] # w[1]
    <3>1. SUFFICES ASSUME NEW k \in 1..(r - 1) PROVE g.down[w[k]] = w[k + 1] /\ w[k + 1] # 0
      BY <1>5, <1>6
    <3>2. k \in 1..r /\ k < r /\ k + 1 \in 1..r /\ k + 1 - 1 = k
      BY <1>1
    <3> QED BY <1>4, <1>5, <1>7, <3>2
  <2>2. g.down[w[Len(w)]] = IF Cyclic THEN w[1] ELSE NULL
    <3>1. r \in 1..r /\ ~(r < r)
      BY <1>1
    <3> QED BY <1>5, <1>6, <1>7, <3>1
  <2>3. nitems \in Nat /\ Len(w) \in 1..nitems /\ NULL \notin Nat
    BY <1>1, <1>5 DEF n, NULL
  <2> HIDE DEF w
  <2>4. Follow(g.down, w[1]) = w
    BY <1>5, <2>1, <2>2, <2>3, FollowIs
  <2> QED BY <1>6, <2>4 DEF Column
<1>9. ASSUME NEW k \in 1..r
      PROVE  /\ Len(Line(g, k)) = Lesser(c, n - (k - 1) * c)
             /\ \A j \in 1..Len(Line(g, k)) : Line(g, k)[j] = c * (k - 1) + (j - 1)
  <2> DEFINE a == c * (k - 1)
             m == Lesser(c, n - a)
             v == [j \in 1..m |-> a + (j - 1)]
  <2>1. a \in 0..(n - 1) /\ At(a, c, k - 1, 0)
    BY <1>4
  <2> HIDE DEF a
  <2>2. m \in 1..n /\ m <= c /\ a + m <= n /\ (m < c => a + m = n)
    BY <1>1, <2>1 DEF Lesser
  <2> HIDE DEF m
  <2>3. v \in Seq(Nat) /\ Len(v) = m /\ \A j \in 1..m : v[j] = a + (j - 1)
    <3>1. v \in [1..m -> Nat] /\ m \in Nat
      BY <2>1, <2>2
    <3> QED BY <3>1
  <2>4. v[1] = a
    <3>1. 1 \in 1..m /\ a + (1 - 1) = a
      BY <2>1, <2>2
    <3> QED BY <2>3, <3>1
  <2>5. ASSUME NEW j \in 1..m
        PROVE  g.right[v[j]] = IF j < m THEN a + j ELSE IF Cyclic THEN a ELSE NULL
    <3>1. v[j] = a + (j - 1) /\ a + (j - 1) \in 0..(n - 1) /\ a + (j - 1) + 1 = a + j
      BY <1>1, <2>1, <2>2, <2>3
    <3>2. At(a + (j - 1), c, k - 1, j - 1)
      <4>1. j - 1 \in 0..(c - 1) /\ k - 1 \in Nat
        BY <1>1, <2>2
      <4>2. a = c * (k - 1)
        BY DEF a
      <4> QED BY <4>1, <4>2 DEF At
    <3>3. g.right[a + (j - 1)] =
             IF j - 1 < c - 1 /\ a + (j - 1) + 1 < n THEN a + (j - 1) + 1
             ELSE IF Cyclic THEN (k - 1) * c ELSE NULL
      <4> DEFINE i == a + (j - 1)
                 q == k - 1
                 p == j - 1
      <4>1. i \in 0..(n - 1) /\ At(i, c, q, p)
        BY <3>1, <3>2
      <4> HIDE DEF i, q, p
      <4>2. g.right[i] = IF p < c - 1 /\ i + 1 < n THEN i + 1 ELSE IF Cyclic THEN q * c ELSE NULL
        BY ONLY <1>1, <1>2, <4>1, RowLinks
      <4> QED BY <4>2 DEF i, q, p
    <3>4. (j - 1 < c - 1 /\ a + (j - 1) + 1 < n) <=> j < m
      BY <1>1, <2>1, <2>2
    <3>5. (k - 1) * c = a
      BY <1>1 DEF a
    <3> QED BY <3>1, <3>3, <3>4, <3>5
  <2>6. Follow(g.right, a) = v
    <3>1. \A j \in 1..(Len(v) - 1) : g.right[v[j]] = v[j + 1] /\ v[j + 1] # v[1]
      <4>1. SUFFICES ASSUME NEW j \in 1..(m - 1) PROVE g.right[v[j]] = v[j + 1] /\ v[j + 1] # a
        BY <2>3, <2>4
      <4>2. j \in 1..m /\ j < m /\ j + 1 \in 1..m /\ a + (j + 1 - 1) = a + j /\ a + j # a
        BY <2>1, <2>2
      <4> QED BY <2>3, <2>5, <4>2
    <3>2. g.right[v[Len(v)]] = IF Cyclic THEN v[1] ELSE NULL
      <4>1. m \in 1..m /\ ~(m < m)
        BY <2>2
      <4> QED BY <2>3, <2>4, <2>5, <4>1
    <3>3. nitems \in Nat /\ Len(v) \in 1..nitems /\ NULL \notin Nat
      BY <1>1, <2>2, <2>3 DEF n, NULL
    <3> HIDE DEF v
    <3>4. Follow(g.right, v[1]) = v
      BY <2>3, <3>1, <3>2, <3>3, FollowIs
    <3> QED BY <2>4, <3>4
  <2>7. Line(g, k) = v
    <3>1. Column(g)[k] = a
      BY <1>5, <1>8 DEF a
    <3> QED BY <2>6, <3>1 DEF Line
  <2>8. Lesser(c, n - (k - 1) * c) = m
    <3>1. (k - 1) * c = a
      BY <1>1 DEF a
    <3> QED BY <3>1 DEF m
  <2> HIDE DEF v
  <2> QED BY <2>3, <2>7, <2>8 DEF a
<1> HIDE DEF w
<1> QED BY <1>5, <1>8, <1>9 DEF n, r, c

(* A menu in columns: every line takes an item of each column that has one.  *)
LEMMA ColumnWalk ==
    ASSUME Sized, ~ByRows, NEW g, g = ColumnMajor(nitems, rows, cols, Cyclic)
    PROVE  /\ Len(Column(g)) = rows
           /\ \A k \in 1..rows :
                 /\ Len(Line(g, k)) = (nitems - k) \div rows + 1
                 /\ Len(Line(g, k)) \in 1..nitems
                 /\ \A j \in 1..Len(Line(g, k)) : Line(g, k)[j] = rows * (j - 1) + (k - 1)
<1> DEFINE n == nitems
           c == cols
           r == rows
           w == [k \in 1..r |-> k - 1]
<1>1. n \in Nat \ {0} /\ r \in 1..n /\ c \in 1..n /\ c = (n - 1) \div r + 1 /\ Cyclic \in BOOLEAN
  BY DEF Sized, Cyclic
<1> HIDE DEF n, c, r
<1>2. g = ColumnMajor(n, r, c, Cyclic)
  BY DEF n, c, r
<1>3. ASSUME NEW k \in 1..r
      PROVE  k - 1 \in 0..(n - 1) /\ At(k - 1, r, 0, k - 1)
  BY <1>1 DEF At
<1>4. w \in Seq(Nat) /\ Len(w) = r /\ \A k \in 1..r : w[k] = k - 1
  <2>1. w \in [1..r -> Nat] /\ r \in Nat
    BY <1>1
  <2> QED BY <2>1
<1>5. w[1] = 0
  <2>1. 1 \in 1..r
    BY <1>1
  <2> QED BY <1>4, <2>1
<1>6. ASSUME NEW k \in 1..r
      PROVE  g.down[w[k]] = IF k < r THEN w[k + 1] ELSE IF Cyclic THEN 0 ELSE NULL
  <2>1. g.down[w[k]] = IF k - 1 < r - 1 THEN (k - 1) + 1 ELSE IF Cyclic THEN 0 ELSE NULL
    <3> DEFINE i == k - 1
    <3>1. i \in 0..(n - 1) /\ At(i, r, 0, i)
      BY <1>3
    <3>2. w[k] = i
      BY <1>4
    <3> HIDE DEF i, w
    <3>3. g.down[i] = IF i < r - 1 THEN i + 1 ELSE IF Cyclic THEN 0 ELSE NULL
      BY ONLY <1>1, <1>2, <3>1, FirstColumn
    <3> QED BY <3>2, <3>3 DEF i
  <2>2. k < r => w[k + 1] = (k - 1) + 1
    <3>1. k < r => k + 1 \in 1..r /\ k + 1 - 1 = (k - 1) + 1
      BY <1>1
    <3> QED BY <1>4, <3>1
  <2>3. k - 1 < r - 1 <=> k < r
    BY <1>1
  <2> QED BY <2>1, <2>2, <2>3
<1>7. Column(g) = w
  <2>1. \A k \in 1..(Len(w) - 1) : g.down[w[k]] = w[k + 1] /\ w[k + 1] # w[1]
    <3>1. SUFFICES ASSUME NEW k \in 1..(r - 1) PROVE g.down[w[k]] = w[k + 1] /\ w[k + 1] # 0
      BY <1>4, <1>5
    <3>2. k \in 1..r /\ k < r /\ k + 1 \in 1..r /\ k + 1 - 1 = k /\ k # 0
      BY <1>1
    <3> QED BY <1>4, <1>6, <3>2
  <2>2. g.down[w[Len(w)]] = IF Cyclic THEN w[1] ELSE NULL
    <3>1. r \in 1..r /\ ~(r < r)
      BY <1>1
    <3> QED BY <1>4, <1>5, <1>6, <3>1
  <2>3. nitems \in Nat /\ Len(w) \in 1..nitems /\ NULL \notin Nat
    BY <1>1, <1>4 DEF n, NULL
  <2> HIDE DEF w
  <2>4. Follow(g.down, w[1]) = w
    BY <1>4, <2>1, <2>2, <2>3, FollowIs
  <2> QED BY <1>5, <2>4 DEF Column
<1>8. ASSUME NEW k \in 1..r
      PROVE  /\ Len(Line(g, k)) = (n - k) \div r + 1
             /\ Len(Line(g, k)) \in 1..n
             /\ \A j \in 1..Len(Line(g, k)) : Line(g, k)[j] = r * (j - 1) + (k - 1)
  <2> DEFINE a == k - 1
             m == (n - k) \div r + 1
             v == [j \in 1..m |-> r * (j - 1) + a]
  <2>1. a \in 0..(r - 1) /\ a \in 0..(n - 1)
    BY <1>1
  <2>2. PICK e \in 0..(r - 1) : n - 1 - a = r * (m - 1) + e
    <3>1. n - k \in Nat /\ r \in Nat \ {0} /\ n - 1 - a = n - k
      BY <1>1
    <3>2. At(n - k, r, (n - k) \div r, (n - k) % r)
      BY <3>1, Division
    <3>3. (n - k) \div r = m - 1
      BY <3>2 DEF At
    <3> HIDE DEF m, a
    <3> QED BY <3>1, <3>2, <3>3 DEF At
  <2>3. m \in 1..n
    <3>1. n - k \in Nat /\ r \in Nat \ {0}
      BY <1>1
    <3>2. At(n - k, r, (n - k) \div r, (n - k) % r)
      BY <3>1, Division
    <3>3. (n - k) \div r <= n - k /\ (n - k) \div r \in Nat
      BY <3>1, <3>2, InLine DEF At
    <3> QED BY <1>1, <3>1, <3>3
  <2> HIDE DEF m, a
  <2>4. ASSUME NEW j \in 1..m
        PROVE  /\ r * (j - 1) + a \in 0..(n - 1) /\ At(r * (j - 1) + a, r, j - 1, a)
               /\ (r * (j - 1) + a) + r = r * j + a
               /\ j < m <=> (r * (j - 1) + a) + r < n
    <3>1. r * (j - 1) + a + r = r * j + a
      BY <1>1, <2>1
    <3>2. r * (j - 1) \in Nat /\ r * (j - 1) <= r * (m - 1)
      BY <1>1, <2>3
    <3>3. r * (m - 1) \in Nat
      BY <1>1, <2>3
    <3>4. r * (j - 1) + a \in 0..(n - 1)
      BY <1>1, <2>1, <2>2, <3>2, <3>3
    <3>5. At(r * (j - 1) + a, r, j - 1, a)
      BY <1>1, <2>1, <2>3 DEF At
    <3>6. r * j \in Nat /\ (r * (j - 1) + a) + r = r * j + a
      BY <1>1, <2>1, <2>3
    <3>7. j < m => r * j + a < n
      <4>1. j < m => r * j <= r * (m - 1)
        BY <1>1, <2>3
      <4> QED BY <1>1, <2>1, <2>2, <3>3, <3>6, <4>1
    <3>8. ~(j < m) => ~(r * j + a < n)
      <4>1. ~(j < m) => j = m
        BY <2>3
      <4>2. r * m = r * (m - 1) + r
        BY <1>1, <2>3
      <4> QED BY <1>1, <2>1, <2>2, <3>3, <3>6, <4>1, <4>2
    <3> QED BY <3>4, <3>5, <3>6, <3>7, <3>8
  <2>5. v \in Seq(Nat) /\ Len(v) = m /\ \A j \in 1..m : v[j] = r * (j - 1) + a
    <3>1. v \in [1..m -> Nat] /\ m \in Nat
      <4>1. \A j \in 1..m : r * (j - 1) + a \in 0..(n - 1)
        BY <2>4
      <4>2. \A j \in 1..m : r * (j - 1) + a \in Nat
        BY <4>1
      <4> QED BY <2>3, <4>2
    <3> QED BY <3>1
  <2>6. v[1] = a
    <3>1. 1 \in 1..m /\ r * (1 - 1) + a = a
      BY <1>1, <2>1, <2>3
    <3> QED BY <2>5, <3>1
  <2>7. ASSUME NEW j \in 1..m
        PROVE  g.right[v[j]] = IF j < m THEN r * j + a ELSE IF Cyclic THEN a ELSE NULL
    <3> DEFINE i == r * (j - 1) + a
               q == j - 1
    <3>1. i \in 0..(n - 1) /\ At(i, r, q, a) /\ i + r = r * j + a /\ (j < m <=> i + r < n) /\ v[j] = i
      BY <2>4, <2>5
    <3> HIDE DEF i, q, v
    <3>2. g.right[i] = IF i + r < n THEN i + r ELSE IF Cyclic THEN a ELSE NULL
      BY ONLY <1>1, <1>2, <3>1, ColumnLinks
    <3> QED BY <3>1, <3>2
  <2>8. Follow(g.right, a) = v
    <3>1. \A j \in 1..(Len(v) - 1) : g.right[v[j]] = v[j + 1] /\ v[j + 1] # v[1]
      <4>1. SUFFICES ASSUME NEW j \in 1..(m - 1) PROVE g.right[v[j]] = v[j + 1] /\ v[j + 1] # a
        BY <2>5, <2>6
      <4>2. j \in 1..m /\ j < m /\ j + 1 \in 1..m /\ j + 1 - 1 = j
        BY <2>3
      <4>3. v[j + 1] = r * j + a
        BY <2>5, <4>2
      <4>4. r * j + a # a
        <5>1. r * j \in Nat /\ r * j # 0
          BY <1>1, <4>2
        <5> QED BY <2>1, <5>1
      <4> HIDE DEF v
      <4> QED BY <2>7, <4>2, <4>3, <4>4
    <3>2. g.right[v[Len(v)]] = IF Cyclic THEN v[1] ELSE NULL
      <4>1. m \in 1..m /\ ~(m < m)
        BY <2>3
      <4> HIDE DEF v
      <4> QED BY <2>5, <2>6, <2>7, <4>1
    <3>3. nitems \in Nat /\ Len(v) \in 1..nitems /\ NULL \notin Nat
      BY <1>1, <2>3, <2>5 DEF n, NULL
    <3> HIDE DEF v
    <3>4. Follow(g.right, v[1]) = v
      BY <2>5, <3>1, <3>2, <3>3, FollowIs
    <3> QED BY <2>6, <3>4
  <2>9. Line(g, k) = v
    <3>1. Column(g)[k] = a
      BY <1>4, <1>7 DEF a
    <3> QED BY <2>8, <3>1 DEF Line
  <2> HIDE DEF v
  <2> QED BY <2>3, <2>5, <2>9 DEF a, m
<1> HIDE DEF w
<1> QED BY <1>4, <1>7, <1>8 DEF n, r, c

(* The links lead to items or nowhere, and the walk paints every item once,  *)
(* where it has its place.                                                   *)
LEMMA GridRight ==
    ASSUME Sized, NEW g, g = _nc_Link_Items, NEW i \in Connected
    PROVE  /\ g.y[i] = YOf(i) /\ g.x[i] = XOf(i) /\ YOf(i) \in 0..(rows - 1)
           /\ \A link \in {g.left, g.right, g.up, g.down} : link[i] \in Somewhere(nitems)
           /\ Found(g, i) = {<<YOf(i) + 1, XOf(i) + 1>>}
<1>1. /\ nitems \in Nat \ {0} /\ rows \in 1..nitems /\ cols \in 1..nitems /\ i \in 0..(nitems - 1)
      /\ Cyclic \in BOOLEAN
  BY DEF Sized, Connected, Cyclic
<1>2. CASE ByRows
  <2> DEFINE q == i \div cols
             m == i % cols
  <2>1. At(i, cols, q, m) /\ rows = (nitems - 1) \div cols + 1 /\ YOf(i) = q /\ XOf(i) = m
    BY <1>1, <1>2, Division DEF Sized, YOf, XOf
  <2>2. g = RowMajor(nitems, rows, cols, Cyclic)
    BY <1>2 DEF _nc_Link_Items, Cyclic, ByRows
  <2> HIDE DEF q, m
  <2>3. /\ q \in 0..(rows - 1) /\ m \in 0..(cols - 1) /\ g.y[i] = q /\ g.x[i] = m
        /\ \A link \in {g.left, g.right, g.up, g.down} : link[i] \in Somewhere(nitems)
    BY <1>1, <2>1, <2>2, RowLinks
  <2>4. /\ Len(Column(g)) = rows
        /\ \A k \in 1..rows :
              /\ Len(Line(g, k)) = Lesser(cols, nitems - (k - 1) * cols)
              /\ \A j \in 1..Len(Line(g, k)) : Line(g, k)[j] = cols * (k - 1) + (j - 1)
    BY <1>2, <2>2, RowWalk
  <2>5. ASSUME NEW p \in (1..rows) \X (1..nitems)
        PROVE  (p[2] <= Len(Line(g, p[1])) /\ Line(g, p[1])[p[2]] = i) <=> p = <<q + 1, m + 1>>
    <3>1. PICK k \in 1..rows, j \in 1..nitems : p = <<k, j>>
      OBVIOUS
    <3> DEFINE l == Len(Line(g, k))
    <3>2. l = Lesser(cols, nitems - (k - 1) * cols)
      BY <2>4
    <3>3. \A x \in 1..l : Line(g, k)[x] = cols * (k - 1) + (x - 1)
      BY <2>4
    <3> HIDE DEF l
    <3>4. ASSUME j <= l, Line(g, k)[j] = i PROVE k = q + 1 /\ j = m + 1
      <4>1. l <= cols /\ l \in Int
        <5>1. (k - 1) * cols \in Int
          BY <1>1
        <5> QED BY <1>1, <3>2, <5>1 DEF Lesser
      <4>2. i = cols * (k - 1) + (j - 1) /\ j - 1 \in 0..(cols - 1) /\ k - 1 \in Nat
        BY <1>1, <3>3, <3>4, <4>1
      <4>3. At(i, cols, k - 1, j - 1)
        BY <4>2 DEF At
      <4>4. i \div cols = k - 1 /\ i % cols = j - 1
        BY <1>1, <4>3, Quotient
      <4>5. i \div cols = q /\ i % cols = m
        BY DEF q, m
      <4> QED BY <2>3, <4>4, <4>5
    <3>5. ASSUME k = q + 1, j = m + 1 PROVE j <= l /\ Line(g, k)[j] = i
      <4>1. i = cols * (k - 1) + (j - 1) /\ k - 1 = q /\ j - 1 = m
        BY <2>1, <2>3, <3>5 DEF At
      <4>2. j <= cols
        BY <1>1, <2>3, <4>1
      <4>3. cols * (k - 1) = (k - 1) * cols /\ (k - 1) * cols \in Int
        BY <1>1
      <4>4. j <= nitems - (k - 1) * cols
        BY <1>1, <4>1, <4>3
      <4>5. j \in 1..l
        BY <1>1, <3>2, <4>2, <4>3, <4>4 DEF Lesser
      <4> QED BY <3>3, <4>1, <4>5
    <3> QED BY <3>1, <3>4, <3>5 DEF l
  <2>6. <<q + 1, m + 1>> \in (1..rows) \X (1..nitems)
    BY <1>1, <2>3
  <2> QED BY <2>1, <2>3, <2>4, <2>5, <2>6 DEF Found
<1>3. CASE ~ByRows
  <2> DEFINE q == i \div rows
             m == i % rows
  <2>1. At(i, rows, q, m) /\ cols = (nitems - 1) \div rows + 1 /\ YOf(i) = m /\ XOf(i) = q
    BY <1>1, <1>3, Division DEF Sized, YOf, XOf
  <2>2. g = ColumnMajor(nitems, rows, cols, Cyclic)
    BY <1>3 DEF _nc_Link_Items, Cyclic, ByRows
  <2> HIDE DEF q, m
  <2>3. /\ m \in 0..(rows - 1) /\ q \in 0..(cols - 1) /\ g.y[i] = m /\ g.x[i] = q
        /\ \A link \in {g.left, g.right, g.up, g.down} : link[i] \in Somewhere(nitems)
    BY <1>1, <2>1, <2>2, ColumnLinks
  <2>4. /\ Len(Column(g)) = rows
        /\ \A k \in 1..rows :
              /\ Len(Line(g, k)) = (nitems - k) \div rows + 1
              /\ Len(Line(g, k)) \in 1..nitems
              /\ \A j \in 1..Len(Line(g, k)) : Line(g, k)[j] = rows * (j - 1) + (k - 1)
    BY <1>3, <2>2, ColumnWalk
  <2>5. ASSUME NEW p \in (1..rows) \X (1..nitems)
        PROVE  (p[2] <= Len(Line(g, p[1])) /\ Line(g, p[1])[p[2]] = i) <=> p = <<m + 1, q + 1>>
    <3>1. PICK k \in 1..rows, j \in 1..nitems : p = <<k, j>>
      OBVIOUS
    <3> DEFINE l == Len(Line(g, k))
    <3>2. l = (nitems - k) \div rows + 1 /\ l \in 1..nitems
      BY <2>4
    <3>3. \A x \in 1..l : Line(g, k)[x] = rows * (x - 1) + (k - 1)
      BY <2>4
    <3> HIDE DEF l
    <3>4. ASSUME j <= l, Line(g, k)[j] = i PROVE k = m + 1 /\ j = q + 1
      <4>1. i = rows * (j - 1) + (k - 1) /\ k - 1 \in 0..(rows - 1) /\ j - 1 \in Nat
        BY <1>1, <3>2, <3>3, <3>4
      <4>2. At(i, rows, j - 1, k - 1)
        BY <4>1 DEF At
      <4>3. i \div rows = j - 1 /\ i % rows = k - 1
        BY <1>1, <4>2, Quotient
      <4>4. i \div rows = q /\ i % rows = m
        BY DEF q, m
      <4> QED BY <2>3, <4>3, <4>4
    <3>5. ASSUME k = m + 1, j = q + 1 PROVE j <= l /\ Line(g, k)[j] = i
      <4>1. i = rows * (j - 1) + (k - 1) /\ k - 1 = m /\ j - 1 = q
        BY <2>1, <2>3, <3>5 DEF At
      <4>2. i - m \in Nat /\ nitems - k \in Nat /\ i - m <= nitems - k
        BY <1>1, <2>3, <4>1
      <4>3. At(i - m, rows, q, 0)
        BY <1>1, <2>1 DEF At
      <4>4. (i - m) \div rows = q
        BY <1>1, <4>3, Quotient
      <4>5. q <= (nitems - k) \div rows
        <5>1. (i - m) \div rows <= (nitems - k) \div rows
          BY <1>1, <4>2, DivisionGrows
        <5> QED BY <4>4, <5>1
      <4>6. (nitems - k) \div rows \in Int
        BY <1>1, <4>2, Division DEF At
      <4>7. j \in 1..l
        BY <2>3, <3>2, <4>1, <4>5, <4>6
      <4> QED BY <3>3, <4>1, <4>7
    <3> QED BY <3>1, <3>4, <3>5 DEF l
  <2>6. <<m + 1, q + 1>> \in (1..rows) \X (1..nitems)
    BY <1>1, <2>3
  <2> QED BY <2>1, <2>3, <2>4, <2>5, <2>6 DEF Found
<1> QED BY <1>2, <1>3

(* The walk comes to an end.                                                 *)
LEMMA WalkEnds ==
    ASSUME Sized, NEW g, g = _nc_Link_Items
    PROVE  ~Endless(Column(g)) /\ \A k \in 1..Len(Column(g)) : ~Endless(Line(g, k))
<1>1. nitems \in Nat \ {0} /\ rows \in 1..nitems /\ cols \in 1..nitems
  BY DEF Sized
<1>2. CASE ByRows
  <2>1. g = RowMajor(nitems, rows, cols, Cyclic)
    BY <1>2 DEF _nc_Link_Items, Cyclic, ByRows
  <2>2. /\ Len(Column(g)) = rows
        /\ \A k \in 1..rows : Len(Line(g, k)) = Lesser(cols, nitems - (k - 1) * cols)
    BY <1>2, <2>1, RowWalk
  <2>3. ASSUME NEW k \in 1..rows PROVE Lesser(cols, nitems - (k - 1) * cols) <= cols
    <3>1. (k - 1) * cols \in Int
      BY <1>1
    <3> QED BY <1>1, <3>1 DEF Lesser
  <2>4. ASSUME NEW k \in 1..rows PROVE ~(Lesser(cols, nitems - (k - 1) * cols) > nitems)
    <3>1. (k - 1) * cols \in Int
      BY <1>1
    <3> QED BY <1>1, <2>3, <3>1 DEF Lesser
  <2>5. ~(rows > nitems)
    BY <1>1
  <2> QED BY <2>2, <2>4, <2>5 DEF Endless
<1>3. CASE ~ByRows
  <2>1. g = ColumnMajor(nitems, rows, cols, Cyclic)
    BY <1>3 DEF _nc_Link_Items, Cyclic, ByRows
  <2>2. Len(Column(g)) = rows /\ \A k \in 1..rows : Len(Line(g, k)) \in 1..nitems
    BY <1>3, <2>1, ColumnWalk
  <2>3. ~(rows > nitems) /\ \A l \in 1..nitems : ~(l > nitems)
    BY <1>1
  <2> QED BY <2>2, <2>3 DEF Endless
<1> QED BY <1>2, <1>3

-----------------------------------------------------------------------------
(* The invariant.                                                            *)

(* What is assumed of the application: the options that decide how items are *)
(* linked stay as they are while items are connected.                        *)
KeepsLinks == Toggles \cap {"rowmajor", "noncyclic"} = {}

Sizes == Nat \ {0}
MenuTypes ==
    /\ opt \in OptionSets \cup {Options} /\ nitems \in 0..MaxItems /\ format \in Sizes \X Sizes
    /\ value \subseteq Items /\ pattern \in Seq(Letters)
    /\ linkNeeded \in BOOLEAN /\ posted \in BOOLEAN
Placed ==
    /\ arows = Lesser(rows, format[1])
    /\ curitem \in Connected
    /\ toprow \in 0..(rows - arows)
    /\ YOf(curitem) \in toprow..(toprow + arows - 1)
PaintedWith(cur, values) == [i \in Connected |-> {Look(i, YOf(i), XOf(i), cur, values)}]

(* With items, the menu has their size, the current one is shown, and the    *)
(* links are those of the options, or will be computed.  A posted menu has   *)
(* them, and its pad shows all items as they are.                            *)
MenuInv ==
    /\ MenuTypes
    /\ nitems # 0 => Sized /\ Placed /\ (linkNeeded \/ grid = _nc_Link_Items)
    /\ posted => nitems # 0 /\ ~linkNeeded /\ drawn = PaintedWith(curitem, value)
    /\ ~hung

LEMMA InvIsShown == MenuInv => MenuShown
<1>1. SUFFICES ASSUME MenuInv, posted PROVE CurrentVisible /\ PadTrue
  BY DEF MenuShown, CurrentVisible, PadTrue
<1>2. /\ Sized /\ Placed /\ grid = _nc_Link_Items /\ drawn = PaintedWith(curitem, value) /\ ~hung
  BY <1>1 DEF MenuInv
<1>3. \A i \in Connected : grid.y[i] = YOf(i) /\ grid.x[i] = XOf(i)
  BY <1>2, GridRight
<1>4. CurrentVisible
  BY <1>2, <1>3 DEF CurrentVisible, Placed
<1>5. PadTrue
  BY <1>2, <1>3 DEF PadTrue, PaintedWith
<1> QED BY <1>4, <1>5

-----------------------------------------------------------------------------
(* The rows that are shown.                                                  *)

Fits(top, item) == top \in Nat /\ YOf(item) \in top..(top + arows - 1)

(* What is so of the rows of a menu.                                         *)
LEMMA RowsOf ==
    ASSUME MenuInv, nitems # 0, NEW item \in Connected
    PROVE  /\ rows \in Nat \ {0} /\ arows \in Nat \ {0} /\ arows <= rows
           /\ format[1] \in Nat \ {0} /\ arows = Lesser(rows, format[1])
           /\ toprow \in 0..(rows - arows) /\ YOf(item) \in 0..(rows - 1)
           /\ Linked = _nc_Link_Items /\ Linked.y[item] = YOf(item)
           /\ ~linkNeeded => grid = Linked
<1>1. Sized /\ Placed /\ (linkNeeded \/ grid = _nc_Link_Items) /\ format \in Sizes \X Sizes
  BY DEF MenuInv, MenuTypes
<1>2. Linked = _nc_Link_Items /\ (~linkNeeded => grid = Linked)
  BY <1>1 DEF Linked
<1>3. YOf(item) \in 0..(rows - 1) /\ Linked.y[item] = YOf(item)
  BY <1>1, <1>2, GridRight
<1>4. rows \in Nat \ {0} /\ format[1] \in Nat \ {0}
  BY <1>1 DEF Sized, Sizes
<1>5. arows = Lesser(rows, format[1]) /\ toprow \in 0..(rows - arows)
  BY <1>1 DEF Placed
<1>6. arows \in Nat \ {0} /\ arows <= rows
  BY <1>4, <1>5 DEF Lesser
<1> QED BY <1>2, <1>3, <1>4, <1>5, <1>6

LEMMA AdjustFits ==
    ASSUME MenuInv, nitems # 0, ~Jumps, NEW item \in Connected, MayGoTo(Linked, item)
    PROVE  Fits(Adjust(Linked, toprow, item), item)
<1> DEFINE y == Linked.y[item]
<1>1. /\ rows \in Nat \ {0} /\ arows \in Nat \ {0} /\ arows <= rows /\ toprow \in 0..(rows - arows)
      /\ YOf(item) = y /\ y \in 0..(rows - 1)
  BY RowsOf
<1>2. item # NULL
  BY DEF Connected, NULL
<1>3. y < toprow + arows \/ y < rows - toprow \/ y >= rows - arows
  BY <1>2 DEF MayGoTo
<1> DEFINE above == IF y < toprow THEN y ELSE toprow
           top == IF y < above + arows THEN above ELSE IF y < rows - above THEN y ELSE rows - arows
<1>4. Adjust(Linked, toprow, item) = top
  BY DEF Adjust
<1> HIDE DEF y
<1>5. top \in Nat /\ y \in top..(top + arows - 1)
  BY <1>1, <1>3
<1> QED BY <1>1, <1>4, <1>5 DEF Fits

LEMMA ShownFits ==
    ASSUME MenuInv, nitems # 0, ~linkNeeded, NEW item \in Connected, NEW top \in Nat
    PROVE  Fits(Shown(top, item), item)
<1>1. /\ arows \in Nat \ {0} /\ YOf(item) \in Nat /\ grid.y[item] = YOf(item)
  BY RowsOf
<1> QED BY <1>1 DEF Shown, Fits

(* The pad stays true when the items whose look changes are painted.         *)
LEMMA PaintsAll ==
    ASSUME MenuInv, NEW items, NEW cur, NEW values,
           \A i \in Connected : i \notin items => (i = cur <=> i = curitem) /\ (i \in values <=> i \in value)
    PROVE  posted => Painted(items, cur, values) = PaintedWith(cur, values)
<1>1. SUFFICES ASSUME posted PROVE Painted(items, cur, values) = PaintedWith(cur, values)
  OBVIOUS
<1>2. Sized /\ grid = _nc_Link_Items /\ drawn = PaintedWith(curitem, value)
  BY <1>1 DEF MenuInv
<1>3. \A i \in Connected : grid.y[i] = YOf(i) /\ grid.x[i] = XOf(i)
  BY <1>2, GridRight
<1>4. ASSUME NEW i \in Connected
      PROVE  (IF i \in items THEN {Look(i, grid.y[i], grid.x[i], cur, values)} ELSE drawn[i])
                = {Look(i, YOf(i), XOf(i), cur, values)}
  <2>1. CASE i \in items
    BY <1>3, <2>1
  <2>2. CASE i \notin items
    <3>1. drawn[i] = {Look(i, YOf(i), XOf(i), curitem, value)}
      BY <1>2 DEF PaintedWith
    <3>2. (i = cur) = (i = curitem) /\ (i \in values) = (i \in value)
      BY <2>2
    <3> QED BY <2>2, <3>1, <3>2 DEF Look
  <2> QED BY <2>1, <2>2
<1>5. Painted(items, cur, values) =
        [i \in Connected |->
            IF i \in items THEN {Look(i, grid.y[i], grid.x[i], cur, values)} ELSE drawn[i]]
  BY <1>1 DEF Painted
<1> QED BY <1>4, <1>5 DEF PaintedWith

(* The menu itself is the same in a step that only moves in it.              *)
SameMenu == UNCHANGED <<opt, geometry, posted, hung>>
LEMMA SameSize ==
    ASSUME SameMenu
    PROVE  /\ opt' = opt /\ nitems' = nitems /\ format' = format /\ rows' = rows /\ cols' = cols
           /\ arows' = arows /\ posted' = posted /\ hung' = hung
           /\ Connected' = Connected /\ Sized' = Sized /\ _nc_Link_Items' = _nc_Link_Items
           /\ \A i : YOf(i)' = YOf(i) /\ XOf(i)' = XOf(i)
<1>1. /\ opt' = opt /\ nitems' = nitems /\ format' = format /\ rows' = rows /\ cols' = cols
      /\ arows' = arows /\ posted' = posted /\ hung' = hung
  BY DEF SameMenu, geometry
<1>2. Connected' = Connected /\ ByRows' = ByRows
  BY <1>1 DEF Connected, ByRows
<1>3. Sized' = Sized
  BY <1>1, <1>2 DEF Sized
<1>4. _nc_Link_Items' = _nc_Link_Items
  BY <1>1 DEF _nc_Link_Items
<1>5. \A i : YOf(i)' = YOf(i) /\ XOf(i)' = XOf(i)
  BY <1>1, <1>2 DEF YOf, XOf
<1> QED BY <1>1, <1>2, <1>3, <1>4, <1>5

(* A step that moves in the menu keeps the invariant if it shows the item    *)
(* and paints what changes.                                                  *)
LEMMA PlaceKept ==
    ASSUME MenuInv, nitems # 0, SameMenu, grid' = Linked, linkNeeded' = FALSE,
           pattern' \in Seq(Letters), value' \subseteq Items,
           curitem' \in Connected, toprow' \in 0..(rows - arows),
           YOf(curitem') \in toprow'..(toprow' + arows - 1),
           posted => drawn' = PaintedWith(curitem', value')
    PROVE  MenuInv'
<1>1. /\ opt' = opt /\ nitems' = nitems /\ format' = format /\ rows' = rows /\ cols' = cols
      /\ arows' = arows /\ posted' = posted /\ hung' = hung
      /\ Connected' = Connected /\ Sized' = Sized /\ _nc_Link_Items' = _nc_Link_Items
  BY SameSize
<1>2. \A i : YOf(i)' = YOf(i) /\ XOf(i)' = XOf(i)
  BY SameSize
<1>3. MenuTypes'
  BY <1>1 DEF MenuInv, MenuTypes
<1>4. Sized'
  BY <1>1 DEF MenuInv
<1>5. Placed'
  <2>1. YOf(curitem)' = YOf(curitem')
    BY <1>1 DEF YOf, ByRows
  <2>2. arows = Lesser(rows, format[1])
    BY DEF MenuInv, Placed
  <2> QED BY <1>1, <2>1, <2>2 DEF Placed
<1>6. grid' = _nc_Link_Items'
  BY <1>1, RowsOf DEF MenuInv, Placed
<1>7. posted => drawn' = PaintedWith(curitem, value)'
  BY <1>1 DEF PaintedWith, YOf, XOf, ByRows, Connected
<1> QED BY <1>1, <1>3, <1>4, <1>5, <1>6, <1>7 DEF MenuInv

LEMMA MovesKeep ==
    ASSUME MenuInv, nitems # 0, SameMenu, grid' = Linked, linkNeeded' = FALSE,
           pattern' \in Seq(Letters), value' = value,
           NEW item \in Connected, NEW top, Fits(top, item), NewTopRowAndCurrentItem(top, item)
    PROVE  MenuInv'
<1>1. /\ rows \in Nat \ {0} /\ arows \in Nat \ {0} /\ arows <= rows
      /\ format[1] \in Nat \ {0} /\ arows = Lesser(rows, format[1]) /\ YOf(item) \in 0..(rows - 1)
  BY RowsOf
<1>2. curitem' = item /\ toprow' = IF rows >= format[1] THEN Lesser(rows - format[1], top) ELSE 0
  BY DEF NewTopRowAndCurrentItem
<1>3. top \in Nat /\ YOf(item) \in top..(top + arows - 1)
  BY DEF Fits
<1>4. toprow' \in 0..(rows - arows) /\ YOf(item) \in toprow'..(toprow' + arows - 1)
  <2> DEFINE y == YOf(item)
             t == toprow'
             f == format[1]
  <2>1. y \in 0..(rows - 1) /\ y \in top..(top + arows - 1) /\ f \in Nat \ {0}
    BY <1>1, <1>3
  <2>2. arows = (IF rows < f THEN rows ELSE f)
    BY <1>1 DEF Lesser
  <2>3. t = IF rows >= f THEN IF rows - f < top THEN rows - f ELSE top ELSE 0
    BY <1>2 DEF Lesser
  <2> HIDE DEF y, t, f
  <2>4. t \in 0..(rows - arows) /\ y \in t..(t + arows - 1)
    BY <1>1, <1>3, <2>1, <2>2, <2>3
  <2> QED BY <2>4 DEF y, t
<1>5. posted => drawn' = PaintedWith(item, value)
  <2> DEFINE items == IF item = curitem THEN {} ELSE {curitem, item}
  <2>1. \A i \in Connected : i \notin items => (i = item <=> i = curitem) /\ (i \in value <=> i \in value)
    OBVIOUS
  <2>2. drawn' = Painted(items, item, value)
    BY DEF NewTopRowAndCurrentItem
  <2> HIDE DEF items
  <2> QED BY <2>1, <2>2, PaintsAll
<1>6. value' \subseteq Items
  BY DEF MenuInv, MenuTypes
<1> QED BY <1>2, <1>4, <1>5, <1>6, PlaceKept

LEMMA StaysKeep ==
    ASSUME MenuInv, nitems # 0, SameMenu, grid' = Linked, linkNeeded' = FALSE,
           pattern' \in Seq(Letters), value' = value, Keep
    PROVE  MenuInv'
<1>1. /\ toprow \in 0..(rows - arows) /\ YOf(curitem) \in toprow..(toprow + arows - 1)
      /\ curitem \in Connected /\ value \subseteq Items
  BY DEF MenuInv, Placed, MenuTypes
<1>2. toprow' = toprow /\ curitem' = curitem /\ drawn' = drawn
  BY DEF Keep
<1>3. posted => drawn = PaintedWith(curitem, value)
  BY DEF MenuInv
<1> QED BY <1>1, <1>2, <1>3, PlaceKept

(* The end of menu_driver().                                                 *)
LEMMA DriverKeeps ==
    ASSUME MenuInv, posted, DriverFrame, pattern' \in Seq(Letters),
           NEW top \in Nat, NEW item \in Somewhere(nitems), Driver(top, item)
    PROVE  MenuInv'
<1>1. nitems # 0 /\ ~linkNeeded /\ grid' = grid /\ linkNeeded' = linkNeeded /\ value' = value /\ SameMenu
  BY DEF MenuInv, DriverFrame, SameMenu
<1>2. curitem \in Connected
  BY <1>1 DEF MenuInv, Placed
<1>3. grid' = Linked /\ linkNeeded' = FALSE
  BY <1>1 DEF Linked, MenuInv, MenuTypes
<1>4. CASE item \in {NULL, Wild}
  BY <1>1, <1>3, <1>4, StaysKeep DEF Driver
<1>5. CASE item \notin {NULL, Wild}
  <2>1. item \in Connected
    BY <1>5 DEF Somewhere, Connected
  <2>2. Fits(Shown(top, item), item)
    BY <1>1, <2>1, ShownFits
  <2>3. NewTopRowAndCurrentItem(Shown(top, item), item)
    BY <1>5 DEF Driver
  <2> QED BY <1>1, <1>3, <2>1, <2>2, <2>3, MovesKeep
<1> QED BY <1>4, <1>5

-----------------------------------------------------------------------------
(* Where patterns and requests lead.                                         *)

Hits(p, order) == {k \in 1..nitems : Is_Sub_String(p, Name[order[k]])}

(* The first of the items that match.                                        *)
LEMMA MatchIs ==
    ASSUME nitems \in Nat, NEW p, NEW item, NEW order \in [1..nitems -> Connected]
    PROVE  /\ Hits(p, order) = {} => Match(p, item, order) = NULL
           /\ Hits(p, order) # {} =>
                 \E k \in Hits(p, order) :
                    /\ \A m \in Hits(p, order) : k <= m
                    /\ Match(p, item, order) = IF order[k] = item /\ k # 1 THEN NULL ELSE order[k]
<1> DEFINE hits == Hits(p, order)
           Least(k) == \A m \in hits : k <= m
           first == CHOOSE k \in hits : Least(k)
<1>1. Match(p, item, order) =
         IF hits = {} \/ (order[first] = item /\ first # 1) THEN NULL ELSE order[first]
  BY DEF Match, Hits
<1>2. hits # {} => \E k \in hits : Least(k)
  <2>1. hits \subseteq Nat
    BY DEF Hits
  <2> HIDE DEF hits
  <2> QED BY <2>1, LeastNatural
<1>3. hits # {} => first \in hits /\ Least(first)
  <2> HIDE DEF hits, Least
  <2> QED BY <1>2
<1> HIDE DEF first
<1> QED BY <1>1, <1>3

LEMMA OrderTypes ==
    ASSUME nitems \in Nat \ {0}, NEW from \in Int, NEW step \in Int
    PROVE  Order(from, step) \in [1..nitems -> Connected]
<1>1. ASSUME NEW k \in 1..nitems
      PROVE  (from + step * k + nitems * nitems) % nitems \in 0..(nitems - 1)
  <2>1. from + step * k + nitems * nitems \in Int
    OBVIOUS
  <2> QED BY <2>1
<1> QED BY <1>1 DEF Order, Connected

LEMMA MatchTypes ==
    ASSUME nitems \in Nat \ {0}, NEW p, NEW item, NEW from \in Int, NEW step \in Int
    PROVE  Match(p, item, Order(from, step)) \in Connected \cup {NULL}
<1> DEFINE order == Order(from, step)
<1>1. order \in [1..nitems -> Connected]
  BY OrderTypes
<1> HIDE DEF order
<1>2. \A k \in Hits(p, order) : order[k] \in Connected
  BY <1>1 DEF Hits
<1>3. Match(p, item, order) \in Connected \cup {NULL}
  BY <1>1, <1>2, MatchIs
<1> QED BY <1>3 DEF order

(* So many steps along a link.                                               *)
LEMMA AlongTypes ==
    ASSUME MenuInv, nitems # 0, ~linkNeeded, NEW link \in {grid.up, grid.down}, NEW count \in Nat
    PROVE  Along(link, count) \in Somewhere(nitems)
<1> DEFINE X == Somewhere(nitems)
           N == count
           Step(e) == IF e \in {NULL, Wild} \/ link[e] = NULL THEN e ELSE link[e]
           Ok(g) == g = [n \in 0..N |-> IF n = 0 THEN curitem ELSE Step(g[n - 1])]
           to == CHOOSE g : Ok(g)
           h == [e \in (1..N) \X X |-> Step(e[2])]
<1>1. \A e \in X : Step(e) \in X
  <2>1. SUFFICES ASSUME NEW e \in X, e \notin {NULL, Wild} PROVE link[e] \in X
    OBVIOUS
  <2>2. e \in Connected
    BY <2>1 DEF Somewhere, Connected
  <2>3. Sized /\ grid = _nc_Link_Items
    BY DEF MenuInv
  <2> QED BY <2>2, <2>3, GridRight
<1>2. curitem \in X
  BY DEF MenuInv, Placed, Somewhere, Connected
<1> HIDE DEF X, Step
<1>3. h \in [(1..N) \X X -> X] /\ \A n \in 1..N, e \in X : h[<<n, e>>] = Step(e)
  BY <1>1
<1>4. PICK f : Stepwise(f, N, X, curitem, h)
  <2> HIDE DEF h
  <2> QED BY <1>2, <1>3, Iterates
<1>5. Ok(f)
  <2>1. f \in [0..N -> X] /\ f[0] = curitem /\ \A n \in 1..N : f[n] = h[<<n, f[n - 1]>>]
    BY <1>4 DEF Stepwise
  <2>2. ASSUME NEW n \in 0..N PROVE f[n] = IF n = 0 THEN curitem ELSE Step(f[n - 1])
    <3>1. CASE n = 0
      BY <2>1, <3>1
    <3>2. CASE n # 0
      <4>1. n \in 1..N /\ n - 1 \in 0..N
        BY <3>2
      <4>2. f[n - 1] \in X
        BY <2>1, <4>1
      <4> HIDE DEF h
      <4> QED BY <1>3, <2>1, <3>2, <4>1, <4>2
    <3> QED BY <3>1, <3>2
  <2> HIDE DEF h
  <2>3. f = [n \in 0..N |-> f[n]]
    BY <2>1
  <2> QED BY <2>2, <2>3
<1>6. Ok(to)
  <2> HIDE DEF Ok
  <2> QED BY <1>5
<1> HIDE DEF to
<1>7. to[0] = curitem /\ \A n \in 1..N : to[n] = Step(to[n - 1])
  <2>1. 0 \in 0..N /\ \A n \in 1..N : n \in 0..N /\ n # 0
    OBVIOUS
  <2> QED BY <1>6, <2>1
<1>8. \A n \in 0..N : to[n] \in X
  <2>1. \A n \in 1..N : to[n - 1] \in X => to[n] \in X
    BY <1>1, <1>7
  <2>2. to[0] \in X
    BY <1>2, <1>7
  <2> QED BY ONLY <2>1, <2>2, StaysIn, count \in Nat
<1>9. Along(link, count) = to[N]
  BY DEF Along, to, Step
<1> QED BY <1>8, <1>9 DEF X

(* A request is answered with a top row, and with an item or nothing.        *)
LEMMA AnswerTypes ==
    ASSUME MenuInv, posted, NEW request \in Requests
    PROVE  Answer(request)[1] \in Nat /\ Answer(request)[2] \in Somewhere(nitems)
<1>1. nitems # 0 /\ ~linkNeeded /\ curitem \in Connected /\ Sized /\ grid = _nc_Link_Items
  BY DEF MenuInv, Placed
<1>2. /\ rows \in Nat \ {0} /\ arows \in Nat \ {0} /\ arows <= rows
      /\ toprow \in 0..(rows - arows) /\ toprow \in Nat
  BY <1>1, RowsOf
<1>3. nitems \in Nat \ {0} /\ curitem \in 0..(nitems - 1) /\ curitem \in Int
  BY <1>1 DEF Sized, Connected
<1>4. \A link \in {grid.left, grid.right, grid.up, grid.down} : link[curitem] \in Somewhere(nitems)
  BY <1>1, GridRight
<1>5. NULL \in Somewhere(nitems) /\ 0 \in Somewhere(nitems) /\ nitems - 1 \in Somewhere(nitems)
  BY <1>3 DEF Somewhere
<1>6. /\ After(curitem) \in Somewhere(nitems) /\ Before(curitem) \in Somewhere(nitems)
      /\ \A step \in {1, -1} : Match(pattern, curitem, Order(curitem, step)) \in Somewhere(nitems)
  <2>1. After(curitem) \in Somewhere(nitems) /\ Before(curitem) \in Somewhere(nitems)
    BY <1>3, <1>5 DEF After, Before, Somewhere
  <2>2. ASSUME NEW step \in {1, -1} PROVE Match(pattern, curitem, Order(curitem, step)) \in Somewhere(nitems)
    <3>1. step \in Int
      OBVIOUS
    <3>2. Match(pattern, curitem, Order(curitem, step)) \in Connected \cup {NULL}
      BY <1>3, <3>1, MatchTypes
    <3> QED BY <3>2 DEF Somewhere, Connected
  <2> QED BY <2>1, <2>2
<1> DEFINE pageDown == Lesser(rows - (arows + toprow), arows)
           pageUp == Lesser(arows, toprow)
<1>7. pageDown \in Int /\ pageUp \in Nat /\ pageUp <= toprow
  BY <1>2 DEF Lesser
<1> HIDE DEF pageDown, pageUp
<1>8. CASE request \in {"LEFT_ITEM", "RIGHT_ITEM", "UP_ITEM", "DOWN_ITEM", "FIRST_ITEM", "LAST_ITEM"}
  BY <1>2, <1>4, <1>5, <1>8 DEF Answer
<1>9. CASE request \in {"NEXT_ITEM", "PREV_ITEM", "NEXT_MATCH", "PREV_MATCH"}
  BY <1>2, <1>6, <1>9 DEF Answer
<1>10. CASE request = "SCR_ULINE"
  <2>1. Answer(request) = IF toprow = 0 THEN <<toprow, NULL>> ELSE <<toprow - 1, grid.up[curitem]>>
    BY <1>10 DEF Answer
  <2> QED BY <1>2, <1>4, <1>5, <2>1
<1>11. CASE request = "SCR_DLINE"
  <2>1. Answer(request) = IF toprow + arows >= rows THEN <<toprow, NULL>>
                          ELSE <<toprow + 1, grid.down[curitem]>>
    BY <1>11 DEF Answer
  <2> QED BY <1>2, <1>4, <1>5, <2>1
<1>12. CASE request = "SCR_DPAGE"
  <2>1. Answer(request) = IF pageDown <= 0 THEN <<toprow, NULL>>
                          ELSE <<toprow + pageDown, Along(grid.down, pageDown)>>
    BY <1>12 DEF Answer, pageDown
  <2>2. ~(pageDown <= 0) => pageDown \in Nat
    BY <1>7
  <2>3. ~(pageDown <= 0) => Along(grid.down, pageDown) \in Somewhere(nitems)
    BY <1>1, <2>2, AlongTypes
  <2> QED BY <1>2, <1>5, <2>1, <2>2, <2>3
<1>13. CASE request = "SCR_UPAGE"
  <2>1. Answer(request) = IF pageUp <= 0 THEN <<toprow, NULL>>
                          ELSE <<toprow - pageUp, Along(grid.up, pageUp)>>
    BY <1>13 DEF Answer, pageUp
  <2>2. Along(grid.up, pageUp) \in Somewhere(nitems)
    BY <1>1, <1>7, AlongTypes
  <2>3. toprow - pageUp \in Nat
    BY <1>2, <1>7
  <2> QED BY <1>2, <1>5, <2>1, <2>2, <2>3
<1> QED BY <1>8, <1>9, <1>10, <1>11, <1>12, <1>13 DEF Requests

-----------------------------------------------------------------------------
(* Each operation keeps the invariant.                                       *)

LEMMA ConstantsAreSo ==
    /\ MaxItems \in Nat /\ Counts \subseteq 1..MaxItems /\ Selectable \subseteq Items
    /\ Formats \subseteq Sizes \X Sizes /\ OptionSets \subseteq SUBSET Options
BY MenuAssumption DEF ItemsAssumption, Sizes

(* set_menu_format() of the items that are connected.                        *)
LEMMA FormatKeeps ==
    ASSUME NEW n \in 1..MaxItems, NEW f \in Sizes \X Sizes, SetFormat(n, f, opt),
           nitems' = n, opt' = opt, value' \subseteq Items, opt \in OptionSets \cup {Options},
           posted' = FALSE, ~hung'
    PROVE  MenuInv'
<1> DEFINE total == (n - 1) \div f[2] + 1
           c == IF ByRows THEN Lesser(n, f[2]) ELSE (n - 1) \div total + 1
<1>1. /\ format' = f /\ rows' = total /\ cols' = c /\ arows' = Lesser(total, f[1])
      /\ toprow' = 0 /\ curitem' = 0 /\ pattern' = <<>> /\ linkNeeded' = TRUE
  BY DEF SetFormat, ByRows
<1>2. f[1] \in Nat \ {0} /\ f[2] \in Nat \ {0} /\ n \in Nat \ {0} /\ n - 1 \in Nat
  BY ConstantsAreSo DEF Sizes
<1>3. PICK q, m : At(n - 1, f[2], q, m) /\ q = (n - 1) \div f[2] /\ m = (n - 1) % f[2]
  BY <1>2, Division
<1>4. total \in 1..n
  <2>1. q <= n - 1
    BY <1>2, <1>3, InLine
  <2>2. q \in Nat
    BY <1>3 DEF At
  <2> QED BY <1>2, <1>3, <2>1, <2>2
<1>5. ~ByRows => c \in 1..n /\ c = (n - 1) \div total + 1
  <2>1. total \in Nat \ {0}
    BY <1>2, <1>4
  <2> DEFINE d == (n - 1) \div total
  <2> HIDE DEF total
  <2>2. At(n - 1, total, d, (n - 1) % total)
    BY <1>2, <2>1, Division
  <2>3. d <= n - 1 /\ d \in Nat
    BY <1>2, <2>1, <2>2, InLine DEF At
  <2>4. ~ByRows => c = d + 1
    OBVIOUS
  <2> HIDE DEF c, d
  <2>5. ~ByRows => c \in 1..n
    BY <1>2, <2>3, <2>4
  <2> QED BY <2>4, <2>5 DEF d
<1>6. ByRows => c \in 1..n /\ total = (n - 1) \div c + 1
  <2>1. CASE n < f[2]
    <3>1. At(n - 1, f[2], 0, n - 1) /\ At(n - 1, n, 0, n - 1)
      BY <1>2, <2>1 DEF At
    <3>2. (n - 1) \div f[2] = 0 /\ (n - 1) \div n = 0
      BY <1>2, <3>1, Quotient
    <3> QED BY <1>2, <2>1, <3>2 DEF Lesser
  <2>2. CASE ~(n < f[2])
    BY <1>2, <2>2 DEF Lesser
  <2> QED BY <2>1, <2>2
<1> HIDE DEF total, c
<1>7. ByRows' = ByRows
  BY DEF ByRows
<1>8. Sized'
  <2>1. nitems' \in Nat \ {0} /\ rows' \in 1..nitems' /\ cols' \in 1..nitems'
    BY <1>1, <1>2, <1>4, <1>5, <1>6
  <2>2. IF ByRows' THEN rows' = (nitems' - 1) \div cols' + 1 ELSE cols' = (nitems' - 1) \div rows' + 1
    BY <1>1, <1>5, <1>6, <1>7
  <2> QED BY <2>1, <2>2 DEF Sized
<1>9. Placed'
  <2>1. arows' = Lesser(rows', format'[1]) /\ arows' \in 1..rows'
    BY <1>1, <1>2, <1>4 DEF Lesser
  <2>2. 0 \in Connected'
    BY <1>2 DEF Connected
  <2>3. YOf(curitem)' = 0
    <3>1. YOf(curitem)' = IF ByRows' THEN 0 \div cols' ELSE 0 % rows'
      BY <1>1 DEF YOf
    <3>2. cols' \in Nat \ {0} /\ rows' \in Nat \ {0}
      BY <1>8 DEF Sized
    <3>3. \A d \in Nat \ {0} : 0 \div d = 0 /\ 0 % d = 0
      OBVIOUS
    <3>4. 0 \div cols' = 0 /\ 0 % rows' = 0
      BY <3>2, <3>3
    <3> QED BY <3>1, <3>4
  <2>4. toprow' = 0 /\ curitem' = 0
    BY <1>1
  <2>5. 0 \in 0..(rows' - arows') /\ 0 \in 0..(0 + arows' - 1)
    BY <1>1, <1>4, <2>1
  <2> QED BY <2>1, <2>2, <2>3, <2>4, <2>5 DEF Placed
<1>10. MenuTypes'
  <2>1. n \in 0..MaxItems
    BY ConstantsAreSo
  <2>2. pattern' \in Seq(Letters)
    BY <1>1
  <2> QED BY <1>1, <2>1, <2>2 DEF MenuTypes
<1> QED BY <1>1, <1>8, <1>9, <1>10 DEF MenuInv

LEMMA SetMenuFormatKeeps ==
    ASSUME MenuInv, NEW f \in Formats, SetMenuFormat(f)
    PROVE  MenuInv'
<1>1. nitems \in 1..MaxItems /\ f \in Sizes \X Sizes /\ SetFormat(nitems, f, opt) /\ nitems' = nitems
      /\ opt' = opt /\ value' = value /\ posted' = FALSE /\ ~hung'
  <2>1. nitems \in 1..MaxItems
    BY ConstantsAreSo DEF MenuInv, MenuTypes, SetMenuFormat
  <2>2. posted = FALSE
    BY DEF MenuInv, MenuTypes, SetMenuFormat
  <2> QED BY <2>1, <2>2, ConstantsAreSo DEF SetMenuFormat, MenuInv
<1> QED BY <1>1, FormatKeeps DEF MenuInv, MenuTypes

LEMMA SetMenuItemsKeeps ==
    ASSUME MenuInv, NEW n \in Counts \cup {0}, SetMenuItems(n)
    PROVE  MenuInv'
<1>1. nitems' = n /\ opt' = opt /\ opt \in OptionSets \cup {Options} /\ value' \subseteq Items /\ format \in Sizes \X Sizes
      /\ posted' = FALSE /\ ~hung' /\ n \in 0..MaxItems
  <2>1. value \subseteq Items /\ value' \in {value, value \ (0..(n - 1))}
    BY DEF MenuInv, MenuTypes, SetMenuItems
  <2>2. n \in 0..MaxItems
    BY ConstantsAreSo
  <2> QED BY <2>1, <2>2 DEF SetMenuItems, MenuInv, MenuTypes
<1>2. CASE n # 0
  <2>1. SetFormat(n, format, opt) /\ n \in 1..MaxItems
    BY <1>1, <1>2, ConstantsAreSo DEF SetMenuItems
  <2> QED BY <1>1, <2>1, FormatKeeps
<1>3. CASE n = 0
  <2>1. pattern' = <<>> /\ linkNeeded' = linkNeeded /\ format' = format
    BY <1>3 DEF SetMenuItems
  <2>2. linkNeeded \in BOOLEAN /\ <<>> \in Seq(Letters)
    BY DEF MenuTypes, MenuInv
  <2>3. MenuTypes'
    BY <1>1, <2>1, <2>2 DEF MenuTypes
  <2> QED BY <1>1, <1>3, <2>3 DEF MenuInv
<1> QED BY <1>2, <1>3

LEMMA SetMenuOptsKeeps ==
    ASSUME MenuInv, KeepsLinks, NEW options \in OptionSets, SetMenuOpts(options)
    PROVE  MenuInv'
<1>1. opt' = options /\ options \subseteq Options /\ posted' = FALSE /\ ~hung' /\ nitems' = nitems
      /\ grid' = grid /\ value' \subseteq Items
  <2>1. options \subseteq Options
    BY ConstantsAreSo
  <2>2. value \subseteq Items /\ value' \in {value, value \ Connected}
    BY DEF MenuInv, MenuTypes, SetMenuOpts
  <2> QED BY <2>1, <2>2 DEF SetMenuOpts, MenuInv
<1>2. nitems # 0 => \A o \in {"rowmajor", "noncyclic"} : o \in opt <=> o \in options
  BY DEF SetMenuOpts, KeepsLinks
<1>3. UNCHANGED <<format, rows, cols, arows, place, linkNeeded>>
  BY <1>2 DEF SetMenuOpts
<1>4. /\ format' = format /\ rows' = rows /\ cols' = cols /\ arows' = arows /\ linkNeeded' = linkNeeded
      /\ toprow' = toprow /\ curitem' = curitem /\ pattern' = pattern
  BY <1>3 DEF place
<1>5. MenuTypes'
  BY <1>1, <1>4 DEF MenuInv, MenuTypes
<1>6. ASSUME nitems # 0 PROVE Sized' /\ Placed' /\ (linkNeeded' \/ grid' = _nc_Link_Items')
  <2>1. ByRows' = ByRows /\ Cyclic' = Cyclic
    BY <1>1, <1>2, <1>6 DEF ByRows, Cyclic
  <2>2. Sized /\ Placed /\ (linkNeeded \/ grid = _nc_Link_Items)
    BY <1>6 DEF MenuInv
  <2>3. Sized'
    BY <1>1, <1>4, <2>1, <2>2 DEF Sized
  <2>4. YOf(curitem)' = YOf(curitem) /\ Connected' = Connected
    BY <1>1, <1>4, <2>1 DEF YOf, Connected
  <2>5. Placed'
    BY <1>4, <2>2, <2>4 DEF Placed
  <2>6. _nc_Link_Items' = _nc_Link_Items
    BY <1>1, <1>4, <2>1 DEF _nc_Link_Items, ByRows, Cyclic
  <2> QED BY <1>1, <1>4, <2>2, <2>3, <2>5, <2>6
<1> QED BY <1>1, <1>5, <1>6 DEF MenuInv

LEMMA PostMenuKeeps ==
    ASSUME MenuInv, PostMenu
    PROVE  MenuInv'
<1> DEFINE g == Linked
           column == Follow(g.down, 0)
           line(k) == Follow(g.right, column[k])
           values == IF "onevalue" \in opt THEN value ELSE value \ Connected
<1>1. /\ nitems # 0 /\ grid' = g /\ linkNeeded' = FALSE /\ posted' = TRUE /\ value' = values
      /\ opt' = opt /\ nitems' = nitems /\ format' = format /\ rows' = rows /\ cols' = cols
      /\ arows' = arows /\ toprow' = toprow /\ curitem' = curitem /\ pattern' = pattern
  BY DEF PostMenu, geometry, place
<1>2. Sized /\ Placed /\ g = _nc_Link_Items /\ values \subseteq Items
  BY <1>1, RowsOf DEF MenuInv, MenuTypes, Placed
<1>3. hung' = (Endless(column) \/ \E k \in 1..Len(column) : Endless(line(k)))
  BY DEF PostMenu
<1>4. column = Column(g) /\ \A k : line(k) = Line(g, k)
  BY DEF Column, Line
<1>5. ~hung'
  <2> HIDE DEF g, column, line
  <2> QED BY <1>2, <1>3, <1>4, WalkEnds
<1>6. drawn' = [i \in Connected |->
                  {Look(i, p[1] - 1, p[2] - 1, curitem, values) :
                      p \in {p \in (1..Len(column)) \X (1..nitems) :
                                p[2] <= Len(line(p[1])) /\ line(p[1])[p[2]] = i}}]
  <2> HIDE DEF values
  <2> QED BY <1>5 DEF PostMenu, values
<1> HIDE DEF g, column, line, values
<1>7. ASSUME NEW i \in Connected PROVE drawn'[i] = {Look(i, YOf(i), XOf(i), curitem, values)}
  <2>1. Found(g, i) = {<<YOf(i) + 1, XOf(i) + 1>>} /\ YOf(i) \in Int
    BY <1>2, GridRight
  <2>2. XOf(i) \in Int
    <3>1. i \in Nat /\ rows \in Nat \ {0} /\ cols \in Nat \ {0}
      BY <1>2 DEF Sized, Connected
    <3> QED BY <3>1, Division DEF XOf, At
  <2>3. drawn'[i] = {Look(i, p[1] - 1, p[2] - 1, curitem, values) : p \in Found(g, i)}
    BY <1>4, <1>6 DEF Found
  <2> DEFINE y == YOf(i)
             x == XOf(i)
             At1(p) == Look(i, p[1] - 1, p[2] - 1, curitem, values)
  <2>4. Found(g, i) = {<<y + 1, x + 1>>} /\ y \in Int /\ x \in Int
    BY <2>1, <2>2
  <2> HIDE DEF y, x
  <2>5. At1(<<y + 1, x + 1>>) = Look(i, y, x, curitem, values)
    <3>1. (y + 1) - 1 = y /\ (x + 1) - 1 = x
      BY <2>4
    <3> QED BY <3>1
  <2>6. drawn'[i] = {At1(<<y + 1, x + 1>>)}
    <3>1. drawn'[i] = {At1(p) : p \in Found(g, i)}
      BY <2>3
    <3> HIDE DEF At1
    <3> QED BY <2>4, <3>1
  <2> HIDE DEF At1
  <2> QED BY <2>5, <2>6 DEF y, x
<1>8. drawn' = PaintedWith(curitem, values)
  <2>1. drawn' = [i \in Connected |-> drawn'[i]]
    BY <1>6
  <2> QED BY <1>7, <2>1 DEF PaintedWith
<1>9. ByRows' = ByRows /\ Connected' = Connected /\ Sized' = Sized /\ _nc_Link_Items' = _nc_Link_Items
  BY <1>1 DEF ByRows, Connected, Sized, _nc_Link_Items
<1>10. Placed'
  BY <1>1, <1>2, <1>9 DEF Placed, YOf
<1>11. PaintedWith(curitem, value)' = PaintedWith(curitem, values)
  BY <1>1, <1>9 DEF PaintedWith, YOf, XOf
<1>12. MenuTypes'
  BY <1>1, <1>2 DEF MenuInv, MenuTypes
<1> QED BY <1>1, <1>2, <1>5, <1>8, <1>9, <1>10, <1>11, <1>12 DEF MenuInv

LEMMA UnpostMenuKeeps ==
    ASSUME MenuInv, UnpostMenu
    PROVE  MenuInv'
<1>1. /\ opt' = opt /\ nitems' = nitems /\ format' = format /\ rows' = rows /\ cols' = cols
      /\ arows' = arows /\ toprow' = toprow /\ curitem' = curitem /\ pattern' = pattern
      /\ value' = value /\ grid' = grid /\ linkNeeded' = linkNeeded /\ posted' = FALSE /\ hung' = hung
  BY DEF UnpostMenu, geometry, place
<1>2. Connected' = Connected /\ Sized' = Sized /\ _nc_Link_Items' = _nc_Link_Items
  BY <1>1 DEF ByRows, Connected, Sized, _nc_Link_Items
<1>3. Placed' = Placed
  BY <1>1, <1>2 DEF Placed, YOf, ByRows
<1>4. MenuTypes'
  BY <1>1 DEF MenuInv, MenuTypes
<1> QED BY <1>1, <1>2, <1>3, <1>4 DEF MenuInv

LEMMA SetCurrentItemKeeps ==
    ASSUME MenuInv, ~Jumps, NEW item, SetCurrentItem(item)
    PROVE  MenuInv'
<1>1. item \in Connected /\ nitems # 0
  <2>1. item \in Connected /\ nitems \in Nat
    BY DEF SetCurrentItem, MenuInv, MenuTypes
  <2> QED BY <2>1 DEF Connected
<1>2. /\ MayGoTo(Linked, item) /\ grid' = Linked /\ linkNeeded' = FALSE
      /\ NewTopRowAndCurrentItem(Adjust(Linked, toprow, item), item)
      /\ pattern' = <<>> /\ value' = value /\ SameMenu
  BY DEF SetCurrentItem, SameMenu
<1>3. Fits(Adjust(Linked, toprow, item), item)
  BY <1>1, <1>2, AdjustFits
<1>4. pattern' \in Seq(Letters)
  BY <1>2
<1> QED BY <1>1, <1>2, <1>3, <1>4, MovesKeep

LEMMA SetTopRowKeeps ==
    ASSUME MenuInv, NEW row, SetTopRow(row)
    PROVE  MenuInv'
<1> DEFINE item == IF ByRows THEN row * cols ELSE row
<1>1. /\ nitems # 0 /\ row \in 0..(rows - arows) /\ grid' = Linked /\ linkNeeded' = FALSE
      /\ NewTopRowAndCurrentItem(row, item) /\ pattern' = <<>> /\ value' = value /\ SameMenu
  BY DEF SetTopRow, SameMenu, ByRows
<1>2. Sized /\ curitem \in Connected
  BY <1>1 DEF MenuInv, Placed
<1>3. /\ rows \in Nat \ {0} /\ cols \in Nat \ {0} /\ rows \in 1..nitems /\ nitems \in Nat \ {0}
  BY <1>2 DEF Sized
<1>4. arows \in Nat \ {0} /\ arows <= rows
  BY <1>1, <1>2, RowsOf
<1>5. row \in Nat /\ row <= rows - 1
  BY <1>1, <1>3, <1>4
<1>6. item \in Connected /\ YOf(item) = row
  <2>1. CASE ByRows
    <3>1. At(item, cols, row, 0)
      BY <1>3, <1>5, <2>1 DEF At
    <3>2. item \div cols = row
      BY <1>3, <3>1, Quotient
    <3>3. PICK e \in Nat : nitems - 1 = cols * (rows - 1) + e
      <4>1. nitems - 1 \in Nat
        BY <1>3
      <4>2. At(nitems - 1, cols, (nitems - 1) \div cols, (nitems - 1) % cols)
        BY <1>3, <4>1, Division
      <4>3. (nitems - 1) \div cols = rows - 1
        BY <1>2, <2>1, <4>2 DEF Sized, At
      <4> QED BY <4>2, <4>3 DEF At
    <3>4. cols * row \in Nat /\ cols * row <= cols * (rows - 1) /\ item = cols * row
      BY <1>3, <1>5, <2>1
    <3>5. cols * (rows - 1) \in Nat
      BY <1>3
    <3>6. item \in 0..(nitems - 1)
      BY <1>3, <3>3, <3>4, <3>5
    <3> QED BY <2>1, <3>2, <3>6 DEF Connected, YOf
  <2>2. CASE ~ByRows
    <3>1. At(row, rows, 0, row)
      BY <1>3, <1>5 DEF At
    <3>2. row % rows = row
      BY <1>3, <3>1, Quotient
    <3> QED BY <1>3, <1>5, <2>2, <3>2 DEF Connected, YOf
  <2> QED BY <2>1, <2>2
<1> HIDE DEF item
<1>7. Fits(row, item)
  BY <1>4, <1>5, <1>6 DEF Fits
<1>8. pattern' \in Seq(Letters)
  BY <1>1
<1> QED BY <1>1, <1>6, <1>7, <1>8, MovesKeep

LEMMA SetItemValueKeeps ==
    ASSUME MenuInv, NEW i \in Items, NEW selected \in BOOLEAN, SetItemValue(i, selected)
    PROVE  MenuInv'
<1> DEFINE items == IF value' # value /\ i \in Connected THEN {i} ELSE {}
<1>1. /\ value' = (IF selected THEN value \cup {i} ELSE value \ {i})
      /\ drawn' = Painted(items, curitem, value')
      /\ opt' = opt /\ nitems' = nitems /\ format' = format /\ rows' = rows /\ cols' = cols
      /\ arows' = arows /\ toprow' = toprow /\ curitem' = curitem /\ pattern' = pattern
      /\ grid' = grid /\ linkNeeded' = linkNeeded /\ posted' = posted /\ hung' = hung
  BY DEF SetItemValue, geometry, place
<1>2. posted => drawn' = PaintedWith(curitem, value')
  <2>1. \A j \in Connected : j \notin items => (j = curitem <=> j = curitem) /\ (j \in value' <=> j \in value)
    BY <1>1
  <2> HIDE DEF items
  <2> QED BY <1>1, <2>1, PaintsAll
<1>3. Connected' = Connected /\ Sized' = Sized /\ _nc_Link_Items' = _nc_Link_Items
  BY <1>1 DEF ByRows, Connected, Sized, _nc_Link_Items
<1>4. Placed' = Placed
  BY <1>1, <1>3 DEF Placed, YOf, ByRows
<1>5. value' \subseteq Items
  BY <1>1 DEF MenuInv, MenuTypes
<1>6. MenuTypes'
  BY <1>1, <1>5 DEF MenuInv, MenuTypes
<1>7. PaintedWith(curitem, value)' = PaintedWith(curitem, value')
  BY <1>1, <1>3 DEF PaintedWith, YOf, XOf, ByRows
<1> QED BY <1>1, <1>2, <1>3, <1>4, <1>6, <1>7 DEF MenuInv

(* The current item, when the menu is posted.                                *)
LEMMA PostedIs ==
    ASSUME MenuInv, posted
    PROVE  /\ nitems \in Nat \ {0} /\ ~linkNeeded /\ Sized /\ grid = _nc_Link_Items
           /\ curitem \in 0..(nitems - 1) /\ curitem \in Connected /\ curitem \in Somewhere(nitems)
           /\ toprow \in Nat /\ pattern \in Seq(Letters)
<1>1. nitems # 0 /\ ~linkNeeded /\ Sized /\ grid = _nc_Link_Items /\ Placed /\ pattern \in Seq(Letters)
  BY DEF MenuInv, MenuTypes
<1>2. nitems \in Nat \ {0} /\ curitem \in Connected
  BY <1>1 DEF Sized, Placed
<1>3. toprow \in Nat
  BY <1>1, <1>2, RowsOf
<1> QED BY <1>1, <1>2, <1>3 DEF Connected, Somewhere

LEMMA TypeKeeps ==
    ASSUME MenuInv, NEW ch \in Letters, Type(ch)
    PROVE  MenuInv'
<1> DEFINE longer == Append(pattern, ch)
           item == IF Len(longer) > NameLen THEN NULL ELSE MatchTyped(longer, curitem)
<1>1. posted /\ DriverFrame
  BY DEF Type
<1>2. /\ nitems \in Nat \ {0} /\ ~linkNeeded /\ curitem \in 0..(nitems - 1) /\ toprow \in Nat
      /\ pattern \in Seq(Letters) /\ longer \in Seq(Letters)
  <2>1. pattern \in Seq(Letters)
    BY <1>1, PostedIs
  <2> QED BY <1>1, <2>1, PostedIs
<1>3. IF item = NULL THEN Keep /\ pattern' = pattern ELSE Driver(toprow, item) /\ pattern' = longer
  BY DEF Type
<1>4. item \in Somewhere(nitems)
  <2>1. curitem - 1 \in Int
    BY <1>2
  <2>2. MatchTyped(longer, curitem) \in Connected \cup {NULL}
    BY <1>2, <2>1, MatchTypes DEF MatchTyped
  <2> QED BY <2>2 DEF Somewhere, Connected
<1> HIDE DEF longer, item
<1>5. CASE item = NULL
  <2>1. grid' = Linked /\ linkNeeded' = FALSE /\ SameMenu /\ value' = value
    BY <1>1, <1>2 DEF DriverFrame, SameMenu, Linked, MenuInv, MenuTypes
  <2> QED BY <1>2, <1>3, <1>5, <2>1, StaysKeep
<1>6. CASE item # NULL
  <2>1. Driver(toprow, item) /\ pattern' \in Seq(Letters)
    BY <1>2, <1>3, <1>6
  <2> QED BY <1>1, <1>2, <1>4, <2>1, DriverKeeps
<1> QED BY <1>5, <1>6

LEMMA SetMenuPatternKeeps ==
    ASSUME MenuInv, ~Jumps, NEW p \in Seq(Letters), SetMenuPattern(p)
    PROVE  MenuInv'
<1> DEFINE N == Len(p)
           X == Connected \cup {NULL}
           Step(k, e) == IF e = NULL \/ k > NameLen THEN NULL ELSE MatchTyped(SubSeq(p, 1, k), e)
           Ok(g) == g = [k \in 0..N |-> IF k = 0 THEN curitem ELSE Step(k, g[k - 1])]
           try == CHOOSE g : Ok(g)
           item == try[N]
           h == [e \in (1..N) \X X |-> Step(e[1], e[2])]
<1>1. /\ nitems # 0 /\ grid' = Linked /\ linkNeeded' = FALSE /\ MayGoTo(Linked, item)
      /\ (IF item = NULL THEN pattern' = <<>> /\ Keep
          ELSE pattern' = p /\ NewTopRowAndCurrentItem(Adjust(Linked, toprow, item), item))
      /\ value' = value /\ SameMenu
  BY DEF SetMenuPattern, SameMenu
<1>2. nitems \in Nat \ {0} /\ curitem \in Connected /\ N \in Nat
  BY <1>1 DEF MenuInv, Placed, Sized
<1>3. \A k, e : e \in X => Step(k, e) \in X
  <2>1. SUFFICES ASSUME NEW k, NEW e \in Connected PROVE MatchTyped(SubSeq(p, 1, k), e) \in X
    OBVIOUS
  <2>2. e - 1 \in Int
    BY DEF Connected
  <2> QED BY <1>2, <2>2, MatchTypes DEF MatchTyped
<1> HIDE DEF Step, N, X
<1>4. h \in [(1..N) \X X -> X] /\ \A k \in 1..N, e \in X : h[<<k, e>>] = Step(k, e)
  BY <1>3
<1>5. curitem \in X
  BY <1>2 DEF X
<1>6. PICK f : Stepwise(f, N, X, curitem, h)
  <2> HIDE DEF h
  <2> QED BY <1>2, <1>4, <1>5, Iterates
<1>7. Ok(f)
  <2>1. f \in [0..N -> X] /\ f[0] = curitem /\ \A k \in 1..N : f[k] = h[<<k, f[k - 1]>>]
    BY <1>6 DEF Stepwise
  <2>2. ASSUME NEW k \in 0..N PROVE f[k] = IF k = 0 THEN curitem ELSE Step(k, f[k - 1])
    <3>1. CASE k = 0
      BY <2>1, <3>1
    <3>2. CASE k # 0
      <4>1. k \in 1..N /\ k - 1 \in 0..N
        BY <1>2, <3>2
      <4>2. f[k - 1] \in X
        BY <2>1, <4>1
      <4> HIDE DEF h
      <4> QED BY <1>4, <2>1, <3>2, <4>1, <4>2
    <3> QED BY <3>1, <3>2
  <2> HIDE DEF h
  <2>3. f = [k \in 0..N |-> f[k]]
    BY <2>1
  <2> QED BY <2>2, <2>3
<1>8. Ok(try)
  <2> HIDE DEF Ok
  <2> QED BY <1>7
<1> HIDE DEF try
<1>9. try[0] = curitem /\ \A k \in 1..N : try[k] = Step(k, try[k - 1])
  <2>1. 0 \in 0..N /\ \A k \in 1..N : k \in 0..N /\ k # 0
    BY <1>2
  <2> QED BY <1>8, <2>1
<1>10. item \in X
  <2>1. \A k \in 1..N : try[k - 1] \in X => try[k] \in X
    BY <1>3, <1>9
  <2>2. try[0] \in X
    BY <1>5, <1>9
  <2>3. \A k \in 0..N : try[k] \in X
    BY ONLY <2>1, <2>2, <1>2, StaysIn
  <2> QED BY <1>2, <2>3
<1> HIDE DEF item
<1>11. CASE item = NULL
  <2>1. pattern' \in Seq(Letters) /\ Keep
    BY <1>1, <1>11
  <2> QED BY <1>1, <2>1, StaysKeep
<1>12. CASE item # NULL
  <2>1. item \in Connected
    BY <1>10, <1>12 DEF X
  <2>2. Fits(Adjust(Linked, toprow, item), item)
    BY <1>1, <2>1, AdjustFits
  <2>3. pattern' \in Seq(Letters) /\ NewTopRowAndCurrentItem(Adjust(Linked, toprow, item), item)
    BY <1>1, <1>12
  <2> QED BY <1>1, <2>1, <2>2, <2>3, MovesKeep
<1> QED BY <1>11, <1>12

LEMMA RequestKeeps ==
    ASSUME MenuInv, NEW request \in Requests, Request(request)
    PROVE  MenuInv'
<1>1. posted /\ DriverFrame /\ Driver(Answer(request)[1], Answer(request)[2])
      /\ pattern' \in {pattern, <<>>}
  BY DEF Request
<1>2. pattern' \in Seq(Letters)
  <2>1. pattern \in Seq(Letters)
    BY <1>1, PostedIs
  <2>2. pattern' \in {pattern, <<>>}
    BY <1>1
  <2>3. <<>> \in Seq(Letters)
    OBVIOUS
  <2> QED BY ONLY <2>1, <2>2, <2>3
<1>3. Answer(request)[1] \in Nat /\ Answer(request)[2] \in Somewhere(nitems)
  BY <1>1, AnswerTypes
<1> QED BY <1>1, <1>2, <1>3, DriverKeeps

LEMMA PatternKeeps ==
    ASSUME MenuInv, ClearPattern \/ BackPattern
    PROVE  MenuInv'
<1>1. posted /\ DriverFrame /\ Driver(toprow, curitem)
  BY DEF ClearPattern, BackPattern
<1>2. pattern' \in Seq(Letters)
  <2>1. (pattern' = <<>>) \/ ((pattern # <<>>) /\ (pattern' = Front(pattern)))
    BY DEF ClearPattern, BackPattern
  <2>2. pattern \in Seq(Letters)
    BY <1>1, PostedIs
  <2>3. pattern # <<>> => Front(pattern) \in Seq(Letters)
    BY <2>2 DEF Front
  <2>4. <<>> \in Seq(Letters)
    OBVIOUS
  <2> QED BY ONLY <2>1, <2>3, <2>4
<1> QED BY <1>1, <1>2, PostedIs, DriverKeeps

LEMMA ClickKeeps ==
    ASSUME MenuInv, NEW i, Click(i)
    PROVE  MenuInv'
<1>1. posted /\ i \in Connected /\ DriverFrame /\ Driver(toprow, i) /\ pattern' = pattern
  BY DEF Click
<1>2. i \in Somewhere(nitems) /\ pattern' \in Seq(Letters) /\ toprow \in Nat
  BY <1>1, PostedIs DEF Somewhere, Connected
<1> QED BY <1>1, <1>2, DriverKeeps

(* REQ_TOGGLE_ITEM and a double click change the item that is shown there.   *)
LEMMA ToggleKeeps ==
    ASSUME MenuInv, posted, NEW item \in Connected, YOf(item) \in toprow..(toprow + arows - 1),
           Toggle(toprow, item)
    PROVE  MenuInv'
<1> DEFINE values == IF Denied(item) THEN value
                     ELSE IF item \in value THEN value \ {item} ELSE value \cup {item}
           items == (IF item = curitem THEN {} ELSE {curitem, item})
                        \cup (IF values = value THEN {} ELSE {item})
<1>1. /\ value' = values /\ toprow' = toprow /\ curitem' = item /\ pattern' = <<>>
      /\ drawn' = Painted(items, item, values)
      /\ grid' = grid /\ linkNeeded' = linkNeeded /\ SameMenu
  BY DEF Toggle, SameMenu
<1>2. nitems # 0 /\ ~linkNeeded /\ item \in Items /\ value \subseteq Items
  <2>1. nitems \in 0..MaxItems /\ nitems # 0 /\ ~linkNeeded /\ value \subseteq Items
    BY DEF MenuInv, MenuTypes
  <2>2. MaxItems \in Nat
    BY ConstantsAreSo
  <2> QED BY <2>1, <2>2 DEF Connected, Items
<1>3. grid' = Linked /\ linkNeeded' = FALSE
  BY <1>1, <1>2 DEF Linked, MenuInv, MenuTypes
<1>4. values \subseteq Items
  BY <1>2
<1>5. drawn' = PaintedWith(item, values)
  <2>1. \A i \in Connected : i \notin items => (i = item <=> i = curitem) /\ (i \in values <=> i \in value)
    OBVIOUS
  <2> HIDE DEF items, values
  <2> QED BY <1>1, <2>1, PaintsAll
<1> HIDE DEF values, items
<1>6. toprow \in 0..(rows - arows)
  BY <1>2, RowsOf
<1>7. <<>> \in Seq(Letters)
  OBVIOUS
<1> QED BY <1>1, <1>2, <1>3, <1>4, <1>5, <1>6, <1>7, PlaceKept

LEMMA ToggledKeeps ==
    ASSUME MenuInv, ~Tall, NEW i, ToggleItem \/ DoubleClick(i)
    PROVE  MenuInv'
<1>1. posted
  BY DEF ToggleItem, DoubleClick
<1>2. /\ nitems # 0 /\ curitem \in Connected
      /\ YOf(curitem) \in toprow..(toprow + arows - 1)
  BY <1>1, PostedIs DEF MenuInv, Placed
<1>3. ASSUME NEW item \in Connected
      PROVE  /\ rows \in Nat /\ arows \in Nat \ {0} /\ toprow \in Nat /\ grid.y[item] = YOf(item)
             /\ YOf(item) \in Nat
  <2>1. rows \in Nat /\ arows \in Nat \ {0} /\ YOf(item) \in 0..(rows - 1) /\ toprow \in 0..(rows - arows)
    BY <1>2, RowsOf
  <2>2. grid.y[item] = YOf(item)
    BY <1>1, PostedIs, GridRight
  <2> QED BY <2>1, <2>2
<1>4. ASSUME NEW item \in Connected, YOf(item) \in toprow..(toprow + arows - 1)
      PROVE  Shown(toprow, item) = toprow
  BY <1>3, <1>4 DEF Shown
<1>5. CASE ToggleItem
  <2>1. Toggle(toprow, curitem)
    BY <1>2, <1>4, <1>5 DEF ToggleItem
  <2> QED BY <1>1, <1>2, <2>1, ToggleKeeps
<1>6. CASE DoubleClick(i)
  <2>1. i \in Connected /\ grid.y[i] >= toprow /\ grid.y[i] < toprow + arows
    BY <1>6 DEF DoubleClick, UnderMouse
  <2>2. YOf(i) \in toprow..(toprow + arows - 1)
    BY <1>3, <2>1
  <2>3. Toggle(toprow, i)
    BY <1>4, <1>6, <2>1, <2>2 DEF DoubleClick
  <2> QED BY <1>1, <2>1, <2>2, <2>3, ToggleKeeps
<1> QED BY <1>5, <1>6

LEMMA MenuInitHolds == MenuInit => MenuInv
<1>1. SUFFICES ASSUME MenuInit PROVE MenuInv
  OBVIOUS
<1>2. <<>> \in Seq(Letters) /\ 0 \in 0..MaxItems /\ <<16, 1>> \in Sizes \X Sizes
  BY ConstantsAreSo DEF Sizes
<1>3. MenuTypes
  BY <1>1, <1>2 DEF MenuInit, MenuTypes, Options
<1> QED BY <1>1, <1>3 DEF MenuInit, MenuInv

LEMMA MenuStep ==
    ASSUME ~Jumps, ~Tall, KeepsLinks, MenuInv, [MenuNext]_menuVars
    PROVE  MenuInv'
<1>1. CASE UNCHANGED menuVars
  <2>1. /\ opt' = opt /\ nitems' = nitems /\ format' = format /\ rows' = rows /\ cols' = cols
        /\ arows' = arows /\ toprow' = toprow /\ curitem' = curitem /\ pattern' = pattern
        /\ value' = value /\ grid' = grid /\ linkNeeded' = linkNeeded /\ posted' = posted
        /\ drawn' = drawn /\ hung' = hung
    BY <1>1 DEF menuVars, geometry, place
  <2> QED BY <2>1 DEF MenuInv, MenuTypes, Sized, Placed, PaintedWith, YOf, XOf, ByRows, Connected,
                      _nc_Link_Items
<1>2. ASSUME NEW f \in Formats, SetMenuFormat(f) PROVE MenuInv'
  BY <1>2, SetMenuFormatKeeps
<1>3. ASSUME NEW n \in Counts \cup {0}, SetMenuItems(n) PROVE MenuInv'
  BY <1>3, SetMenuItemsKeeps
<1>4. ASSUME NEW options \in OptionSets, SetMenuOpts(options) PROVE MenuInv'
  BY <1>4, SetMenuOptsKeeps
<1>5. CASE PostMenu
  BY <1>5, PostMenuKeeps
<1>6. CASE UnpostMenu
  BY <1>6, UnpostMenuKeeps
<1>7. ASSUME NEW i \in Items, SetCurrentItem(i) PROVE MenuInv'
  BY <1>7, SetCurrentItemKeeps
<1>8. ASSUME NEW i \in Items, SetTopRow(i) PROVE MenuInv'
  BY <1>8, SetTopRowKeeps
<1>9. ASSUME NEW i \in Items, Click(i) PROVE MenuInv'
  BY <1>9, ClickKeeps
<1>10. ASSUME NEW i \in Items, DoubleClick(i) PROVE MenuInv'
  BY <1>10, ToggledKeeps
<1>11. ASSUME NEW i \in Items, NEW selected \in BOOLEAN, SetItemValue(i, selected) PROVE MenuInv'
  BY <1>11, SetItemValueKeeps
<1>12. ASSUME NEW ch \in Letters, Type(ch) PROVE MenuInv'
  BY <1>12, TypeKeeps
<1>13. ASSUME NEW p \in Letters, NEW q \in Letters, SetMenuPattern(<<p, q>>) \/ SetMenuPattern(<<p>>)
       PROVE  MenuInv'
  <2>1. <<p, q>> \in Seq(Letters) /\ <<p>> \in Seq(Letters)
    OBVIOUS
  <2> QED BY <1>13, <2>1, SetMenuPatternKeeps
<1>14. ASSUME NEW request \in Requests, Request(request) PROVE MenuInv'
  BY <1>14, RequestKeeps
<1>15. CASE ClearPattern \/ BackPattern
  BY <1>15, PatternKeeps
<1>16. CASE ToggleItem
  BY <1>16, ToggledKeeps
<1> QED BY <1>1, <1>2, <1>3, <1>4, <1>5, <1>6, <1>7, <1>8, <1>9, <1>10, <1>11, <1>12, <1>13,
           <1>14, <1>15, <1>16 DEF MenuNext

-----------------------------------------------------------------------------
(* What is typed.                                                            *)

(* No name is longer than namelen.                                           *)
LEMMA NameLenIs ==
    ASSUME nitems \in 1..MaxItems, NEW i \in Connected
    PROVE  NameLen \in Nat /\ Len(Name[i]) \in Nat /\ Len(Name[i]) <= NameLen
<1> DEFINE t == [m \in 0..nitems |-> \E b \in Nat : \A j \in 0..(m - 1) : Len(Name[j]) <= b]
           lengths == {Len(Name[j]) : j \in Connected}
<1>1. \A j \in Connected : Len(Name[j]) \in Nat
  <2>1. Connected \subseteq Items /\ Name \in [Items -> Seq(Letters)]
    BY MenuAssumption DEF ItemsAssumption, Connected, Items
  <2> QED BY <2>1
<1>2. \A m \in 0..nitems : t[m] \in {TRUE}
  <2>1. t[0] \in {TRUE}
    <3>1. \E b \in Nat : \A j \in 0..(0 - 1) : Len(Name[j]) <= b
      <4>1. \A j \in 0..(0 - 1) : Len(Name[j]) <= 0
        OBVIOUS
      <4> QED BY <4>1
    <3>2. 0 \in 0..nitems
      OBVIOUS
    <3> QED BY <3>1, <3>2
  <2>2. ASSUME NEW m \in 1..nitems, t[m - 1] \in {TRUE} PROVE t[m] \in {TRUE}
    <3>1. m - 1 \in 0..nitems /\ m \in 0..nitems /\ m - 1 \in Connected
      BY DEF Connected
    <3>2. PICK b \in Nat : \A j \in 0..(m - 1 - 1) : Len(Name[j]) <= b
      BY <2>2, <3>1
    <3> DEFINE l == Len(Name[m - 1])
               c == IF b < l THEN l ELSE b
    <3>3. l \in Nat
      BY <1>1, <3>1
    <3>4. ASSUME NEW j \in 0..(m - 1) PROVE Len(Name[j]) <= c
      <4>1. j \in Connected
        BY DEF Connected
      <4>2. Len(Name[j]) \in Nat
        BY <1>1, <4>1
      <4>3. CASE j = m - 1
        BY <3>3, <4>3
      <4>4. CASE j # m - 1
        <5>1. j \in 0..(m - 1 - 1)
          BY <4>4
        <5>2. Len(Name[j]) <= b
          BY <3>2, <5>1
        <5> HIDE DEF l
        <5> QED BY <3>3, <4>2, <5>2
      <4> QED BY <4>3, <4>4
    <3>5. c \in Nat
      BY <3>3
    <3> HIDE DEF c
    <3>6. \E d \in Nat : \A j \in 0..(m - 1) : Len(Name[j]) <= d
      BY <3>4, <3>5
    <3> QED BY <3>1, <3>6
  <2>3. nitems \in Nat
    OBVIOUS
  <2> DEFINE X == {TRUE}
  <2> HIDE DEF t
  <2>4. t[0] \in X /\ \A m \in 1..nitems : t[m - 1] \in X => t[m] \in X
    BY <2>1, <2>2
  <2> HIDE DEF X
  <2>5. \A m \in 0..nitems : t[m] \in X
    BY ONLY <2>3, <2>4, StaysIn
  <2> QED BY <2>5 DEF X
<1>3. PICK b \in Nat : \A j \in Connected : Len(Name[j]) <= b
  <2>1. nitems \in 0..nitems
    OBVIOUS
  <2>2. t[nitems]
    BY <1>2, <2>1
  <2> QED BY <2>1, <2>2 DEF Connected
<1>4. lengths \subseteq Nat /\ lengths # {} /\ \A n \in lengths : n <= b
  BY <1>1, <1>3
<1>5. Len(Name[i]) \in lengths
  OBVIOUS
<1>6. NameLen = CHOOSE n \in lengths : \A m \in lengths : m <= n
  BY DEF NameLen
<1> HIDE DEF lengths
<1>7. \E n \in lengths : \A m \in lengths : m <= n
  BY <1>4, GreatestNatural
<1>8. NameLen \in lengths /\ \A m \in lengths : m <= NameLen
  BY <1>6, <1>7
<1> QED BY <1>4, <1>5, <1>8

(* The order in which items are looked at when a character is typed is once  *)
(* around from the current one.                                              *)
LEMMA OrderTyped ==
    ASSUME nitems \in Nat \ {0}, NEW item \in Connected
    PROVE  /\ Order(item - 1, 1) \in [1..nitems -> Connected]
           /\ \A k \in 1..nitems : Order(item - 1, 1)[k] = item <=> k = 1
           /\ \A i \in Connected : \E k \in 1..nitems : Order(item - 1, 1)[k] = i
<1> DEFINE n == nitems
           order == Order(item - 1, 1)
<1>1. item \in 0..(n - 1) /\ n \in Nat \ {0}
  BY DEF Connected
<1>2. order \in [1..n -> Connected]
  BY <1>1, OrderTypes
<1>3. ASSUME NEW k \in 1..n
      PROVE  order[k] = IF item + k - 1 < n THEN item + k - 1 ELSE item + k - 1 - n
  <2> DEFINE a == item - 1 + 1 * k
  <2>1. a = item + k - 1 /\ a \in Nat /\ a < 2 * n
    BY <1>1
  <2>2. order[k] = (a + n * n) % n
    BY DEF Order
  <2> HIDE DEF a
  <2>3. (a + n * n) % n = IF a < n THEN a ELSE a - n
    BY <1>1, <2>1, Around
  <2> QED BY <1>1, <2>1, <2>2, <2>3
<1> HIDE DEF order
<1>4. ASSUME NEW k \in 1..n PROVE order[k] = item <=> k = 1
  BY <1>1, <1>3
<1>5. ASSUME NEW i \in 0..(n - 1) PROVE \E k \in 1..n : order[k] = i
  <2> DEFINE k == IF i >= item THEN i - item + 1 ELSE i - item + 1 + n
  <2>1. k \in 1..n
    BY <1>1
  <2>2. order[k] = i
    <3>1. order[k] = IF item + k - 1 < n THEN item + k - 1 ELSE item + k - 1 - n
      <4> HIDE DEF k
      <4> QED BY <1>3, <2>1
    <3> QED BY <1>1, <2>1, <3>1
  <2> QED BY <2>1, <2>2
<1> QED BY <1>2, <1>4, <1>5 DEF order, n, Connected

Beginning(p) == {i \in Connected : IsPrefix(p, Name[i])}

LEMMA MatchesTyped ==
    ASSUME nitems \in Nat \ {0}, "ignorecase" \in opt, NEW item \in Connected, NEW p
    PROVE  /\ Beginning(p) = {} => MatchTyped(p, item) = NULL
           /\ Beginning(p) # {} => MatchTyped(p, item) \in Beginning(p)
           /\ item \in Beginning(p) => MatchTyped(p, item) = item
<1> DEFINE order == Order(item - 1, 1)
           hits == Hits(p, order)
<1>1. /\ order \in [1..nitems -> Connected]
      /\ \A k \in 1..nitems : order[k] = item <=> k = 1
      /\ \A i \in Connected : \E k \in 1..nitems : order[k] = i
  BY OrderTyped
<1>2. MatchTyped(p, item) = Match(p, item, order)
  BY DEF MatchTyped
<1> HIDE DEF order
<1>3. \A k \in 1..nitems : k \in hits <=> order[k] \in Beginning(p)
  BY <1>1 DEF Hits, Is_Sub_String, Beginning
<1>4. hits \subseteq 1..nitems
  BY DEF Hits
<1>5. hits = {} <=> Beginning(p) = {}
  BY <1>1, <1>3, <1>4 DEF Beginning
<1>6. hits = {} => Match(p, item, order) = NULL
  BY <1>1, MatchIs
<1>7. hits # {} => \E k \in hits : /\ \A m \in hits : k <= m
                                   /\ Match(p, item, order) = order[k]
  <2>1. hits # {} => \E k \in hits :
            /\ \A m \in hits : k <= m
            /\ Match(p, item, order) = IF order[k] = item /\ k # 1 THEN NULL ELSE order[k]
    BY <1>1, MatchIs
  <2> HIDE DEF hits
  <2> QED BY <1>1, <1>4, <2>1
<1> HIDE DEF hits
<1>8. hits # {} => Match(p, item, order) \in Beginning(p)
  BY <1>3, <1>4, <1>7
<1>9. item \in Beginning(p) => Match(p, item, order) = item
  <2>1. SUFFICES ASSUME item \in Beginning(p) PROVE Match(p, item, order) = item
    OBVIOUS
  <2>2. 1 \in 1..nitems /\ order[1] = item
    BY <1>1
  <2>3. 1 \in hits
    BY <1>3, <2>1, <2>2
  <2>4. PICK k \in hits : (\A m \in hits : k <= m) /\ Match(p, item, order) = order[k]
    BY <1>7, <2>3
  <2>5. k = 1
    <3>1. k <= 1 /\ k \in 1..nitems
      BY <1>4, <2>3, <2>4
    <3> QED BY <3>1
  <2> QED BY <2>2, <2>4, <2>5
<1> QED BY <1>2, <1>5, <1>6, <1>8, <1>9

LEMMA TypedRight ==
    ASSUME MenuInv, "ignorecase" \in opt
    PROVE  TypesMatch
<1>1. SUFFICES ASSUME NEW ch \in Letters, Type(ch)
               PROVE  LET longer == Append(pattern, ch)
                          fits == {i \in Connected : IsPrefix(longer, Name[i])}
                      IN IF fits = {} THEN UNCHANGED place
                         ELSE /\ pattern' = longer /\ curitem' \in fits
                              /\ curitem \in fits => curitem' = curitem
  BY DEF TypesMatch
<1> DEFINE longer == Append(pattern, ch)
           fits == Beginning(longer)
           item == IF Len(longer) > NameLen THEN NULL ELSE MatchTyped(longer, curitem)
<1>2. posted /\ IF item = NULL THEN Keep /\ pattern' = pattern
                ELSE Driver(toprow, item) /\ pattern' = longer
  BY <1>1 DEF Type
<1>3. nitems \in Nat \ {0} /\ nitems \in 1..MaxItems /\ curitem \in Connected /\ pattern \in Seq(Letters)
  <2>1. nitems \in 0..MaxItems
    BY DEF MenuInv, MenuTypes
  <2>2. nitems \in Nat \ {0} /\ curitem \in Connected /\ pattern \in Seq(Letters)
    BY <1>2, PostedIs
  <2> QED BY <2>1, <2>2, ConstantsAreSo
<1>4. Len(longer) \in Nat
  BY <1>3
<1>5. Len(longer) > NameLen => fits = {}
  <2>1. SUFFICES ASSUME Len(longer) > NameLen, NEW i \in fits PROVE FALSE
    OBVIOUS
  <2>2. i \in Connected /\ IsPrefix(longer, Name[i])
    BY DEF Beginning
  <2>3. NameLen \in Nat /\ Len(Name[i]) \in Nat /\ Len(Name[i]) <= NameLen
    BY <1>3, <2>2, NameLenIs
  <2>4. Len(longer) <= Len(Name[i])
    BY <2>2 DEF IsPrefix
  <2> HIDE DEF longer
  <2> QED BY <1>4, <2>1, <2>3, <2>4
<1>6. /\ fits = {} => item = NULL
      /\ fits # {} => item \in fits
      /\ curitem \in fits => item = curitem
  <2>1. /\ fits = {} => MatchTyped(longer, curitem) = NULL
        /\ fits # {} => MatchTyped(longer, curitem) \in fits
        /\ curitem \in fits => MatchTyped(longer, curitem) = curitem
    BY <1>3, MatchesTyped
  <2> HIDE DEF longer, fits
  <2> QED BY <1>5, <2>1
<1>7. \A i \in Connected : i \notin {NULL, Wild}
  BY DEF Connected, NULL, Wild
<1>8. fits \subseteq Connected
  BY DEF Beginning
<1>9. fits = {} => UNCHANGED place
  BY <1>2, <1>6 DEF Keep, place
<1>10. fits # {} => pattern' = longer /\ curitem' = item
  <2>1. fits # {} => item \notin {NULL, Wild}
    BY <1>6, <1>7, <1>8
  <2> HIDE DEF fits, item
  <2> QED BY <1>2, <2>1 DEF Driver, NewTopRowAndCurrentItem
<1> HIDE DEF item
<1> QED BY <1>6, <1>9, <1>10 DEF Beginning

LEMMA TypedStep ==
    ASSUME "ignorecase" \in Options, MenuInv, \A options \in OptionSets : "ignorecase" \in options
    PROVE  [TypesMatch]_menuVars
<1>1. "ignorecase" \in opt
  BY DEF MenuInv, MenuTypes
<1> QED BY <1>1, TypedRight

-----------------------------------------------------------------------------
(* Menus of any items, names and formats, whose application does not go to   *)
(* items between the rows that are shown and the last ones, whose window is  *)
(* not too high, and that keeps the options that links are made with: the    *)
(* current item of a posted menu is in a row that is shown, and the pad      *)
(* shows every item once, where it is and as it is.                          *)
THEOREM MenuIsShown ==
    ASSUME ~Jumps, ~Tall, KeepsLinks
    PROVE  MenuSpec => []MenuShown
<1>1. MenuInit => MenuInv
  BY MenuInitHolds
<1>2. MenuInv /\ [MenuNext]_menuVars => MenuInv'
  BY MenuStep
<1>3. MenuInv => MenuShown
  BY InvIsShown
<1> QED BY <1>1, <1>2, <1>3, PTL DEF MenuSpec

(* And if it leaves O_IGNORECASE on, a typed character leads to an item      *)
(* whose name begins with the pattern, or is taken back.                     *)
THEOREM TypingMatches ==
    ASSUME ~Jumps, ~Tall, KeepsLinks, \A options \in OptionSets : "ignorecase" \in options
    PROVE  MenuSpec => TypedMatches
<1>1. MenuInit => MenuInv
  BY MenuInitHolds
<1>2. MenuInv /\ [MenuNext]_menuVars => MenuInv'
  BY MenuStep
<1>3. MenuInv => [TypesMatch]_menuVars
  <2>1. "ignorecase" \in Options
    BY DEF Options
  <2> QED BY <2>1, TypedStep
<1> QED BY <1>1, <1>2, <1>3, PTL DEF MenuSpec, TypedMatches
===============================================================================
