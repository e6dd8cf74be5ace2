----------------------------- MODULE FormProofs ------------------------------
(* The current field of a posted form is in sight, what is in sight is what  *)
(* the application reads, and a field is left with its text stored and       *)
(* checked, for every form whose fields have one line.                       *)
EXTENDS Form, SequenceLemmas, SequenceTheorems

Chars == Letters \cup {blank}
Texts == Seq(Chars)
Forms == [posted : BOOLEAN, current : Fields, curpage : Pages \cup {NULL},
          curcol : Nat, begincol : Nat, w : Texts, modified : BOOLEAN, fcheck : BOOLEAN,
          ovlmode : BOOLEAN, buf : [Fields -> Texts], growable : SUBSET Fields,
          shown : [Fields -> Texts], typed : BOOLEAN]

(* A buffer fills the columns of its fields, and may grow where it is less   *)
(* than it may be.                                                           *)
Buffers(F) ==
    \A f \in Fields : /\ Len(Buffer(F, f)) >= Cols[f]
                      /\ f \in F.growable => Len(Buffer(F, f)) < MaxGrow[f]
(* The current field may be visited, on the page that is shown.              *)
Sited(F) == F.current \in selectable /\ PageOf[F.current] = F.curpage

Part(text, b, f) == SubSeq(text, b + 1, b + Cols[f])
Shows(F, f) ==
    \E b \in 0..(Len(Buffer(F, f)) - Cols[f]) : F.shown[f] = Part(Buffer(F, f), b, f)
Lag(F) == IF F.typed THEN Linked(F.current) ELSE {F.current}
(* The other fields of the page show a part of their buffers.                *)
OthersShow(F) == \A f \in selectable \ Lag(F) : PageOf[f] = F.curpage => Shows(F, f)

(* A field is open: its window has the size of its buffer and, unless it is  *)
(* a pad, is part of the form's.                                             *)
Opened(F) ==
    /\ F \in Forms /\ Buffers(F) /\ Sited(F) /\ OthersShow(F)
    /\ Len(F.w) = Len(Buffer(F, F.current))
    /\ F.curcol \in 0..(Len(F.w) - 1) /\ F.begincol \in 0..(Len(F.w) - Cols[F.current])
    /\ Len(F.w) = Cols[F.current] => F.shown[F.current] = F.w
(* Its text is in its buffer or known to be other, and is to be checked when *)
(* it was edited.                                                            *)
Edits(F) ==
    /\ Opened(F)
    /\ ~F.typed \/ ~F.modified => F.w = Buffer(F, F.current)
    /\ F.typed => F.modified \/ F.fcheck
(* And its cursor is in sight.                                               *)
InSight(F) ==
    /\ Edits(F)
    /\ F.shown[F.current] = Part(F.w, F.begincol, F.current)
    /\ F.curcol \in F.begincol..(F.begincol + Cols[F.current] - 1)
Closed(F) == F \in Forms /\ Buffers(F) /\ Sited(F) /\ F.w = <<>>

FormInv ==
    /\ Fields \ Toggled \subseteq selectable /\ selectable \subseteq Fields
    /\ IF form.posted THEN InSight(form) ELSE Closed(form)
-----------------------------------------------------------------------------
(* What the searches in a line find.                                         *)

LEMMA FirstInIs ==
    ASSUME NEW S, S \subseteq Nat, NEW otherwise
    PROVE  FirstIn(S, otherwise) \in S \cup {otherwise} /\ (S # {} => FirstIn(S, otherwise) \in S)
<1>1. CASE S = {}
  BY <1>1 DEF FirstIn
<1>2. CASE S # {}
  <2>1. \E i \in S : \A j \in S : i <= j
    BY <1>2, LeastNatural
  <2> QED BY <1>2, <2>1 DEF FirstIn
<1> QED BY <1>1, <1>2

LEMMA AfterIs ==
    ASSUME NEW line \in Texts
    PROVE  After(line) \in 0..Len(line)
<1> DEFINE data == {i \in 1..Len(line) : line[i] # blank}
<1>1. Len(line) \in Nat
  BY DEF Texts
<1>2. CASE data = {}
  BY <1>1, <1>2 DEF After
<1>3. CASE data # {}
  <2>1. \E i \in data : \A j \in data : j <= i
    <3>1. data \subseteq Nat /\ \A i \in data : i <= Len(line)
      BY <1>1
    <3> HIDE DEF data
    <3> QED BY <1>1, <1>3, <3>1, GreatestNatural
  <2>2. After(line) = CHOOSE i \in data : \A j \in data : j <= i
    BY <1>3 DEF After
  <2>3. After(line) \in data
    <3> HIDE DEF data
    <3> QED BY <2>1, <2>2
  <2> QED BY <1>1, <2>3
<1> QED BY <1>2, <1>3

LEMMA AfterLastIs ==
    ASSUME NEW line, NEW to \in Nat
    PROVE  After_Last_Whitespace(line, to) \in 0..to
<1> DEFINE blanks == {i \in 1..to : line[i] = blank}
<1>1. CASE blanks = {}
  BY <1>1 DEF After_Last_Whitespace
<1>2. CASE blanks # {}
  <2>1. \E i \in blanks : \A j \in blanks : j <= i
    <3>1. blanks \subseteq Nat /\ \A i \in blanks : i <= to
      OBVIOUS
    <3> HIDE DEF blanks
    <3> QED BY <1>2, <3>1, GreatestNatural
  <2>2. After_Last_Whitespace(line, to) = CHOOSE i \in blanks : \A j \in blanks : j <= i
    BY <1>2 DEF After_Last_Whitespace
  <2>3. After_Last_Whitespace(line, to) \in blanks
    <3> HIDE DEF blanks
    <3> QED BY <2>1, <2>2
  <2> QED BY <2>3
<1> QED BY <1>1, <1>2

LEMMA StartIs ==
    ASSUME NEW line \in Texts, NEW from \in 0..(Len(line) - 1)
    PROVE  /\ Get_Start_Of_Data(line, from) \in 0..(Len(line) - 1)
           /\ Get_First_Whitespace(line, from) \in 0..(Len(line) - 1)
<1>1. Len(line) \in Nat
  BY DEF Texts
<1> DEFINE S == {i \in from..(Len(line) - 1) : line[i + 1] # blank}
           T == {i \in from..(Len(line) - 1) : line[i + 1] = blank}
<1>2. S \subseteq 0..(Len(line) - 1) /\ T \subseteq 0..(Len(line) - 1)
  BY <1>1
<1>3. S \subseteq Nat /\ T \subseteq Nat
  BY <1>1
<1>4. Get_Start_Of_Data(line, from) = FirstIn(S, from) /\ Get_First_Whitespace(line, from) = FirstIn(T, from)
  BY DEF Get_Start_Of_Data, Get_First_Whitespace
<1> HIDE DEF S, T
<1>5. FirstIn(S, from) \in S \cup {from} /\ FirstIn(T, from) \in T \cup {from}
  BY <1>3, FirstInIs
<1> QED BY <1>2, <1>4, <1>5

-----------------------------------------------------------------------------
(* What the searches for a field find.                                       *)

OnIt(p) == {f \in selectable : PageOf[f] = p}
(* Every field of the page is in a list, and no other.                       *)
Lists(order, p) ==
    order \in Seq(Fields) /\ ToSet(order) = {f \in Fields : PageOf[f] = p}
Visitable == Fields \ Toggled \subseteq selectable /\ selectable \subseteq Fields

(* Each page has a field to visit.                                           *)
LEMMA SomeOnPage ==
    ASSUME Visitable, NEW p \in Pages
    PROVE  OnIt(p) # {}
BY FieldsAssumption DEF Visitable, OnIt

LEMMA PagesAre ==
    /\ 0 \in Fields /\ PageOf[0] = 0 /\ 0 \in Pages /\ NULL \notin Pages
    /\ \A f \in Fields : PageOf[f] \in Pages
<1>1. 0 \in Fields /\ \A f \in Fields : PageOf[f] \in Pages
  BY FieldsAssumption DEF Pages
<1>2. MaxPage \in Nat /\ Pages = 0..(MaxPage - 1) /\ PageOf[0] \in Pages
  BY <1>1, FieldsAssumption
<1>3. 0 \in Pages /\ NULL \notin Pages
  BY <1>2 DEF NULL
<1>4. PICK g \in Fields : PageOf[g] = 0
  BY <1>3 DEF Pages
<1>5. g \in Nat /\ (0 < g => PageOf[0] <= PageOf[g])
  BY <1>1, FieldsAssumption
<1> QED BY <1>1, <1>2, <1>3, <1>4, <1>5

LEMMA NextIs ==
    ASSUME Visitable, NEW p \in Pages, NEW order, Lists(order, p), NEW f \in Fields, PageOf[f] = p
    PROVE  Next_Field(order, f) \in OnIt(p)
<1> DEFINE n == Len(order)
           here == CHOOSE k \in 1..n : order[k] = f
           at(k) == order[((here - 1 + k) % n) + 1]
           hits == {k \in 1..n : at(k) \in selectable}
<1>1. n \in Nat /\ order \in Seq(Fields) /\ ToSet(order) = {order[i] : i \in 1..n}
  BY DEF Lists, ToSet
<1>2. \A x \in Fields : PageOf[x] = p <=> \E k \in 1..n : order[k] = x
  BY <1>1 DEF Lists
<1>3. here \in 1..n /\ n > 0
  <2>1. \E k \in 1..n : order[k] = f
    BY <1>2
  <2>2. here \in 1..n
    BY <2>1
  <2> HIDE DEF here
  <2> QED BY <1>1, <2>2
<1> HIDE DEF n, here
<1>4. PICK x \in selectable : x \in Fields /\ PageOf[x] = p
  BY SomeOnPage DEF OnIt, Visitable
<1>5. PICK j \in 1..n : order[j] = x
  BY <1>2, <1>4
<1>6. \E k \in 1..n : ((here - 1 + k) % n) + 1 = j
  <2> DEFINE k == IF j > here THEN j - here ELSE j - here + n
  <2>1. k \in 1..n
    BY <1>1, <1>3
  <2>2. (here - 1 + k) % n = j - 1
    <3>1. CASE j > here
      <4>1. here - 1 + k = j - 1 /\ j - 1 \in 0..(n - 1)
        BY <1>1, <1>3, <3>1
      <4>2. (j - 1) % n = j - 1
        BY <1>1, <1>3, <4>1
      <4> QED BY <4>1, <4>2
    <3>2. CASE ~(j > here)
      <4>1. here - 1 + k = (j - 1) + n /\ j - 1 \in 0..(n - 1)
        BY <1>1, <1>3, <3>2
      <4>2. ((j - 1) + n) % n = j - 1
        BY <1>1, <1>3, <4>1
      <4> QED BY <4>1, <4>2
    <3> QED BY <3>1, <3>2
  <2> HIDE DEF k
  <2>3. ((here - 1 + k) % n) + 1 = j
    BY <1>1, <1>5, <2>2
  <2> QED BY <2>1, <2>3
<1>7. hits # {} /\ hits \subseteq Nat
  BY <1>1, <1>4, <1>5, <1>6
<1>8. FirstIn(hits, n) \in hits
  <2> HIDE DEF hits
  <2> QED BY <1>7, FirstInIs
<1>9. Next_Field(order, f) = at(FirstIn(hits, n))
  <2> HIDE DEF hits, at
  <2> QED BY <1>7 DEF Next_Field, hits, at, n, here
<1>10. \A k \in 1..n : ((here - 1 + k) % n) + 1 \in 1..n
  BY <1>1, <1>3
<1>11. at(FirstIn(hits, n)) \in selectable /\ PageOf[at(FirstIn(hits, n))] = p
  <2> DEFINE k == FirstIn(hits, n)
  <2>1. k \in 1..n /\ at(k) \in selectable
    <3> HIDE DEF k
    <3> QED BY <1>8 DEF k
  <2> HIDE DEF k, hits
  <2>2. at(k) \in Fields /\ PageOf[at(k)] = p
    <3> DEFINE m == ((here - 1 + k) % n) + 1
    <3>1. m \in 1..n /\ at(k) = order[m]
      BY <1>10, <2>1
    <3> HIDE DEF m, at
    <3>2. order[m] \in Fields
      BY <1>1, <3>1 DEF n
    <3> QED BY <1>2, <3>1, <3>2
  <2> QED BY <2>1, <2>2 DEF k
<1> QED BY <1>9, <1>11 DEF OnIt

(* A field put anywhere into a list is in it, with those that were.          *)
LEMMA PutIn ==
    ASSUME NEW s \in Seq(Fields), NEW i \in 1..(Len(s) + 1), NEW e \in Fields
    PROVE  /\ InsertAt(s, i, e) \in Seq(Fields)
           /\ ToSet(InsertAt(s, i, e)) = ToSet(s) \cup {e}
<1> DEFINE n == Len(s)
           a == SubSeq(s, 1, i - 1)
           b == SubSeq(s, i, n)
           r == InsertAt(s, i, e)
<1>1. n \in Nat /\ i \in 1..(n + 1) /\ \A k \in 1..n : s[k] \in Fields
  OBVIOUS
<1>2. a \in Seq(Fields) /\ Len(a) = i - 1 /\ \A k \in 1..(i - 1) : a[k] = s[k]
  BY <1>1
<1>3. b \in Seq(Fields) /\ Len(b) = n - i + 1 /\ \A k \in 1..(n - i + 1) : b[k] = s[k + i - 1]
  BY <1>1
<1>4. r = a \o <<e>> \o b
  BY DEF InsertAt
<1>5. ToSet(s) = {s[k] : k \in 1..n} /\ s \in Seq(Fields)
  BY DEF ToSet
<1> HIDE DEF a, b, r, n
<1> DEFINE c == a \o <<e>>
<1>6. c \in Seq(Fields) /\ Len(c) = i /\ \A k \in 1..i : c[k] = IF k < i THEN s[k] ELSE e
  <2>1. c \in Seq(Fields) /\ Len(c) = i
    BY <1>1, <1>2
  <2>2. \A k \in 1..(i - 1) : c[k] = a[k]
    BY <1>1, <1>2
  <2>3. c[i] = e
    BY <1>1, <1>2
  <2> HIDE DEF c
  <2> QED BY ONLY <1>1, <1>2, <2>1, <2>2, <2>3
<1>7. r = c \o b
  BY <1>4
<1> HIDE DEF c
<1>8. /\ r \in Seq(Fields) /\ Len(r) = n + 1
      /\ \A k \in 1..(n + 1) : r[k] = IF k <= i THEN c[k] ELSE b[k - i]
  <2>1. c \in Seq(Fields) /\ b \in Seq(Fields) /\ Len(c) = i /\ Len(b) = n - i + 1
    BY ONLY <1>3, <1>6
  <2>2. i + (n - i + 1) = n + 1
    BY ONLY <1>1
  <2>3. /\ c \o b \in Seq(Fields) /\ Len(c \o b) = Len(c) + Len(b)
        /\ \A k \in 1..(Len(c) + Len(b)) : (c \o b)[k] = IF k <= Len(c) THEN c[k] ELSE b[k - Len(c)]
    BY ONLY <2>1, ConcatProperties
  <2> QED BY ONLY <1>7, <2>1, <2>2, <2>3
<1>9. \A k \in 1..(n + 1) : r[k] = IF k < i THEN s[k] ELSE IF k = i THEN e ELSE s[k - 1]
  <2>1. \A k \in 1..i : k \in 1..(n + 1) /\ k <= i
    BY ONLY <1>1
  <2>2. \A k \in 1..i : r[k] = c[k]
    BY ONLY <1>8, <2>1
  <2>3. ASSUME NEW k \in 1..(n + 1), k > i PROVE r[k] = s[k - 1]
    <3>1. k - i \in 1..(n - i + 1) /\ ~(k <= i) /\ (k - i) + i - 1 = k - 1
      BY ONLY <1>1, <2>3
    <3> QED BY ONLY <1>3, <1>8, <3>1
  <2>4. \A k \in 1..(n + 1) : ~(k > i) => k \in 1..i
    BY ONLY <1>1
  <2> QED BY ONLY <1>1, <1>6, <2>2, <2>3, <2>4
<1>10. ToSet(r) = {r[k] : k \in 1..(n + 1)}
  BY <1>8 DEF ToSet
<1>11. ASSUME NEW x \in ToSet(s) PROVE x \in ToSet(r)
  <2>1. PICK k \in 1..n : x = s[k]
    BY <1>5
  <2>2. CASE k < i
    BY <1>1, <1>9, <1>10, <2>1, <2>2
  <2>3. CASE ~(k < i)
    <3>1. k + 1 \in 1..(n + 1) /\ ~(k + 1 < i) /\ k + 1 # i /\ (k + 1) - 1 = k
      BY <1>1, <2>3
    <3> QED BY <1>9, <1>10, <2>1, <3>1
  <2> QED BY <2>2, <2>3
<1>12. e \in ToSet(r)
  BY <1>1, <1>9, <1>10
<1>13. ASSUME NEW x \in ToSet(r) PROVE x \in ToSet(s) \cup {e}
  <2>1. PICK k \in 1..(n + 1) : x = r[k]
    BY <1>10
  <2>2. CASE k < i
    BY <1>1, <1>5, <1>9, <2>1, <2>2
  <2>3. CASE k = i
    BY <1>9, <2>1, <2>3
  <2>4. CASE k > i
    <3>1. k - 1 \in 1..n /\ ~(k < i) /\ k # i
      BY <1>1, <2>4
    <3> QED BY <1>5, <1>9, <2>1, <3>1
  <2> QED BY <1>1, <2>2, <2>3, <2>4
<1>14. r \in Seq(Fields) /\ ToSet(r) = ToSet(s) \cup {e}
  BY ONLY <1>8, <1>11, <1>12, <1>13
<1> QED BY ONLY <1>14 DEF r

(* A list to which the fields of a page are added one by one has them all.   *)
LEMMA Collected ==
    ASSUME NEW p, NEW t, t[0] = <<>>,
           \A n \in 1..Cardinality(Fields) : t[n - 1] \in Seq(Fields) =>
              /\ t[n] \in Seq(Fields)
              /\ ToSet(t[n]) = IF PageOf[n - 1] = p THEN ToSet(t[n - 1]) \cup {n - 1}
                               ELSE ToSet(t[n - 1])
    PROVE  Lists(t[Cardinality(Fields)], p)
<1> DEFINE N == Cardinality(Fields)
           Below(n) == {f \in Fields : f < n /\ PageOf[f] = p}
           Good(n) == t[n] \in Seq(Fields) /\ ToSet(t[n]) = Below(n)
           T == {n \in 0..N : ~Good(n)}
<1>1. N \in Nat /\ Fields = 0..(N - 1)
  BY FieldsAssumption
<1>2. Good(0)
  <2>1. Below(0) = {}
    BY <1>1
  <2>2. <<>> \in Seq(Fields) /\ ToSet(<<>>) = {}
    BY DEF ToSet
  <2> QED BY <2>1, <2>2
<1>3. ASSUME NEW n \in 1..N, Good(n - 1) PROVE Good(n)
  <2>1. n - 1 \in Fields /\ \A f \in Fields : f < n <=> f < n - 1 \/ f = n - 1
    BY <1>1
  <2>2. Below(n) = IF PageOf[n - 1] = p THEN Below(n - 1) \cup {n - 1} ELSE Below(n - 1)
    BY <2>1
  <2> HIDE DEF Below
  <2> QED BY <1>3, <2>2
<1> HIDE DEF Good, N
<1>4. \A n \in 0..N : Good(n)
  <2>1. SUFFICES ASSUME T # {} PROVE FALSE
    OBVIOUS
  <2>2. PICK n \in T : \A k \in T : n <= k
    <3>1. T \subseteq Nat
      OBVIOUS
    <3> HIDE DEF T
    <3> QED BY <2>1, <3>1, LeastNatural
  <2>3. n \in 0..N /\ ~Good(n) /\ n # 0
    BY <1>2
  <2>4. n - 1 \in 0..N /\ ~(n <= n - 1) /\ n \in 1..N
    BY <1>1, <2>3
  <2>5. n - 1 \notin T
    <3> HIDE DEF T
    <3> QED BY <2>2, <2>4
  <2> QED BY <1>3, <2>3, <2>4, <2>5
<1>5. Good(N)
  BY <1>1, <1>4
<1>6. Below(N) = {f \in Fields : PageOf[f] = p}
  BY <1>1
<1> QED BY <1>5, <1>6 DEF Good, Lists, N

(* The order by index, and that by place, list the fields of a page.         *)
LEMMA OnPageLists ==
    ASSUME NEW p \in Pages
    PROVE  Lists(OnPage[p], p)
<1> DEFINE N == Cardinality(Fields)
           X == Seq(Fields)
           Is(t) == t = [n \in 0..N |-> IF n = 0 THEN <<>>
                                        ELSE IF PageOf[n - 1] = p THEN Append(t[n - 1], n - 1) ELSE t[n - 1]]
           h == [x \in (1..N) \X X |-> IF PageOf[x[1] - 1] = p THEN Append(x[2], x[1] - 1) ELSE x[2]]
<1>1. N \in Nat /\ Fields = 0..(N - 1) /\ <<>> \in X
  BY FieldsAssumption
<1>2. ASSUME NEW s \in X, NEW f \in Fields
      PROVE  Append(s, f) \in X /\ ToSet(Append(s, f)) = ToSet(s) \cup {f}
  <2>1. Append(s, f) = InsertAt(s, Len(s) + 1, f)
    <3>1. SubSeq(s, 1, (Len(s) + 1) - 1) = s /\ SubSeq(s, Len(s) + 1, Len(s)) = <<>>
      OBVIOUS
    <3>2. s \o <<f>> \o <<>> = Append(s, f)
      OBVIOUS
    <3> QED BY <3>1, <3>2 DEF InsertAt
  <2>2. Len(s) + 1 \in 1..(Len(s) + 1)
    OBVIOUS
  <2>3. s \in Seq(Fields) /\ f \in Fields
    OBVIOUS
  <2>4. /\ InsertAt(s, Len(s) + 1, f) \in Seq(Fields)
        /\ ToSet(InsertAt(s, Len(s) + 1, f)) = ToSet(s) \cup {f}
    BY ONLY <2>2, <2>3, PutIn
  <2> QED BY ONLY <2>1, <2>4
<1>3. OnPage[p] = (CHOOSE t : Is(t))[N]
  BY DEF OnPage, Collect
<1> HIDE DEF N
<1>4. \E t : Is(t)
  <2>1. h \in [(1..N) \X X -> X]
    <3>1. \A n \in 1..N : n - 1 \in Fields
      BY <1>1
    <3> HIDE DEF X
    <3> QED BY <1>2, <3>1
  <2>2. PICK t : Stepwise(t, N, X, <<>>, h)
    <3> HIDE DEF h, X
    <3> QED BY ONLY <1>1, <2>1, Iterates
  <2>3. t \in [0..N -> X] /\ t[0] = <<>>
    BY <2>2 DEF Stepwise
  <2>4. ASSUME NEW n \in 0..N, n # 0
        PROVE  t[n] = IF PageOf[n - 1] = p THEN Append(t[n - 1], n - 1) ELSE t[n - 1]
    <3>1. n \in 1..N /\ n - 1 \in 0..N
      BY <1>1, <2>4
    <3>2. t[n - 1] \in X
      BY <2>3, <3>1
    <3>3. <<n, t[n - 1]>> \in (1..N) \X X
      BY <3>1, <3>2
    <3>4. t[n] = h[<<n, t[n - 1]>>]
      BY <2>2, <3>1 DEF Stepwise
    <3> HIDE DEF X
    <3> QED BY <3>3, <3>4
  <2>5. t = [n \in 0..N |-> t[n]]
    BY <2>3
  <2>6. Is(t)
    BY ONLY <2>3, <2>4, <2>5
  <2> HIDE DEF Is
  <2> QED BY <2>6
<1>5. PICK t : Is(t) /\ t = CHOOSE u : Is(u)
  <2> HIDE DEF Is
  <2> QED BY <1>4
<1>6. t[0] = <<>>
  BY <1>1, <1>5
<1>7. ASSUME NEW n \in 1..N, t[n - 1] \in X
      PROVE  /\ t[n] \in X
             /\ ToSet(t[n]) = IF PageOf[n - 1] = p THEN ToSet(t[n - 1]) \cup {n - 1} ELSE ToSet(t[n - 1])
  <2>1. n \in 0..N /\ n # 0 /\ n - 1 \in Fields
    BY <1>1
  <2>2. t[n] = IF PageOf[n - 1] = p THEN Append(t[n - 1], n - 1) ELSE t[n - 1]
    BY <1>5, <2>1
  <2> HIDE DEF X, Is
  <2> QED BY <1>2, <1>7, <2>1, <2>2
<1>8. Lists(t[N], p)
  <2> HIDE DEF Is
  <2> QED BY <1>6, <1>7, Collected DEF N
<1> QED
  <2> HIDE DEF Is
  <2> QED BY <1>3, <1>5, <1>8

LEMMA SortedLists ==
    ASSUME NEW p \in Pages
    PROVE  Lists(Sorted[p], p)
<1> DEFINE N == Cardinality(Fields)
           X == Seq(Fields)
           Is(t) == t = [n \in 0..N |-> IF n = 0 THEN <<>>
                                        ELSE IF PageOf[n - 1] = p THEN Insert_Field_By_Position(t[n - 1], n - 1) ELSE t[n - 1]]
           h == [x \in (1..N) \X X |-> IF PageOf[x[1] - 1] = p THEN Insert_Field_By_Position(x[2], x[1] - 1) ELSE x[2]]
<1>1. N \in Nat /\ Fields = 0..(N - 1) /\ <<>> \in X
  BY FieldsAssumption
<1>2. ASSUME NEW s \in X, NEW f \in Fields
      PROVE  Insert_Field_By_Position(s, f) \in X /\ ToSet(Insert_Field_By_Position(s, f)) = ToSet(s) \cup {f}
  <2> DEFINE S == {k \in 1..Len(s) : ~Ahead(s[k], f)}
             i == FirstIn(S, Len(s) + 1)
  <2>1. S \subseteq Nat /\ S \subseteq 1..Len(s) /\ Len(s) \in Nat
    OBVIOUS
  <2>2. Insert_Field_By_Position(s, f) = InsertAt(s, i, f)
    BY DEF Insert_Field_By_Position
  <2> HIDE DEF S
  <2>3. i \in S \cup {Len(s) + 1}
    BY <2>1, FirstInIs
  <2> HIDE DEF i
  <2>4. i \in 1..(Len(s) + 1)
    BY <2>1, <2>3
  <2>5. s \in Seq(Fields) /\ f \in Fields
    OBVIOUS
  <2>6. /\ InsertAt(s, i, f) \in Seq(Fields)
        /\ ToSet(InsertAt(s, i, f)) = ToSet(s) \cup {f}
    BY ONLY <2>4, <2>5, PutIn
  <2> QED BY ONLY <2>2, <2>6
<1>3. Sorted[p] = (CHOOSE t : Is(t))[N]
  BY DEF Sorted, Collect
<1> HIDE DEF N
<1>4. \E t : Is(t)
  <2>1. h \in [(1..N) \X X -> X]
    <3>1. \A n \in 1..N : n - 1 \in Fields
      BY <1>1
    <3> HIDE DEF X
    <3> QED BY <1>2, <3>1
  <2>2. PICK t : Stepwise(t, N, X, <<>>, h)
    <3> HIDE DEF h, X
    <3> QED BY ONLY <1>1, <2>1, Iterates
  <2>3. t \in [0..N -> X] /\ t[0] = <<>>
    BY <2>2 DEF Stepwise
  <2>4. ASSUME NEW n \in 0..N, n # 0
        PROVE  t[n] = IF PageOf[n - 1] = p THEN Insert_Field_By_Position(t[n - 1], n - 1) ELSE t[n - 1]
    <3>1. n \in 1..N /\ n - 1 \in 0..N
      BY <1>1, <2>4
    <3>2. t[n - 1] \in X
      BY <2>3, <3>1
    <3>3. <<n, t[n - 1]>> \in (1..N) \X X
      BY <3>1, <3>2
    <3>4. t[n] = h[<<n, t[n - 1]>>]
      BY <2>2, <3>1 DEF Stepwise
    <3> HIDE DEF X
    <3> QED BY <3>3, <3>4
  <2>5. t = [n \in 0..N |-> t[n]]
    BY <2>3
  <2>6. Is(t)
    BY ONLY <2>3, <2>4, <2>5
  <2> HIDE DEF Is
  <2> QED BY <2>6
<1>5. PICK t : Is(t) /\ t = CHOOSE u : Is(u)
  <2> HIDE DEF Is
  <2> QED BY <1>4
<1>6. t[0] = <<>>
  BY <1>1, <1>5
<1>7. ASSUME NEW n \in 1..N, t[n - 1] \in X
      PROVE  /\ t[n] \in X
             /\ ToSet(t[n]) = IF PageOf[n - 1] = p THEN ToSet(t[n - 1]) \cup {n - 1} ELSE ToSet(t[n - 1])
  <2>1. n \in 0..N /\ n # 0 /\ n - 1 \in Fields
    BY <1>1
  <2>2. t[n] = IF PageOf[n - 1] = p THEN Insert_Field_By_Position(t[n - 1], n - 1) ELSE t[n - 1]
    BY <1>5, <2>1
  <2> HIDE DEF X, Is
  <2> QED BY <1>2, <1>7, <2>1, <2>2
<1>8. Lists(t[N], p)
  <2> HIDE DEF Is
  <2> QED BY <1>6, <1>7, Collected DEF N
<1> QED
  <2> HIDE DEF Is
  <2> QED BY <1>3, <1>5, <1>8

LEMMA ReverseLists ==
    ASSUME NEW p, NEW order, Lists(order, p)
    PROVE  Lists(Reverse(order), p)
<1> DEFINE n == Len(order)
           r == Reverse(order)
<1>1. n \in Nat /\ order \in Seq(Fields) /\ ToSet(order) = {order[i] : i \in 1..n}
  BY DEF Lists, ToSet
<1>2. r = [i \in 1..n |-> order[(n - i) + 1]]
  BY DEF Reverse
<1> HIDE DEF n, r
<1>3. \A i \in 1..n : (n - i) + 1 \in 1..n /\ (n - ((n - i) + 1)) + 1 = i
  BY <1>1
<1>4. r \in Seq(Fields) /\ Len(r) = n /\ DOMAIN r = 1..n
  <2>1. \A i \in 1..n : order[(n - i) + 1] \in Fields
    BY <1>1, <1>3 DEF n
  <2> QED BY <1>1, <1>2, <2>1
<1>5. ToSet(r) = ToSet(order)
  <2>1. ToSet(r) = {order[(n - i) + 1] : i \in 1..n}
    BY <1>2, <1>4 DEF ToSet
  <2> QED BY <1>1, <1>3, <2>1
<1> QED BY <1>4, <1>5 DEF Lists, r
-----------------------------------------------------------------------------
(* Where the walks end.                                                      *)

LEMMA SortedNextIs ==
    ASSUME Visitable, NEW p \in Pages, NEW f \in Fields, PageOf[f] = p
    PROVE  /\ Sorted_Next_Field(f) \in OnIt(p) /\ Sorted_Previous_Field(f) \in OnIt(p)
           /\ Next_Field_On_Page(f) \in OnIt(p) /\ Previous_Field_On_Page(f) \in OnIt(p)
<1>1. Lists(OnPage[p], p) /\ Lists(Sorted[p], p)
  BY OnPageLists, SortedLists
<1>2. Lists(Reverse(OnPage[p]), p) /\ Lists(Reverse(Sorted[p]), p)
  BY <1>1, ReverseLists
<1> QED BY <1>1, <1>2, NextIs DEF Sorted_Next_Field, Sorted_Previous_Field, Next_Field_On_Page,
             Previous_Field_On_Page

(* A walk that is taken in one way exists, and its end is where its steps    *)
(* lead.                                                                     *)
Taken(t, N, X, x, h) == t \in [0..N -> X] /\ t[0] = x /\ \A n \in 1..N : t[n] = h[t[n - 1]]
LEMMA WalkExists ==
    ASSUME NEW X, NEW N \in Nat, NEW x \in X, NEW h, h \in [X -> X]
    PROVE  \E t : Taken(t, N, X, x, h)
<1> DEFINE k == [m \in (1..N) \X X |-> h[m[2]]]
<1>1. k \in [(1..N) \X X -> X]
  OBVIOUS
<1>2. PICK t : Stepwise(t, N, X, x, k)
  <2> HIDE DEF k
  <2> QED BY <1>1, Iterates
<1>3. \A n \in 1..N : n - 1 \in 0..N
  OBVIOUS
<1>4. \A n \in 1..N : <<n, t[n - 1]>> \in (1..N) \X X
  BY <1>2, <1>3 DEF Stepwise
<1>5. \A n \in 1..N : k[<<n, t[n - 1]>>] = h[t[n - 1]]
  BY <1>4
<1> QED BY <1>2, <1>5 DEF Stepwise, Taken

LEMMA RightIs ==
    ASSUME Visitable, NEW p \in Pages, NEW f \in Fields, PageOf[f] = p
    PROVE  Right_Neighbor_Field(f) \in OnIt(p)
<1> DEFINE N == Cardinality(Fields)
           X == OnIt(p)
           step(g) == Sorted_Next_Field(g)
           stop(g) == SameLine(f, g)
           Is(t) == t = [n \in 0..N |-> IF n = 0 THEN step(f)
                                        ELSE IF stop(t[n - 1]) THEN t[n - 1] ELSE step(t[n - 1])]
           h == [g \in X |-> IF stop(g) THEN g ELSE step(g)]
<1>1. N \in Nat
  BY FieldsAssumption
<1>2. step(f) \in X /\ \A g \in X : step(g) \in X
  BY SortedNextIs DEF OnIt, Visitable
<1>3. Right_Neighbor_Field(f) = (CHOOSE t : Is(t))[N]
  BY DEF Right_Neighbor_Field, Walk
<1> HIDE DEF N, X, step, stop
<1>4. \E t : Is(t)
  <2>1. h \in [X -> X]
    BY <1>2
  <2>2. PICK t : t \in [0..N -> X] /\ t[0] = step(f) /\ \A n \in 1..N : t[n] = h[t[n - 1]]
    <3> DEFINE x == step(f)
    <3>1. x \in X
      BY <1>2
    <3> HIDE DEF h, x
    <3>2. \E t : Taken(t, N, X, x, h)
      BY ONLY <1>1, <2>1, <3>1, WalkExists
    <3> QED BY <3>2 DEF x, Taken
  <2>3. \A n \in 1..N : n - 1 \in 0..N
    BY <1>1
  <2>4. ASSUME NEW n \in 0..N, n # 0
        PROVE  t[n] = IF stop(t[n - 1]) THEN t[n - 1] ELSE step(t[n - 1])
    <3>1. n \in 1..N
      BY <1>1, <2>4
    <3> QED BY <2>2, <2>3, <3>1
  <2>5. t = [n \in 0..N |-> t[n]] /\ t[0] = step(f)
    BY <2>2
  <2>6. Is(t)
    BY ONLY <2>4, <2>5
  <2> HIDE DEF Is
  <2> QED BY <2>6
<1>5. PICK t : Is(t) /\ t = CHOOSE u : Is(u)
  BY <1>4
<1>6. t[0] = step(f) /\ \A n \in 1..N : t[n] = IF stop(t[n - 1]) THEN t[n - 1] ELSE step(t[n - 1])
  BY <1>1, <1>5
<1>7. \A n \in 0..N : t[n] \in X
  BY <1>1, <1>2, <1>6, StaysIn
<1>8. t[N] \in X
  BY <1>1, <1>7
<1>9. Right_Neighbor_Field(f) \in X
  <2> HIDE DEF Is
  <2> QED BY <1>3, <1>5, <1>8
<1> QED BY <1>9 DEF X

LEMMA LeftIs ==
    ASSUME Visitable, NEW p \in Pages, NEW f \in Fields, PageOf[f] = p
    PROVE  Left_Neighbor_Field(f) \in OnIt(p)
<1> DEFINE N == Cardinality(Fields)
           X == OnIt(p)
           step(g) == Sorted_Previous_Field(g)
           stop(g) == SameLine(f, g)
           Is(t) == t = [n \in 0..N |-> IF n = 0 THEN step(f)
                                        ELSE IF stop(t[n - 1]) THEN t[n - 1] ELSE step(t[n - 1])]
           h == [g \in X |-> IF stop(g) THEN g ELSE step(g)]
<1>1. N \in Nat
  BY FieldsAssumption
<1>2. step(f) \in X /\ \A g \in X : step(g) \in X
  BY SortedNextIs DEF OnIt, Visitable
<1>3. Left_Neighbor_Field(f) = (CHOOSE t : Is(t))[N]
  BY DEF Left_Neighbor_Field, Walk
<1> HIDE DEF N, X, step, stop
<1>4. \E t : Is(t)
  <2>1. h \in [X -> X]
    BY <1>2
  <2>2. PICK t : t \in [0..N -> X] /\ t[0] = step(f) /\ \A n \in 1..N : t[n] = h[t[n - 1]]
    <3> DEFINE x == step(f)
    <3>1. x \in X
      BY <1>2
    <3> HIDE DEF h, x
    <3>2. \E t : Taken(t, N, X, x, h)
      BY ONLY <1>1, <2>1, <3>1, WalkExists
    <3> QED BY <3>2 DEF x, Taken
  <2>3. \A n \in 1..N : n - 1 \in 0..N
    BY <1>1
  <2>4. ASSUME NEW n \in 0..N, n # 0
        PROVE  t[n] = IF stop(t[n - 1]) THEN t[n - 1] ELSE step(t[n - 1])
    <3>1. n \in 1..N
      BY <1>1, <2>4
    <3> QED BY <2>2, <2>3, <3>1
  <2>5. t = [n \in 0..N |-> t[n]] /\ t[0] = step(f)
    BY <2>2
  <2>6. Is(t)
    BY ONLY <2>4, <2>5
  <2> HIDE DEF Is
  <2> QED BY <2>6
<1>5. PICK t : Is(t) /\ t = CHOOSE u : Is(u)
  BY <1>4
<1>6. t[0] = step(f) /\ \A n \in 1..N : t[n] = IF stop(t[n - 1]) THEN t[n - 1] ELSE step(t[n - 1])
  BY <1>1, <1>5
<1>7. \A n \in 0..N : t[n] \in X
  BY <1>1, <1>2, <1>6, StaysIn
<1>8. t[N] \in X
  BY <1>1, <1>7
<1>9. Left_Neighbor_Field(f) \in X
  <2> HIDE DEF Is
  <2> QED BY <1>3, <1>5, <1>8
<1> QED BY <1>9 DEF X

LEMMA UpperIs ==
    ASSUME Visitable, NEW p \in Pages, NEW f \in Fields, PageOf[f] = p
    PROVE  Upper_Neighbor_Field(f) \in OnIt(p)
<1> DEFINE N == Cardinality(Fields)
           X == OnIt(p)
           step(g) == Sorted_Previous_Field(g)
           stop(g) == ~SameLine(f, g) \/ Place[f] = Place[g]
           Is(t) == t = [n \in 0..N |-> IF n = 0 THEN step(f)
                                        ELSE IF stop(t[n - 1]) THEN t[n - 1] ELSE step(t[n - 1])]
           h == [g \in X |-> IF stop(g) THEN g ELSE step(g)]
           there == (CHOOSE t : Is(t))[N]
           on(g) == IF SameLine(g, there) /\ Place[g][2] > Place[f][2] THEN step(g) ELSE g
           Was(t) == t = [n \in 0..N |-> IF n = 0 THEN on(there)
                                         ELSE IF FALSE THEN t[n - 1] ELSE on(t[n - 1])]
           k == [g \in X |-> on(g)]
           along == (CHOOSE t : Was(t))[N]
<1>1. N \in Nat
  BY FieldsAssumption
<1>2. step(f) \in X /\ \A g \in X : step(g) \in X /\ Sorted_Next_Field(g) \in X
  BY SortedNextIs DEF OnIt, Visitable
<1>3. Upper_Neighbor_Field(f) =
          IF SameLine(f, there) THEN there
          ELSE IF SameLine(along, there) THEN along ELSE Sorted_Next_Field(along)
  BY DEF Upper_Neighbor_Field, Neighbor, Walk
<1> HIDE DEF N, X, step, stop
<1>4. there \in X
  <2> HIDE DEF there
  <2>1. h \in [X -> X]
    BY <1>2
  <2>2. PICK t : t \in [0..N -> X] /\ t[0] = step(f) /\ \A n \in 1..N : t[n] = h[t[n - 1]]
    <3> DEFINE x == step(f)
    <3>1. x \in X
      BY <1>2
    <3> HIDE DEF h, x
    <3>2. \E t : Taken(t, N, X, x, h)
      BY ONLY <1>1, <2>1, <3>1, WalkExists
    <3> QED BY <3>2 DEF x, Taken
  <2>3. \A n \in 1..N : n - 1 \in 0..N
    BY <1>1
  <2>4. ASSUME NEW n \in 0..N, n # 0
        PROVE  t[n] = IF stop(t[n - 1]) THEN t[n - 1] ELSE step(t[n - 1])
    <3>1. n \in 1..N
      BY <1>1, <2>4
    <3> QED BY <2>2, <2>3, <3>1
  <2>5. t = [n \in 0..N |-> t[n]]
    BY <2>2
  <2>6. Is(t)
    BY <2>2, <2>4, <2>5
  <2>7. PICK u : Is(u) /\ u = CHOOSE v : Is(v)
    BY <2>6
  <2>8. u[0] = step(f) /\ \A n \in 1..N : u[n] = IF stop(u[n - 1]) THEN u[n - 1] ELSE step(u[n - 1])
    BY <1>1, <2>7
  <2>9. \A n \in 0..N : u[n] \in X
    BY <1>1, <1>2, <2>8, StaysIn
  <2>10. u[N] \in X
    BY <1>1, <2>9
  <2> HIDE DEF Is
  <2> QED BY <2>7, <2>10 DEF there
<1> HIDE DEF there, on
<1>5. on(there) \in X /\ \A g \in X : on(g) \in X
  BY <1>2, <1>4 DEF on
<1>6. along \in X
  <2> HIDE DEF along
  <2>1. k \in [X -> X]
    BY <1>5
  <2>2. PICK t : t \in [0..N -> X] /\ t[0] = on(there) /\ \A n \in 1..N : t[n] = k[t[n - 1]]
    <3> DEFINE x == on(there)
    <3>1. x \in X
      BY <1>5
    <3> HIDE DEF k, x
    <3>2. \E t : Taken(t, N, X, x, k)
      BY ONLY <1>1, <2>1, <3>1, WalkExists
    <3> QED BY <3>2 DEF x, Taken
  <2>3. \A n \in 1..N : n - 1 \in 0..N
    BY <1>1
  <2>4. ASSUME NEW n \in 0..N, n # 0
        PROVE  t[n] = on(t[n - 1])
    <3>1. n \in 1..N
      BY <1>1, <2>4
    <3> QED BY <2>2, <2>3, <3>1
  <2>5. t = [n \in 0..N |-> t[n]]
    BY <2>2
  <2>6. Was(t)
    BY <2>2, <2>4, <2>5
  <2>7. PICK u : Was(u) /\ u = CHOOSE v : Was(v)
    BY <2>6
  <2>8. u[0] = on(there) /\ \A n \in 1..N : u[n] = on(u[n - 1])
    BY <1>1, <2>7
  <2>9. \A n \in 0..N : u[n] \in X
    BY <1>1, <1>5, <2>8, StaysIn
  <2>10. u[N] \in X
    BY <1>1, <2>9
  <2> HIDE DEF Was
  <2> QED BY <2>7, <2>10 DEF along
<1> HIDE DEF along
<1>7. Upper_Neighbor_Field(f) \in X
  BY <1>2, <1>3, <1>4, <1>6
<1> QED BY <1>7 DEF X

LEMMA DownIs ==
    ASSUME Visitable, NEW p \in Pages, NEW f \in Fields, PageOf[f] = p
    PROVE  Down_Neighbor_Field(f) \in OnIt(p)
<1> DEFINE N == Cardinality(Fields)
           X == OnIt(p)
           step(g) == Sorted_Next_Field(g)
           stop(g) == ~SameLine(f, g) \/ Place[f] = Place[g]
           Is(t) == t = [n \in 0..N |-> IF n = 0 THEN step(f)
                                        ELSE IF stop(t[n - 1]) THEN t[n - 1] ELSE step(t[n - 1])]
           h == [g \in X |-> IF stop(g) THEN g ELSE step(g)]
           there == (CHOOSE t : Is(t))[N]
           on(g) == IF SameLine(g, there) /\ Place[g][2] < Place[f][2] THEN step(g) ELSE g
           Was(t) == t = [n \in 0..N |-> IF n = 0 THEN on(there)
                                         ELSE IF FALSE THEN t[n - 1] ELSE on(t[n - 1])]
           k == [g \in X |-> on(g)]
           along == (CHOOSE t : Was(t))[N]
<1>1. N \in Nat
  BY FieldsAssumption
<1>2. step(f) \in X /\ \A g \in X : step(g) \in X /\ Sorted_Previous_Field(g) \in X
  BY SortedNextIs DEF OnIt, Visitable
<1>3. Down_Neighbor_Field(f) =
          IF SameLine(f, there) THEN there
          ELSE IF SameLine(along, there) THEN along ELSE Sorted_Previous_Field(along)
  BY DEF Down_Neighbor_Field, Neighbor, Walk
<1> HIDE DEF N, X, step, stop
<1>4. there \in X
  <2> HIDE DEF there
  <2>1. h \in [X -> X]
    BY <1>2
  <2>2. PICK t : t \in [0..N -> X] /\ t[0] = step(f) /\ \A n \in 1..N : t[n] = h[t[n - 1]]
    <3> DEFINE x == step(f)
    <3>1. x \in X
      BY <1>2
    <3> HIDE DEF h, x
    <3>2. \E t : Taken(t, N, X, x, h)
      BY ONLY <1>1, <2>1, <3>1, WalkExists
    <3> QED BY <3>2 DEF x, Taken
  <2>3. \A n \in 1..N : n - 1 \in 0..N
    BY <1>1
  <2>4. ASSUME NEW n \in 0..N, n # 0
        PROVE  t[n] = IF stop(t[n - 1]) THEN t[n - 1] ELSE step(t[n - 1])
    <3>1. n \in 1..N
      BY <1>1, <2>4
    <3> QED BY <2>2, <2>3, <3>1
  <2>5. t = [n \in 0..N |-> t[n]]
    BY <2>2
  <2>6. Is(t)
    BY <2>2, <2>4, <2>5
  <2>7. PICK u : Is(u) /\ u = CHOOSE v : Is(v)
    BY <2>6
  <2>8. u[0] = step(f) /\ \A n \in 1..N : u[n] = IF stop(u[n - 1]) THEN u[n - 1] ELSE step(u[n - 1])
    BY <1>1, <2>7
  <2>9. \A n \in 0..N : u[n] \in X
    BY <1>1, <1>2, <2>8, StaysIn
  <2>10. u[N] \in X
    BY <1>1, <2>9
  <2> HIDE DEF Is
  <2> QED BY <2>7, <2>10 DEF there
<1> HIDE DEF there, on
<1>5. on(there) \in X /\ \A g \in X : on(g) \in X
  BY <1>2, <1>4 DEF on
<1>6. along \in X
  <2> HIDE DEF along
  <2>1. k \in [X -> X]
    BY <1>5
  <2>2. PICK t : t \in [0..N -> X] /\ t[0] = on(there) /\ \A n \in 1..N : t[n] = k[t[n - 1]]
    <3> DEFINE x == on(there)
    <3>1. x \in X
      BY <1>5
    <3> HIDE DEF k, x
    <3>2. \E t : Taken(t, N, X, x, k)
      BY ONLY <1>1, <2>1, <3>1, WalkExists
    <3> QED BY <3>2 DEF x, Taken
  <2>3. \A n \in 1..N : n - 1 \in 0..N
    BY <1>1
  <2>4. ASSUME NEW n \in 0..N, n # 0
        PROVE  t[n] = on(t[n - 1])
    <3>1. n \in 1..N
      BY <1>1, <2>4
    <3> QED BY <2>2, <2>3, <3>1
  <2>5. t = [n \in 0..N |-> t[n]]
    BY <2>2
  <2>6. Was(t)
    BY <2>2, <2>4, <2>5
  <2>7. PICK u : Was(u) /\ u = CHOOSE v : Was(v)
    BY <2>6
  <2>8. u[0] = on(there) /\ \A n \in 1..N : u[n] = on(u[n - 1])
    BY <1>1, <2>7
  <2>9. \A n \in 0..N : u[n] \in X
    BY <1>1, <1>5, <2>8, StaysIn
  <2>10. u[N] \in X
    BY <1>1, <2>9
  <2> HIDE DEF Was
  <2> QED BY <2>7, <2>10 DEF along
<1> HIDE DEF along
<1>7. Down_Neighbor_Field(f) \in X
  BY <1>2, <1>3, <1>4, <1>6
<1> QED BY <1>7 DEF X

LEMMA EndsAre ==
    ASSUME Visitable, NEW p \in Pages
    PROVE  /\ First_Field(p) \in OnIt(p) /\ Last_Field(p) \in OnIt(p)
           /\ Sorted_Next_Field(Last(Sorted[p])) \in OnIt(p)
           /\ Sorted_Previous_Field(Head(Sorted[p])) \in OnIt(p)
<1>1. ASSUME NEW order, Lists(order, p)
      PROVE  /\ Last(order) \in Fields /\ PageOf[Last(order)] = p
             /\ Head(order) \in Fields /\ PageOf[Head(order)] = p
  <2>1. Len(order) \in Nat /\ order \in Seq(Fields) /\ ToSet(order) = {order[i] : i \in 1..Len(order)}
    BY <1>1 DEF Lists, ToSet
  <2>2. \A x \in Fields : PageOf[x] = p <=> \E k \in 1..Len(order) : order[k] = x
    BY <1>1, <2>1 DEF Lists
  <2>3. \E x \in Fields : PageOf[x] = p
    BY DEF Pages
  <2>4. 1 \in 1..Len(order) /\ Len(order) \in 1..Len(order)
    BY <2>1, <2>2, <2>3
  <2>5. Last(order) = order[Len(order)] /\ Head(order) = order[1]
    BY <2>1, <2>4 DEF Last
  <2> QED BY <2>1, <2>2, <2>4, <2>5
<1>2. Lists(OnPage[p], p) /\ Lists(Sorted[p], p)
  BY OnPageLists, SortedLists
<1>3. \A f \in Fields : PageOf[f] = p =>
          /\ Sorted_Next_Field(f) \in OnIt(p) /\ Sorted_Previous_Field(f) \in OnIt(p)
          /\ Next_Field_On_Page(f) \in OnIt(p) /\ Previous_Field_On_Page(f) \in OnIt(p)
  BY SortedNextIs
<1> QED BY <1>1, <1>2, <1>3 DEF First_Field, Last_Field

(* Every request leads to a field of the page that may be visited.           *)
LEMMA TargetIs ==
    ASSUME Visitable, NEW request \in FieldRequests, NEW f \in Fields
    PROVE  Target(request, f) \in OnIt(PageOf[f])
<1> DEFINE p == PageOf[f]
<1>1. p \in Pages
  BY PagesAre
<1> HIDE DEF p
<1>2. /\ Sorted_Next_Field(f) \in OnIt(p) /\ Sorted_Previous_Field(f) \in OnIt(p)
      /\ Next_Field_On_Page(f) \in OnIt(p) /\ Previous_Field_On_Page(f) \in OnIt(p)
  BY <1>1, SortedNextIs DEF p
<1>3. /\ First_Field(p) \in OnIt(p) /\ Last_Field(p) \in OnIt(p)
      /\ Sorted_Next_Field(Last(Sorted[p])) \in OnIt(p)
      /\ Sorted_Previous_Field(Head(Sorted[p])) \in OnIt(p)
  BY <1>1, EndsAre
<1>4. /\ Left_Neighbor_Field(f) \in OnIt(p) /\ Right_Neighbor_Field(f) \in OnIt(p)
      /\ Upper_Neighbor_Field(f) \in OnIt(p) /\ Down_Neighbor_Field(f) \in OnIt(p)
  BY <1>1, LeftIs, RightIs, UpperIs, DownIs DEF p
<1> QED BY <1>2, <1>3, <1>4 DEF Target, FieldRequests, p
-----------------------------------------------------------------------------
(* What is cut from texts and put into them are texts.                       *)

LEMMA Pieces ==
    ASSUME NEW text \in Texts, NEW b \in Nat, NEW n \in Nat, b + n <= Len(text)
    PROVE  SubSeq(text, b + 1, b + n) \in Texts /\ Len(SubSeq(text, b + 1, b + n)) = n
<1>1. Len(text) \in Nat /\ \A i \in 1..Len(text) : text[i] \in Chars
  BY DEF Texts
<1>2. SubSeq(text, b + 1, b + n) = [i \in 1..n |-> text[i + b]]
  <2>1. SubSeq(text, b + 1, b + n) = [i \in 1..((b + n) - (b + 1) + 1) |-> text[i + (b + 1) - 1]]
    OBVIOUS
  <2>2. (b + n) - (b + 1) + 1 = n /\ \A i \in 1..n : i + (b + 1) - 1 = i + b
    OBVIOUS
  <2> QED BY <2>1, <2>2
<1>3. \A i \in 1..n : i + b \in 1..Len(text)
  BY <1>1
<1>4. \A i \in 1..n : text[i + b] \in Chars
  BY <1>1, <1>3
<1> QED BY <1>2, <1>4 DEF Texts

LEMMA Prefix ==
    ASSUME NEW text \in Texts, NEW n \in 0..Len(text)
    PROVE  /\ SubSeq(text, 1, n) \in Texts /\ Len(SubSeq(text, 1, n)) = n
           /\ n = Len(text) => SubSeq(text, 1, n) = text
<1>1. Len(text) \in Nat /\ n \in Nat /\ 0 + n <= Len(text) /\ 0 + 1 = 1 /\ 0 + n = n
  BY DEF Texts
<1>2. SubSeq(text, 1, n) \in Texts /\ Len(SubSeq(text, 1, n)) = n
  <2> DEFINE b == 0
  <2>1. b \in Nat /\ n \in Nat /\ b + n <= Len(text)
    BY <1>1
  <2> HIDE DEF b
  <2>2. SubSeq(text, b + 1, b + n) \in Texts /\ Len(SubSeq(text, b + 1, b + n)) = n
    BY ONLY <2>1, Pieces, text \in Texts
  <2> QED BY <1>1, <2>2 DEF b
<1>3. n = Len(text) => SubSeq(text, 1, n) = text
  BY <1>1 DEF Texts
<1> QED BY <1>2, <1>3

LEMMA BlanksAre ==
    ASSUME NEW n \in Nat
    PROVE  /\ Blanks(n) \in Texts /\ Len(Blanks(n)) = n
           /\ \A i \in 1..n : Blanks(n)[i] = blank
BY DEF Blanks, Texts, Chars

LEMMA Joined ==
    ASSUME NEW s \in Texts, NEW t \in Texts
    PROVE  s \o t \in Texts /\ Len(s \o t) = Len(s) + Len(t)
BY DEF Texts

LEMMA EditsAre ==
    ASSUME NEW text \in Texts, NEW col \in 0..(Len(text) - 1), NEW ch \in Chars
    PROVE  /\ ClearFrom(text, col) \in Texts /\ Len(ClearFrom(text, col)) = Len(text)
           /\ Overlaid(text, col, ch) \in Texts /\ Len(Overlaid(text, col, ch)) = Len(text)
           /\ Inserted(text, col, ch) \in Texts /\ Len(Inserted(text, col, ch)) = Len(text)
           /\ Deleted(text, col) \in Texts /\ Len(Deleted(text, col)) = Len(text)
<1> DEFINE n == Len(text)
<1>1. n \in Nat /\ text \in Seq(Chars) /\ blank \in Chars /\ \A i \in 1..n : text[i] \in Chars
  BY DEF Texts, Chars
<1>2. ClearFrom(text, col) \in Texts /\ Len(ClearFrom(text, col)) = n
  BY <1>1 DEF ClearFrom, Texts
<1>3. Overlaid(text, col, ch) \in Texts /\ Len(Overlaid(text, col, ch)) = n
  BY <1>1 DEF Overlaid, Texts
<1>4. SubSeq(text, 1, col) \in Texts /\ Len(SubSeq(text, 1, col)) = col
  BY <1>1, Prefix
<1>5. /\ SubSeq(text, (col + 1), n) \in Texts /\ Len(SubSeq(text, (col + 1), n)) = n - col
      /\ SubSeq(text, (col + 1) + 1, n) \in Texts /\ Len(SubSeq(text, (col + 1) + 1, n)) = n - (col + 1)
  <2>1. col \in Nat /\ n - col \in Nat /\ col + (n - col) = n
    BY <1>1
  <2>2. col + 1 \in Nat /\ n - (col + 1) \in Nat /\ (col + 1) + (n - (col + 1)) = n
    BY <1>1
  <2>3. SubSeq(text, col + 1, col + (n - col)) \in Texts /\ Len(SubSeq(text, col + 1, col + (n - col))) = n - col
    <3> DEFINE m == n - col
    <3>1. col \in Nat /\ m \in Nat /\ col + m <= Len(text)
      BY <1>1, <2>1
    <3> HIDE DEF m
    <3>2. SubSeq(text, col + 1, col + m) \in Texts /\ Len(SubSeq(text, col + 1, col + m)) = m
      BY ONLY <3>1, Pieces, text \in Texts
    <3> QED BY <3>2 DEF m
  <2>4. /\ SubSeq(text, (col + 1) + 1, (col + 1) + (n - (col + 1))) \in Texts
        /\ Len(SubSeq(text, (col + 1) + 1, (col + 1) + (n - (col + 1)))) = n - (col + 1)
    <3> DEFINE c == col + 1
               m == n - (col + 1)
    <3>1. c \in Nat /\ m \in Nat /\ c + m <= Len(text)
      BY <1>1, <2>2
    <3> HIDE DEF c, m
    <3>2. SubSeq(text, c + 1, c + m) \in Texts /\ Len(SubSeq(text, c + 1, c + m)) = m
      BY ONLY <3>1, Pieces, text \in Texts
    <3> QED BY <3>2 DEF c, m
  <2> QED BY <2>1, <2>2, <2>3, <2>4
<1>6. <<ch>> \in Texts /\ Len(<<ch>>) = 1
  BY DEF Texts
<1> HIDE DEF n
<1>7. Inserted(text, col, ch) \in Texts /\ Len(Inserted(text, col, ch)) = n
  <2> DEFINE a == SubSeq(text, 1, col)
             b == SubSeq(text, col + 1, n)
  <2>1. (col + 1) - 1 = col
    BY <1>1 DEF n
  <2>2. InsertAt(text, col + 1, ch) = (a \o <<ch>>) \o b
    BY <2>1 DEF InsertAt, n
  <2> HIDE DEF a, b
  <2>3. a \o <<ch>> \in Texts /\ Len(a \o <<ch>>) = col + 1
    BY <1>4, <1>6, Joined DEF a
  <2>4. (a \o <<ch>>) \o b \in Texts /\ Len((a \o <<ch>>) \o b) = (col + 1) + (n - col)
    BY <1>5, <2>3, Joined DEF b
  <2>5. n \in 0..((col + 1) + (n - col))
    BY <1>1 DEF n
  <2> DEFINE c == (a \o <<ch>>) \o b
  <2>6. c \in Texts /\ n \in 0..Len(c)
    BY <2>4, <2>5
  <2>7. Inserted(text, col, ch) = SubSeq(c, 1, n)
    BY <2>2 DEF Inserted, n
  <2> HIDE DEF c
  <2> QED BY <2>6, <2>7, Prefix
<1>8. Deleted(text, col) \in Texts /\ Len(Deleted(text, col)) = n
  <2> DEFINE a == SubSeq(text, 1, col)
             b == SubSeq(text, (col + 1) + 1, n)
  <2>1. (col + 1) - 1 = col
    BY <1>1 DEF n
  <2>2. RemoveAt(text, col + 1) = a \o b
    BY <2>1 DEF RemoveAt, n
  <2> HIDE DEF a, b
  <2>3. a \o b \in Texts /\ Len(a \o b) = col + (n - (col + 1))
    BY <1>4, <1>5, Joined DEF a, b
  <2>4. Append(a \o b, blank) \in Texts /\ Len(Append(a \o b, blank)) = (col + (n - (col + 1))) + 1
    <3> DEFINE s == a \o b
    <3>1. s \in Seq(Chars) /\ Len(s) = col + (n - (col + 1))
      BY <2>3 DEF Texts
    <3> HIDE DEF s
    <3> QED BY <1>1, <3>1 DEF Texts, s
  <2>5. (col + (n - (col + 1))) + 1 = n
    BY <1>1 DEF n
  <2> QED BY <2>2, <2>4, <2>5 DEF Deleted
<1> QED BY <1>2, <1>3, <1>7, <1>8 DEF n
-----------------------------------------------------------------------------
(* Forms with an open field.                                                 *)

LEMMA FieldFacts ==
    ASSUME NEW f \in Fields
    PROVE  /\ Owner[f] \in Fields /\ Owner[Owner[f]] = Owner[f] /\ Cols[f] = Cols[Owner[f]]
           /\ Cols[f] \in Nat /\ Cols[f] > 0 /\ MaxGrow[f] \in Nat /\ MaxGrow[f] >= Cols[f]
           /\ PageOf[f] \in Pages
<1>1. Cols[f] \in Nat \ {0} /\ Cols[f] = Cols[Owner[f]] /\ MaxGrow[f] \in Nat /\ MaxGrow[f] >= Cols[f]
  BY FieldsAssumption
<1>2. Owner[f] \in Fields /\ Owner[Owner[f]] = Owner[f]
  BY FieldsAssumption
<1> QED BY <1>1, <1>2, PagesAre

LEMMA BufferIs ==
    ASSUME NEW F \in Forms, NEW f \in Fields
    PROVE  Buffer(F, f) \in Texts /\ Len(Buffer(F, f)) \in Nat
<1>1. F.buf \in [Fields -> Texts]
  BY DEF Forms
<1>2. Buffer(F, f) \in Texts
  BY <1>1, FieldFacts DEF Buffer
<1> QED BY <1>2 DEF Texts

LEMMA FormIs ==
    ASSUME NEW F \in Forms
    PROVE  /\ F.posted \in BOOLEAN /\ F.current \in Fields /\ F.curpage \in Pages \cup {NULL}
           /\ F.curcol \in Nat /\ F.begincol \in Nat /\ F.w \in Texts /\ Len(F.w) \in Nat
           /\ F.modified \in BOOLEAN /\ F.fcheck \in BOOLEAN /\ F.ovlmode \in BOOLEAN
           /\ F.buf \in [Fields -> Texts] /\ F.growable \subseteq Fields
           /\ F.shown \in [Fields -> Texts] /\ F.typed \in BOOLEAN
<1>1. F.w \in Texts
  BY DEF Forms
<1>2. Len(F.w) \in Nat
  BY <1>1 DEF Texts
<1> QED BY <1>1, <1>2 DEF Forms

(* Only a field that has its buffer alone may grow.                          *)
LEMMA GrowsAlone ==
    ASSUME NEW F \in Forms, Buffers(F), NEW f \in F.growable, NEW g \in Fields,
           Owner[g] = Owner[f]
    PROVE  g = f
<1>1. f \in Fields
  BY FormIs
<1>2. Len(Buffer(F, f)) >= Cols[f] /\ Len(Buffer(F, f)) < MaxGrow[f] /\ Len(Buffer(F, f)) \in Nat
  BY <1>1, BufferIs DEF Buffers
<1>3. MaxGrow[f] # Cols[f]
  BY <1>1, <1>2, FieldFacts
<1> QED BY <1>1, <1>3, LinkedAssumption

(* What is said of the buffers and the other fields only depends on them.    *)
LEMMA OpenedAgain ==
    ASSUME Visitable, NEW F, Opened(F), NEW G \in Forms,
           G.current = F.current, G.curpage = F.curpage, G.buf = F.buf, G.growable = F.growable,
           F.typed => G.typed, \A g \in Fields : g # F.current => G.shown[g] = F.shown[g],
           Len(G.w) = Len(F.w), G.curcol \in 0..(Len(G.w) - 1),
           G.begincol \in 0..(Len(G.w) - Cols[G.current]),
           Len(G.w) = Cols[G.current] => G.shown[G.current] = G.w
    PROVE  Opened(G)
<1>1. \A g \in Fields : Buffer(G, g) = Buffer(F, g)
  BY DEF Buffer
<1>2. F \in Forms /\ Buffers(F) /\ Sited(F) /\ OthersShow(F) /\ Len(F.w) = Len(Buffer(F, F.current))
  BY DEF Opened
<1>3. Buffers(G) /\ Sited(G)
  BY <1>1, <1>2 DEF Buffers, Sited
<1>4. F.current \in Fields
  BY <1>2, FormIs
<1>5. OthersShow(G)
  <2>1. Lag(F) \subseteq Lag(G) /\ F.current \in Lag(F)
    BY <1>4 DEF Lag, Linked
  <2>2. ASSUME NEW g \in selectable \ Lag(G), PageOf[g] = G.curpage PROVE Shows(G, g)
    <3>1. g \in selectable \ Lag(F) /\ PageOf[g] = F.curpage /\ g # F.current /\ g \in Fields
      BY <2>1, <2>2 DEF Visitable
    <3>2. Shows(F, g) /\ G.shown[g] = F.shown[g] /\ Buffer(G, g) = Buffer(F, g)
      BY <1>1, <1>2, <3>1 DEF OthersShow
    <3> QED BY <3>2 DEF Shows
  <2> QED BY <2>2 DEF OthersShow
<1>6. Len(G.w) = Len(Buffer(G, G.current))
  BY <1>1, <1>2, <1>4
<1> QED BY <1>3, <1>5, <1>6 DEF Opened

(* What is known of the sizes.                                               *)
LEMMA OpenSizes ==
    ASSUME NEW F, Opened(F)
    PROVE  /\ F \in Forms /\ F.current \in Fields /\ F.w \in Texts
           /\ Len(F.w) \in Nat /\ Len(F.w) = Len(Buffer(F, F.current))
           /\ Cols[F.current] \in Nat /\ 0 < Cols[F.current] /\ Cols[F.current] <= Len(F.w)
           /\ F.curcol \in Nat /\ F.curcol < Len(F.w)
           /\ F.begincol \in Nat /\ F.begincol + Cols[F.current] <= Len(F.w)
           /\ (Len(F.w) > Cols[F.current] <=> Has_Invisible_Parts(F, F.current))
<1>1. F \in Forms /\ Buffers(F) /\ Len(F.w) = Len(Buffer(F, F.current))
  BY DEF Opened
<1>2. F.current \in Fields /\ F.w \in Texts /\ Len(F.w) \in Nat /\ F.curcol \in Nat /\ F.begincol \in Nat
  BY <1>1, FormIs
<1>3. Cols[F.current] \in Nat /\ 0 < Cols[F.current] /\ Cols[F.current] <= Len(F.w)
  BY <1>1, <1>2, FieldFacts DEF Buffers
<1>4. F.curcol \in 0..(Len(F.w) - 1) /\ F.begincol \in 0..(Len(F.w) - Cols[F.current])
  BY DEF Opened
<1> QED BY <1>1, <1>2, <1>3, <1>4 DEF Has_Invisible_Parts

(* _nc_Refresh_Current_Field() puts the cursor in sight.                     *)
LEMMA RefreshIs ==
    ASSUME Visitable, NEW F, Edits(F), NEW R, R = Refresh_Current_Field(F)
    PROVE  /\ InSight(R) /\ R.posted = F.posted /\ R.current = F.current
           /\ R.curpage = F.curpage /\ R.buf = F.buf /\ R.w = F.w
<1> DEFINE f == F.current
           n == Len(F.w)
           b == First_Column(F)
           s == SubSeq(F.w, b + 1, b + Cols[f])
<1>1. /\ F \in Forms /\ f \in Fields /\ F.w \in Texts /\ n \in Nat
      /\ Cols[f] \in Nat /\ 0 < Cols[f] /\ Cols[f] <= n /\ F.curcol \in Nat /\ F.curcol < n
      /\ F.begincol \in Nat /\ F.begincol + Cols[f] <= n
      /\ (n > Cols[f] <=> Has_Invisible_Parts(F, f))
  BY OpenSizes DEF Edits
<1>2. CASE n = Cols[f]
  <2>1. R = F
    BY <1>1, <1>2 DEF Refresh_Current_Field
  <2>2. F.begincol = 0
    BY <1>1, <1>2
  <2>3. F.shown[f] = F.w
    BY <1>2 DEF Edits, Opened
  <2>4. SubSeq(F.w, 1, Cols[f]) = F.w
    BY <1>1, <1>2, Prefix
  <2>5. F.shown[f] = Part(F.w, F.begincol, f)
    BY <1>1, <2>2, <2>3, <2>4 DEF Part
  <2>6. F.curcol \in F.begincol..(F.begincol + Cols[f] - 1)
    BY <1>1, <1>2, <2>2
  <2> QED BY <2>1, <2>5, <2>6 DEF InSight
<1>3. CASE n > Cols[f]
  <2>1. b \in Nat /\ b + Cols[f] <= n /\ F.curcol \in b..(b + Cols[f] - 1)
    <3> DEFINE c == F.curcol
               d == F.begincol
               k == Cols[f]
    <3>1. b = IF c < d THEN c ELSE IF c >= d + k THEN c - k + 1 ELSE d
      BY DEF First_Column
    <3>2. c \in Nat /\ d \in Nat /\ k \in Nat /\ 0 < k /\ k <= n /\ c < n /\ d + k <= n
      BY <1>1
    <3> HIDE DEF c, d, k, b, n
    <3>3. b \in Nat /\ b + k <= n /\ c \in b..(b + k - 1)
      BY ONLY <3>1, <3>2, <1>1
    <3> QED BY <3>3 DEF c, k
  <2>2. s \in Texts
    BY <1>1, <2>1, Pieces
  <2>3. R = [F EXCEPT !.begincol = b, !.shown[f] = s]
    BY <1>1, <1>3 DEF Refresh_Current_Field
  <2> HIDE DEF b, s, n
  <2>4. /\ R.posted = F.posted /\ R.current = f /\ R.curpage = F.curpage /\ R.curcol = F.curcol
        /\ R.begincol = b /\ R.w = F.w /\ R.modified = F.modified /\ R.fcheck = F.fcheck
        /\ R.buf = F.buf /\ R.growable = F.growable /\ R.typed = F.typed /\ R.ovlmode = F.ovlmode
        /\ R.shown = [F.shown EXCEPT ![f] = s]
    BY <1>1, <2>3 DEF Forms
  <2>5. R \in Forms
    <3> DEFINE sh == [F.shown EXCEPT ![f] = s]
    <3>1. sh \in [Fields -> Texts]
      BY <1>1, <2>2, FormIs
    <3>2. R = [F EXCEPT !.begincol = b, !.shown = sh]
      BY <1>1, <2>3 DEF Forms
    <3> HIDE DEF sh
    <3> QED BY <1>1, <2>1, <3>1, <3>2 DEF Forms
  <2>6. R.shown[f] = s /\ \A g \in Fields : g # f => R.shown[g] = F.shown[g]
    <3>1. F.shown \in [Fields -> Texts]
      BY <1>1, FormIs
    <3> QED BY <1>1, <2>4, <3>1
  <2>7. Opened(R)
    <3>1. Len(R.w) = n /\ R.curcol \in 0..(Len(R.w) - 1) /\ R.begincol \in 0..(Len(R.w) - Cols[R.current])
      <4>1. Len(F.w) = n /\ n \in Nat /\ F.curcol \in 0..(n - 1) /\ Cols[f] \in Nat
        BY <1>1 DEF n
      <4>2. b \in 0..(n - Cols[f])
        BY ONLY <2>1, <4>1
      <4> QED BY ONLY <2>4, <4>1, <4>2
    <3>2. Len(R.w) # Cols[R.current]
      BY <1>1, <1>3, <2>4 DEF n
    <3>3. Opened(F)
      BY DEF Edits
    <3>4. F.typed => R.typed
      BY <2>4
    <3> QED BY ONLY Visitable, <2>4, <2>5, <2>6, <3>1, <3>2, <3>3, <3>4, OpenedAgain DEF n
  <2>8. Edits(R)
    <3>1. Buffer(R, f) = Buffer(F, f)
      BY <2>4 DEF Buffer
    <3> QED BY <2>4, <2>7, <3>1 DEF Edits
  <2> QED BY <2>1, <2>4, <2>6, <2>8 DEF InSight, Part, s
<1> QED BY <1>1, <1>2, <1>3
(* Same place: what an edit leaves alone.                                    *)
Same(F, G) ==
    /\ G.posted = F.posted /\ G.current = F.current /\ G.curpage = F.curpage
    /\ G.ovlmode = F.ovlmode /\ G.curcol = F.curcol /\ G.begincol = F.begincol

LEMMA PutIs ==
    ASSUME Visitable, NEW F, Opened(F), NEW text \in Texts, Len(text) = Len(F.w),
           NEW G, G = Put(F, text)
    PROVE  /\ Opened(G) /\ Same(F, G) /\ G.w = text /\ G.buf = F.buf /\ G.growable = F.growable
           /\ G.modified = F.modified /\ G.fcheck = F.fcheck /\ G.typed = F.typed
<1> DEFINE f == F.current
           sh == IF Has_Invisible_Parts(F, f) THEN F.shown ELSE [F.shown EXCEPT ![f] = text]
<1>1. /\ F \in Forms /\ f \in Fields /\ Len(F.w) \in Nat /\ Cols[f] <= Len(F.w) /\ Cols[f] \in Nat
      /\ (Len(F.w) > Cols[f] <=> Has_Invisible_Parts(F, f))
      /\ F.curcol \in Nat /\ F.curcol < Len(F.w)
      /\ F.begincol \in Nat /\ F.begincol + Cols[f] <= Len(F.w)
  BY OpenSizes
<1>2. F.shown \in [Fields -> Texts]
  BY <1>1, FormIs
<1>3. /\ sh \in [Fields -> Texts] /\ \A g \in Fields : g # f => sh[g] = F.shown[g]
      /\ ~Has_Invisible_Parts(F, f) => sh[f] = text
  BY <1>1, <1>2
<1>4. G = [F EXCEPT !.w = text, !.shown = sh]
  <2>1. CASE Has_Invisible_Parts(F, f)
    BY <1>1, <2>1 DEF Put, Forms
  <2>2. CASE ~Has_Invisible_Parts(F, f)
    BY <1>1, <2>2 DEF Put, Forms
  <2> QED BY <2>1, <2>2
<1> HIDE DEF sh
<1>5. /\ G.posted = F.posted /\ G.current = f /\ G.curpage = F.curpage /\ G.curcol = F.curcol
      /\ G.begincol = F.begincol /\ G.w = text /\ G.modified = F.modified /\ G.fcheck = F.fcheck
      /\ G.buf = F.buf /\ G.growable = F.growable /\ G.typed = F.typed /\ G.ovlmode = F.ovlmode
      /\ G.shown = sh
  BY <1>1, <1>4 DEF Forms
<1>6. G \in Forms
  BY <1>1, <1>3, <1>4 DEF Forms
<1>7. Len(G.w) = Len(F.w) /\ G.curcol \in 0..(Len(G.w) - 1) /\ G.begincol \in 0..(Len(G.w) - Cols[G.current])
  BY <1>1, <1>5
<1>8. Len(G.w) = Cols[G.current] => G.shown[G.current] = G.w
  BY <1>1, <1>3, <1>5
<1>9. \A g \in Fields : g # F.current => G.shown[g] = F.shown[g]
  BY <1>3, <1>5
<1>10. Opened(G)
  <2>1. F.typed => G.typed
    BY <1>5
  <2> QED BY ONLY Visitable, Opened(F), <1>5, <1>6, <1>7, <1>8, <1>9, <2>1, OpenedAgain
<1> QED BY <1>5, <1>10 DEF Same

(* An edit is known to be one and is to be checked.                          *)
LEMMA EditedIs ==
    ASSUME Visitable, NEW F, Opened(F), NEW text \in Texts, Len(text) = Len(F.w),
           NEW G, G = Edited(F, text)
    PROVE  /\ Edits(G) /\ Same(F, G) /\ G.w = text /\ G.buf = F.buf /\ G.growable = F.growable
           /\ G.modified /\ G.typed
<1> DEFINE P == Put(F, text)
<1>1. /\ Opened(P) /\ Same(F, P) /\ P.w = text /\ P.buf = F.buf /\ P.growable = F.growable
  BY PutIs
<1>2. P \in Forms
  BY <1>1 DEF Opened
<1>3. G = [P EXCEPT !.modified = TRUE, !.typed = TRUE]
  BY DEF Edited
<1> HIDE DEF P
<1>4. /\ G.posted = P.posted /\ G.current = P.current /\ G.curpage = P.curpage /\ G.curcol = P.curcol
      /\ G.begincol = P.begincol /\ G.w = P.w /\ G.modified = TRUE /\ G.fcheck = P.fcheck
      /\ G.buf = P.buf /\ G.growable = P.growable /\ G.typed = TRUE /\ G.ovlmode = P.ovlmode
      /\ G.shown = P.shown
  BY <1>2, <1>3 DEF Forms
<1>5. G \in Forms
  BY <1>2, <1>3 DEF Forms
<1>6. Opened(G)
  <2>1. /\ P.curcol \in 0..(Len(P.w) - 1) /\ P.begincol \in 0..(Len(P.w) - Cols[P.current])
        /\ Len(P.w) = Cols[P.current] => P.shown[P.current] = P.w
    BY <1>1 DEF Opened
  <2>2. /\ G.curcol \in 0..(Len(G.w) - 1) /\ G.begincol \in 0..(Len(G.w) - Cols[G.current])
        /\ Len(G.w) = Cols[G.current] => G.shown[G.current] = G.w
        /\ Len(G.w) = Len(P.w) /\ \A g \in Fields : g # P.current => G.shown[g] = P.shown[g]
        /\ P.typed => G.typed
    BY <1>4, <2>1
  <2>3. G.current = P.current /\ G.curpage = P.curpage /\ G.buf = P.buf /\ G.growable = P.growable
    BY <1>4
  <2> QED BY ONLY Visitable, <1>1, <1>5, <2>2, <2>3, OpenedAgain
<1>7. Edits(G)
  BY <1>4, <1>6 DEF Edits
<1> QED BY <1>1, <1>4, <1>7 DEF Same

(* What is left when the field is left.                                      *)
Text(F) == IF F.modified THEN F.w ELSE Buffer(F, F.current)

LEMMA SyncIs ==
    ASSUME Visitable, NEW F, Edits(F), NEW G, G = Synchronize_Buffer(F)
    PROVE  /\ Edits(G) /\ Same(F, G) /\ G.w = F.w /\ ~G.modified /\ G.typed = F.typed
           /\ G.growable = F.growable /\ G.shown = F.shown
           /\ G.typed => G.fcheck
           /\ Buffer(G, G.current) = F.w /\ F.w = Text(F)
<1> DEFINE f == F.current
<1>1. /\ F \in Forms /\ f \in Fields /\ F.w \in Texts /\ Len(F.w) \in Nat
      /\ Len(F.w) = Len(Buffer(F, F.current))
  BY OpenSizes DEF Edits
<1>2. F.buf \in [Fields -> Texts] /\ Owner[f] \in Fields
  BY <1>1, FormIs, FieldFacts
<1>3. F.modified \in BOOLEAN /\ F.typed \in BOOLEAN
  BY <1>1, FormIs
<1>4. CASE ~F.modified
  <2>1. G = F /\ F.w = Buffer(F, f)
    BY <1>4 DEF Synchronize_Buffer, Edits
  <2> QED BY <1>3, <1>4, <2>1 DEF Same, Edits, Text
<1>5. CASE F.modified
  <2> DEFINE bf == [F.buf EXCEPT ![Owner[f]] = F.w]
  <2>1. bf \in [Fields -> Texts] /\ bf[Owner[f]] = F.w /\ \A o \in Fields : o # Owner[f] => bf[o] = F.buf[o]
    BY <1>1, <1>2
  <2>2. G = [F EXCEPT !.modified = FALSE, !.fcheck = TRUE, !.buf = bf]
    BY <1>1, <1>5 DEF Synchronize_Buffer, Forms
  <2> HIDE DEF bf
  <2>3. /\ G.posted = F.posted /\ G.current = f /\ G.curpage = F.curpage /\ G.curcol = F.curcol
        /\ G.begincol = F.begincol /\ G.w = F.w /\ G.modified = FALSE /\ G.fcheck = TRUE
        /\ G.buf = bf /\ G.growable = F.growable /\ G.typed = F.typed /\ G.ovlmode = F.ovlmode
        /\ G.shown = F.shown
    BY <1>1, <2>2 DEF Forms
  <2>4. G \in Forms
    BY <1>1, <2>1, <2>2 DEF Forms
  <2>5. \A g \in Fields : Buffer(G, g) = IF Owner[g] = Owner[f] THEN F.w ELSE Buffer(F, g)
    BY <2>1, <2>3, FieldFacts DEF Buffer
  <2>6. \A g \in Fields : Len(Buffer(G, g)) = Len(Buffer(F, g))
    <3>1. \A g \in Fields : Owner[g] = Owner[f] => Buffer(F, g) = Buffer(F, f)
      BY DEF Buffer
    <3> QED BY <1>1, <2>5, <3>1
  <2>7. Buffers(F) /\ Sited(F) /\ OthersShow(F)
    BY DEF Edits, Opened
  <2>8. Buffers(G) /\ Sited(G)
    BY <2>3, <2>6, <2>7 DEF Buffers, Sited
  <2>9. OthersShow(G)
    <3>1. CASE F.typed
      <4>1. ASSUME NEW g \in selectable \ Lag(G), PageOf[g] = G.curpage PROVE Shows(G, g)
        <5>1. g \in Fields /\ g \in selectable \ Lag(F) /\ PageOf[g] = F.curpage /\ Owner[g] # Owner[f]
          BY <2>3, <3>1, <4>1 DEF Visitable, Lag, Linked
        <5>2. Shows(F, g) /\ Buffer(G, g) = Buffer(F, g)
          BY <2>5, <2>7, <5>1 DEF OthersShow
        <5> QED BY <2>3, <5>2 DEF Shows
      <4> QED BY <4>1 DEF OthersShow
    <3>2. CASE ~F.typed
      <4>1. F.w = Buffer(F, f)
        BY <3>2 DEF Edits
      <4>2. \A g \in Fields : Owner[g] = Owner[f] => Buffer(F, g) = Buffer(F, f)
        BY DEF Buffer
      <4>3. \A g \in Fields : Buffer(G, g) = Buffer(F, g)
        BY <2>5, <4>1, <4>2
      <4>4. ASSUME NEW g \in selectable \ Lag(G), PageOf[g] = G.curpage PROVE Shows(G, g)
        <5>1. g \in Fields /\ g \in selectable \ Lag(F) /\ PageOf[g] = F.curpage
          BY <2>3, <3>2, <4>4 DEF Visitable, Lag
        <5>2. Shows(F, g) /\ Buffer(G, g) = Buffer(F, g)
          BY <2>7, <4>3, <5>1 DEF OthersShow
        <5> QED BY <2>3, <5>2 DEF Shows
      <4> QED BY <4>4 DEF OthersShow
    <3> QED BY <1>3, <3>1, <3>2
  <2>10. Buffer(G, f) = F.w
    BY <1>1, <2>5
  <2>11. Opened(G)
    BY <1>1, <2>3, <2>4, <2>8, <2>9, <2>10 DEF Edits, Opened
  <2> QED BY <1>5, <2>3, <2>10, <2>11 DEF Edits, Same, Text
<1> QED BY <1>3, <1>4, <1>5
(* Field_Grown() adds columns.                                               *)
LEMMA GrownIs ==
    ASSUME Visitable, NEW F, Edits(F), Growable(F), NEW R, R = Field_Grown(F)
    PROVE  /\ Edits(R) /\ Same(F, R) /\ Len(R.w) > Len(F.w) /\ R.typed = F.typed
<1> DEFINE f == F.current
           G == Synchronize_Buffer(F)
           n == Len(F.w)
           more == Smaller(MaxGrow[f] - Len(Buffer(G, f)), Cols[f])
           text == Buffer(G, f) \o Blanks(more)
           bf == [G.buf EXCEPT ![Owner[f]] = text]
           gr == IF Len(text) = MaxGrow[f] THEN G.growable \ {f} ELSE G.growable
<1>1. /\ Edits(G) /\ Same(F, G) /\ G.w = F.w /\ ~G.modified /\ G.typed = F.typed
      /\ G.growable = F.growable /\ G.shown = F.shown /\ (G.typed => G.fcheck)
      /\ Buffer(G, G.current) = F.w
  BY SyncIs
<1>2. G.current = f /\ f \in F.growable
  BY <1>1 DEF Same, Growable
<1>3. R = [G EXCEPT !.buf = bf, !.w = text, !.growable = gr]
  BY <1>1, <1>2 DEF Field_Grown, Edits, Opened, Forms
<1> HIDE DEF G
<1>4. G \in Forms /\ Buffers(G) /\ Sited(G) /\ OthersShow(G)
  BY <1>1 DEF Edits, Opened
<1>5. /\ f \in Fields /\ G.w \in Texts /\ n \in Nat /\ Cols[f] \in Nat /\ 0 < Cols[f] /\ Cols[f] <= n
      /\ G.curcol \in Nat /\ G.curcol < n /\ G.begincol \in Nat /\ G.begincol + Cols[f] <= n
  BY <1>1, <1>2, OpenSizes DEF Edits
<1>6. Owner[f] \in Fields /\ MaxGrow[f] \in Nat
  BY <1>5, FieldFacts
<1>7. n < MaxGrow[f]
  BY <1>1, <1>2, <1>4, <1>5 DEF Buffers
<1>8. more \in Nat /\ more > 0 /\ n + more <= MaxGrow[f]
  BY <1>1, <1>2, <1>5, <1>6, <1>7 DEF Smaller
<1> HIDE DEF more
<1>9. text \in Texts /\ Len(text) = n + more
  <2>1. Blanks(more) \in Texts /\ Len(Blanks(more)) = more
    BY <1>8, BlanksAre
  <2>2. Buffer(G, f) \in Texts /\ Len(Buffer(G, f)) = n
    BY <1>1, <1>2, <1>5
  <2> QED BY <2>1, <2>2, Joined
<1> HIDE DEF n, text
<1>10. G.buf \in [Fields -> Texts] /\ G.growable \subseteq Fields /\ G.shown \in [Fields -> Texts]
  BY <1>4, FormIs
<1>11. bf \in [Fields -> Texts] /\ bf[Owner[f]] = text /\ \A o \in Fields : o # Owner[f] => bf[o] = G.buf[o]
  BY <1>6, <1>9, <1>10
<1>12. gr \subseteq G.growable /\ (f \in gr => Len(text) # MaxGrow[f])
  OBVIOUS
<1> HIDE DEF bf, gr
<1>13. /\ R.posted = G.posted /\ R.current = G.current /\ R.curpage = G.curpage /\ R.curcol = G.curcol
       /\ R.begincol = G.begincol /\ R.w = text /\ R.modified = G.modified /\ R.fcheck = G.fcheck
       /\ R.buf = bf /\ R.growable = gr /\ R.typed = G.typed /\ R.ovlmode = G.ovlmode
       /\ R.shown = G.shown
  BY <1>3, <1>4 DEF Forms
<1>14. R \in Forms
  BY <1>3, <1>4, <1>9, <1>10, <1>11, <1>12 DEF Forms
<1>15. Buffer(R, f) = text /\ \A g \in Fields : g # f => Buffer(R, g) = Buffer(G, g)
  <2>1. \A g \in Fields : Owner[g] = Owner[f] => g = f
    BY <1>1, <1>2, <1>4, GrowsAlone
  <2> QED BY <1>5, <1>11, <1>13, <2>1, FieldFacts DEF Buffer
<1>16. Buffers(R)
  <2>1. \A g \in Fields : g # f => /\ Len(Buffer(R, g)) >= Cols[g]
                                   /\ g \in R.growable => Len(Buffer(R, g)) < MaxGrow[g]
    BY <1>4, <1>12, <1>13, <1>15 DEF Buffers
  <2>2. Len(text) >= Cols[f] /\ (f \in gr => Len(text) < MaxGrow[f])
    BY <1>5, <1>6, <1>8, <1>9, <1>12
  <2> QED BY <1>13, <1>15, <2>1, <2>2 DEF Buffers
<1>17. OthersShow(R)
  <2>1. f \in Lag(R) /\ Lag(R) = Lag(G)
    BY <1>2, <1>5, <1>13 DEF Lag, Linked
  <2>2. ASSUME NEW g \in selectable \ Lag(R), PageOf[g] = R.curpage PROVE Shows(R, g)
    <3>1. g \in Fields /\ g # f /\ g \in selectable \ Lag(G) /\ PageOf[g] = G.curpage
      BY <1>13, <2>1, <2>2 DEF Visitable
    <3>2. Shows(G, g) /\ Buffer(R, g) = Buffer(G, g)
      BY <1>4, <1>15, <3>1 DEF OthersShow
    <3> QED BY <1>13, <3>2 DEF Shows
  <2> QED BY <2>2 DEF OthersShow
<1>18. Opened(R)
  <2>1. Sited(R)
    BY <1>4, <1>13 DEF Sited
  <2>2. /\ R.curcol \in 0..(Len(text) - 1) /\ R.begincol \in 0..(Len(text) - Cols[f])
        /\ Len(text) # Cols[f]
    BY <1>5, <1>8, <1>9, <1>13
  <2> QED BY <1>2, <1>13, <1>14, <1>15, <1>16, <1>17, <2>1, <2>2 DEF Opened
<1>19. Edits(R)
  BY <1>1, <1>2, <1>13, <1>15, <1>18 DEF Edits
<1>20. Len(R.w) > n
  BY <1>5, <1>8, <1>9, <1>13
<1> QED BY <1>1, <1>13, <1>19, <1>20 DEF Same, n

-----------------------------------------------------------------------------
(* _nc_Internal_Validation(): a field that passes has its text stored, and   *)
(* the fields linked to it show it.                                          *)

LEMMA ValidatedIs ==
    ASSUME Visitable, NEW F, Edits(F), F.posted, NEW V, V = Validated(F)
    PROVE  /\ Edits(V) /\ Same(F, V) /\ V.w = F.w /\ ~V.modified /\ V.growable = F.growable
           /\ V.shown[F.current] = F.shown[F.current]
           /\ Buffer(V, V.current) = Text(F) /\ Text(F) = F.w
           /\ Valid(F) => ~V.typed /\ (F.typed => Check_Field(F.current, Text(F)))
<1> DEFINE f == F.current
           G == Synchronize_Buffer(F)
           H == [G EXCEPT !.fcheck = FALSE, !.typed = FALSE]
           others == Linked(f) \ {f}
           sh == [g \in Fields |-> IF g \in others \ {f} /\ Really_Appears(H, g)
                                   THEN SubSeq(Buffer(H, g), 1, Cols[g]) ELSE H.shown[g]]
<1>1. /\ Edits(G) /\ Same(F, G) /\ G.w = F.w /\ ~G.modified /\ G.typed = F.typed
      /\ G.growable = F.growable /\ G.shown = F.shown /\ (G.typed => G.fcheck)
      /\ Buffer(G, G.current) = F.w /\ F.w = Text(F)
  BY SyncIs
<1>2. G.current = f
  BY <1>1 DEF Same
<1>3. V = IF Valid(F) /\ MustCheck(G) THEN Synchronize_Linked_Fields(H, G.current) ELSE G
  BY DEF Validated
<1>4. Valid(F) <=> (MustCheck(G) => Check_Field(f, F.w))
  BY <1>1, <1>2 DEF Valid
<1> HIDE DEF G
<1>5. G \in Forms /\ Buffers(G) /\ Sited(G) /\ OthersShow(G) /\ f \in Fields
  BY <1>1, <1>2, FormIs DEF Edits, Opened
<1>6. G.typed \in BOOLEAN
  BY <1>5, FormIs
<1>7. CASE ~(Valid(F) /\ MustCheck(G))
  <2>1. V = G
    BY <1>3, <1>7
  <2>2. Valid(F) => ~G.typed
    BY <1>1, <1>7 DEF MustCheck
  <2> QED BY <1>1, <2>1, <2>2
<1>8. CASE Valid(F) /\ MustCheck(G)
  <2>1. /\ H.posted = G.posted /\ H.current = f /\ H.curpage = G.curpage /\ H.curcol = G.curcol
        /\ H.begincol = G.begincol /\ H.w = G.w /\ H.modified = G.modified
        /\ H.buf = G.buf /\ H.growable = G.growable /\ H.typed = FALSE /\ H.fcheck = FALSE
        /\ H.ovlmode = G.ovlmode /\ H.shown = G.shown
    BY <1>2, <1>5 DEF Forms
  <2>2. H \in Forms
    BY <1>5 DEF Forms
  <2>3. f \notin others /\ V = Synchronize_Linked_Fields(H, f)
    BY <1>2, <1>3, <1>8
  <2>4. V = [H EXCEPT !.shown = sh]
    <3>1. H.current = f
      BY <2>1
    <3> HIDE DEF H
    <3> QED BY <2>3, <3>1 DEF Synchronize_Linked_Fields
  <2> HIDE DEF H
  <2>5. \A g \in Fields : Buffer(H, g) = Buffer(G, g) /\ Buffer(H, g) \in Texts
                          /\ Len(Buffer(H, g)) \in Nat /\ Cols[g] \in Nat /\ Cols[g] <= Len(Buffer(H, g))
    BY <1>5, <2>1, <2>2, BufferIs, FieldFacts DEF Buffer, Buffers
  <2>6. \A g \in Fields : SubSeq(Buffer(H, g), 1, Cols[g]) \in Texts
    BY <2>5, Prefix
  <2>7. H.shown \in [Fields -> Texts]
    BY <2>2, FormIs
  <2>8. /\ sh \in [Fields -> Texts] /\ sh[f] = H.shown[f]
        /\ \A g \in Fields : sh[g] = IF g \in others \ {f} /\ Really_Appears(H, g)
                                     THEN SubSeq(Buffer(H, g), 1, Cols[g]) ELSE H.shown[g]
    BY <1>5, <2>6, <2>7
  <2> HIDE DEF sh
  <2>9. /\ V.posted = H.posted /\ V.current = H.current /\ V.curpage = H.curpage /\ V.curcol = H.curcol
        /\ V.begincol = H.begincol /\ V.w = H.w /\ V.modified = H.modified
        /\ V.buf = H.buf /\ V.growable = H.growable /\ V.typed = H.typed /\ V.fcheck = H.fcheck
        /\ V.ovlmode = H.ovlmode /\ V.shown = sh
    BY <2>2, <2>4 DEF Forms
  <2>10. V \in Forms
    BY <2>2, <2>4, <2>8 DEF Forms
  <2>11. \A g \in Fields : Buffer(V, g) = Buffer(H, g)
    BY <2>9 DEF Buffer
  <2>12. Buffers(V) /\ Sited(V)
    BY <1>2, <1>5, <2>1, <2>5, <2>9, <2>11 DEF Buffers, Sited
  <2>13. OthersShow(V)
    <3>1. ASSUME NEW g \in selectable \ Lag(V), PageOf[g] = V.curpage PROVE Shows(V, g)
      <4>1. g \in Fields /\ g # f
        BY <2>1, <2>9, <3>1 DEF Visitable, Lag
      <4>2. CASE g \in Linked(f)
        <5>1. Really_Appears(H, g)
          BY <1>1, <2>1, <2>9, <3>1 DEF Really_Appears, Same
        <5>2. V.shown[g] = SubSeq(Buffer(V, g), 1, Cols[g])
          BY <2>8, <2>9, <2>11, <4>1, <4>2, <5>1
        <5>3. 0 \in 0..(Len(Buffer(V, g)) - Cols[g]) /\ 0 + 1 = 1 /\ 0 + Cols[g] = Cols[g]
          BY <2>5, <2>11, <4>1
        <5>4. V.shown[g] = Part(Buffer(V, g), 0, g)
          BY <5>2, <5>3 DEF Part
        <5> QED BY <5>3, <5>4 DEF Shows
      <4>3. CASE g \notin Linked(f)
        <5>1. g \notin Lag(G)
          BY <1>2, <4>1, <4>3 DEF Lag
        <5>2. Shows(G, g)
          BY <1>5, <2>1, <2>9, <3>1, <5>1 DEF OthersShow
        <5>3. V.shown[g] = G.shown[g] /\ Buffer(V, g) = Buffer(G, g)
          BY <2>1, <2>5, <2>8, <2>9, <2>11, <4>1, <4>3
        <5> QED BY <5>2, <5>3 DEF Shows
      <4> QED BY <4>2, <4>3
    <3> QED BY <3>1 DEF OthersShow
  <2>14. Buffer(V, f) = F.w
    BY <1>1, <1>2, <1>5, <2>5, <2>11
  <2>15. Opened(V)
    <3>1. /\ Len(G.w) = Len(Buffer(G, f)) /\ G.curcol \in 0..(Len(G.w) - 1)
          /\ G.begincol \in 0..(Len(G.w) - Cols[f])
          /\ Len(G.w) = Cols[f] => G.shown[f] = G.w
      BY <1>1, <1>2 DEF Edits, Opened
    <3> QED BY <1>1, <2>1, <2>8, <2>9, <2>10, <2>12, <2>13, <2>14, <3>1 DEF Opened
  <2>16. Edits(V)
    BY <1>1, <2>1, <2>9, <2>14, <2>15 DEF Edits
  <2> QED BY <1>1, <1>4, <1>8, <2>1, <2>8, <2>9, <2>14, <2>16 DEF Same
<1> QED BY <1>7, <1>8
-----------------------------------------------------------------------------
(* Another field becomes the current one.                                    *)

Opening(G, f) ==
    [G EXCEPT !.current = f, !.modified = FALSE, !.typed = FALSE,
              !.w = IF Has_Invisible_Parts(G, f) THEN Buffer(G, f) ELSE G.shown[f],
              !.curcol = 0, !.begincol = 0]
LEMMA OpenIs ==
    ASSUME Visitable, NEW G \in Forms, Buffers(G), NEW f \in OnIt(G.curpage),
           \A g \in OnIt(G.curpage) : Shows(G, g), NEW R, R = Opening(G, f)
    PROVE  /\ Edits(R) /\ R.posted = G.posted /\ R.current = f /\ R.curpage = G.curpage
           /\ R.buf = G.buf
<1> DEFINE x == IF Has_Invisible_Parts(G, f) THEN Buffer(G, f) ELSE G.shown[f]
           n == Len(Buffer(G, f))
<1>1. f \in Fields /\ f \in selectable /\ PageOf[f] = G.curpage
  BY DEF OnIt, Visitable
<1>2. /\ Buffer(G, f) \in Texts /\ n \in Nat /\ Cols[f] \in Nat /\ 0 < Cols[f] /\ Cols[f] <= n
      /\ G.shown \in [Fields -> Texts]
  BY <1>1, BufferIs, FieldFacts, FormIs DEF Buffers
<1>3. x = Buffer(G, f)
  <2>1. CASE ~Has_Invisible_Parts(G, f)
    <3>1. n = Cols[f]
      BY <1>2, <2>1 DEF Has_Invisible_Parts
    <3>2. PICK b \in 0..(n - Cols[f]) : G.shown[f] = Part(Buffer(G, f), b, f)
      BY DEF Shows
    <3>3. b = 0 /\ 0 + 1 = 1 /\ 0 + Cols[f] = n
      BY <1>2, <3>1, <3>2
    <3>4. SubSeq(Buffer(G, f), 1, n) = Buffer(G, f)
      BY <1>2, Prefix
    <3> QED BY <2>1, <3>2, <3>3, <3>4 DEF Part
  <2> QED BY <2>1
<1> HIDE DEF x, n
<1>4. R = [G EXCEPT !.current = f, !.modified = FALSE, !.typed = FALSE, !.w = x,
                    !.curcol = 0, !.begincol = 0]
  BY DEF x, Opening
<1>5. /\ R.posted = G.posted /\ R.current = f /\ R.curpage = G.curpage /\ R.curcol = 0
      /\ R.begincol = 0 /\ R.w = x /\ R.modified = FALSE
      /\ R.buf = G.buf /\ R.growable = G.growable /\ R.typed = FALSE /\ R.shown = G.shown
  BY <1>4 DEF Forms
<1>6. R \in Forms
  <2>1. x \in Texts /\ 0 \in Nat
    BY <1>2, <1>3
  <2> QED BY ONLY G \in Forms, <1>1, <1>4, <2>1 DEF Forms
<1>7. \A g \in Fields : Buffer(R, g) = Buffer(G, g)
  BY <1>5 DEF Buffer
<1>8. Buffers(R) /\ Sited(R)
  BY <1>1, <1>5, <1>7 DEF Buffers, Sited
<1>9. OthersShow(R)
  <2>1. ASSUME NEW g \in selectable, PageOf[g] = R.curpage PROVE Shows(R, g)
    <3>1. g \in OnIt(G.curpage) /\ g \in Fields
      BY <1>5, <2>1 DEF OnIt, Visitable
    <3> QED BY <1>5, <1>7, <3>1 DEF Shows
  <2> QED BY <2>1 DEF OthersShow
<1>10. Len(x) = Cols[f] => R.shown[f] = x
  <2>1. CASE Has_Invisible_Parts(G, f)
    BY <1>2, <1>3, <2>1 DEF Has_Invisible_Parts, n
  <2>2. CASE ~Has_Invisible_Parts(G, f)
    BY <1>5, <2>2 DEF x
  <2> QED BY <2>1, <2>2
<1>11. Opened(R)
  <2>1. Len(R.w) = n /\ n = Len(Buffer(R, R.current))
    BY <1>1, <1>3, <1>5, <1>7 DEF n
  <2>2. R.curcol \in 0..(Len(R.w) - 1) /\ R.begincol \in 0..(Len(R.w) - Cols[R.current])
    BY <1>2, <1>5, <2>1
  <2> QED BY <1>5, <1>6, <1>8, <1>9, <1>10, <2>1, <2>2 DEF Opened
<1>12. Edits(R)
  BY <1>1, <1>3, <1>5, <1>7, <1>11 DEF Edits
<1> QED BY <1>5, <1>12

(* On the page that is shown.                                                *)
LEMMA SetCurrentIs ==
    ASSUME Visitable, NEW F, Edits(F), F.posted, ~F.typed, NEW f \in OnIt(F.curpage),
           NEW R, R = Set_Current_Field(F, f)
    PROVE  Edits(R) /\ R.posted /\ R.current = f /\ R.curpage = F.curpage /\ R.buf = F.buf
<1> DEFINE old == F.current
           G == Refresh_Current_Field(F)
<1>1. /\ Opened(F) /\ F \in Forms /\ old \in Fields /\ F.w \in Texts /\ Len(F.w) \in Nat /\ 0 < Len(F.w)
      /\ F.curcol \in Nat /\ F.begincol \in Nat /\ F.begincol + Cols[old] <= Len(F.w)
      /\ Cols[old] \in Nat /\ 0 < Cols[old]
  BY OpenSizes DEF Edits
<1>2. F.w # <<>> /\ old \in selectable /\ PageOf[old] = F.curpage
  BY <1>1 DEF Opened, Sited
<1>3. CASE f = old
  <2>1. R = [F EXCEPT !.curcol = 0, !.begincol = 0]
    BY <1>3 DEF Set_Current_Field
  <2>2. /\ R.posted = F.posted /\ R.current = F.current /\ R.curpage = F.curpage /\ R.curcol = 0
        /\ R.begincol = 0 /\ R.w = F.w /\ R.modified = F.modified
        /\ R.buf = F.buf /\ R.growable = F.growable /\ R.typed = F.typed /\ R.shown = F.shown
    BY <1>1, <2>1 DEF Forms
  <2>3. R \in Forms
    BY ONLY <1>1, <2>1 DEF Forms
  <2>4. /\ Len(R.w) = Len(F.w) /\ R.curcol \in 0..(Len(R.w) - 1)
        /\ R.begincol \in 0..(Len(R.w) - Cols[R.current])
        /\ Len(R.w) = Cols[R.current] => R.shown[R.current] = R.w
    BY <1>1, <2>2 DEF Opened
  <2>5. Opened(R)
    <3>1. (F.typed => R.typed) /\ \A g \in Fields : g # F.current => R.shown[g] = F.shown[g]
      BY <2>2
    <3> QED BY ONLY Visitable, <1>1, <2>2, <2>3, <2>4, <3>1, OpenedAgain
  <2>6. Edits(R)
    <3>1. F.w = Buffer(F, old) /\ Buffer(R, old) = Buffer(F, old)
      BY <2>2 DEF Edits, Buffer
    <3> QED BY <2>2, <2>5, <3>1 DEF Edits
  <2> QED BY <1>3, <2>2, <2>6
<1>4. CASE f # old
  <2>1. /\ InSight(G) /\ G.posted = F.posted /\ G.current = F.current
        /\ G.curpage = F.curpage /\ G.buf = F.buf /\ G.w = F.w
    BY RefreshIs
  <2>2. R = Opening(G, f)
    BY <1>2, <1>4 DEF Set_Current_Field, Opening
  <2>3. G.typed = F.typed
    BY <1>1 DEF Refresh_Current_Field, Forms
  <2> HIDE DEF G
  <2>4. G \in Forms /\ Buffers(G) /\ Opened(G)
    BY <2>1 DEF InSight, Edits, Opened
  <2>5. Shows(G, old)
    <3>1. G.shown[old] = Part(G.w, G.begincol, old) /\ G.w = Buffer(G, old)
      BY <2>1, <2>3 DEF InSight, Edits
    <3>2. G.begincol \in 0..(Len(G.w) - Cols[old])
      BY <2>1, <2>4 DEF Opened
    <3> QED BY <3>1, <3>2 DEF Shows
  <2>6. \A g \in OnIt(G.curpage) : Shows(G, g)
    <3>1. ASSUME NEW g \in OnIt(G.curpage), g # old PROVE Shows(G, g)
      BY <2>1, <2>3, <2>4, <3>1 DEF OnIt, Opened, OthersShow, Lag
    <3> QED BY <2>5, <3>1
  <2>7. f \in OnIt(G.curpage)
    BY <2>1
  <2>8. Edits(R) /\ R.posted = G.posted /\ R.current = f /\ R.curpage = G.curpage /\ R.buf = G.buf
    BY ONLY Visitable, <2>2, <2>4, <2>6, <2>7, OpenIs
  <2> QED BY <2>1, <2>8
<1> QED BY <1>3, <1>4

(* On another page.                                                          *)
LEMMA SetPageIs ==
    ASSUME Visitable, NEW F \in Forms, Buffers(F), NEW page \in Pages, F.curpage # page,
           NEW f \in OnIt(page), F.w = <<>> \/ PageOf[F.current] # page,
           f # F.current \/ ~F.posted, NEW R, R = Set_Form_Page(F, page, f)
    PROVE  /\ Edits(R) /\ R.posted = F.posted /\ R.current = f /\ R.curpage = page /\ R.buf = F.buf
<1> DEFINE sh == [g \in Fields |-> IF PageOf[g] = page /\ g \in selectable
                                   THEN SubSeq(Buffer(F, g), 1, Cols[g]) ELSE Blanks(Cols[g])]
           H == [F EXCEPT !.curpage = page, !.shown = sh]
<1>1. R = Set_Current_Field(H, f)
  BY DEF Set_Form_Page
<1>2. \A g \in Fields : /\ Buffer(F, g) \in Texts /\ Len(Buffer(F, g)) \in Nat
                        /\ Cols[g] \in Nat /\ Cols[g] <= Len(Buffer(F, g))
  BY BufferIs, FieldFacts DEF Buffers
<1>3. \A g \in Fields : SubSeq(Buffer(F, g), 1, Cols[g]) \in Texts /\ Blanks(Cols[g]) \in Texts
  BY <1>2, Prefix, BlanksAre
<1>4. sh \in [Fields -> Texts]
  BY <1>3
<1>5. \A g \in OnIt(page) : g \in Fields /\ sh[g] = SubSeq(Buffer(F, g), 1, Cols[g])
  BY DEF OnIt, Visitable
<1> HIDE DEF sh
<1>6. /\ H.posted = F.posted /\ H.current = F.current /\ H.curpage = page /\ H.w = F.w
      /\ H.buf = F.buf /\ H.growable = F.growable /\ H.shown = sh
  BY DEF Forms
<1>7. H \in Forms
  BY <1>4 DEF Forms
<1> HIDE DEF H
<1>8. \A g \in Fields : Buffer(H, g) = Buffer(F, g)
  BY <1>6 DEF Buffer
<1>9. Buffers(H)
  BY <1>6, <1>8 DEF Buffers
<1>10. ASSUME NEW g \in OnIt(H.curpage) PROVE Shows(H, g)
  <2>1. g \in Fields /\ H.shown[g] = SubSeq(Buffer(H, g), 1, Cols[g])
    BY <1>5, <1>6, <1>8
  <2>2. 0 \in 0..(Len(Buffer(H, g)) - Cols[g]) /\ 0 + 1 = 1 /\ 0 + Cols[g] = Cols[g]
    BY <1>2, <1>8, <2>1
  <2>3. H.shown[g] = Part(Buffer(H, g), 0, g)
    BY <2>1, <2>2 DEF Part
  <2> QED BY <2>2, <2>3 DEF Shows
<1>11. ~(H.w # <<>> /\ H.current \in selectable /\ PageOf[H.current] = H.curpage)
  BY <1>6
<1>12. f # H.current \/ ~H.posted
  BY <1>6
<1>13. R = Opening(H, f)
  BY <1>1, <1>11, <1>12 DEF Set_Current_Field, Opening
<1>14. f \in OnIt(H.curpage)
  BY <1>6
<1>15. Edits(R) /\ R.posted = H.posted /\ R.current = f /\ R.curpage = H.curpage /\ R.buf = H.buf
  BY ONLY Visitable, <1>7, <1>9, <1>10, <1>13, <1>14, OpenIs
<1> QED BY <1>6, <1>15
-----------------------------------------------------------------------------
(* Leaving a field: its text is in its buffer, and has passed the check if   *)
(* it was edited.                                                            *)

Leaves(F, R) ==
    R.current # F.current =>
        /\ R.buf[Owner[F.current]] = Text(F)
        /\ F.typed => Check_Field(F.current, Text(F))

LEMMA GotoIs ==
    ASSUME Visitable, NEW F, Edits(F), F.posted, NEW f \in OnIt(F.curpage),
           NEW R, R = Goto(F, f)
    PROVE  Edits(R) /\ R.posted /\ Leaves(F, R)
<1> DEFINE V == Validated(F)
<1>1. /\ Edits(V) /\ Same(F, V) /\ Buffer(V, V.current) = Text(F)
      /\ Valid(F) => ~V.typed /\ (F.typed => Check_Field(F.current, Text(F)))
  BY ValidatedIs
<1>2. V.posted /\ V.curpage = F.curpage /\ V.current = F.current
  BY <1>1 DEF Same
<1>3. R = IF Valid(F) THEN Set_Current_Field(V, f) ELSE V
  BY DEF Goto
<1> HIDE DEF V
<1>4. CASE Valid(F)
  <2>1. f \in OnIt(V.curpage) /\ R = Set_Current_Field(V, f)
    BY <1>2, <1>3, <1>4
  <2>2. Edits(R) /\ R.posted /\ R.buf = V.buf
    BY <1>1, <1>2, <1>4, <2>1, SetCurrentIs
  <2> QED BY <1>1, <1>2, <1>4, <2>2 DEF Leaves, Buffer
<1>5. CASE ~Valid(F)
  BY <1>1, <1>2, <1>3, <1>5 DEF Leaves
<1> QED BY <1>4, <1>5

LEMMA ToPageIs ==
    ASSUME Visitable, NEW V, Edits(V), V.posted, ~V.typed, NEW p \in Pages, NEW f \in OnIt(p),
           NEW R, R = Set_Form_Page(V, p, f)
    PROVE  Edits(R) /\ R.posted /\ R.buf = V.buf
<1>1. V \in Forms /\ Buffers(V) /\ PageOf[V.current] = V.curpage
  BY DEF Edits, Opened, Sited
<1>2. CASE V.curpage = p
  BY <1>2 DEF Set_Form_Page
<1>3. CASE V.curpage # p
  <2>1. PageOf[V.current] # p /\ f # V.current
    BY <1>1, <1>3 DEF OnIt
  <2> QED BY <1>1, <1>3, <2>1, SetPageIs
<1> QED BY <1>2, <1>3

LEMMA GotoPageIs ==
    ASSUME Visitable, NEW F, Edits(F), F.posted, NEW p \in Pages, NEW R, R = GotoPage(F, p)
    PROVE  Edits(R) /\ R.posted /\ Leaves(F, R)
<1> DEFINE V == Validated(F)
<1>1. /\ Edits(V) /\ Same(F, V) /\ Buffer(V, V.current) = Text(F)
      /\ Valid(F) => ~V.typed /\ (F.typed => Check_Field(F.current, Text(F)))
  BY ValidatedIs
<1>2. V.posted /\ V.curpage = F.curpage /\ V.current = F.current
  BY <1>1 DEF Same
<1>3. R = IF Valid(F) THEN Set_Form_Page(V, p, First_Field(p)) ELSE V
  BY DEF GotoPage
<1> HIDE DEF V
<1>4. CASE Valid(F)
  <2>1. First_Field(p) \in OnIt(p) /\ R = Set_Form_Page(V, p, First_Field(p))
    BY <1>3, <1>4, EndsAre
  <2>2. Edits(R) /\ R.posted /\ R.buf = V.buf
    BY <1>1, <1>2, <1>4, <2>1, ToPageIs
  <2> QED BY <1>1, <1>2, <1>4, <2>2 DEF Leaves, Buffer
<1>5. CASE ~Valid(F)
  BY <1>1, <1>2, <1>3, <1>5 DEF Leaves
<1> QED BY <1>4, <1>5

-----------------------------------------------------------------------------
(* The cursor moves, and the field under it.                                 *)

At(G, col, b) == [G EXCEPT !.curcol = col, !.begincol = b]

LEMMA AtIs ==
    ASSUME Visitable, NEW G, Edits(G), NEW col \in 0..(Len(G.w) - 1),
           NEW b \in 0..(Len(G.w) - Cols[G.current]), NEW R, R = At(G, col, b)
    PROVE  /\ Edits(R) /\ R.posted = G.posted /\ R.current = G.current /\ R.curpage = G.curpage
           /\ R.buf = G.buf /\ R.typed = G.typed
<1>1. /\ Opened(G) /\ G \in Forms /\ Len(G.w) \in Nat /\ Cols[G.current] \in Nat
  BY OpenSizes DEF Edits
<1>2. col \in Nat /\ b \in Nat
  BY <1>1
<1>3. /\ R.posted = G.posted /\ R.current = G.current /\ R.curpage = G.curpage /\ R.curcol = col
      /\ R.begincol = b /\ R.w = G.w /\ R.modified = G.modified /\ R.fcheck = G.fcheck
      /\ R.buf = G.buf /\ R.growable = G.growable /\ R.typed = G.typed /\ R.shown = G.shown
  BY <1>1 DEF At, Forms
<1>4. R \in Forms
  BY ONLY <1>1, <1>2, R = At(G, col, b) DEF At, Forms
<1>5. /\ Len(R.w) = Len(G.w) /\ R.curcol \in 0..(Len(R.w) - 1)
      /\ R.begincol \in 0..(Len(R.w) - Cols[R.current])
      /\ Len(R.w) = Cols[R.current] => R.shown[R.current] = R.w
  BY <1>1, <1>3 DEF Opened
<1>6. Opened(R)
  <2>1. (G.typed => R.typed) /\ \A g \in Fields : g # G.current => R.shown[g] = G.shown[g]
    BY <1>3
  <2> QED BY ONLY Visitable, <1>1, <1>3, <1>4, <1>5, <2>1, OpenedAgain
<1>7. Edits(R)
  <2>1. Buffer(R, R.current) = Buffer(G, G.current)
    BY <1>3 DEF Buffer
  <2> QED BY <1>3, <1>6, <2>1 DEF Edits
<1> QED BY <1>3, <1>7

LEMMA ColumnIs ==
    ASSUME Visitable, NEW G, Edits(G), NEW col \in 0..(Len(G.w) - 1),
           NEW R, R = [G EXCEPT !.curcol = col]
    PROVE  /\ Edits(R) /\ R.posted = G.posted /\ R.current = G.current /\ R.curpage = G.curpage
           /\ R.buf = G.buf /\ R.typed = G.typed
<1>1. G \in Forms /\ G.begincol \in 0..(Len(G.w) - Cols[G.current])
  BY DEF Edits, Opened
<1>2. R = At(G, col, G.begincol)
  BY <1>1 DEF At, Forms
<1> QED BY ONLY Visitable, Edits(G), col \in 0..(Len(G.w) - 1), <1>1, <1>2, AtIs

LEMMA NextCharacterIs ==
    ASSUME Visitable, NEW F, Edits(F), NEW R, R = Next_Character(F)
    PROVE  Edits(R) /\ R.posted = F.posted /\ R.current = F.current
<1>1. Len(F.w) \in Nat /\ F.curcol \in Nat /\ F.curcol < Len(F.w)
  BY OpenSizes DEF Edits
<1>2. CASE F.curcol + 1 < Len(F.w)
  <2>1. R = [F EXCEPT !.curcol = F.curcol + 1]
    BY <1>2 DEF Next_Character
  <2>2. F.curcol + 1 \in 0..(Len(F.w) - 1)
    BY <1>1, <1>2
  <2> QED BY <2>1, <2>2, ColumnIs
<1>3. CASE ~(F.curcol + 1 < Len(F.w)) /\ Growable(F)
  <2> DEFINE G == Field_Grown(F)
  <2>1. R = [G EXCEPT !.curcol = G.curcol + 1]
    BY <1>3 DEF Next_Character
  <2>2. Edits(G) /\ Same(F, G) /\ Len(G.w) > Len(F.w)
    BY <1>3, GrownIs
  <2> HIDE DEF G
  <2>3. Len(G.w) \in Nat /\ G.curcol = F.curcol
    BY <2>2, OpenSizes DEF Edits, Same
  <2>4. G.curcol + 1 \in 0..(Len(G.w) - 1)
    BY <1>1, <2>2, <2>3
  <2>5. Edits(R) /\ R.posted = G.posted /\ R.current = G.current
    BY <2>1, <2>2, <2>4, ColumnIs
  <2> QED BY <2>2, <2>5 DEF Same
<1>4. CASE ~(F.curcol + 1 < Len(F.w)) /\ ~Growable(F)
  BY <1>4 DEF Next_Character
<1> QED BY <1>2, <1>3, <1>4

LEMMA MovedIs ==
    ASSUME Visitable, NEW F, Edits(F), NEW request \in CursorRequests,
           NEW R, R = Moved(F, request)
    PROVE  Edits(R) /\ R.posted = F.posted /\ R.current = F.current
<1> DEFINE G == Synchronize_Buffer(F)
           line == Buffer(G, G.current)
           back == After(SubSeq(line, 1, G.curcol))
           word == After_Last_Whitespace(line, back)
           n == Len(G.w)
<1>1. Edits(G) /\ Same(F, G) /\ G.w = F.w /\ line = G.w
  BY SyncIs
<1>2. G.posted = F.posted /\ G.current = F.current
  BY <1>1 DEF Same
<1>3. n \in Nat /\ G.curcol \in Nat /\ G.curcol < n /\ G.w \in Texts
  BY <1>1, OpenSizes DEF Edits
<1>4. ASSUME NEW col \in 0..(n - 1), R = [G EXCEPT !.curcol = col]
      PROVE  Edits(R) /\ R.posted = F.posted /\ R.current = F.current
  <2>1. Edits(R) /\ R.posted = G.posted /\ R.current = G.current
    BY <1>1, <1>4, ColumnIs
  <2> QED BY <1>2, <2>1
<1>5. ASSUME NEW c \in 0..(n - 1)
      PROVE  After(SubSeq(line, 1, c)) \in 0..c
  <2>1. c \in 0..Len(line) /\ line \in Texts
    BY <1>1, <1>3
  <2>2. SubSeq(line, 1, c) \in Texts /\ Len(SubSeq(line, 1, c)) = c
    BY <2>1, Prefix
  <2> QED BY <2>2, AfterIs
<1>6. back \in 0..(n - 1)
  BY <1>3, <1>5
<1>7. word \in 0..(n - 1)
  <2>1. back \in Nat /\ word \in 0..back
    BY <1>6, AfterLastIs
  <2> QED BY <1>3, <1>6, <2>1
<1>8. CASE request = "NEXT_CHAR"
  <2>1. R = Next_Character(F)
    BY <1>8 DEF Moved
  <2> QED BY <2>1, NextCharacterIs
<1>9. CASE request = "PREV_CHAR"
  <2> DEFINE col == IF F.curcol = 0 THEN 0 ELSE F.curcol - 1
  <2>1. R = [F EXCEPT !.curcol = col]
    BY <1>9 DEF Moved
  <2>2. Len(F.w) \in Nat /\ F.curcol \in Nat /\ F.curcol < Len(F.w)
    BY OpenSizes DEF Edits
  <2>3. col \in 0..(Len(F.w) - 1)
    BY <2>2
  <2> HIDE DEF col
  <2> QED BY <2>1, <2>3, ColumnIs
<1>10. CASE request = "NEXT_WORD"
  <2> DEFINE from == Get_First_Whitespace(line, G.curcol)
             col == Get_Start_Of_Data(line, from)
  <2>1. R = [G EXCEPT !.curcol = col]
    BY <1>10 DEF Moved
  <2>2. from \in 0..(n - 1)
    BY <1>1, <1>3, StartIs
  <2>3. col \in 0..(n - 1)
    BY <1>1, <1>3, <2>2, StartIs
  <2> QED BY <1>4, <2>1, <2>3
<1>11. CASE request = "PREV_WORD"
  <2> DEFINE last == After(SubSeq(line, 1, word))
             col == IF back # G.curcol THEN word ELSE After_Last_Whitespace(line, last)
  <2>1. R = [G EXCEPT !.curcol = col]
    BY <1>11 DEF Moved
  <2>2. last \in 0..word
    BY <1>5, <1>7
  <2>3. After_Last_Whitespace(line, last) \in 0..last /\ last \in Nat
    BY <1>3, <1>7, <2>2, AfterLastIs
  <2>4. After_Last_Whitespace(line, last) \in 0..(n - 1)
    BY <1>3, <1>7, <2>2, <2>3
  <2>5. col \in 0..(n - 1)
    BY <1>7, <2>4
  <2> QED BY <1>4, <2>1, <2>5
<1>12. CASE request = "BEG_FIELD"
  <2> DEFINE col == Get_Start_Of_Data(line, 0)
  <2>1. R = [G EXCEPT !.curcol = col]
    BY <1>12 DEF Moved
  <2>2. 0 \in 0..(Len(line) - 1) /\ line \in Texts
    BY <1>1, <1>3
  <2>3. col \in 0..(n - 1)
    BY <1>1, <2>2, StartIs
  <2> QED BY <1>4, <2>1, <2>3
<1>13. CASE request = "END_FIELD"
  <2> DEFINE col == Smaller(After(line), Len(line) - 1)
  <2>1. R = [G EXCEPT !.curcol = col]
    BY <1>13 DEF Moved
  <2>2. After(line) \in 0..n
    BY <1>1, <1>3, AfterIs
  <2>3. col \in 0..(n - 1)
    BY <1>1, <1>3, <2>2 DEF Smaller
  <2> QED BY <1>4, <2>1, <2>3
<1> QED BY <1>8, <1>9, <1>10, <1>11, <1>12, <1>13 DEF CursorRequests

LEMMA ScrolledIs ==
    ASSUME Visitable, NEW F, InSight(F), NEW columns \in Int, NEW R, R = HSC_Generic(F, columns)
    PROVE  Edits(R) /\ R.posted = F.posted /\ R.current = F.current
<1> DEFINE k == Cols[F.current]
           n == Len(F.w)
           c == F.curcol
           b == F.begincol
           room == n - k - b
           go == IF columns > 0 THEN Smaller(columns, room) ELSE -Smaller(-columns, b)
<1>1. /\ n \in Nat /\ k \in Nat /\ c \in Nat /\ c < n /\ b \in Nat /\ b + k <= n /\ 0 < k
      /\ F \in Forms /\ Edits(F)
  BY OpenSizes DEF InSight, Edits
<1>2. c \in b..(b + k - 1)
  BY DEF InSight
<1>3. CASE columns > 0 /\ go <= 0
  <2>1. R = F
    BY <1>3 DEF HSC_Generic
  <2> QED BY <1>1, <2>1
<1>4. CASE ~(columns > 0 /\ go <= 0)
  <2>1. R = At(F, c + go, b + go)
    <3>1. R = [F EXCEPT !.curcol = @ + go, !.begincol = @ + go]
      BY <1>4 DEF HSC_Generic
    <3> HIDE DEF go
    <3> QED BY <1>1, <3>1 DEF At, Forms
  <2>2. c + go \in 0..(n - 1) /\ b + go \in 0..(n - k)
    <3> HIDE DEF c, b, n, k
    <3> QED BY ONLY <1>1, <1>2, <1>4, columns \in Int DEF Smaller
  <2> QED BY <1>1, <2>1, <2>2, AtIs
<1> QED BY <1>3, <1>4
-----------------------------------------------------------------------------
(* Editing.                                                                  *)

Checked(F, R) ==
    R.current # F.current => Check_Field(F.current, R.buf[Owner[F.current]])

LEMMA OpenCursor ==
    ASSUME NEW F, Opened(F)
    PROVE  F.w \in Texts /\ F.curcol \in 0..(Len(F.w) - 1) /\ Len(F.w) \in Nat
BY OpenSizes

LEMMA InsertIs ==
    ASSUME Visitable, NEW F, Opened(F), Is_There_Room(F) \/ Edits(F), NEW ch \in Chars,
           NEW R, R = Insert(F, ch)
    PROVE  IF Is_There_Room(F) \/ Growable(F) THEN Edits(R) /\ Same(F, R) /\ R.typed ELSE R = F
<1>1. CASE Is_There_Room(F)
  <2> DEFINE text == Inserted(F.w, F.curcol, ch)
  <2>1. R = Edited(F, text)
    BY <1>1 DEF Insert
  <2>2. text \in Texts /\ Len(text) = Len(F.w)
    BY OpenCursor, EditsAre
  <2> HIDE DEF text
  <2> QED BY <1>1, <2>1, <2>2, EditedIs
<1>2. CASE ~Is_There_Room(F) /\ Growable(F)
  <2> DEFINE G == Field_Grown(F)
             text == Inserted(G.w, G.curcol, ch)
  <2>1. R = Edited(G, text)
    BY <1>2 DEF Insert
  <2>2. Edits(G) /\ Same(F, G)
    BY <1>2, GrownIs
  <2> HIDE DEF G
  <2>3. Opened(G)
    BY <2>2 DEF Edits
  <2>4. text \in Texts /\ Len(text) = Len(G.w)
    BY <2>3, OpenCursor, EditsAre
  <2> HIDE DEF text
  <2>5. Edits(R) /\ Same(G, R) /\ R.typed
    BY <2>1, <2>3, <2>4, EditedIs
  <2> QED BY <1>2, <2>2, <2>5 DEF Same
<1>3. CASE ~Is_There_Room(F) /\ ~Growable(F)
  BY <1>3 DEF Insert
<1> QED BY <1>1, <1>2, <1>3

LEMMA NextOnPage ==
    ASSUME Visitable, NEW F, Opened(F)
    PROVE  /\ Next_Field_On_Page(F.current) \in OnIt(F.curpage)
           /\ Previous_Field_On_Page(F.current) \in OnIt(F.curpage)
<1>1. F \in Forms /\ PageOf[F.current] = F.curpage
  BY DEF Opened, Sited
<1>2. F.current \in Fields /\ F.curpage \in Pages
  BY <1>1, FormIs, PagesAre
<1> QED BY <1>1, <1>2, SortedNextIs

LEMMA DataEntryIs ==
    ASSUME Visitable, NEW F, Edits(F), F.posted, NEW ch \in Letters, NEW R, R = Data_Entry(F, ch)
    PROVE  Edits(R) /\ R.posted /\ Checked(F, R)
<1> DEFINE f == F.current
           clear == f \in Blank /\ First_Position(F) /\ ~F.fcheck /\ ~F.modified
           G == IF clear THEN Put(F, Blanks(Len(F.w))) ELSE F
           H == IF G.ovlmode THEN Edited(G, Overlaid(G.w, G.curcol, ch)) ELSE Insert(G, ch)
           end == H.curcol = Len(H.w) - 1
           stuck == ~G.ovlmode /\ ~Is_There_Room(G) /\ ~Growable(G)
           skip == end /\ ~Growable(H) /\ f \in Autoskip
           K == IF end /\ Growable(H) THEN Field_Grown(H) ELSE H
<1>1. R = IF stuck THEN G ELSE IF skip THEN Goto(H, Next_Field_On_Page(f)) ELSE Next_Character(K)
  BY DEF Data_Entry
<1>2. ch \in Chars /\ Opened(F)
  BY DEF Chars, Edits
<1>3. F.w \in Texts /\ Len(F.w) \in Nat /\ 0 < Len(F.w) /\ f \in Fields
  BY <1>2, OpenSizes
<1>4. Opened(G) /\ Same(F, G) /\ (Is_There_Room(G) \/ G = F)
  <2>1. CASE clear
    <3>1. Blanks(Len(F.w)) \in Texts /\ Len(Blanks(Len(F.w))) = Len(F.w)
          /\ Blanks(Len(F.w))[Len(F.w)] = blank
      BY <1>3, BlanksAre
    <3>2. G = Put(F, Blanks(Len(F.w)))
      BY <2>1
    <3> HIDE DEF G, clear
    <3>3. Opened(G) /\ Same(F, G) /\ G.w = Blanks(Len(F.w))
      BY <1>2, <3>1, <3>2, PutIs
    <3>4. Is_There_Room(G)
      BY <3>1, <3>3 DEF Is_There_Room, Last
    <3> QED BY <3>3, <3>4
  <2>2. CASE ~clear
    <3>1. G = F
      BY <2>2
    <3> QED BY <1>2, <3>1 DEF Same
  <2> QED BY <2>1, <2>2
<1> HIDE DEF clear, G
<1>5. Is_There_Room(G) \/ Edits(G)
  BY <1>4
<1>6. CASE stuck
  BY <1>1, <1>4, <1>6 DEF Checked, Same
<1>7. CASE ~stuck
  <2>1. Edits(H) /\ Same(G, H) /\ H.typed
    <3>1. CASE G.ovlmode
      <4> DEFINE text == Overlaid(G.w, G.curcol, ch)
      <4>1. text \in Texts /\ Len(text) = Len(G.w)
        BY <1>2, <1>4, OpenCursor, EditsAre
      <4>2. H = Edited(G, text)
        BY <3>1
      <4> HIDE DEF H, text
      <4> QED BY <1>4, <4>1, <4>2, EditedIs
    <3>2. CASE ~G.ovlmode
      <4>1. H = Insert(G, ch) /\ (Is_There_Room(G) \/ Growable(G))
        BY <1>7, <3>2
      <4> HIDE DEF H
      <4> QED BY <1>2, <1>4, <1>5, <4>1, InsertIs
    <3> QED BY <3>1, <3>2
  <2> HIDE DEF H
  <2>2. H.current = f /\ H.posted
    BY <1>4, <2>1 DEF Same
  <2>3. CASE skip
    <3>1. R = Goto(H, Next_Field_On_Page(f))
      BY <1>1, <1>7, <2>3
    <3>2. Next_Field_On_Page(f) \in OnIt(H.curpage)
      BY <2>1, <2>2, NextOnPage DEF Edits
    <3>3. Edits(R) /\ R.posted /\ Leaves(H, R)
      BY <2>1, <2>2, <3>1, <3>2, GotoIs
    <3> QED BY <2>1, <2>2, <3>3 DEF Leaves, Checked
  <2>4. CASE ~skip
    <3>1. R = Next_Character(K)
      BY <1>1, <1>7, <2>4
    <3>2. Edits(K) /\ K.posted /\ K.current = f
      <4>1. CASE end /\ Growable(H)
        <5>1. K = Field_Grown(H) /\ Growable(H)
          BY <4>1
        <5> HIDE DEF K, end
        <5> QED BY <2>1, <2>2, <5>1, GrownIs DEF Same
      <4>2. CASE ~(end /\ Growable(H))
        <5>1. K = H
          BY <4>2
        <5> QED BY <2>1, <2>2, <5>1
      <4> QED BY <4>1, <4>2
    <3> HIDE DEF K
    <3>3. Edits(R) /\ R.posted /\ R.current = f
      BY <3>1, <3>2, NextCharacterIs
    <3> QED BY <3>3 DEF Checked
  <2> QED BY <2>3, <2>4
<1> QED BY <1>6, <1>7

LEMMA DeleteWordIs ==
    ASSUME Visitable, NEW F, Edits(F), NEW R, R = Delete_Word(F)
    PROVE  Edits(R) /\ R.posted = F.posted /\ R.current = F.current
<1> DEFINE G == Synchronize_Buffer(F)
           line == Buffer(G, G.current)
           n == Len(G.w)
           begin == After_Last_Whitespace(line, G.curcol)
           rest == Get_Start_Of_Data(line, Get_First_Whitespace(line, G.curcol))
           tail == IF rest = G.curcol \/ line[rest + 1] = blank THEN <<>>
                   ELSE SubSeq(line, rest + 1, Len(line))
           long == SubSeq(line, 1, begin) \o tail \o Blanks(Len(line))
           text == SubSeq(long, 1, Len(line))
           E == Edited(G, text)
<1>1. Edits(G) /\ Same(F, G) /\ line = G.w
  BY SyncIs
<1>2. G.posted = F.posted /\ G.current = F.current /\ Opened(G)
  BY <1>1 DEF Same, Edits
<1>3. n \in Nat /\ G.curcol \in Nat /\ G.curcol < n /\ G.w \in Texts
  BY <1>2, OpenSizes
<1>4. CASE line[G.curcol + 1] = blank
  <2>1. R = G
    BY <1>4 DEF Delete_Word
  <2> QED BY <1>1, <1>2, <2>1
<1>5. CASE line[G.curcol + 1] # blank
  <2>1. R = [E EXCEPT !.curcol = begin]
    BY <1>5 DEF Delete_Word
  <2>2. begin \in 0..G.curcol
    BY <1>3, AfterLastIs
  <2>3. line \in Texts /\ Len(line) = n /\ G.curcol \in 0..(Len(line) - 1)
    BY <1>1, <1>3
  <2>4. rest \in 0..(n - 1)
    <3>1. Get_First_Whitespace(line, G.curcol) \in 0..(Len(line) - 1)
      BY <2>3, StartIs
    <3> QED BY <2>3, <3>1, StartIs
  <2> HIDE DEF G, line, begin, rest
  <2>5. tail \in Texts /\ Len(tail) \in Nat
    <3>1. <<>> \in Texts
      BY DEF Texts
    <3>2. SubSeq(line, rest + 1, n) \in Texts
      <4> DEFINE m == n - rest
      <4>1. rest \in Nat /\ m \in Nat /\ rest + m = n /\ rest + m <= Len(line)
        BY <1>3, <2>3, <2>4
      <4> HIDE DEF m
      <4>2. SubSeq(line, rest + 1, rest + m) \in Texts
        BY ONLY <2>3, <4>1, Pieces
      <4> QED BY <4>1, <4>2
    <3>3. tail \in Texts
      BY <2>3, <3>1, <3>2
    <3> QED BY <3>3 DEF Texts
  <2> HIDE DEF tail
  <2>6. long \in Texts /\ Len(long) \in Nat /\ n <= Len(long)
    <3> DEFINE a == SubSeq(line, 1, begin)
               z == Blanks(Len(line))
    <3>1. a \in Texts /\ Len(a) = begin
      BY <1>3, <2>2, <2>3, Prefix
    <3>2. z \in Texts /\ Len(z) = n
      BY <1>3, <2>3, BlanksAre
    <3> HIDE DEF a, z
    <3>3. a \o tail \in Texts /\ Len(a \o tail) = begin + Len(tail)
      BY <2>5, <3>1, Joined
    <3>4. (a \o tail) \o z \in Texts /\ Len((a \o tail) \o z) = (begin + Len(tail)) + n
      BY <3>2, <3>3, Joined
    <3>5. (begin + Len(tail)) + n \in Nat /\ n <= (begin + Len(tail)) + n
      <4> DEFINE m == Len(tail)
      <4>1. begin \in Nat /\ m \in Nat /\ n \in Nat
        BY <1>3, <2>2, <2>5
      <4> HIDE DEF m, n
      <4> QED BY ONLY <4>1
    <3> QED BY <3>4, <3>5 DEF a, z
  <2> HIDE DEF long
  <2>7. text \in Texts /\ Len(text) = n
    BY <1>3, <2>3, <2>6, Prefix
  <2> HIDE DEF text
  <2>8. Edits(E) /\ Same(G, E) /\ E.w = text
    BY <1>2, <2>7, EditedIs
  <2> HIDE DEF E
  <2>9. begin \in 0..(Len(E.w) - 1)
    BY <1>3, <2>2, <2>7, <2>8
  <2>10. Edits(R) /\ R.posted = E.posted /\ R.current = E.current
    BY <2>1, <2>8, <2>9, ColumnIs
  <2> QED BY <1>2, <2>8, <2>10 DEF Same
<1> QED BY <1>4, <1>5

LEMMA NewLineIs ==
    ASSUME Visitable, NEW F, Edits(F), F.posted, NEW R, R = New_Line(F)
    PROVE  Edits(R) /\ R.posted /\ (F.typed => Checked(F, R))
<1> DEFINE G == IF F.ovlmode /\ ~First_Position(F) THEN Edited(F, ClearFrom(F.w, F.curcol)) ELSE F
<1>1. CASE ~Overload
  BY <1>1 DEF New_Line, Checked
<1>2. CASE Overload
  <2>1. R = Goto(G, Next_Field_On_Page(F.current))
    BY <1>2 DEF New_Line
  <2>2. Opened(F)
    BY DEF Edits
  <2>3. Edits(G) /\ Same(F, G) /\ (F.typed => G.typed)
    <3>1. CASE F.ovlmode /\ ~First_Position(F)
      <4>1. blank \in Chars
        BY DEF Chars
      <4>2. ClearFrom(F.w, F.curcol) \in Texts /\ Len(ClearFrom(F.w, F.curcol)) = Len(F.w)
        BY <2>2, <4>1, OpenCursor, EditsAre
      <4>3. G = Edited(F, ClearFrom(F.w, F.curcol))
        BY <3>1
      <4> HIDE DEF G
      <4> QED BY <2>2, <4>2, <4>3, EditedIs
    <3>2. CASE ~(F.ovlmode /\ ~First_Position(F))
      <4>1. G = F
        BY <3>2
      <4> QED BY <4>1 DEF Same
    <3> QED BY <3>1, <3>2
  <2> HIDE DEF G
  <2>4. G.current = F.current /\ G.curpage = F.curpage /\ G.posted
    BY <2>3 DEF Same
  <2>5. Next_Field_On_Page(F.current) \in OnIt(G.curpage)
    BY <2>2, <2>4, NextOnPage
  <2>6. Edits(R) /\ R.posted /\ Leaves(G, R)
    BY <2>1, <2>3, <2>4, <2>5, GotoIs
  <2> QED BY <2>3, <2>4, <2>6 DEF Leaves, Checked
<1> QED BY <1>1, <1>2 DEF New_Line

LEMMA EditingIs ==
    ASSUME Visitable, NEW F, Edits(F), F.posted, NEW request \in EditRequests,
           request # "NEW_LINE", NEW R, R = Field_Editing(F, request)
    PROVE  Edits(R) /\ R.posted /\ Leaves(F, R)
<1>1. Opened(F) /\ blank \in Chars
  BY DEF Edits, Chars
<1>2. F.w \in Texts /\ F.curcol \in 0..(Len(F.w) - 1) /\ Len(F.w) \in Nat
  BY <1>1, OpenCursor
<1>3. ASSUME Edits(R), R.posted = F.posted, R.current = F.current
      PROVE  Edits(R) /\ R.posted /\ Leaves(F, R)
  BY <1>3 DEF Leaves
<1>4. ASSUME NEW text \in Texts, Len(text) = Len(F.w), R = Edited(F, text)
      PROVE  Edits(R) /\ R.posted /\ Leaves(F, R)
  <2>1. Edits(R) /\ Same(F, R)
    BY ONLY Visitable, <1>1, <1>4, EditedIs
  <2> QED BY <1>3, <2>1 DEF Same
<1>5. ASSUME NEW text \in Texts, Len(text) = Len(F.w), NEW col \in 0..(Len(F.w) - 1),
             R = [Edited(F, text) EXCEPT !.curcol = col]
      PROVE  Edits(R) /\ R.posted /\ Leaves(F, R)
  <2> DEFINE E == Edited(F, text)
  <2>1. Edits(E) /\ Same(F, E) /\ E.w = text
    BY <1>1, <1>5, EditedIs
  <2>2. R = [E EXCEPT !.curcol = col] /\ col \in 0..(Len(E.w) - 1)
    BY <1>5, <2>1
  <2> HIDE DEF E
  <2>3. Edits(R) /\ R.posted = E.posted /\ R.current = E.current
    BY <2>1, <2>2, ColumnIs
  <2> QED BY <1>3, <2>1, <2>3 DEF Same
<1>6. CASE R = F
  BY <1>3, <1>6
<1>7. CASE request = "DEL_PREV"
  <2>1. R = Delete_Previous(F)
    BY <1>7 DEF Field_Editing
  <2>2. CASE First_Position(F) /\ Overload
    <3>1. R = Goto(F, Previous_Field_On_Page(F.current))
      BY <2>1, <2>2 DEF Delete_Previous
    <3> QED BY <1>1, <3>1, NextOnPage, GotoIs
  <2>3. CASE ~First_Position(F) /\ F.current \in Edit
    <3> DEFINE E == Edited(F, Deleted(F.w, F.curcol - 1))
    <3>1. R = [E EXCEPT !.curcol = E.curcol - 1]
      BY <2>1, <2>3 DEF Delete_Previous
    <3>2. F.curcol - 1 \in 0..(Len(F.w) - 1)
      BY <1>2, <2>3 DEF First_Position
    <3>3. Deleted(F.w, F.curcol - 1) \in Texts /\ Len(Deleted(F.w, F.curcol - 1)) = Len(F.w)
      BY <1>1, <1>2, <3>2, EditsAre
    <3>4. E.curcol = F.curcol
      <4> HIDE DEF E
      <4>1. Same(F, E)
        BY <1>1, <3>3, EditedIs DEF E
      <4> QED BY <4>1 DEF Same
    <3>5. R = [E EXCEPT !.curcol = F.curcol - 1]
      BY <3>1, <3>4
    <3> QED BY <1>5, <3>2, <3>3, <3>5
  <2>4. CASE ~(First_Position(F) /\ Overload) /\ ~(~First_Position(F) /\ F.current \in Edit)
    BY <1>6, <2>1, <2>4 DEF Delete_Previous
  <2> QED BY <2>2, <2>3, <2>4
<1>8. CASE request # "DEL_PREV" /\ F.current \notin Edit
  <2>1. R = F
    BY <1>8 DEF Field_Editing
  <2> QED BY <1>6, <2>1
<1>9. CASE request = "INS_CHAR" /\ F.current \in Edit
  <2>1. R = Insert(F, blank)
    BY <1>9 DEF Field_Editing
  <2>2. R = F \/ (Edits(R) /\ Same(F, R))
    BY <1>1, <2>1, InsertIs
  <2> QED BY <1>3, <1>6, <2>2 DEF Same
<1>10. CASE request = "DEL_CHAR" /\ F.current \in Edit
  <2>1. R = Edited(F, Deleted(F.w, F.curcol))
    BY <1>10 DEF Field_Editing
  <2>2. Deleted(F.w, F.curcol) \in Texts /\ Len(Deleted(F.w, F.curcol)) = Len(F.w)
    BY <1>1, <1>2, EditsAre
  <2> QED BY <1>4, <2>1, <2>2
<1>11. CASE request = "DEL_WORD" /\ F.current \in Edit
  <2>1. R = Delete_Word(F)
    BY <1>11 DEF Field_Editing
  <2> QED BY <1>3, <2>1, DeleteWordIs
<1>12. CASE request = "CLR_EOL" /\ F.current \in Edit
  <2>1. R = Edited(F, ClearFrom(F.w, F.curcol))
    BY <1>12 DEF Field_Editing
  <2>2. ClearFrom(F.w, F.curcol) \in Texts /\ Len(ClearFrom(F.w, F.curcol)) = Len(F.w)
    BY <1>1, <1>2, EditsAre
  <2> QED BY <1>4, <2>1, <2>2
<1>13. CASE request = "CLR_FIELD" /\ F.current \in Edit
  <2>1. R = [Edited(F, Blanks(Len(F.w))) EXCEPT !.curcol = 0]
    BY <1>13 DEF Field_Editing
  <2>2. Blanks(Len(F.w)) \in Texts /\ Len(Blanks(Len(F.w))) = Len(F.w) /\ 0 \in 0..(Len(F.w) - 1)
    BY <1>2, BlanksAre
  <2> QED BY <1>5, <2>1, <2>2
<1> QED BY <1>7, <1>8, <1>9, <1>10, <1>11, <1>12, <1>13 DEF EditRequests
-----------------------------------------------------------------------------
(* The application sets a buffer: the fields that use it and appear show it, *)
(* and the current one is edited from its beginning.                         *)

Synced(B, S, T) ==
    /\ S \in Forms
    /\ S.posted = B.posted /\ S.current = B.current /\ S.curpage = B.curpage
    /\ S.modified = B.modified /\ S.fcheck = B.fcheck /\ S.buf = B.buf /\ S.growable = B.growable
    /\ \A g \in Fields : S.shown[g] = IF g \in T /\ Really_Appears(B, g)
                                      THEN SubSeq(Buffer(B, g), 1, Cols[g]) ELSE B.shown[g]
    /\ IF B.current \in T /\ Really_Appears(B, B.current)
       THEN S.curcol = 0 /\ S.begincol = 0 /\ S.typed = FALSE /\ S.w = Buffer(B, B.current)
       ELSE S.curcol = B.curcol /\ S.begincol = B.begincol /\ S.typed = B.typed /\ S.w = B.w

LEMMA ShownOf ==
    ASSUME NEW B \in Forms, Buffers(B), NEW f \in Fields
    PROVE  /\ Buffer(B, f) \in Texts /\ Len(Buffer(B, f)) \in Nat
           /\ Cols[f] \in Nat /\ 0 < Cols[f] /\ Cols[f] <= Len(Buffer(B, f))
           /\ SubSeq(Buffer(B, f), 1, Cols[f]) \in Texts
           /\ Cols[f] = Len(Buffer(B, f)) => SubSeq(Buffer(B, f), 1, Cols[f]) = Buffer(B, f)
<1>1. /\ Buffer(B, f) \in Texts /\ Len(Buffer(B, f)) \in Nat
      /\ Cols[f] \in Nat /\ 0 < Cols[f] /\ Cols[f] <= Len(Buffer(B, f))
  BY BufferIs, FieldFacts DEF Buffers
<1> QED BY <1>1, Prefix

LEMMA SyncFieldIs ==
    ASSUME NEW B \in Forms, Buffers(B), NEW f \in Fields, NEW S, S = Synchronize_Field(B, f)
    PROVE  Synced(B, S, {f})
<1> DEFINE text == Buffer(B, f)
           s == SubSeq(text, 1, Cols[f])
           sh == [B.shown EXCEPT ![f] = s]
<1>1. /\ text \in Texts /\ Len(text) \in Nat /\ s \in Texts
      /\ Cols[f] \in Nat /\ 0 < Cols[f] /\ Cols[f] <= Len(text)
      /\ Cols[f] = Len(text) => s = text
  BY ShownOf
<1>2. B.shown \in [Fields -> Texts] /\ B.curcol \in Nat /\ B.begincol \in Nat
  BY FormIs
<1> HIDE DEF text, s
<1>3. sh \in [Fields -> Texts] /\ sh[f] = s /\ \A g \in Fields : g # f => sh[g] = B.shown[g]
  BY <1>1, <1>2
<1>4. CASE ~Really_Appears(B, f)
  <2>1. S = B
    BY <1>4 DEF Synchronize_Field
  <2> QED BY <1>4, <2>1 DEF Synced
<1>5. CASE Really_Appears(B, f) /\ f # B.current
  <2>1. S = [B EXCEPT !.shown = sh]
    BY <1>5 DEF Synchronize_Field, Display_Field, Forms, text, s
  <2> HIDE DEF sh
  <2>2. S \in Forms
    BY ONLY B \in Forms, <1>3, <2>1 DEF Forms
  <2>3. /\ S.posted = B.posted /\ S.current = B.current /\ S.curpage = B.curpage
        /\ S.modified = B.modified /\ S.fcheck = B.fcheck /\ S.buf = B.buf /\ S.growable = B.growable
        /\ S.curcol = B.curcol /\ S.begincol = B.begincol /\ S.typed = B.typed /\ S.w = B.w
        /\ S.shown = sh
    BY ONLY B \in Forms, <2>1 DEF Forms
  <2> QED BY <1>3, <1>5, <2>2, <2>3 DEF Synced, s, text
<1>6. CASE Really_Appears(B, f) /\ f = B.current
  <2> DEFINE Z == [B EXCEPT !.curcol = 0, !.begincol = 0, !.typed = FALSE]
             P == Put(Z, text)
  <2>1. S = Refresh_Current_Field(P)
    BY <1>6 DEF Synchronize_Field, text
  <2>2. /\ Z.posted = B.posted /\ Z.current = B.current /\ Z.curpage = B.curpage
        /\ Z.modified = B.modified /\ Z.fcheck = B.fcheck /\ Z.buf = B.buf /\ Z.growable = B.growable
        /\ Z.curcol = 0 /\ Z.begincol = 0 /\ Z.typed = FALSE /\ Z.shown = B.shown
    BY DEF Forms
  <2>3. Z \in Forms
    BY DEF Forms
  <2> HIDE DEF Z
  <2>4. \A F : F.buf = B.buf => (Has_Invisible_Parts(F, f) <=> Len(text) > Cols[f])
    BY DEF Has_Invisible_Parts, Buffer, text
  <2>5. Z.current = f /\ (Has_Invisible_Parts(Z, f) <=> Len(text) > Cols[f])
    BY <1>6, <2>2, <2>4
  <2>6. S = [Z EXCEPT !.w = text, !.shown = sh]
    <3>1. CASE Len(text) > Cols[f]
      <4>1. P = [Z EXCEPT !.w = text]
        BY <2>5, <3>1 DEF Put
      <4>2. P.curcol = 0 /\ P.begincol = 0 /\ P.buf = B.buf /\ P.current = f /\ P.w = text /\ P.shown = B.shown
        BY <2>2, <2>3, <2>5, <4>1 DEF Forms
      <4>3. Has_Invisible_Parts(P, f)
        BY <2>4, <3>1, <4>2
      <4>4. First_Column(P) = 0
        BY <1>1, <4>2 DEF First_Column
      <4>5. 0 + 1 = 1 /\ 0 + Cols[f] = Cols[f]
        BY <1>1
      <4>6. S = [P EXCEPT !.begincol = 0, !.shown[f] = s]
        BY <2>1, <4>2, <4>3, <4>4, <4>5 DEF Refresh_Current_Field, s
      <4>7. sh = [Z.shown EXCEPT ![f] = s]
        BY <2>2
      <4> HIDE DEF P, sh
      <4> QED BY ONLY <2>2, <2>3, <4>1, <4>6, <4>7 DEF Forms
    <3>2. CASE ~(Len(text) > Cols[f])
      <4>1. s = text
        BY <1>1, <3>2
      <4>2. P = [Z EXCEPT !.w = text, !.shown[f] = text]
        BY <2>5, <3>2 DEF Put
      <4>3. P.buf = B.buf /\ P.current = f
        BY <2>2, <2>3, <2>5, <4>2 DEF Forms
      <4>4. S = P
        BY <2>1, <2>4, <3>2, <4>3 DEF Refresh_Current_Field
      <4> QED BY <2>2, <2>3, <4>1, <4>2, <4>4 DEF Forms
    <3> QED BY <3>1, <3>2
  <2> HIDE DEF sh
  <2>7. S \in Forms
    BY ONLY <1>1, <1>3, <2>3, <2>6 DEF Forms
  <2>8. /\ S.posted = Z.posted /\ S.current = Z.current /\ S.curpage = Z.curpage
        /\ S.modified = Z.modified /\ S.fcheck = Z.fcheck /\ S.buf = Z.buf /\ S.growable = Z.growable
        /\ S.curcol = Z.curcol /\ S.begincol = Z.begincol /\ S.typed = Z.typed /\ S.w = text
        /\ S.shown = sh
    BY ONLY <2>3, <2>6 DEF Forms
  <2> QED BY <1>3, <1>6, <2>2, <2>7, <2>8 DEF Synced, s, text
<1> QED BY <1>4, <1>5, <1>6

LEMMA SyncedBuffers ==
    ASSUME NEW B \in Forms, Buffers(B), NEW S, NEW T, Synced(B, S, T)
    PROVE  /\ Buffers(S) /\ \A g \in Fields : Buffer(S, g) = Buffer(B, g)
           /\ \A g \in Fields : Really_Appears(S, g) <=> Really_Appears(B, g)
<1>1. \A g \in Fields : Buffer(S, g) = Buffer(B, g)
  BY DEF Synced, Buffer
<1>2. S.growable = B.growable
  BY DEF Synced
<1> QED BY <1>1, <1>2 DEF Buffers, Synced, Really_Appears

LEMMA SyncLinkedIs ==
    ASSUME NEW B \in Forms, Buffers(B), NEW f \in Fields, NEW R, R = Synchronize_Linked_Fields(B, f)
    PROVE  Synced(B, R, Linked(f) \ {f})
<1> DEFINE c == B.current
           others == Linked(f) \ {f}
           G == IF c \in others THEN Synchronize_Field(B, c) ELSE B
           now(g) == IF g \in others \ {c} /\ Really_Appears(B, g)
                     THEN SubSeq(Buffer(B, g), 1, Cols[g]) ELSE G.shown[g]
           sh == [g \in Fields |-> now(g)]
<1>1. R = [G EXCEPT !.shown = sh]
  BY DEF Synchronize_Linked_Fields
<1>2. c \in Fields
  BY FormIs
<1>3. Synced(B, G, others \cap {c})
  <2>1. CASE c \in others
    <3>1. G = Synchronize_Field(B, c) /\ others \cap {c} = {c}
      BY <2>1
    <3> HIDE DEF G
    <3> QED BY <1>2, <3>1, SyncFieldIs
  <2>2. CASE c \notin others
    <3>1. G = B /\ others \cap {c} = {}
      BY <2>2
    <3> QED BY <3>1 DEF Synced
  <2> QED BY <2>1, <2>2
<1> HIDE DEF G
<1>4. G \in Forms /\ G.shown \in [Fields -> Texts]
  BY <1>3, FormIs DEF Synced
<1>5. \A g \in Fields : SubSeq(Buffer(B, g), 1, Cols[g]) \in Texts
  BY ShownOf
<1>6. sh \in [Fields -> Texts] /\ \A g \in Fields : sh[g] = now(g)
  BY <1>4, <1>5
<1> HIDE DEF sh
<1>7. R \in Forms
  BY ONLY <1>1, <1>4, <1>6 DEF Forms
<1>8. /\ R.posted = G.posted /\ R.current = G.current /\ R.curpage = G.curpage
      /\ R.modified = G.modified /\ R.fcheck = G.fcheck /\ R.buf = G.buf /\ R.growable = G.growable
      /\ R.curcol = G.curcol /\ R.begincol = G.begincol /\ R.typed = G.typed /\ R.w = G.w
      /\ R.shown = sh
  BY ONLY <1>1, <1>4 DEF Forms
<1>9. ASSUME NEW g \in Fields
      PROVE  R.shown[g] = IF g \in others /\ Really_Appears(B, g)
                          THEN SubSeq(Buffer(B, g), 1, Cols[g]) ELSE B.shown[g]
  <2>1. G.shown[g] = IF g \in others \cap {c} /\ Really_Appears(B, g)
                     THEN SubSeq(Buffer(B, g), 1, Cols[g]) ELSE B.shown[g]
    BY <1>3 DEF Synced
  <2>2. R.shown[g] = now(g)
    BY <1>6, <1>8
  <2> QED BY <2>1, <2>2
<1>10. c \in others <=> c \in others \cap {c}
  OBVIOUS
<1> HIDE DEF others
<1>11. Synced(B, R, others)
  BY <1>3, <1>7, <1>8, <1>9, <1>10 DEF Synced
<1> QED BY <1>11 DEF others

LEMMA SyncedTwice ==
    ASSUME NEW B \in Forms, Buffers(B), NEW S, NEW R, NEW T, NEW U, Synced(B, S, T), Synced(S, R, U)
    PROVE  Synced(B, R, T \cup U)
<1>1. /\ \A g \in Fields : Buffer(S, g) = Buffer(B, g)
      /\ \A g \in Fields : Really_Appears(S, g) <=> Really_Appears(B, g)
  BY SyncedBuffers
<1>2. B.current \in Fields /\ S.current = B.current
  BY FormIs DEF Synced
<1>3. ASSUME NEW g \in Fields
      PROVE  R.shown[g] = IF g \in T \cup U /\ Really_Appears(B, g)
                          THEN SubSeq(Buffer(B, g), 1, Cols[g]) ELSE B.shown[g]
  <2>1. S.shown[g] = IF g \in T /\ Really_Appears(B, g)
                     THEN SubSeq(Buffer(B, g), 1, Cols[g]) ELSE B.shown[g]
    BY DEF Synced
  <2>2. R.shown[g] = IF g \in U /\ Really_Appears(S, g)
                     THEN SubSeq(Buffer(S, g), 1, Cols[g]) ELSE S.shown[g]
    BY DEF Synced
  <2> QED BY <1>1, <2>1, <2>2
<1>4. /\ R \in Forms
      /\ R.posted = B.posted /\ R.current = B.current /\ R.curpage = B.curpage
      /\ R.modified = B.modified /\ R.fcheck = B.fcheck /\ R.buf = B.buf /\ R.growable = B.growable
  BY DEF Synced
<1>5. IF B.current \in T \cup U /\ Really_Appears(B, B.current)
      THEN R.curcol = 0 /\ R.begincol = 0 /\ R.typed = FALSE /\ R.w = Buffer(B, B.current)
      ELSE R.curcol = B.curcol /\ R.begincol = B.begincol /\ R.typed = B.typed /\ R.w = B.w
  <2>1. IF B.current \in T /\ Really_Appears(B, B.current)
        THEN S.curcol = 0 /\ S.begincol = 0 /\ S.typed = FALSE /\ S.w = Buffer(B, B.current)
        ELSE S.curcol = B.curcol /\ S.begincol = B.begincol /\ S.typed = B.typed /\ S.w = B.w
    BY DEF Synced
  <2>2. IF B.current \in U /\ Really_Appears(B, B.current)
        THEN R.curcol = 0 /\ R.begincol = 0 /\ R.typed = FALSE /\ R.w = Buffer(B, B.current)
        ELSE R.curcol = S.curcol /\ R.begincol = S.begincol /\ R.typed = S.typed /\ R.w = S.w
    BY <1>1, <1>2 DEF Synced
  <2> QED BY <2>1, <2>2
<1> QED BY <1>3, <1>4, <1>5 DEF Synced
(* set_field_buffer() with another text of the same length.                  *)
LEMMA SetBufferIs ==
    ASSUME Visitable, NEW F \in Forms, Buffers(F), NEW f \in Fields,
           NEW text \in Texts, Len(text) = Len(Buffer(F, f)),
           NEW B, B = [F EXCEPT !.buf[Owner[f]] = text],
           NEW R, R = Synchronize_Linked_Fields(Synchronize_Field(B, f), f)
    PROVE  /\ InSight(F) /\ F.posted => InSight(R) /\ R.posted /\ R.current = F.current
           /\ Closed(F) /\ ~F.posted => Closed(R) /\ ~R.posted
<1> DEFINE bf == [F.buf EXCEPT ![Owner[f]] = text]
           S == Synchronize_Field(B, f)
           c == F.current
<1>1. Owner[f] \in Fields /\ F.buf \in [Fields -> Texts] /\ c \in Fields
  BY FormIs, FieldFacts
<1>2. bf \in [Fields -> Texts] /\ bf[Owner[f]] = text /\ \A o \in Fields : o # Owner[f] => bf[o] = F.buf[o]
  BY <1>1
<1>3. B = [F EXCEPT !.buf = bf]
  BY <1>1 DEF Forms
<1> HIDE DEF bf
<1>4. B \in Forms
  BY ONLY F \in Forms, <1>2, <1>3 DEF Forms
<1>5. /\ B.posted = F.posted /\ B.current = c /\ B.curpage = F.curpage /\ B.curcol = F.curcol
      /\ B.begincol = F.begincol /\ B.w = F.w /\ B.modified = F.modified /\ B.fcheck = F.fcheck
      /\ B.buf = bf /\ B.growable = F.growable /\ B.typed = F.typed /\ B.shown = F.shown
  BY ONLY F \in Forms, <1>3 DEF Forms
<1>6. \A g \in Fields : g \notin Linked(f) => Buffer(B, g) = Buffer(F, g)
  BY <1>2, <1>5, FieldFacts DEF Linked, Buffer
<1>7. \A g \in Fields : Len(Buffer(B, g)) = Len(Buffer(F, g))
  <2>1. \A g \in Fields : g \in Linked(f) => Buffer(B, g) = text /\ Buffer(F, g) = Buffer(F, f)
    BY <1>2, <1>5 DEF Linked, Buffer
  <2> QED BY <1>6, <2>1
<1>8. Buffers(B)
  BY <1>5, <1>7 DEF Buffers
<1>9. Synced(B, S, {f})
  BY <1>4, <1>8, SyncFieldIs
<1>10. R = Synchronize_Linked_Fields(S, f)
  OBVIOUS
<1> HIDE DEF S
<1>11. S \in Forms /\ Buffers(S)
  <2>1. Buffers(S)
    BY <1>4, <1>8, <1>9, SyncedBuffers
  <2>2. S \in Forms
    BY <1>9 DEF Synced
  <2> QED BY <2>1, <2>2
<1>12. Synced(B, R, Linked(f))
  <2>1. Synced(S, R, Linked(f) \ {f})
    BY <1>10, <1>11, SyncLinkedIs
  <2>2. {f} \cup (Linked(f) \ {f}) = Linked(f)
    BY DEF Linked
  <2>3. Synced(B, R, {f} \cup (Linked(f) \ {f}))
    BY ONLY <1>4, <1>8, <1>9, <2>1, SyncedTwice
  <2> QED BY <2>2, <2>3
<1>13. Buffers(R) /\ \A g \in Fields : Buffer(R, g) = Buffer(B, g)
  BY <1>4, <1>8, <1>12, SyncedBuffers
<1>14. /\ R \in Forms /\ R.posted = F.posted /\ R.current = c /\ R.curpage = F.curpage
       /\ R.modified = F.modified /\ R.fcheck = F.fcheck
  BY <1>5, <1>12 DEF Synced
<1>15. \A g \in Fields : Really_Appears(B, g) <=> F.posted /\ g \in selectable /\ PageOf[g] = F.curpage
  BY <1>5 DEF Really_Appears
<1>16. \A g \in Fields : R.shown[g] =
          IF g \in Linked(f) /\ F.posted /\ g \in selectable /\ PageOf[g] = F.curpage
          THEN SubSeq(Buffer(R, g), 1, Cols[g]) ELSE F.shown[g]
  BY <1>5, <1>12, <1>13, <1>15 DEF Synced
<1>17. IF c \in Linked(f) /\ F.posted /\ c \in selectable /\ PageOf[c] = F.curpage
       THEN R.curcol = 0 /\ R.begincol = 0 /\ R.typed = FALSE /\ R.w = Buffer(R, c)
       ELSE R.curcol = F.curcol /\ R.begincol = F.begincol /\ R.typed = F.typed /\ R.w = F.w
  BY <1>1, <1>5, <1>12, <1>13, <1>15 DEF Synced
<1>18. ASSUME Closed(F), ~F.posted PROVE Closed(R) /\ ~R.posted
  BY <1>13, <1>14, <1>17, <1>18 DEF Closed, Sited
<1>19. ASSUME InSight(F), F.posted PROVE InSight(R) /\ R.posted /\ R.current = F.current
  <2>1. Edits(F) /\ Opened(F) /\ Sited(F) /\ OthersShow(F)
    BY <1>19 DEF InSight, Edits, Opened
  <2>2. Sited(R)
    BY <1>14, <2>1 DEF Sited
  <2>3. \A g \in Fields : /\ Len(Buffer(R, g)) \in Nat /\ Cols[g] \in Nat /\ 0 < Cols[g]
                          /\ Cols[g] <= Len(Buffer(R, g)) /\ Len(Buffer(R, g)) = Len(Buffer(F, g))
    BY <1>7, <1>13, <1>14, ShownOf
  <2>4. ASSUME NEW g \in Fields, R.shown[g] = SubSeq(Buffer(R, g), 1, Cols[g]) PROVE Shows(R, g)
    <3>1. 0 \in 0..(Len(Buffer(R, g)) - Cols[g]) /\ 0 + 1 = 1 /\ 0 + Cols[g] = Cols[g]
      <4> DEFINE m == Len(Buffer(R, g))
                 k == Cols[g]
      <4>1. m \in Nat /\ k \in Nat /\ k <= m
        BY <2>3
      <4> HIDE DEF m, k
      <4>2. 0 \in 0..(m - k) /\ 0 + 1 = 1 /\ 0 + k = k
        BY ONLY <4>1
      <4> QED BY <4>2 DEF m, k
    <3>2. R.shown[g] = Part(Buffer(R, g), 0, g)
      BY <2>4, <3>1 DEF Part
    <3> QED BY <3>1, <3>2 DEF Shows
  <2>5. ASSUME NEW g \in selectable, g \notin Linked(f), g \notin Lag(F), PageOf[g] = F.curpage
        PROVE  Shows(R, g)
    <3>1. g \in Fields /\ Shows(F, g)
      BY <2>1, <2>5 DEF OthersShow, Visitable
    <3>2. R.shown[g] = F.shown[g] /\ Buffer(R, g) = Buffer(F, g)
      BY <1>6, <1>13, <1>16, <2>5, <3>1
    <3> QED BY <3>1, <3>2 DEF Shows
  <2>6. ASSUME NEW g \in selectable, g \in Linked(f), PageOf[g] = F.curpage
        PROVE  R.shown[g] = SubSeq(Buffer(R, g), 1, Cols[g]) /\ Shows(R, g)
    <3>1. g \in Fields /\ R.shown[g] = SubSeq(Buffer(R, g), 1, Cols[g])
      BY <1>16, <1>19, <2>6 DEF Visitable
    <3> QED BY <2>4, <3>1
  <2>7. CASE c \in Linked(f)
    <3>1. c \in selectable /\ PageOf[c] = F.curpage
      BY <2>1 DEF Sited
    <3>2. R.curcol = 0 /\ R.begincol = 0 /\ R.typed = FALSE /\ R.w = Buffer(R, c)
      BY <1>17, <1>19, <2>7, <3>1
    <3>3. Lag(F) \subseteq Linked(f) /\ Lag(R) = {c}
      BY <1>1, <1>14, <2>7, <3>2 DEF Lag, Linked
    <3>4. OthersShow(R)
      <4>1. ASSUME NEW g \in selectable, PageOf[g] = R.curpage PROVE Shows(R, g)
        BY <1>14, <2>5, <2>6, <3>3, <4>1
      <4> QED BY <4>1 DEF OthersShow
    <3>5. R.shown[c] = SubSeq(R.w, 1, Cols[c]) /\ R.w \in Texts
      BY <1>1, <1>14, <2>6, <2>7, <3>1, <3>2, BufferIs
    <3>6. /\ Len(R.w) = Len(Buffer(R, c)) /\ Len(R.w) \in Nat /\ Cols[c] \in Nat /\ 0 < Cols[c]
          /\ Cols[c] <= Len(R.w)
      BY <1>1, <2>3, <3>2
    <3>7. Len(R.w) = Cols[c] => R.shown[c] = R.w
      <4>1. Len(R.w) \in 0..Len(R.w)
        BY <3>6
      <4>2. SubSeq(R.w, 1, Len(R.w)) = R.w
        BY ONLY <3>5, <4>1, Prefix
      <4> QED BY <3>5, <4>2
    <3>8. Opened(R)
      <4>1. R.curcol \in 0..(Len(R.w) - 1) /\ R.begincol \in 0..(Len(R.w) - Cols[c])
        BY <3>2, <3>6
      <4> QED BY <1>13, <1>14, <2>2, <3>4, <3>6, <3>7, <4>1 DEF Opened
    <3>9. Edits(R)
      BY <1>14, <3>2, <3>8 DEF Edits
    <3>10. R.shown[c] = Part(R.w, R.begincol, c)
      <4>1. 0 + 1 = 1 /\ 0 + Cols[c] = Cols[c]
        BY <3>6
      <4> QED BY <3>2, <3>5, <4>1 DEF Part
    <3>11. R.curcol \in R.begincol..(R.begincol + Cols[c] - 1)
      BY <3>2, <3>6
    <3> QED BY <1>14, <1>19, <3>9, <3>10, <3>11 DEF InSight
  <2>8. CASE c \notin Linked(f)
    <3>1. R.curcol = F.curcol /\ R.begincol = F.begincol /\ R.typed = F.typed /\ R.w = F.w
      BY <1>17, <2>8
    <3>2. Lag(R) = Lag(F)
      BY <1>14, <3>1 DEF Lag
    <3>3. OthersShow(R)
      <4>1. ASSUME NEW g \in selectable \ Lag(R), PageOf[g] = R.curpage PROVE Shows(R, g)
        BY <1>14, <2>5, <2>6, <3>2, <4>1
      <4> QED BY <4>1 DEF OthersShow
    <3>4. R.shown[c] = F.shown[c] /\ Buffer(R, c) = Buffer(F, c)
      BY <1>1, <1>6, <1>13, <1>16, <2>8
    <3>5. Opened(R)
      BY <1>13, <1>14, <2>1, <2>2, <3>1, <3>3, <3>4 DEF Opened
    <3>6. Edits(R)
      BY <1>14, <2>1, <3>1, <3>4, <3>5 DEF Edits
    <3> QED BY <1>14, <1>19, <3>1, <3>4, <3>6 DEF InSight
  <2> QED BY <2>7, <2>8
<1> QED BY <1>18, <1>19
-----------------------------------------------------------------------------
(* The steps.                                                                *)

LEMMA Carries ==
    ASSUME Visitable, selectable' = selectable,
           IF form'.posted THEN InSight(form') ELSE Closed(form')
    PROVE  FormInv'
<1>1. Visitable'
  BY DEF Visitable
<1>2. Sited(form)' <=> Sited(form')
  BY DEF Sited
<1>3. OthersShow(form)' <=> OthersShow(form')
  BY DEF OthersShow
<1>4. Opened(form)' <=> Opened(form')
  BY <1>2, <1>3 DEF Opened
<1>5. Edits(form)' <=> Edits(form')
  BY <1>4 DEF Edits
<1>6. InSight(form)' <=> InSight(form')
  BY <1>5 DEF InSight
<1>7. Closed(form)' <=> Closed(form')
  BY <1>2 DEF Closed
<1> QED BY <1>1, <1>6, <1>7 DEF FormInv, Visitable

(* What neither the mode nor posting changes.                                *)
InMode(X, p, m) == [X EXCEPT !.posted = p, !.ovlmode = m]
LEMMA OtherMode ==
    ASSUME Visitable, NEW X, Edits(X), NEW p \in BOOLEAN, NEW m \in BOOLEAN,
           NEW Y, Y = InMode(X, p, m)
    PROVE  /\ Edits(Y) /\ Y.posted = p /\ Y.current = X.current /\ Y.buf = X.buf
           /\ InSight(X) => InSight(Y)
<1>1. Opened(X) /\ X \in Forms
  BY DEF Edits, Opened
<1>2. /\ Y.posted = p /\ Y.current = X.current /\ Y.curpage = X.curpage /\ Y.curcol = X.curcol
      /\ Y.begincol = X.begincol /\ Y.w = X.w /\ Y.modified = X.modified /\ Y.fcheck = X.fcheck
      /\ Y.buf = X.buf /\ Y.growable = X.growable /\ Y.typed = X.typed /\ Y.shown = X.shown
  BY ONLY <1>1, Y = InMode(X, p, m) DEF Forms, InMode
<1>3. Y \in Forms
  BY ONLY <1>1, p \in BOOLEAN, m \in BOOLEAN, Y = InMode(X, p, m) DEF Forms, InMode
<1>4. Opened(Y)
  <2>1. /\ Len(Y.w) = Len(X.w) /\ Y.curcol \in 0..(Len(Y.w) - 1)
        /\ Y.begincol \in 0..(Len(Y.w) - Cols[Y.current])
        /\ Len(Y.w) = Cols[Y.current] => Y.shown[Y.current] = Y.w
    BY <1>1, <1>2 DEF Opened
  <2>2. (X.typed => Y.typed) /\ \A g \in Fields : g # X.current => Y.shown[g] = X.shown[g]
    BY <1>2
  <2> QED BY ONLY Visitable, <1>1, <1>2, <1>3, <2>1, <2>2, OpenedAgain
<1>5. Edits(Y)
  <2>1. Buffer(Y, Y.current) = Buffer(X, X.current)
    BY <1>2 DEF Buffer
  <2> QED BY <1>2, <1>4, <2>1 DEF Edits
<1> QED BY <1>2, <1>5 DEF InSight

LEMMA InvIs ==
    ASSUME FormInv
    PROVE  /\ Visitable /\ form \in Forms /\ Buffers(form) /\ form.posted \in BOOLEAN
           /\ form.current \in OnIt(form.curpage) /\ form.curpage \in Pages
           /\ form.posted => InSight(form) /\ Edits(form) /\ Opened(form)
           /\ ~form.posted => Closed(form)
<1>1. Visitable /\ IF form.posted THEN InSight(form) ELSE Closed(form)
  BY DEF FormInv, Visitable
<1>2. /\ form.posted => InSight(form) /\ Edits(form) /\ Opened(form)
      /\ form \in Forms /\ Buffers(form) /\ Sited(form)
  BY <1>1 DEF InSight, Edits, Opened, Closed
<1>3. form.posted \in BOOLEAN /\ form.current \in Fields
  BY <1>2, FormIs
<1> QED BY <1>1, <1>2, <1>3, PagesAre DEF Sited, OnIt

(* Every request ends with a look at the cursor.                             *)
LEMMA DriverHolds ==
    ASSUME Visitable, NEW R, Edits(R), R.posted, Driver(R)
    PROVE  FormInv' /\ form'.posted /\ form'.current = R.current /\ form'.buf = R.buf
<1>1. form' = Refresh_Current_Field(R) /\ selectable' = selectable
  BY DEF Driver
<1>2. InSight(form') /\ form'.posted /\ form'.current = R.current /\ form'.buf = R.buf
  BY <1>1, RefreshIs
<1> QED BY <1>1, <1>2, Carries

LEMMA InitHolds ==
    ASSUME Init
    PROVE  FormInv
<1>1. /\ form = [posted |-> FALSE, current |-> 0, curpage |-> 0, curcol |-> 0, begincol |-> 0,
                 w |-> <<>>, modified |-> FALSE, fcheck |-> FALSE, ovlmode |-> FALSE,
                 buf |-> [f \in Fields |-> Blanks(Cols[f])],
                 growable |-> {f \in Fields : MaxGrow[f] > Cols[f]},
                 shown |-> [f \in Fields |-> Blanks(Cols[f])], typed |-> FALSE]
      /\ selectable = Fields
  BY DEF Init
<1>2. \A f \in Fields : Blanks(Cols[f]) \in Texts /\ Len(Blanks(Cols[f])) = Cols[f]
  BY FieldFacts, BlanksAre
<1> DEFINE bf == [f \in Fields |-> Blanks(Cols[f])]
<1>3. bf \in [Fields -> Texts] /\ \A f \in Fields : bf[f] = Blanks(Cols[f])
  BY <1>2
<1>4. <<>> \in Texts
  BY DEF Texts
<1> HIDE DEF bf
<1>5. form = [posted |-> FALSE, current |-> 0, curpage |-> 0, curcol |-> 0, begincol |-> 0,
              w |-> <<>>, modified |-> FALSE, fcheck |-> FALSE, ovlmode |-> FALSE, buf |-> bf,
              growable |-> {f \in Fields : MaxGrow[f] > Cols[f]}, shown |-> bf, typed |-> FALSE]
  BY <1>1 DEF bf
<1>6. form \in Forms
  <2>1. {f \in Fields : MaxGrow[f] > Cols[f]} \in SUBSET Fields /\ 0 \in Nat /\ 0 \in Fields
        /\ 0 \in Pages \cup {NULL}
    BY PagesAre
  <2> QED BY ONLY <1>3, <1>4, <1>5, <2>1 DEF Forms
<1>7. \A f \in Fields : Len(Buffer(form, f)) = Cols[f]
  <2>1. \A f \in Fields : Buffer(form, f) = Blanks(Cols[f])
    BY <1>3, <1>5, FieldFacts DEF Buffer
  <2> QED BY <1>2, <2>1
<1>8. Buffers(form)
  BY <1>5, <1>7, FieldFacts DEF Buffers
<1>9. Sited(form)
  BY <1>1, PagesAre DEF Sited
<1>10. Closed(form) /\ ~form.posted
  BY <1>5, <1>6, <1>8, <1>9 DEF Closed
<1> QED BY <1>1, <1>10 DEF FormInv

LEMMA PostHolds ==
    ASSUME FormInv, PostForm
    PROVE  FormInv'
<1> DEFINE F == [form EXCEPT !.curpage = NULL]
           R == Set_Form_Page(F, form.curpage, form.current)
           S == Refresh_Current_Field(R)
<1>1. Visitable /\ form \in Forms /\ ~form.posted /\ Closed(form)
      /\ form.current \in OnIt(form.curpage) /\ form.curpage \in Pages
  BY InvIs DEF PostForm
<1>2. form' = [S EXCEPT !.posted = TRUE] /\ selectable' = selectable
  BY DEF PostForm
<1>3. /\ F.posted = form.posted /\ F.current = form.current /\ F.curpage = NULL /\ F.w = form.w
      /\ F.buf = form.buf /\ F.growable = form.growable /\ F \in Forms
  BY ONLY <1>1 DEF Forms
<1> HIDE DEF F
<1>4. Buffers(F) /\ F.w = <<>>
  BY <1>1, <1>3 DEF Closed, Buffers, Buffer
<1>5. Edits(R)
  <2>1. F.curpage # form.curpage /\ ~F.posted
    BY <1>1, <1>3, PagesAre
  <2> QED BY ONLY <1>1, <1>3, <1>4, <2>1, SetPageIs
<1> HIDE DEF R
<1>6. InSight(S)
  BY <1>1, <1>5, RefreshIs
<1> HIDE DEF S
<1>7. Edits(S) /\ S \in Forms /\ S.ovlmode \in BOOLEAN
  BY <1>6, FormIs DEF InSight, Edits, Opened
<1> DEFINE m == S.ovlmode
           Y == InMode(S, TRUE, m)
<1>8. form' = Y
  BY ONLY <1>2, <1>7 DEF Forms, InMode
<1>9. InSight(form') /\ form'.posted
  <2>1. TRUE \in BOOLEAN /\ m \in BOOLEAN
    BY ONLY <1>7
  <2> HIDE DEF m
  <2>2. Y = InMode(S, TRUE, m)
    OBVIOUS
  <2> HIDE DEF Y
  <2>3. Visitable /\ Edits(S)
    BY ONLY <1>1, <1>7
  <2>4. Y.posted = TRUE /\ (InSight(S) => InSight(Y))
    BY ONLY <2>1, <2>2, <2>3, OtherMode
  <2> QED BY ONLY <1>6, <1>8, <2>4
<1> QED BY <1>1, <1>2, <1>9, Carries

LEMMA UnpostHolds ==
    ASSUME FormInv, UnpostForm
    PROVE  FormInv' /\ ~form'.posted
<1>1. Visitable /\ form \in Forms /\ Buffers(form) /\ form.current \in OnIt(form.curpage)
  BY InvIs
<1> DEFINE sh == [f \in Fields |-> Blanks(Cols[f])]
<1>2. sh \in [Fields -> Texts] /\ <<>> \in Texts
  BY FieldFacts, BlanksAre DEF Texts
<1>3. form' = [form EXCEPT !.posted = FALSE, !.w = <<>>, !.shown = sh] /\ selectable' = selectable
  BY DEF UnpostForm
<1> HIDE DEF sh
<1>4. form' \in Forms
  BY ONLY <1>1, <1>2, <1>3 DEF Forms
<1>5. /\ form'.posted = FALSE /\ form'.w = <<>> /\ form'.buf = form.buf /\ form'.growable = form.growable
      /\ form'.current = form.current /\ form'.curpage = form.curpage
  BY ONLY <1>1, <1>3 DEF Forms
<1>6. Closed(form')
  BY <1>1, <1>4, <1>5 DEF Closed, Buffers, Buffer, Sited, OnIt
<1> QED BY <1>1, <1>3, <1>5, <1>6, Carries
(* A field is left by a call as it is by a request.                          *)
LEMMA CurrentHolds ==
    ASSUME FormInv, NEW f \in Fields, SetCurrentField(f)
    PROVE  FormInv' /\ (form.posted => Leaves(form, form'))
<1> DEFINE G == Validated(form)
           H == IF PageOf[f] # G.curpage THEN Set_Form_Page(G, PageOf[f], f)
                ELSE Set_Current_Field(G, f)
<1>1. Visitable /\ form \in Forms /\ Buffers(form) /\ form.posted \in BOOLEAN
  BY InvIs
<1>2. f \in selectable /\ selectable' = selectable /\ PageOf[f] \in Pages /\ f \in OnIt(PageOf[f])
  BY FieldFacts DEF SetCurrentField, OnIt
<1>3. CASE ~form.posted
  <2>1. form' = [form EXCEPT !.current = f, !.curpage = PageOf[f], !.typed = FALSE]
    BY <1>3 DEF SetCurrentField
  <2>2. form' \in Forms
    BY ONLY <1>1, <1>2, <2>1 DEF Forms
  <2>3. /\ form'.posted = form.posted /\ form'.w = form.w /\ form'.buf = form.buf
        /\ form'.growable = form.growable /\ form'.current = f /\ form'.curpage = PageOf[f]
    BY ONLY <1>1, <2>1 DEF Forms
  <2>4. Closed(form)
    BY <1>3, InvIs
  <2>5. Closed(form')
    BY <1>1, <1>2, <2>2, <2>3, <2>4 DEF Closed, Buffers, Buffer, Sited
  <2> QED BY <1>1, <1>2, <1>3, <2>3, <2>5, Carries
<1>4. CASE form.posted
  <2>1. InSight(form) /\ Edits(form)
    BY <1>4, InvIs
  <2>2. /\ Edits(G) /\ Same(form, G) /\ G.w = form.w /\ G.shown[form.current] = form.shown[form.current]
        /\ Buffer(G, G.current) = Text(form)
        /\ Valid(form) => ~G.typed /\ (form.typed => Check_Field(form.current, Text(form)))
    BY <1>1, <1>4, <2>1, ValidatedIs
  <2>3. form' = IF Valid(form) THEN Refresh_Current_Field(H) ELSE G
    BY <1>4 DEF SetCurrentField
  <2> HIDE DEF G
  <2>4. G.posted /\ G.current = form.current /\ G.curpage = form.curpage
    BY <1>4, <2>2 DEF Same
  <2>5. CASE Valid(form)
    <3>1. Edits(H) /\ H.posted /\ H.buf = G.buf
      <4>1. CASE PageOf[f] # G.curpage
        <5>1. H = Set_Form_Page(G, PageOf[f], f)
          BY <4>1
        <5> HIDE DEF H
        <5> QED BY <1>1, <1>2, <2>2, <2>4, <2>5, <5>1, ToPageIs
      <4>2. CASE PageOf[f] = G.curpage
        <5>1. H = Set_Current_Field(G, f) /\ f \in OnIt(G.curpage)
          BY <1>2, <4>2
        <5> HIDE DEF H
        <5> QED BY <1>1, <2>2, <2>4, <2>5, <5>1, SetCurrentIs
      <4> QED BY <4>1, <4>2
    <3> HIDE DEF H
    <3>2. Driver(H)
      BY <1>2, <2>3, <2>5 DEF Driver
    <3>3. FormInv' /\ form'.buf = G.buf
      BY <1>1, <3>1, <3>2, DriverHolds
    <3> QED BY <2>2, <2>4, <2>5, <3>3 DEF Leaves, Buffer
  <2>6. CASE ~Valid(form)
    <3>1. form' = G
      BY <2>3, <2>6
    <3>2. InSight(G)
      BY <2>1, <2>2 DEF InSight, Same
    <3> QED BY <1>1, <1>2, <2>4, <3>1, <3>2, Carries DEF Leaves
  <2> QED BY <2>5, <2>6
<1> QED BY <1>1, <1>3, <1>4

LEMMA PageHolds ==
    ASSUME FormInv, NEW p \in Pages, SetFormPage(p)
    PROVE  FormInv' /\ (form.posted => Leaves(form, form'))
<1> DEFINE G == Validated(form)
           f == First_Field(p)
           H == Set_Form_Page(G, p, f)
<1>1. Visitable /\ form \in Forms /\ Buffers(form) /\ form.posted \in BOOLEAN
  BY InvIs
<1>2. f \in OnIt(p) /\ selectable' = selectable
  BY <1>1, EndsAre DEF SetFormPage
<1>3. CASE ~form.posted
  <2>1. form' = [form EXCEPT !.current = f, !.curpage = p, !.typed = FALSE]
    BY <1>3 DEF SetFormPage
  <2> HIDE DEF f
  <2>2. f \in Fields /\ f \in selectable /\ PageOf[f] = p
    BY <1>1, <1>2 DEF OnIt, Visitable
  <2>3. form' \in Forms
    BY ONLY p \in Pages, <1>1, <2>1, <2>2 DEF Forms
  <2>4. /\ form'.posted = form.posted /\ form'.w = form.w /\ form'.buf = form.buf
        /\ form'.growable = form.growable /\ form'.current = f /\ form'.curpage = p
    BY ONLY <1>1, <2>1 DEF Forms
  <2>5. Closed(form)
    BY <1>3, InvIs
  <2>6. Closed(form')
    BY <1>1, <2>2, <2>3, <2>4, <2>5 DEF Closed, Buffers, Buffer, Sited
  <2> QED BY <1>1, <1>2, <1>3, <2>4, <2>6, Carries
<1>4. CASE form.posted
  <2>1. InSight(form) /\ Edits(form)
    BY <1>4, InvIs
  <2>2. /\ Edits(G) /\ Same(form, G) /\ G.w = form.w /\ G.shown[form.current] = form.shown[form.current]
        /\ Buffer(G, G.current) = Text(form)
        /\ Valid(form) => ~G.typed /\ (form.typed => Check_Field(form.current, Text(form)))
    BY <1>1, <1>4, <2>1, ValidatedIs
  <2>3. form' = IF Valid(form) THEN Refresh_Current_Field(H) ELSE G
    BY <1>4 DEF SetFormPage
  <2> HIDE DEF G, f
  <2>4. G.posted /\ G.current = form.current /\ G.curpage = form.curpage
    BY <1>4, <2>2 DEF Same
  <2>5. CASE Valid(form)
    <3>1. Edits(H) /\ H.posted /\ H.buf = G.buf
      BY <1>1, <1>2, <2>2, <2>4, <2>5, ToPageIs
    <3> HIDE DEF H
    <3>2. Driver(H)
      BY <1>2, <2>3, <2>5 DEF Driver
    <3>3. FormInv' /\ form'.buf = G.buf
      BY <1>1, <3>1, <3>2, DriverHolds
    <3> QED BY <2>2, <2>4, <2>5, <3>3 DEF Leaves, Buffer
  <2>6. CASE ~Valid(form)
    <3>1. form' = G
      BY <2>3, <2>6
    <3>2. InSight(G)
      BY <2>1, <2>2 DEF InSight, Same
    <3> QED BY <1>1, <1>2, <2>4, <3>1, <3>2, Carries DEF Leaves
  <2> QED BY <2>5, <2>6
<1> QED BY <1>1, <1>3, <1>4

LEMMA ClickHolds ==
    ASSUME FormInv, ~ClicksAway, NEW f \in Fields, Click(f)
    PROVE  FormInv' /\ (form.posted => Leaves(form, form'))
<1> DEFINE R == Set_Current_Field(form, f)
<1>1. Visitable /\ form.posted /\ ~form.typed /\ f \in OnIt(form.curpage) /\ Edits(form) /\ Driver(R)
  BY InvIs DEF Click, OnIt, Driver
<1>2. Edits(R) /\ R.posted /\ R.buf = form.buf
  BY <1>1, SetCurrentIs
<1> HIDE DEF R
<1>3. FormInv' /\ form'.buf = form.buf
  BY <1>1, <1>2, DriverHolds
<1>4. Text(form) = Buffer(form, form.current)
  BY <1>1 DEF Text, Edits
<1> QED BY <1>1, <1>3, <1>4 DEF Leaves, Buffer

LEMMA SetBufferHolds ==
    ASSUME FormInv, NEW f \in Fields, NEW ch \in Chars, SetFieldBuffer(f, <<ch>>)
    PROVE  FormInv' /\ (form.posted => form'.current = form.current)
<1> DEFINE n == Len(Buffer(form, f))
           text == [i \in 1..n |-> IF i <= Len(<<ch>>) THEN <<ch>>[i] ELSE blank]
           B == [form EXCEPT !.buf[Owner[f]] = text]
<1>1. Visitable /\ form \in Forms /\ Buffers(form) /\ form.posted \in BOOLEAN
  BY InvIs
<1>2. n \in Nat
  BY <1>1, BufferIs
<1>3. text \in Texts /\ Len(text) = n
  <2>1. \A i \in 1..n : (IF i <= Len(<<ch>>) THEN <<ch>>[i] ELSE blank) \in Chars
    <3>1. \A i \in 1..n : i <= 1 => i = 1
      BY <1>2
    <3> QED BY <3>1 DEF Chars
  <2> QED BY <1>2, <2>1 DEF Texts
<1>4. form' = Synchronize_Linked_Fields(Synchronize_Field(B, f), f) /\ selectable' = selectable
  BY DEF SetFieldBuffer
<1> HIDE DEF text
<1>5. /\ InSight(form) /\ form.posted => InSight(form') /\ form'.posted /\ form'.current = form.current
      /\ Closed(form) /\ ~form.posted => Closed(form') /\ ~form'.posted
  BY <1>1, <1>3, <1>4, SetBufferIs
<1> QED BY <1>1, <1>4, <1>5, InvIs, Carries
(* An option comes or goes with what the field shows.                        *)
LEMMA OptsHolds ==
    ASSUME FormInv, NEW f \in Toggled, SetFieldOpts(f)
    PROVE  FormInv' /\ form'.current = form.current
<1> DEFINE c == form.current
           s == IF f \in selectable THEN Blanks(Cols[f]) ELSE SubSeq(Buffer(form, f), 1, Cols[f])
           sh == IF ~form.posted \/ PageOf[f] # form.curpage THEN form.shown
                 ELSE [form.shown EXCEPT ![f] = s]
<1>1. /\ Visitable /\ form \in Forms /\ Buffers(form) /\ form.posted \in BOOLEAN
      /\ c \in selectable /\ PageOf[c] = form.curpage /\ c \in Fields
  BY InvIs DEF OnIt, Visitable
<1>2. f \in Fields /\ f # c
  BY FieldsAssumption DEF SetFieldOpts
<1>3. selectable' = IF f \in selectable THEN selectable \ {f} ELSE selectable \cup {f}
  BY DEF SetFieldOpts
<1>4. Fields \ Toggled \subseteq selectable' /\ selectable' \subseteq Fields /\ c \in selectable'
  BY <1>1, <1>2, <1>3 DEF Visitable
<1>5. /\ Cols[f] \in Nat /\ Cols[f] <= Len(Buffer(form, f)) /\ Len(Buffer(form, f)) \in Nat
      /\ s \in Texts /\ form.shown \in [Fields -> Texts]
  BY <1>1, <1>2, ShownOf, BlanksAre, FormIs
<1>6. form' = [form EXCEPT !.shown = sh]
  <2>1. CASE ~form.posted \/ PageOf[f] # form.curpage
    <3>1. form' = form /\ sh = form.shown
      BY <2>1 DEF SetFieldOpts
    <3> QED BY <1>1, <3>1 DEF Forms
  <2>2. CASE ~(~form.posted \/ PageOf[f] # form.curpage) /\ f \in selectable
    BY <1>1, <2>2 DEF SetFieldOpts, Forms
  <2>3. CASE ~(~form.posted \/ PageOf[f] # form.curpage) /\ f \notin selectable
    BY <1>1, <2>3 DEF SetFieldOpts, Display_Field, Forms
  <2> QED BY <2>1, <2>2, <2>3
<1>7. /\ sh \in [Fields -> Texts]
      /\ \A g \in Fields : g # f => sh[g] = form.shown[g]
      /\ form.posted /\ PageOf[f] = form.curpage => sh[f] = s
  BY <1>2, <1>5
<1> HIDE DEF sh
<1>8. form' \in Forms
  BY ONLY <1>1, <1>6, <1>7 DEF Forms
<1>9. /\ form'.posted = form.posted /\ form'.current = c /\ form'.curpage = form.curpage
      /\ form'.curcol = form.curcol /\ form'.begincol = form.begincol /\ form'.w = form.w
      /\ form'.modified = form.modified /\ form'.fcheck = form.fcheck /\ form'.buf = form.buf
      /\ form'.growable = form.growable /\ form'.typed = form.typed /\ form'.shown = sh
  BY ONLY <1>1, <1>6 DEF Forms
<1>10. \A g \in Fields : Buffer(form', g) = Buffer(form, g)
  BY <1>9 DEF Buffer
<1>11. Buffers(form)'
  BY <1>1, <1>9, <1>10 DEF Buffers
<1>12. Sited(form)'
  BY <1>1, <1>4, <1>9 DEF Sited
<1>13. CASE ~form.posted
  <2>1. Closed(form)
    BY <1>13, InvIs
  <2>2. Closed(form)'
    BY <1>8, <1>9, <1>11, <1>12, <2>1 DEF Closed
  <2> QED BY <1>4, <1>9, <1>13, <2>2 DEF FormInv
<1>14. CASE form.posted
  <2>1. InSight(form) /\ Edits(form) /\ Opened(form) /\ OthersShow(form)
    BY <1>14, InvIs DEF Opened
  <2>2. Lag(form') = Lag(form)
    BY <1>9 DEF Lag
  <2>3. ASSUME NEW g \in selectable' \ Lag(form'), PageOf[g] = form'.curpage
        PROVE  Shows(form', g)
    <3>1. g \in Fields
      BY <1>4
    <3>2. CASE g # f
      <4>1. g \in selectable \ Lag(form) /\ PageOf[g] = form.curpage
        BY <1>3, <1>9, <2>2, <2>3, <3>2
      <4>2. Shows(form, g)
        BY <2>1, <4>1 DEF OthersShow
      <4>3. form'.shown[g] = form.shown[g] /\ Buffer(form', g) = Buffer(form, g)
        BY <1>7, <1>9, <1>10, <3>1, <3>2
      <4> QED BY <4>2, <4>3 DEF Shows
    <3>3. CASE g = f
      <4>1. f \notin selectable
        BY <1>3, <2>3, <3>3
      <4>2. form'.shown[g] = SubSeq(Buffer(form', g), 1, Cols[g])
        BY <1>7, <1>9, <1>10, <1>14, <2>3, <3>1, <3>3, <4>1
      <4>3. 0 \in 0..(Len(Buffer(form', g)) - Cols[g]) /\ 0 + 1 = 1 /\ 0 + Cols[g] = Cols[g]
        BY <1>2, <1>5, <1>10, <3>3
      <4>4. form'.shown[g] = Part(Buffer(form', g), 0, g)
        BY <4>2, <4>3 DEF Part
      <4> QED BY <4>3, <4>4 DEF Shows
    <3> QED BY <3>2, <3>3
  <2>4. OthersShow(form)'
    BY <2>3 DEF OthersShow
  <2>5. form'.shown[c] = form.shown[c] /\ Buffer(form', c) = Buffer(form, c)
    BY <1>1, <1>2, <1>7, <1>9, <1>10
  <2>6. Opened(form)'
    BY <1>8, <1>9, <1>11, <1>12, <2>1, <2>4, <2>5 DEF Opened
  <2>7. Edits(form)'
    BY <1>9, <2>1, <2>5, <2>6 DEF Edits
  <2>8. InSight(form)'
    BY <1>9, <2>1, <2>5, <2>7 DEF InSight
  <2> QED BY <1>4, <1>9, <1>14, <2>8 DEF FormInv
<1> QED BY <1>1, <1>9, <1>13, <1>14

-----------------------------------------------------------------------------
(* The requests.                                                             *)

LEMMA LeavesAsDriven ==
    ASSUME FormInv, NEW R, Edits(R), R.posted, Driver(R)
    PROVE  /\ FormInv'
           /\ Leaves(form, R) => Leaves(form, form')
           /\ Checked(form, R) => Checked(form, form')
<1>1. FormInv' /\ form'.current = R.current /\ form'.buf = R.buf
  BY InvIs, DriverHolds
<1> QED BY <1>1 DEF Leaves, Checked

LEMMA TypeHolds ==
    ASSUME FormInv, NEW ch \in Letters, Type(ch)
    PROVE  FormInv' /\ Checked(form, form')
<1> DEFINE R == Data_Entry(form, ch)
<1>1. Driver(R) /\ Visitable /\ Edits(form) /\ form.posted
  BY InvIs DEF Type
<1>2. Edits(R) /\ R.posted /\ Checked(form, R)
  BY <1>1, DataEntryIs
<1> HIDE DEF R
<1> QED BY <1>1, <1>2, LeavesAsDriven

LEMMA NewLineHolds ==
    ASSUME FormInv, EditRequest("NEW_LINE")
    PROVE  FormInv' /\ (form.typed => Checked(form, form'))
<1> DEFINE R == New_Line(form)
<1>1. Driver(R) /\ Visitable /\ Edits(form) /\ form.posted
  BY InvIs DEF EditRequest, Field_Editing
<1>2. Edits(R) /\ R.posted /\ (form.typed => Checked(form, R))
  BY <1>1, NewLineIs
<1> HIDE DEF R
<1> QED BY <1>1, <1>2, LeavesAsDriven

LEMMA EditHolds ==
    ASSUME FormInv, NEW request \in EditRequests, request # "NEW_LINE", EditRequest(request)
    PROVE  FormInv' /\ Leaves(form, form')
<1> DEFINE R == Field_Editing(form, request)
<1>1. Driver(R) /\ Visitable /\ Edits(form) /\ form.posted
  BY InvIs DEF EditRequest
<1>2. Edits(R) /\ R.posted /\ Leaves(form, R)
  BY <1>1, EditingIs
<1> HIDE DEF R
<1> QED BY <1>1, <1>2, LeavesAsDriven

LEMMA FieldRequestHolds ==
    ASSUME FormInv, NEW request \in FieldRequests, FieldRequest(request)
    PROVE  FormInv' /\ Leaves(form, form')
<1> DEFINE f == Target(request, form.current)
           R == Goto(form, f)
<1>1. /\ Driver(R) /\ Visitable /\ Edits(form) /\ form.posted
      /\ form.current \in OnIt(form.curpage)
  BY InvIs DEF FieldRequest
<1>2. f \in OnIt(form.curpage)
  <2>1. form.current \in Fields /\ PageOf[form.current] = form.curpage
    BY <1>1 DEF OnIt, Visitable
  <2>2. f \in OnIt(PageOf[form.current])
    BY <1>1, <2>1, TargetIs
  <2> QED BY <2>1, <2>2
<1> HIDE DEF f
<1>3. Edits(R) /\ R.posted /\ Leaves(form, R)
  BY <1>1, <1>2, GotoIs
<1> HIDE DEF R
<1> QED BY <1>1, <1>3, LeavesAsDriven

LEMMA PageRequestHolds ==
    ASSUME FormInv, NEW p \in Pages, PageRequest(p)
    PROVE  FormInv' /\ Leaves(form, form')
<1> DEFINE R == GotoPage(form, p)
<1>1. Driver(R) /\ Visitable /\ Edits(form) /\ form.posted
  BY InvIs DEF PageRequest
<1>2. Edits(R) /\ R.posted /\ Leaves(form, R)
  BY <1>1, GotoPageIs
<1> HIDE DEF R
<1> QED BY <1>1, <1>2, LeavesAsDriven

(* Requests that stay in the field.                                          *)
LEMMA StayHolds ==
    ASSUME FormInv,
           \/ ValidationRequest
           \/ \E request \in CursorRequests : CursorRequest(request)
           \/ \E sign \in {-1, 1} : ScrollRequest(sign)
           \/ \E ovl \in BOOLEAN : ModeRequest(ovl)
    PROVE  FormInv' /\ Leaves(form, form')
<1>1. Visitable /\ form \in Forms
  BY InvIs
<1>2. ASSUME NEW R, Edits(R), R.posted, R.current = form.current, Driver(R)
      PROVE  FormInv' /\ Leaves(form, form')
  BY <1>2, LeavesAsDriven DEF Leaves
<1>3. CASE ValidationRequest
  <2> DEFINE R == Validated(form)
  <2>1. Driver(R) /\ form.posted /\ Edits(form)
    BY <1>3, InvIs DEF ValidationRequest
  <2>2. Edits(R) /\ Same(form, R)
    BY <1>1, <2>1, ValidatedIs
  <2> HIDE DEF R
  <2> QED BY <1>2, <2>1, <2>2 DEF Same
<1>4. ASSUME NEW request \in CursorRequests, CursorRequest(request)
      PROVE  FormInv' /\ Leaves(form, form')
  <2> DEFINE R == Moved(form, request)
  <2>1. Driver(R) /\ form.posted /\ Edits(form)
    BY <1>4, InvIs DEF CursorRequest
  <2>2. Edits(R) /\ R.posted = form.posted /\ R.current = form.current
    BY <1>1, <2>1, MovedIs
  <2> HIDE DEF R
  <2> QED BY <1>2, <2>1, <2>2
<1>5. ASSUME NEW sign \in {-1, 1}, ScrollRequest(sign)
      PROVE  FormInv' /\ Leaves(form, form')
  <2>1. PICK n \in {1, Cols[form.current], (Cols[form.current] + 1) \div 2} :
            Driver(HSC_Generic(form, sign * n))
    BY <1>5 DEF ScrollRequest
  <2>2. form.posted /\ InSight(form)
    BY <1>5, InvIs DEF ScrollRequest
  <2> DEFINE k == sign * n
             R == HSC_Generic(form, k)
  <2>3. k \in Int
    <3>1. Cols[form.current] \in Nat
      BY <1>1, FormIs, FieldFacts
    <3>2. n \in Int
      BY <2>1, <3>1
    <3> QED BY <3>2
  <2> HIDE DEF k
  <2>4. Edits(R) /\ R.posted = form.posted /\ R.current = form.current
    BY <1>1, <2>2, <2>3, ScrolledIs
  <2>5. Driver(R)
    BY <2>1 DEF k
  <2> HIDE DEF R
  <2> QED BY <1>2, <2>2, <2>4, <2>5
<1>6. ASSUME NEW ovl \in BOOLEAN, ModeRequest(ovl)
      PROVE  FormInv' /\ Leaves(form, form')
  <2> DEFINE R == InMode(form, form.posted, ovl)
  <2>1. form.posted /\ Edits(form) /\ form.posted \in BOOLEAN
    BY <1>6, InvIs DEF ModeRequest
  <2>2. Driver(R)
    <3>1. R = [form EXCEPT !.ovlmode = ovl]
      BY <1>1 DEF InMode, Forms
    <3> QED BY <1>6, <3>1 DEF ModeRequest
  <2>3. Edits(R) /\ R.posted = form.posted /\ R.current = form.current
    BY <1>1, <2>1, OtherMode
  <2> HIDE DEF R
  <2> QED BY <1>2, <2>1, <2>2, <2>3
<1> QED BY <1>3, <1>4, <1>5, <1>6
LEMMA StepHolds ==
    ASSUME ~ClicksAway, FormInv, [Next]_vars
    PROVE  FormInv' /\ KeepsEdits
<1> DEFINE types == \E ch \in Letters : Type(ch)
           Left == form.posted /\ form'.posted =>
                       \/ Leaves(form, form') \/ types
                       \/ EditRequest("NEW_LINE") /\ (form.typed => Checked(form, form'))
<1>1. FormInv' /\ Left
  <2>1. CASE PostForm
    BY <2>1, PostHolds DEF PostForm
  <2>2. CASE UnpostForm
    BY <2>2, UnpostHolds
  <2>3. CASE ValidationRequest
    BY <2>3, StayHolds
  <2>4. ASSUME NEW f \in Fields, SetCurrentField(f) PROVE FormInv' /\ Left
    BY <2>4, CurrentHolds
  <2>5. ASSUME NEW f \in Fields, Click(f) PROVE FormInv' /\ Left
    BY <2>5, ClickHolds
  <2>6. ASSUME NEW f \in Toggled, SetFieldOpts(f) PROVE FormInv' /\ Left
    BY <2>6, OptsHolds DEF Leaves
  <2>7. ASSUME NEW f \in Filled, NEW ch \in Letters \cup {blank}, SetFieldBuffer(f, <<ch>>)
        PROVE  FormInv' /\ Left
    <3>1. f \in Fields /\ ch \in Chars
      BY FieldsAssumption DEF Chars
    <3> QED BY <2>7, <3>1, SetBufferHolds DEF Leaves
  <2>8. ASSUME NEW p \in Pages, SetFormPage(p) PROVE FormInv' /\ Left
    BY <2>8, PageHolds
  <2>9. ASSUME NEW p \in Pages, PageRequest(p) PROVE FormInv' /\ Left
    BY <2>9, PageRequestHolds
  <2>10. ASSUME NEW request \in FieldRequests, FieldRequest(request) PROVE FormInv' /\ Left
    BY <2>10, FieldRequestHolds
  <2>11. ASSUME NEW request \in CursorRequests, CursorRequest(request) PROVE FormInv' /\ Left
    BY <2>11, StayHolds
  <2>12. ASSUME NEW request \in EditRequests, EditRequest(request) PROVE FormInv' /\ Left
    <3>1. CASE request = "NEW_LINE"
      BY <2>12, <3>1, NewLineHolds
    <3>2. CASE request # "NEW_LINE"
      BY <2>12, <3>2, EditHolds
    <3> QED BY <3>1, <3>2
  <2>13. ASSUME NEW sign \in {-1, 1}, ScrollRequest(sign) PROVE FormInv' /\ Left
    BY <2>13, StayHolds
  <2>14. ASSUME NEW ovl \in BOOLEAN, ModeRequest(ovl) PROVE FormInv' /\ Left
    BY <2>14, StayHolds
  <2>15. ASSUME NEW ch \in Letters, Type(ch) PROVE FormInv' /\ Left
    BY <2>15, TypeHolds
  <2>16. CASE UNCHANGED vars
    <3>1. form' = form /\ selectable' = selectable
      BY <2>16 DEF vars
    <3>2. Visitable /\ IF form'.posted THEN InSight(form') ELSE Closed(form')
      BY <3>1 DEF FormInv, Visitable
    <3>3. FormInv'
      BY <3>1, <3>2, Carries
    <3> QED BY <3>1, <3>3 DEF Leaves
  <2> HIDE DEF Left
  <2> QED BY <2>1, <2>2, <2>3, <2>4, <2>5, <2>6, <2>7, <2>8, <2>9, <2>10, <2>11, <2>12, <2>13, <2>14,
             <2>15, <2>16 DEF Next
<1>2. KeepsEdits
  <2>1. ASSUME NEW f \in Fields, form.posted, form'.posted, form.current = f, form'.current # f
        PROVE  LET line == form'.buf[Owner[f]]
               IN /\ form.typed \/ types => Check_Field(f, line)
                  /\ \/ types \/ EditRequest("NEW_LINE")
                     \/ line = IF form.modified THEN form.w ELSE Buffer(form, f)
    <3> DEFINE line == form'.buf[Owner[f]]
    <3>1. types => Check_Field(f, line)
      BY <2>1, TypeHolds DEF Checked
    <3>2. \/ types
          \/ EditRequest("NEW_LINE") /\ (form.typed => Check_Field(f, line))
          \/ line = Text(form) /\ (form.typed => Check_Field(f, Text(form)))
      <4> HIDE DEF types
      <4> QED BY <1>1, <2>1 DEF Leaves, Checked
    <3>3. Text(form) = IF form.modified THEN form.w ELSE Buffer(form, f)
      BY <2>1 DEF Text
    <3> HIDE DEF types, line
    <3>4. /\ form.typed \/ types => Check_Field(f, line)
          /\ \/ types \/ EditRequest("NEW_LINE")
             \/ line = IF form.modified THEN form.w ELSE Buffer(form, f)
      BY <3>1, <3>2, <3>3
    <3> QED BY <3>4 DEF line
  <2> QED BY <2>1 DEF KeepsEdits
<1> QED BY <1>1, <1>2

LEMMA InvShows == FormInv => FieldShown
<1> SUFFICES ASSUME FormInv, form.posted PROVE ShownIsStored /\ CursorShown
  BY DEF FieldShown, ShownIsStored, CursorShown
<1> DEFINE c == form.current
           lag == IF form.typed THEN Linked(c) ELSE {c}
<1>1. InSight(form) /\ Edits(form) /\ Opened(form) /\ c \in selectable /\ PageOf[c] = form.curpage
  BY InvIs DEF OnIt
<1>2. ~form.modified => form.w = Buffer(form, c)
  BY <1>1 DEF Edits
<1>3. form.shown[c] = SubSeq(form.w, form.begincol + 1, form.begincol + Cols[c])
  BY <1>1 DEF InSight, Part
<1>4. \A f \in selectable \ lag : PageOf[f] = form.curpage =>
          \E b \in 0..(Len(Buffer(form, f)) - Cols[f]) :
              form.shown[f] = SubSeq(Buffer(form, f), b + 1, b + Cols[f])
  BY <1>1 DEF Opened, OthersShow, Lag, Shows, Part
<1>5. /\ Len(form.w) = Len(Buffer(form, c)) /\ form.begincol \in 0..(Len(form.w) - Cols[c])
      /\ form.curcol \in form.begincol..(form.begincol + Cols[c] - 1)
  BY <1>1 DEF Opened, InSight
<1>6. ShownIsStored
  BY <1>2, <1>3, <1>4 DEF ShownIsStored
<1>7. CursorShown
  BY <1>1, <1>5 DEF CursorShown
<1> QED BY <1>6, <1>7

-----------------------------------------------------------------------------
(* Without clicks that leave an edit unchecked.                              *)

(* Whatever is requested, typed, set and changed, the current field of a     *)
(* posted form is in sight with its cursor, and what is in sight is what the *)
(* application reads or what is being edited.                                *)
THEOREM FieldIsShown == ~ClicksAway => (Spec => []FieldShown)
<1> SUFFICES ASSUME ~ClicksAway PROVE Spec => []FieldShown
  OBVIOUS
<1>1. Init => FormInv
  BY InitHolds
<1>2. FormInv /\ [Next]_vars => FormInv'
  BY StepHolds
<1>3. FormInv => FieldShown
  BY InvShows
<1> QED BY <1>1, <1>2, <1>3, PTL DEF Spec

(* A field is left with exactly its text in its buffer, and an edited one    *)
(* only when the text passes the field's check.                              *)
THEOREM EditsAreKept == ~ClicksAway => (Spec => EditsKept)
<1> SUFFICES ASSUME ~ClicksAway PROVE Spec => EditsKept
  OBVIOUS
<1>1. Init => FormInv
  BY InitHolds
<1>2. FormInv /\ [Next]_vars => FormInv'
  BY StepHolds
<1>3. FormInv /\ [Next]_vars => [KeepsEdits]_vars
  BY StepHolds
<1> QED BY <1>1, <1>2, <1>3, PTL DEF Spec, EditsKept
===============================================================================
