---------------------------- MODULE WindowsProofs ----------------------------
(* Windows and panels, for every set of them and every size of the screen:   *)
(* the list of windows, the memory they share and the marks of what changed  *)
(* in them; the stack of panels, which is what its links say, and what an    *)
(* update of the panels shows, which is what lies on top.                    *)
EXTENDS WindowTree, Panels, SequenceLemmas, SequenceTheorems, FiniteSetTheorems

(* The list, in which parents are behind their subwindows.                   *)
ListInv ==
    /\ list \in Seq(Windows) /\ \A i, j \in 1..Len(list) : list[i] = list[j] => i = j
    /\ parent \in [Windows -> Windows \cup {NoWin}]
    /\ NoOrphan

LEMMA MadeListInv ==
    ASSUME ListInv, NEW w \in Windows, NEW p \in Live \cup {NoWin}, NEW x, NEW m, NEW t,
           Made(w, p, x, m, t)
    PROVE  ListInv'
<1> USE DEF ListInv
<1>1. /\ list' \in Seq(Windows) /\ Len(list') = Len(list) + 1 /\ list'[1] = w
      /\ \A i \in 1..Len(list) : list'[i + 1] = list[i]
      /\ \A i \in 2..Len(list') : i - 1 \in 1..Len(list) /\ list'[i] = list[i - 1]
  BY Prepended DEF Made
<1>2. /\ w \notin Live /\ parent' = [parent EXCEPT ![w] = p]
      /\ Live \subseteq Windows
  BY DEF Made, Live
<1>3. \A i \in 1..Len(list) : list[i] # w
  BY <1>2 DEF Live
<1>4. \A i, j \in 1..Len(list') : list'[i] = list'[j] => i = j
  <2> SUFFICES ASSUME NEW i \in 1..Len(list'), NEW j \in 1..Len(list'), list'[i] = list'[j]
               PROVE  i = j
    OBVIOUS
  <2>1. ASSUME NEW k \in 2..Len(list') PROVE list'[k] # w
    <3>1. k - 1 \in 1..Len(list) /\ list'[k] = list[k - 1]
      BY <1>1
    <3> QED BY <1>3, <3>1
  <2>2. CASE i = 1 \/ j = 1
    <3>1. list'[i] = w /\ list'[j] = w
      BY <1>1, <2>2
    <3> QED BY <2>1, <3>1
  <2>3. CASE i # 1 /\ j # 1
    <3>1. i - 1 = j - 1
      BY <1>1, <2>3
    <3> QED BY <3>1
  <2> QED BY <2>2, <2>3
<1>5. parent' \in [Windows -> Windows \cup {NoWin}]
  BY <1>2
<1>6. NoOrphan'
  <2> SUFFICES ASSUME NEW i \in 1..Len(list'), parent'[list'[i]] # NoWin
               PROVE  \E j \in (i + 1)..Len(list') : list'[j] = parent'[list'[i]]
    BY DEF NoOrphan, IsSubwin
  <2>1. CASE i = 1
    <3>1. p \in Live /\ parent'[list'[i]] = p
      BY <1>1, <1>2, <2>1
    <3>2. PICK k \in 1..Len(list) : list[k] = p
      BY <3>1 DEF Live
    <3>3. k + 1 \in (i + 1)..Len(list') /\ list'[k + 1] = p
      BY <1>1, <2>1, <3>2
    <3> QED BY <3>1, <3>3
  <2>2. CASE i # 1
    <3>1. i - 1 \in 1..Len(list) /\ list'[i] = list[i - 1]
      BY <1>1, <2>2
    <3>2. parent'[list'[i]] = parent[list[i - 1]]
      BY <1>2, <1>3, <3>1
    <3>3. PICK k \in i..Len(list) : list[k] = parent[list[i - 1]]
      BY <3>1, <3>2 DEF NoOrphan, IsSubwin
    <3>4. k + 1 \in (i + 1)..Len(list') /\ list'[k + 1] = list[k]
      BY <1>1, <3>1, <3>3
    <3> QED BY <3>2, <3>3, <3>4
  <2> QED BY <2>1, <2>2
<1> QED BY <1>1, <1>4, <1>5, <1>6

(* What cannot_delete() lets pass has no subwindow: none comes before it, and *)
(* none may come behind.                                                     *)
LEMMA DeletedIsChildless ==
    ASSUME ListInv, NEW w \in Windows, ~CannotDelete(w)
    PROVE  \A v \in Live : parent[v] # w
<1> USE DEF ListInv
<1>1. PICK i \in 1..Len(list) :
          list[i] = w /\ \A j \in 1..(i - 1) : ~(IsSubwin(list[j]) /\ parent[list[j]] = w)
  BY DEF CannotDelete
<1>2. SUFFICES ASSUME NEW k \in 1..Len(list), parent[list[k]] = w PROVE FALSE
  BY DEF Live
<1>3. PICK j \in (k + 1)..Len(list) : list[j] = w
  BY <1>2, WindowsAssumption DEF NoOrphan, IsSubwin
<1>4. j = i
  BY <1>1, <1>3
<1>5. k \in 1..(i - 1)
  BY <1>3, <1>4
<1> QED BY <1>1, <1>2, <1>5, WindowsAssumption DEF IsSubwin

LEMMA DelwinListInv ==
    ASSUME ListInv, NEW w \in Windows, Delwin(w)
    PROVE  ListInv'
<1> USE DEF ListInv
<1>1. PICK d \in 1..Len(list) : list[d] = w /\ list' = RemoveAt(list, d)
  BY DEF Delwin
<1>2. /\ list' \in Seq(Windows) /\ Len(list') = Len(list) - 1
      /\ \A k \in 1..Len(list') : list'[k] = IF k < d THEN list[k] ELSE list[k + 1]
  BY <1>1, Removed
<1>3. parent' = [parent EXCEPT ![w] = NoWin]
  BY DEF Delwin
<1>4. \A k \in 1..Len(list) : parent[list[k]] # w
  BY DeletedIsChildless DEF Delwin, Live
<1> DEFINE old(k) == IF k < d THEN k ELSE k + 1
<1>5. \A k \in 1..Len(list') : old(k) \in 1..Len(list) /\ old(k) # d /\ list'[k] = list[old(k)]
  BY <1>1, <1>2
<1>6. \A i, j \in 1..Len(list') : list'[i] = list'[j] => i = j
  BY <1>5
<1>7. NoOrphan'
  <2> SUFFICES ASSUME NEW i \in 1..Len(list'), parent'[list'[i]] # NoWin
               PROVE  \E j \in (i + 1)..Len(list') : list'[j] = parent'[list'[i]]
    BY DEF NoOrphan, IsSubwin
  <2>1. list'[i] # w /\ list'[i] \in Windows
    BY <1>1, <1>2, <1>5
  <2>2. parent'[list'[i]] = parent[list[old(i)]]
    BY <1>3, <1>5, <2>1
  <2>3. PICK j \in (old(i) + 1)..Len(list) : list[j] = parent[list[old(i)]]
    BY <1>5, <2>2 DEF NoOrphan, IsSubwin
  <2>4. j # d
    BY <1>1, <1>4, <1>5, <2>3
  <2>5. CASE j < d
    <3>1. old(i) >= i
      OBVIOUS
    <3>2. j \in (i + 1)..Len(list')
      BY <1>2, <2>3, <2>5, <3>1
    <3>3. list'[j] = list[j]
      BY <1>2, <2>5, <3>2
    <3> QED BY <2>2, <2>3, <3>2, <3>3
  <2>6. CASE j > d
    <3>1. j - 1 \in (i + 1)..Len(list') /\ list'[j - 1] = list[j]
      BY <1>1, <1>2, <2>3, <2>6
    <3> QED BY <2>2, <2>3, <3>1
  <2> QED BY <2>4, <2>5, <2>6
<1> QED BY <1>2, <1>3, <1>6, <1>7

(* Every other operation leaves the list and the parents alone.              *)
LEMMA ListKept ==
    ASSUME ListInv, UNCHANGED <<list, parent>>
    PROVE  ListInv'
BY DEF ListInv, NoOrphan, IsSubwin

LEMMA ListStep == ListInv /\ [Next]_vars => ListInv'
<1> SUFFICES ASSUME ListInv, [Next]_vars PROVE ListInv'
  OBVIOUS
<1>1. Live \subseteq Windows
  BY DEF ListInv, Live
<1>2. ASSUME NEW w \in Windows, NEW cols \in 1..Columns, Newwin(w, cols)
      PROVE  ListInv'
  BY <1>2, MadeListInv DEF Newwin
<1>3. ASSUME NEW w \in Windows, NEW orig \in Windows, NEW cols \in 1..Columns, NEW x \in Cols,
             Derwin(w, orig, cols, x)
      PROVE  ListInv'
  BY <1>3, MadeListInv DEF Derwin
<1>4. ASSUME NEW w \in Windows, NEW target \in Windows, Dupwin(w, target)
      PROVE  ListInv'
  BY <1>4, MadeListInv DEF Dupwin
<1>5. ASSUME NEW w \in Live,
             \/ \E c \in 0..maxx[w], synced \in BOOLEAN :
                   Waddch(w, c, synced) \/ Wclrtoeol(w, c, synced)
             \/ \E flagged \in BOOLEAN : Wtouchln(w, flagged)
             \/ Wsyncup(w) \/ Wnoutrefresh(w)
             \/ \E x \in Cols : Mvderwin(w, x)
             \/ \E cols \in Resizes : Wresize(w, cols)
      PROVE  ListInv'
  <2>1. UNCHANGED <<list, parent>>
    BY <1>5 DEF Waddch, Wclrtoeol, Changed, Wtouchln, Wsyncup, Wnoutrefresh, Mvderwin, Wresize,
                tree
  <2> QED BY <2>1, ListKept
<1>6. ASSUME NEW w \in Live, Delwin(w)
      PROVE  ListInv'
  BY <1>1, <1>6, DelwinListInv
<1>7. CASE UNCHANGED vars
  BY <1>7, ListKept DEF vars
<1> QED BY <1>2, <1>3, <1>4, <1>5, <1>6, <1>7 DEF Next

LEMMA ListInit == Init => ListInv
BY DEF Init, ListInv, NoOrphan

(* delwin() refuses every window that is the parent of another, though it    *)
(* stops at the window itself if that comes first in the list: a subwindow   *)
(* never comes behind its parent, and none is left without one.              *)
THEOREM NoneIsOrphaned == Spec => []NoOrphan
<1>1. ListInv => NoOrphan
  BY DEF ListInv
<1> QED BY <1>1, ListInit, ListStep, PTL DEF Spec

-----------------------------------------------------------------------------
(* repair_subwindows() gives every subwindow of a resized window its place.  *)

MemType ==
    /\ parx \in [Windows -> Int] /\ maxx \in [Windows -> Int]
    /\ text \in [Windows -> [buf : Windows \cup {NoWin}, at : Int]]
MemInv == ListInv /\ MemType /\ SharesMemory

(* Sizes and pointers h that are right for w.                                *)
Shares(h, w) ==
    IF IsSubwin(w)
    THEN /\ h.parx[w] + h.maxx[w] <= h.maxx[parent[w]]
         /\ h.text[w] = [h.text[parent[w]] EXCEPT !.at = @ + h.parx[w]]
    ELSE h.text[w] = [buf |-> w, at |-> 0]

Sizes ==
    [parx : [Windows -> Int], maxx : [Windows -> Int],
     text : [Windows -> [buf : Windows \cup {NoWin}, at : Int]], done : SUBSET Windows]

LEMMA FitExists ==
    ASSUME NEW g, NEW n \in Nat
    PROVE  \E f : f = [k \in 0..n |-> IF k = 0 THEN g
                                      ELSE FitNext(f[k - 1], list[Len(list) + 1 - k])]
<1> DEFINE Fits(f, m) == f = [k \in 0..m |-> IF k = 0 THEN g
                                ELSE FitNext(f[k - 1], list[Len(list) + 1 - k])]
           T == {m \in Nat : ~\E f : Fits(f, m)}
<1>1. SUFFICES ASSUME T # {} PROVE FALSE
  OBVIOUS
<1>2. PICK m \in T : \A k \in T : m <= k
  BY <1>1, LeastNatural
<1>3. m # 0
  <2>1. Fits([k \in 0..0 |-> g], 0)
    OBVIOUS
  <2> QED BY <2>1
<1>4. m - 1 \in Nat /\ m - 1 \notin T
  <2>1. m \in Nat
    BY <1>2
  <2>2. m - 1 \in Nat /\ ~(m <= m - 1)
    BY <1>3, <2>1
  <2> HIDE DEF T
  <2> QED BY <1>2, <2>2
<1>5. PICK f : Fits(f, m - 1)
  BY <1>4
<1> DEFINE e == [k \in 0..m |-> IF k < m THEN f[k]
                                ELSE FitNext(f[m - 1], list[Len(list) + 1 - m])]
<1>6. ASSUME NEW k \in 0..m
      PROVE  e[k] = IF k = 0 THEN g ELSE FitNext(e[k - 1], list[Len(list) + 1 - k])
  <2>1. CASE k < m
    <3>1. k \in 0..(m - 1) /\ e[k] = f[k]
      BY <2>1
    <3>2. k # 0 => k - 1 \in 0..m /\ e[k - 1] = f[k - 1]
      BY <2>1
    <3> QED BY <1>5, <3>1, <3>2
  <2>2. CASE k = m
    <3>1. m - 1 \in 0..m /\ e[m - 1] = f[m - 1]
      BY <1>3
    <3> QED BY <1>3, <2>2, <3>1
  <2> QED BY <2>1, <2>2
<1>7. Fits(e, m)
  BY <1>6
<1> QED BY <1>2, <1>7

LEMMA RepairedStepwise ==
    ASSUME NEW g, list \in Seq(Windows)
    PROVE  \E f : /\ f[0] = g /\ Repaired(g) = f[Len(list)]
                 /\ \A k \in 1..Len(list) : f[k] = FitNext(f[k - 1], list[Len(list) + 1 - k])
<1> DEFINE n == Len(list)
           f == CHOOSE f : f = [k \in 0..n |-> IF k = 0 THEN g
                                              ELSE FitNext(f[k - 1], list[n + 1 - k])]
<1>1. n \in Nat
  OBVIOUS
<1>2. f = [k \in 0..n |-> IF k = 0 THEN g ELSE FitNext(f[k - 1], list[n + 1 - k])]
  BY <1>1, FitExists, ZenonT(30)
<1>3. Repaired(g) = f[n]
  BY DEF Repaired
<1> HIDE DEF f
<1>4. f[0] = g
  BY <1>1, <1>2
<1>5. ASSUME NEW k \in 1..n PROVE f[k] = FitNext(f[k - 1], list[n + 1 - k])
  <2>1. k \in 0..n /\ k # 0
    BY <1>1
  <2> QED BY <1>2, <2>1
<1> QED BY <1>3, <1>4, <1>5

(* A subwindow that is fitted lies in its parent, whatever it was before.    *)
LEMMA FittedRight ==
    ASSUME MemType, ListInv, NEW h \in Sizes, NEW v \in Windows,
           IsSubwin(v), parent[v] \in h.done, parent[v] # v
    PROVE  FitNext(h, v) \in Sizes /\ Shares(FitNext(h, v), v)
<1> DEFINE p == parent[v]
           f == Fitted(h, v)
<1>1. p \in Windows
  BY DEF ListInv, IsSubwin
<1>2. /\ h.parx[v] \in Int /\ h.maxx[v] \in Int /\ h.maxx[p] \in Int
      /\ h.text[p] \in [buf : Windows \cup {NoWin}, at : Int]
  BY <1>1 DEF Sizes
<1>3. /\ f.parx \in Int /\ f.maxx \in Int /\ f.parx + f.maxx <= h.maxx[p]
      /\ f.text = [h.text[p] EXCEPT !.at = @ + f.parx]
  BY <1>2 DEF Fitted
<1>4. f.text \in [buf : Windows \cup {NoWin}, at : Int]
  BY <1>2, <1>3
<1> HIDE DEF f
<1>5. FitNext(h, v) = [parx |-> [h.parx EXCEPT ![v] = f.parx], maxx |-> [h.maxx EXCEPT ![v] = f.maxx],
                       text |-> [h.text EXCEPT ![v] = f.text], done |-> h.done \cup {v}]
  BY DEF FitNext, f
<1>6. FitNext(h, v) \in Sizes
  BY <1>3, <1>4, <1>5 DEF Sizes
<1>7. Shares(FitNext(h, v), v)
  BY <1>1, <1>3, <1>5 DEF Shares, Sizes
<1> QED BY <1>6, <1>7

(* The sizes g of a window that got another size: what is below it waits.    *)
Resized(g, target) ==
    /\ g \in Sizes /\ g.done = {target} /\ Shares(g, target)
    /\ \A v \in Live : v # target /\ (IsSubwin(target) \/ text[v].buf # target) =>
          g.parx[v] = parx[v] /\ g.maxx[v] = maxx[v] /\ g.text[v] = text[v]

(* The last k windows of the list have been passed: what was fitted comes    *)
(* before target, what was not is as before, all are right, and whatever     *)
(* used target's memory was fitted.                                          *)
Passed(h, k, g, target) ==
    /\ h \in Sizes /\ target \in h.done
    /\ \A x \in h.done : x = target \/
          \E i, j \in 1..Len(list) : list[i] = x /\ list[j] = target /\ Len(list) - k < i /\ i < j
    /\ \A x \in Windows : x \notin h.done \/ x = target =>
          h.parx[x] = g.parx[x] /\ h.maxx[x] = g.maxx[x] /\ h.text[x] = g.text[x]
    /\ \A i \in 1..Len(list) : Len(list) - k < i =>
          /\ Shares(h, list[i])
          /\ ~IsSubwin(target) /\ text[list[i]].buf = target => list[i] \in h.done

LEMMA PassedOne ==
    ASSUME MemInv, NEW target \in Live, NEW g, Resized(g, target),
           NEW k \in 1..Len(list), NEW h, Passed(h, k - 1, g, target)
    PROVE  Passed(FitNext(h, list[Len(list) + 1 - k]), k, g, target)
<1> DEFINE n == Len(list)
           i == n + 1 - k
           v == list[i]
           p == parent[v]
<1>1. i \in 1..n /\ n \in Nat /\ v \in Windows /\ v \in Live /\ target \in Windows
  BY DEF MemInv, ListInv, Live
<1>2. \A a, b \in 1..n : list[a] = list[b] => a = b
  BY DEF MemInv, ListInv
<1>3. \A a \in 1..n : list[a] \in Windows /\ (IsSubwin(list[a]) =>
         \E b \in 1..n : a < b /\ list[b] = parent[list[a]])
  <2>1. \A a \in 1..n : IsSubwin(list[a]) => \E b \in (a + 1)..n : list[b] = parent[list[a]]
    BY DEF MemInv, ListInv, NoOrphan
  <2> QED BY <2>1, <1>1 DEF MemInv, ListInv
<1>4. PICK w \in 1..n : list[w] = target
  BY DEF Live
<1>5. /\ h \in Sizes /\ target \in h.done
      /\ \A x \in h.done : x = target \/
            \E a, b \in 1..n : list[a] = x /\ list[b] = target /\ i < a /\ a < b
      /\ \A x \in Windows : x \notin h.done \/ x = target =>
            h.parx[x] = g.parx[x] /\ h.maxx[x] = g.maxx[x] /\ h.text[x] = g.text[x]
      /\ \A a \in 1..n : i < a =>
            /\ Shares(h, list[a])
            /\ ~IsSubwin(target) /\ text[list[a]].buf = target => list[a] \in h.done
  <2>1. n - (k - 1) = i
    BY <1>1
  <2> QED BY <2>1 DEF Passed
<1>6. v \notin h.done \/ v = target
  BY <1>1, <1>2, <1>5
<1>7. SharesMemory /\ MemType
  BY DEF MemInv
<1>8. /\ Shares(g, target) /\ g \in Sizes
      /\ \A u \in Live : u # target /\ (IsSubwin(target) \/ text[u].buf # target) =>
            g.parx[u] = parx[u] /\ g.maxx[u] = maxx[u] /\ g.text[u] = text[u]
  BY DEF Resized
<1> DEFINE Goal(e) == Passed(e, k, g, target)
<1>9. \A a \in 1..n : n - k < a <=> a = i \/ i < a
  BY <1>1
<1> HIDE DEF n, i
<1>10. CASE IsSubwin(v) /\ p \in h.done
  <2> DEFINE e == FitNext(h, v)
  <2>1. PICK b \in 1..n : i < b /\ list[b] = p
    BY <1>1, <1>3, <1>10
  <2>2. p # v
    BY <1>1, <1>2, <2>1
  <2>3. v # target
    <3> SUFFICES ASSUME v = target PROVE FALSE
      OBVIOUS
    <3>1. PICK a \in 1..n, c \in 1..n : list[a] = p /\ list[c] = target /\ a < c
      BY <1>5, <1>10, <2>2
    <3>2. a = b /\ c = i
      BY <1>1, <1>2, <2>1, <3>1
    <3> QED BY <1>1, <2>1, <3>1, <3>2
  <2>4. e \in Sizes /\ Shares(e, v)
    BY <1>1, <1>5, <1>10, <2>2, FittedRight DEF MemInv
  <2>5. /\ e.done = h.done \cup {v}
        /\ \A x \in Windows : x # v => e.parx[x] = h.parx[x] /\ e.maxx[x] = h.maxx[x] /\ e.text[x] = h.text[x]
    BY <1>1, <1>5, <1>10 DEF FitNext, Sizes
  <2>6. i < w
    <3>1. CASE p = target
      BY <1>2, <1>4, <2>1, <3>1
    <3>2. CASE p # target
      <4>1. PICK a \in 1..n, c \in 1..n : list[a] = p /\ list[c] = target /\ i < a /\ a < c
        BY <1>5, <1>10, <3>2
      <4>2. c = w
        BY <1>2, <1>4, <4>1
      <4> QED BY <1>1, <4>1, <4>2
    <3> QED BY <3>1, <3>2
  <2> HIDE DEF e
  <2>7. ASSUME NEW x \in e.done, x # target
        PROVE  \E a, c \in 1..n : list[a] = x /\ list[c] = target /\ (a = i \/ i < a) /\ a < c
    <3>1. CASE x = v
      BY <1>1, <1>4, <2>6, <3>1
    <3>2. CASE x # v
      BY <1>5, <2>5, <2>7, <3>2
    <3> QED BY <3>1, <3>2
  <2>8. ASSUME NEW x \in Windows, x \notin e.done \/ x = target
        PROVE  e.parx[x] = g.parx[x] /\ e.maxx[x] = g.maxx[x] /\ e.text[x] = g.text[x]
    <3>1. x # v /\ (x \notin h.done \/ x = target)
      BY <2>3, <2>5, <2>8
    <3> QED BY <1>5, <2>5, <3>1
  <2>9. ASSUME NEW a \in 1..n, a = i \/ i < a
        PROVE  /\ Shares(e, list[a])
               /\ ~IsSubwin(target) /\ text[list[a]].buf = target => list[a] \in e.done
    <3>1. CASE a = i
      BY <2>4, <2>5, <3>1
    <3>2. CASE i < a
      <4>1. list[a] # v /\ list[a] \in Windows
        BY <1>1, <1>2, <1>3, <3>2
      <4>2. IsSubwin(list[a]) => parent[list[a]] # v /\ parent[list[a]] \in Windows
        <5> SUFFICES ASSUME IsSubwin(list[a]) PROVE parent[list[a]] # v /\ parent[list[a]] \in Windows
          OBVIOUS
        <5>1. PICK c \in 1..n : a < c /\ list[c] = parent[list[a]]
          BY <1>3
        <5> QED BY <1>1, <1>2, <1>3, <3>2, <5>1
      <4>3. Shares(h, list[a])
        BY <1>5, <3>2
      <4>4. Shares(e, list[a])
        BY <2>5, <4>1, <4>2, <4>3 DEF Shares
      <4> QED BY <1>5, <2>5, <3>2, <4>4
    <3> QED BY <2>9, <3>1, <3>2
  <2>10. target \in e.done
    BY <1>5, <2>5
  <2> QED BY <1>9, <2>4, <2>7, <2>8, <2>9, <2>10 DEF Passed, n, i, e
<1>11. CASE ~(IsSubwin(v) /\ p \in h.done)
  <2>1. FitNext(h, v) = h
    BY <1>11 DEF FitNext
  <2>2. ~IsSubwin(target) /\ text[v].buf = target => v = target
    <3> SUFFICES ASSUME ~IsSubwin(target), text[v].buf = target, v # target PROVE FALSE
      OBVIOUS
    <3>1. IsSubwin(v)
      <4>1. ~IsSubwin(v) => text[v] = [buf |-> v, at |-> 0]
        BY <1>1, <1>7 DEF SharesMemory
      <4> QED BY <4>1
    <3>2. PICK b \in 1..n : i < b /\ list[b] = p
      BY <1>1, <1>3, <3>1
    <3>3. text[p].buf = target
      <4>1. text[v] = [text[p] EXCEPT !.at = @ + parx[v]]
        BY <1>1, <1>7, <3>1 DEF SharesMemory
      <4>2. text[p] \in [buf : Windows \cup {NoWin}, at : Int]
        BY <1>3, <1>7, <3>2 DEF MemType
      <4> QED BY <4>1, <4>2
    <3> QED BY <1>5, <1>11, <3>1, <3>2, <3>3
  <2>3. Shares(h, v)
    <3>1. CASE v = target
      <4>1. h.parx[target] = g.parx[target] /\ h.maxx[target] = g.maxx[target] /\ h.text[target] = g.text[target]
        BY <1>1, <1>5
      <4>2. IsSubwin(target) => /\ h.maxx[p] = g.maxx[p] /\ h.text[p] = g.text[p]
        BY <1>1, <1>3, <1>5, <1>11, <3>1
      <4> QED BY <1>8, <3>1, <4>1, <4>2 DEF Shares
    <3>2. CASE v # target
      <4>1. v \notin h.done /\ (IsSubwin(target) \/ text[v].buf # target)
        BY <1>6, <2>2, <3>2
      <4>2. h.parx[v] = parx[v] /\ h.maxx[v] = maxx[v] /\ h.text[v] = text[v]
        BY <1>1, <1>5, <1>8, <3>2, <4>1
      <4>3. ASSUME IsSubwin(v)
            PROVE  h.maxx[p] = maxx[p] /\ h.text[p] = text[p]
        <5>1. PICK b \in 1..n : i < b /\ list[b] = p
          BY <1>1, <1>3, <4>3
        <5>2. p \in Live /\ p \in Windows /\ p \notin h.done
          BY <1>3, <1>11, <4>3, <5>1 DEF Live, n
        <5>3. p # target
          BY <1>5, <5>2
        <5>4. IsSubwin(target) \/ text[p].buf # target
          BY <1>5, <5>1, <5>2
        <5> QED BY <1>5, <1>8, <5>2, <5>3, <5>4
      <4> QED BY <1>1, <1>7, <4>2, <4>3 DEF Shares, SharesMemory
    <3> QED BY <3>1, <3>2
  <2>4. ASSUME NEW a \in 1..n, a = i \/ i < a
        PROVE  /\ Shares(h, list[a])
               /\ ~IsSubwin(target) /\ text[list[a]].buf = target => list[a] \in h.done
    BY <1>5, <2>2, <2>3, <2>4
  <2>5. ASSUME NEW x \in h.done, x # target
        PROVE  \E a, c \in 1..n : list[a] = x /\ list[c] = target /\ (a = i \/ i < a) /\ a < c
    BY <1>5, <2>5
  <2>6. Passed(h, k, g, target)
    BY <1>5, <1>9, <2>4, <2>5 DEF Passed, n, i
  <2> QED BY <2>1, <2>6 DEF i, n
<1> QED BY <1>10, <1>11

LEMMA RepairedRight ==
    ASSUME MemInv, NEW target \in Live, NEW g, Resized(g, target)
    PROVE  Repaired(g) \in Sizes /\ \A v \in Live : Shares(Repaired(g), v)
<1>1. list \in Seq(Windows) /\ Len(list) \in Nat
  BY DEF MemInv, ListInv
<1>2. PICK f : /\ f[0] = g /\ Repaired(g) = f[Len(list)]
               /\ \A k \in 1..Len(list) : f[k] = FitNext(f[k - 1], list[Len(list) + 1 - k])
  BY <1>1, RepairedStepwise
<1>3. Passed(f[0], 0, g, target)
  <2>1. \A i \in 1..Len(list) : ~(Len(list) - 0 < i)
    BY <1>1
  <2> QED BY <1>1, <1>2, <2>1 DEF Passed, Resized
<1> DEFINE T == {k \in 0..Len(list) : ~Passed(f[k], k, g, target)}
<1>4. T = {}
  <2>1. SUFFICES ASSUME T # {} PROVE FALSE
    OBVIOUS
  <2>2. T \subseteq Nat
    BY <1>1
  <2>3. PICK k \in T : \A m \in T : k <= m
    BY <2>1, <2>2, LeastNatural
  <2>4. k \in 1..Len(list)
    BY <1>1, <1>3, <2>3
  <2>5. k - 1 \in 0..Len(list) /\ ~(k <= k - 1)
    BY <1>1, <2>4
  <2>6. Passed(f[k - 1], k - 1, g, target)
    BY <2>3, <2>5
  <2>7. Passed(f[k], k, g, target)
    BY <1>2, <2>4, <2>6, PassedOne
  <2> QED BY <2>3, <2>7
<1>5. Passed(Repaired(g), Len(list), g, target)
  <2>1. Len(list) \in 0..Len(list)
    BY <1>1
  <2> QED BY <1>2, <1>4, <2>1
<1>6. \A i \in 1..Len(list) : Len(list) - Len(list) < i
  BY <1>1
<1> QED BY <1>5, <1>6 DEF Passed, Live

-----------------------------------------------------------------------------
(* Every operation leaves every subwindow in its parent.                     *)

LEMMA MemInit == Init => MemInv
<1> SUFFICES ASSUME Init PROVE MemInv
  OBVIOUS
<1>1. MemType
  BY DEF Init, MemType, Freed
<1>2. SharesMemory
  BY DEF Init, SharesMemory, Live
<1> QED BY <1>1, <1>2, ListInit DEF MemInv

(* The parent of a live window is a live window, and another.                *)
LEMMA ParentLives ==
    ASSUME ListInv, NEW v \in Live, IsSubwin(v)
    PROVE  parent[v] \in Live /\ parent[v] # v /\ parent[v] \in Windows /\ v \in Windows
<1>1. PICK i \in 1..Len(list) : list[i] = v
  BY DEF Live
<1>2. PICK j \in (i + 1)..Len(list) : list[j] = parent[v]
  BY <1>1 DEF ListInv, NoOrphan
<1>3. j \in 1..Len(list) /\ i # j
  BY <1>2 DEF ListInv
<1> QED BY <1>1, <1>2, <1>3 DEF ListInv, Live

(* The windows there are after one was made, and after one was deleted.      *)
LEMMA MadeLive ==
    ASSUME ListInv, NEW w \in Windows, NEW p, NEW x, NEW m, NEW t, Made(w, p, x, m, t)
    PROVE  Live' = Live \cup {w}
<1>1. /\ Len(list') = Len(list) + 1 /\ list'[1] = w /\ Len(list) \in Nat
      /\ \A i \in 1..Len(list) : list'[i + 1] = list[i]
      /\ \A i \in 2..Len(list') : i - 1 \in 1..Len(list) /\ list'[i] = list[i - 1]
  BY Prepended DEF Made, ListInv
<1>2. Live' \subseteq Live \cup {w}
  BY <1>1 DEF Live
<1>3. w \in Live'
  BY <1>1 DEF Live
<1>4. ASSUME NEW i \in 1..Len(list) PROVE list[i] \in Live'
  <2>1. i + 1 \in 1..Len(list') /\ list'[i + 1] = list[i]
    BY <1>1
  <2> QED BY <2>1 DEF Live
<1> QED BY <1>2, <1>3, <1>4 DEF Live

LEMMA MadeMem ==
    ASSUME MemInv, ListInv', NEW w \in Windows, NEW p \in Live \cup {NoWin},
           NEW x \in Int, NEW m \in Int, NEW t, Made(w, p, x, m, t),
           IF p = NoWin THEN t = [buf |-> w, at |-> 0]
           ELSE x + m <= maxx[p] /\ t = [text[p] EXCEPT !.at = @ + x]
    PROVE  MemInv'
<1>1. ListInv /\ MemType /\ SharesMemory /\ p \in Windows \cup {NoWin} /\ w \notin Live
  BY DEF MemInv, Made, Live, ListInv
<1>2. Live' = Live \cup {w}
  BY <1>1, MadeLive
<1>3. t \in [buf : Windows \cup {NoWin}, at : Int]
  BY <1>1 DEF MemType
<1>4. /\ parent' = [parent EXCEPT ![w] = p] /\ parx' = [parx EXCEPT ![w] = x]
      /\ maxx' = [maxx EXCEPT ![w] = m] /\ text' = [text EXCEPT ![w] = t]
  BY DEF Made
<1>5. MemType'
  BY <1>1, <1>3, <1>4 DEF MemType
<1>6. ASSUME NEW v \in Live'
      PROVE  IF parent'[v] # NoWin
             THEN /\ parx'[v] + maxx'[v] <= maxx'[parent'[v]]
                  /\ text'[v] = [text'[parent'[v]] EXCEPT !.at = @ + parx'[v]]
             ELSE text'[v] = [buf |-> v, at |-> 0]
  <2>1. CASE v = w
    <3>1. parent'[v] = p /\ parx'[v] = x /\ maxx'[v] = m /\ text'[v] = t
      BY <1>1, <1>4, <2>1 DEF MemType, ListInv
    <3>2. p # NoWin => maxx'[p] = maxx[p] /\ text'[p] = text[p]
      BY <1>1, <1>4 DEF MemType, ListInv
    <3> QED BY <2>1, <3>1, <3>2
  <2>2. CASE v # w
    <3>1. v \in Live /\ v \in Windows
      <4>1. Live \subseteq Windows
        BY <1>1 DEF Live, ListInv
      <4> QED BY <1>2, <2>2, <4>1
    <3>2. parent'[v] = parent[v] /\ parx'[v] = parx[v] /\ maxx'[v] = maxx[v] /\ text'[v] = text[v]
      BY <1>1, <1>4, <2>2, <3>1 DEF MemType, ListInv
    <3>3. IsSubwin(v) => maxx'[parent[v]] = maxx[parent[v]] /\ text'[parent[v]] = text[parent[v]]
      BY <1>1, <1>4, <3>1, ParentLives DEF MemType, ListInv
    <3> QED BY <1>1, <3>1, <3>2, <3>3, ZenonT(30) DEF SharesMemory, IsSubwin
  <2> QED BY <2>1, <2>2
<1>7. SharesMemory'
  BY <1>6 DEF SharesMemory, IsSubwin
<1> QED BY <1>5, <1>7 DEF MemInv

LEMMA MvderwinMem ==
    ASSUME MemInv, ListInv', NEW w \in Live, NEW x \in Int, Mvderwin(w, x), Moves = "childless"
    PROVE  MemInv'
<1> DEFINE p == parent[w]
<1>1. ListInv /\ MemType /\ SharesMemory
  BY DEF MemInv
<1>2. /\ IsSubwin(w) /\ \A v \in Live : parent[v] # w
      /\ x + maxx[w] <= maxx[p]
  BY DEF Mvderwin, MayMove
<1>3. p \in Live /\ p # w /\ p \in Windows /\ w \in Windows
  BY <1>1, <1>2, ParentLives
<1>4. /\ parx' = [parx EXCEPT ![w] = x] /\ UNCHANGED <<list, parent, maxx>>
      /\ text' = [text EXCEPT ![w] = [text[p] EXCEPT !.at = @ + x]]
  BY DEF Mvderwin
<1>5. [text[p] EXCEPT !.at = @ + x] \in [buf : Windows \cup {NoWin}, at : Int]
  BY <1>1, <1>3 DEF MemType
<1>6. MemType'
  BY <1>1, <1>3, <1>4, <1>5 DEF MemType
<1>7. Live' = Live /\ \A v : IsSubwin(v)' = IsSubwin(v)
  BY <1>4 DEF Live, IsSubwin
<1>8. ASSUME NEW v \in Live
      PROVE  IF IsSubwin(v)
             THEN /\ parx'[v] + maxx[v] <= maxx[parent[v]]
                  /\ text'[v] = [text'[parent[v]] EXCEPT !.at = @ + parx'[v]]
             ELSE text'[v] = [buf |-> v, at |-> 0]
  <2>1. CASE v = w
    <3>1. parx'[v] = x /\ text'[p] = text[p] /\ text'[v] = [text[p] EXCEPT !.at = @ + x]
      BY <1>1, <1>3, <1>4, <2>1 DEF MemType
    <3> QED BY <1>2, <2>1, <3>1
  <2>2. CASE v # w
    <3>1. parx'[v] = parx[v] /\ text'[v] = text[v] /\ text'[parent[v]] = text[parent[v]]
      BY <1>1, <1>2, <1>4, <2>2 DEF MemType
    <3> QED BY <1>1, <3>1 DEF SharesMemory
  <2> QED BY <2>1, <2>2
<1>9. SharesMemory'
  BY <1>4, <1>7, <1>8 DEF SharesMemory
<1> QED BY <1>6, <1>9 DEF MemInv

LEMMA WresizeMem ==
    ASSUME MemInv, ListInv', NEW w \in Live, NEW cols \in Int, Wresize(w, cols)
    PROVE  MemInv'
<1> DEFINE g == SizedTo(w, cols)
           p == parent[w]
<1>1. ListInv /\ MemType /\ SharesMemory /\ w \in Windows
  BY DEF MemInv, ListInv, Live
<1>2. /\ IsSubwin(w) => parx[w] + cols - 1 <= maxx[p]
      /\ parx' = Repaired(g).parx /\ maxx' = Repaired(g).maxx /\ text' = Repaired(g).text
      /\ UNCHANGED <<list, parent>>
  BY DEF Wresize
<1>3. IsSubwin(w) => p # w /\ p \in Windows
  BY <1>1, ParentLives
<1>4. /\ g.parx = parx /\ g.maxx = [maxx EXCEPT ![w] = cols - 1] /\ g.done = {w}
      /\ IsSubwin(w) => g.text = [text EXCEPT ![w] = [text[p] EXCEPT !.at = @ + parx[w]]]
      /\ ~IsSubwin(w) => g.text = [v \in Windows |-> IF v # w /\ text[v].buf = w
                                                      THEN Freed ELSE text[v]]
  BY DEF SizedTo
<1>5. g.text \in [Windows -> [buf : Windows \cup {NoWin}, at : Int]]
  <2>1. CASE IsSubwin(w)
    <3>1. [text[p] EXCEPT !.at = @ + parx[w]] \in [buf : Windows \cup {NoWin}, at : Int]
      BY <1>1, <1>3, <2>1 DEF MemType
    <3> QED BY <1>1, <1>4, <2>1, <3>1 DEF MemType
  <2>2. CASE ~IsSubwin(w)
    <3>1. Freed \in [buf : Windows \cup {NoWin}, at : Int]
      BY DEF Freed
    <3> QED BY <1>1, <1>4, <2>2, <3>1 DEF MemType
  <2> QED BY <2>1, <2>2
<1>6. g \in Sizes
  <2>1. g = [parx |-> g.parx, maxx |-> g.maxx, text |-> g.text, done |-> g.done]
    BY DEF SizedTo
  <2>2. cols - 1 \in Int
    OBVIOUS
  <2>3. g.maxx \in [Windows -> Int] /\ g.parx \in [Windows -> Int] /\ g.done \in SUBSET Windows
    BY <1>1, <1>4, <2>2 DEF MemType
  <2> HIDE DEF g
  <2> QED BY <1>5, <2>1, <2>3 DEF Sizes
<1> HIDE DEF g
<1>7. Shares(g, w)
  <2>1. CASE IsSubwin(w)
    <3>1. g.parx[w] = parx[w] /\ g.maxx[w] = cols - 1 /\ g.maxx[p] = maxx[p]
      BY <1>1, <1>3, <1>4, <2>1 DEF MemType
    <3>2. parx[w] \in Int /\ maxx[p] \in Int
      BY <1>1, <1>3, <2>1 DEF MemType
    <3>3. g.parx[w] + g.maxx[w] <= g.maxx[p]
      BY <1>2, <2>1, <3>1, <3>2
    <3>4. g.text[w] = [text[p] EXCEPT !.at = @ + parx[w]] /\ g.text[p] = text[p]
      BY <1>1, <1>3, <1>4, <2>1 DEF MemType
    <3> QED BY <2>1, <3>1, <3>3, <3>4 DEF Shares
  <2>2. CASE ~IsSubwin(w)
    BY <1>1, <1>4, <2>2 DEF Shares, SharesMemory
  <2> QED BY <2>1, <2>2
<1>8. ASSUME NEW v \in Live, v # w, IsSubwin(w) \/ text[v].buf # w
      PROVE  g.parx[v] = parx[v] /\ g.maxx[v] = maxx[v] /\ g.text[v] = text[v]
  <2>1. v \in Windows
    BY <1>1 DEF Live, ListInv
  <2> QED BY <1>1, <1>4, <1>8, <2>1 DEF MemType
<1>9. Resized(g, w)
  BY <1>4, <1>6, <1>7, <1>8 DEF Resized
<1>10. Repaired(g) \in Sizes /\ \A v \in Live : Shares(Repaired(g), v)
  BY <1>9, RepairedRight
<1>11. MemType'
  BY <1>2, <1>10 DEF MemType, Sizes
<1>12. Live' = Live /\ \A v : IsSubwin(v)' = IsSubwin(v)
  BY <1>2 DEF Live, IsSubwin
<1>13. SharesMemory'
  BY <1>2, <1>10, <1>12 DEF SharesMemory, Shares
<1> QED BY <1>11, <1>13 DEF MemInv

(* Nobody but its subwindows, and theirs, uses the memory of a window.       *)
LEMMA DeletedIsUnused ==
    ASSUME MemInv, NEW w \in Live, \A v \in Live : parent[v] # w
    PROVE  \A v \in Live : v # w => text[v].buf # w
<1> DEFINE T == {i \in 1..Len(list) : list[i] # w /\ text[list[i]].buf = w}
<1>1. SUFFICES ASSUME T # {} PROVE FALSE
  BY DEF Live
<1>2. Len(list) \in Nat /\ T \subseteq Nat /\ \A i \in T : i <= Len(list)
  BY DEF MemInv, ListInv
<1>3. PICK i \in T : \A j \in T : j <= i
  BY <1>1, <1>2, GreatestNatural
<1> DEFINE v == list[i]
<1>4. v \in Live /\ v # w /\ text[v].buf = w /\ i \in 1..Len(list)
  BY <1>3 DEF Live
<1>5. IsSubwin(v)
  <2>1. ~IsSubwin(v) => text[v] = [buf |-> v, at |-> 0]
    BY <1>4 DEF MemInv, SharesMemory
  <2> QED BY <1>4, <2>1
<1>6. PICK j \in (i + 1)..Len(list) : list[j] = parent[v]
  BY <1>4, <1>5 DEF MemInv, ListInv, NoOrphan
<1>7. parent[v] # w /\ parent[v] \in Windows
  BY <1>4, <1>5, ParentLives DEF MemInv
<1>8. text[parent[v]].buf = w
  <2>1. text[v] = [text[parent[v]] EXCEPT !.at = @ + parx[v]]
    BY <1>4, <1>5 DEF MemInv, SharesMemory
  <2>2. text[parent[v]] \in [buf : Windows \cup {NoWin}, at : Int]
    BY <1>7 DEF MemInv, MemType
  <2> QED BY <1>4, <2>1, <2>2
<1>9. j \in 1..Len(list) /\ ~(j <= i)
  BY <1>4, <1>6
<1>10. j \in T
  BY <1>6, <1>7, <1>8, <1>9
<1> HIDE DEF T
<1> QED BY <1>3, <1>9, <1>10

LEMMA DelwinLive ==
    ASSUME ListInv, NEW w \in Windows, Delwin(w)
    PROVE  Live' \subseteq Live \ {w}
<1>0. list \in Seq(Windows)
  BY DEF ListInv
<1>1. PICK d \in 1..Len(list) : list[d] = w /\ list' = RemoveAt(list, d)
  BY <1>0 DEF Delwin
<1>2. /\ Len(list') = Len(list) - 1 /\ Len(list) \in Nat
      /\ \A k \in 1..Len(list') : list'[k] = IF k < d THEN list[k] ELSE list[k + 1]
  <2>1. /\ Len(RemoveAt(list, d)) = Len(list) - 1
        /\ \A k \in 1..(Len(list) - 1) :
              RemoveAt(list, d)[k] = IF k < d THEN list[k] ELSE list[k + 1]
    BY <1>0, Removed
  <2> QED BY <1>0, <1>1, <2>1
<1>3. ASSUME NEW k \in 1..Len(list') PROVE list'[k] \in Live /\ list'[k] # w
  <2>1. CASE k < d
    <3>1. k \in 1..Len(list) /\ k # d /\ list'[k] = list[k]
      BY <1>2, <2>1
    <3> QED BY <1>1, <3>1 DEF Live, ListInv
  <2>2. CASE ~(k < d)
    <3>1. k + 1 \in 1..Len(list) /\ k + 1 # d /\ list'[k] = list[k + 1]
      BY <1>1, <1>2, <2>2
    <3> QED BY <1>1, <3>1 DEF Live, ListInv
  <2> QED BY <2>1, <2>2
<1> QED BY <1>3 DEF Live

LEMMA DelwinMem ==
    ASSUME MemInv, ListInv', NEW w \in Live, Delwin(w)
    PROVE  MemInv'
<1>1. ListInv /\ MemType /\ SharesMemory /\ w \in Windows
  BY DEF MemInv, ListInv, Live
<1>2. \A v \in Live : parent[v] # w
  BY <1>1, DeletedIsChildless DEF Delwin
<1>3. \A v \in Live : v # w => text[v].buf # w
  BY <1>2, DeletedIsUnused
<1>4. /\ parent' = [parent EXCEPT ![w] = NoWin]
      /\ parx' = [parx EXCEPT ![w] = 0] /\ maxx' = [maxx EXCEPT ![w] = 0]
      /\ text' = [v \in Windows |-> IF v = w \/ text[v].buf = w THEN Freed ELSE text[v]]
  BY DEF Delwin
<1>5. Live' \subseteq Live \ {w}
  BY <1>1, DelwinLive
<1>6. MemType'
  <2>1. Freed \in [buf : Windows \cup {NoWin}, at : Int]
    BY DEF Freed
  <2> QED BY <1>1, <1>4, <2>1 DEF MemType
<1>7. ASSUME NEW v \in Live'
      PROVE  IF parent'[v] # NoWin
             THEN /\ parx'[v] + maxx'[v] <= maxx'[parent'[v]]
                  /\ text'[v] = [text'[parent'[v]] EXCEPT !.at = @ + parx'[v]]
             ELSE text'[v] = [buf |-> v, at |-> 0]
  <2>1. v \in Live /\ v # w /\ v \in Windows
    <3>1. Live \subseteq Windows
      BY <1>1 DEF Live, ListInv
    <3> QED BY <1>5, <3>1
  <2>2. parent'[v] = parent[v] /\ parx'[v] = parx[v] /\ maxx'[v] = maxx[v] /\ text'[v] = text[v]
    BY <1>1, <1>3, <1>4, <2>1 DEF MemType, ListInv
  <2>3. IsSubwin(v) => maxx'[parent[v]] = maxx[parent[v]] /\ text'[parent[v]] = text[parent[v]]
    BY <1>1, <1>2, <1>3, <1>4, <2>1, ParentLives DEF MemType
  <2> QED BY <1>1, <2>1, <2>2, <2>3, ZenonT(30) DEF SharesMemory, IsSubwin
<1>8. SharesMemory'
  BY <1>7 DEF SharesMemory, IsSubwin
<1> QED BY <1>6, <1>8 DEF MemInv

(* Writing, syncing and refreshing leave all this alone.                     *)
LEMMA MemKept ==
    ASSUME MemInv, ListInv', UNCHANGED tree
    PROVE  MemInv'
BY DEF MemInv, MemType, SharesMemory, Live, IsSubwin, tree

LEMMA MemStep ==
    ASSUME Moves # "any", MemInv, [Next]_vars
    PROVE  MemInv'
<1>1. ListInv /\ ListInv' /\ MemType /\ Live \subseteq Windows
  BY ListStep DEF MemInv, ListInv, Live
<1>2. Columns \in Nat /\ Cols \subseteq Int /\ Resizes \subseteq Int
      /\ \A cols \in 1..Columns : cols - 1 \in Int
  BY ColumnsAssumption, CallsAssumption DEF Cols
<1>3. ASSUME NEW w \in Windows, NEW cols \in 1..Columns, Newwin(w, cols)
      PROVE  MemInv'
  <2>1. Made(w, NoWin, -1, cols - 1, [buf |-> w, at |-> 0]) /\ -1 \in Int /\ cols - 1 \in Int
    BY <1>2, <1>3 DEF Newwin
  <2> QED BY <1>1, <2>1, MadeMem
<1>4. ASSUME NEW w \in Windows, NEW orig \in Windows, NEW cols \in 1..Columns, NEW x \in Cols,
             Derwin(w, orig, cols, x)
      PROVE  MemInv'
  <2>1. /\ orig \in Live /\ x + cols <= maxx[orig] + 1
        /\ Made(w, orig, x, cols - 1, [text[orig] EXCEPT !.at = @ + x])
    BY <1>4 DEF Derwin
  <2>2. x + (cols - 1) <= maxx[orig] /\ orig # NoWin /\ x \in Int
    BY <1>1, <1>2, <2>1, WindowsAssumption DEF MemType
  <2> QED BY <1>1, <1>2, <2>1, <2>2, MadeMem
<1>5. ASSUME NEW w \in Windows, NEW target \in Windows, Dupwin(w, target)
      PROVE  MemInv'
  <2>1. Made(w, NoWin, 0, maxx[target], [buf |-> w, at |-> 0]) /\ maxx[target] \in Int
    BY <1>1, <1>5 DEF Dupwin, MemType
  <2> QED BY <1>1, <2>1, MadeMem
<1>6. ASSUME NEW w \in Live,
             \/ \E c \in 0..maxx[w], synced \in BOOLEAN :
                   Waddch(w, c, synced) \/ Wclrtoeol(w, c, synced)
             \/ \E flagged \in BOOLEAN : Wtouchln(w, flagged)
             \/ Wsyncup(w) \/ Wnoutrefresh(w)
      PROVE  MemInv'
  <2>1. UNCHANGED tree
    BY <1>6 DEF Waddch, Wclrtoeol, Changed, Wtouchln, Wsyncup, Wnoutrefresh
  <2> QED BY <1>1, <2>1, MemKept
<1>7. ASSUME NEW w \in Live, NEW x \in Cols, Mvderwin(w, x)
      PROVE  MemInv'
  <2>1. Moves = "childless"
    BY <1>7, CallsAssumption DEF Mvderwin, MayMove
  <2> QED BY <1>1, <1>2, <1>7, <2>1, MvderwinMem
<1>8. ASSUME NEW w \in Live, NEW cols \in Resizes, Wresize(w, cols)
      PROVE  MemInv'
  BY <1>1, <1>2, <1>8, WresizeMem
<1>9. ASSUME NEW w \in Live, Delwin(w)
      PROVE  MemInv'
  BY <1>1, <1>9, DelwinMem
<1>10. CASE UNCHANGED vars
  BY <1>1, <1>10, MemKept DEF vars, tree
<1> QED BY <1>3, <1>4, <1>5, <1>6, <1>7, <1>8, <1>9, <1>10 DEF Next

(* A subwindow lies inside its parent and shows the parent's memory at that  *)
(* place through any sequence of newwin, derwin, dupwin, mvderwin, wresize   *)
(* and delwin, as long as no window is moved that has subwindows itself:     *)
(* mvderwin() does not look at them.                                         *)
THEOREM MemoryIsShared ==
    ASSUME Moves # "any"
    PROVE  Spec => []SharesMemory
<1>1. MemInv => SharesMemory
  BY DEF MemInv
<1>2. MemInv /\ [Next]_vars => MemInv'
  BY MemStep
<1> QED BY <1>1, <1>2, MemInit, PTL DEF Spec

-----------------------------------------------------------------------------
(* What is marked and what is owed, where no subwindow has subwindows.       *)

Ranges == [first : Int, last : Int]
Marked(r) == IF r.first = NOCHANGE THEN {} ELSE r.first..r.last
Upright(r) == r \in Ranges /\ (r = Unchanged \/ (0 <= r.first /\ r.first <= r.last))

(* A subwindow lies in a root window, right of its left edge.                *)
FlatInv ==
    /\ parx \in [Windows -> Int] /\ maxx \in [Windows -> Nat]
    /\ \A w \in Live : IsSubwin(w) => ~IsSubwin(parent[w]) /\ parx[w] >= 0

(* What a window with the columns 0..m is owed, o, is marked in its line, r. *)
Line(r, o, m) == Upright(r) /\ o \subseteq Marked(r) /\ o \subseteq 0..m

LineInv ==
    /\ range \in [Windows -> Ranges] /\ owed \in [Windows -> SUBSET Int]
    /\ \A w \in Windows : Line(range[w], owed[w], maxx[w])

ChangeInv == ListInv /\ FlatInv /\ LineInv

(* The generations above a window that is no subwindow of a subwindow.       *)
Above(w, n) == IF n = 0 THEN w ELSE IF n = 1 THEN parent[w] ELSE NoWin

LEMMA AncestorOfOne ==
    ASSUME ListInv, NEW w \in Windows, parent[w] # NoWin => parent[parent[w]] = NoWin,
           NEW n \in Nat
    PROVE  Ancestor(w, n) = Above(w, n)
<1> DEFINE X == Windows \cup {NoWin}
           Up(v) == IF v = NoWin THEN NoWin ELSE parent[v]
           h == [q \in (1..n) \X X |-> Up(q[2])]
           Is(f) == f = [k \in 0..n |-> IF k = 0 THEN w ELSE Up(f[k - 1])]
           up == CHOOSE f : Is(f)
<1>1. parent \in [Windows -> X] /\ w \in X
  BY DEF ListInv
<1>2. h \in [(1..n) \X X -> X]
  BY <1>1
<1> HIDE DEF h
<1>3. PICK f : Stepwise(f, n, X, w, h)
  BY <1>1, <1>2, Iterates
<1>4. Is(f)
  <2>1. f \in [0..n -> X] /\ f[0] = w
    BY <1>3 DEF Stepwise
  <2>2. ASSUME NEW k \in 1..n PROVE f[k] = Up(f[k - 1])
    <3>1. f[k] = h[<<k, f[k - 1]>>] /\ k - 1 \in 0..n
      BY <1>3 DEF Stepwise
    <3>2. <<k, f[k - 1]>> \in (1..n) \X X
      BY <2>1, <3>1
    <3> QED BY <3>1, <3>2 DEF h
  <2>3. \A k \in 0..n : f[k] = IF k = 0 THEN w ELSE Up(f[k - 1])
    <3> HIDE DEF Up, X
    <3> QED BY <2>1, <2>2
  <2> HIDE DEF Up, X
  <2> QED BY <2>1, <2>3
<1>5. Is(up)
  <2> HIDE DEF Is
  <2> QED BY <1>4
<1>6. Ancestor(w, n) = up[n]
  BY DEF Ancestor
<1> HIDE DEF up
<1>7. up[0] = w /\ \A k \in 1..n : up[k] = Up(up[k - 1])
  <2> HIDE DEF Up
  <2>1. \A k \in 0..n : up[k] = IF k = 0 THEN w ELSE Up(up[k - 1])
    BY <1>5, Zenon
  <2>2. \A k \in 1..n : k \in 0..n /\ k # 0
    OBVIOUS
  <2> HIDE DEF Is
  <2> QED BY <2>1, <2>2
<1> HIDE DEF Is
<1> DEFINE Good(k) == /\ k = 0 => up[k] = w
                      /\ k = 1 => up[k] = parent[w]
                      /\ k > 1 => up[k] = NoWin
           t == [k \in 0..n |-> IF Good(k) THEN 1 ELSE 0]
<1>8. w # NoWin
  BY WindowsAssumption
<1>9. \A k \in 1..n : Good(k - 1) => Good(k)
  <2> SUFFICES ASSUME NEW k \in 1..n, Good(k - 1) PROVE Good(k)
    OBVIOUS
  <2>1. CASE k = 1
    BY <1>7, <1>8, <2>1
  <2>2. CASE k = 2
    <3>1. up[k - 1] = parent[w] /\ up[k] = Up(up[k - 1])
      BY <1>7, <2>2
    <3>2. up[k] = NoWin
      <4> HIDE DEF Good
      <4> QED BY <3>1
    <3> QED BY <2>2, <3>2
  <2>3. CASE k > 2
    <3>1. up[k - 1] = NoWin /\ up[k] = Up(up[k - 1])
      BY <1>7, <2>3
    <3> QED BY <2>3, <3>1
  <2> QED BY <2>1, <2>2, <2>3
<1>10. Good(0)
  BY <1>7
<1>11. Good(n)
  <2> HIDE DEF Good
  <2>1. t[0] \in {1} /\ \A k \in 1..n : t[k - 1] \in {1} => t[k] \in {1}
    <3>1. 0 \in 0..n /\ \A k \in 1..n : k \in 0..n /\ k - 1 \in 0..n
      OBVIOUS
    <3> QED BY <1>9, <1>10, <3>1
  <2>2. \A k \in 0..n : t[k] = IF Good(k) THEN 1 ELSE 0
    OBVIOUS
  <2> HIDE DEF t
  <2>3. \A k \in 0..n : t[k] \in {1}
    <3> DEFINE One == {1}
    <3>1. t[0] \in One /\ \A k \in 1..n : t[k - 1] \in One => t[k] \in One
      BY <2>1
    <3> HIDE DEF One
    <3>2. \A k \in 0..n : t[k] \in One
      BY <3>1, StaysIn
    <3> QED BY <3>2 DEF One
  <2>4. n \in 0..n
    OBVIOUS
  <2> QED BY <2>2, <2>3, <2>4
<1> QED BY <1>6, <1>11 DEF Above

LEMMA DepthOfOne ==
    ASSUME ListInv, FlatInv, NEW w \in Live
    PROVE  /\ w \in Windows
           /\ Depth(w) = IF IsSubwin(w) THEN 1 ELSE 0
           /\ Ancestor(w, 0) = w
           /\ IsSubwin(w) => Ancestor(w, 1) = parent[w] /\ parent[w] \in Windows /\ parent[w] # w
<1>1. w \in Windows /\ w # NoWin /\ Len(list) \in Nat
  BY WindowsAssumption DEF ListInv, Live
<1>2. parent[w] # NoWin => parent[parent[w]] = NoWin
  BY <1>1 DEF FlatInv, IsSubwin
<1>3. \A n \in Nat : Ancestor(w, n) = Above(w, n)
  BY <1>1, <1>2, AncestorOfOne
<1>4. Ancestor(w, 0) = w
  BY <1>3 DEF Above
<1>5. IsSubwin(w) => Ancestor(w, 1) = parent[w] /\ parent[w] \in Windows /\ parent[w] # w
  <2>1. IsSubwin(w) => Ancestor(w, 1) = parent[w]
    BY <1>3 DEF Above, IsSubwin
  <2> QED BY <2>1, ParentLives
<1> DEFINE d == IF IsSubwin(w) THEN 1 ELSE 0
           Top(n) == Ancestor(w, n) # NoWin /\ ~IsSubwin(Ancestor(w, n))
<1>6. d \in 0..Len(list) /\ Top(d)
  <2>1. CASE IsSubwin(w)
    <3>1. PICK i \in 1..Len(list) : list[i] = w
      BY DEF Live
    <3>2. 1 \in 0..Len(list)
      BY <1>1, <3>1
    <3>3. Top(1)
      BY <1>2, <1>5, <2>1, WindowsAssumption DEF IsSubwin
    <3> QED BY <2>1, <3>2, <3>3
  <2>2. CASE ~IsSubwin(w)
    BY <1>1, <1>4, <2>2
  <2> QED BY <2>1, <2>2
<1>7. ASSUME NEW n \in 0..Len(list), Top(n) PROVE n = d
  <2>1. n \in Nat
    BY <1>1
  <2>2. CASE n = 0
    BY <1>4, <1>7, <2>2
  <2>3. CASE n = 1
    <3>1. IsSubwin(w)
      BY <1>3, <1>7, <2>1, <2>3 DEF Above, IsSubwin
    <3> QED BY <2>3, <3>1
  <2>4. CASE n > 1
    <3>1. Ancestor(w, n) = NoWin
      BY <1>3, <2>1, <2>4 DEF Above
    <3> QED BY <1>7, <3>1
  <2> QED BY <2>1, <2>2, <2>3, <2>4
<1>8. Depth(w) = CHOOSE n \in 0..Len(list) : Top(n)
  BY DEF Depth
<1> HIDE DEF d, Top
<1>9. Depth(w) = d
  BY <1>6, <1>7, <1>8
<1> QED BY <1>1, <1>4, <1>5, <1>9 DEF d

(* What wsyncup() and wsyncdown() do where there is one generation to pass.  *)
UpOne(rs, w) ==
    IF ~IsSubwin(w) \/ rs[w].first < 0 THEN rs
    ELSE [rs EXCEPT ![parent[w]] =
            ChangedRange(@, rs[w].first + parx[w], rs[w].last + parx[w])]
DownOne(rs, w) ==
    IF ~IsSubwin(w) \/ rs[parent[w]].first < 0 THEN rs
    ELSE [rs EXCEPT ![w] =
            ChangedRange(@, Clipped(rs[parent[w]], w).start, Clipped(rs[parent[w]], w).end)]

LEMMA SyncedUpOne ==
    ASSUME ListInv, FlatInv, NEW w \in Live, NEW rs
    PROVE  SyncedUp(rs, w) = UpOne(rs, w)
<1> DEFINE E(n, r) == LET child == Ancestor(w, n - 1)
                      IN IF r[child].first < 0 THEN r
                         ELSE [r EXCEPT ![parent[child]] =
                            ChangedRange(@, r[child].first + parx[child],
                                            r[child].last + parx[child])]
           Is(f) == f = [n \in 0..Depth(w) |-> IF n = 0 THEN rs ELSE E(n, f[n - 1])]
           up == CHOOSE f : Is(f)
           g == [n \in 0..Depth(w) |-> IF n = 0 THEN rs ELSE E(1, rs)]
<1>1. /\ Depth(w) = IF IsSubwin(w) THEN 1 ELSE 0
      /\ Ancestor(w, 0) = w
  BY DepthOfOne
<1>2. E(1, rs) = IF rs[w].first < 0 THEN rs
                 ELSE [rs EXCEPT ![parent[w]] =
                        ChangedRange(@, rs[w].first + parx[w], rs[w].last + parx[w])]
  <2>1. Ancestor(w, 1 - 1) = w
    BY <1>1
  <2> QED BY <2>1
<1>3. SyncedUp(rs, w) = up[Depth(w)]
  BY DEF SyncedUp
<1> HIDE DEF E
<1>4. Is(g)
  <2>1. \A n \in 0..Depth(w) : n = 0 \/ (n = 1 /\ g[n - 1] = rs)
    BY <1>1
  <2>2. \A n \in 0..Depth(w) : g[n] = IF n = 0 THEN rs ELSE E(n, g[n - 1])
    BY <2>1
  <2> QED BY <2>2
<1>5. Is(up)
  <2> HIDE DEF Is, g
  <2> QED BY <1>4
<1> HIDE DEF up
<1>6. up[0] = rs /\ (IsSubwin(w) => up[1] = E(1, rs))
  BY <1>1, <1>5
<1>7. IF IsSubwin(w) THEN up[Depth(w)] = E(1, rs) ELSE up[Depth(w)] = rs
  BY <1>1, <1>6
<1> QED BY <1>2, <1>3, <1>7 DEF UpOne

LEMMA SyncedDownOne ==
    ASSUME ListInv, FlatInv, NEW w \in Live, NEW rs
    PROVE  SyncedDown(rs, w) = DownOne(rs, w)
<1> DEFINE E(n, r) == LET child == Ancestor(w, Depth(w) - n)
                          q     == r[parent[child]]
                      IN IF q.first < 0 THEN r
                         ELSE [r EXCEPT ![child] =
                            ChangedRange(@, Clipped(q, child).start, Clipped(q, child).end)]
           Is(f) == f = [n \in 0..Depth(w) |-> IF n = 0 THEN rs ELSE E(n, f[n - 1])]
           down == CHOOSE f : Is(f)
           g == [n \in 0..Depth(w) |-> IF n = 0 THEN rs ELSE E(1, rs)]
<1>1. /\ Depth(w) = IF IsSubwin(w) THEN 1 ELSE 0
      /\ Ancestor(w, 0) = w
  BY DepthOfOne
<1>2. IsSubwin(w) =>
        E(1, rs) = IF rs[parent[w]].first < 0 THEN rs
                   ELSE [rs EXCEPT ![w] =
                          ChangedRange(@, Clipped(rs[parent[w]], w).start,
                                          Clipped(rs[parent[w]], w).end)]
  <2> SUFFICES ASSUME IsSubwin(w)
      PROVE  E(1, rs) = IF rs[parent[w]].first < 0 THEN rs
                   ELSE [rs EXCEPT ![w] =
                          ChangedRange(@, Clipped(rs[parent[w]], w).start,
                                          Clipped(rs[parent[w]], w).end)]
    OBVIOUS
  <2>1. Ancestor(w, Depth(w) - 1) = w
    BY <1>1
  <2> QED BY <2>1
<1>3. SyncedDown(rs, w) = down[Depth(w)]
  BY DEF SyncedDown
<1> HIDE DEF E
<1>4. Is(g)
  <2>1. \A n \in 0..Depth(w) : n = 0 \/ (n = 1 /\ g[n - 1] = rs)
    BY <1>1
  <2>2. \A n \in 0..Depth(w) : g[n] = IF n = 0 THEN rs ELSE E(n, g[n - 1])
    BY <2>1
  <2> QED BY <2>2
<1>5. Is(down)
  <2> HIDE DEF Is, g
  <2> QED BY <1>4
<1> HIDE DEF down
<1>6. down[0] = rs /\ (IsSubwin(w) => down[1] = E(1, rs))
  BY <1>1, <1>5
<1>7. IF IsSubwin(w) THEN down[Depth(w)] = E(1, rs) ELSE down[Depth(w)] = rs
  BY <1>1, <1>6
<1> QED BY <1>2, <1>3, <1>7 DEF DownOne

(* What a window shows that changed, through itself and through its parent.  *)
LEMMA SeenOne ==
    ASSUME ListInv, FlatInv, NEW w \in Live, NEW c \in Seen(w)
    PROVE  /\ c \in 0..maxx[w]
           /\ c \in owed[w] \/ (IsSubwin(w) /\ c + parx[w] \in owed[parent[w]])
<1> DEFINE Is(n, f) == f = [k \in 0..n |->
                           IF k = 0 THEN 0 ELSE f[k - 1] + parx[Ancestor(w, k - 1)]]
           shift(n) == CHOOSE f : Is(n, f)
           g(n) == [k \in 0..n |-> IF k = 0 THEN 0 ELSE parx[w]]
<1>1. /\ w \in Windows /\ parx[w] \in Int
      /\ Depth(w) = IF IsSubwin(w) THEN 1 ELSE 0
      /\ Ancestor(w, 0) = w
      /\ IsSubwin(w) => Ancestor(w, 1) = parent[w]
  BY DepthOfOne DEF FlatInv
<1>2. c \in 0..maxx[w] /\ \E n \in 0..Depth(w) : c + shift(n)[n] \in owed[Ancestor(w, n)]
  BY DEF Seen
<1> HIDE DEF shift
<1>3. ASSUME NEW n \in {0, 1}
      PROVE  shift(n)[n] = IF n = 0 THEN 0 ELSE parx[w]
  <2>1. Is(n, g(n))
    <3>1. \A k \in 0..n : k = 0 \/ (k = 1 /\ g(n)[k - 1] = 0)
      OBVIOUS
    <3>2. \A k \in 0..n : g(n)[k] = IF k = 0 THEN 0 ELSE g(n)[k - 1] + parx[Ancestor(w, k - 1)]
      BY <1>1, <3>1
    <3> QED BY <3>2
  <2>2. Is(n, shift(n))
    <3> HIDE DEF Is, g
    <3> QED BY <2>1 DEF shift
  <2>3. \A k \in 0..n : shift(n)[k] = IF k = 0 THEN 0
                                     ELSE shift(n)[k - 1] + parx[Ancestor(w, k - 1)]
    BY <2>2, Zenon
  <2> HIDE DEF Is
  <2>4. shift(n)[0] = 0
    BY <2>3
  <2>5. n = 1 => shift(n)[1] = shift(n)[0] + parx[Ancestor(w, 0)]
    BY <2>3
  <2> QED BY <1>1, <2>4, <2>5
<1>4. PICK n \in 0..Depth(w) : c + shift(n)[n] \in owed[Ancestor(w, n)]
  BY <1>2
<1>5. CASE n = 0
  BY <1>1, <1>2, <1>3, <1>4, <1>5
<1>6. CASE n = 1
  BY <1>1, <1>2, <1>3, <1>4, <1>6
<1>7. n = 0 \/ n = 1
  BY <1>1
<1> QED BY <1>5, <1>6, <1>7

LEMMA UprightMarks ==
    ASSUME NEW r, Upright(r)
    PROVE  /\ r.first \in Int /\ r.last \in Int
           /\ \/ r.first = -1 /\ r.last = -1 /\ Marked(r) = {}
              \/ 0 <= r.first /\ r.first <= r.last /\ Marked(r) = r.first..r.last
BY DEF Upright, Ranges, Marked, Unchanged, NOCHANGE

(* So what is owed is copied, wherever the parent's change lies.             *)
LEMMA OwedIsCopied == ChangeInv => NoChangeLost
<1> SUFFICES ASSUME ChangeInv, NEW w \in Live, NEW c \in Seen(w)
             PROVE  c \in Copied(w)
  BY DEF NoChangeLost
<1>1. /\ w \in Windows /\ maxx[w] \in Nat /\ parx[w] \in Int
      /\ IsSubwin(w) => parent[w] \in Windows /\ parent[w] # w
  BY DepthOfOne DEF ChangeInv, FlatInv
<1>2. c \in 0..maxx[w] /\ (c \in owed[w] \/ (IsSubwin(w) /\ c + parx[w] \in owed[parent[w]]))
  BY SeenOne DEF ChangeInv
<1> DEFINE r == range[w]
           q == range[parent[w]]
           d == SyncedDown(range, w)[w]
<1>3. Upright(r) /\ owed[w] \subseteq Marked(r)
      /\ (IsSubwin(w) => Upright(q) /\ owed[parent[w]] \subseteq Marked(q))
  BY <1>1 DEF ChangeInv, LineInv, Line
<1>4. d = DownOne(range, w)[w]
  BY SyncedDownOne DEF ChangeInv
<1>5. range \in [Windows -> Ranges]
  BY DEF ChangeInv, LineInv
<1>6. SUFFICES d.first # NOCHANGE /\ d.first <= c /\ c <= d.last
  BY <1>2 DEF Copied
<1>7. CASE ~IsSubwin(w) \/ q.first < 0
  <2>1. d = r
    BY <1>4, <1>7 DEF DownOne
  <2>2. c \in owed[w]
    <3>1. IsSubwin(w) => Marked(q) = {}
      BY <1>3, <1>7, UprightMarks
    <3> QED BY <1>2, <1>3, <3>1
  <2>3. c \in Marked(r)
    BY <1>3, <2>2
  <2>4. r.first # -1 /\ r.first <= c /\ c <= r.last
    BY <1>3, <2>3, UprightMarks
  <2> QED BY <2>1, <2>4 DEF NOCHANGE
<1>8. CASE IsSubwin(w) /\ ~(q.first < 0)
  <2>1. d = ChangedRange(r, Clipped(q, w).start, Clipped(q, w).end)
    BY <1>1, <1>4, <1>5, <1>8 DEF DownOne
  <2>2. /\ q.first \in Int /\ q.last \in Int /\ r.first \in Int /\ r.last \in Int
        /\ 0 <= q.first /\ q.first <= q.last
        /\ (r.first = -1 /\ r.last = -1) \/ (0 <= r.first /\ r.first <= r.last)
    BY <1>3, <1>8, UprightMarks
  <2>3. \/ r.first # -1 /\ r.first <= c /\ c <= r.last
        \/ q.first <= c + parx[w] /\ c + parx[w] <= q.last
    <3>1. c \in Marked(r) \/ c + parx[w] \in Marked(q)
      BY <1>2, <1>3, <1>8
    <3> QED BY <2>2, <3>1 DEF Marked, NOCHANGE
  <2>4. /\ Clipped(q, w).start = IF q.first - parx[w] < 0 THEN 0 ELSE q.first - parx[w]
        /\ Clipped(q, w).end = IF q.last - parx[w] > maxx[w] THEN maxx[w] ELSE q.last - parx[w]
    BY DEF Clipped
  <2> DEFINE start == Clipped(q, w).start
             end   == Clipped(q, w).end
  <2>5. /\ d.first = IF r.first = -1 \/ r.first > start THEN start ELSE r.first
        /\ d.last  = IF r.last = -1 \/ r.last < end THEN end ELSE r.last
    BY <2>1 DEF ChangedRange, NOCHANGE
  <2>6. start \in Int /\ end \in Int /\ start >= 0 /\ c \in Int /\ 0 <= c /\ c <= maxx[w]
    BY <1>1, <1>2, <2>2, <2>4
  <2>7. \/ r.first # -1 /\ r.first <= c /\ c <= r.last
        \/ start <= c /\ c <= end
    BY <1>1, <2>2, <2>3, <2>4, <2>6
  <2> HIDE DEF d, start, end, r, q
  <2>8. d.first # -1 /\ d.first <= c /\ c <= d.last
    BY <2>2, <2>5, <2>6, <2>7
  <2> QED BY <2>8 DEF NOCHANGE
<1> QED BY <1>7, <1>8

(* A line whose marks r2 are right, and which marks what r marks.            *)
Widened(r, r2) == Upright(r2) /\ Marked(r) \subseteq Marked(r2)

LEMMA MacrosWiden ==
    ASSUME NEW r, Upright(r), NEW c \in Nat, NEW m \in Nat, c <= m
    PROVE  /\ Widened(r, ChangedCell(r, c)) /\ c \in Marked(ChangedCell(r, c))
           /\ Widened(r, ChangedRange(r, c, m)) /\ c..m \subseteq Marked(ChangedRange(r, c, m))
           /\ Upright(ChangedToEol(r, c, m))
           /\ (Marked(r) \cap 0..m) \cup c..m \subseteq Marked(ChangedToEol(r, c, m))
           /\ Upright(Whole(m)) /\ Marked(Whole(m)) = 0..m
<1>1. r \in Ranges
  BY DEF Upright
<1>2. /\ r.first \in Int /\ r.last \in Int
      /\ \/ r.first = -1 /\ r.last = -1 /\ Marked(r) = {}
         \/ 0 <= r.first /\ r.first <= r.last /\ Marked(r) = r.first..r.last
  BY UprightMarks
<1>3. ASSUME NEW f \in Nat, NEW l \in Nat, f <= l
      PROVE  Upright([first |-> f, last |-> l]) /\ Marked([first |-> f, last |-> l]) = f..l
  BY <1>3 DEF Upright, Ranges, Marked, NOCHANGE
<1>4. /\ ChangedRange(r, c, m) =
           [first |-> IF r.first = -1 \/ r.first > c THEN c ELSE r.first,
            last  |-> IF r.last = -1 \/ r.last < m THEN m ELSE r.last]
      /\ ChangedToEol(r, c, m) =
           [first |-> IF r.first = -1 \/ r.first > c THEN c ELSE r.first, last |-> m]
      /\ Whole(m) = [first |-> 0, last |-> m]
  BY DEF ChangedRange, ChangedToEol, Whole, NOCHANGE
<1>5. ChangedCell(r, c) = [first |-> IF r.first = -1 \/ c < r.first THEN c ELSE r.first,
                           last  |-> IF r.first = -1 \/ (c > r.last /\ ~(c < r.first)) THEN c
                                     ELSE r.last]
  <2>1. r = [first |-> r.first, last |-> r.last]
    BY <1>1 DEF Ranges
  <2>2. /\ [r EXCEPT !.first = c] = [first |-> c, last |-> r.last]
        /\ [r EXCEPT !.last = c] = [first |-> r.first, last |-> c]
    BY <1>1 DEF Ranges
  <2> QED BY <1>2, <2>1, <2>2 DEF ChangedCell, NOCHANGE
<1> DEFINE cf == IF r.first = -1 \/ c < r.first THEN c ELSE r.first
           cl == IF r.first = -1 \/ (c > r.last /\ ~(c < r.first)) THEN c ELSE r.last
           rf == IF r.first = -1 \/ r.first > c THEN c ELSE r.first
           rl == IF r.last = -1 \/ r.last < m THEN m ELSE r.last
<1>6. /\ cf \in Nat /\ cl \in Nat /\ cf <= cl /\ rf \in Nat /\ rl \in Nat /\ rf <= rl /\ rf <= m
      /\ cf <= c /\ c <= cl /\ rf <= c /\ m <= rl
      /\ Marked(r) = {} \/ (Marked(r) = r.first..r.last /\ cf <= r.first /\ r.last <= cl
                            /\ rf <= r.first /\ r.last <= rl)
  BY <1>2
<1> HIDE DEF cf, cl, rf, rl
<1>7. /\ Upright(ChangedCell(r, c)) /\ Marked(ChangedCell(r, c)) = cf..cl
      /\ Upright(ChangedRange(r, c, m)) /\ Marked(ChangedRange(r, c, m)) = rf..rl
      /\ Upright(ChangedToEol(r, c, m)) /\ Marked(ChangedToEol(r, c, m)) = rf..m
      /\ Upright(Whole(m)) /\ Marked(Whole(m)) = 0..m
  BY <1>3, <1>4, <1>5, <1>6 DEF cf, cl, rf, rl
<1>8. /\ Marked(r) \subseteq cf..cl /\ Marked(r) \subseteq rf..rl /\ c \in cf..cl
      /\ c..m \subseteq rf..rl /\ (Marked(r) \cap 0..m) \cup c..m \subseteq rf..m
  BY <1>2, <1>6
<1> QED BY <1>7, <1>8 DEF Widened

LEMMA UpWidens ==
    ASSUME ListInv, FlatInv, NEW w \in Live, NEW rs \in [Windows -> Ranges],
           \A v \in Windows : Upright(rs[v])
    PROVE  /\ SyncedUp(rs, w) \in [Windows -> Ranges]
           /\ \A v \in Windows : Widened(rs[v], SyncedUp(rs, w)[v])
<1>1. SyncedUp(rs, w) = UpOne(rs, w)
  BY SyncedUpOne
<1>2. w \in Windows /\ (IsSubwin(w) => parent[w] \in Windows)
  BY DepthOfOne
<1>3. CASE ~IsSubwin(w) \/ rs[w].first < 0
  BY <1>1, <1>3 DEF UpOne, Widened
<1>4. CASE IsSubwin(w) /\ ~(rs[w].first < 0)
  <2> DEFINE p == parent[w]
             c == rs[w].first + parx[w]
             m == rs[w].last + parx[w]
             r2 == ChangedRange(rs[p], c, m)
  <2>1. Upright(rs[w]) /\ Upright(rs[p])
    BY <1>2, <1>4
  <2>2. c \in Nat /\ m \in Nat /\ c <= m
    <3>1. parx[w] \in Int /\ parx[w] >= 0
      BY <1>2, <1>4 DEF FlatInv
    <3> QED BY <1>4, <2>1, <3>1, UprightMarks
  <2>3. Widened(rs[p], r2)
    <3> HIDE DEF c, m
    <3> QED BY <2>1, <2>2, MacrosWiden
  <2>4. SyncedUp(rs, w) = [rs EXCEPT ![p] = r2]
    BY <1>1, <1>4 DEF UpOne
  <2>5. r2 \in Ranges
    BY <2>3 DEF Widened, Upright
  <2> HIDE DEF r2
  <2>6. \A v \in Windows : SyncedUp(rs, w)[v] = IF v = p THEN r2 ELSE rs[v]
    BY <2>4
  <2>7. \A v \in Windows : Widened(rs[v], SyncedUp(rs, w)[v])
    BY <2>3, <2>6 DEF Widened
  <2>8. SyncedUp(rs, w) \in [Windows -> Ranges]
    BY <2>4, <2>5
  <2> QED BY <2>7, <2>8
<1> QED BY <1>3, <1>4

(* A line that is wider marked stays right.                                  *)
LEMMA WidenedLine ==
    ASSUME NEW r, NEW r2, NEW o, NEW m, Line(r, o, m), Widened(r, r2)
    PROVE  Line(r2, o, m)
BY DEF Line, Widened

(* One window's marks, debts and size are set, the others' are left.         *)
LEMMA OneLine ==
    ASSUME LineInv, FlatInv, NEW w \in Windows, NEW r, NEW o, NEW m, Line(r, o, m),
           range' = [range EXCEPT ![w] = r], owed' = [owed EXCEPT ![w] = o],
           maxx' = [maxx EXCEPT ![w] = m]
    PROVE  LineInv'
<1>1. r \in Ranges /\ o \subseteq Int
  BY DEF Line, Upright
<1>2. range' \in [Windows -> Ranges] /\ owed' \in [Windows -> SUBSET Int]
  BY <1>1 DEF LineInv
<1>3. \A v \in Windows : /\ range'[v] = IF v = w THEN r ELSE range[v]
                         /\ owed'[v] = IF v = w THEN o ELSE owed[v]
                         /\ maxx'[v] = IF v = w THEN m ELSE maxx[v]
  BY DEF LineInv, FlatInv
<1>4. \A v \in Windows : Line(range'[v], owed'[v], maxx'[v])
  BY <1>3 DEF LineInv
<1> QED BY <1>2, <1>4 DEF LineInv

LEMMA SameSize ==
    ASSUME FlatInv, NEW w \in Windows, UNCHANGED maxx
    PROVE  maxx' = [maxx EXCEPT ![w] = maxx[w]]
BY DEF FlatInv

LEMMA FlatKept ==
    ASSUME FlatInv, UNCHANGED <<list, parent, parx, maxx>>
    PROVE  FlatInv'
BY DEF FlatInv, Live, IsSubwin

(* Writing, with or without syncok().                                        *)
LEMMA ChangedLine ==
    ASSUME ListInv, FlatInv, LineInv, NEW w \in Live, NEW r, NEW cols, NEW synced,
           Changed(w, r, cols, synced), Line(r, owed[w] \cup cols, maxx[w])
    PROVE  FlatInv' /\ LineInv'
<1>1. w \in Windows
  BY DepthOfOne
<1>2. UNCHANGED <<list, parent, parx, maxx>> /\ owed' = [owed EXCEPT ![w] = owed[w] \cup cols]
  BY DEF Changed, tree
<1>3. FlatInv'
  BY <1>2, FlatKept
<1> DEFINE rs == [range EXCEPT ![w] = r]
<1>4. range' = IF synced THEN SyncedUp(rs, w) ELSE rs
  BY DEF Changed
<1>5. r \in Ranges /\ cols \subseteq Int
  BY DEF Line, Upright
<1>6. /\ rs \in [Windows -> Ranges]
      /\ \A v \in Windows : rs[v] = IF v = w THEN r ELSE range[v]
  BY <1>1, <1>5 DEF LineInv
<1> HIDE DEF rs
<1>7. \A v \in Windows : owed'[v] = IF v = w THEN owed[w] \cup cols ELSE owed[v]
  BY <1>1, <1>2 DEF LineInv
<1>8. \A v \in Windows : Line(rs[v], owed'[v], maxx[v])
  BY <1>6, <1>7 DEF LineInv
<1>9. range' \in [Windows -> Ranges] /\ \A v \in Windows : Widened(rs[v], range'[v])
  <2>1. \A v \in Windows : Upright(rs[v])
    BY <1>8 DEF Line
  <2>2. /\ SyncedUp(rs, w) \in [Windows -> Ranges]
        /\ \A v \in Windows : Widened(rs[v], SyncedUp(rs, w)[v])
    BY <1>6, <2>1, UpWidens
  <2> QED BY <1>4, <1>6, <2>1, <2>2 DEF Widened
<1>10. \A v \in Windows : Line(range'[v], owed'[v], maxx[v])
  BY <1>8, <1>9, WidenedLine
<1>11. owed' \in [Windows -> SUBSET Int]
  BY <1>2, <1>5 DEF LineInv
<1>12. LineInv'
  BY <1>2, <1>9, <1>10, <1>11 DEF LineInv
<1> QED BY <1>3, <1>12

LEMMA WriteLine ==
    ASSUME ChangeInv, NEW w \in Live, NEW c \in 0..maxx[w], NEW synced,
           Waddch(w, c, synced) \/ Wclrtoeol(w, c, synced)
    PROVE  FlatInv' /\ LineInv'
<1>1. /\ ListInv /\ FlatInv /\ LineInv /\ w \in Windows /\ maxx[w] \in Nat
      /\ c \in Nat /\ c <= maxx[w]
  BY DepthOfOne DEF ChangeInv, FlatInv
<1>2. Line(range[w], owed[w], maxx[w])
  BY <1>1 DEF LineInv
<1>3. CASE Waddch(w, c, synced)
  <2>1. Line(ChangedCell(range[w], c), owed[w] \cup {c}, maxx[w])
    <3>1. Widened(range[w], ChangedCell(range[w], c)) /\ c \in Marked(ChangedCell(range[w], c))
      BY <1>1, <1>2, MacrosWiden DEF Line
    <3> QED BY <1>1, <1>2, <3>1 DEF Line, Widened
  <2> QED BY <1>1, <1>3, <2>1, ChangedLine DEF Waddch
<1>4. CASE Wclrtoeol(w, c, synced)
  <2>1. Line(ChangedToEol(range[w], c, maxx[w]), owed[w] \cup (c..maxx[w]), maxx[w])
    <3>1. /\ Upright(ChangedToEol(range[w], c, maxx[w]))
          /\ (Marked(range[w]) \cap 0..maxx[w]) \cup c..maxx[w]
               \subseteq Marked(ChangedToEol(range[w], c, maxx[w]))
      BY <1>1, <1>2, MacrosWiden DEF Line
    <3>2. c..maxx[w] \subseteq 0..maxx[w]
      BY <1>1
    <3> QED BY <1>2, <3>1, <3>2 DEF Line
  <2> QED BY <1>1, <1>4, <2>1, ChangedLine DEF Wclrtoeol
<1> QED BY <1>3, <1>4

LEMMA WsyncupLine ==
    ASSUME ChangeInv, NEW w \in Live, range' = SyncedUp(range, w), UNCHANGED <<maxx, owed>>
    PROVE  LineInv'
<1>1. ListInv /\ FlatInv /\ LineInv
  BY DEF ChangeInv
<1>2. range \in [Windows -> Ranges] /\ \A v \in Windows : Upright(range[v])
  BY <1>1 DEF LineInv, Line
<1>3. range' \in [Windows -> Ranges] /\ \A v \in Windows : Widened(range[v], range'[v])
  BY <1>1, <1>2, UpWidens
<1>4. \A v \in Windows : Line(range'[v], owed'[v], maxx'[v])
  BY <1>1, <1>3, WidenedLine DEF LineInv
<1> QED BY <1>1, <1>3, <1>4 DEF LineInv

LEMMA WtouchlnLine ==
    ASSUME ChangeInv, NEW w \in Live, NEW flagged, Wtouchln(w, flagged)
    PROVE  FlatInv' /\ LineInv'
<1>1. ListInv /\ FlatInv /\ LineInv /\ w \in Windows /\ maxx[w] \in Nat
  BY DepthOfOne DEF ChangeInv, FlatInv
<1>2. UNCHANGED <<list, parent, parx, maxx>> /\ maxx' = [maxx EXCEPT ![w] = maxx[w]]
  BY <1>1, SameSize DEF Wtouchln, tree
<1> DEFINE r == IF flagged THEN Whole(maxx[w]) ELSE Unchanged
           o == IF flagged THEN 0..maxx[w] ELSE {}
<1>3. range' = [range EXCEPT ![w] = r] /\ owed' = [owed EXCEPT ![w] = o]
  BY DEF Wtouchln
<1>4. Line(r, o, maxx[w])
  <2>1. Upright(Unchanged) /\ Marked(Unchanged) = {}
    BY DEF Upright, Unchanged, Ranges, Marked, NOCHANGE
  <2>2. Upright(Whole(maxx[w])) /\ Marked(Whole(maxx[w])) = 0..maxx[w]
    BY <1>1, <2>1, MacrosWiden
  <2> QED BY <2>1, <2>2 DEF Line
<1> HIDE DEF r, o
<1>5. LineInv'
  BY <1>1, <1>2, <1>3, <1>4, OneLine
<1> QED BY <1>1, <1>2, <1>5, FlatKept

(* wnoutrefresh() leaves other windows' marks alone: it goes down to w only. *)
LEMMA WnoutrefreshLine ==
    ASSUME ChangeInv, NEW w \in Live, Wnoutrefresh(w)
    PROVE  FlatInv' /\ LineInv'
<1>1. ListInv /\ FlatInv /\ LineInv /\ w \in Windows /\ maxx[w] \in Nat
  BY DepthOfOne DEF ChangeInv, FlatInv
<1>2. UNCHANGED <<list, parent, parx, maxx>> /\ maxx' = [maxx EXCEPT ![w] = maxx[w]]
  BY <1>1, SameSize DEF Wnoutrefresh, tree
<1>3. range' = [range EXCEPT ![w] = Unchanged]
  <2>1. range' = [DownOne(range, w) EXCEPT ![w] = Unchanged]
    BY <1>1, SyncedDownOne DEF Wnoutrefresh
  <2>2. range \in [Windows -> Ranges]
    BY <1>1 DEF LineInv
  <2>3. CASE DownOne(range, w) = range
    BY <2>1, <2>3
  <2>4. ASSUME NEW r, DownOne(range, w) = [range EXCEPT ![w] = r]
        PROVE  range' = [range EXCEPT ![w] = Unchanged]
    BY <2>1, <2>2, <2>4
  <2> QED BY <2>3, <2>4 DEF DownOne
<1>4. owed' = [owed EXCEPT ![w] = {}]
  BY DEF Wnoutrefresh
<1>5. Line(Unchanged, {}, maxx[w])
  BY DEF Line, Upright, Unchanged, Ranges, Marked, NOCHANGE
<1>6. LineInv'
  BY <1>1, <1>2, <1>3, <1>4, <1>5, OneLine
<1> QED BY <1>1, <1>2, <1>6, FlatKept

(* A new window is owed all it has, or what the window was that it copies.   *)
LEMMA MadeLine ==
    ASSUME ChangeInv, ListInv', NEW w \in Windows, NEW p \in Live \cup {NoWin},
           NEW x \in Int, NEW m \in Nat, NEW t, Made(w, p, x, m, t),
           p # NoWin => ~IsSubwin(p) /\ x >= 0,
           NEW r, NEW o, Line(r, o, m),
           range' = [range EXCEPT ![w] = r], owed' = [owed EXCEPT ![w] = o]
    PROVE  FlatInv' /\ LineInv'
<1>1. ListInv /\ FlatInv /\ LineInv /\ w \notin Live /\ Live \subseteq Windows
  BY DEF ChangeInv, Made, ListInv, Live
<1>2. Live' = Live \cup {w}
  BY <1>1, MadeLive
<1>3. /\ parent' = [parent EXCEPT ![w] = p] /\ parx' = [parx EXCEPT ![w] = x]
      /\ maxx' = [maxx EXCEPT ![w] = m]
  BY DEF Made
<1>4. LineInv'
  BY <1>1, <1>3, OneLine
<1>5. \A v \in Windows : /\ parent'[v] = IF v = w THEN p ELSE parent[v]
                         /\ parx'[v] = IF v = w THEN x ELSE parx[v]
  BY <1>1, <1>3 DEF ListInv, FlatInv
<1>6. ASSUME NEW v \in Live', parent'[v] # NoWin
      PROVE  parent'[parent'[v]] = NoWin /\ parx'[v] >= 0
  <2>1. CASE v = w
    BY <1>1, <1>5, <1>6, <2>1 DEF IsSubwin
  <2>2. CASE v # w
    <3>1. v \in Live /\ v \in Windows
      BY <1>1, <1>2, <2>2
    <3>2. IsSubwin(v) /\ parent'[v] = parent[v] /\ parx'[v] = parx[v]
      BY <1>5, <1>6, <2>2, <3>1 DEF IsSubwin
    <3>3. parent[v] \in Live /\ parent[v] \in Windows
      BY <1>1, <3>1, <3>2, ParentLives
    <3>4. parent[parent[v]] = NoWin /\ parx[v] >= 0
      BY <1>1, <3>1, <3>2 DEF FlatInv, IsSubwin
    <3> QED BY <1>1, <1>5, <3>2, <3>3, <3>4
  <2> QED BY <2>1, <2>2
<1>7. parx' \in [Windows -> Int] /\ maxx' \in [Windows -> Nat]
  BY <1>1, <1>3 DEF FlatInv
<1>8. FlatInv'
  BY <1>6, <1>7 DEF FlatInv, IsSubwin
<1> QED BY <1>4, <1>8

LEMMA WholeLine ==
    ASSUME NEW m \in Nat
    PROVE  Line(Whole(m), 0..m, m)
BY DEF Line, Upright, Ranges, Marked, Whole, NOCHANGE

(* mvderwin() tells the ancestors first, and what w is owed stays marked.    *)
LEMMA MvderwinLine ==
    ASSUME ChangeInv, NEW w \in Live, NEW x \in Nat, Mvderwin(w, x)
    PROVE  FlatInv' /\ LineInv'
<1>1. /\ FlatInv /\ parx' = [parx EXCEPT ![w] = x]
      /\ range' = SyncedUp(range, w) /\ UNCHANGED <<list, parent, maxx, owed>>
  BY DEF Mvderwin, ChangeInv
<1>2. LineInv'
  BY <1>1, WsyncupLine
<1>3. Live' = Live
  BY <1>1 DEF Live
<1>4. Live \subseteq Windows
  BY DEF ChangeInv, ListInv, Live
<1>5. parx' \in [Windows -> Int] /\ \A v \in Windows : parx[v] >= 0 => parx'[v] >= 0
  BY <1>1, <1>4 DEF FlatInv
<1>6. FlatInv'
  BY <1>1, <1>3, <1>4, <1>5 DEF FlatInv, IsSubwin
<1> QED BY <1>2, <1>6

(* repair_subwindows() gives no window a negative size or place, and leaves  *)
(* the window w alone that was resized.                                      *)
LEMMA RepairedFlat ==
    ASSUME ListInv, FlatInv, NEW w \in Live, NEW g, g.done = {w},
           g.parx \in [Windows -> Int], g.maxx \in [Windows -> Nat],
           \A v \in Live : IsSubwin(v) => g.parx[v] >= 0
    PROVE  LET h == Repaired(g)
           IN /\ h.parx \in [Windows -> Int] /\ h.maxx \in [Windows -> Nat]
              /\ \A v \in Live : IsSubwin(v) => h.parx[v] >= 0
              /\ h.maxx[w] = g.maxx[w]
<1> DEFINE Flat(h) == /\ h.parx \in [Windows -> Int] /\ h.maxx \in [Windows -> Nat]
                      /\ \A v \in Live : IsSubwin(v) => h.parx[v] >= 0
                      /\ \A v \in h.done : v = w \/ IsSubwin(v)
                      /\ h.maxx[w] = g.maxx[w]
           n == Len(list)
<1>1. PICK f : /\ f[0] = g /\ Repaired(g) = f[n]
               /\ \A k \in 1..n : f[k] = FitNext(f[k - 1], list[n + 1 - k])
  BY RepairedStepwise DEF ListInv
<1>2. n \in Nat /\ Live \subseteq Windows
  BY DEF ListInv, Live
<1>3. ASSUME NEW h, NEW v \in Live, Flat(h) PROVE Flat(FitNext(h, v))
  <2>1. CASE IsSubwin(v) /\ parent[v] \in h.done
    <3> DEFINE p == parent[v]
               x == Fitted(h, v).parx
               m == Fitted(h, v).maxx
    <3>1. p \in Windows /\ v \in Windows
      BY <1>2, <2>1, ParentLives
    <3>2. /\ x = IF h.parx[v] > h.maxx[p] THEN h.maxx[p] ELSE h.parx[v]
          /\ m = IF x + h.maxx[v] > h.maxx[p] THEN h.maxx[p] - x ELSE h.maxx[v]
      BY DEF Fitted
    <3>3. h.parx[v] \in Int /\ h.parx[v] >= 0 /\ h.maxx[v] \in Nat /\ h.maxx[p] \in Nat
      BY <1>3, <2>1, <3>1
    <3> HIDE DEF x, m
    <3>4. x \in Nat /\ x <= h.maxx[p]
      BY <3>2, <3>3
    <3>5. m \in Nat
      BY <3>2, <3>3, <3>4
    <3>6. FitNext(h, v).parx = [h.parx EXCEPT ![v] = x]
          /\ FitNext(h, v).maxx = [h.maxx EXCEPT ![v] = m]
      BY <2>1 DEF FitNext, x, m
    <3>7. /\ FitNext(h, v).parx \in [Windows -> Int] /\ FitNext(h, v).maxx \in [Windows -> Nat]
          /\ \A u \in Windows : FitNext(h, v).parx[u] = IF u = v THEN x ELSE h.parx[u]
      <4>1. h.parx \in [Windows -> Int] /\ h.maxx \in [Windows -> Nat]
        BY <1>3
      <4> HIDE DEF Flat
      <4> QED BY <3>1, <3>4, <3>5, <3>6, <4>1
    <3>8. ASSUME NEW u \in Live, IsSubwin(u) PROVE FitNext(h, v).parx[u] >= 0
      <4>1. u \in Windows /\ h.parx[u] >= 0
        BY <1>2, <1>3, <3>8
      <4> HIDE DEF Flat
      <4> QED BY <3>4, <3>7, <4>1
    <3>9. p = w /\ v # w
      <4>1. ~IsSubwin(p) /\ p # v
        BY <2>1, ParentLives DEF FlatInv
      <4> QED BY <1>3, <2>1, <4>1
    <3>10. FitNext(h, v).done = h.done \cup {v} /\ FitNext(h, v).maxx[w] = g.maxx[w]
      <4>1. h.maxx \in [Windows -> Nat] /\ h.maxx[w] = g.maxx[w]
        BY <1>3
      <4>2. FitNext(h, v).done = h.done \cup {v}
        BY <2>1 DEF FitNext
      <4> HIDE DEF Flat
      <4> QED BY <3>6, <3>9, <4>1, <4>2
    <3>11. \A u \in FitNext(h, v).done : u = w \/ IsSubwin(u)
      BY <1>3, <2>1, <3>10
    <3> QED BY <3>7, <3>8, <3>10, <3>11
  <2>2. CASE ~(IsSubwin(v) /\ parent[v] \in h.done)
    <3>1. FitNext(h, v) = h
      BY <2>2 DEF FitNext
    <3> QED BY <1>3, <3>1
  <2> QED BY <2>1, <2>2
<1> HIDE DEF Flat
<1> DEFINE t == [k \in 0..n |-> IF Flat(f[k]) THEN 1 ELSE 0]
           One == {1}
<1>4. Flat(f[0])
  BY <1>1 DEF Flat
<1>5. \A k \in 1..n : Flat(f[k - 1]) => Flat(f[k])
  <2> SUFFICES ASSUME NEW k \in 1..n, Flat(f[k - 1]) PROVE Flat(f[k])
    OBVIOUS
  <2>1. n + 1 - k \in 1..n /\ list[n + 1 - k] \in Live
    BY <1>2 DEF Live
  <2> QED BY <1>1, <1>3, <2>1
<1>6. t[0] \in One /\ \A k \in 1..n : t[k - 1] \in One => t[k] \in One
  <2>1. 0 \in 0..n /\ \A k \in 1..n : k \in 0..n /\ k - 1 \in 0..n
    BY <1>2
  <2> QED BY <1>4, <1>5, <2>1
<1>7. \A k \in 0..n : t[k] = IF Flat(f[k]) THEN 1 ELSE 0
  OBVIOUS
<1> HIDE DEF t, One
<1>8. \A k \in 0..n : t[k] \in One
  BY <1>2, <1>6, StaysIn
<1>9. n \in 0..n
  BY <1>2
<1>10. Flat(Repaired(g))
  BY <1>1, <1>7, <1>8, <1>9 DEF One
<1> QED BY <1>10 DEF Flat

(* The columns that stay are marked in a window that became smaller, those   *)
(* that came in are in one that had nothing to show; of the windows below it *)
(* only the columns are dropped that they lost.                              *)
LEMMA WresizeLine ==
    ASSUME ~Grows, ChangeInv, NEW w \in Live, NEW cols \in Nat \ {0}, Wresize(w, cols)
    PROVE  FlatInv' /\ LineInv'
<1> DEFINE g == SizedTo(w, cols)
           h == Repaired(g)
           m == cols - 1
           r == Regrown(range[w], maxx[w], m)
           o == (owed[w] \cap 0..m) \cup ((maxx[w] + 1)..m)
<1>1. ListInv /\ FlatInv /\ LineInv /\ w \in Windows /\ Live \subseteq Windows /\ m \in Nat
  BY DEF ChangeInv, ListInv, Live
<1>2. /\ m # maxx[w] /\ (m < maxx[w] \/ range[w] = Unchanged)
      /\ parx' = h.parx /\ maxx' = h.maxx /\ UNCHANGED <<list, parent>>
      /\ range' = [range EXCEPT ![w] = r]
      /\ owed' = [v \in Windows |-> IF v = w THEN o ELSE owed[v] \cap 0..h.maxx[v]]
  BY DEF Wresize
<1>3. g.parx = parx /\ g.maxx = [maxx EXCEPT ![w] = m] /\ g.done = {w}
  BY DEF SizedTo
<1> HIDE DEF g
<1>4. /\ g.parx \in [Windows -> Int] /\ g.maxx \in [Windows -> Nat] /\ g.maxx[w] = m
      /\ \A v \in Live : IsSubwin(v) => g.parx[v] >= 0
  <2> HIDE DEF m
  <2> QED BY <1>1, <1>3 DEF FlatInv
<1>5. /\ h.parx \in [Windows -> Int] /\ h.maxx \in [Windows -> Nat]
      /\ \A v \in Live : IsSubwin(v) => h.parx[v] >= 0
      /\ h.maxx[w] = m
  BY <1>1, <1>3, <1>4, RepairedFlat
<1> HIDE DEF h
<1>6. Live' = Live
  BY <1>2 DEF Live
<1>7. FlatInv'
  BY <1>1, <1>2, <1>5, <1>6 DEF FlatInv, IsSubwin
<1>8. Upright(range[w]) /\ owed[w] \subseteq Marked(range[w]) /\ owed[w] \subseteq 0..maxx[w]
      /\ maxx[w] \in Nat
  BY <1>1 DEF LineInv, Line, FlatInv
<1>9. Line(r, o, m)
  <2> DEFINE f == IF m < maxx[w] THEN 0 ELSE maxx[w] + 1
  <2>1. f \in Nat /\ f <= m
    BY <1>1, <1>2, <1>8
  <2>2. r = [first |-> f, last |-> m]
    <3>1. m < maxx[w] => r = [first |-> 0, last |-> m]
      BY DEF Regrown
    <3>2. ~(m < maxx[w]) => r = [first |-> maxx[w] + 1, last |-> m]
      <4> HIDE DEF m
      <4> QED BY <1>2, <1>8 DEF Regrown, Unchanged, NOCHANGE
    <3> QED BY <3>1, <3>2
  <2>3. o \subseteq f..m
    <3>1. CASE m < maxx[w]
      <4>1. f = 0 /\ (maxx[w] + 1)..m = {}
        BY <1>1, <1>8, <3>1
      <4> QED BY <4>1
    <3>2. CASE ~(m < maxx[w])
      <4>1. Marked(range[w]) = {}
        BY <1>2, <3>2 DEF Marked, Unchanged
      <4> QED BY <1>8, <3>2, <4>1
    <3> QED BY <3>1, <3>2
  <2> HIDE DEF f, r, o, m
  <2>4. Upright(r) /\ Marked(r) = f..m
    BY <1>1, <2>1, <2>2 DEF Upright, Ranges, Marked, NOCHANGE
  <2>5. f..m \subseteq 0..m
    BY <1>1, <2>1
  <2> QED BY <2>3, <2>4, <2>5 DEF Line
<1> HIDE DEF r, o, m
<1>10. r \in Ranges /\ o \subseteq Int
  BY <1>9 DEF Line, Upright
<1>11. range' \in [Windows -> Ranges] /\ owed' \in [Windows -> SUBSET Int]
  BY <1>1, <1>2, <1>10 DEF LineInv
<1>12. ASSUME NEW v \in Windows PROVE Line(range'[v], owed'[v], maxx'[v])
  <2>1. CASE v = w
    BY <1>1, <1>2, <1>5, <1>9, <2>1 DEF LineInv
  <2>2. CASE v # w
    <3>1. range'[v] = range[v] /\ owed'[v] = owed[v] \cap 0..h.maxx[v]
      BY <1>1, <1>2, <2>2 DEF LineInv
    <3> QED BY <1>1, <1>2, <3>1 DEF LineInv, Line
  <2> QED BY <2>1, <2>2
<1>13. LineInv'
  BY <1>11, <1>12 DEF LineInv
<1> QED BY <1>7, <1>13

(* The parent of a deleted window is owed all it has.                        *)
LEMMA DelwinLine ==
    ASSUME ChangeInv, NEW w \in Live, Delwin(w)
    PROVE  FlatInv' /\ LineInv'
<1>1. ListInv /\ FlatInv /\ LineInv /\ w \in Windows /\ Live \subseteq Windows
  BY DEF ChangeInv, ListInv, Live
<1>2. Live' \subseteq Live \ {w}
  BY <1>1, DelwinLive
<1>3. /\ parent' = [parent EXCEPT ![w] = NoWin]
      /\ parx' = [parx EXCEPT ![w] = 0] /\ maxx' = [maxx EXCEPT ![w] = 0]
  BY DEF Delwin
<1>4. \A v \in Windows : /\ parent'[v] = IF v = w THEN NoWin ELSE parent[v]
                         /\ parx'[v] = IF v = w THEN 0 ELSE parx[v]
                         /\ maxx'[v] = IF v = w THEN 0 ELSE maxx[v]
  BY <1>1, <1>3 DEF ListInv, FlatInv
<1>5. FlatInv'
  <2>1. parx' \in [Windows -> Int] /\ maxx' \in [Windows -> Nat]
    BY <1>1, <1>3 DEF FlatInv
  <2>2. ASSUME NEW v \in Live', parent'[v] # NoWin
        PROVE  parent'[parent'[v]] = NoWin /\ parx'[v] >= 0
    <3>1. v \in Live /\ v # w /\ parent'[v] = parent[v] /\ parx'[v] = parx[v]
      BY <1>1, <1>2, <1>4
    <3>2. IsSubwin(v)
      BY <2>2, <3>1 DEF IsSubwin
    <3>3. parent[v] \in Windows /\ parent[parent[v]] = NoWin /\ parx[v] >= 0
      BY <1>1, <3>1, <3>2, ParentLives DEF FlatInv, IsSubwin
    <3> QED BY <1>4, <3>1, <3>3
  <2> QED BY <2>1, <2>2 DEF FlatInv, IsSubwin
<1>6. Line(Unchanged, {}, 0)
  BY DEF Line, Upright, Unchanged, Ranges, Marked, NOCHANGE
<1>7. CASE ~IsSubwin(w)
  <2>1. range' = [range EXCEPT ![w] = Unchanged] /\ owed' = [owed EXCEPT ![w] = {}]
    BY <1>7 DEF Delwin
  <2>2. LineInv'
    BY <1>1, <1>3, <1>6, <2>1, OneLine
  <2> QED BY <1>5, <2>2
<1>8. CASE IsSubwin(w)
  <2> DEFINE p == parent[w]
             m == maxx[p]
  <2>1. p \in Windows /\ p # w /\ m \in Nat
    BY <1>1, <1>8, ParentLives DEF FlatInv
  <2>2. /\ range' = [range EXCEPT ![w] = Unchanged, ![p] = Whole(m)]
        /\ owed' = [owed EXCEPT ![w] = {}, ![p] = 0..m]
    BY <1>8 DEF Delwin
  <2> HIDE DEF m
  <2>3. Unchanged \in Ranges /\ Whole(m) \in Ranges
    BY <2>1 DEF Unchanged, Whole, Ranges, NOCHANGE
  <2>4. range' \in [Windows -> Ranges] /\ owed' \in [Windows -> SUBSET Int]
    BY <1>1, <2>1, <2>2, <2>3 DEF LineInv
  <2>5. \A v \in Windows :
           /\ range'[v] = IF v = p THEN Whole(m) ELSE IF v = w THEN Unchanged ELSE range[v]
           /\ owed'[v] = IF v = p THEN 0..m ELSE IF v = w THEN {} ELSE owed[v]
    BY <1>1, <2>1, <2>2 DEF LineInv
  <2>6. maxx'[p] = m
    BY <1>4, <2>1 DEF m
  <2>7. ASSUME NEW v \in Windows PROVE Line(range'[v], owed'[v], maxx'[v])
    <3>1. CASE v = p
      BY <2>1, <2>5, <2>6, <3>1, WholeLine
    <3>2. CASE v = w
      BY <1>4, <1>6, <2>1, <2>5, <3>2
    <3>3. CASE v # p /\ v # w
      BY <1>1, <1>4, <2>5, <3>3 DEF LineInv
    <3> QED BY <3>1, <3>2, <3>3
  <2>8. LineInv'
    BY <2>4, <2>7 DEF LineInv
  <2> QED BY <1>5, <2>8
<1> QED BY <1>7, <1>8

LEMMA ChangeInit == Init => ChangeInv
<1> SUFFICES ASSUME Init PROVE ChangeInv
  OBVIOUS
<1>1. ListInv
  BY ListInit
<1>2. FlatInv
  BY DEF Init, FlatInv, Live
<1>3. LineInv
  <2>1. Line(Unchanged, {}, 0) /\ Unchanged \in Ranges
    BY DEF Line, Upright, Unchanged, Ranges, Marked, NOCHANGE
  <2> QED BY <2>1 DEF Init, LineInv
<1> QED BY <1>1, <1>2, <1>3 DEF ChangeInv

LEMMA ChangeStep ==
    ASSUME MaxDepth <= 1, ~Grows, ChangeInv, [Next]_vars
    PROVE  ChangeInv'
<1>1. ListInv /\ ListInv' /\ FlatInv /\ LineInv /\ Live \subseteq Windows
  BY ListStep DEF ChangeInv, ListInv, Live
<1>2. Columns \in Nat /\ Cols \subseteq Nat /\ Resizes \subseteq Nat \ {0} /\ MaxDepth \in Nat
      /\ \A cols \in 1..Columns : cols - 1 \in Nat
  BY ColumnsAssumption, CallsAssumption DEF Cols
<1>3. SUFFICES FlatInv' /\ LineInv'
  BY <1>1 DEF ChangeInv
<1>4. ASSUME NEW w \in Windows, NEW cols \in 1..Columns, Newwin(w, cols)
      PROVE  FlatInv' /\ LineInv'
  <2>1. /\ Made(w, NoWin, -1, cols - 1, [buf |-> w, at |-> 0])
        /\ range' = [range EXCEPT ![w] = Whole(cols - 1)]
        /\ owed' = [owed EXCEPT ![w] = 0..(cols - 1)]
        /\ -1 \in Int /\ cols - 1 \in Nat
    BY <1>2, <1>4 DEF Newwin
  <2>2. Line(Whole(cols - 1), 0..(cols - 1), cols - 1)
    BY <2>1, WholeLine
  <2> QED BY <1>1, <2>1, <2>2, MadeLine
<1>5. ASSUME NEW w \in Windows, NEW orig \in Windows, NEW cols \in 1..Columns, NEW x \in Cols,
             Derwin(w, orig, cols, x)
      PROVE  FlatInv' /\ LineInv'
  <2>1. /\ orig \in Live /\ Depth(orig) < MaxDepth
        /\ Made(w, orig, x, cols - 1, [text[orig] EXCEPT !.at = @ + x])
        /\ range' = [range EXCEPT ![w] = Whole(cols - 1)]
        /\ owed' = [owed EXCEPT ![w] = 0..(cols - 1)]
    BY <1>5 DEF Derwin
  <2>2. ~IsSubwin(orig)
    <3>1. Depth(orig) = IF IsSubwin(orig) THEN 1 ELSE 0
      BY <1>1, <2>1, DepthOfOne
    <3> QED BY <1>2, <2>1, <3>1
  <2>3. Line(Whole(cols - 1), 0..(cols - 1), cols - 1) /\ cols - 1 \in Nat
    BY <1>2, WholeLine
  <2>4. x \in Int /\ x >= 0
    BY <1>2
  <2> QED BY <1>1, <2>1, <2>2, <2>3, <2>4, MadeLine
<1>6. ASSUME NEW w \in Windows, NEW target \in Windows, Dupwin(w, target)
      PROVE  FlatInv' /\ LineInv'
  <2> DEFINE m == maxx[target]
             r == range[target]
             o == owed[target]
  <2>1. /\ Made(w, NoWin, 0, m, [buf |-> w, at |-> 0]) /\ m \in Nat
        /\ range' = [range EXCEPT ![w] = r] /\ owed' = [owed EXCEPT ![w] = o]
    BY <1>1, <1>6 DEF Dupwin, FlatInv
  <2>2. Line(r, o, m)
    BY <1>1 DEF LineInv
  <2> DEFINE t == [buf |-> w, at |-> 0]
  <2>3. Made(w, NoWin, 0, m, t) /\ NoWin \in Live \cup {NoWin} /\ 0 \in Int
    BY <2>1
  <2> HIDE DEF m, r, o, t
  <2> QED BY <1>1, <2>1, <2>2, <2>3, MadeLine
<1>7. ASSUME NEW w \in Live, NEW c \in 0..maxx[w], NEW synced \in BOOLEAN,
             Waddch(w, c, synced) \/ Wclrtoeol(w, c, synced)
      PROVE  FlatInv' /\ LineInv'
  BY <1>7, WriteLine
<1>8. ASSUME NEW w \in Live,
             (\E flagged \in BOOLEAN : Wtouchln(w, flagged)) \/ Wsyncup(w) \/ Wnoutrefresh(w)
      PROVE  FlatInv' /\ LineInv'
  <2>1. ASSUME Wsyncup(w) PROVE FlatInv' /\ LineInv'
    <3>1. range' = SyncedUp(range, w) /\ UNCHANGED <<list, parent, parx, maxx, owed>>
      BY <2>1 DEF Wsyncup, tree
    <3> QED BY <1>1, <3>1, FlatKept, WsyncupLine
  <2> QED BY <1>8, <2>1, WtouchlnLine, WnoutrefreshLine
<1>9. ASSUME NEW w \in Live, NEW x \in Cols, Mvderwin(w, x)
      PROVE  FlatInv' /\ LineInv'
  BY <1>2, <1>9, MvderwinLine
<1>10. ASSUME NEW w \in Live, NEW cols \in Resizes, Wresize(w, cols)
       PROVE  FlatInv' /\ LineInv'
  BY <1>2, <1>10, WresizeLine
<1>11. ASSUME NEW w \in Live, Delwin(w)
       PROVE  FlatInv' /\ LineInv'
  BY <1>11, DelwinLine
<1>12. CASE UNCHANGED vars
  <2>1. UNCHANGED <<list, parent, parx, maxx, range, owed>>
    BY <1>12 DEF vars
  <2>2. LineInv'
    BY <1>1, <2>1 DEF LineInv
  <2> QED BY <1>1, <2>1, <2>2, FlatKept
<1> QED BY <1>4, <1>5, <1>6, <1>7, <1>8, <1>9, <1>10, <1>11, <1>12 DEF Next

(* No change is lost on its way to the screen: whatever is written through a *)
(* window or its parent is copied when the window is refreshed, through any  *)
(* sequence of writing, touching, syncing, refreshing, making, moving,       *)
(* resizing and deleting of windows; where no subwindow has subwindows       *)
(* itself, and none grows while changes wait.                                *)
THEOREM ChangesAreShown ==
    ASSUME MaxDepth <= 1, ~Grows
    PROVE  Spec => []NoChangeLost
<1>1. ChangeInv => NoChangeLost
  BY OwedIsCopied
<1>2. ChangeInv /\ [Next]_vars => ChangeInv'
  BY ChangeStep
<1> QED BY <1>1, <1>2, ChangeInit, PTL DEF Spec

-----------------------------------------------------------------------------
(* The panels.                                                               *)

Assumed == OnScreen /\ PanelsApart

(* What the lemmas ask of the constants is assumed of them.                  *)
LEMMA ConstantsAreSo == Assumed
BY PanelsAssumption DEF Assumed

(* The names of windows and panels are apart, and windows are on the screen. *)
LEMMA Names ==
    ASSUME Assumed
    PROVE  /\ stdscr # NoPanel /\ NoPanel \notin AllWindows /\ NoPanel \notin AllPanels
           /\ stdscr \in AllWindows /\ PanelWindows \subseteq AllWindows
           /\ Pseudo \in AllPanels /\ Panels = AllPanels \ {Pseudo}
           /\ \A w \in AllWindows : Maxy(w) \in Nat /\ Maxx(w) \in Nat
                                    /\ Maxy(w) <= MaxY /\ Maxx(w) <= MaxX
<1>1. stdscr # NoPanel /\ Pseudo # NoPanel
  BY DEF stdscr, NoPanel, Pseudo
<1>2. NoPanel \notin AllWindows /\ NoPanel \notin AllPanels
  BY <1>1 DEF Assumed, PanelsApart, AllWindows, AllPanels
<1>3. ASSUME NEW w \in AllWindows
      PROVE  Maxy(w) \in Nat /\ Maxx(w) \in Nat /\ Maxy(w) <= MaxY /\ Maxx(w) <= MaxX
  <2>1. CASE w = stdscr
    BY <2>1 DEF Maxy, Maxx, Assumed, OnScreen
  <2>2. CASE w # stdscr
    <3>1. w \in PanelWindows
      BY <2>2 DEF AllWindows
    <3>2. PanelHeight[w] \in 1..(MaxY + 1) /\ PanelWidth[w] \in 1..(MaxX + 1)
      BY <3>1 DEF Assumed, PanelsApart
    <3> QED BY <2>2, <3>2 DEF Maxy, Maxx, Assumed, OnScreen
  <2> QED BY <2>1, <2>2
<1>4. Pseudo \in AllPanels /\ Panels = AllPanels \ {Pseudo}
  BY DEF AllPanels, Assumed, PanelsApart
<1> QED BY <1>1, <1>2, <1>3, <1>4 DEF AllWindows

-----------------------------------------------------------------------------
(* The links of a stack.                                                     *)

Links == [AllPanels -> AllPanels \cup {NoPanel}]
In(o, p) == \E i \in 1..Len(o) : o[i] = p

(* The links of s thread the panels o, of which the first is stdscr's.       *)
Threads(s, o) ==
    /\ o \in Seq(AllPanels) /\ Len(o) > 0 /\ o[1] = Pseudo
    /\ \A i, j \in 1..Len(o) : o[i] = o[j] => i = j
    /\ s.bottom = Pseudo /\ s.top = o[Len(o)]
    /\ s.above \in Links /\ s.below \in Links
    /\ \A i \in 1..Len(o) :
          /\ s.above[o[i]] = IF i = Len(o) THEN NoPanel ELSE o[i + 1]
          /\ s.below[o[i]] = IF i = 1 THEN NoPanel ELSE o[i - 1]
    /\ \A p \in AllPanels : ~In(o, p) => s.above[p] = NoPanel /\ s.below[p] = NoPanel

(* IS_LINKED() tells the panels of the stack.                                *)
LEMMA LinkedIn ==
    ASSUME Assumed, NEW s, NEW o, Threads(s, o), NEW p \in AllPanels
    PROVE  IS_LINKED(s, p) <=> In(o, p)
<1>1. ASSUME In(o, p) PROVE IS_LINKED(s, p)
  <2>1. PICK i \in 1..Len(o) : o[i] = p
    BY <1>1 DEF In
  <2>2. CASE i = 1
    BY <2>1, <2>2 DEF IS_LINKED, Threads
  <2>3. CASE i # 1
    <3>1. s.below[p] = o[i - 1] /\ o[i - 1] \in AllPanels
      BY <2>1, <2>3 DEF Threads
    <3> QED BY <3>1, Names DEF IS_LINKED
  <2> QED BY <2>2, <2>3
<1>2. ASSUME ~In(o, p) PROVE ~IS_LINKED(s, p)
  <2>1. In(o, Pseudo)
    BY DEF In, Threads
  <2> QED BY <1>2, <2>1 DEF IS_LINKED, Threads
<1> QED BY <1>1, <1>2

(* A stack has no more panels than there are.                                *)
LEMMA StackFits ==
    ASSUME Assumed, NEW s, NEW o, Threads(s, o)
    PROVE  /\ Cardinality(AllPanels) \in Nat /\ Len(o) <= Cardinality(AllPanels)
           /\ Cardinality(Panels) \in Nat /\ Len(o) - 1 <= Cardinality(Panels)
<1>1. IsFiniteSet(Panels) /\ Pseudo \notin Panels /\ AllPanels = Panels \cup {Pseudo}
  BY DEF Assumed, PanelsApart, AllPanels
<1>2. /\ IsFiniteSet(AllPanels) /\ Cardinality(AllPanels) = Cardinality(Panels) + 1
      /\ Cardinality(Panels) \in Nat
  BY <1>1, FS_AddElement, FS_CardinalityType
<1>3. Len(o) \in Nat /\ o \in [1..Len(o) -> AllPanels]
  BY DEF Threads
<1>4. o \in Injection(1..Len(o), AllPanels)
  BY <1>3 DEF Threads, Injection, IsInjective
<1>5. Cardinality(1..Len(o)) <= Cardinality(AllPanels)
  BY <1>2, <1>4, FS_Injection
<1>6. Cardinality(1..Len(o)) = Len(o)
  <2>1. 1 \in Int /\ Len(o) \in Int /\ ~(1 > Len(o)) /\ Len(o) - 1 + 1 = Len(o)
    <3>1. Len(o) > 0
      BY DEF Threads
    <3> QED BY ONLY <1>3, <3>1
  <2>2. Cardinality(1..Len(o)) = IF 1 > Len(o) THEN 0 ELSE Len(o) - 1 + 1
    BY <2>1, FS_Interval
  <2> QED BY <2>1, <2>2
<1> QED BY <1>2, <1>3, <1>5, <1>6

(* What PANEL_UPDATE() walks over.                                           *)
LEMMA UpwardsIs ==
    ASSUME Assumed, NEW s, NEW o, Threads(s, o), NEW k \in 1..Len(o)
    PROVE  Upwards(s, o[k]) = SubSeq(o, k, Len(o))
<1> DEFINE N == Cardinality(AllPanels)
           L == Len(o)
           Ok(g) == g = [n \in 0..N |->
                IF n = 0 THEN <<o[k]>>
                ELSE LET q == s.above[Last(g[n - 1])]
                     IN IF q = NoPanel THEN g[n - 1] ELSE Append(g[n - 1], q)]
           End(n) == IF k + n <= L THEN k + n ELSE L
           f == [n \in 0..N |-> SubSeq(o, k, End(n))]
           up == CHOOSE g : Ok(g)
<1>1. N \in Nat /\ L \in Nat /\ L <= N /\ o \in Seq(AllPanels) /\ k \in 1..L
  BY StackFits DEF Threads
<1> HIDE DEF N, L
<1>2. ASSUME NEW n \in 0..N
      PROVE  /\ End(n) \in k..L /\ Last(SubSeq(o, k, End(n))) = o[End(n)]
             /\ End(n) # L => SubSeq(o, k, End(n) + 1) = Append(SubSeq(o, k, End(n)), o[End(n) + 1])
  <2>1. End(n) \in k..L
    BY <1>1
  <2> HIDE DEF End
  <2>2. o \in Seq(AllPanels) /\ k \in 1..Len(o) /\ End(n) \in k..Len(o)
    BY <1>1, <2>1 DEF L
  <2>3. /\ Last(SubSeq(o, k, End(n))) = o[End(n)]
        /\ End(n) # Len(o) => SubSeq(o, k, End(n) + 1) = Append(SubSeq(o, k, End(n)), o[End(n) + 1])
    BY ONLY <2>2, Slice
  <2> QED BY <2>1, <2>3 DEF L
<1>3. ASSUME NEW n \in 1..N
      PROVE  SubSeq(o, k, End(n)) =
                LET q == s.above[Last(SubSeq(o, k, End(n - 1)))]
                IN IF q = NoPanel THEN SubSeq(o, k, End(n - 1)) ELSE Append(SubSeq(o, k, End(n - 1)), q)
  <2>1. n - 1 \in 0..N /\ n \in 0..N
    BY <1>1
  <2>2. End(n) = IF End(n - 1) = L THEN L ELSE End(n - 1) + 1
    BY <1>1, <2>1
  <2> DEFINE e == End(n - 1)
  <2>3. /\ e \in k..L /\ Last(SubSeq(o, k, e)) = o[e]
        /\ e # L => SubSeq(o, k, e + 1) = Append(SubSeq(o, k, e), o[e + 1])
    BY <1>2, <2>1
  <2>4. End(n) = IF e = L THEN L ELSE e + 1
    BY <2>2
  <2> HIDE DEF e, End
  <2>5. s.above[o[e]] = IF e = L THEN NoPanel ELSE o[e + 1]
    <3>1. e \in 1..Len(o)
      BY <1>1, <2>3 DEF L
    <3> QED BY <3>1 DEF Threads, L
  <2>6. e # L => o[e + 1] # NoPanel
    <3>1. e # L => e + 1 \in 1..Len(o)
      BY <1>1, <2>3 DEF L
    <3> QED BY <1>1, <3>1, Names
  <2>7. SubSeq(o, k, End(n)) =
           LET q == s.above[Last(SubSeq(o, k, e))]
           IN IF q = NoPanel THEN SubSeq(o, k, e) ELSE Append(SubSeq(o, k, e), q)
    BY <2>3, <2>4, <2>5, <2>6
  <2> QED BY <2>7 DEF e
<1>4. Ok(f)
  <2>1. \A n \in 0..N : f[n] = SubSeq(o, k, End(n))
    OBVIOUS
  <2>2. f[0] = <<o[k]>>
    <3>1. 0 \in 0..N /\ End(0) = k
      BY <1>1
    <3> HIDE DEF f
    <3> QED BY <1>1, <2>1, <3>1
  <2>3. ASSUME NEW n \in 0..N
        PROVE  f[n] = IF n = 0 THEN <<o[k]>>
                      ELSE LET q == s.above[Last(f[n - 1])]
                           IN IF q = NoPanel THEN f[n - 1] ELSE Append(f[n - 1], q)
    <3>1. CASE n = 0
      BY <2>2, <3>1
    <3>2. CASE n # 0
      <4>1. n \in 1..N /\ n - 1 \in 0..N
        BY <1>1, <3>2
      <4>2. f[n - 1] = SubSeq(o, k, End(n - 1)) /\ f[n] = SubSeq(o, k, End(n))
        BY <2>1, <4>1
      <4> HIDE DEF f, End
      <4> QED BY <1>3, <3>2, <4>1, <4>2
    <3> QED BY <3>1, <3>2
  <2> HIDE DEF f
  <2>4. f = [n \in 0..N |-> f[n]]
    BY DEF f
  <2> QED BY <2>3, <2>4
<1>5. Ok(up)
  <2>1. \E g : Ok(g)
    <3> HIDE DEF Ok, f
    <3> QED BY <1>4
  <2> HIDE DEF Ok
  <2> QED BY <2>1
<1>6. up[N] = f[N]
  <2> HIDE DEF up, f
  <2> DEFINE T == {n \in 0..N : up[n] # f[n]}
  <2>1. SUFFICES ASSUME T # {} PROVE FALSE
    BY <1>1
  <2>2. PICK n \in T : \A m \in T : n <= m
    <3>1. T \subseteq Nat
      BY <1>1
    <3> HIDE DEF T
    <3> QED BY <2>1, <3>1, LeastNatural
  <2>3. up[0] = <<o[k]>> /\ f[0] = <<o[k]>>
    BY <1>1, <1>4, <1>5
  <2>4. n \in 0..N /\ n # 0 /\ up[n] # f[n]
    BY <2>2, <2>3
  <2>5. n - 1 \in 0..N /\ up[n - 1] = f[n - 1]
    <3>1. n - 1 \in 0..N /\ ~(n <= n - 1)
      BY <1>1, <2>4
    <3> QED BY <2>2, <3>1
  <2>6. up[n] = LET q == s.above[Last(up[n - 1])]
                IN IF q = NoPanel THEN up[n - 1] ELSE Append(up[n - 1], q)
    BY <1>5, <2>4
  <2>7. f[n] = LET q == s.above[Last(f[n - 1])]
                IN IF q = NoPanel THEN f[n - 1] ELSE Append(f[n - 1], q)
    BY <1>4, <2>4
  <2> QED BY <2>4, <2>5, <2>6, <2>7
<1>7. f[N] = SubSeq(o, k, L)
  BY <1>1
<1>8. o[k] # NoPanel
  BY <1>1, Names
<1>9. Upwards(s, o[k]) = up[N]
  BY <1>8 DEF Upwards, N
<1> QED BY <1>6, <1>7, <1>9 DEF L

(* What a line may be marked with.                                           *)
MarkRanges(w) == {Unmarked} \cup {r \in (0..Maxx(w)) \X (0..Maxx(w)) : r[1] <= r[2]}
MarksOf(w) == [LinesOf(w) -> MarkRanges(w)]
AllMarks == {m \in [AllWindows -> UNION {MarksOf(w) : w \in AllWindows}] :
                \A w \in AllWindows : m[w] \in MarksOf(w)}
Stacks == [win : [AllPanels -> AllWindows \cup {NoPanel}], above : Links, below : Links,
           top : AllPanels \cup {NoPanel}, bottom : AllPanels \cup {NoPanel}, changed : AllMarks]

(* The panels o without the k-th, and with p at the k-th place.              *)
Without(o, k) == [i \in 1..(Len(o) - 1) |-> IF i < k THEN o[i] ELSE o[i + 1]]
With(o, k, p) == [i \in 1..(Len(o) + 1) |-> IF i < k THEN o[i] ELSE IF i = k THEN p ELSE o[i - 1]]

(* A sequence without its k-th element.                                      *)
LEMMA WithoutIs ==
    ASSUME NEW S, NEW o \in Seq(S), NEW k \in 1..Len(o)
    PROVE  /\ Without(o, k) \in Seq(S) /\ Len(Without(o, k)) = Len(o) - 1
           /\ \A i \in 1..(Len(o) - 1) : Without(o, k)[i] = IF i < k THEN o[i] ELSE o[i + 1]
<1>1. Len(o) - 1 \in Nat
  OBVIOUS
<1>2. Without(o, k) \in [1..(Len(o) - 1) -> S]
  BY DEF Without
<1>3. \A i \in 1..(Len(o) - 1) : Without(o, k)[i] = IF i < k THEN o[i] ELSE o[i + 1]
  BY DEF Without
<1> QED BY <1>1, <1>2, <1>3

(* A sequence with an element put in at k.                                   *)
LEMMA WithIs ==
    ASSUME NEW S, NEW o \in Seq(S), NEW k \in 1..(Len(o) + 1), NEW p \in S
    PROVE  /\ With(o, k, p) \in Seq(S) /\ Len(With(o, k, p)) = Len(o) + 1
           /\ \A i \in 1..(Len(o) + 1) :
                 With(o, k, p)[i] = IF i < k THEN o[i] ELSE IF i = k THEN p ELSE o[i - 1]
<1>1. Len(o) + 1 \in Nat
  OBVIOUS
<1>2. With(o, k, p) \in [1..(Len(o) + 1) -> S]
  BY DEF With
<1>3. \A i \in 1..(Len(o) + 1) :
         With(o, k, p)[i] = IF i < k THEN o[i] ELSE IF i = k THEN p ELSE o[i - 1]
  BY DEF With
<1> QED BY <1>1, <1>2, <1>3

(* PANEL_UNLINK() takes a panel out of the stack and joins its neighbours.   *)
LEMMA Unlinked ==
    ASSUME Assumed, NEW s \in Stacks, NEW o, Threads(s, o), NEW k \in 2..Len(o)
    PROVE  /\ PANEL_UNLINK(s, o[k]) \in Stacks
           /\ PANEL_UNLINK(s, o[k]).win = s.win /\ PANEL_UNLINK(s, o[k]).changed = s.changed
           /\ Threads(PANEL_UNLINK(s, o[k]), Without(o, k))
<1> DEFINE L == Len(o)
           p == o[k]
           a == s.above[p]
           b == s.below[p]
           u == PANEL_UNLINK(s, p)
           q == Without(o, k)
<1>1. /\ o \in Seq(AllPanels) /\ L \in Nat /\ k \in 2..L
      /\ o \in [1..L -> AllPanels] /\ \A i, j \in 1..L : o[i] = o[j] => i = j
  BY DEF Threads
<1> HIDE DEF L
<1>2. /\ p \in AllPanels /\ a = IF k = L THEN NoPanel ELSE o[k + 1]
      /\ b = o[k - 1] /\ b \in AllPanels /\ a \in AllPanels \cup {NoPanel}
      /\ p # b /\ p # a /\ p # Pseudo
  <2>1. k \in 1..L /\ 1 \in 1..L /\ k - 1 \in 1..L /\ k # 1 /\ (k # L => k + 1 \in 1..L)
    BY <1>1
  <2>2. p \in AllPanels /\ a = (IF k = L THEN NoPanel ELSE o[k + 1]) /\ b = o[k - 1]
    BY <2>1 DEF Threads, L
  <2>3. p # Pseudo /\ p # b
    BY <1>1, <2>1, <2>2 DEF Threads
  <2>4. p # a
    BY <1>1, <2>1, <2>2, Names
  <2>5. b \in AllPanels /\ a \in AllPanels \cup {NoPanel}
    BY <1>1, <2>1, <2>2
  <2> QED BY <2>2, <2>3, <2>4, <2>5
<1> HIDE DEF p, a, b
<1> HIDE DEF u
<1>3. /\ DOMAIN s.above = AllPanels /\ DOMAIN s.below = AllPanels
      /\ s.bottom = Pseudo /\ s.top = o[L] /\ s.above \in Links /\ s.below \in Links
  BY DEF Threads, Links, L
<1>4. /\ u.win = s.win /\ u.changed = s.changed /\ u.bottom = Pseudo
      /\ u.top = IF p = o[L] THEN b ELSE o[L]
      /\ u.above = [x \in AllPanels |-> IF x = p THEN NoPanel ELSE IF x = b THEN a ELSE s.above[x]]
      /\ u.below = [x \in AllPanels |-> IF x = p THEN NoPanel ELSE IF x = a THEN b ELSE s.below[x]]
      /\ u = [win |-> u.win, above |-> u.above, below |-> u.below, top |-> u.top,
              bottom |-> u.bottom, changed |-> u.changed]
  <2> DEFINE up == [x \in AllPanels |-> IF x = p THEN NoPanel ELSE IF x = b THEN a ELSE s.above[x]]
             down == [x \in AllPanels |-> IF x = p THEN NoPanel ELSE IF x = a THEN b ELSE s.below[x]]
  <2>1. u = [s EXCEPT !.above = up, !.below = down, !.bottom = IF p = @ THEN a ELSE @,
                      !.top = IF p = @ THEN b ELSE @]
    BY DEF PANEL_UNLINK, a, b, u
  <2> HIDE DEF up, down
  <2>2. s = [win |-> s.win, above |-> s.above, below |-> s.below, top |-> s.top,
             bottom |-> s.bottom, changed |-> s.changed]
    BY DEF Stacks
  <2>3. u = [win |-> s.win, above |-> up, below |-> down, top |-> IF p = s.top THEN b ELSE s.top,
             bottom |-> IF p = s.bottom THEN a ELSE s.bottom, changed |-> s.changed]
    BY <2>1, <2>2
  <2> QED BY <1>2, <1>3, <2>3 DEF up, down
<1>5. u.above \in Links /\ u.below \in Links
  BY <1>2, <1>3, <1>4 DEF Links
<1>6. u.top \in AllPanels
  BY <1>1, <1>2, <1>4
<1>7. u \in Stacks
  <2>1. s.win \in [AllPanels -> AllWindows \cup {NoPanel}] /\ s.changed \in AllMarks
    BY DEF Stacks
  <2>2. u.bottom \in AllPanels
    BY <1>4, Names
  <2> QED BY <1>4, <1>5, <1>6, <2>1, <2>2 DEF Stacks
<1>8. /\ q \in Seq(AllPanels) /\ Len(q) = L - 1
      /\ \A i \in 1..(L - 1) : q[i] = IF i < k THEN o[i] ELSE o[i + 1]
  <2>1. k \in 1..Len(o) /\ L = Len(o)
    BY DEF L
  <2> QED BY <1>1, <2>1, WithoutIs
<1> HIDE DEF q
<1>9. Threads(u, q)
  <2>1. q[1] = Pseudo /\ Len(q) > 0
    <3>1. 1 \in 1..(L - 1) /\ 1 < k
      BY <1>1
    <3> QED BY <1>8, <3>1 DEF Threads
  <2>2. ASSUME NEW i \in 1..Len(q), NEW j \in 1..Len(q), q[i] = q[j] PROVE i = j
    <3> DEFINE at(n) == IF n < k THEN n ELSE n + 1
    <3>1. at(i) \in 1..L /\ at(j) \in 1..L /\ q[i] = o[at(i)] /\ q[j] = o[at(j)]
      BY <1>1, <1>8
    <3>2. at(i) = at(j)
      BY <1>1, <2>2, <3>1
    <3> QED BY <1>1, <1>8, <3>2
  <2>3. u.top = q[Len(q)]
    <3>1. L - 1 \in 1..(L - 1)
      BY <1>1
    <3>2. p = o[L] <=> k = L
      BY <1>1 DEF p
    <3> QED BY <1>1, <1>2, <1>4, <1>8, <3>1, <3>2
  <2>4. ASSUME NEW i \in 1..Len(q)
        PROVE  /\ u.above[q[i]] = IF i = Len(q) THEN NoPanel ELSE q[i + 1]
               /\ u.below[q[i]] = IF i = 1 THEN NoPanel ELSE q[i - 1]
    <3>1. ASSUME NEW n \in 1..L, n # k
          PROVE  /\ o[n] # p /\ o[n] \in AllPanels
                 /\ o[n] = b <=> n = k - 1
                 /\ o[n] = a <=> n = k + 1
                 /\ s.above[o[n]] = IF n = L THEN NoPanel ELSE o[n + 1]
                 /\ s.below[o[n]] = IF n = 1 THEN NoPanel ELSE o[n - 1]
      <4>1. k \in 1..L /\ k - 1 \in 1..L /\ (k # L => k + 1 \in 1..L)
        BY <1>1
      <4>2. o[n] # p /\ o[n] \in AllPanels /\ (o[n] = b <=> n = k - 1)
        BY <1>1, <1>2, <3>1, <4>1 DEF p
      <4>3. o[n] = a <=> n = k + 1
        <5>1. CASE k = L
          BY <1>1, <1>2, <4>1, <4>2, <5>1, Names
        <5>2. CASE k # L
          BY <1>1, <1>2, <4>1, <5>2
        <5> QED BY <5>1, <5>2
      <4>4. /\ s.above[o[n]] = IF n = L THEN NoPanel ELSE o[n + 1]
            /\ s.below[o[n]] = IF n = 1 THEN NoPanel ELSE o[n - 1]
        BY DEF Threads, L
      <4> QED BY <4>2, <4>3, <4>4
    <3> DEFINE n == IF i < k THEN i ELSE i + 1
    <3>2. n \in 1..L /\ n # k /\ q[i] = o[n] /\ i \in 1..(L - 1)
      BY <1>1, <1>8
    <3>3. u.above[q[i]] = IF n = k - 1 THEN a ELSE IF n = L THEN NoPanel ELSE o[n + 1]
      <4> HIDE DEF n
      <4> QED BY <1>4, <3>1, <3>2
    <3>4. u.below[q[i]] = IF n = k + 1 THEN b ELSE IF n = 1 THEN NoPanel ELSE o[n - 1]
      <4> HIDE DEF n
      <4> QED BY <1>4, <3>1, <3>2
    <3>5. i # L - 1 => q[i + 1] = IF i + 1 < k THEN o[i + 1] ELSE o[i + 2]
      BY <1>1, <1>8, <3>2
    <3>6. i # 1 => q[i - 1] = IF i - 1 < k THEN o[i - 1] ELSE o[i]
      BY <1>1, <1>8, <3>2
    <3>7. u.above[q[i]] = IF i = Len(q) THEN NoPanel ELSE q[i + 1]
      <4>1. CASE i = L - 1 /\ k = L
        BY <1>1, <1>2, <1>8, <3>3, <4>1
      <4>2. CASE i = L - 1 /\ k # L
        BY <1>1, <1>2, <1>8, <3>3, <4>2
      <4>3. CASE i = k - 1 /\ i # L - 1
        BY <1>1, <1>2, <1>8, <3>2, <3>3, <3>5, <4>3
      <4>4. CASE i # k - 1 /\ i # L - 1
        BY <1>1, <1>2, <1>8, <3>2, <3>3, <3>5, <4>4
      <4> QED BY <1>1, <4>1, <4>2, <4>3, <4>4
    <3>8. u.below[q[i]] = IF i = 1 THEN NoPanel ELSE q[i - 1]
      <4>1. CASE i = 1
        BY <1>1, <1>2, <1>8, <3>4, <4>1
      <4>2. CASE i # 1
        BY <1>1, <1>2, <1>8, <3>2, <3>4, <3>6, <4>2
      <4> QED BY <4>1, <4>2
    <3> QED BY <3>7, <3>8
  <2>5. ASSUME NEW x \in AllPanels, ~In(q, x)
        PROVE  u.above[x] = NoPanel /\ u.below[x] = NoPanel
    <3>1. CASE x = p
      BY <1>4, <3>1
    <3>2. CASE x # p
      <4>1. ASSUME NEW n \in 1..L, o[n] = x PROVE FALSE
        <5>1. n # k
          BY <3>2, <4>1 DEF p
        <5> DEFINE i == IF n < k THEN n ELSE n - 1
        <5>2. i \in 1..(L - 1) /\ q[i] = o[n]
          BY <1>1, <1>8, <5>1
        <5> QED BY <1>8, <2>5, <4>1, <5>2 DEF In
      <4>2. s.above[x] = NoPanel /\ s.below[x] = NoPanel
        BY <4>1 DEF Threads, In, L
      <4>3. x # b /\ x # a
        <5>1. k - 1 \in 1..L /\ (k # L => k + 1 \in 1..L)
          BY <1>1
        <5> QED BY <1>2, <4>1, <5>1, Names
      <4> QED BY <1>4, <3>2, <4>2, <4>3
    <3> QED BY <3>1, <3>2
  <2> QED BY <1>4, <1>5, <1>8, <2>1, <2>2, <2>3, <2>4, <2>5 DEF Threads
<1> QED BY <1>4, <1>7, <1>9 DEF u, p, q

(* A panel that is linked in at k is in the stack, between its neighbours.   *)
LEMMA Inserted ==
    ASSUME Assumed, NEW s, NEW o, Threads(s, o), NEW k \in 2..(Len(o) + 1),
           NEW p \in AllPanels, ~In(o, p), NEW u,
           u.bottom = s.bottom, u.top = IF k = Len(o) + 1 THEN p ELSE s.top,
           u.above = [x \in AllPanels |->
                         IF x = p THEN IF k = Len(o) + 1 THEN NoPanel ELSE o[k]
                         ELSE IF x = o[k - 1] THEN p ELSE s.above[x]],
           u.below = [x \in AllPanels |->
                         IF x = p THEN o[k - 1]
                         ELSE IF k # Len(o) + 1 /\ x = o[k] THEN p ELSE s.below[x]]
    PROVE  Threads(u, With(o, k, p))
<1> DEFINE L == Len(o)
           q == With(o, k, p)
<1>1. /\ o \in Seq(AllPanels) /\ L \in Nat /\ L > 0 /\ k \in 2..(L + 1)
      /\ o \in [1..L -> AllPanels] /\ \A i, j \in 1..L : o[i] = o[j] => i = j
  BY DEF Threads
<1>2. \A i \in 1..L : o[i] # p
  BY DEF In
<1> HIDE DEF L
<1>3. /\ q \in Seq(AllPanels) /\ Len(q) = L + 1
      /\ \A i \in 1..(L + 1) : q[i] = IF i < k THEN o[i] ELSE IF i = k THEN p ELSE o[i - 1]
  <2>1. k \in 1..(Len(o) + 1)
    BY <1>1 DEF L
  <2> HIDE DEF q
  <2>2. /\ q \in Seq(AllPanels) /\ Len(q) = Len(o) + 1
        /\ \A i \in 1..(Len(o) + 1) : q[i] = IF i < k THEN o[i] ELSE IF i = k THEN p ELSE o[i - 1]
    <3>1. o \in Seq(AllPanels) /\ p \in AllPanels
      BY <1>1
    <3>2. With(o, k, p) \in Seq(AllPanels)
      BY <2>1, <3>1, WithIs
    <3>3. Len(With(o, k, p)) = Len(o) + 1
      BY <2>1, <3>1, WithIs
    <3>4. \A i \in 1..(Len(o) + 1) :
             With(o, k, p)[i] = IF i < k THEN o[i] ELSE IF i = k THEN p ELSE o[i - 1]
      BY <2>1, <3>1, WithIs
    <3> QED BY <3>2, <3>3, <3>4 DEF q
  <2> QED BY ONLY <2>2 DEF L
<1>4. s.bottom = Pseudo /\ s.top = o[L] /\ s.above \in Links /\ s.below \in Links /\ o[1] = Pseudo
  BY DEF Threads, L
<1>5. k - 1 \in 1..L /\ (k # L + 1 => k \in 1..L)
  BY <1>1
<1>6. ASSUME NEW n \in 1..L
      PROVE  /\ o[n] \in AllPanels
             /\ s.above[o[n]] = IF n = L THEN NoPanel ELSE o[n + 1]
             /\ s.below[o[n]] = IF n = 1 THEN NoPanel ELSE o[n - 1]
             /\ u.above[o[n]] = IF n = k - 1 THEN p ELSE s.above[o[n]]
             /\ u.below[o[n]] = IF n = k THEN p ELSE s.below[o[n]]
  <2>1. /\ o[n] \in AllPanels
        /\ s.above[o[n]] = IF n = L THEN NoPanel ELSE o[n + 1]
        /\ s.below[o[n]] = IF n = 1 THEN NoPanel ELSE o[n - 1]
    BY <1>1 DEF Threads, L
  <2>2. o[n] # p /\ (o[n] = o[k - 1] <=> n = k - 1) /\ (k # L + 1 => (o[n] = o[k] <=> n = k))
    BY <1>1, <1>2, <1>5
  <2>3. k = L + 1 => n # k
    BY <1>1
  <2> QED BY <2>1, <2>2, <2>3 DEF L
<1>7. u.above[p] = (IF k = L + 1 THEN NoPanel ELSE o[k]) /\ u.below[p] = o[k - 1]
  BY DEF L
<1>8. u.above \in Links /\ u.below \in Links
  <2>1. o[k - 1] \in AllPanels /\ (k # L + 1 => o[k] \in AllPanels)
    BY <1>1, <1>5
  <2> QED BY <1>4, <2>1 DEF Links, L
<1>9. u.bottom = Pseudo /\ u.top = IF k = L + 1 THEN p ELSE o[L]
  BY <1>4 DEF L
<1>10. ASSUME NEW x \in AllPanels, ~In(o, x), x # p
       PROVE  u.above[x] = NoPanel /\ u.below[x] = NoPanel
  <2>1. s.above[x] = NoPanel /\ s.below[x] = NoPanel
    BY <1>10 DEF Threads
  <2>2. x # o[k - 1] /\ (k # L + 1 => x # o[k])
    BY <1>5, <1>10 DEF In, L
  <2> QED BY <1>10, <2>1, <2>2 DEF L
<1> HIDE DEF q
<1>11. q[1] = Pseudo /\ Len(q) > 0
  <2>1. 1 \in 1..(L + 1) /\ 1 < k
    BY <1>1
  <2> QED BY <1>1, <1>3, <1>4, <2>1
<1>12. ASSUME NEW i \in 1..Len(q), NEW j \in 1..Len(q), q[i] = q[j] PROVE i = j
  <2> DEFINE at(n) == IF n < k THEN n ELSE n - 1
  <2>1. CASE i # k /\ j # k
    <3>1. at(i) \in 1..L /\ at(j) \in 1..L /\ q[i] = o[at(i)] /\ q[j] = o[at(j)]
      BY <1>1, <1>3, <2>1
    <3>2. at(i) = at(j)
      <4> HIDE DEF at
      <4> QED BY <1>1, <1>12, <3>1
    <3>3. i \in Int /\ j \in Int
      BY <1>1, <1>3
    <3> QED BY <1>1, <2>1, <3>2, <3>3
  <2>2. ASSUME NEW n \in 1..Len(q), n # k PROVE q[n] # p
    <3>1. at(n) \in 1..L /\ q[n] = o[at(n)]
      BY <1>1, <1>3, <2>2
    <3> QED BY <1>2, <3>1 DEF L
  <2>3. q[k] = p
    <3>1. k \in 1..(L + 1)
      BY <1>1
    <3> QED BY <1>3, <3>1
  <2> QED BY <1>12, <2>1, <2>2, <2>3
<1>13. u.top = q[Len(q)]
  <2>1. L + 1 \in 1..(L + 1)
    BY <1>1
  <2>2. q[L + 1] = IF L + 1 < k THEN o[L + 1] ELSE IF L + 1 = k THEN p ELSE o[L + 1 - 1]
    <3>1. L \in Int /\ k \in Int /\ L + 1 - 1 = L
      BY <1>1
    <3>2. \A i \in 1..(L + 1) : q[i] = IF i < k THEN o[i] ELSE IF i = k THEN p ELSE o[i - 1]
      BY <1>3
    <3> QED BY ONLY <2>1, <3>1, <3>2
  <2>3. L + 1 - 1 = L /\ ~(L + 1 < k)
    BY <1>1
  <2> QED BY <1>3, <1>9, <2>2, <2>3
<1>14. ASSUME NEW i \in 1..Len(q)
       PROVE  /\ u.above[q[i]] = IF i = Len(q) THEN NoPanel ELSE q[i + 1]
              /\ u.below[q[i]] = IF i = 1 THEN NoPanel ELSE q[i - 1]
  <2>1. CASE i = k
    <3>1. q[i] = p /\ (i # L + 1 => q[i + 1] = o[i]) /\ q[i - 1] = o[i - 1]
      <4>1. \A n \in 1..(L + 1) : q[n] = IF n < k THEN o[n] ELSE IF n = k THEN p ELSE o[n - 1]
        BY <1>3
      <4>2. i \in Int /\ i \in 1..(L + 1) /\ i - 1 \in 1..(L + 1) /\ L \in Int
        BY <1>1, <1>3, <2>1
      <4>3. i # L + 1 => i + 1 \in 1..(L + 1) /\ ~(i + 1 < k) /\ i + 1 # k /\ (i + 1) - 1 = i
        BY <1>1, <2>1, <4>2
      <4>4. q[i] = p /\ (i - 1 < k => q[i - 1] = o[i - 1])
        BY ONLY <2>1, <4>1, <4>2
      <4> QED BY ONLY <2>1, <4>1, <4>2, <4>3, <4>4
    <3>2. i # 1
      BY <1>1, <2>1
    <3> QED BY <1>1, <1>3, <1>7, <2>1, <3>1, <3>2 DEF L
  <2>2. CASE i < k
    <3>1. i \in 1..L /\ q[i] = o[i] /\ (i # 1 => q[i - 1] = o[i - 1])
      BY <1>1, <1>3, <2>2
    <3>2. i # L + 1 /\ q[i + 1] = IF i = k - 1 THEN p ELSE o[i + 1]
      BY <1>1, <1>3, <2>2
    <3>3. (i # k - 1 => i # L) /\ i # k
      BY <1>1, <2>2
    <3>4. u.above[o[i]] = (IF i = k - 1 THEN p ELSE IF i = L THEN NoPanel ELSE o[i + 1])
          /\ u.below[o[i]] = IF i = 1 THEN NoPanel ELSE o[i - 1]
      BY <1>6, <3>1, <3>3
    <3> QED BY <1>3, <3>1, <3>2, <3>3, <3>4
  <2>3. CASE i > k
    <3> DEFINE n == i - 1
    <3>1. n \in 1..L /\ q[i] = o[n] /\ (n # L => q[i + 1] = o[n + 1])
      BY <1>1, <1>3, <2>3
    <3>2. i # 1 /\ n # 1 /\ q[i - 1] = IF n = k THEN p ELSE o[n - 1]
      BY <1>1, <1>3, <2>3
    <3>3. n # k - 1 /\ (i = L + 1 <=> n = L)
      BY <1>1, <2>3
    <3>4. i # L + 1 => q[i + 1] = o[n + 1]
      BY <3>1, <3>3
    <3>5. /\ u.above[o[n]] = (IF n = L THEN NoPanel ELSE o[n + 1])
          /\ u.below[o[n]] = IF n = k THEN p ELSE IF n = 1 THEN NoPanel ELSE o[n - 1]
      <4> HIDE DEF n
      <4> QED BY <1>6, <3>1, <3>3
    <3> HIDE DEF n
    <3> QED BY <1>3, <3>1, <3>2, <3>3, <3>4, <3>5
  <2>4. i \in Int /\ k \in Int
    BY <1>1, <1>3
  <2> QED BY <2>1, <2>2, <2>3, <2>4
<1>15. ASSUME NEW x \in AllPanels, ~In(q, x)
       PROVE  u.above[x] = NoPanel /\ u.below[x] = NoPanel
  <2>1. x # p
    <3>1. k \in 1..Len(q) /\ q[k] = p
      BY <1>1, <1>3
    <3> QED BY <1>15, <3>1 DEF In
  <2>2. ~In(o, x)
    <3>1. ASSUME NEW n \in 1..L, o[n] = x PROVE FALSE
      <4> DEFINE i == IF n < k THEN n ELSE n + 1
      <4>1. i \in 1..(L + 1) /\ i # k /\ (i < k => n = i) /\ (~(i < k) => n = i - 1)
        BY <1>1
      <4>2. q[i] = x
        <5> HIDE DEF i
        <5> QED BY <1>3, <3>1, <4>1
      <4> HIDE DEF i
      <4> QED BY <1>3, <1>15, <4>1, <4>2 DEF In
    <3> QED BY <3>1 DEF In, L
  <2> QED BY <1>10, <2>1, <2>2
<1>16. Threads(u, q)
  BY <1>3, <1>8, <1>9, <1>11, <1>12, <1>13, <1>14, <1>15 DEF Threads
<1> QED BY <1>16 DEF q

-----------------------------------------------------------------------------
(* The marks.                                                                *)

Places == {b \in [AllWindows -> Int \X Int] : b[stdscr] = <<0, 0>>}
MarkedAt(m, w, c) ==
    c[2] - StartX(w) \in m[w][c[1] - StartY(w)][1]..m[w][c[1] - StartY(w)][2]

(* A mark that grows keeps what it was and has what is new.                  *)
LEMMA Grown ==
    ASSUME Assumed, NEW w \in AllWindows, NEW r \in MarkRanges(w),
           NEW a \in 0..Maxx(w), NEW b \in 0..Maxx(w), a <= b
    PROVE  /\ CHANGED_RANGE(r, a, b) \in MarkRanges(w) /\ CHANGED_RANGE(r, a, b) # Unmarked
           /\ \A j \in Nat : j \in r[1]..r[2] \/ j \in a..b =>
                 j \in CHANGED_RANGE(r, a, b)[1]..CHANGED_RANGE(r, a, b)[2]
<1>1. Maxx(w) \in Nat
  BY Names
<1>2. CASE r = Unmarked
  <2>1. CHANGED_RANGE(r, a, b) = <<a, b>>
    BY <1>2 DEF CHANGED_RANGE
  <2>2. <<a, b>> \in MarkRanges(w) /\ <<a, b>> # <<-1, -1>>
    BY <1>1 DEF MarkRanges
  <2> QED BY <1>2, <2>1, <2>2 DEF Unmarked
<1>3. CASE r # Unmarked
  <2>1. PICK x \in 0..Maxx(w), y \in 0..Maxx(w) : r = <<x, y>> /\ x <= y
    BY <1>3 DEF MarkRanges
  <2>2. CHANGED_RANGE(r, a, b) = <<Smaller(x, a), Larger(y, b)>>
    BY <1>3, <2>1 DEF CHANGED_RANGE
  <2>3. /\ Smaller(x, a) \in 0..Maxx(w) /\ Larger(y, b) \in 0..Maxx(w)
        /\ Smaller(x, a) <= x /\ Smaller(x, a) <= a /\ y <= Larger(y, b) /\ b <= Larger(y, b)
    BY <1>1 DEF Smaller, Larger
  <2> DEFINE l == Smaller(x, a)
             h == Larger(y, b)
  <2> HIDE DEF l, h
  <2>4. <<l, h>> \in MarkRanges(w) /\ <<l, h>> # <<-1, -1>>
    BY <1>1, <2>1, <2>3 DEF MarkRanges, l, h
  <2>5. \A j \in Nat : j \in x..y \/ j \in a..b => j \in l..h
    BY <1>1, <2>3 DEF l, h
  <2> QED BY <2>1, <2>2, <2>4, <2>5 DEF l, h, Unmarked
<1> QED BY <1>2, <1>3

(* A window covers the places of its lines and columns.                      *)
LEMMA CoveredLine ==
    ASSUME Assumed, beg \in Places, NEW w \in AllWindows, NEW c \in Screen
    PROVE  /\ StartX(w) \in Int /\ StartY(w) \in Int /\ c[1] \in Int /\ c[2] \in Int
           /\ EndX(w) = StartX(w) + Maxx(w) /\ EndY(w) = StartY(w) + Maxy(w)
           /\ Covers(w, c) <=> /\ c[1] - StartY(w) \in LinesOf(w)
                               /\ c[2] - StartX(w) \in 0..Maxx(w)
<1>1. Maxx(w) \in Nat /\ Maxy(w) \in Nat /\ MaxY \in Nat /\ MaxX \in Nat
  BY Names DEF Assumed, OnScreen
<1>2. beg[w] \in Int \X Int
  BY DEF Places
<1>3. StartX(w) \in Int /\ StartY(w) \in Int /\ c[1] \in Int /\ c[2] \in Int
  BY <1>1, <1>2 DEF StartX, StartY, Screen, Rows, ScreenColumns
<1>4. EndX(w) = StartX(w) + Maxx(w) /\ EndY(w) = StartY(w) + Maxy(w)
  BY DEF EndX, EndY, StartX, StartY
<1> QED BY <1>1, <1>3, <1>4 DEF Covers, LinesOf

(* touchwin() marks a window as a window can be marked.                      *)
LEMMA TouchMarks ==
    ASSUME Assumed, NEW w \in AllWindows
    PROVE  touchwin(w) \in MarksOf(w)
<1>1. Maxx(w) \in Nat
  BY Names
<1>2. <<0, Maxx(w)>> \in MarkRanges(w)
  BY <1>1 DEF MarkRanges
<1> QED BY <1>2 DEF touchwin, MarksOf

SameLinks(u, s) ==
    /\ u.win = s.win /\ u.above = s.above /\ u.below = s.below
    /\ u.top = s.top /\ u.bottom = s.bottom

(* u is s when PANEL_UPDATE() has walked from start over the panels T.        *)
Walked(s, p, start, T, u) ==
    /\ s \in Stacks /\ p \in AllPanels /\ s.win[p] \in AllWindows
    /\ T = ToSet(Upwards(s, start)) \ {p} /\ T \subseteq AllPanels
    /\ u = PANEL_UPDATE(s, p, start)

(* PANEL_UPDATE() takes no mark away, and marks what p has in common with    *)
(* the panels T that it walks over.                                          *)
LEMMA UpdateMarks ==
    ASSUME Assumed, beg \in Places, NEW s, NEW p, NEW start, NEW T, NEW u,
           Walked(s, p, start, T, u)
    PROVE  /\ u \in Stacks /\ SameLinks(u, s)
           /\ \A v \in AllWindows : (\A q \in T : s.win[q] # v) => u.changed[v] = s.changed[v]
           /\ \A v \in AllWindows, c \in Screen :
                 Covers(v, c) /\ MarkedAt(s.changed, v, c) => MarkedAt(u.changed, v, c)
           /\ \A q \in T, c \in Screen :
                 /\ s.win[q] \in AllWindows
                 /\ Covers(s.win[p], c) /\ Covers(s.win[q], c)
                 /\ s.changed[s.win[p]][c[1] - StartY(s.win[p])] # Unmarked
                 => MarkedAt(u.changed, s.win[q], c)
<1> DEFINE w == s.win[p]
           marks(v) == [i \in LinesOf(v) |->
               LET y == StartY(v) + i
               IN IF y \in StartY(w)..EndY(w) /\ s.changed[w][y - StartY(w)] # Unmarked
                  THEN CHANGED_RANGE(s.changed[v][i],
                           Larger(StartX(w), StartX(v)) - StartX(v),
                           Smaller(EndX(w), EndX(v)) - StartX(v))
                  ELSE s.changed[v][i]]
           touched == {s.win[q] : q \in T}
           new == [v \in AllWindows |->
                     IF v \in touched /\ PANELS_OVERLAPPED(w, v) THEN marks(v) ELSE s.changed[v]]
<1>0. /\ s \in Stacks /\ p \in AllPanels /\ w \in AllWindows
      /\ T = ToSet(Upwards(s, start)) \ {p} /\ u = PANEL_UPDATE(s, p, start)
      /\ T \subseteq AllPanels
  BY DEF Walked
<1>1. u = [s EXCEPT !.changed = new]
  BY <1>0, Zenon DEF PANEL_UPDATE
<1>2. s.changed \in AllMarks /\ \A v \in AllWindows : s.changed[v] \in MarksOf(v)
  BY <1>0 DEF Stacks, AllMarks
<1>3. ASSUME NEW v \in AllWindows, PANELS_OVERLAPPED(w, v), NEW i \in LinesOf(v)
      PROVE  /\ marks(v)[i] \in MarkRanges(v)
             /\ \A j \in Nat : j \in s.changed[v][i][1]..s.changed[v][i][2] =>
                   j \in marks(v)[i][1]..marks(v)[i][2]
             /\ \A c \in Screen :
                   /\ i = c[1] - StartY(v) /\ Covers(v, c) /\ Covers(w, c)
                   /\ s.changed[w][c[1] - StartY(w)] # Unmarked
                   => c[2] - StartX(v) \in marks(v)[i][1]..marks(v)[i][2]
  <2> DEFINE y == StartY(v) + i
             a == Larger(StartX(w), StartX(v)) - StartX(v)
             b == Smaller(EndX(w), EndX(v)) - StartX(v)
             r == s.changed[v][i]
             Hit == y \in StartY(w)..EndY(w) /\ s.changed[w][y - StartY(w)] # Unmarked
  <2>1. marks(v)[i] = IF Hit THEN CHANGED_RANGE(r, a, b) ELSE r
    OBVIOUS
  <2>2. r \in MarkRanges(v)
    BY <1>2 DEF MarksOf
  <2>3. /\ StartX(v) \in Int /\ StartX(w) \in Int /\ StartY(v) \in Int /\ StartY(w) \in Int
        /\ EndX(v) = StartX(v) + Maxx(v) /\ EndX(w) = StartX(w) + Maxx(w)
        /\ Maxx(v) \in Nat /\ Maxx(w) \in Nat
    <3>1. <<0, 0>> \in Screen
      BY DEF Screen, Rows, ScreenColumns, Assumed, OnScreen
    <3> QED BY <1>0, <3>1, CoveredLine, Names
  <2>4. a \in 0..Maxx(v) /\ b \in 0..Maxx(v) /\ a <= b
    BY <1>3, <2>3 DEF PANELS_OVERLAPPED, Larger, Smaller
  <2>5. /\ CHANGED_RANGE(r, a, b) \in MarkRanges(v)
        /\ \A j \in Nat : j \in r[1]..r[2] \/ j \in a..b =>
              j \in CHANGED_RANGE(r, a, b)[1]..CHANGED_RANGE(r, a, b)[2]
    <3> HIDE DEF a, b, r
    <3> QED BY <2>2, <2>4, Grown
  <2>6. ASSUME NEW c \in Screen, i = c[1] - StartY(v), Covers(v, c), Covers(w, c),
               s.changed[w][c[1] - StartY(w)] # Unmarked
        PROVE  Hit /\ c[2] - StartX(v) \in Nat /\ c[2] - StartX(v) \in a..b
    <3>1. y = c[1] /\ c[1] \in StartY(w)..EndY(w)
      BY <2>3, <2>6, CoveredLine DEF Covers
    <3>2. Hit
      BY <2>6, <3>1
    <3>3. /\ c[2] \in Int /\ c[2] - StartX(v) \in 0..Maxx(v) /\ c[2] - StartX(w) \in 0..Maxx(w)
      BY <1>0, <2>6, CoveredLine
    <3>4. c[2] - StartX(v) \in a..b
      BY <2>3, <3>3 DEF Larger, Smaller
    <3> QED BY <3>2, <3>3, <3>4
  <2> HIDE DEF a, b, r, Hit, marks
  <2>7. ASSUME NEW j \in Nat, j \in r[1]..r[2] PROVE j \in marks(v)[i][1]..marks(v)[i][2]
    BY <2>1, <2>5, <2>7
  <2>8. ASSUME NEW c \in Screen, i = c[1] - StartY(v), Covers(v, c), Covers(w, c),
               s.changed[w][c[1] - StartY(w)] # Unmarked
        PROVE  c[2] - StartX(v) \in marks(v)[i][1]..marks(v)[i][2]
    BY <2>1, <2>5, <2>6, <2>8
  <2>9. marks(v)[i] \in MarkRanges(v)
    BY <2>1, <2>2, <2>5
  <2> QED BY <2>7, <2>8, <2>9 DEF r
<1> DEFINE Over(v) == v \in touched /\ PANELS_OVERLAPPED(w, v)
<1>4. \A v \in AllWindows : new[v] = IF Over(v) THEN marks(v) ELSE s.changed[v]
  OBVIOUS
<1>5. \A v \in AllWindows : marks(v) = [i \in LinesOf(v) |-> marks(v)[i]]
  OBVIOUS
<1> HIDE DEF marks, new, touched
<1>6. \A v \in AllWindows : new[v] \in MarksOf(v)
  BY <1>2, <1>3, <1>4, <1>5 DEF MarksOf
<1>7. new \in AllMarks
  <2>1. new = [v \in AllWindows |-> new[v]]
    BY DEF new
  <2> QED BY <1>6, <2>1 DEF AllMarks
<1>8. u \in Stacks /\ u.changed = new /\ SameLinks(u, s)
  BY <1>0, <1>1, <1>7 DEF Stacks, SameLinks
<1>9. ASSUME NEW v \in AllWindows, \A q \in T : s.win[q] # v PROVE u.changed[v] = s.changed[v]
  BY <1>4, <1>8, <1>9 DEF touched
<1>10. ASSUME NEW v \in AllWindows, NEW c \in Screen, Covers(v, c), MarkedAt(s.changed, v, c)
       PROVE  MarkedAt(u.changed, v, c)
  <2>1. CASE Over(v)
    <3>1. c[1] - StartY(v) \in LinesOf(v) /\ c[2] - StartX(v) \in Nat
      BY <1>10, CoveredLine, Names
    <3> QED BY <1>3, <1>4, <1>8, <1>10, <2>1, <3>1 DEF MarkedAt
  <2>2. CASE ~Over(v)
    BY <1>4, <1>8, <1>10, <2>2 DEF MarkedAt
  <2> QED BY <2>1, <2>2
<1>11. ASSUME NEW q \in T, NEW c \in Screen, s.win[q] \in AllWindows, Covers(w, c),
              Covers(s.win[q], c), s.changed[w][c[1] - StartY(w)] # Unmarked
       PROVE  MarkedAt(u.changed, s.win[q], c)
  <2> DEFINE v == s.win[q]
  <2>1. v \in touched
    BY DEF touched
  <2>2. PANELS_OVERLAPPED(w, v)
    <3>1. /\ c[1] \in StartY(w)..EndY(w) /\ c[2] \in StartX(w)..EndX(w)
          /\ c[1] \in StartY(v)..EndY(v) /\ c[2] \in StartX(v)..EndX(v)
      BY <1>11 DEF Covers
    <3>2. /\ StartY(w) \in Int /\ EndY(w) \in Int /\ StartX(w) \in Int /\ EndX(w) \in Int
          /\ StartY(v) \in Int /\ EndY(v) \in Int /\ StartX(v) \in Int /\ EndX(v) \in Int
          /\ c[1] \in Int /\ c[2] \in Int
      BY <1>0, <1>11, CoveredLine, Names
    <3> QED BY <3>1, <3>2 DEF PANELS_OVERLAPPED
  <2>3. c[1] - StartY(v) \in LinesOf(v)
    BY <1>11, CoveredLine
  <2> QED BY <1>3, <1>4, <1>8, <1>11, <2>1, <2>2, <2>3 DEF MarkedAt
<1> QED BY <1>8, <1>9, <1>10, <1>11
-----------------------------------------------------------------------------
(* What is shown of a stack o whose windows are at the places b.             *)

Spans(b, w, c) == c[1] - b[w][1] \in LinesOf(w) /\ c[2] - b[w][2] \in 0..Maxx(w)
CellAt(b, w, c) == <<w, c[1] - b[w][1], c[2] - b[w][2]>>
MarkedIn(b, m, w, c) ==
    c[2] - b[w][2] \in m[w][c[1] - b[w][1]][1]..m[w][c[1] - b[w][1]][2]
Tops(b, s, o, k, c) ==
    /\ Spans(b, s.win[o[k]], c)
    /\ \A j \in 1..Len(o) : j > k => ~Spans(b, s.win[o[j]], c)
Shown(b, s, screen, o) ==
    \A c \in Screen, k \in 1..Len(o) :
        Tops(b, s, o, k, c) => \/ screen[c] = CellAt(b, s.win[o[k]], c)
                              \/ MarkedIn(b, s.changed, s.win[o[k]], c)

(* What Panels says of a place, at the present places of the windows.        *)
LEMMA AtBeg ==
    ASSUME Assumed, beg \in Places, NEW w \in AllWindows, NEW c \in Screen, NEW m
    PROVE  /\ Covers(w, c) <=> Spans(beg, w, c)
           /\ MarkedAt(m, w, c) <=> MarkedIn(beg, m, w, c)
           /\ Cell(w, c) = CellAt(beg, w, c)
<1>1. Covers(w, c) <=> Spans(beg, w, c)
  BY CoveredLine DEF Spans, StartX, StartY
<1> QED BY <1>1 DEF MarkedAt, MarkedIn, Cell, CellAt, StartX, StartY

(* A touched window is marked wherever it is.                                *)
LEMMA TouchedIn ==
    ASSUME NEW b, NEW w, NEW c, Spans(b, w, c), NEW m, m[w] = touchwin(w)
    PROVE  MarkedIn(b, m, w, c)
<1>1. m[w][c[1] - b[w][1]] = <<0, Maxx(w)>>
  BY DEF Spans, touchwin
<1> QED BY <1>1 DEF MarkedIn, Spans

(* An element that is taken out and put back.                                *)
LEMMA WithoutWith ==
    ASSUME NEW S, NEW o \in Seq(S), NEW k \in 1..Len(o)
    PROVE  With(Without(o, k), k, o[k]) = o
<1> DEFINE q == Without(o, k)
<1>1. /\ Len(q) = Len(o) - 1
      /\ \A i \in 1..(Len(o) - 1) : q[i] = IF i < k THEN o[i] ELSE o[i + 1]
  BY WithoutIs
<1> HIDE DEF q
<1>2. With(q, k, o[k]) = [i \in 1..Len(o) |-> o[i]]
  <2>1. With(q, k, o[k]) = [i \in 1..Len(o) |-> IF i < k THEN q[i] ELSE IF i = k THEN o[k] ELSE q[i - 1]]
    <3>1. Len(q) + 1 = Len(o)
      BY <1>1
    <3> QED BY <3>1 DEF With
  <2>2. \A i \in 1..Len(o) :
           (IF i < k THEN q[i] ELSE IF i = k THEN o[k] ELSE q[i - 1]) = o[i]
    BY <1>1
  <2> QED BY <2>1, <2>2
<1> QED BY <1>2 DEF q

(* A touched panel may be put anywhere into the stack.                       *)
LEMMA AddedShown ==
    ASSUME NEW S, NEW b, NEW s, NEW screen, NEW o \in Seq(S), NEW k \in 1..(Len(o) + 1), NEW p \in S,
           Shown(b, s, screen, o), s.changed[s.win[p]] = touchwin(s.win[p])
    PROVE  Shown(b, s, screen, With(o, k, p))
<1> DEFINE q == With(o, k, p)
           L == Len(o)
<1>1. /\ Len(q) = L + 1 /\ L \in Nat /\ k \in 1..(L + 1)
      /\ \A i \in 1..(L + 1) : q[i] = IF i < k THEN o[i] ELSE IF i = k THEN p ELSE o[i - 1]
  <2>1. Len(With(o, k, p)) = Len(o) + 1
    BY WithIs
  <2>2. \A i \in 1..(Len(o) + 1) :
           With(o, k, p)[i] = IF i < k THEN o[i] ELSE IF i = k THEN p ELSE o[i - 1]
    BY WithIs
  <2>3. Len(o) \in Nat /\ k \in 1..(Len(o) + 1)
    OBVIOUS
  <2> QED BY ONLY <2>1, <2>2, <2>3
<1> HIDE DEF q, L
<1>2. ASSUME NEW c \in Screen, NEW n \in 1..Len(q), Tops(b, s, q, n, c)
      PROVE  \/ screen[c] = CellAt(b, s.win[q[n]], c)
             \/ MarkedIn(b, s.changed, s.win[q[n]], c)
  <2>1. CASE n = k
    <3>1. q[n] = p /\ Spans(b, s.win[p], c)
      BY <1>1, <1>2, <2>1 DEF Tops
    <3> QED BY <3>1, TouchedIn
  <2>2. CASE n # k
    <3> DEFINE m == IF n < k THEN n ELSE n - 1
    <3>1. m \in 1..L /\ q[n] = o[m]
      BY <1>1, <2>2
    <3>2. ASSUME NEW j \in 1..L, j > m PROVE ~Spans(b, s.win[o[j]], c)
      <4> DEFINE i == IF j < k THEN j ELSE j + 1
      <4>1. i \in 1..(L + 1) /\ q[i] = o[j] /\ i > n
        BY <1>1, <2>2, <3>2
      <4> QED BY <1>1, <1>2, <4>1 DEF Tops
    <3> HIDE DEF m
    <3>3. Tops(b, s, o, m, c)
      BY <1>2, <3>1, <3>2 DEF Tops, L
    <3> QED BY <3>1, <3>3 DEF Shown, L
  <2> QED BY <2>1, <2>2
<1> QED BY <1>2 DEF Shown, q

-----------------------------------------------------------------------------
(* A panel that is to change uncovers what is below it.                      *)

Windowed(s, o) ==
    /\ s.win[Pseudo] = stdscr
    /\ \A p \in Panels : s.win[p] \in PanelWindows \cup {NoPanel}
    /\ \A p, q \in AllPanels : s.win[p] = s.win[q] /\ s.win[p] # NoPanel => p = q
    /\ \A i \in 1..Len(o) : s.win[o[i]] # NoPanel
OthersTouched(s, o) ==
    \A w \in AllWindows : (\A i \in 1..Len(o) : s.win[o[i]] # w) => s.changed[w] = touchwin(w)
Layered(b, s, screen, o) ==
    s \in Stacks /\ Threads(s, o) /\ Windowed(s, o) /\ OthersTouched(s, o) /\ Shown(b, s, screen, o)

(* A window of the stack is one.                                             *)
LEMMA WindowOf ==
    ASSUME Assumed, NEW s, NEW o \in Seq(AllPanels), Windowed(s, o), NEW k \in 1..Len(o)
    PROVE  /\ o[k] \in AllPanels /\ s.win[o[k]] \in AllWindows
           /\ o[k] # Pseudo => s.win[o[k]] \in PanelWindows
<1>1. o[k] \in AllPanels /\ s.win[o[k]] # NoPanel
  BY DEF Windowed
<1> QED BY <1>1, Names DEF Windowed

(* Touchpan() and PANEL_UPDATE() mark what a panel leaves uncovered.         *)
LEMMA Uncovers ==
    ASSUME Assumed, beg \in Places, NEW s, NEW screen, NEW o, Layered(beg, s, screen, o),
           NEW k \in 2..Len(o)
    PROVE  LET u == PANEL_UPDATE(Touchpan(s, o[k]), o[k], s.bottom)
           IN /\ u \in Stacks /\ SameLinks(u, s)
              /\ u.changed[s.win[o[k]]] = touchwin(s.win[o[k]])
              /\ OthersTouched(u, o) /\ Shown(beg, u, screen, Without(o, k))
<1> DEFINE p == o[k]
           w == s.win[p]
           t == Touchpan(s, p)
           u == PANEL_UPDATE(t, p, s.bottom)
           q == Without(o, k)
           L == Len(o)
           T == {o[i] : i \in 1..L} \ {p}
<1>1. /\ s \in Stacks /\ Threads(s, o) /\ Windowed(s, o) /\ OthersTouched(s, o) /\ Shown(beg, s, screen, o)
      /\ o \in Seq(AllPanels) /\ L \in Nat /\ k \in 1..L /\ k \in 2..L /\ s.bottom = o[1]
      /\ \A i, j \in 1..L : o[i] = o[j] => i = j
  <2>1. s \in Stacks /\ Threads(s, o) /\ Windowed(s, o) /\ OthersTouched(s, o) /\ Shown(beg, s, screen, o)
    BY DEF Layered
  <2>2. o \in Seq(AllPanels) /\ s.bottom = o[1] /\ \A i, j \in 1..L : o[i] = o[j] => i = j
    BY <2>1 DEF Threads
  <2>3. L \in Nat /\ k \in 1..L
    BY <2>2
  <2> QED BY <2>1, <2>2, <2>3
<1>2. /\ p \in AllPanels /\ w \in AllWindows /\ p # Pseudo
      /\ \A i \in 1..L : o[i] \in AllPanels /\ s.win[o[i]] \in AllWindows
      /\ \A i \in 1..L : i # k => s.win[o[i]] # w
  <2>1. \A i \in 1..L : o[i] \in AllPanels /\ s.win[o[i]] \in AllWindows
    BY <1>1, WindowOf
  <2>2. p # Pseudo
    <3>1. 1 \in 1..L /\ k # 1 /\ o[1] = Pseudo
      BY <1>1 DEF Threads
    <3> QED BY <1>1, <3>1
  <2>3. \A i \in 1..L : i # k => s.win[o[i]] # w
    BY <1>1, <2>1, Names DEF Windowed
  <2> QED BY <1>1, <2>1, <2>2, <2>3
<1> HIDE DEF L
<1>3. /\ t \in Stacks /\ SameLinks(t, s) /\ t.win = s.win
      /\ t.changed = [s.changed EXCEPT ![w] = touchwin(w)]
  <2> DEFINE m == [s.changed EXCEPT ![w] = touchwin(w)]
  <2>1. s.changed \in AllMarks /\ touchwin(w) \in MarksOf(w)
    BY <1>1, <1>2, TouchMarks DEF Stacks
  <2>2. m \in AllMarks
    BY <1>2, <2>1 DEF AllMarks
  <2>3. t = [s EXCEPT !.changed = m]
    BY DEF Touchpan
  <2> HIDE DEF m, t
  <2> QED BY <1>1, <2>2, <2>3 DEF Stacks, m, SameLinks
<1> HIDE DEF t, p, w
<1>4. Threads(t, o)
  <2>1. t.above = s.above /\ t.below = s.below /\ t.top = s.top /\ t.bottom = s.bottom
    BY <1>3 DEF SameLinks
  <2> QED BY <1>1, <2>1 DEF Threads
<1>5. T = ToSet(Upwards(t, s.bottom)) \ {p} /\ T \subseteq AllPanels
  <2> DEFINE a == SubSeq(o, 1, L)
  <2>1. Upwards(t, s.bottom) = a
    <3>1. 1 \in 1..Len(o) /\ s.bottom = o[1]
      BY <1>1 DEF L
    <3>2. Upwards(t, o[1]) = SubSeq(o, 1, Len(o))
      BY ONLY <1>4, <3>1, Assumed, UpwardsIs
    <3> QED BY <3>1, <3>2 DEF L
  <2>2. Len(a) = L /\ \A i \in 1..L : a[i] = o[i]
    BY <1>1 DEF L
  <2> HIDE DEF a
  <2>3. ToSet(a) = {o[i] : i \in 1..L}
    BY <2>2 DEF ToSet
  <2> QED BY <1>2, <2>1, <2>3
<1> HIDE DEF T, u
<1>6. /\ u \in Stacks /\ SameLinks(u, t)
      /\ \A v \in AllWindows : (\A x \in T : s.win[x] # v) => u.changed[v] = t.changed[v]
      /\ \A v \in AllWindows, c \in Screen :
            Covers(v, c) /\ MarkedAt(t.changed, v, c) => MarkedAt(u.changed, v, c)
      /\ \A x \in T, c \in Screen :
            /\ s.win[x] \in AllWindows
            /\ Covers(w, c) /\ Covers(s.win[x], c)
            /\ t.changed[w][c[1] - StartY(w)] # Unmarked
            => MarkedAt(u.changed, s.win[x], c)
  <2>1. t.win[p] = w
    BY <1>3 DEF w
  <2>2. t.win[p] \in AllWindows /\ p \in AllPanels /\ t \in Stacks
    BY <1>2, <1>3, <2>1
  <2> DEFINE z == s.bottom
  <2>3. T = ToSet(Upwards(t, z)) \ {p} /\ T \subseteq AllPanels
    BY <1>5
  <2>4. u = PANEL_UPDATE(t, p, z)
    BY DEF u
  <2> HIDE DEF z
  <2>5. /\ u \in Stacks /\ SameLinks(u, t)
        /\ \A v \in AllWindows : (\A x \in T : t.win[x] # v) => u.changed[v] = t.changed[v]
        /\ \A v \in AllWindows, c \in Screen :
              Covers(v, c) /\ MarkedAt(t.changed, v, c) => MarkedAt(u.changed, v, c)
        /\ \A x \in T, c \in Screen :
              /\ t.win[x] \in AllWindows
              /\ Covers(t.win[p], c) /\ Covers(t.win[x], c)
              /\ t.changed[t.win[p]][c[1] - StartY(t.win[p])] # Unmarked
              => MarkedAt(u.changed, t.win[x], c)
    <3>1. Walked(t, p, z, T, u)
      BY <2>2, <2>3, <2>4 DEF Walked
    <3> QED BY <3>1, UpdateMarks
  <2> QED BY <1>3, <2>1, <2>5
<1>7. SameLinks(u, s) /\ u.win = s.win
  BY <1>3, <1>6 DEF SameLinks
<1>8. \A x \in T : s.win[x] # w
  BY <1>2 DEF T, p
<1>9. u.changed[w] = touchwin(w)
  <2>1. t.changed[w] = touchwin(w)
    BY <1>1, <1>2, <1>3 DEF Stacks, AllMarks
  <2> QED BY <1>2, <1>6, <1>8, <2>1
<1>10. OthersTouched(u, o)
  <2>1. ASSUME NEW v \in AllWindows, \A i \in 1..Len(o) : s.win[o[i]] # v
        PROVE  u.changed[v] = touchwin(v)
    <3>1. u.changed[v] = t.changed[v]
      BY <1>6, <2>1 DEF T, L
    <3>2. s.changed[v] = touchwin(v)
      BY <1>1, <2>1 DEF OthersTouched
    <3>3. t.changed[v] = touchwin(v)
      BY <1>1, <1>3, <3>2 DEF Stacks, AllMarks
    <3> QED BY <3>1, <3>3
  <2> QED BY <1>7, <2>1 DEF OthersTouched
<1>11. /\ Len(q) = L - 1 /\ \A i \in 1..(L - 1) : q[i] = IF i < k THEN o[i] ELSE o[i + 1]
  <2>1. k \in 1..Len(o)
    BY <1>1 DEF L
  <2>2. Len(Without(o, k)) = Len(o) - 1
    BY <1>1, <2>1, WithoutIs
  <2>3. \A i \in 1..(Len(o) - 1) : Without(o, k)[i] = IF i < k THEN o[i] ELSE o[i + 1]
    BY <1>1, <2>1, WithoutIs
  <2> QED BY ONLY <2>2, <2>3 DEF L
<1> HIDE DEF q
<1>12. ASSUME NEW c \in Screen, NEW n \in 1..Len(q), Tops(beg, u, q, n, c)
       PROVE  \/ screen[c] = CellAt(beg, u.win[q[n]], c)
              \/ MarkedIn(beg, u.changed, u.win[q[n]], c)
  <2> DEFINE m == IF n < k THEN n ELSE n + 1
             v == s.win[o[m]]
  <2>1. m \in 1..L /\ m # k /\ q[n] = o[m] /\ n \in Int
    BY <1>1, <1>11
  <2>2. /\ v \in AllWindows /\ v # w /\ o[m] \in T /\ u.win[q[n]] = v
        /\ Spans(beg, v, c) /\ Covers(v, c)
    <3>1. v \in AllWindows /\ v # w /\ u.win[q[n]] = v
      BY <1>2, <1>7, <2>1
    <3>2. o[m] \in T
      <4> HIDE DEF m
      <4> QED BY <1>1, <2>1 DEF T, p
    <3>3. Spans(beg, v, c)
      BY <1>12, <3>1 DEF Tops
    <3> HIDE DEF v
    <3> QED BY <3>1, <3>2, <3>3, AtBeg
  <2>3. CASE Covers(w, c)
    <3>1. c[1] - StartY(w) \in LinesOf(w)
      BY <1>2, <2>3, CoveredLine
    <3>2. t.changed[w] = touchwin(w)
      BY <1>1, <1>2, <1>3 DEF Stacks, AllMarks
    <3>3. t.changed[w][c[1] - StartY(w)] = <<0, Maxx(w)>>
      BY <3>1, <3>2 DEF touchwin
    <3>4. t.changed[w][c[1] - StartY(w)] # Unmarked
      <4>1. Maxx(w) \in Nat
        BY <1>2, Names
      <4> QED BY <3>3, <4>1 DEF Unmarked
    <3>5. MarkedAt(u.changed, v, c)
      <4> HIDE DEF m
      <4> QED BY <1>6, <2>2, <2>3, <3>4
    <3> HIDE DEF v
    <3> QED BY <2>2, <3>5, AtBeg
  <2>4. CASE ~Covers(w, c)
    <3>1. Tops(beg, s, o, m, c)
      <4>1. ASSUME NEW j \in 1..L, j > m PROVE ~Spans(beg, s.win[o[j]], c)
        <5>1. CASE j = k
          BY <1>2, <2>4, <5>1, AtBeg DEF w, p
        <5>2. CASE j # k
          <6> DEFINE i == IF j < k THEN j ELSE j - 1
          <6>1. i \in 1..(L - 1) /\ i > n
            BY <1>1, <1>11, <4>1, <5>2
          <6>2. q[i] = o[j]
            BY <1>1, <1>11, <4>1, <5>2
          <6> HIDE DEF i
          <6> QED BY <1>7, <1>11, <1>12, <6>1, <6>2 DEF Tops
        <5> QED BY <5>1, <5>2
      <4> HIDE DEF m
      <4> QED BY <2>2, <4>1 DEF Tops, L
    <3>2. screen[c] = CellAt(beg, v, c) \/ MarkedIn(beg, s.changed, v, c)
      <4> HIDE DEF m
      <4> QED BY <1>1, <2>1, <3>1 DEF Shown, L
    <3> HIDE DEF v
    <3>3. ASSUME MarkedIn(beg, s.changed, v, c) PROVE MarkedAt(u.changed, v, c)
      <4>1. t.changed[v] = s.changed[v]
        BY <1>1, <1>3, <2>2 DEF Stacks, AllMarks
      <4>2. MarkedAt(t.changed, v, c)
        BY <2>2, <3>3, <4>1, AtBeg DEF MarkedAt
      <4> QED BY <1>6, <2>2, <4>2
    <3> QED BY <2>2, <3>2, <3>3, AtBeg
  <2> QED BY <2>3, <2>4
<1>13. Shown(beg, u, screen, q)
  BY <1>12 DEF Shown
<1> QED BY <1>6, <1>7, <1>9, <1>10, <1>13 DEF u, t, w, p, q
-----------------------------------------------------------------------------
(* A panel that leaves the stack, and one that comes into it.                *)

(* HIDE_PANEL() leaves a stack without the panel, still layered.             *)
LEMMA Hides ==
    ASSUME Assumed, beg \in Places, NEW s, NEW screen, NEW o, Layered(beg, s, screen, o),
           NEW p \in Panels
    PROVE  \E q : /\ Layered(beg, HIDE_PANEL(s, p), screen, q) /\ ~In(q, p)
                  /\ HIDE_PANEL(s, p).win = s.win
                  /\ IF In(o, p) THEN Len(q) = Len(o) - 1 ELSE Len(q) = Len(o)
<1>1. /\ s \in Stacks /\ Threads(s, o) /\ Windowed(s, o) /\ p \in AllPanels
      /\ o \in Seq(AllPanels) /\ \A i, j \in 1..Len(o) : o[i] = o[j] => i = j
  BY Names DEF Layered, Threads
<1>2. CASE ~In(o, p)
  <2>1. HIDE_PANEL(s, p) = s
    BY <1>1, <1>2, LinkedIn DEF HIDE_PANEL
  <2> QED BY <1>2, <2>1
<1>3. CASE In(o, p)
  <2>1. PICK k \in 1..Len(o) : o[k] = p
    BY <1>3 DEF In
  <2>2. k \in 2..Len(o)
    <3>1. o[1] = Pseudo /\ p # Pseudo
      BY <1>1, Names DEF Threads
    <3> QED BY <2>1, <3>1
  <2> DEFINE t == Touchpan(s, p)
             u == PANEL_UPDATE(t, p, s.bottom)
             h == HIDE_PANEL(s, p)
             q == Without(o, k)
  <2>3. /\ u \in Stacks /\ SameLinks(u, s) /\ u.changed[s.win[p]] = touchwin(s.win[p])
        /\ OthersTouched(u, o) /\ Shown(beg, u, screen, q)
    BY <2>1, <2>2, Uncovers
  <2>4. h = PANEL_UNLINK(u, p)
    <3>1. t.bottom = s.bottom
      BY <1>1 DEF Touchpan, Stacks
    <3> QED BY <1>1, <1>3, <3>1, LinkedIn DEF HIDE_PANEL
  <2> HIDE DEF h, u
  <2>5. Threads(u, o)
    BY <1>1, <2>3 DEF Threads, SameLinks
  <2>6. h \in Stacks /\ h.win = u.win /\ h.changed = u.changed /\ Threads(h, q)
    BY <2>1, <2>2, <2>3, <2>4, <2>5, Unlinked
  <2>7. h.win = s.win
    BY <2>3, <2>6 DEF SameLinks
  <2>8. Len(q) = Len(o) - 1
    BY <1>1, <2>1, WithoutIs
  <2>9. \A i \in 1..(Len(o) - 1) : q[i] = IF i < k THEN o[i] ELSE o[i + 1]
    BY <1>1, <2>1, WithoutIs
  <2> HIDE DEF q
  <2>10. ASSUME NEW i \in 1..Len(q)
         PROVE  \E m \in 1..Len(o) : m # k /\ q[i] = o[m]
    <3>1. CASE i < k
      BY <1>1, <2>1, <2>8, <2>9, <3>1
    <3>2. CASE ~(i < k)
      <4>1. i + 1 \in 1..Len(o) /\ i + 1 # k /\ q[i] = o[i + 1]
        BY <1>1, <2>1, <2>8, <2>9, <3>2
      <4> QED BY <4>1
    <3> QED BY <3>1, <3>2
  <2>11. Windowed(h, q)
    BY <1>1, <2>7, <2>10 DEF Windowed
  <2>12. ~In(q, p)
    BY <1>1, <2>1, <2>10 DEF In
  <2>13. ASSUME NEW v \in AllWindows, \A i \in 1..Len(q) : h.win[q[i]] # v
         PROVE  h.changed[v] = touchwin(v)
    <3>1. CASE v = s.win[p]
      BY <2>3, <2>6, <3>1
    <3>2. CASE v # s.win[p]
      <4>1. ASSUME NEW m \in 1..Len(o) PROVE s.win[o[m]] # v
        <5>1. CASE m = k
          BY <2>1, <3>2, <5>1
        <5>2. CASE m < k
          <6>1. m \in 1..Len(q) /\ q[m] = o[m]
            BY <1>1, <2>1, <2>8, <2>9, <5>2
          <6> QED BY <2>7, <2>13, <6>1
        <5>3. CASE m > k
          <6>1. m - 1 \in 1..Len(q) /\ q[m - 1] = o[m]
            BY <1>1, <2>1, <2>8, <2>9, <5>3
          <6> QED BY <2>7, <2>13, <6>1
        <5> QED BY <2>1, <5>1, <5>2, <5>3
      <4> QED BY <2>3, <2>6, <2>7, <4>1 DEF OthersTouched
    <3> QED BY <3>1, <3>2
  <2>14. Shown(beg, h, screen, q)
    BY <2>3, <2>6 DEF Shown, Tops, q
  <2>15. Layered(beg, h, screen, q)
    BY <2>6, <2>11, <2>13, <2>14 DEF Layered, OthersTouched
  <2> QED BY <1>3, <2>7, <2>8, <2>12, <2>15 DEF h
<1> QED BY <1>2, <1>3

(* A touched panel with a window may be linked in anywhere above stdscr.     *)
LEMMA Placed ==
    ASSUME Assumed, NEW b, NEW s, NEW screen, NEW o, Layered(b, s, screen, o),
           NEW k \in 2..(Len(o) + 1), NEW p \in Panels, ~In(o, p), s.win[p] # NoPanel,
           NEW u \in Stacks, u.win = s.win, u.changed = s.changed, Threads(u, With(o, k, p))
    PROVE  Layered(b, u, screen, With(o, k, p))
<1> DEFINE q == With(o, k, p)
<1>1. /\ s \in Stacks /\ Windowed(s, o) /\ p \in AllPanels /\ o \in Seq(AllPanels)
      /\ k \in 1..(Len(o) + 1) /\ Len(o) \in Nat
  BY Names DEF Layered, Threads
<1>2. s.win[p] \in AllWindows /\ s.changed[s.win[p]] = touchwin(s.win[p])
  <2>1. s.win[p] \in AllWindows
    BY <1>1, Names DEF Windowed
  <2>2. \A i \in 1..Len(o) : o[i] # p /\ o[i] \in AllPanels
    BY <1>1 DEF In
  <2>3. \A i \in 1..Len(o) : s.win[o[i]] # s.win[p]
    BY <1>1, <2>2 DEF Windowed
  <2> QED BY <2>1, <2>3 DEF Layered, OthersTouched
<1>3. Shown(b, s, screen, q)
  BY <1>1, <1>2, AddedShown DEF Layered
<1>4. Len(q) = Len(o) + 1
  BY <1>1 DEF With
<1>5. \A i \in 1..(Len(o) + 1) : q[i] = IF i < k THEN o[i] ELSE IF i = k THEN p ELSE o[i - 1]
  <2>1. o \in Seq(AllPanels) /\ k \in 1..(Len(o) + 1) /\ p \in AllPanels
    BY <1>1
  <2>2. /\ With(o, k, p) \in Seq(AllPanels) /\ Len(With(o, k, p)) = Len(o) + 1
        /\ \A i \in 1..(Len(o) + 1) :
              With(o, k, p)[i] = IF i < k THEN o[i] ELSE IF i = k THEN p ELSE o[i - 1]
    BY ONLY <2>1, WithIs
  <2> QED BY ONLY <2>2 DEF q
<1> HIDE DEF q
<1>6. Windowed(u, q)
  <2>1. ASSUME NEW i \in 1..Len(q) PROVE q[i] = p \/ \E m \in 1..Len(o) : q[i] = o[m]
    <3>1. CASE i < k
      BY <1>1, <1>4, <1>5, <3>1
    <3>2. CASE i = k
      BY <1>1, <1>4, <1>5, <3>2
    <3>3. CASE i > k
      <4>1. i - 1 \in 1..Len(o) /\ q[i] = o[i - 1]
        BY <1>1, <1>4, <1>5, <3>3
      <4> QED BY <4>1
    <3> QED BY <1>1, <3>1, <3>2, <3>3
  <2> QED BY <1>1, <2>1 DEF Windowed
<1>7. OthersTouched(u, q)
  <2>1. ASSUME NEW m \in 1..Len(o) PROVE \E i \in 1..Len(q) : q[i] = o[m]
    <3>1. CASE m < k
      <4>1. m \in 1..Len(q) /\ q[m] = o[m]
        BY <1>1, <1>4, <1>5, <3>1
      <4> QED BY <4>1
    <3>2. CASE ~(m < k)
      <4>1. m + 1 \in 1..Len(q) /\ q[m + 1] = o[m]
        BY <1>1, <1>4, <1>5, <3>2
      <4> QED BY <4>1
    <3> QED BY <3>1, <3>2
  <2> QED BY <2>1 DEF Layered, OthersTouched
<1>8. Shown(b, u, screen, q)
  BY <1>3 DEF Shown, Tops
<1> QED BY <1>6, <1>7, <1>8 DEF Layered, q

(* Show() puts a panel on top, whether it was in the stack or not.           *)
LEMMA Shows ==
    ASSUME Assumed, beg \in Places, NEW s, NEW screen, NEW o, Layered(beg, s, screen, o),
           NEW p \in Panels, s.win[p] # NoPanel
    PROVE  (\E q : Layered(beg, Show(s, p), screen, q)) /\ Show(s, p).win = s.win
<1>1. CASE Is_Top(s, p)
  BY <1>1 DEF Show
<1>2. CASE ~Is_Top(s, p)
  <2> DEFINE t == HIDE_PANEL(s, p)
             u == Show(s, p)
  <2>1. PICK q : Layered(beg, t, screen, q) /\ ~In(q, p) /\ t.win = s.win
    BY Hides
  <2> DEFINE L == Len(q)
             r == With(q, L + 1, p)
  <2>2. /\ t \in Stacks /\ Threads(t, q) /\ q \in Seq(AllPanels) /\ p \in AllPanels
        /\ L \in Nat /\ L > 0 /\ t.top = q[L] /\ q[L] \in AllPanels /\ q[L] # p
        /\ t.above \in Links /\ t.below \in Links /\ t.below[p] = NoPanel /\ L + 1 \in 2..(L + 1)
    <3>1. t \in Stacks /\ Threads(t, q) /\ q \in Seq(AllPanels) /\ p \in AllPanels /\ L \in Nat /\ L > 0
      BY <2>1, Names DEF Layered, Threads
    <3>2. L \in 1..L /\ L + 1 \in 2..(L + 1)
      BY <3>1
    <3> HIDE DEF t
    <3>3. /\ t.top = q[L] /\ t.above \in Links /\ t.below \in Links /\ t.below[p] = NoPanel
      BY <2>1, <3>1 DEF Threads
    <3> QED BY <2>1, <3>1, <3>2, <3>3 DEF In
  <2> DEFINE up == [t.above EXCEPT ![t.top] = p, ![p] = NoPanel]
             down == [t.below EXCEPT ![p] = t.top]
  <2>3. u = [t EXCEPT !.above = up, !.below = down, !.top = p]
    BY <1>2 DEF Show
  <2> HIDE DEF t, u, L
  <2>4. up \in Links /\ down \in Links
    BY <2>2 DEF Links
  <2>5. /\ up = [x \in AllPanels |-> IF x = p THEN NoPanel ELSE IF x = q[L] THEN p ELSE t.above[x]]
        /\ down = [x \in AllPanels |-> IF x = p THEN q[L] ELSE t.below[x]]
    BY <2>2 DEF Links
  <2> HIDE DEF up, down
  <2>6. /\ u \in Stacks /\ u.win = t.win /\ u.changed = t.changed /\ u.bottom = t.bottom
        /\ u.top = p /\ u.above = up /\ u.below = down
    BY <2>2, <2>3, <2>4 DEF Stacks
  <2>7. Threads(u, r)
    <3> DEFINE k == L + 1
    <3>1. L \in Int /\ L + 1 \in 2..(L + 1) /\ Len(q) = L
      BY <2>2 DEF L
    <3>6. k - 1 = L /\ k = Len(q) + 1
      BY <3>1
    <3> HIDE DEF k
    <3>2. u.above = [x \in AllPanels |->
                         IF x = p THEN IF k = Len(q) + 1 THEN NoPanel ELSE q[k]
                         ELSE IF x = q[k - 1] THEN p ELSE t.above[x]]
      BY <2>5, <2>6, <3>6
    <3>3. u.below = [x \in AllPanels |->
                         IF x = p THEN q[k - 1]
                         ELSE IF k # Len(q) + 1 /\ x = q[k] THEN p ELSE t.below[x]]
      BY <2>5, <2>6, <3>6
    <3>4. u.bottom = t.bottom /\ u.top = IF k = Len(q) + 1 THEN p ELSE t.top
      BY <2>6, <3>6
    <3>5. k \in 2..(Len(q) + 1)
      BY <3>1, <3>6 DEF k
    <3> HIDE DEF r
    <3>7. Threads(u, With(q, k, p))
      BY <2>1, <2>2, <3>2, <3>3, <3>4, <3>5, Inserted
    <3> QED BY <3>7 DEF k, r
  <2>8. Layered(beg, u, screen, r)
    <3>1. L + 1 \in 2..(Len(q) + 1) /\ t.win[p] # NoPanel
      BY <2>1, <2>2 DEF L
    <3> QED BY <2>1, <2>2, <2>6, <2>7, <3>1, Placed
  <2> QED BY <2>1, <2>6, <2>8 DEF u
<1> QED BY <1>1, <1>2
(* What bottom_panel() does when p is not at the bottom.                     *)
Sunk(s, p) ==
    LET t == HIDE_PANEL(s, p)
        a == t.above[t.bottom]
    IN [t EXCEPT !.above = [t.above EXCEPT ![p] = a, ![t.bottom] = p],
                 !.below = [x \in AllPanels |->
                     IF x = p THEN t.bottom ELSE IF x = a THEN p ELSE t.below[x]]]

(* bottom_panel() puts a panel right above stdscr, if the stack is not empty.*)
LEMMA Sinks ==
    ASSUME Assumed, beg \in Places, NEW s, NEW screen, NEW o, Layered(beg, s, screen, o),
           NEW p \in Panels, s.win[p] # NoPanel, ~EMPTY_STACK(s), ~Is_Bottom(s, p)
    PROVE  (\E q : Layered(beg, Sunk(s, p), screen, q)) /\ Sunk(s, p).win = s.win
<1> DEFINE t == HIDE_PANEL(s, p)
           a == t.above[t.bottom]
           u == Sunk(s, p)
<1>1. PICK q : /\ Layered(beg, t, screen, q) /\ ~In(q, p) /\ t.win = s.win
               /\ IF In(o, p) THEN Len(q) = Len(o) - 1 ELSE Len(q) = Len(o)
  BY Hides
<1> HIDE DEF t
<1> DEFINE L == Len(q)
           r == With(q, 2, p)
<1>2. /\ t \in Stacks /\ Threads(t, q) /\ q \in Seq(AllPanels) /\ p \in AllPanels /\ L \in Nat
      /\ t.bottom = q[1] /\ t.above \in Links /\ t.below \in Links
  BY <1>1, Names DEF Layered, Threads
<1> HIDE DEF L
<1>3. L >= 2
  <2> DEFINE N == Len(o)
  <2>1. /\ o \in Seq(AllPanels) /\ Len(o) \in Nat /\ Len(o) > 0 /\ o[1] = Pseudo /\ Threads(s, o)
        /\ s.bottom = Pseudo /\ s.top = o[Len(o)] /\ p # Pseudo
    BY Names DEF Layered, Threads
  <2> HIDE DEF N
  <2>2. N >= 2 /\ N \in Nat
    <3>1. N # 1
      BY <2>1 DEF EMPTY_STACK, N
    <3>2. N \in Nat /\ N > 0
      BY <2>1 DEF N
    <3> QED BY <3>1, <3>2
  <2>3. s.above[o[1]] = o[2]
    <3>1. 1 \in 1..N /\ 1 # N /\ 1 + 1 = 2
      BY <2>2
    <3> QED BY <2>1, <3>1 DEF Threads, N
  <2>4. o[2] # p
    BY <2>1, <2>3 DEF Is_Bottom
  <2>5. In(o, p) => N > 2
    <3>1. ASSUME NEW i \in 1..N, o[i] = p PROVE N > 2
      <4>1. i # 1 /\ i # 2
        BY <2>1, <2>4, <3>1
      <4> QED BY <2>2, <4>1
    <3> QED BY <3>1 DEF In, N
  <2>6. L = IF In(o, p) THEN N - 1 ELSE N
    BY <1>1 DEF L, N
  <2> QED BY <2>2, <2>5, <2>6
<1>4. /\ 1 \in 1..L /\ 2 \in 1..L /\ q[1] \in AllPanels /\ q[2] \in AllPanels
      /\ q[1] # p /\ q[2] # p /\ a = q[2] /\ q[1] # q[2]
  <2>1. 1 \in 1..L /\ 2 \in 1..L /\ 1 # L /\ 1 + 1 = 2
    BY <1>2, <1>3
  <2>2. a = q[2]
    BY <1>2, <2>1 DEF Threads, L
  <2>3. q[1] # q[2]
    BY <1>2, <2>1 DEF Threads, L
  <2> QED BY <1>1, <1>2, <2>1, <2>2, <2>3 DEF In, L
<1> HIDE DEF a
<1> DEFINE up == [t.above EXCEPT ![p] = a, ![t.bottom] = p]
           down == [x \in AllPanels |->
                       IF x = p THEN t.bottom ELSE IF x = a THEN p ELSE t.below[x]]
<1>5. u = [t EXCEPT !.above = up, !.below = down]
  BY DEF Sunk, t, a
<1>6. up \in Links /\ down \in Links
  BY <1>2, <1>4 DEF Links
<1>7. /\ up = [x \in AllPanels |-> IF x = p THEN q[2] ELSE IF x = q[1] THEN p ELSE t.above[x]]
      /\ down = [x \in AllPanels |-> IF x = p THEN q[1] ELSE IF x = q[2] THEN p ELSE t.below[x]]
  BY <1>2, <1>4 DEF Links
<1> HIDE DEF up, down, u
<1>8. /\ u \in Stacks /\ u.win = t.win /\ u.changed = t.changed /\ u.bottom = t.bottom
      /\ u.top = t.top /\ u.above = up /\ u.below = down
  BY <1>2, <1>5, <1>6 DEF Stacks
<1>9. Threads(u, r)
  <2> DEFINE k == 2
  <2>1. k - 1 = 1 /\ k # Len(q) + 1 /\ k \in 2..(Len(q) + 1) /\ k = 2
    <3>1. 2 - 1 = 1 /\ 2 # L + 1 /\ 2 \in 2..(L + 1)
      BY <1>2, <1>3
    <3> QED BY <3>1 DEF L
  <2> HIDE DEF k, r
  <2>2. u.above = [x \in AllPanels |->
                       IF x = p THEN IF k = Len(q) + 1 THEN NoPanel ELSE q[k]
                       ELSE IF x = q[k - 1] THEN p ELSE t.above[x]]
    BY <1>7, <1>8, <2>1
  <2>3. u.below = [x \in AllPanels |->
                       IF x = p THEN q[k - 1]
                       ELSE IF k # Len(q) + 1 /\ x = q[k] THEN p ELSE t.below[x]]
    BY <1>7, <1>8, <2>1
  <2>4. u.bottom = t.bottom /\ u.top = IF k = Len(q) + 1 THEN p ELSE t.top
    BY <1>8, <2>1
  <2>5. Threads(u, With(q, k, p))
    <3>1. Threads(t, q) /\ p \in AllPanels /\ ~In(q, p) /\ k \in 2..(Len(q) + 1)
      BY <1>1, <1>2, <2>1
    <3> QED BY ONLY Assumed, <3>1, <2>2, <2>3, <2>4, Inserted
  <2> QED BY <2>1, <2>5 DEF r
<1>10. Layered(beg, u, screen, r)
  <2>1. 2 \in 2..(L + 1) /\ t.win[p] # NoPanel
    BY <1>1, <1>2, <1>3
  <2> QED BY <1>1, <1>2, <1>8, <1>9, <2>1, Placed DEF L
<1> QED BY <1>1, <1>8, <1>10 DEF u

-----------------------------------------------------------------------------
(* A panel that changes where it is.                                         *)

(* The panels q are the panels o without p.                                  *)
Sans(o, q, p) ==
    /\ q \in Seq(AllPanels) /\ ~In(q, p) /\ \A x : In(q, x) => In(o, x)
    /\ o = q \/ \E k \in 1..(Len(q) + 1) : o = With(q, k, p)

(* Sans() tells the sequences that lack one element.                         *)
LEMMA SansWithout ==
    ASSUME NEW o \in Seq(AllPanels), \A i, j \in 1..Len(o) : o[i] = o[j] => i = j,
           NEW k \in 1..Len(o)
    PROVE  Sans(o, Without(o, k), o[k])
<1> DEFINE q == Without(o, k)
<1>1. q \in Seq(AllPanels) /\ o = With(q, k, o[k])
  BY WithoutIs, WithoutWith
<1>2. Len(q) = Len(o) - 1 /\ Len(o) \in Nat
  BY WithoutIs
<1>3. \A i \in 1..(Len(o) - 1) : q[i] = IF i < k THEN o[i] ELSE o[i + 1]
  BY WithoutIs
<1> HIDE DEF q
<1>4. ASSUME NEW i \in 1..Len(q) PROVE \E m \in 1..Len(o) : m # k /\ q[i] = o[m]
  <2>1. CASE i < k
    BY <1>2, <1>3, <2>1
  <2>2. CASE ~(i < k)
    <3>1. i + 1 \in 1..Len(o) /\ i + 1 # k /\ q[i] = o[i + 1]
      BY <1>2, <1>3, <2>2
    <3> QED BY <3>1
  <2> QED BY <2>1, <2>2
<1>5. ~In(q, o[k]) /\ \A x : In(q, x) => In(o, x)
  BY <1>4 DEF In
<1>6. k \in 1..(Len(q) + 1)
  BY <1>2
<1> QED BY <1>1, <1>5, <1>6 DEF Sans, q

(* What is shown without p is shown with p, when p is touched.               *)
LEMMA Restored ==
    ASSUME NEW b, NEW u, NEW screen, NEW o, NEW q, NEW p \in AllPanels, Sans(o, q, p),
           Shown(b, u, screen, q), u.changed[u.win[p]] = touchwin(u.win[p])
    PROVE  Shown(b, u, screen, o)
<1>1. CASE o = q
  BY <1>1
<1>2. ASSUME NEW k \in 1..(Len(q) + 1), o = With(q, k, p) PROVE Shown(b, u, screen, o)
  <2>1. q \in Seq(AllPanels)
    BY DEF Sans
  <2> QED BY <1>2, <2>1, AddedShown
<1> QED BY <1>1, <1>2 DEF Sans

(* What is shown depends on the windows of the stack only.                   *)
LEMMA SameShown ==
    ASSUME NEW b, NEW s, NEW screen, NEW q, Shown(b, s, screen, q), NEW d, NEW u,
           \A i \in 1..Len(q) : /\ u.win[q[i]] = s.win[q[i]]
                                /\ d[s.win[q[i]]] = b[s.win[q[i]]]
                                /\ u.changed[s.win[q[i]]] = s.changed[s.win[q[i]]]
    PROVE  Shown(d, u, screen, q)
<1>1. ASSUME NEW c \in Screen, NEW k \in 1..Len(q), Tops(d, u, q, k, c)
      PROVE  \/ screen[c] = CellAt(d, u.win[q[k]], c)
             \/ MarkedIn(d, u.changed, u.win[q[k]], c)
  <2>1. Tops(b, s, q, k, c)
    BY <1>1 DEF Tops, Spans
  <2>2. screen[c] = CellAt(b, s.win[q[k]], c) \/ MarkedIn(b, s.changed, s.win[q[k]], c)
    BY <2>1 DEF Shown
  <2> QED BY <2>2 DEF CellAt, MarkedIn
<1> QED BY <1>1 DEF Shown

(* A layered stack is so with more marked.                                   *)
LEMMA Lifts ==
    ASSUME Assumed, beg \in Places, NEW screen, NEW o, Layered(beg, State, screen, o),
           NEW p \in Panels, win[p] # NoPanel, NEW u, u = Uncovered(p)
    PROVE  /\ u \in Stacks /\ SameLinks(u, State) /\ u.changed[win[p]] = touchwin(win[p])
           /\ Layered(beg, u, screen, o)
           /\ \E q : Sans(o, q, p) /\ Shown(beg, u, screen, q)
<1> DEFINE s == State
           w == win[p]
<1>1. s.win = win
  BY DEF State
<1> HIDE DEF s
<1>2. /\ s \in Stacks /\ Threads(s, o) /\ Windowed(s, o) /\ OthersTouched(s, o) /\ p \in AllPanels
      /\ o \in Seq(AllPanels) /\ \A i, j \in 1..Len(o) : o[i] = o[j] => i = j
  BY Names DEF Layered, Threads, s
<1>3. w \in AllWindows
  BY <1>1, <1>2, Names DEF Windowed
<1>4. CASE ~In(o, p)
  <2>1. u = s
    BY <1>2, <1>4, LinkedIn DEF Uncovered, s
  <2>2. Sans(o, o, p)
    BY <1>2, <1>4 DEF Sans
  <2>3. \A i \in 1..Len(o) : s.win[o[i]] # w
    <3>1. \A i \in 1..Len(o) : o[i] # p /\ o[i] \in AllPanels
      BY <1>2, <1>4 DEF In
    <3> QED BY <1>1, <1>2, <3>1 DEF Windowed
  <2>4. u.changed[w] = touchwin(w)
    BY <1>2, <1>3, <2>1, <2>3 DEF OthersTouched
  <2> QED BY <1>2, <2>1, <2>2, <2>4 DEF SameLinks, Layered, s
<1>5. CASE In(o, p)
  <2>1. PICK k \in 1..Len(o) : o[k] = p
    BY <1>5 DEF In
  <2>2. k \in 2..Len(o)
    <3>1. o[1] = Pseudo /\ p # Pseudo
      BY <1>2, Names DEF Threads
    <3> QED BY <2>1, <3>1
  <2> DEFINE t == Touchpan(s, p)
             q == Without(o, k)
  <2>3. u = PANEL_UPDATE(t, p, s.bottom)
    <3>1. t.bottom = s.bottom
      BY <1>2 DEF Touchpan, Stacks
    <3>2. u = PANEL_UPDATE(t, p, t.bottom)
      BY <1>2, <1>5, LinkedIn DEF Uncovered, s
    <3> QED BY <3>1, <3>2
  <2>4. /\ u \in Stacks /\ SameLinks(u, s) /\ u.changed[w] = touchwin(w)
        /\ OthersTouched(u, o) /\ Shown(beg, u, screen, q)
    <3>1. Layered(beg, s, screen, o)
      BY DEF s
    <3> QED BY <1>1, <2>1, <2>2, <2>3, <3>1, Uncovers
  <2>5. Sans(o, q, p)
    BY <1>2, <2>1, SansWithout
  <2> HIDE DEF q
  <2>6. u.win[p] = w
    BY <1>1, <2>4 DEF SameLinks
  <2>7. Shown(beg, u, screen, o)
    BY <1>2, <2>4, <2>5, <2>6, Restored
  <2>8. Threads(u, o) /\ Windowed(u, o)
    BY <1>2, <2>4 DEF Threads, Windowed, SameLinks
  <2> QED BY <2>4, <2>5, <2>7, <2>8 DEF Layered, s
<1> QED BY <1>4, <1>5

-----------------------------------------------------------------------------
(* The functions keep the stack layered.                                     *)

PanelsInv ==
    /\ beg \in Places /\ newscr = [c \in Screen |-> newscr[c]]
    /\ \E o : Layered(beg, State, newscr, o)

(* An action that Becomes() s leaves that state.                             *)
LEMMA BecomesState ==
    ASSUME NEW s \in Stacks, Becomes(s)
    PROVE  State' = s
<1>1. s = [win |-> s.win, above |-> s.above, below |-> s.below, top |-> s.top,
           bottom |-> s.bottom, changed |-> s.changed]
  BY DEF Stacks
<1> QED BY <1>1 DEF State, Becomes

(* A panel outside the stack may have any window that is free, or none.      *)
LEMMA Adopts ==
    ASSUME Assumed, NEW b, NEW s, NEW screen, NEW o, Layered(b, s, screen, o),
           NEW p \in Panels, ~In(o, p), NEW w \in PanelWindows \cup {NoPanel},
           w # NoPanel => \A x \in Panels : s.win[x] # w,
           NEW u \in Stacks, u.win = [s.win EXCEPT ![p] = w], u.changed = s.changed,
           u.above = s.above, u.below = s.below, u.top = s.top, u.bottom = s.bottom
    PROVE  Layered(b, u, screen, o)
<1>1. /\ s \in Stacks /\ Threads(s, o) /\ Windowed(s, o) /\ OthersTouched(s, o)
      /\ o \in Seq(AllPanels) /\ p \in AllPanels /\ p # Pseudo /\ Shown(b, s, screen, o)
  BY Names DEF Layered, Threads
<1>2. s.win \in [AllPanels -> AllWindows \cup {NoPanel}]
  BY <1>1 DEF Stacks
<1>3. \A x \in AllPanels : u.win[x] = IF x = p THEN w ELSE s.win[x]
  BY <1>1, <1>2
<1>4. \A i \in 1..Len(o) : o[i] # p /\ o[i] \in AllPanels /\ u.win[o[i]] = s.win[o[i]]
  <2>1. \A i \in 1..Len(o) : o[i] # p /\ o[i] \in AllPanels
    BY <1>1 DEF In
  <2> QED BY <1>3, <2>1
<1>5. Threads(u, o)
  <2>1. u.above = s.above /\ u.below = s.below /\ u.top = s.top /\ u.bottom = s.bottom
    OBVIOUS
  <2> QED BY ONLY <1>1, <2>1 DEF Threads
<1>6. Windowed(u, o)
  <2>1. u.win[Pseudo] = stdscr /\ \A x \in Panels : u.win[x] \in PanelWindows \cup {NoPanel}
    BY <1>1, <1>3, Names DEF Windowed
  <2>2. ASSUME NEW x \in AllPanels, NEW y \in AllPanels, u.win[x] = u.win[y], u.win[x] # NoPanel
        PROVE  x = y
    <3>1. ASSUME NEW z \in AllPanels, z # p, w # NoPanel PROVE s.win[z] # w
      <4>1. CASE z = Pseudo
        <5>1. s.win[z] = stdscr /\ w \in PanelWindows
          BY <1>1, <3>1, <4>1 DEF Windowed
        <5> QED BY <5>1 DEF Assumed, PanelsApart
      <4>2. CASE z # Pseudo
        BY <3>1, <4>2, Names
      <4> QED BY <4>1, <4>2
    <3> QED BY <1>1, <1>3, <2>2, <3>1 DEF Windowed
  <2>3. \A i \in 1..Len(o) : u.win[o[i]] # NoPanel
    BY <1>1, <1>4 DEF Windowed
  <2> QED BY <2>1, <2>2, <2>3 DEF Windowed
<1>7. OthersTouched(u, o)
  BY <1>1, <1>4 DEF OthersTouched
<1>8. Shown(b, u, screen, o)
  <2>1. u.changed = s.changed
    OBVIOUS
  <2> QED BY ONLY <1>1, <1>4, <2>1, SameShown
<1> QED BY <1>5, <1>6, <1>7, <1>8 DEF Layered

(* new_panel() keeps the stack layered.                                      *)
LEMMA NewKeeps ==
    ASSUME Assumed, PanelsInv, NEW p \in Panels, NEW w \in PanelWindows, NewPanel(p, w)
    PROVE  PanelsInv'
<1> DEFINE s == State
           t == [State EXCEPT !.win[p] = w]
<1>1. PICK o : Layered(beg, s, newscr, o)
  BY DEF PanelsInv
<1>2. win[p] = NoPanel /\ Free(w) /\ Becomes(Show(t, p)) /\ beg' = beg /\ newscr' = newscr
  BY DEF NewPanel, Allocated
<1>3. /\ s \in Stacks /\ s.win = win /\ Windowed(s, o) /\ win \in [AllPanels -> AllWindows \cup {NoPanel}]
      /\ p \in AllPanels /\ o \in Seq(AllPanels)
  <2>1. s \in Stacks /\ s.win = win /\ Windowed(s, o) /\ p \in AllPanels /\ o \in Seq(AllPanels)
    BY <1>1, Names DEF Layered, Threads, State
  <2> HIDE DEF s
  <2> QED BY <2>1 DEF Stacks
<1>4. t = [s EXCEPT !.win = [win EXCEPT ![p] = w]]
  BY DEF State
<1> HIDE DEF s, t
<1>5. /\ t \in Stacks /\ t.win = [s.win EXCEPT ![p] = w] /\ t.changed = s.changed
      /\ t.above = s.above /\ t.below = s.below /\ t.top = s.top /\ t.bottom = s.bottom
  <2>1. [win EXCEPT ![p] = w] \in [AllPanels -> AllWindows \cup {NoPanel}]
    BY <1>3, Names
  <2> QED BY <1>3, <1>4, <2>1 DEF Stacks
<1>6. ~In(o, p)
  BY <1>2, <1>3 DEF In, Windowed
<1>7. Layered(beg, t, newscr, o)
  <2>1. \A x \in Panels : s.win[x] # w
    BY <1>2, <1>3 DEF Free
  <2>2. w \in PanelWindows \cup {NoPanel}
    OBVIOUS
  <2> QED BY <1>1, <1>5, <1>6, <2>1, <2>2, Adopts
<1>8. t.win[p] # NoPanel
  BY <1>3, <1>5 DEF Assumed, PanelsApart
<1>9. PICK q : Layered(beg, Show(t, p), newscr, q)
  BY <1>7, <1>8, Shows DEF PanelsInv
<1>10. State' = Show(t, p)
  BY <1>2, <1>9, BecomesState DEF Layered
<1> QED BY <1>2, <1>9, <1>10 DEF PanelsInv

(* show_panel() keeps it layered.                                            *)
LEMMA ShowKeeps ==
    ASSUME Assumed, PanelsInv, NEW p \in Panels, ShowPanel(p)
    PROVE  PanelsInv'
<1>1. PICK o : Layered(beg, State, newscr, o)
  BY DEF PanelsInv
<1>2. win[p] # NoPanel /\ Becomes(Show(State, p)) /\ beg' = beg /\ newscr' = newscr
  BY DEF ShowPanel, Allocated
<1>3. State.win[p] # NoPanel
  BY <1>2 DEF State
<1>4. PICK q : Layered(beg, Show(State, p), newscr, q)
  BY <1>1, <1>3, Shows DEF PanelsInv
<1>5. State' = Show(State, p)
  BY <1>2, <1>4, BecomesState DEF Layered
<1> QED BY <1>2, <1>4, <1>5 DEF PanelsInv

(* hide_panel() keeps it layered.                                            *)
LEMMA HideKeeps ==
    ASSUME Assumed, PanelsInv, NEW p \in Panels, HidePanel(p)
    PROVE  PanelsInv'
<1>1. PICK o : Layered(beg, State, newscr, o)
  BY DEF PanelsInv
<1>2. Becomes(HIDE_PANEL(State, p)) /\ beg' = beg /\ newscr' = newscr
  BY DEF HidePanel
<1>3. PICK q : Layered(beg, HIDE_PANEL(State, p), newscr, q)
  BY <1>1, Hides DEF PanelsInv
<1>4. State' = HIDE_PANEL(State, p)
  BY <1>2, <1>3, BecomesState DEF Layered
<1> QED BY <1>2, <1>3, <1>4 DEF PanelsInv

(* With no panel shown the code leaves _nc_top_panel at stdscr's panel.      *)
LEMMA BottomKeeps ==
    ASSUME Assumed, ~BottomsAlone, PanelsInv, NEW p \in Panels, BottomPanel(p)
    PROVE  PanelsInv'
<1>1. PICK o : Layered(beg, State, newscr, o)
  BY DEF PanelsInv
<1>2. /\ win[p] # NoPanel /\ ~EMPTY_STACK(State) /\ beg' = beg /\ newscr' = newscr
  BY DEF BottomPanel, Allocated
<1>3. CASE Is_Bottom(State, p)
  <2>1. UNCHANGED <<links, changed>>
    BY <1>3 DEF BottomPanel
  <2>2. State' = State
    BY <2>1 DEF State, links
  <2> QED BY <1>1, <1>2, <2>2 DEF PanelsInv
<1>4. CASE ~Is_Bottom(State, p)
  <2> DEFINE u == Sunk(State, p)
  <2>1. Becomes(u)
    BY <1>4 DEF BottomPanel, Sunk
  <2>2. State.win[p] # NoPanel
    BY <1>2 DEF State
  <2>3. PICK q : Layered(beg, u, newscr, q)
    BY <1>1, <1>2, <1>4, <2>2, Sinks DEF PanelsInv
  <2> HIDE DEF u
  <2>4. State' = u
    BY <2>1, <2>3, BecomesState DEF Layered
  <2> QED BY <1>2, <2>3, <2>4 DEF PanelsInv
<1> QED BY <1>3, <1>4

(* del_panel() keeps it layered.                                             *)
LEMMA DelKeeps ==
    ASSUME Assumed, PanelsInv, NEW p \in Panels, DelPanel(p)
    PROVE  PanelsInv'
<1> DEFINE h == HIDE_PANEL(State, p)
           u == [h EXCEPT !.win[p] = NoPanel]
<1>1. PICK o : Layered(beg, State, newscr, o)
  BY DEF PanelsInv
<1>2. Becomes(u) /\ beg' = beg /\ newscr' = newscr
  BY DEF DelPanel
<1>3. PICK q : Layered(beg, h, newscr, q) /\ ~In(q, p)
  BY <1>1, Hides DEF PanelsInv
<1>4. u = [h EXCEPT !.win = [h.win EXCEPT ![p] = NoPanel]]
  OBVIOUS
<1> HIDE DEF h, u
<1>5. /\ u \in Stacks /\ u.win = [h.win EXCEPT ![p] = NoPanel] /\ u.changed = h.changed
      /\ u.above = h.above /\ u.below = h.below /\ u.top = h.top /\ u.bottom = h.bottom
  <2>1. h \in Stacks /\ h.win \in [AllPanels -> AllWindows \cup {NoPanel}]
    BY <1>3 DEF Layered, Stacks
  <2>2. [h.win EXCEPT ![p] = NoPanel] \in [AllPanels -> AllWindows \cup {NoPanel}]
    BY <2>1
  <2> QED BY <1>4, <2>1, <2>2 DEF Stacks
<1>6. Layered(beg, u, newscr, q)
  <2>1. NoPanel \in PanelWindows \cup {NoPanel}
    OBVIOUS
  <2> QED BY <1>3, <1>5, <2>1, Adopts
<1>7. State' = u
  BY <1>2, <1>5, BecomesState
<1> QED BY <1>2, <1>6, <1>7 DEF PanelsInv

(* replace_panel() keeps it layered, without touching the new window.        *)
LEMMA ReplaceKeeps ==
    ASSUME Assumed, PanelsInv, NEW p \in Panels, NEW w \in PanelWindows, ReplacePanel(p, w)
    PROVE  PanelsInv'
<1> DEFINE u == Uncovered(p)
           t == [u EXCEPT !.win[p] = w]
<1>1. PICK o : Layered(beg, State, newscr, o)
  BY DEF PanelsInv
<1>2. Becomes(t) /\ beg' = beg /\ newscr' = newscr /\ win[p] # NoPanel /\ Free(w)
  BY DEF ReplacePanel, Allocated
<1>3. /\ u \in Stacks /\ u.win = win /\ u.changed[win[p]] = touchwin(win[p])
      /\ Layered(beg, u, newscr, o)
      /\ \E q : Sans(o, q, p) /\ Shown(beg, u, newscr, q)
  <2>1. State.win = win
    BY DEF State
  <2> QED BY <1>1, <1>2, <2>1, Lifts DEF PanelsInv, SameLinks
<1>4. PICK q : Sans(o, q, p) /\ Shown(beg, u, newscr, q)
  BY <1>3
<1>5. t = [u EXCEPT !.win = [u.win EXCEPT ![p] = w]]
  OBVIOUS
<1> HIDE DEF u, t
<1>6. /\ Threads(u, o) /\ Windowed(u, o) /\ OthersTouched(u, o) /\ o \in Seq(AllPanels)
      /\ p \in AllPanels /\ p # Pseudo /\ w \in AllWindows /\ w # NoPanel /\ w # stdscr
      /\ win \in [AllPanels -> AllWindows \cup {NoPanel}]
  <2>1. Threads(u, o) /\ Windowed(u, o) /\ OthersTouched(u, o) /\ o \in Seq(AllPanels)
    BY <1>3 DEF Layered, Threads
  <2>2. p \in AllPanels /\ p # Pseudo /\ w \in AllWindows /\ w # NoPanel /\ w # stdscr
    BY Names DEF Assumed, PanelsApart
  <2>3. u.win \in [AllPanels -> AllWindows \cup {NoPanel}]
    BY <1>3 DEF Stacks
  <2> QED BY <1>3, <2>1, <2>2, <2>3
<1>7. /\ t \in Stacks /\ t.win = [win EXCEPT ![p] = w] /\ t.changed = u.changed
      /\ t.above = u.above /\ t.below = u.below /\ t.top = u.top /\ t.bottom = u.bottom
  <2>1. [win EXCEPT ![p] = w] \in [AllPanels -> AllWindows \cup {NoPanel}]
    BY <1>6
  <2> QED BY <1>3, <1>5, <2>1 DEF Stacks
<1>8. \A x \in AllPanels : t.win[x] = IF x = p THEN w ELSE win[x]
  BY <1>6, <1>7
<1>9. \A x \in AllPanels : win[x] # w
  <2>1. ASSUME NEW x \in AllPanels PROVE win[x] # w
    <3>1. CASE x = Pseudo
      BY <1>3, <1>6, <3>1 DEF Windowed
    <3>2. CASE x # Pseudo
      BY <1>2, <3>2, Names DEF Free
    <3> QED BY <3>1, <3>2
  <2> QED BY <2>1
<1>10. Threads(t, o)
  BY <1>6, <1>7 DEF Threads
<1>11. \A i \in 1..Len(o) : o[i] \in AllPanels
  BY <1>6
<1>12. Windowed(t, o)
  <2>1. t.win[Pseudo] = stdscr /\ \A x \in Panels : t.win[x] \in PanelWindows \cup {NoPanel}
    BY <1>3, <1>6, <1>8, Names DEF Windowed
  <2>2. \A x, y \in AllPanels : t.win[x] = t.win[y] /\ t.win[x] # NoPanel => x = y
    BY <1>3, <1>6, <1>8, <1>9 DEF Windowed
  <2>3. \A i \in 1..Len(o) : t.win[o[i]] # NoPanel
    BY <1>3, <1>6, <1>8, <1>11 DEF Windowed
  <2> QED BY <2>1, <2>2, <2>3 DEF Windowed
<1>13. u.changed[w] = touchwin(w)
  BY <1>3, <1>6, <1>9, <1>11 DEF OthersTouched
<1>14. OthersTouched(t, o)
  <2>1. ASSUME NEW v \in AllWindows, \A i \in 1..Len(o) : t.win[o[i]] # v
        PROVE  u.changed[v] = touchwin(v)
    <3>1. CASE v = win[p]
      BY <1>3, <3>1
    <3>2. CASE v # win[p]
      <4>1. \A i \in 1..Len(o) : u.win[o[i]] # v
        BY <1>3, <1>8, <1>11, <2>1, <3>2
      <4> QED BY <1>6, <4>1 DEF OthersTouched
    <3> QED BY <3>1, <3>2
  <2> QED BY <1>7, <2>1 DEF OthersTouched
<1>15. Shown(beg, t, newscr, o)
  <2>1. \A i \in 1..Len(q) : q[i] # p /\ q[i] \in AllPanels
    BY <1>4 DEF Sans, In
  <2>2. \A i \in 1..Len(q) : t.win[q[i]] = u.win[q[i]]
    BY <1>3, <1>8, <2>1
  <2>3. Shown(beg, t, newscr, q)
    <3>1. \A i \in 1..Len(q) : /\ t.win[q[i]] = u.win[q[i]]
                               /\ beg[u.win[q[i]]] = beg[u.win[q[i]]]
                               /\ t.changed[u.win[q[i]]] = u.changed[u.win[q[i]]]
      BY <1>7, <2>2
    <3> QED BY ONLY <1>4, <3>1, SameShown
  <2>4. t.changed[t.win[p]] = touchwin(t.win[p])
    BY <1>6, <1>7, <1>8, <1>13
  <2> QED BY <1>4, <1>6, <2>3, <2>4, Restored
<1>16. State' = t
  BY <1>2, <1>7, BecomesState
<1> QED BY <1>2, <1>7, <1>10, <1>12, <1>14, <1>15, <1>16 DEF PanelsInv, Layered

(* move_panel() keeps it layered, whether mvwin() refuses the place or not.  *)
LEMMA MoveKeeps ==
    ASSUME Assumed, PanelsInv, NEW p \in Panels, NEW y \in Rows, NEW x \in ScreenColumns,
           MovePanel(p, y, x)
    PROVE  PanelsInv'
<1> DEFINE u == Uncovered(p)
           w == win[p]
<1>1. PICK o : Layered(beg, State, newscr, o)
  BY DEF PanelsInv
<1>2. newscr' = newscr /\ w # NoPanel
  BY DEF MovePanel, Allocated
<1>3. /\ u \in Stacks /\ u.win = win /\ u.changed[w] = touchwin(w)
      /\ Layered(beg, u, newscr, o)
      /\ \E q : Sans(o, q, p) /\ Shown(beg, u, newscr, q)
  <2>1. State.win = win
    BY DEF State
  <2> QED BY <1>1, <1>2, <2>1, Lifts DEF PanelsInv, SameLinks
<1>4. PICK q : Sans(o, q, p) /\ Shown(beg, u, newscr, q)
  BY <1>3
<1>5. CASE Becomes(u) /\ UNCHANGED beg
  <2> HIDE DEF u
  <2>1. State' = u
    BY <1>3, <1>5, BecomesState
  <2> QED BY <1>2, <1>3, <1>5, <2>1 DEF PanelsInv
<1>6. CASE Becomes([u EXCEPT !.changed[w] = touchwin(w)]) /\ beg' = [beg EXCEPT ![w] = <<y, x>>]
  <2> HIDE DEF u
  <2>1. p \in AllPanels /\ w \in PanelWindows /\ w \in AllWindows /\ w # stdscr /\ Windowed(u, o)
    <3>1. Windowed(u, o)
      BY <1>3 DEF Layered
    <3> QED BY <1>2, <1>3, <3>1, Names DEF Windowed, Assumed, PanelsApart
  <2>2. [u EXCEPT !.changed[w] = touchwin(w)] = u
    <3>1. [u.changed EXCEPT ![w] = touchwin(w)] = u.changed
      BY <1>3, <2>1 DEF Stacks, AllMarks
    <3> QED BY <1>3, <3>1 DEF Stacks
  <2>3. State' = u
    BY <1>3, <1>6, <2>2, BecomesState
  <2>4. beg' \in Places
    <3>1. <<y, x>> \in Int \X Int
      BY DEF Rows, ScreenColumns, Assumed, OnScreen
    <3>2. beg \in [AllWindows -> Int \X Int] /\ beg[stdscr] = <<0, 0>>
      BY DEF PanelsInv, Places
    <3>3. beg' \in [AllWindows -> Int \X Int]
      BY <1>6, <3>1, <3>2
    <3>4. beg'[stdscr] = beg[stdscr]
      BY <1>6, <2>1, <3>2
    <3> QED BY <3>2, <3>3, <3>4 DEF Places
  <2>5. \A i \in 1..Len(q) : u.win[q[i]] # w
    <3>1. \A i \in 1..Len(q) : q[i] # p /\ q[i] \in AllPanels
      BY <1>4 DEF Sans, In
    <3> QED BY <1>2, <1>3, <2>1, <3>1 DEF Windowed
  <2>6. \A i \in 1..Len(q) : beg'[u.win[q[i]]] = beg[u.win[q[i]]]
    <3>1. \A v : v # w => beg'[v] = beg[v]
      BY <1>6, <2>1 DEF PanelsInv, Places
    <3> QED BY <2>5, <3>1
  <2>7. Shown(beg', u, newscr, q)
    BY <1>4, <2>6, SameShown
  <2>8. Shown(beg', u, newscr, o)
    BY <1>3, <1>4, <2>1, <2>7, Restored
  <2>9. Layered(beg', u, newscr, o)
    BY <1>3, <2>8 DEF Layered
  <2> QED BY <1>2, <2>3, <2>4, <2>9 DEF PanelsInv
<1> QED BY <1>5, <1>6 DEF MovePanel

(* Writing a cell keeps it layered: the line is marked where text is lost.   *)
LEMMA WriteKeeps ==
    ASSUME Assumed, PanelsInv, NEW w \in AllWindows, NEW y, NEW x, Write(w, y, x)
    PROVE  PanelsInv'
<1> DEFINE m == changed'
           r == CHANGED_RANGE(changed[w][y], x, x)
<1>1. PICK o : Layered(beg, State, newscr, o)
  BY DEF PanelsInv
<1>2. /\ y \in LinesOf(w) /\ x \in 0..Maxx(w) /\ Maxx(w) \in Nat
      /\ m = [changed EXCEPT ![w][y] = r] /\ beg' = beg /\ links' = links
      /\ newscr' = [c \in Screen |-> IF newscr[c] = <<w, y, x>> THEN Old ELSE newscr[c]]
  BY Names DEF Write
<1>3. /\ State \in Stacks /\ State.changed = changed /\ State'.changed = m /\ SameLinks(State', State)
      /\ State.win = win
  BY <1>1, <1>2 DEF Layered, State, SameLinks, links
<1>4. changed \in AllMarks /\ \A v \in AllWindows : changed[v] \in MarksOf(v)
  BY <1>3 DEF Stacks, AllMarks
<1>5. changed[w][y] \in MarkRanges(w)
  BY <1>2, <1>4 DEF MarksOf
<1>6. /\ r \in MarkRanges(w)
      /\ \A j \in Nat : j \in changed[w][y][1]..changed[w][y][2] \/ j = x => j \in r[1]..r[2]
  <2>1. x \in Int /\ x <= x /\ \A j : j = x => j \in x..x
    BY <1>2
  <2> QED BY <1>2, <1>5, <2>1, Grown
<1> HIDE DEF r
<1>7. /\ m = [v \in AllWindows |-> IF v = w THEN [changed[w] EXCEPT ![y] = r] ELSE changed[v]]
  BY <1>2, <1>4 DEF AllMarks
<1>8. [changed[w] EXCEPT ![y] = r] \in MarksOf(w)
  BY <1>2, <1>4, <1>6 DEF MarksOf
<1>9. m \in AllMarks
  BY <1>4, <1>7, <1>8 DEF AllMarks
<1>10. \A i \in LinesOf(w) : m[w][i] = IF i = y THEN r ELSE changed[w][i]
  BY <1>2, <1>4, <1>7 DEF MarksOf
<1>11. State' \in Stacks
  BY <1>3, <1>9 DEF Stacks, SameLinks, State
<1> HIDE DEF m
<1>12. ASSUME NEW v \in AllWindows, NEW c \in Screen, Spans(beg, v, c), MarkedIn(beg, changed, v, c)
       PROVE  MarkedIn(beg, m, v, c)
  <2>1. CASE v = w
    <3>1. c[1] - beg[v][1] \in LinesOf(v) /\ c[2] - beg[v][2] \in Nat
      <4>1. Maxx(v) \in Nat
        BY Names
      <4> QED BY <1>12, <4>1 DEF Spans
    <3> QED BY <1>6, <1>10, <1>12, <2>1, <3>1 DEF MarkedIn
  <2>2. CASE v # w
    BY <1>7, <1>12, <2>2 DEF MarkedIn
  <2> QED BY <2>1, <2>2
<1>13. ASSUME NEW c \in Screen, CellAt(beg, w, c) = <<w, y, x>> PROVE MarkedIn(beg, m, w, c)
  <2>1. c[1] - beg[w][1] = y /\ c[2] - beg[w][2] = x
    BY <1>13 DEF CellAt
  <2>2. x \in Nat
    BY <1>2
  <2> QED BY <1>2, <1>6, <1>10, <2>1, <2>2 DEF MarkedIn
<1>14. Threads(State', o) /\ Windowed(State', o)
  BY <1>1, <1>3 DEF Layered, Threads, Windowed, SameLinks
<1>15. OthersTouched(State', o)
  <2>1. ASSUME NEW v \in AllWindows, \A i \in 1..Len(o) : win[o[i]] # v
        PROVE  m[v] = touchwin(v)
    <3>1. changed[v] = touchwin(v)
      BY <1>1, <1>3, <2>1 DEF Layered, OthersTouched
    <3>2. CASE v = w
      <4>1. changed[w][y] = <<0, Maxx(w)>>
        BY <1>2, <3>1, <3>2 DEF touchwin
      <4>2. r = <<Smaller(0, x), Larger(Maxx(w), x)>>
        BY <1>2, <4>1 DEF r, CHANGED_RANGE, Unmarked
      <4>3. Smaller(0, x) = 0 /\ Larger(Maxx(w), x) = Maxx(w)
        BY <1>2 DEF Smaller, Larger
      <4>4. [changed[w] EXCEPT ![y] = r] = changed[w]
        BY <1>2, <1>4, <4>1, <4>2, <4>3 DEF MarksOf
      <4> QED BY <1>7, <3>1, <3>2, <4>4
    <3>3. CASE v # w
      BY <1>7, <3>1, <3>3
    <3> QED BY <3>2, <3>3
  <2> QED BY <1>3, <2>1 DEF OthersTouched, SameLinks, m
<1>16. Shown(beg, State', newscr', o)
  <2>1. ASSUME NEW c \in Screen, NEW k \in 1..Len(o), Tops(beg, State', o, k, c)
        PROVE  \/ newscr'[c] = CellAt(beg, win[o[k]], c)
               \/ MarkedIn(beg, m, win[o[k]], c)
    <3> DEFINE v == win[o[k]]
    <3>1. Tops(beg, State, o, k, c)
      BY <1>3, <2>1 DEF Tops, SameLinks
    <3>2. newscr[c] = CellAt(beg, v, c) \/ MarkedIn(beg, changed, v, c)
      BY <1>1, <1>3, <3>1 DEF Layered, Shown
    <3>3. v \in AllWindows /\ Spans(beg, v, c)
      <4>1. o \in Seq(AllPanels) /\ Windowed(State, o)
        BY <1>1 DEF Layered, Threads
      <4> QED BY <1>3, <3>1, <4>1, WindowOf DEF Tops
    <3>4. CASE MarkedIn(beg, changed, v, c)
      BY <1>12, <3>3, <3>4
    <3>5. CASE newscr[c] = CellAt(beg, v, c)
      <4>1. CASE newscr[c] = <<w, y, x>>
        <5>1. v = w
          BY <3>5, <4>1 DEF CellAt
        <5> QED BY <1>13, <3>5, <4>1, <5>1
      <4>2. CASE newscr[c] # <<w, y, x>>
        BY <1>2, <3>5, <4>2
      <4> QED BY <4>1, <4>2
    <3> QED BY <3>2, <3>4, <3>5
  <2> QED BY <1>3, <2>1 DEF Shown, SameLinks, m
<1>17. newscr' = [c \in Screen |-> newscr'[c]]
  BY <1>2
<1> QED BY <1>2, <1>11, <1>14, <1>15, <1>16, <1>17 DEF PanelsInv, Layered

(* The stack begins with stdscr's pseudo panel alone.                        *)
LEMMA InitHolds ==
    ASSUME Assumed, PanelsInit
    PROVE  PanelsInv
<1> DEFINE o == <<Pseudo>>
<1>1. /\ beg = [w \in AllWindows |-> <<0, 0>>] /\ changed = [w \in AllWindows |-> touchwin(w)]
      /\ win = [p \in AllPanels |-> IF p = Pseudo THEN stdscr ELSE NoPanel]
      /\ above = [p \in AllPanels |-> NoPanel] /\ below = above /\ top = Pseudo /\ bottom = Pseudo
      /\ newscr = [c \in Screen |-> Old]
  BY DEF PanelsInit
<1>2. /\ State.win = win /\ State.above = above /\ State.below = below /\ State.top = top
      /\ State.bottom = bottom /\ State.changed = changed
  BY DEF State
<1>3. /\ Pseudo \in AllPanels /\ o \in Seq(AllPanels) /\ Len(o) = 1 /\ o[1] = Pseudo
      /\ 1..Len(o) = {1} /\ stdscr \in AllWindows
  BY Names
<1> HIDE DEF o
<1>4. changed \in AllMarks
  <2>1. \A w \in AllWindows : changed[w] = touchwin(w)
    BY <1>1
  <2>2. \A w \in AllWindows : changed[w] \in MarksOf(w)
    BY <2>1, TouchMarks
  <2>3. changed = [w \in AllWindows |-> changed[w]]
    BY <1>1
  <2> QED BY <2>2, <2>3 DEF AllMarks
<1>5. State \in Stacks
  <2>1. above \in Links /\ win \in [AllPanels -> AllWindows \cup {NoPanel}]
    BY <1>1, <1>3 DEF Links
  <2> QED BY <1>1, <1>3, <1>4, <2>1 DEF Stacks, State
<1>6. Threads(State, o)
  <2>1. above \in Links
    BY <1>1 DEF Links
  <2> QED BY <1>1, <1>2, <1>3, <2>1 DEF Threads
<1>7. Windowed(State, o)
  BY <1>1, <1>2, <1>3, Names DEF Windowed
<1>8. OthersTouched(State, o)
  BY <1>1, <1>2 DEF OthersTouched
<1>9. Shown(beg, State, newscr, o)
  <2>1. \A k \in 1..Len(o) : State.win[o[k]] = stdscr /\ changed[stdscr] = touchwin(stdscr)
    BY <1>1, <1>2, <1>3
  <2> QED BY <1>2, <2>1, TouchedIn DEF Shown, Tops
<1>10. beg \in Places
  BY <1>1, <1>3 DEF Places
<1> QED BY <1>1, <1>5, <1>6, <1>7, <1>8, <1>9, <1>10 DEF PanelsInv, Layered
-----------------------------------------------------------------------------
(* update_panels().                                                          *)

(* The panels that are marked for the n-th one are those above it.           *)
LEMMA AboveIt ==
    ASSUME Assumed, NEW s, NEW o, Threads(s, o), NEW n \in 1..Len(o)
    PROVE  ToSet(Upwards(s, s.above[o[n]])) \ {o[n]} = {o[j] : j \in (n + 1)..Len(o)}
<1> DEFINE L == Len(o)
<1>1. o \in Seq(AllPanels) /\ L \in Nat /\ n \in 1..L /\ \A i, j \in 1..L : o[i] = o[j] => i = j
  BY DEF Threads
<1>2. s.above[o[n]] = IF n = L THEN NoPanel ELSE o[n + 1]
  BY DEF Threads
<1>3. CASE n = L
  <2>1. Upwards(s, s.above[o[n]]) = <<>>
    BY <1>2, <1>3 DEF Upwards
  <2>2. ToSet(<<>>) = {} /\ (n + 1)..L = {}
    BY <1>1, <1>3 DEF ToSet
  <2> QED BY <2>1, <2>2
<1>4. CASE n # L
  <2> DEFINE a == SubSeq(o, n + 1, L)
  <2>1. n + 1 \in 1..L
    BY <1>1, <1>4
  <2>2. Upwards(s, o[n + 1]) = a
    BY <2>1, UpwardsIs
  <2>3. Len(a) = L - n /\ \A i \in 1..(L - n) : a[i] = o[n + i]
    BY <1>1, <2>1
  <2> HIDE DEF a, L
  <2>4. ToSet(a) = {o[j] : j \in (n + 1)..L}
    <3>1. ToSet(a) = {a[i] : i \in 1..(L - n)}
      BY <2>3 DEF ToSet
    <3>2. \A i \in 1..(L - n) : n + i \in (n + 1)..L /\ a[i] = o[n + i]
      BY <1>1, <2>3
    <3>3. \A j \in (n + 1)..L : j - n \in 1..(L - n) /\ a[j - n] = o[j]
      <4>1. \A j \in (n + 1)..L : j - n \in 1..(L - n) /\ n + (j - n) = j
        BY <1>1
      <4> QED BY <2>3, <4>1
    <3> QED BY <3>1, <3>2, <3>3
  <2>5. o[n] \notin {o[j] : j \in (n + 1)..L}
    <3>1. \A j \in (n + 1)..L : j \in 1..L /\ j # n
      BY <1>1
    <3> QED BY <1>1, <3>1
  <2> QED BY <1>2, <1>4, <2>2, <2>4, <2>5 DEF L
<1> QED BY <1>3, <1>4
(* The marks m have all that the marks a have.                               *)
Kept(b, a, m) ==
    \A v \in AllWindows, c \in Screen : Spans(b, v, c) /\ MarkedIn(b, a, v, c) => MarkedIn(b, m, v, c)
(* What is marked in one of the first n panels is marked in those above it.  *)
Spread(b, m, s, o, n) ==
    \A i \in 1..n, j \in 1..Len(o), c \in Screen :
        /\ j > i /\ Spans(b, s.win[o[i]], c) /\ Spans(b, s.win[o[j]], c)
        /\ MarkedIn(b, m, s.win[o[i]], c)
        => MarkedIn(b, m, s.win[o[j]], c)

(* One PANEL_UPDATE() of the loop marks what lies above the panel.           *)
LEMMA SpreadStep ==
    ASSUME Assumed, beg \in Places, NEW s \in Stacks, NEW o, Threads(s, o), Windowed(s, o),
           NEW n \in 1..Len(o), Spread(beg, s.changed, s, o, n - 1),
           NEW u, u = PANEL_UPDATE(s, o[n], s.above[o[n]])
    PROVE  /\ u \in Stacks /\ SameLinks(u, s) /\ Kept(beg, s.changed, u.changed)
           /\ Spread(beg, u.changed, u, o, n)
<1> DEFINE p == o[n]
           w == s.win[p]
           L == Len(o)
           T == {o[j] : j \in (n + 1)..L}
           z == s.above[p]
<1>1. /\ o \in Seq(AllPanels) /\ L \in Nat /\ n \in 1..L
      /\ \A i, j \in 1..L : o[i] = o[j] => i = j
  BY DEF Threads
<1>2. /\ \A i \in 1..L : o[i] \in AllPanels /\ s.win[o[i]] \in AllWindows
      /\ \A i, j \in 1..L : i # j => s.win[o[i]] # s.win[o[j]]
  <2>1. \A i \in 1..L : o[i] \in AllPanels /\ s.win[o[i]] \in AllWindows
    BY <1>1, WindowOf
  <2> QED BY <1>1, <2>1, Names DEF Windowed
<1> HIDE DEF L
<1>3. Walked(s, p, z, T, u)
  <2>1. T = ToSet(Upwards(s, z)) \ {p}
    BY AboveIt DEF L
  <2>2. T \subseteq AllPanels
    <3>1. \A j \in (n + 1)..L : j \in 1..L
      BY <1>1
    <3> QED BY <1>2, <3>1
  <2> HIDE DEF T
  <2> QED BY <1>1, <1>2, <2>1, <2>2 DEF Walked
<1> HIDE DEF T, p, w, z
<1>4. /\ u \in Stacks /\ SameLinks(u, s)
      /\ \A v \in AllWindows : (\A q \in T : s.win[q] # v) => u.changed[v] = s.changed[v]
      /\ \A v \in AllWindows, c \in Screen :
            Covers(v, c) /\ MarkedAt(s.changed, v, c) => MarkedAt(u.changed, v, c)
      /\ \A q \in T, c \in Screen :
            /\ s.win[q] \in AllWindows
            /\ Covers(s.win[p], c) /\ Covers(s.win[q], c)
            /\ s.changed[s.win[p]][c[1] - StartY(s.win[p])] # Unmarked
            => MarkedAt(u.changed, s.win[q], c)
  BY ONLY Assumed, beg \in Places, <1>3, UpdateMarks
<1>5. Kept(beg, s.changed, u.changed)
  BY <1>4, AtBeg DEF Kept
<1>6. \A i \in 1..n : u.changed[s.win[o[i]]] = s.changed[s.win[o[i]]]
  <2>1. ASSUME NEW i \in 1..n, NEW q \in T PROVE s.win[q] # s.win[o[i]]
    <3>1. PICK j \in (n + 1)..L : q = o[j]
      BY DEF T
    <3>2. i \in 1..L /\ j \in 1..L /\ i # j
      BY <1>1
    <3> QED BY <1>2, <3>1, <3>2
  <2>2. \A i \in 1..n : s.win[o[i]] \in AllWindows
    BY <1>1, <1>2
  <2> QED BY <1>4, <2>1, <2>2
<1>7. ASSUME NEW i \in 1..n, NEW j \in 1..L, NEW c \in Screen, j > i,
             Spans(beg, s.win[o[i]], c), Spans(beg, s.win[o[j]], c),
             MarkedIn(beg, u.changed, s.win[o[i]], c)
      PROVE  MarkedIn(beg, u.changed, s.win[o[j]], c)
  <2>1. i \in 1..L /\ s.win[o[i]] \in AllWindows /\ s.win[o[j]] \in AllWindows
    BY <1>1, <1>2
  <2>2. MarkedIn(beg, s.changed, s.win[o[i]], c)
    BY <1>6, <1>7 DEF MarkedIn
  <2>3. CASE i = n
    <3>1. o[j] \in T /\ p = o[i]
      <4>1. j \in (n + 1)..L
        BY <1>1, <1>7, <2>3
      <4> QED BY <2>3, <4>1 DEF T, p
    <3>2. s.changed[s.win[p]][c[1] - StartY(s.win[p])] # Unmarked
      <4>1. c[2] - beg[s.win[p]][2] \in 0..Maxx(s.win[p]) /\ Maxx(s.win[p]) \in Nat
        BY <1>7, <2>1, <3>1, Names DEF Spans
      <4> DEFINE x == c[2] - beg[s.win[p]][2]
                 r == s.changed[s.win[p]][c[1] - beg[s.win[p]][1]]
      <4>2. x \in r[1]..r[2]
        BY <2>2, <3>1 DEF MarkedIn
      <4>3. x \in Nat
        BY <4>1
      <4> HIDE DEF x, r
      <4>4. r # <<-1, -1>>
        BY <4>2, <4>3
      <4> QED BY <4>4 DEF StartY, Unmarked, r
    <3>3. Covers(s.win[p], c) /\ Covers(s.win[o[j]], c)
      BY <1>7, <2>1, <3>1, AtBeg
    <3>4. MarkedAt(u.changed, s.win[o[j]], c)
      BY <1>4, <2>1, <3>1, <3>2, <3>3
    <3> QED BY <2>1, <3>4, AtBeg
  <2>4. CASE i # n
    <3>1. i \in 1..(n - 1)
      BY <1>1, <2>4
    <3>2. MarkedIn(beg, s.changed, s.win[o[j]], c)
      BY <1>7, <2>2, <3>1 DEF Spread, L
    <3> QED BY <1>5, <1>7, <2>1, <3>2 DEF Kept
  <2> QED BY <2>3, <2>4
<1> QED BY <1>4, <1>5, <1>7 DEF Spread, SameLinks, L

(* The stack read from the links is the one they thread.                     *)
LEMMA StackIs ==
    ASSUME Assumed, NEW screen, NEW o, Layered(beg, State, screen, o)
    PROVE  Stack = o
<1>1. Threads(State, o) /\ bottom = o[1] /\ 1 \in 1..Len(o) /\ o \in Seq(AllPanels)
  <2>1. Threads(State, o) /\ State.bottom = bottom
    BY DEF Layered, State
  <2> QED BY <2>1 DEF Threads
<1>2. Stack = SubSeq(o, 1, Len(o))
  BY <1>1, UpwardsIs DEF Stack
<1>3. SubSeq(o, 1, Len(o)) = o
  BY <1>1
<1> QED BY <1>2, <1>3

(* What the marking comes to.                                                *)
LEMMA MarkingSpreads ==
    ASSUME Assumed, beg \in Places, NEW screen, NEW o, Layered(beg, State, screen, o),
           NEW u, u = Marking(Len(Stack))
    PROVE  /\ u \in Stacks /\ SameLinks(u, State) /\ Kept(beg, changed, u.changed)
           /\ Spread(beg, u.changed, State, o, Len(o))
<1> DEFINE L == Len(o)
           After(s, n) == PANEL_UPDATE(s, o[n], s.above[o[n]])
           X == {s \in Stacks : SameLinks(s, State)}
           h == [y \in (1..L) \X X |-> After(y[2], y[1])]
           Ok(f) == f = [n \in 0..L |-> IF n = 0 THEN State ELSE After(f[n - 1], n)]
           f == CHOOSE g : Ok(g)
<1>1. /\ State \in Stacks /\ Threads(State, o) /\ Windowed(State, o) /\ Stack = o
      /\ o \in Seq(AllPanels) /\ L \in Nat /\ State.changed = changed
  <2>1. Stack = o
    BY StackIs
  <2>2. State.changed = changed
    BY DEF State
  <2> QED BY <2>1, <2>2 DEF Layered, Threads
<1>2. u = f[L]
  BY <1>1 DEF Marking
<1>3. ASSUME NEW s \in X
      PROVE  s \in Stacks /\ SameLinks(s, State) /\ Threads(s, o) /\ Windowed(s, o)
  <2>1. s \in Stacks /\ SameLinks(s, State)
    OBVIOUS
  <2>2. Threads(s, o)
    BY ONLY <1>1, <2>1 DEF Threads, SameLinks
  <2>3. Windowed(s, o)
    BY ONLY <1>1, <2>1 DEF Windowed, SameLinks
  <2> QED BY <2>1, <2>2, <2>3
<1> HIDE DEF L
<1>4. ASSUME NEW s \in X, NEW n \in 1..L PROVE After(s, n) \in X
  <2> DEFINE p == o[n]
             z == s.above[p]
             T == {o[j] : j \in (n + 1)..L}
             t == After(s, n)
  <2>1. /\ p \in AllPanels /\ s.win[p] \in AllWindows /\ T \subseteq AllPanels
        /\ T = ToSet(Upwards(s, z)) \ {p}
    <3>1. p \in AllPanels /\ s.win[p] \in AllWindows
      BY <1>1, <1>3, WindowOf DEF L
    <3>2. T \subseteq AllPanels
      <4>1. \A j \in (n + 1)..L : o[j] \in AllPanels
        BY <1>1 DEF L
      <4> QED BY <4>1
    <3>3. T = ToSet(Upwards(s, z)) \ {p}
      BY <1>3, AboveIt DEF L
    <3> QED BY <3>1, <3>2, <3>3
  <2> HIDE DEF T, z
  <2>2. Walked(s, p, z, T, t)
    BY <1>3, <2>1 DEF Walked, z
  <2>3. t \in Stacks /\ SameLinks(t, s)
    BY <2>2, UpdateMarks
  <2> HIDE DEF t
  <2>4. t \in X
    BY <1>3, <2>3 DEF SameLinks
  <2> QED BY <2>4 DEF t
<1>5. State \in X
  BY <1>1 DEF SameLinks
<1>6. \E g : Ok(g)
  <2>1. h \in [(1..L) \X X -> X]
    <3> HIDE DEF X, After
    <3> QED BY <1>4
  <2> HIDE DEF h
  <2>2. PICK g \in [0..L -> X] : g[0] = State /\ \A n \in 1..L : g[n] = h[<<n, g[n - 1]>>]
    <3> HIDE DEF X
    <3>1. L \in Nat
      BY <1>1
    <3>2. \E g : Stepwise(g, L, X, State, h)
      BY ONLY <1>5, <2>1, <3>1, Iterates
    <3> QED BY <3>2 DEF Stepwise
  <2>3. ASSUME NEW n \in 0..L PROVE g[n] = IF n = 0 THEN State ELSE After(g[n - 1], n)
    <3>1. CASE n = 0
      BY <2>2, <3>1
    <3>2. CASE n # 0
      <4>1. n \in 1..L /\ n - 1 \in 0..L
        BY <1>1, <3>2
      <4>2. g[n - 1] \in X /\ g[n] = h[<<n, g[n - 1]>>]
        BY <2>2, <4>1
      <4> HIDE DEF After, X
      <4>3. h[<<n, g[n - 1]>>] = After(g[n - 1], n)
        BY <4>1, <4>2 DEF h
      <4> QED BY <3>2, <4>2, <4>3
    <3> QED BY <3>1, <3>2
  <2>4. Ok(g)
    <3> HIDE DEF After
    <3>1. g = [n \in 0..L |-> g[n]]
      BY <2>2
    <3> QED BY <2>3, <3>1
  <2> QED BY <2>4
<1>7. Ok(f)
  <2> HIDE DEF Ok
  <2> QED BY <1>6
<1> HIDE DEF f
<1>8. f[0] = State /\ \A n \in 1..L : f[n] = After(f[n - 1], n)
  <2>1. 0 \in 0..L /\ \A n \in 1..L : n \in 0..L /\ n # 0
    BY <1>1
  <2> HIDE DEF After
  <2> QED BY <1>7, <2>1
<1> DEFINE Fine(n) == /\ f[n] \in X /\ Kept(beg, changed, f[n].changed)
                      /\ Spread(beg, f[n].changed, State, o, n)
           Bad == {n \in 0..L : ~Fine(n)}
<1>9. Bad = {}
  <2>1. SUFFICES ASSUME Bad # {} PROVE FALSE
    OBVIOUS
  <2>2. PICK n \in Bad : \A k \in Bad : n <= k
    <3>1. Bad \subseteq Nat
      OBVIOUS
    <3> HIDE DEF Bad
    <3> QED BY <2>1, <3>1, LeastNatural
  <2>3. n \in 0..L /\ ~Fine(n)
    OBVIOUS
  <2>4. n # 0
    <3>1. Fine(0)
      <4>1. Kept(beg, changed, changed)
        BY DEF Kept
      <4>2. Spread(beg, changed, State, o, 0)
        BY DEF Spread
      <4> HIDE DEF X
      <4> QED BY <1>1, <1>5, <1>8, <4>1, <4>2
    <3> HIDE DEF Fine
    <3> QED BY <2>3, <3>1
  <2>5. n \in 1..L /\ n - 1 \in 0..L /\ ~(n <= n - 1)
    BY <1>1, <2>3, <2>4
  <2>6. Fine(n - 1)
    <3>1. n - 1 \notin Bad
      <4> HIDE DEF Bad
      <4> QED BY <2>2, <2>5
    <3> HIDE DEF Fine
    <3> QED BY <2>5, <3>1
  <2> DEFINE s == f[n - 1]
             t == f[n]
  <2>7. t = After(s, n)
    BY <1>8, <2>5
  <2>8. s \in X /\ Kept(beg, changed, s.changed) /\ Spread(beg, s.changed, State, o, n - 1)
    BY <2>6
  <2> HIDE DEF s, t
  <2>9. /\ s \in Stacks /\ Threads(s, o) /\ Windowed(s, o) /\ n \in 1..Len(o) /\ s.win = State.win
    BY <1>3, <2>5, <2>8 DEF L, SameLinks
  <2>10. Spread(beg, s.changed, s, o, n - 1)
    BY <2>8, <2>9 DEF Spread
  <2>11. /\ t \in Stacks /\ SameLinks(t, s) /\ Kept(beg, s.changed, t.changed)
         /\ Spread(beg, t.changed, t, o, n)
    BY <2>7, <2>9, <2>10, SpreadStep
  <2>12. t \in X /\ t.win = State.win
    BY <1>3, <2>8, <2>11 DEF SameLinks
  <2>13. Kept(beg, changed, t.changed)
    BY <2>8, <2>11 DEF Kept
  <2>14. Spread(beg, t.changed, State, o, n)
    BY <2>11, <2>12 DEF Spread
  <2>15. Fine(n)
    <3> HIDE DEF X
    <3> QED BY <2>12, <2>13, <2>14 DEF t
  <2> HIDE DEF Fine
  <2> QED BY <2>3, <2>15
<1>10. Fine(L)
  <2>1. L \in 0..L
    BY <1>1
  <2> HIDE DEF Fine
  <2> QED BY <1>9, <2>1
<1> QED BY <1>2, <1>3, <1>10 DEF L

(* What wnoutrefresh() copies of a window.                                   *)
LEMMA Refreshes ==
    ASSUME Assumed, beg \in Places, NEW screen, NEW w \in AllWindows, NEW m \in AllMarks, NEW c \in Screen
    PROVE  wnoutrefresh(screen, w, m[w])[c] =
               IF Spans(beg, w, c) /\ MarkedIn(beg, m, w, c) THEN CellAt(beg, w, c) ELSE screen[c]
<1> DEFINE i == c[1] - StartY(w)
           j == c[2] - StartX(w)
           r == m[w][i]
<1>1. wnoutrefresh(screen, w, m[w])[c] =
          IF i \in LinesOf(w) /\ j \in r[1]..r[2] /\ j >= 0 THEN <<w, i, j>> ELSE screen[c]
  BY DEF wnoutrefresh
<1>2. Spans(beg, w, c) <=> i \in LinesOf(w) /\ j \in 0..Maxx(w)
  BY DEF Spans, StartX, StartY
<1>3. (MarkedIn(beg, m, w, c) <=> j \in r[1]..r[2]) /\ CellAt(beg, w, c) = <<w, i, j>>
  BY DEF MarkedIn, CellAt, StartX, StartY
<1>4. j \in Int /\ Maxx(w) \in Nat
  BY CoveredLine, Names
<1>5. i \in LinesOf(w) => r \in MarkRanges(w)
  BY DEF AllMarks, MarksOf
<1> HIDE DEF i, j, r
<1>6. ASSUME r \in MarkRanges(w), j \in r[1]..r[2], j >= 0 PROVE j \in 0..Maxx(w)
  <2>1. CASE r = Unmarked
    <3>1. r[1] = -1 /\ r[2] = -1
      BY <2>1 DEF Unmarked
    <3> QED BY <1>4, <1>6, <3>1
  <2>2. CASE r # Unmarked
    <3>1. r[1] \in 0..Maxx(w) /\ r[2] \in 0..Maxx(w)
      BY <1>6, <2>2 DEF MarkRanges
    <3> QED BY <1>4, <1>6, <3>1
  <2> QED BY <2>1, <2>2
<1>7. j \in 0..Maxx(w) => j >= 0
  BY <1>4
<1> QED BY <1>1, <1>2, <1>3, <1>5, <1>6, <1>7

(* Copying the marked cells from the bottom up leaves the topmost on top.    *)
LEMMA CopyingShows ==
    ASSUME Assumed, beg \in Places, newscr = [c \in Screen |-> newscr[c]],
           NEW o, Layered(beg, State, newscr, o), NEW to, to = Copying(Len(Stack))
    PROVE  /\ to = [c \in Screen |-> to[c]]
           /\ \A c \in Screen, k \in 1..Len(o) :
                 Tops(beg, State, o, k, c) => to[c] = CellAt(beg, win[o[k]], c)
<1> DEFINE L == Len(o)
           u == Marking(Len(Stack))
           m == u.changed
           After(screen, n) == wnoutrefresh(screen, win[o[n]], m[win[o[n]]])
           V == {newscr[c] : c \in Screen} \cup {CellAt(beg, v, c) : v \in AllWindows, c \in Screen}
           X == [Screen -> V]
           h == [y \in (1..L) \X X |-> After(y[2], y[1])]
           Ok(f) == f = [n \in 0..L |-> IF n = 0 THEN newscr ELSE After(f[n - 1], n)]
           f == CHOOSE g : Ok(g)
<1>1. /\ Stack = o /\ State.win = win /\ State.changed = changed
      /\ State \in Stacks /\ Windowed(State, o) /\ Shown(beg, State, newscr, o)
      /\ o \in Seq(AllPanels) /\ L \in Nat
  <2>1. Stack = o
    BY StackIs
  <2>2. State.win = win /\ State.changed = changed
    BY DEF State
  <2> QED BY <2>1, <2>2 DEF Layered, Threads
<1>2. \A n \in 1..L : win[o[n]] \in AllWindows
  BY <1>1, WindowOf
<1>3. u \in Stacks /\ Kept(beg, changed, m) /\ Spread(beg, m, State, o, L)
  BY MarkingSpreads
<1>4. m \in AllMarks
  BY <1>3 DEF Stacks
<1>5. to = f[L]
  BY <1>1 DEF Copying
<1> HIDE DEF L, u, m
<1> DEFINE Hit(n, c) == Spans(beg, win[o[n]], c) /\ MarkedIn(beg, m, win[o[n]], c)
<1>6. ASSUME NEW screen, NEW n \in 1..L, NEW c \in Screen
      PROVE  After(screen, n)[c] = IF Hit(n, c) THEN CellAt(beg, win[o[n]], c) ELSE screen[c]
  BY <1>2, <1>4, Refreshes
<1>7. ASSUME NEW screen, NEW n \in 1..L
      PROVE  After(screen, n) = [c \in Screen |-> After(screen, n)[c]]
  BY DEF wnoutrefresh
<1> HIDE DEF After, Hit
<1>8. ASSUME NEW screen \in X, NEW n \in 1..L PROVE After(screen, n) \in X
  <2>1. \A c \in Screen : CellAt(beg, win[o[n]], c) \in V /\ screen[c] \in V
    BY <1>2
  <2> HIDE DEF V
  <2>2. \A c \in Screen : After(screen, n)[c] \in V
    BY <1>6, <2>1
  <2> QED BY <1>7, <2>2
<1>9. newscr \in X
  <2>1. \A c \in Screen : newscr[c] \in V
    OBVIOUS
  <2> HIDE DEF V
  <2> QED BY <2>1
<1> HIDE DEF X
<1>10. \E g : Ok(g)
  <2>1. h \in [(1..L) \X X -> X]
    BY <1>8
  <2> HIDE DEF h
  <2>2. PICK g : Stepwise(g, L, X, newscr, h)
    <3>1. L \in Nat
      BY <1>1
    <3> QED BY ONLY <1>9, <2>1, <3>1, Iterates
  <2>3. ASSUME NEW n \in 0..L PROVE g[n] = IF n = 0 THEN newscr ELSE After(g[n - 1], n)
    <3>1. CASE n = 0
      BY <2>2, <3>1 DEF Stepwise
    <3>2. CASE n # 0
      <4>1. n \in 1..L /\ n - 1 \in 0..L
        BY <1>1, <3>2
      <4>2. g[n - 1] \in X /\ g[n] = h[<<n, g[n - 1]>>]
        BY <2>2, <4>1 DEF Stepwise
      <4>3. h[<<n, g[n - 1]>>] = After(g[n - 1], n)
        BY <4>1, <4>2 DEF h
      <4> QED BY <3>2, <4>2, <4>3
    <3> QED BY <3>1, <3>2
  <2>4. Ok(g)
    <3>1. g = [n \in 0..L |-> g[n]]
      BY <2>2 DEF Stepwise
    <3> QED BY <2>3, <3>1
  <2> QED BY <2>4
<1>11. Ok(f)
  <2> HIDE DEF Ok
  <2> QED BY <1>10
<1> HIDE DEF f
<1>12. f[0] = newscr /\ \A n \in 1..L : f[n] = After(f[n - 1], n)
  <2>1. 0 \in 0..L /\ \A n \in 1..L : n \in 0..L /\ n # 0
    BY <1>1
  <2> QED BY <1>11, <2>1
<1> DEFINE Latest(n, c) == \/ /\ \A i \in 1..n : ~Hit(i, c)
                            /\ f[n][c] = newscr[c]
                         \/ \E i \in 1..n : /\ Hit(i, c) /\ \A j \in 1..n : j > i => ~Hit(j, c)
                                            /\ f[n][c] = CellAt(beg, win[o[i]], c)
           Fine(n) == f[n] = [c \in Screen |-> f[n][c]] /\ \A c \in Screen : Latest(n, c)
           Bad == {n \in 0..L : ~Fine(n)}
<1>13. Bad = {}
  <2>1. SUFFICES ASSUME Bad # {} PROVE FALSE
    OBVIOUS
  <2>2. PICK n \in Bad : \A k \in Bad : n <= k
    <3>1. Bad \subseteq Nat
      OBVIOUS
    <3> HIDE DEF Bad
    <3> QED BY <2>1, <3>1, LeastNatural
  <2>3. n \in 0..L /\ ~Fine(n)
    OBVIOUS
  <2>4. n # 0
    <3>1. Fine(0)
      <4>1. \A i \in 1..0 : FALSE
        OBVIOUS
      <4>2. f[0] = newscr
        BY <1>12
      <4> QED BY <4>1, <4>2
    <3> HIDE DEF Fine
    <3> QED BY <2>3, <3>1
  <2>5. n \in 1..L /\ n - 1 \in 0..L /\ ~(n <= n - 1)
    BY <1>1, <2>3, <2>4
  <2>6. Fine(n - 1)
    <3>1. n - 1 \notin Bad
      <4> HIDE DEF Bad
      <4> QED BY <2>2, <2>5
    <3> HIDE DEF Fine
    <3> QED BY <2>5, <3>1
  <2>7. f[n] = After(f[n - 1], n)
    BY <1>12, <2>5
  <2>8. f[n] = [c \in Screen |-> f[n][c]]
    BY <1>7, <2>5, <2>7
  <2>9. ASSUME NEW c \in Screen PROVE Latest(n, c)
    <3>1. f[n][c] = IF Hit(n, c) THEN CellAt(beg, win[o[n]], c) ELSE f[n - 1][c]
      BY <1>6, <2>5, <2>7
    <3>2. Latest(n - 1, c)
      BY <2>6
    <3>3. CASE Hit(n, c)
      <4>1. n \in 1..n /\ \A j \in 1..n : ~(j > n)
        BY <2>5
      <4> QED BY <3>1, <3>3, <4>1
    <3>4. CASE ~Hit(n, c)
      <4>1. \A i \in 1..n : i = n \/ i \in 1..(n - 1)
        BY <2>5
      <4>2. \A i \in 1..(n - 1) : i \in 1..n
        BY <2>5
      <4>3. CASE \A i \in 1..(n - 1) : ~Hit(i, c)
        <5>1. f[n - 1][c] = newscr[c]
          BY <3>2, <4>3
        <5> QED BY <3>1, <3>4, <4>1, <4>3, <5>1
      <4>4. CASE \E i \in 1..(n - 1) : Hit(i, c)
        <5>1. PICK i \in 1..(n - 1) : /\ Hit(i, c) /\ \A j \in 1..(n - 1) : j > i => ~Hit(j, c)
                                      /\ f[n - 1][c] = CellAt(beg, win[o[i]], c)
          BY <3>2, <4>4
        <5> QED BY <3>1, <3>4, <4>1, <4>2, <5>1
      <4> QED BY <4>3, <4>4
    <3> QED BY <3>3, <3>4
  <2>10. Fine(n)
    <3> HIDE DEF Latest
    <3> QED BY <2>8, <2>9
  <2> HIDE DEF Fine
  <2> QED BY <2>3, <2>10
<1>14. Fine(L)
  <2>1. L \in 0..L
    BY <1>1
  <2> HIDE DEF Fine
  <2> QED BY <1>13, <2>1
<1>15. ASSUME NEW c \in Screen, NEW k \in 1..L, Tops(beg, State, o, k, c)
       PROVE  to[c] = CellAt(beg, win[o[k]], c)
  <2>1. Spans(beg, win[o[k]], c) /\ \A j \in 1..L : j > k => ~Spans(beg, win[o[j]], c)
    BY <1>1, <1>15 DEF Tops, L
  <2>2. newscr[c] = CellAt(beg, win[o[k]], c) \/ MarkedIn(beg, changed, win[o[k]], c)
    BY <1>1, <1>15 DEF Shown, L
  <2>3. MarkedIn(beg, changed, win[o[k]], c) => Hit(k, c)
    BY <1>2, <1>3, <2>1 DEF Kept, Hit
  <2>4. Latest(L, c)
    BY <1>14
  <2>5. CASE \A i \in 1..L : ~Hit(i, c)
    <3>1. f[L][c] = newscr[c]
      BY <2>4, <2>5
    <3> QED BY <1>5, <2>2, <2>3, <2>5, <3>1
  <2>6. CASE \E i \in 1..L : Hit(i, c)
    <3>1. PICK i \in 1..L : /\ Hit(i, c) /\ \A j \in 1..L : j > i => ~Hit(j, c)
                            /\ f[L][c] = CellAt(beg, win[o[i]], c)
      BY <2>4, <2>6
    <3>2. ~(i > k)
      BY <2>1, <3>1 DEF Hit
    <3>3. ~(k > i)
      <4>1. k > i => MarkedIn(beg, m, win[o[k]], c)
        BY <1>1, <1>3, <2>1, <3>1 DEF Spread, Hit, L
      <4> QED BY <2>1, <3>1, <4>1 DEF Hit
    <3>4. i = k
      BY <1>1, <3>2, <3>3
    <3> QED BY <1>5, <3>1, <3>4
  <2> QED BY <2>5, <2>6
<1> QED BY <1>5, <1>14, <1>15 DEF L

(* update_panels() keeps the stack layered, with no marks left in it.        *)
LEMMA UpdateKeeps ==
    ASSUME Assumed, PanelsInv, UpdatePanels
    PROVE  PanelsInv'
<1>1. PICK o : Layered(beg, State, newscr, o)
  BY DEF PanelsInv
<1> DEFINE m == changed'
<1>2. /\ newscr' = Copying(Len(Stack)) /\ beg' = beg /\ links' = links
      /\ m = [w \in AllWindows |->
                 IF \E p \in ToSet(Stack) : win[p] = w THEN Untouched(w) ELSE changed[w]]
  BY DEF UpdatePanels
<1>3. /\ State \in Stacks /\ State.changed = changed /\ State.win = win
      /\ State'.changed = m /\ SameLinks(State', State)
  BY <1>1, <1>2 DEF Layered, State, SameLinks, links
<1>4. /\ Stack = o /\ Threads(State, o) /\ Windowed(State, o) /\ OthersTouched(State, o)
      /\ o \in Seq(AllPanels) /\ ToSet(o) = {o[i] : i \in 1..Len(o)}
  <2>1. Stack = o
    BY <1>1, StackIs
  <2>2. o \in Seq(AllPanels) /\ ToSet(o) = {o[i] : i \in 1..Len(o)}
    BY <1>1 DEF Layered, Threads, ToSet
  <2> QED BY <1>1, <2>1, <2>2 DEF Layered
<1>5. /\ newscr' = [c \in Screen |-> newscr'[c]]
      /\ \A c \in Screen, k \in 1..Len(o) :
            Tops(beg, State, o, k, c) => newscr'[c] = CellAt(beg, win[o[k]], c)
  BY <1>1, <1>2, CopyingShows DEF PanelsInv
<1>6. \A w \in AllWindows :
         m[w] = IF \E i \in 1..Len(o) : win[o[i]] = w THEN Untouched(w) ELSE changed[w]
  BY <1>2, <1>4
<1> HIDE DEF m
<1>7. m \in AllMarks
  <2>1. \A w \in AllWindows : Untouched(w) \in MarksOf(w)
    BY DEF Untouched, MarksOf, MarkRanges
  <2>2. \A w \in AllWindows : changed[w] \in MarksOf(w)
    BY <1>3 DEF Stacks, AllMarks
  <2>3. \A w \in AllWindows : m[w] \in MarksOf(w)
    BY <1>6, <2>1, <2>2
  <2>4. m = [w \in AllWindows |-> m[w]]
    BY <1>2
  <2> QED BY <2>3, <2>4 DEF AllMarks
<1>8. State' \in Stacks
  BY <1>3, <1>7 DEF Stacks, SameLinks, State
<1>9. Threads(State', o) /\ Windowed(State', o)
  BY <1>3, <1>4 DEF Threads, Windowed, SameLinks
<1>10. OthersTouched(State', o)
  <2>1. ASSUME NEW v \in AllWindows, \A i \in 1..Len(o) : win[o[i]] # v
        PROVE  m[v] = touchwin(v)
    BY <1>3, <1>4, <1>6, <2>1 DEF OthersTouched
  <2> QED BY <1>3, <2>1 DEF OthersTouched, SameLinks
<1>11. Shown(beg, State', newscr', o)
  <2>1. ASSUME NEW c \in Screen, NEW k \in 1..Len(o), Tops(beg, State', o, k, c)
        PROVE  newscr'[c] = CellAt(beg, win[o[k]], c)
    <3>1. Tops(beg, State, o, k, c)
      BY <1>3, <2>1 DEF Tops, SameLinks
    <3> QED BY <1>5, <3>1
  <2> QED BY <1>3, <2>1 DEF Shown, SameLinks
<1> QED BY <1>2, <1>5, <1>8, <1>9, <1>10, <1>11 DEF PanelsInv, Layered

(* Every step of the library and of the application keeps it layered.        *)
LEMMA PanelsStep ==
    ASSUME Assumed, ~BottomsAlone, PanelsInv, [PanelsNext]_panelsVars
    PROVE  PanelsInv'
<1>1. ASSUME NEW p \in Panels, NEW w \in PanelWindows, NewPanel(p, w) \/ ReplacePanel(p, w)
      PROVE  PanelsInv'
  BY <1>1, NewKeeps, ReplaceKeeps
<1>2. ASSUME NEW p \in Panels, ShowPanel(p) \/ HidePanel(p) \/ BottomPanel(p) \/ DelPanel(p)
      PROVE  PanelsInv'
  BY <1>2, ShowKeeps, HideKeeps, BottomKeeps, DelKeeps
<1>3. ASSUME NEW p \in Panels, NEW y \in Rows, NEW x \in ScreenColumns, MovePanel(p, y, x)
      PROVE  PanelsInv'
  BY <1>3, MoveKeeps
<1>4. ASSUME NEW w \in AllWindows, NEW y \in Rows, NEW x \in ScreenColumns, Write(w, y, x)
      PROVE  PanelsInv'
  BY <1>4, WriteKeeps
<1>5. CASE UpdatePanels
  BY <1>5, UpdateKeeps
<1>6. CASE UNCHANGED panelsVars
  <2>1. State' = State /\ beg' = beg /\ newscr' = newscr
    BY <1>6 DEF panelsVars, links, State
  <2> QED BY <2>1 DEF PanelsInv
<1> QED BY <1>1, <1>2, <1>3, <1>4, <1>5, <1>6 DEF PanelsNext

-----------------------------------------------------------------------------
(* What is seen.                                                             *)

(* What is not marked shows the topmost window.                              *)
LEMMA ShownOnTop ==
    ASSUME Assumed, PanelsInv
    PROVE  UpdateShows
<1> SUFFICES ASSUME \A p \in ToSet(Stack) : changed[win[p]] = Untouched(win[p])
             PROVE  newscr = [c \in Screen |-> TopAt(c)]
  BY DEF UpdateShows
<1>1. PICK o : Layered(beg, State, newscr, o)
  BY DEF PanelsInv
<1> DEFINE L == Len(o)
<1>2. /\ Stack = o /\ State.win = win /\ State.changed = changed /\ Windowed(State, o)
      /\ Shown(beg, State, newscr, o) /\ o \in Seq(AllPanels) /\ L \in Nat /\ L > 0 /\ o[1] = Pseudo
      /\ beg \in Places
  <2>1. Stack = o
    BY <1>1, StackIs
  <2>2. State.win = win /\ State.changed = changed
    BY DEF State
  <2> QED BY <1>1, <2>1, <2>2 DEF Layered, Threads, PanelsInv
<1>3. \A i \in 1..L : win[o[i]] \in AllWindows /\ changed[win[o[i]]] = Untouched(win[o[i]])
  <2>1. \A i \in 1..L : o[i] \in ToSet(Stack)
    BY <1>2 DEF ToSet
  <2> QED BY <1>2, <2>1, WindowOf
<1> HIDE DEF L
<1>4. ASSUME NEW c \in Screen PROVE newscr[c] = TopAt(c)
  <2> DEFINE seen == {n \in 1..L : Covers(win[o[n]], c)}
             k == CHOOSE n \in seen : \A i \in seen : i <= n
  <2>1. 1 \in seen
    <3>1. 1 \in 1..L /\ win[o[1]] = stdscr
      BY <1>2 DEF Windowed
    <3>2. Covers(stdscr, c)
      BY <1>2 DEF Covers, StartX, StartY, EndX, EndY, Places, Maxx, Maxy, Screen, Rows,
                  ScreenColumns, Assumed, OnScreen
    <3> QED BY <3>1, <3>2
  <2>2. \E n \in seen : \A i \in seen : i <= n
    <3>1. seen \subseteq Nat /\ seen # {} /\ \A n \in seen : n <= L
      BY <1>2, <2>1
    <3> HIDE DEF seen
    <3> QED BY <1>2, <3>1, GreatestNatural
  <2>3. k \in seen /\ \A i \in seen : i <= k
    <3> HIDE DEF seen
    <3> QED BY <2>2
  <2>4. TopAt(c) = Cell(win[o[k]], c)
    BY <1>2 DEF TopAt, L
  <2> HIDE DEF k
  <2>5. k \in 1..L /\ Covers(win[o[k]], c) /\ \A j \in 1..L : j > k => ~Covers(win[o[j]], c)
    BY <1>2, <2>3
  <2>6. /\ \A j \in 1..L : Covers(win[o[j]], c) <=> Spans(beg, win[o[j]], c)
        /\ Cell(win[o[k]], c) = CellAt(beg, win[o[k]], c)
    BY <1>2, <1>3, <2>5, AtBeg
  <2>7. Tops(beg, State, o, k, c) /\ Spans(beg, win[o[k]], c)
    BY <1>2, <2>5, <2>6 DEF Tops, L
  <2>8. newscr[c] = CellAt(beg, win[o[k]], c) \/ MarkedIn(beg, changed, win[o[k]], c)
    BY <1>2, <2>5, <2>7 DEF Shown, L
  <2>9. ~MarkedIn(beg, changed, win[o[k]], c)
    <3> DEFINE w == win[o[k]]
               x == c[2] - beg[w][2]
               i == c[1] - beg[w][1]
    <3>1. x \in 0..Maxx(w) /\ i \in LinesOf(w) /\ Maxx(w) \in Nat
      BY <1>3, <2>5, <2>7, Names DEF Spans
    <3>2. changed[w][i] = <<-1, -1>>
      <4>1. changed[w] = Untouched(w)
        BY <1>3, <2>5
      <4> HIDE DEF w, i
      <4>2. Untouched(w)[i] = Unmarked
        BY <3>1 DEF Untouched
      <4> QED BY <4>1, <4>2 DEF Unmarked
    <3>3. MarkedIn(beg, changed, w, c) <=> x \in changed[w][i][1]..changed[w][i][2]
      BY DEF MarkedIn
    <3> HIDE DEF x, i, w
    <3>4. ~(x \in -1..-1)
      BY <3>1
    <3> QED BY <3>2, <3>3, <3>4 DEF w
  <2> QED BY <2>4, <2>6, <2>8, <2>9
<1> QED BY <1>4 DEF PanelsInv
-----------------------------------------------------------------------------
(* The walks.                                                                *)

Upto(q, n) == SubSeq(q, 1, IF n < Len(q) THEN n ELSE Len(q))

(* The first n elements of a sequence, if there are so many, one step on.    *)
LEMMA PrefixGrows ==
    ASSUME NEW S, NEW q \in Seq(S), NEW n \in Nat, n > 0, NEW m,
           m = IF n - 1 < Len(q) THEN n - 1 ELSE Len(q)
    PROVE  /\ m \in 0..Len(q) /\ Len(Upto(q, n - 1)) = m
           /\ Upto(q, n - 1) = <<>> <=> m = 0
           /\ m # 0 => Last(Upto(q, n - 1)) = q[m]
           /\ m # Len(q) => m = n - 1
           /\ Upto(q, n) = IF m = Len(q) THEN Upto(q, n - 1) ELSE Append(Upto(q, n - 1), q[m + 1])
<1> DEFINE L == Len(q)
           e == SubSeq(q, 1, m)
<1>1. L \in Nat /\ m \in 0..L /\ (m # L => m = n - 1)
  OBVIOUS
<1>2. Upto(q, n - 1) = e
  BY DEF Upto
<1>3. e \in Seq(S) /\ Len(e) = m
  BY <1>1
<1>4. e = <<>> <=> m = 0
  <2> HIDE DEF e
  <2> QED BY <1>3
<1>5. m # 0 => Last(e) = q[m]
  <2>1. m # 0 => e[m] = q[m]
    BY <1>1
  <2> HIDE DEF e
  <2> QED BY <1>3, <2>1 DEF Last
<1>6. Upto(q, n) = IF m = L THEN e ELSE SubSeq(q, 1, m + 1)
  <2> HIDE DEF e
  <2>1. CASE m = L
    <3>1. ~(n - 1 < L) /\ ~(n < L)
      BY <1>1, <2>1
    <3> QED BY <2>1, <3>1 DEF Upto, e
  <2>2. CASE m # L
    <3>1. m + 1 = IF n < L THEN n ELSE L
      BY <1>1, <2>2
    <3> QED BY <2>2, <3>1 DEF Upto
  <2> QED BY <2>1, <2>2
<1>7. m # L => SubSeq(q, 1, m + 1) = Append(e, q[m + 1])
  <2>1. CASE m = 0 /\ m # L
    <3>1. q[1] \in S /\ 1 \in 1..L
      BY <1>1, <2>1
    <3>2. SubSeq(q, 1, 1) = <<q[1]>>
      <4> DEFINE a == SubSeq(q, 1, 1)
      <4>1. a \in Seq(S) /\ Len(a) = 1 /\ a[1] = q[1]
        BY <3>1
      <4> HIDE DEF a
      <4>2. a = <<q[1]>>
        BY <4>1
      <4> QED BY <4>2 DEF a
    <3>3. e = <<>>
      BY <1>4, <2>1
    <3> HIDE DEF e
    <3>4. Append(e, q[1]) = <<q[1]>>
      BY <3>3
    <3> QED BY <2>1, <3>2, <3>4
  <2>2. CASE m # 0 /\ m # L
    <3>1. 1 \in 1..Len(q) /\ m \in 1..Len(q)
      BY <1>1, <2>2
    <3> QED BY <2>2, <3>1, Slice
  <2> QED BY <2>1, <2>2
<1> HIDE DEF e, L
<1>8. Upto(q, n) = IF m = L THEN e ELSE Append(e, q[m + 1])
  BY ONLY <1>6, <1>7
<1>9. Len(Upto(q, n - 1)) = m /\ (Upto(q, n - 1) = <<>> <=> m = 0)
  BY ONLY <1>2, <1>3, <1>4
<1>10. m # 0 => Last(Upto(q, n - 1)) = q[m]
  BY ONLY <1>2, <1>5
<1>11. m \in 0..Len(q) /\ (m # Len(q) => m = n - 1)
  BY ONLY <1>1 DEF L
<1>12. Upto(q, n) = IF m = Len(q) THEN Upto(q, n - 1) ELSE Append(Upto(q, n - 1), q[m + 1])
  BY ONLY <1>2, <1>8 DEF L
<1> QED BY ONLY <1>9, <1>10, <1>11, <1>12
(* Where the walk e has come, and what follows there in q.                   *)
At(e) == IF e = <<>> THEN NoPanel ELSE Last(e)
Follows(q, x, y) ==
    \A m \in 0..Len(q) : x = (IF m = 0 THEN NoPanel ELSE q[m]) =>
                            y = (IF m = Len(q) THEN NoPanel ELSE q[m + 1])

(* A walk that finds q[i + 1] after q[i] collects q.                         *)
LEMMA WalkStep ==
    ASSUME NEW S, NoPanel \notin S, NEW q \in Seq(S), NEW n \in Nat, n > 0, NEW y,
           Follows(q, At(Upto(q, n - 1)), y)
    PROVE  Upto(q, n) = IF y = NoPanel \/ Len(Upto(q, n - 1)) # n - 1 THEN Upto(q, n - 1)
                        ELSE Append(Upto(q, n - 1), y)
<1> DEFINE m == IF n - 1 < Len(q) THEN n - 1 ELSE Len(q)
           e == Upto(q, n - 1)
           L == Len(q)
           x == At(e)
<1>1. /\ m \in 0..L /\ Len(e) = m
      /\ e = <<>> <=> m = 0
      /\ m # 0 => Last(e) = q[m]
      /\ m # L => m = n - 1
      /\ Upto(q, n) = IF m = L THEN e ELSE Append(e, q[m + 1])
  <2>1. m = IF n - 1 < Len(q) THEN n - 1 ELSE Len(q)
    OBVIOUS
  <2> HIDE DEF m
  <2> QED BY <2>1, PrefixGrows
<1> HIDE DEF m, e
<1>2. x = IF m = 0 THEN NoPanel ELSE q[m]
  BY <1>1 DEF At
<1>3. y = IF m = L THEN NoPanel ELSE q[m + 1]
  BY <1>1, <1>2 DEF Follows, e
<1>4. m # L => q[m + 1] # NoPanel
  <2>1. m # L => m + 1 \in 1..Len(q)
    BY <1>1
  <2> QED BY <2>1
<1> HIDE DEF L
<1> QED BY <1>1, <1>3, <1>4 DEF e

(* panel_above() walks up the stack.                                         *)
LEMMA UpWalk ==
    ASSUME Assumed, NEW screen, NEW o, Layered(beg, State, screen, o),
           NEW q \in Seq(AllPanels), Len(q) = Len(o) - 1,
           \A i \in 1..(Len(o) - 1) : q[i] = o[i + 1]
    PROVE  Walk(panel_above) = q
<1> DEFINE N == Cardinality(Panels)
           L == Len(o)
           Found(e, n) == LET p == panel_above(At(e))
                          IN IF p = NoPanel \/ Len(e) # n - 1 THEN e ELSE Append(e, p)
           Ok(g) == g = [n \in 0..N |-> IF n = 0 THEN <<>> ELSE Found(g[n - 1], n)]
           f == [n \in 0..N |-> Upto(q, n)]
           walk == CHOOSE g : Ok(g)
<1>1. Threads(State, o) /\ State.above = above /\ bottom = Pseudo
  <2>1. Threads(State, o) /\ State.above = above /\ State.bottom = bottom
    BY DEF Layered, State
  <2> QED BY <2>1 DEF Threads
<1>2. o \in Seq(AllPanels) /\ L \in Nat /\ L > 0 /\ o[1] = Pseudo /\ N \in Nat /\ L - 1 <= N
  <2>1. o \in Seq(AllPanels) /\ Len(o) \in Nat /\ Len(o) > 0 /\ o[1] = Pseudo
    BY <1>1 DEF Threads
  <2>2. Cardinality(Panels) \in Nat /\ Len(o) - 1 <= Cardinality(Panels)
    BY <1>1, StackFits
  <2> QED BY <2>1, <2>2
<1>3. \A i \in 1..L : above[o[i]] = IF i = L THEN NoPanel ELSE o[i + 1]
  BY <1>1 DEF Threads
<1> HIDE DEF N, L
<1>4. q \in Seq(AllPanels) /\ Len(q) = L - 1 /\ \A i \in 1..(L - 1) : q[i] = o[i + 1]
  BY DEF L
<1>5. ASSUME NEW m \in 0..Len(q)
      PROVE  panel_above(IF m = 0 THEN NoPanel ELSE q[m]) = IF m = Len(q) THEN NoPanel ELSE q[m + 1]
  <2>1. m + 1 \in 1..L /\ (m + 1 = L <=> m = Len(q))
    BY <1>2, <1>4
  <2>2. above[o[m + 1]] = IF m = Len(q) THEN NoPanel ELSE q[m + 1]
    <3>1. m # Len(q) => m + 1 \in 1..(L - 1) /\ q[m + 1] = o[m + 1 + 1]
      BY <1>2, <1>4, <2>1
    <3> QED BY <1>3, <2>1, <3>1
  <2>3. CASE m = 0
    BY <1>1, <1>2, <2>2, <2>3 DEF panel_above
  <2>4. CASE m # 0
    <3>1. q[m] = o[m + 1] /\ o[m + 1] \in AllPanels
      BY <1>2, <1>4, <2>1, <2>4 DEF L
    <3> QED BY <2>2, <2>4, <3>1, Names DEF panel_above
  <2> QED BY <2>3, <2>4
<1>6. ASSUME NEW n \in 1..N PROVE Upto(q, n) = Found(Upto(q, n - 1), n)
  <2> DEFINE x == At(Upto(q, n - 1))
             y == panel_above(x)
  <2>1. Follows(q, x, y)
    <3> HIDE DEF x
    <3> QED BY <1>5 DEF Follows
  <2>2. NoPanel \notin AllPanels /\ n \in Nat /\ n > 0
    BY <1>2, Names
  <2> HIDE DEF y
  <2>4. Upto(q, n) = IF y = NoPanel \/ Len(Upto(q, n - 1)) # n - 1 THEN Upto(q, n - 1)
                     ELSE Append(Upto(q, n - 1), y)
    BY <1>4, <2>1, <2>2, WalkStep
  <2> QED BY <2>4 DEF y
<1> HIDE DEF Found
<1>7. f[0] = <<>> /\ \A n \in 1..N : f[n] = Found(f[n - 1], n)
  <2>1. Upto(q, 0) = <<>>
    <3>1. Len(q) \in Nat
      BY <1>4
    <3>2. SubSeq(q, 1, 0) = <<>>
      BY <1>4
    <3> QED BY <3>1, <3>2 DEF Upto
  <2>2. 0 \in 0..N /\ \A n \in 1..N : n \in 0..N /\ n - 1 \in 0..N
    BY <1>2
  <2> QED BY <1>6, <2>1, <2>2
<1>8. \E g : Ok(g)
  <2>1. ASSUME NEW n \in 0..N PROVE f[n] = IF n = 0 THEN <<>> ELSE Found(f[n - 1], n)
    <3>1. n # 0 => n \in 1..N
      BY <1>2
    <3> HIDE DEF f
    <3> QED BY <1>7, <3>1
  <2>2. f = [n \in 0..N |-> f[n]]
    OBVIOUS
  <2> HIDE DEF f
  <2>3. Ok(f)
    BY <2>1, <2>2
  <2> QED BY <2>3
<1>9. Ok(walk)
  <2> HIDE DEF Ok
  <2> QED BY <1>8
<1> HIDE DEF walk, f
<1>10. walk[0] = <<>> /\ \A n \in 1..N : walk[n] = Found(walk[n - 1], n)
  <2>1. 0 \in 0..N /\ \A n \in 1..N : n \in 0..N /\ n # 0
    BY <1>2
  <2> QED BY <1>9, <2>1
<1>11. walk[N] = f[N]
  <2>1. \A n \in 1..N : walk[n - 1] = f[n - 1] => walk[n] = f[n]
    BY <1>7, <1>10
  <2>2. \A n \in 0..N : walk[n] = f[n]
    <3>1. N \in Nat /\ walk[0] = f[0]
      BY <1>2, <1>7, <1>10
    <3> QED BY ONLY <2>1, <3>1, SameStepwise
  <2> QED BY <1>2, <2>2
<1>12. f[N] = q
  <2>1. f[N] = SubSeq(q, 1, Len(q))
    <3>1. N \in 0..N /\ ~(N < Len(q))
      BY <1>2, <1>4
    <3>2. f[N] = Upto(q, N)
      BY <3>1 DEF f
    <3> QED BY <3>1, <3>2 DEF Upto
  <2>2. SubSeq(q, 1, Len(q)) = q
    BY <1>4
  <2> QED BY <2>1, <2>2
<1>13. Walk(panel_above) = walk[N]
  BY DEF Walk, walk, N, Found, At
<1> QED BY <1>11, <1>12, <1>13

(* panel_below() walks down the stack.                                       *)
LEMMA DownWalk ==
    ASSUME Assumed, NEW screen, NEW o, Layered(beg, State, screen, o),
           NEW q \in Seq(AllPanels), Len(q) = Len(o) - 1,
           \A i \in 1..(Len(o) - 1) : q[i] = o[Len(o) + 1 - i]
    PROVE  Walk(panel_below) = q
<1> DEFINE N == Cardinality(Panels)
           L == Len(o)
           Found(e, n) == LET p == panel_below(At(e))
                          IN IF p = NoPanel \/ Len(e) # n - 1 THEN e ELSE Append(e, p)
           Ok(g) == g = [n \in 0..N |-> IF n = 0 THEN <<>> ELSE Found(g[n - 1], n)]
           f == [n \in 0..N |-> Upto(q, n)]
           walk == CHOOSE g : Ok(g)
<1>1. Threads(State, o) /\ State.below = below /\ top = o[L] /\ bottom = Pseudo
  <2>1. Threads(State, o) /\ State.below = below /\ State.bottom = bottom /\ State.top = top
    BY DEF Layered, State
  <2> QED BY <2>1 DEF Threads
<1>2. o \in Seq(AllPanels) /\ L \in Nat /\ L > 0 /\ o[1] = Pseudo /\ N \in Nat /\ L - 1 <= N
  <2>1. o \in Seq(AllPanels) /\ Len(o) \in Nat /\ Len(o) > 0 /\ o[1] = Pseudo
    BY <1>1 DEF Threads
  <2>2. Cardinality(Panels) \in Nat /\ Len(o) - 1 <= Cardinality(Panels)
    BY <1>1, StackFits
  <2> QED BY <2>1, <2>2
<1>3. /\ \A i \in 1..L : below[o[i]] = IF i = 1 THEN NoPanel ELSE o[i - 1]
      /\ \A i \in 1..L : o[i] = Pseudo <=> i = 1
  BY <1>1, <1>2 DEF Threads
<1> HIDE DEF N, L
<1>4. q \in Seq(AllPanels) /\ Len(q) = L - 1 /\ \A i \in 1..(L - 1) : q[i] = o[L + 1 - i]
  BY DEF L
<1>5. ASSUME NEW m \in 0..Len(q)
      PROVE  panel_below(IF m = 0 THEN NoPanel ELSE q[m]) = IF m = Len(q) THEN NoPanel ELSE q[m + 1]
  <2>1. m \in 0..(L - 1) /\ (m = Len(q) <=> L - m = 1) /\ L - m \in 1..L
    BY <1>2, <1>4
  <2>2. m # Len(q) => q[m + 1] = o[L - m]
    <3>1. m # Len(q) => m + 1 \in 1..(L - 1) /\ L + 1 - (m + 1) = L - m
      BY <1>2, <1>4, <2>1
    <3> QED BY <1>4, <3>1
  <2>3. CASE m = 0
    <3>1. EMPTY_STACK(State) <=> L = 1
      <4>1. EMPTY_STACK(State) <=> top = bottom
        BY DEF EMPTY_STACK, State
      <4>2. L \in 1..L
        BY <1>2
      <4> QED BY <1>1, <1>3, <4>1, <4>2
    <3>2. L - m = L
      BY <1>2, <2>3
    <3> QED BY <1>1, <2>1, <2>2, <2>3, <3>1, <3>2 DEF panel_below
  <2>4. CASE m # 0
    <3> DEFINE k == L + 1 - m
    <3>1. k \in 1..L /\ k # 1 /\ k - 1 = L - m /\ m \in 1..(L - 1)
      BY <1>2, <2>1, <2>4
    <3>2. q[m] = o[k] /\ o[k] \in AllPanels
      BY <1>2, <1>4, <3>1 DEF L
    <3> HIDE DEF k
    <3>3. below[o[k]] = o[L - m]
      BY <1>3, <3>1
    <3>4. o[L - m] = bottom <=> m = Len(q)
      BY <1>1, <1>3, <2>1
    <3> QED BY <2>2, <2>4, <3>2, <3>3, <3>4, Names DEF panel_below
  <2> QED BY <2>3, <2>4
<1>6. ASSUME NEW n \in 1..N PROVE Upto(q, n) = Found(Upto(q, n - 1), n)
  <2> DEFINE x == At(Upto(q, n - 1))
             y == panel_below(x)
  <2>1. Follows(q, x, y)
    <3> HIDE DEF x
    <3> QED BY <1>5 DEF Follows
  <2>2. NoPanel \notin AllPanels /\ n \in Nat /\ n > 0
    BY <1>2, Names
  <2> HIDE DEF y
  <2>4. Upto(q, n) = IF y = NoPanel \/ Len(Upto(q, n - 1)) # n - 1 THEN Upto(q, n - 1)
                     ELSE Append(Upto(q, n - 1), y)
    BY <1>4, <2>1, <2>2, WalkStep
  <2> QED BY <2>4 DEF y
<1> HIDE DEF Found
<1>7. f[0] = <<>> /\ \A n \in 1..N : f[n] = Found(f[n - 1], n)
  <2>1. Upto(q, 0) = <<>>
    <3>1. Len(q) \in Nat
      BY <1>4
    <3>2. SubSeq(q, 1, 0) = <<>>
      BY <1>4
    <3> QED BY <3>1, <3>2 DEF Upto
  <2>2. 0 \in 0..N /\ \A n \in 1..N : n \in 0..N /\ n - 1 \in 0..N
    BY <1>2
  <2> QED BY <1>6, <2>1, <2>2
<1>8. \E g : Ok(g)
  <2>1. ASSUME NEW n \in 0..N PROVE f[n] = IF n = 0 THEN <<>> ELSE Found(f[n - 1], n)
    <3>1. n # 0 => n \in 1..N
      BY <1>2
    <3> HIDE DEF f
    <3> QED BY <1>7, <3>1
  <2>2. f = [n \in 0..N |-> f[n]]
    OBVIOUS
  <2> HIDE DEF f
  <2>3. Ok(f)
    BY <2>1, <2>2
  <2> QED BY <2>3
<1>9. Ok(walk)
  <2> HIDE DEF Ok
  <2> QED BY <1>8
<1> HIDE DEF walk, f
<1>10. walk[0] = <<>> /\ \A n \in 1..N : walk[n] = Found(walk[n - 1], n)
  <2>1. 0 \in 0..N /\ \A n \in 1..N : n \in 0..N /\ n # 0
    BY <1>2
  <2> QED BY <1>9, <2>1
<1>11. walk[N] = f[N]
  <2>1. \A n \in 1..N : walk[n - 1] = f[n - 1] => walk[n] = f[n]
    BY <1>7, <1>10
  <2>2. \A n \in 0..N : walk[n] = f[n]
    <3>1. N \in Nat /\ walk[0] = f[0]
      BY <1>2, <1>7, <1>10
    <3> QED BY ONLY <2>1, <3>1, SameStepwise
  <2> QED BY <1>2, <2>2
<1>12. f[N] = q
  <2>1. f[N] = SubSeq(q, 1, Len(q))
    <3>1. N \in 0..N /\ ~(N < Len(q))
      BY <1>2, <1>4
    <3>2. f[N] = Upto(q, N)
      BY <3>1 DEF f
    <3> QED BY <3>1, <3>2 DEF Upto
  <2>2. SubSeq(q, 1, Len(q)) = q
    BY <1>4
  <2> QED BY <2>1, <2>2
<1>13. Walk(panel_below) = walk[N]
  BY DEF Walk, walk, N, Found, At
<1> QED BY <1>11, <1>12, <1>13
(* What is walked is what is not hidden.                                     *)
LEMMA WalksRight ==
    ASSUME Assumed, PanelsInv
    PROVE  WalksAgree
<1>1. PICK o : Layered(beg, State, newscr, o)
  BY DEF PanelsInv
<1> DEFINE L == Len(o)
           up == [i \in 1..(L - 1) |-> o[i + 1]]
           down == [i \in 1..(L - 1) |-> o[L + 1 - i]]
           seen == {p \in Allocated : ~panel_hidden(p)}
<1>2. /\ o \in Seq(AllPanels) /\ L \in Nat /\ L > 0 /\ o[1] = Pseudo
      /\ \A i, j \in 1..L : o[i] = o[j] => i = j
      /\ \A i \in 1..L : win[o[i]] # NoPanel
      /\ Threads(State, o)
  <2>1. Threads(State, o) /\ Windowed(State, o) /\ State.win = win
    BY <1>1 DEF Layered, State
  <2> QED BY <2>1 DEF Threads, Windowed
<1>3. \A i \in 1..(L - 1) : i + 1 \in 1..L /\ L + 1 - i \in 1..L /\ i + 1 # 1
  BY <1>2
<1>4. \A i \in 1..(L - 1) : o[i + 1] \in AllPanels /\ o[L + 1 - i] \in AllPanels
  BY <1>2, <1>3
<1>5. L - 1 \in Nat
  BY <1>2
<1>6. /\ up \in Seq(AllPanels) /\ Len(up) = L - 1 /\ DOMAIN up = 1..(L - 1)
      /\ \A i \in 1..(L - 1) : up[i] = o[i + 1]
  <2> HIDE DEF L
  <2> QED BY <1>4, <1>5
<1>7. /\ down \in Seq(AllPanels) /\ Len(down) = L - 1 /\ DOMAIN down = 1..(L - 1)
      /\ \A i \in 1..(L - 1) : down[i] = o[L + 1 - i]
  <2> HIDE DEF L
  <2> QED BY <1>4, <1>5
<1> HIDE DEF up, down
<1>8. Walk(panel_above) = up
  BY <1>1, <1>6, UpWalk
<1>9. Walk(panel_below) = down
  BY <1>1, <1>7, DownWalk
<1> HIDE DEF L
<1>10. Reverse(up) = down
  <2>1. Reverse(up) = [i \in 1..(L - 1) |-> up[(L - 1 - i) + 1]]
    BY <1>6 DEF Reverse
  <2>2. \A i \in 1..(L - 1) : up[(L - 1 - i) + 1] = down[i]
    <3>1. ASSUME NEW i \in 1..(L - 1) PROVE up[(L - 1 - i) + 1] = down[i]
      <4>1. (L - 1 - i) + 1 \in 1..(L - 1) /\ ((L - 1 - i) + 1) + 1 = L + 1 - i
        BY <1>2
      <4> QED BY <1>6, <1>7, <4>1
    <3> QED BY <3>1
  <2>3. down = [i \in 1..(L - 1) |-> down[i]]
    BY <1>7
  <2> QED BY <2>1, <2>2, <2>3
<1>11. ToSet(up) = {o[i + 1] : i \in 1..(L - 1)}
  BY <1>6 DEF ToSet
<1>12. ToSet(up) = seen
  <2>1. ASSUME NEW i \in 1..(L - 1) PROVE o[i + 1] \in seen
    <3>1. o[i + 1] \in Panels /\ win[o[i + 1]] # NoPanel
      <4>1. o[i + 1] # Pseudo
        <5>1. 1 \in 1..L
          BY <1>2
        <5> QED BY <1>2, <1>3, <5>1
      <4> QED BY <1>2, <1>3, <1>4, <4>1, Names
    <3>2. In(o, o[i + 1])
      BY <1>3 DEF In, L
    <3>3. IS_LINKED(State, o[i + 1])
      BY <1>2, <1>4, <3>2, LinkedIn
    <3> QED BY <3>1, <3>3 DEF Allocated, panel_hidden
  <2>2. ASSUME NEW p \in seen PROVE \E i \in 1..(L - 1) : p = o[i + 1]
    <3>1. p \in Panels /\ p \in AllPanels /\ p # Pseudo /\ IS_LINKED(State, p)
      BY Names DEF Allocated, panel_hidden
    <3>2. PICK j \in 1..Len(o) : o[j] = p
      BY <1>2, <3>1, LinkedIn DEF In
    <3>3. j - 1 \in 1..(L - 1) /\ (j - 1) + 1 = j
      BY <1>2, <3>1, <3>2 DEF L
    <3> QED BY <3>2, <3>3
  <2> HIDE DEF seen
  <2> QED BY <1>11, <2>1, <2>2
<1>13. Len(up) = Cardinality(ToSet(up))
  <2>1. up \in Bijection(1..(L - 1), ToSet(up))
    <3>1. up \in [1..(L - 1) -> ToSet(up)]
      BY <1>6 DEF ToSet
    <3>2. \A i, j \in 1..(L - 1) : up[i] = up[j] => i = j
      <4>1. ASSUME NEW i \in 1..(L - 1), NEW j \in 1..(L - 1), up[i] = up[j] PROVE i = j
        <5>1. o[i + 1] = o[j + 1] /\ i + 1 \in 1..L /\ j + 1 \in 1..L
          BY <1>3, <1>6, <4>1
        <5>2. i + 1 = j + 1
          BY <1>2, <5>1
        <5> QED BY <5>2
      <4> QED BY <4>1
    <3>3. \A x \in ToSet(up) : \E i \in 1..(L - 1) : up[i] = x
      BY <1>6 DEF ToSet
    <3> QED BY <3>1, <3>2, <3>3 DEF Bijection, Injection, Surjection, IsInjective
  <2>2. IsFiniteSet(1..(L - 1)) /\ Cardinality(1..(L - 1)) = L - 1
    <3>1. 1 \in Int /\ L - 1 \in Int /\ L - 1 >= 0
      BY <1>5
    <3> HIDE DEF L
    <3>2. Cardinality(1..(L - 1)) = IF 1 > L - 1 THEN 0 ELSE (L - 1) - 1 + 1
      BY <3>1, FS_Interval
    <3> QED BY <3>1, <3>2, FS_Interval
  <2>3. Cardinality(1..(L - 1)) = Cardinality(ToSet(up))
    BY <2>1, <2>2, FS_Bijection DEF ExistsBijection
  <2> QED BY <1>6, <2>2, <2>3
<1> QED BY <1>8, <1>9, <1>10, <1>12, <1>13 DEF WalksAgree

-----------------------------------------------------------------------------
(* The theorems, of applications that call bottom_panel() only while a panel *)
(* is shown: with none shown, the code leaves _nc_top_panel at stdscr's.     *)

(* In every reachable state the links of the shown panels thread one stack   *)
(* with stdscr's at the bottom, no window has two panels, and whatever is    *)
(* not seen in newscr is marked in the window that lies on top there.        *)
THEOREM StackIsLayered ==
    ASSUME ~BottomsAlone
    PROVE  PanelsSpec => []PanelsInv
<1>1. PanelsInit => PanelsInv
  BY InitHolds, ConstantsAreSo
<1>2. PanelsInv /\ [PanelsNext]_panelsVars => PanelsInv'
  BY PanelsStep, ConstantsAreSo
<1> QED BY <1>1, <1>2, PTL DEF PanelsSpec

(* Walking the stack with panel_above() or panel_below() finds the panels    *)
(* that panel_hidden() says are not hidden, each once, in opposite orders.   *)
THEOREM WalksAreRight ==
    ASSUME ~BottomsAlone
    PROVE  PanelsSpec => []WalksAgree
<1>1. PanelsInv => WalksAgree
  BY WalksRight, ConstantsAreSo
<1> QED BY <1>1, StackIsLayered, PTL

(* Whenever no window of the stack has marked lines, as after                *)
(* update_panels(), newscr shows the topmost window in every cell.           *)
THEOREM UpdatesShowTop ==
    ASSUME ~BottomsAlone
    PROVE  PanelsSpec => []UpdateShows
<1>1. PanelsInv => UpdateShows
  BY ShownOnTop, ConstantsAreSo
<1> QED BY <1>1, StackIsLayered, PTL
=============================================================================
