--------------------------- MODULE SequenceLemmas ----------------------------
(* What several proofs need of natural numbers and of sequences that lose an  *)
(* element.                                                                   *)
EXTENDS Integers, SequencesExt, WellFoundedInduction, SequenceTheorems, TLAPS

(* A set of natural numbers has a least one.                                 *)
LEMMA LeastNatural ==
    ASSUME NEW T, T \subseteq Nat, T # {}
    PROVE  \E n \in T : \A m \in T : n <= m
<1>1. PICK n \in T : \A m \in T : ~(<<m, n>> \in OpToRel(<, Nat))
  BY NatLessThanWellFounded, WFMin
<1>2. \A m \in T : ~(m < n)
  BY <1>1 DEF OpToRel
<1> QED BY <1>2

(* A bounded set of natural numbers has a greatest one.                      *)
LEMMA GreatestNatural ==
    ASSUME NEW T, T \subseteq Nat, T # {}, NEW bound \in Nat, \A n \in T : n <= bound
    PROVE  \E n \in T : \A m \in T : m <= n
<1> DEFINE S == {bound - n : n \in T}
<1>1. S \subseteq Nat /\ S # {}
  <2>1. \A n \in T : bound - n \in Nat
    OBVIOUS
  <2> QED BY <2>1
<1>2. PICK k \in S : \A m \in S : k <= m
  BY <1>1, LeastNatural
<1>3. PICK n \in T : k = bound - n
  BY <1>2
<1>4. ASSUME NEW m \in T PROVE m <= n
  <2>1. bound - m \in S
    OBVIOUS
  <2>2. bound - n <= bound - m
    BY <1>2, <1>3, <2>1
  <2> QED BY <2>2
<1> QED BY <1>4

(* RemoveAt() closes the gap.                                                *)
LEMMA Removed ==
    ASSUME NEW S, NEW s \in Seq(S), NEW i \in 1..Len(s)
    PROVE  /\ RemoveAt(s, i) \in Seq(S)
           /\ Len(RemoveAt(s, i)) = Len(s) - 1
           /\ \A k \in 1..(Len(s) - 1) : RemoveAt(s, i)[k] = IF k < i THEN s[k] ELSE s[k + 1]
<1> DEFINE a == SubSeq(s, 1, i - 1)
           b == SubSeq(s, i + 1, Len(s))
<1>1. a \in Seq(S) /\ Len(a) = i - 1 /\ \A k \in 1..(i - 1) : a[k] = s[k]
  OBVIOUS
<1>2. b \in Seq(S) /\ Len(b) = Len(s) - i /\ \A k \in 1..(Len(s) - i) : b[k] = s[i + k]
  OBVIOUS
<1>3. RemoveAt(s, i) = a \o b
  BY DEF RemoveAt
<1> HIDE DEF a, b
<1>4. a \o b \in Seq(S) /\ Len(a \o b) = Len(s) - 1
  <2>1. a \o b \in Seq(S) /\ Len(a \o b) = Len(a) + Len(b)
    <3>1. a \in Seq(S) /\ b \in Seq(S)
      BY <1>1, <1>2
    <3> QED BY ONLY <3>1
  <2>2. Len(s) \in Nat /\ i \in Int
    OBVIOUS
  <2>3. (i - 1) + (Len(s) - i) = Len(s) - 1
    BY <2>2
  <2> QED BY <1>1, <1>2, <2>1, <2>3
<1>5. ASSUME NEW k \in 1..(Len(s) - 1)
      PROVE  (a \o b)[k] = IF k < i THEN s[k] ELSE s[k + 1]
  <2>1. CASE k < i
    BY <1>1, <1>2, <2>1
  <2>2. CASE ~(k < i)
    <3>1. (a \o b)[k] = b[k - (i - 1)]
      BY <1>1, <1>2, <2>2
    <3>2. k - (i - 1) \in 1..(Len(s) - i) /\ i + (k - (i - 1)) = k + 1
      BY <2>2
    <3> QED BY <1>2, <2>2, <3>1, <3>2
  <2> QED BY <2>1, <2>2
<1> QED BY <1>3, <1>4, <1>5

(* A new first element moves all others by one.                              *)
LEMMA Prepended ==
    ASSUME NEW S, NEW s \in Seq(S), NEW e \in S
    PROVE  /\ <<e>> \o s \in Seq(S) /\ Len(<<e>> \o s) = Len(s) + 1
           /\ (<<e>> \o s)[1] = e
           /\ \A i \in 1..Len(s) : (<<e>> \o s)[i + 1] = s[i]
           /\ \A i \in 2..(Len(s) + 1) : i - 1 \in 1..Len(s) /\ (<<e>> \o s)[i] = s[i - 1]
OBVIOUS
(* What is reached step by step.                                             *)
Stepwise(f, N, X, x, h) ==
    f \in [0..N -> X] /\ f[0] = x /\ \A n \in 1..N : f[n] = h[<<n, f[n - 1]>>]

(* A function that is defined step by step exists.                           *)
LEMMA Iterates ==
    ASSUME NEW X, NEW x \in X, NEW N \in Nat, NEW h, h \in [(1..N) \X X -> X]
    PROVE  \E f : Stepwise(f, N, X, x, h)
<1> DEFINE Good(n) == \E f \in [0..n -> X] : f[0] = x /\ \A i \in 1..n : f[i] = h[<<i, f[i - 1]>>]
           T == {n \in 0..N : ~Good(n)}
<1>1. SUFFICES ASSUME T # {} PROVE FALSE
  <2>1. N \in 0..N
    OBVIOUS
  <2>2. ASSUME T = {} PROVE Good(N)
    <3> HIDE DEF Good
    <3> QED BY <2>1, <2>2
  <2>3. Good(N) => \E f : Stepwise(f, N, X, x, h)
    BY DEF Stepwise
  <2> HIDE DEF T, Good
  <2> QED BY <2>2, <2>3
<1>2. PICK n \in T : \A k \in T : n <= k
  <2>1. T \subseteq Nat
    OBVIOUS
  <2> HIDE DEF T
  <2> QED BY <1>1, <2>1, LeastNatural
<1>3. n \in 0..N /\ ~Good(n)
  OBVIOUS
<1>4. n # 0
  <2>1. Good(0)
    <3> DEFINE f == [i \in 0..0 |-> x]
    <3>1. f \in [0..0 -> X] /\ f[0] = x
      OBVIOUS
    <3>2. \A i \in 1..0 : f[i] = h[<<i, f[i - 1]>>]
      OBVIOUS
    <3> HIDE DEF f
    <3> QED BY <3>1, <3>2
  <2> HIDE DEF Good
  <2> QED BY <1>3, <2>1
<1>5. n - 1 \in 0..N /\ ~(n <= n - 1) /\ n - 1 \notin T
  <2>1. n - 1 \in 0..N /\ ~(n <= n - 1)
    BY <1>3, <1>4
  <2> HIDE DEF T
  <2> QED BY <1>2, <2>1
<1>6. PICK f \in [0..(n - 1) -> X] : f[0] = x /\ \A i \in 1..(n - 1) : f[i] = h[<<i, f[i - 1]>>]
  BY <1>5
<1> DEFINE y == h[<<n, f[n - 1]>>]
           g == [i \in 0..n |-> IF i = n THEN y ELSE f[i]]
<1>7. y \in X
  <2>1. n \in 1..N /\ n - 1 \in 0..(n - 1)
    BY <1>3, <1>4
  <2> QED BY <2>1
<1> HIDE DEF y
<1>8. g \in [0..n -> X] /\ g[0] = x
  <2>1. \A i \in 0..n : i # n => i \in 0..(n - 1)
    BY <1>3
  <2>2. 0 \in 0..n
    BY <1>3
  <2> QED BY <1>4, <1>6, <1>7, <2>1, <2>2
<1>9. ASSUME NEW i \in 1..n PROVE g[i] = h[<<i, g[i - 1]>>]
  <2>1. i - 1 \in 0..n /\ i - 1 # n /\ i \in 0..n
    BY <1>3
  <2>2. g[i - 1] = f[i - 1]
    BY <2>1
  <2>3. CASE i = n
    BY <2>1, <2>2, <2>3 DEF y
  <2>4. CASE i # n
    <3>1. i \in 1..(n - 1)
      BY <1>3, <2>4
    <3> QED BY <1>6, <2>1, <2>2, <2>4, <3>1
  <2> QED BY <2>3, <2>4
<1> HIDE DEF g
<1>10. Good(n)
  BY <1>8, <1>9
<1> HIDE DEF Good
<1> QED BY <1>3, <1>10

(* And it stays where every step stays.                                      *)
LEMMA StaysIn ==
    ASSUME NEW X, NEW N \in Nat, NEW t, t[0] \in X,
           \A n \in 1..N : t[n - 1] \in X => t[n] \in X
    PROVE  \A n \in 0..N : t[n] \in X
<1> DEFINE T == {n \in 0..N : t[n] \notin X}
<1>1. SUFFICES ASSUME T # {} PROVE FALSE
  OBVIOUS
<1>2. PICK n \in T : \A k \in T : n <= k
  <2>1. T \subseteq Nat
    OBVIOUS
  <2> HIDE DEF T
  <2> QED BY <1>1, <2>1, LeastNatural
<1>3. n \in 0..N /\ t[n] \notin X /\ n # 0
  OBVIOUS
<1>4. n - 1 \in 0..N /\ ~(n <= n - 1) /\ n \in 1..N
  BY <1>3
<1>5. n - 1 \notin T
  <2> HIDE DEF T
  <2> QED BY <1>2, <1>4
<1> QED BY <1>3, <1>4, <1>5

(* Two functions that take the same steps are one.                           *)
LEMMA SameStepwise ==
    ASSUME NEW N \in Nat, NEW f, NEW g, g[0] = f[0],
           \A n \in 1..N : g[n - 1] = f[n - 1] => g[n] = f[n]
    PROVE  \A n \in 0..N : g[n] = f[n]
<1> DEFINE T == {n \in 0..N : g[n] # f[n]}
<1>1. SUFFICES ASSUME T # {} PROVE FALSE
  OBVIOUS
<1>2. PICK n \in T : \A k \in T : n <= k
  <2>1. T \subseteq Nat
    OBVIOUS
  <2> HIDE DEF T
  <2> QED BY <1>1, <2>1, LeastNatural
<1>3. n \in 1..N /\ n - 1 \in 0..N /\ ~(n <= n - 1)
  <2>1. n \in 0..N /\ n # 0
    OBVIOUS
  <2> QED BY <2>1
<1>4. g[n - 1] = f[n - 1]
  BY <1>2, <1>3
<1> QED BY <1>3, <1>4

(* What a part of a sequence holds.                                          *)
LEMMA Slice ==
    ASSUME NEW S, NEW o \in Seq(S), NEW k \in 1..Len(o), NEW m \in k..Len(o)
    PROVE  /\ SubSeq(o, k, m) \in Seq(S) /\ Len(SubSeq(o, k, m)) = m - k + 1
           /\ \A i \in 1..(m - k + 1) : SubSeq(o, k, m)[i] = o[k + i - 1]
           /\ Last(SubSeq(o, k, m)) = o[m]
           /\ m # Len(o) => SubSeq(o, k, m + 1) = Append(SubSeq(o, k, m), o[m + 1])
<1> DEFINE a == SubSeq(o, k, m)
<1>1. /\ a \in Seq(S) /\ Len(a) = m - k + 1
      /\ \A i \in 1..(m - k + 1) : a[i] = o[k + i - 1]
  OBVIOUS
<1> HIDE DEF a
<1>2. Last(a) = o[m]
  <2>1. m - k + 1 \in 1..(m - k + 1) /\ k + (m - k + 1) - 1 = m
    OBVIOUS
  <2> QED BY <1>1, <2>1 DEF Last
<1>3. ASSUME m # Len(o) PROVE SubSeq(o, k, m + 1) = Append(a, o[m + 1])
  <2> DEFINE b == SubSeq(o, k, m + 1)
             e == Append(a, o[m + 1])
  <2>1. m + 1 \in k..Len(o) /\ o[m + 1] \in S
    BY <1>3
  <2>2. /\ b \in Seq(S) /\ Len(b) = m - k + 2
        /\ \A i \in 1..(m - k + 2) : b[i] = o[k + i - 1]
    BY <2>1
  <2>3. /\ e \in Seq(S) /\ Len(e) = m - k + 2
        /\ \A i \in 1..(m - k + 1) : e[i] = a[i]
        /\ e[m - k + 2] = o[m + 1]
    <3> DEFINE x == o[m + 1]
    <3>0. a \in Seq(S) /\ x \in S
      BY <1>1, <2>1
    <3> HIDE DEF x
    <3>1. Len(e) = Len(a) + 1 /\ (\A i \in 1..Len(a) : e[i] = a[i]) /\ e[Len(a) + 1] = x
      <4>1. /\ Append(a, x) \in Seq(S) /\ Len(Append(a, x)) = Len(a) + 1
            /\ \A i \in 1..Len(a) : Append(a, x)[i] = a[i]
            /\ Append(a, x)[Len(a) + 1] = x
        BY ONLY <3>0, AppendProperties
      <4> QED BY ONLY <4>1 DEF e, x
    <3>2. Len(a) + 1 = m - k + 2
      BY <1>1
    <3>3. e \in Seq(S)
      BY ONLY <3>0 DEF e, x
    <3> HIDE DEF e
    <3> QED BY <1>1, <3>1, <3>2, <3>3 DEF x
  <2>4. ASSUME NEW i \in 1..(m - k + 2) PROVE b[i] = e[i]
    <3>1. CASE i = m - k + 2
      <4>1. k + i - 1 = m + 1
        BY <3>1
      <4> HIDE DEF b, e
      <4> QED BY <2>2, <2>3, <3>1, <4>1
    <3>2. CASE i # m - k + 2
      <4>1. i \in 1..(m - k + 1)
        BY <3>2
      <4> HIDE DEF b, e
      <4> QED BY <1>1, <2>2, <2>3, <4>1
    <3> QED BY <3>1, <3>2
  <2> HIDE DEF b, e
  <2>5. b = e
    <3>1. b = [i \in 1..(m - k + 2) |-> b[i]] /\ e = [i \in 1..(m - k + 2) |-> e[i]]
      BY <2>2, <2>3
    <3> QED BY <2>4, <3>1
  <2> QED BY <2>5 DEF b, e
<1> QED BY <1>1, <1>2, <1>3 DEF a
===============================================================================
