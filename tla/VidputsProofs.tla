---------------------------- MODULE VidputsProofs ----------------------------
(* What the library knows of the terminal's attributes and colours is so, for *)
(* every terminal that can end what it begins and every choice of colours.   *)
EXTENDS Vidputs, TLAPS

Terms == [on : SUBSET Attributes, colors : [1..2 -> Int]]
Knowns == [t : Terms, on : SUBSET Attributes, pair : Pairs]

(* What is assumed of the terminal and of the application's colours.         *)
Chosen == device \in Devices /\ setting \in Settings /\ Trusted

LEMMA DeviceFacts ==
    ASSUME Chosen
    PROVE  /\ device.can \subseteq Attributes
           /\ device.exits \subseteq {"standout", "underline", "italic", "altcharset"} \cap device.can
           /\ {"italic", "altcharset"} \cap device.can \subseteq device.exits
           /\ device.sgr => device.sgr0
           /\ ~device.sgr0 => device.can \subseteq device.exits
           /\ device.ncv \subseteq TPARM_ATTR
BY DeviceAssumption DEF Chosen, Capabilities

LEMMA SettingFacts ==
    ASSUME Chosen
    PROVE  /\ fix_pair0 \in BOOLEAN
           /\ \A p \in Pairs : Content(p) \in [1..2 -> Int]
           /\ fix_pair0 => \A i \in 1..2 : Content(0)[i] # Default
           /\ ~fix_pair0 => Content(0) = Original /\ device.resets /\ "reverse" \notin device.ncv
           /\ Original \in [1..2 -> Int] /\ 0 \in Pairs
<1>1. /\ setting.fixed \in BOOLEAN /\ setting.pairs \in [Pairs -> Int \X Int]
      /\ IF setting.fixed THEN \A i \in 1..2 : setting.pairs[0][i] # Default
         ELSE setting.pairs[0] = Original
  BY SettingAssumption DEF Chosen
<1>2. \A p \in Pairs : setting.pairs[p] \in [1..2 -> Int]
  <2>1. \A c \in Int \X Int : c \in [1..2 -> Int]
    OBVIOUS
  <2> QED BY <1>1, <2>1
<1>3. Original \in [1..2 -> Int] /\ 0 \in Pairs
  BY DEF Original, Default, Pairs
<1> QED BY <1>1, <1>2, <1>3 DEF fix_pair0, Content, Chosen, Trusted

-----------------------------------------------------------------------------
(* Colours.                                                                  *)

(* The colours of pair p, exchanged or not.                                  *)
Target(p, reverse) ==
    IF reverse THEN Exchanged(Assumed(Content(p))) ELSE Assumed(Content(p))

LEMMA TargetFacts ==
    ASSUME Chosen, NEW p \in Pairs, NEW reverse \in BOOLEAN
    PROVE  /\ Target(p, reverse) \in [1..2 -> Int]
           /\ ~fix_pair0 => Target(p, FALSE) = Content(p)
<1>1. Content(p) \in [1..2 -> Int] /\ Content(0) \in [1..2 -> Int]
  BY SettingFacts
<1>2. Assumed(Content(p)) \in [1..2 -> Int]
  BY <1>1 DEF Assumed
<1>3. \A c \in [1..2 -> Int] : Exchanged(c) \in [1..2 -> Int]
  BY DEF Exchanged
<1>4. ASSUME ~fix_pair0 PROVE Assumed(Content(p)) = Content(p)
  <2>1. \A i \in 1..2 : Content(0)[i] = Default
    BY <1>4, SettingFacts DEF Original
  <2>2. \A i \in 1..2 : Assumed(Content(p))[i] = Content(p)[i]
    BY <2>1 DEF Assumed
  <2> QED BY <1>1, <1>2, <2>2
<1> QED BY <1>2, <1>3, <1>4 DEF Target

(* _nc_do_color() leads to the colours asked for from those it is told of, or *)
(* from any if all are set.                                                  *)
LEMMA DoColor ==
    ASSUME Chosen, NEW t \in Terms, NEW p \in Pairs, NEW q \in Pairs, NEW reverse \in BOOLEAN,
           fix_pair0 \/ (t.colors = Content(p) /\ ~reverse)
    PROVE  do_color(t, p, q, reverse) = [t EXCEPT !.colors = Target(q, reverse)]
<1> DEFINE c == IF q = 0 THEN Original ELSE Content(q)
           r == Reset(t, Content(p), c)
           s == IF reverse THEN Exchanged(Assumed(c)) ELSE Assumed(c)
<1>1. /\ Content(0) \in [1..2 -> Int] /\ Content(p) \in [1..2 -> Int] /\ c \in [1..2 -> Int]
      /\ t.colors \in [1..2 -> Int] /\ Target(q, reverse) \in [1..2 -> Int]
  BY SettingFacts, TargetFacts DEF Terms
<1>2. do_color(t, p, q, reverse) = [r EXCEPT !.colors = [i \in 1..2 |-> IF s[i] = Default THEN @[i] ELSE s[i]]]
  BY DEF do_color, SetColors
<1>3. r.on = t.on /\ r.colors \in [1..2 -> Int] /\ r \in Terms
  BY <1>1 DEF Reset, Terms, Original, Default
<1>4. s = Target(q, reverse)
  <2>1. Assumed(c) = Assumed(Content(q))
    <3>1. CASE q # 0
      BY <3>1
    <3>2. CASE q = 0
      <4>1. \A i \in 1..2 : c[i] = Default
        BY <3>2 DEF Original
      <4>2. \A i \in 1..2 : Assumed(c)[i] = Content(0)[i]
        BY <4>1 DEF Assumed
      <4>3. \A i \in 1..2 : Assumed(Content(0))[i] = Content(0)[i]
        BY DEF Assumed
      <4>4. Assumed(c) = [i \in 1..2 |-> Assumed(c)[i]] /\ Assumed(Content(0)) = [i \in 1..2 |-> Assumed(Content(0))[i]]
        BY DEF Assumed
      <4> QED BY <3>2, <4>2, <4>3, <4>4
    <3> QED BY <3>1, <3>2
  <2> QED BY <2>1 DEF Target
<1> HIDE DEF r, s
<1>5. [i \in 1..2 |-> IF s[i] = Default THEN r.colors[i] ELSE s[i]] = s
  <2> SUFFICES ASSUME NEW i \in 1..2, s[i] = Default PROVE r.colors[i] = Default
    BY <1>1, <1>4
  <2>1. CASE fix_pair0
    <3>1. \A j \in 1..2 : Content(0)[j] # Default
      BY <2>1, SettingFacts
    <3>2. \A j \in 1..2 : Assumed(Content(q))[j] # Default
      BY <3>1 DEF Assumed
    <3>3. \A j \in 1..2 : s[j] # Default
      BY <1>4, <3>2 DEF Target, Exchanged
    <3> QED BY <3>3
  <2>2. CASE ~fix_pair0
    <3>1. t.colors = Content(p) /\ reverse = FALSE /\ s = Content(q)
      BY <1>4, <2>2, TargetFacts
    <3>2. c[i] = Default
      <4>1. q = 0 => c[i] = Default
        BY DEF Original
      <4> QED BY <3>1, <4>1
    <3> QED BY <1>1, <3>1, <3>2 DEF r, Reset, Terms, Original
  <2> QED BY <2>1, <2>2
<1> QED BY <1>2, <1>3, <1>4, <1>5 DEF Terms

-----------------------------------------------------------------------------
(* Each part of vidputs().                                                   *)

(* The colours of k are such that Coloured() leads to those of pair q.       *)
Ready(k, q) ==
    IF fix_pair0
    THEN k.pair = q /\ q # 0 => k.t.colors = Target(q, "reverse" \in k.on \cap device.ncv)
    ELSE k.t.colors = Content(IF q = 0 THEN 0 ELSE k.pair)

LEMMA ColouredRight ==
    ASSUME Chosen, NEW k \in Knowns, NEW q \in Pairs, NEW reverse \in BOOLEAN, Ready(k, q),
           reverse => fix_pair0 /\ "reverse" \in device.ncv
    PROVE  Coloured(k, q, reverse) = [k EXCEPT !.t.colors = Target(q, reverse)]
<1> DEFINE sets == /\ q # 0 \/ fix_pair0
                   /\ q # k.pair \/ (fix_pair0 /\ q = 0) \/ Xor(reverse, "reverse" \in k.on)
<1>1. Coloured(k, q, reverse) = IF sets THEN [k EXCEPT !.t = do_color(k.t, k.pair, q, reverse)] ELSE k
  BY DEF Coloured, SetColorsIf
<1>2. k.t \in Terms /\ k.pair \in Pairs
  BY DEF Knowns
<1>3. CASE sets
  <2>1. fix_pair0 \/ (k.t.colors = Content(k.pair) /\ ~reverse)
    BY <1>3 DEF Ready
  <2>2. do_color(k.t, k.pair, q, reverse) = [k.t EXCEPT !.colors = Target(q, reverse)]
    BY <1>2, <2>1, DoColor
  <2> QED BY <1>1, <1>3, <2>2
<1>4. CASE ~sets
  <2>1. k.t.colors = Target(q, reverse)
    <3>1. CASE fix_pair0
      <4>1. q # 0 /\ k.pair = q /\ reverse = ("reverse" \in k.on)
        BY <1>4, <3>1 DEF Xor
      <4>2. reverse <=> "reverse" \in k.on \cap device.ncv
        BY <4>1
      <4>3. k.t.colors = Target(q, "reverse" \in k.on \cap device.ncv)
        BY <3>1, <4>1 DEF Ready
      <4> QED BY <4>2, <4>3 DEF Target
    <3>2. CASE ~fix_pair0
      <4>1. reverse = FALSE /\ q = (IF q = 0 THEN 0 ELSE k.pair)
        BY <1>4, <3>2
      <4> QED BY <3>2, <4>1, TargetFacts DEF Ready
    <3> QED BY <3>1, <3>2
  <2>2. [k.t EXCEPT !.colors = k.t.colors] = k.t /\ [k EXCEPT !.t = k.t] = k
    BY <1>2 DEF Knowns, Terms
  <2>3. [k EXCEPT !.t.colors = Target(q, reverse)] = [k EXCEPT !.t = [k.t EXCEPT !.colors = Target(q, reverse)]]
    OBVIOUS
  <2> QED BY <1>1, <1>4, <2>1, <2>2, <2>3
<1> QED BY <1>3, <1>4

(* The attributes of the terminal are those k knows of, as far as it has      *)
(* them, but perhaps for reverse video when that has to end.                 *)
Lit(k, wanted) ==
    /\ k.t.on \subseteq k.on \cap device.can
    /\ \A a \in (k.on \cap device.can) \ k.t.on : a = "reverse" /\ a \notin wanted

LEMMA ForgottenFields ==
    ASSUME NEW k \in Knowns, NEW t
    PROVE  Forgotten([k EXCEPT !.t = t]) = [t |-> t, on |-> k.on, pair |-> 0]
<1> DEFINE e == [k EXCEPT !.t = t]
<1>1. e = [t |-> t, on |-> k.on, pair |-> k.pair]
  BY DEF Knowns
<1> HIDE DEF e
<1>2. [e EXCEPT !.pair = 0] = [t |-> t, on |-> k.on, pair |-> 0]
  BY <1>1
<1> QED BY <1>2 DEF Forgotten, e

Exit(k, t) == Forgotten([k EXCEPT !.t = EndAll(t)])

LEMMA Exited ==
    ASSUME Chosen, NEW k \in Knowns, NEW q \in Pairs, Ready(k, q), device.sgr0,
           NEW t \in Terms, t.colors = k.t.colors
    PROVE  /\ Exit(k, t) \in Knowns /\ Exit(k, t).on = k.on /\ Ready(Exit(k, t), q)
           /\ Exit(k, t) = [t |-> EndAll(t), on |-> k.on, pair |-> 0]
           /\ EndAll(t).on = IF device.resetsAcs THEN {} ELSE t.on \cap {"altcharset"}
<1> DEFINE f == Exit(k, t)
<1>1. /\ f.t = EndAll(t) /\ f.on = k.on /\ f.pair = 0
      /\ f = [t |-> EndAll(t), on |-> k.on, pair |-> 0]
  BY ForgottenFields DEF Exit
<1> HIDE DEF f
<1>2. EndAll(t).colors \in [1..2 -> Int] /\ EndAll(t).on \subseteq Attributes
  BY SettingFacts DEF EndAll, Terms
<1>3. EndAll(t) \in Terms
  BY <1>2 DEF EndAll, Terms
<1>4. f \in Knowns
  BY <1>1, <1>3, SettingFacts DEF Knowns
<1>5. Ready(f, q)
  <2>1. CASE fix_pair0
    BY <1>1, <2>1 DEF Ready
  <2>2. CASE ~fix_pair0
    <3>1. f.t.colors = Original /\ Content(0) = Original
      BY <1>1, <2>2, SettingFacts DEF EndAll
    <3> QED BY <1>1, <2>2, <3>1 DEF Ready
  <2> QED BY <2>1, <2>2
<1> QED BY <1>1, <1>4, <1>5 DEF EndAll, f

(* Ending or beginning attributes by themselves leaves the colours alone.    *)
LEMMA Toggled ==
    ASSUME Chosen, NEW t \in Terms, NEW S \in SUBSET Attributes
    PROVE  /\ Begin(t, S) \in Terms /\ Begin(t, S).colors = t.colors
           /\ Begin(t, S).on = t.on \cup (S \cap device.can)
           /\ End(t, S) \in Terms /\ End(t, S).colors = t.colors /\ End(t, S).on = t.on \ S
BY DeviceFacts DEF Begin, End, Terms

LEMMA ToNormalRight ==
    ASSUME Chosen, NEW k \in Knowns, Lit(k, {}), Ready(k, 0), NEW reverse \in BOOLEAN,
           reverse => fix_pair0 /\ "reverse" \in device.ncv
    PROVE  ToNormal(k, 0, reverse).t = [on |-> {}, colors |-> Target(0, reverse)]
<1> DEFINE acs == "altcharset" \in k.on /\ "altcharset" \in device.exits
           ended == [k EXCEPT !.t = End(k.t, {"altcharset"}), !.on = k.on \ {"altcharset"}]
           e == IF acs THEN ended ELSE k
           x == ExitAll(e)
<1>1. k.t \in Terms /\ k.on \subseteq Attributes /\ k.pair \in Pairs
  BY DEF Knowns
<1>2. /\ End(k.t, {"altcharset"}) \in Terms /\ End(k.t, {"altcharset"}).colors = k.t.colors
      /\ End(k.t, {"altcharset"}).on = k.t.on \ {"altcharset"}
  BY <1>1, Toggled DEF Attributes
<1>3. e \in Knowns /\ e.t.colors = k.t.colors /\ e.pair = k.pair /\ e.on \subseteq k.on
  BY <1>1, <1>2 DEF Knowns
<1>4. /\ e.t.on \subseteq e.on \cap device.can /\ "altcharset" \notin e.t.on
  <2>1. CASE acs
    BY <1>2, <2>1 DEF Lit, Knowns
  <2>2. CASE ~acs
    BY <2>2, DeviceFacts DEF Lit
  <2> QED BY <2>1, <2>2
<1>5. Ready(e, 0)
  BY <1>3 DEF Ready
<1>6. ToNormal(k, 0, reverse) = Coloured(x, 0, reverse)
  BY DEF ToNormal
<1> HIDE DEF e
<1>7. x \in Knowns /\ Ready(x, 0) /\ x.t.on = {}
  <2>1. CASE e.on = {} /\ e.pair = 0
    <3>1. x = e
      BY <2>1 DEF ExitAll
    <3> QED BY <1>3, <1>4, <1>5, <2>1, <3>1
  <2>2. CASE ~(e.on = {} /\ e.pair = 0) /\ device.sgr0
    <3>1. x = Exit(e, e.t) /\ e.t \in Terms
      BY <1>3, <2>2 DEF ExitAll, Knowns, Exit
    <3> HIDE DEF x
    <3>2. /\ x \in Knowns /\ Ready(x, 0)
          /\ x.t.on = IF device.resetsAcs THEN {} ELSE e.t.on \cap {"altcharset"}
      BY <1>3, <1>5, <2>2, <3>1, Exited, SettingFacts
    <3> QED BY <1>4, <3>2
  <2>3. CASE ~(e.on = {} /\ e.pair = 0) /\ ~device.sgr0
    <3> DEFINE t == End(e.t, (e.on \cap device.exits) \ {"altcharset"})
    <3>1. x = Forgotten([e EXCEPT !.t = t])
      BY <2>3 DEF ExitAll
    <3>2. e.t \in Terms /\ (e.on \cap device.exits) \ {"altcharset"} \in SUBSET Attributes
      BY <1>3 DEF Knowns
    <3>3. t \in Terms /\ t.colors = e.t.colors /\ t.on = e.t.on \ ((e.on \cap device.exits) \ {"altcharset"})
      BY <3>2, Toggled
    <3>4. t.on = {}
      BY <1>4, <2>3, <3>3, DeviceFacts
    <3> HIDE DEF t
    <3>5. x = [t |-> t, on |-> e.on, pair |-> 0]
      BY <1>3, <3>1, ForgottenFields
    <3>6. x \in Knowns
      BY <1>3, <3>3, <3>5, SettingFacts DEF Knowns
    <3>7. Ready(x, 0)
      BY <1>5, <3>3, <3>5 DEF Ready
    <3> QED BY <3>4, <3>5, <3>6, <3>7
  <2> QED BY <2>1, <2>2, <2>3
<1> HIDE DEF x
<1>8. Coloured(x, 0, reverse) = [x EXCEPT !.t.colors = Target(0, reverse)]
  BY <1>7, ColouredRight, SettingFacts
<1> QED BY <1>6, <1>7, <1>8 DEF Knowns, Terms

LEMMA BySetRight ==
    ASSUME Chosen, NEW k \in Knowns, NEW q \in Pairs, NEW wanted \in SUBSET Attributes,
           Lit(k, wanted), Ready(k, q), NEW reverse \in BOOLEAN,
           reverse => fix_pair0 /\ "reverse" \in device.ncv, device.sgr
    PROVE  LET off == k.on \ wanted
               on == wanted \ (k.on \cap TPARM_ATTR)
           IN BySet(k, wanted, q, off, on, reverse).t =
                 [on |-> wanted \cap device.can, colors |-> Target(q, reverse)]
<1> DEFINE off == k.on \ wanted
           on == wanted \ (k.on \cap TPARM_ATTR)
           t == SetAttributes(k.t, wanted)
           sent == IF on \cup off = {} THEN k ELSE Forgotten([k EXCEPT !.t = t])
           i == Italicized(sent.t, off, on)
           y == [sent EXCEPT !.t = i]
<1>1. k.t \in Terms /\ k.on \subseteq Attributes /\ k.pair \in Pairs
  BY DEF Knowns
<1>2. BySet(k, wanted, q, off, on, reverse) = Coloured(y, q, reverse)
  BY DEF BySet
<1>3. /\ i \in Terms /\ i.colors = sent.t.colors /\ i.on = wanted \cap device.can
      /\ sent \in Knowns /\ sent.on = k.on /\ Ready(sent, q)
  <2>1. CASE on \cup off = {}
    <3>1. sent = k /\ k.on = wanted /\ wanted \subseteq TPARM_ATTR
      BY <2>1
    <3>2. i = k.t
      BY <2>1, <3>1 DEF Italicized
    <3>3. k.t.on = wanted \cap device.can
      BY <3>1 DEF Lit
    <3> QED BY <1>1, <3>1, <3>2, <3>3
  <2>2. CASE on \cup off # {}
    <3> DEFINE f == Exit(k, k.t)
               z == [EndAll(k.t) EXCEPT !.on = {}]
    <3>1. /\ f \in Knowns /\ f.on = k.on /\ Ready(f, q)
      BY <1>1, DeviceFacts, Exited
    <3>2. f = [t |-> EndAll(k.t), on |-> k.on, pair |-> 0] /\ EndAll(k.t) \in Terms
      <4>1. f = [t |-> EndAll(k.t), on |-> k.on, pair |-> 0]
        BY <1>1, DeviceFacts, Exited
      <4> QED BY <3>1, <4>1 DEF Knowns
    <3>3. z \in Terms /\ z.colors = EndAll(k.t).colors /\ z.on = {}
      BY <3>2 DEF Terms
    <3>4. t \in Terms /\ t.colors = z.colors /\ t.on = wanted \cap TPARM_ATTR \cap device.can
      <4>1. t = Begin(z, wanted \cap TPARM_ATTR)
        BY DEF SetAttributes
      <4> HIDE DEF z, t
      <4> QED BY <3>3, <4>1, Toggled
    <3>5. sent = [t |-> t, on |-> k.on, pair |-> 0]
      BY <2>2, ForgottenFields
    <3> HIDE DEF t, z, f
    <3>6. sent \in Knowns
      BY <1>1, <3>4, <3>5, SettingFacts DEF Knowns
    <3>7. Ready(sent, q)
      BY <3>1, <3>2, <3>3, <3>4, <3>5 DEF Ready
    <3>8. i \in Terms /\ i.colors = t.colors /\ i.on = wanted \cap device.can
      <4>1. sent.t = t /\ {"italic"} \in SUBSET Attributes
        BY <3>5 DEF Attributes
      <4>2. /\ Begin(t, {"italic"}) \in Terms /\ Begin(t, {"italic"}).colors = t.colors
            /\ Begin(t, {"italic"}).on = t.on \cup ({"italic"} \cap device.can)
            /\ End(t, {"italic"}) \in Terms /\ End(t, {"italic"}).colors = t.colors
            /\ End(t, {"italic"}).on = t.on \ {"italic"}
        BY <3>4, <4>1, Toggled
      <4>3. i = IF "italic" \notin device.exits THEN t
                ELSE IF "italic" \in wanted THEN Begin(t, {"italic"})
                ELSE IF "italic" \in off THEN End(t, {"italic"}) ELSE t
        BY <4>1 DEF Italicized, TPARM_ATTR
      <4>4. device.can \subseteq Attributes /\ Attributes = TPARM_ATTR \cup {"italic"} /\ "italic" \notin TPARM_ATTR
        BY DeviceFacts DEF TPARM_ATTR, Attributes
      <4>5. "italic" \in device.can <=> "italic" \in device.exits
        BY DeviceFacts
      <4> HIDE DEF i, off, on
      <4> QED BY <3>4, <4>2, <4>3, <4>4, <4>5
    <3> HIDE DEF i, sent, off, on
    <3> QED BY <3>5, <3>6, <3>7, <3>8
  <2> HIDE DEF off, on, sent, i
  <2> QED BY <2>1, <2>2
<1> HIDE DEF sent, i
<1>4. y = [t |-> i, on |-> k.on, pair |-> sent.pair] /\ y \in Knowns
  BY <1>3 DEF Knowns
<1>5. Ready(y, q)
  BY <1>3, <1>4 DEF Ready
<1> HIDE DEF y
<1>6. Coloured(y, q, reverse) = [y EXCEPT !.t.colors = Target(q, reverse)]
  BY <1>4, <1>5, ColouredRight
<1>7. Coloured(y, q, reverse).t = [on |-> wanted \cap device.can, colors |-> Target(q, reverse)]
  <2>1. Coloured(y, q, reverse).t = [on |-> y.t.on, colors |-> Target(q, reverse)]
    BY <1>4, <1>6 DEF Knowns, Terms
  <2>2. y.t.on = wanted \cap device.can
    BY <1>3, <1>4
  <2> QED BY <2>1, <2>2
<1> QED BY <1>2, <1>7

LEMMA OneByOneRight ==
    ASSUME Chosen, NEW k \in Knowns, NEW q \in Pairs, NEW wanted \in SUBSET Attributes,
           Lit(k, wanted), Ready(k, q), NEW reverse \in BOOLEAN,
           reverse => fix_pair0 /\ "reverse" \in device.ncv
    PROVE  LET off == k.on \ wanted
               on == wanted \ (k.on \cap TPARM_ATTR)
           IN OneByOne(k, wanted, q, off, on, reverse).t =
                 [on |-> wanted \cap device.can, colors |-> Target(q, reverse)]
<1> DEFINE off == k.on \ wanted
           on == wanted \ (k.on \cap TPARM_ATTR)
           all == off \ device.exits # {} /\ device.sgr0
           t == End(k.t, off \cap device.exits)
           ended == [k EXCEPT !.t = t]
           x == IF all THEN Forgotten([ended EXCEPT !.t = EndAll(t)]) ELSE ended
           y == Coloured(x, q, reverse)
           more == IF all THEN on \cup wanted ELSE on
<1>1. k.t \in Terms /\ k.on \subseteq Attributes /\ k.pair \in Pairs
  BY DEF Knowns
<1>2. t \in Terms /\ t.colors = k.t.colors /\ t.on = k.t.on \ (off \cap device.exits)
  BY <1>1, Toggled
<1>3. ended = [t |-> t, on |-> k.on, pair |-> k.pair]
  BY DEF Knowns
<1>4. OneByOne(k, wanted, q, off, on, reverse) = [y EXCEPT !.t = Begin(y.t, more)]
  <2>1. ended.t = t
    BY <1>3
  <2> HIDE DEF t, ended
  <2> QED BY <2>1 DEF OneByOne, t, ended
<1> HIDE DEF t, ended
<1>5. ended \in Knowns /\ Ready(ended, q)
  <2>1. ended \in Knowns
    BY <1>1, <1>2, <1>3 DEF Knowns
  <2> QED BY <1>2, <1>3, <2>1 DEF Ready
<1>6. x \in Knowns /\ Ready(x, q) /\ x.t.on \cup (more \cap device.can) = wanted \cap device.can
  <2>1. CASE all
    <3>1. x = Exit(ended, t)
      BY <2>1 DEF Exit
    <3>2. /\ x \in Knowns /\ Ready(x, q) /\ x.t = EndAll(t)
          /\ EndAll(t).on = IF device.resetsAcs THEN {} ELSE t.on \cap {"altcharset"}
      BY <1>2, <1>3, <1>5, <2>1, <3>1, Exited
    <3>3. t.on \cap {"altcharset"} \subseteq wanted \cap device.can
      BY <1>2, DeviceFacts DEF Lit
    <3>4. x.t.on \subseteq wanted \cap device.can
      BY <3>2, <3>3
    <3>5. more = wanted
      BY <2>1
    <3> HIDE DEF x, more
    <3> QED BY <3>2, <3>4, <3>5
  <2>2. CASE ~all
    <3>1. x = ended /\ x.t = t /\ more = on
      BY <1>3, <2>2
    <3>2. \A a \in device.can : a \in off => a \in device.exits
      BY <2>2, DeviceFacts
    <3>3. \A a : a \in t.on => a \in wanted \cap device.can
      BY <1>2, <3>2 DEF Lit
    <3>4. \A a \in wanted \cap device.can : a \in t.on \/ a \in on
      <4>1. ASSUME NEW a \in wanted \cap device.can, a \in k.on PROVE a \in t.on
        <5>1. a \in k.t.on
          BY <4>1 DEF Lit
        <5> QED BY <1>2, <5>1
      <4> QED BY <4>1
    <3>5. t.on \cup (on \cap device.can) = wanted \cap device.can
      <4>1. on \subseteq wanted
        OBVIOUS
      <4> HIDE DEF on
      <4> QED BY <3>3, <3>4, <4>1
    <3> QED BY <1>5, <3>1, <3>5
  <2> HIDE DEF all, x, more
  <2> QED BY <2>1, <2>2
<1>7. more \in SUBSET Attributes
  BY DEF Attributes
<1> HIDE DEF x, more, y
<1>8. y = [x EXCEPT !.t.colors = Target(q, reverse)]
  BY <1>6, ColouredRight DEF y
<1>9. y.t = [on |-> x.t.on, colors |-> Target(q, reverse)] /\ y.t \in Terms
  BY <1>6, <1>8, TargetFacts DEF Knowns, Terms
<1>10. Begin(y.t, more) = [on |-> wanted \cap device.can, colors |-> Target(q, reverse)]
  <2>1. /\ Begin(y.t, more) \in Terms /\ Begin(y.t, more).colors = Target(q, reverse)
        /\ Begin(y.t, more).on = x.t.on \cup (more \cap device.can)
    BY <1>7, <1>9, Toggled
  <2> QED BY <1>6, <2>1 DEF Terms
<1>11. [y EXCEPT !.t = Begin(y.t, more)].t = Begin(y.t, more)
  <2>1. "t" \in DOMAIN y
    BY <1>6, <1>8 DEF Knowns
  <2> QED BY <2>1
<1> QED BY <1>4, <1>10, <1>11

-----------------------------------------------------------------------------
(* vidputs() as a whole.                                                     *)

LEMMA ChangedRight ==
    ASSUME Chosen, NEW on \in SUBSET Attributes, NEW from \in Pairs,
           NEW wanted \in SUBSET Attributes, NEW q \in Pairs, NEW reverse \in BOOLEAN,
           reverse => "reverse" \in Masked(wanted, q), "reverse" \in Masked(wanted, q) => "reverse" \notin wanted
    PROVE  Changed(Known(Rendition(on, from), on, from), wanted, q, reverse).t =
              [on |-> wanted \cap device.can, colors |-> Target(q, reverse)]
<1> DEFINE k == Known(Rendition(on, from), on, from)
           first == SetColorsIf(q = 0 /\ ~fix_pair0, k, q, reverse)
           off == first.on \ wanted
           new == wanted \ (first.on \cap TPARM_ATTR)
           exchange == "reverse" \in on \cap Masked(on, from)
<1>1. reverse => fix_pair0 /\ "reverse" \in device.ncv
  BY SettingFacts DEF Masked
<1>2. /\ k.t.on = (IF exchange THEN on \ {"reverse"} ELSE on) \cap device.can
      /\ k.t.colors = Target(from, exchange) /\ k.on = on /\ k.pair = from
      /\ k = [t |-> Rendition(on, from), on |-> on, pair |-> from]
  BY DEF Known, Rendition, Target
<1>3. Rendition(on, from) \in Terms /\ k \in Knowns
  <2>1. Target(from, exchange) \in [1..2 -> Int]
    <3>1. exchange \in BOOLEAN
      OBVIOUS
    <3> HIDE DEF exchange
    <3> QED BY <3>1, TargetFacts
  <2>2. Rendition(on, from) = [on |-> (IF exchange THEN on \ {"reverse"} ELSE on) \cap device.can,
                               colors |-> Target(from, exchange)]
    BY DEF Rendition, Target
  <2>3. Rendition(on, from) \in Terms
    BY <2>1, <2>2 DEF Terms
  <2> QED BY <1>2, <2>3 DEF Knowns
<1> HIDE DEF k
<1>4. /\ first \in Knowns /\ first.on = on /\ first.t.on = k.t.on /\ Ready(first, q)
  <2>1. CASE fix_pair0
    <3>1. first = k
      BY <2>1 DEF SetColorsIf
    <3>2. exchange <=> "reverse" \in on \cap device.ncv
      BY <2>1 DEF Masked
    <3>3. from # 0 => k.t.colors = Target(from, "reverse" \in k.on \cap device.ncv)
      BY <1>2, <3>2 DEF Target
    <3>4. Ready(k, q)
      BY <1>2, <2>1, <3>3 DEF Ready
    <3> HIDE DEF first
    <3> QED BY <1>2, <1>3, <3>1, <3>4
  <2>2. CASE ~fix_pair0
    <3>1. k.t.colors = Content(from) /\ ~reverse
      <4>1. ~exchange
        BY <2>2, SettingFacts DEF Masked
      <4> QED BY <1>1, <1>2, <2>2, <4>1, TargetFacts DEF Target
    <3>2. CASE q # 0
      <4>1. first = k
        BY <3>2 DEF SetColorsIf
      <4> HIDE DEF first
      <4> QED BY <1>2, <1>3, <2>2, <3>1, <3>2, <4>1 DEF Ready
    <3>3. CASE q = 0
      <4>1. CASE first = k /\ from = 0
        <5> HIDE DEF first
        <5> QED BY <1>2, <1>3, <2>2, <3>1, <3>3, <4>1 DEF Ready
      <4>2. CASE first = [k EXCEPT !.t = do_color(k.t, from, q, reverse)]
        <5>1. do_color(k.t, from, q, reverse) = [k.t EXCEPT !.colors = Target(q, reverse)]
          BY <1>2, <1>3, <3>1, DoColor
        <5>2. Target(q, reverse) = Content(0)
          BY <2>2, <3>1, <3>3, TargetFacts DEF Target
        <5> DEFINE c == do_color(k.t, from, q, reverse)
        <5>3. c \in Terms /\ c.on = k.t.on /\ c.colors = Content(0)
          BY <1>2, <1>3, <5>1, <5>2, SettingFacts DEF Terms
        <5> HIDE DEF first, c
        <5>4. first = [t |-> c, on |-> on, pair |-> from]
          BY <1>2, <4>2 DEF c
        <5>5. first \in Knowns
          BY <5>3, <5>4 DEF Knowns
        <5> QED BY <2>2, <3>3, <5>3, <5>4, <5>5 DEF Ready
      <4>3. (first = k /\ from = 0) \/ first = [k EXCEPT !.t = do_color(k.t, from, q, reverse)]
        BY <1>2, <2>2, <3>3 DEF SetColorsIf
      <4> QED BY <4>1, <4>2, <4>3
    <3> QED BY <3>2, <3>3
  <2> QED BY <2>1, <2>2
<1>5. Lit(first, wanted)
  <2>1. exchange => "reverse" \notin wanted
    BY SettingFacts DEF Masked
  <2> QED BY <1>2, <1>4, <2>1 DEF Lit
<1>6. Changed(k, wanted, q, reverse) =
        IF wanted = {} /\ q = 0 THEN ToNormal(first, q, reverse)
        ELSE IF device.sgr THEN BySet(first, wanted, q, off, new, reverse)
        ELSE OneByOne(first, wanted, q, off, new, reverse)
  <2>1. first.on = k.on
    BY <1>2, <1>4
  <2> HIDE DEF first
  <2> QED BY <2>1 DEF Changed, first
<1> HIDE DEF first
<1>7. CASE wanted = {} /\ q = 0
  BY <1>1, <1>4, <1>5, <1>6, <1>7, ToNormalRight DEF k
<1>8. CASE ~(wanted = {} /\ q = 0) /\ device.sgr
  BY <1>1, <1>4, <1>5, <1>6, <1>8, BySetRight DEF k
<1>9. CASE ~(wanted = {} /\ q = 0) /\ ~device.sgr
  BY <1>1, <1>4, <1>5, <1>6, <1>9, OneByOneRight DEF k
<1> QED BY <1>7, <1>8, <1>9

(* The terminal writes with the attributes and the pair k knows of, and they  *)
(* are among those wanted.                                                   *)
Writes(k, new, p) == k.on \in SUBSET new /\ k.pair = p /\ k.t = Rendition(k.on, p)

(* From any attributes and colours to any others.                            *)
LEMMA VidputsRight ==
    ASSUME Chosen, NEW on \in SUBSET Attributes, NEW from \in Pairs,
           NEW new \in SUBSET Attributes, NEW q \in Pairs
    PROVE  Writes(vidputs(Rendition(on, from), on, from, new, q), new, q)
<1> DEFINE reverse == "reverse" \in new \cap Masked(new, q)
           wanted == new \ Masked(new, q)
           kept == wanted \cup (IF reverse THEN {"reverse"} ELSE {})
           k == vidputs(Rendition(on, from), on, from, new, q)
<1>1. kept \in SUBSET new /\ kept \in SUBSET Attributes /\ wanted \in SUBSET Attributes /\ reverse \in BOOLEAN
  OBVIOUS
<1>2. CASE kept = on /\ q = from
  <2>1. k = Known(Rendition(on, from), on, from)
    BY <1>2 DEF vidputs
  <2> HIDE DEF k, kept
  <2>2. k.on = on /\ k.pair = q /\ k.t = Rendition(on, q) /\ on \in SUBSET new
    BY <1>1, <1>2, <2>1 DEF Known
  <2>3. Writes(k, new, q)
    BY <2>2 DEF Writes
  <2> QED BY <2>3 DEF k
<1>3. CASE ~(kept = on /\ q = from)
  <2>1. k = Known(Changed(Known(Rendition(on, from), on, from), wanted, q, reverse).t, kept, q)
    BY <1>3 DEF vidputs
  <2>2. /\ reverse => "reverse" \in Masked(wanted, q)
        /\ "reverse" \in Masked(wanted, q) => "reverse" \notin wanted
    BY DEF Masked
  <2>3. Rendition(kept, q) = [on |-> wanted \cap device.can, colors |-> Target(q, reverse)]
    <3>1. "reverse" \in kept \cap Masked(kept, q) <=> reverse
      BY DEF Masked
    <3>2. (IF reverse THEN kept \ {"reverse"} ELSE kept) = wanted
      BY <2>2 DEF Masked
    <3> HIDE DEF kept, wanted, reverse
    <3> QED BY <3>1, <3>2 DEF Rendition, Target
  <2> HIDE DEF kept, wanted, reverse
  <2>4. Changed(Known(Rendition(on, from), on, from), wanted, q, reverse).t =
           [on |-> wanted \cap device.can, colors |-> Target(q, reverse)]
    BY <1>1, <2>2, ChangedRight
  <2>5. k = [t |-> Rendition(kept, q), on |-> kept, pair |-> q]
    BY <2>1, <2>3, <2>4 DEF Known
  <2> HIDE DEF k
  <2>6. k.on \in SUBSET new /\ k.pair = q /\ k.t = Rendition(k.on, q)
    BY <1>1, <2>5
  <2> QED BY <2>6 DEF k, Writes
<1> QED BY <1>2, <1>3 DEF Writes

(* Without attributes, and with colours that are known or about to be set,   *)
(* the terminal is cleared with those asked for.                             *)
LEMMA ClearedRight ==
    ASSUME Chosen, NEW t \in Terms, t.on = {}, fix_pair0 \/ t.colors = Original,
           NEW new \in SUBSET Attributes, NEW p \in Pairs
    PROVE  Writes(Cleared(t, new, p), Attributes, p)
<1> DEFINE u == IF fix_pair0 THEN do_color(t, 0, 0, FALSE) ELSE t
<1>1. u = [on |-> {}, colors |-> Target(0, FALSE)]
  <2>1. CASE fix_pair0
    <3>1. u = [t EXCEPT !.colors = Target(0, FALSE)]
      BY <2>1, DoColor, SettingFacts
    <3> HIDE DEF u
    <3> QED BY <3>1 DEF Terms
  <2>2. CASE ~fix_pair0
    <3>1. u = t /\ t.colors = Target(0, FALSE)
      BY <2>2, SettingFacts, TargetFacts
    <3> HIDE DEF u
    <3> QED BY <3>1 DEF Terms
  <2> QED BY <2>1, <2>2
<1>2. u = Rendition({}, 0)
  <2> HIDE DEF u
  <2> QED BY <1>1 DEF Rendition, Target
<1>3. Cleared(t, new, p) = IF new = {} /\ p = 0 THEN Known(u, {}, 0) ELSE vidputs(u, {}, 0, new, p)
  BY DEF Cleared
<1> HIDE DEF u
<1>4. CASE new = {} /\ p = 0
  BY <1>2, <1>3, <1>4 DEF Known, Writes
<1>5. CASE ~(new = {} /\ p = 0)
  <2> DEFINE k == vidputs(Rendition({}, 0), {}, 0, new, p)
  <2>1. Cleared(t, new, p) = k
    BY <1>2, <1>3, <1>5
  <2>2. {} \in SUBSET Attributes /\ 0 \in Pairs
    BY SettingFacts
  <2>3. Writes(k, new, p)
    BY <2>2, VidputsRight
  <2> HIDE DEF k
  <2> QED BY <2>1, <2>3 DEF Writes
<1> QED BY <1>4, <1>5

-----------------------------------------------------------------------------
(* The invariant: besides what the terminal writes with, endwin() leaves      *)
(* nothing for the next update to end.                                       *)
PenInv ==
    /\ Chosen
    /\ attrs \in SUBSET Attributes /\ pair \in Pairs /\ suspended \in BOOLEAN
    /\ suspended => attrs = {} /\ pair = 0
    /\ PenExact

LEMMA PenInitially == Init => PenInv
BY DEF Init, PenInv, Chosen, PenExact, Pairs

LEMMA PenStep == PenInv /\ [Next]_vars => PenInv'
<1> SUFFICES ASSUME PenInv, [Next]_vars PROVE PenInv'
  OBVIOUS
<1>1. /\ Chosen /\ attrs \in SUBSET Attributes /\ pair \in Pairs /\ suspended \in BOOLEAN
      /\ suspended => attrs = {} /\ pair = 0 /\ tty = NoAttributes
      /\ ~suspended => tty = Rendition(attrs, pair)
  BY DEF PenInv, PenExact
<1>2. NoAttributes \in Terms /\ 0 \in Pairs /\ {} \in SUBSET Attributes
  BY SettingFacts, <1>1 DEF NoAttributes, Terms
<1>3. ASSUME NEW k, Pen(k), k.on \in SUBSET Attributes, k.pair \in Pairs,
             k.t = Rendition(k.on, k.pair), UNCHANGED <<device, setting>>, suspended' = FALSE
      PROVE  PenInv'
  <2>1. tty' = Rendition(attrs', pair')
    BY <1>3 DEF Pen
  <2>2. PenExact'
    BY <1>3, <2>1 DEF PenExact, Rendition, Masked, fix_pair0, Assumed, Content, Exchanged
  <2> QED BY <1>1, <1>3, <2>2 DEF PenInv, Pen, Chosen, Trusted
<1>4. ASSUME NEW new \in SUBSET Attributes, NEW p \in Pairs, UpdateAttrs(new, p) PROVE PenInv'
  <2> DEFINE k == vidputs(tty, attrs, pair, new, p)
  <2>1. Pen(k) /\ UNCHANGED <<device, setting>> /\ ~suspended /\ suspended' = FALSE
    BY <1>1, <1>4 DEF UpdateAttrs
  <2>2. k.on \in SUBSET Attributes /\ k.pair = p /\ k.t = Rendition(k.on, p)
    <3>1. k = vidputs(Rendition(attrs, pair), attrs, pair, new, p)
      BY <1>1, <2>1
    <3>2. Writes(vidputs(Rendition(attrs, pair), attrs, pair, new, p), new, p)
      BY <1>1, VidputsRight
    <3> HIDE DEF k
    <3> QED BY <3>1, <3>2 DEF Writes
  <2> HIDE DEF k
  <2> QED BY <1>3, <2>1, <2>2
<1>5. ASSUME NEW new \in SUBSET Attributes, NEW p \in Pairs, ClearScreen(new, p) PROVE PenInv'
  <2> DEFINE k == Cleared(tty, new, p)
  <2>1. /\ Pen(k) /\ UNCHANGED <<device, setting>> /\ ~suspended /\ suspended' = FALSE
        /\ tty = Rendition({}, 0)
    BY <1>1, <1>5 DEF ClearScreen
  <2>2. tty = [on |-> {}, colors |-> Target(0, FALSE)]
    BY <2>1 DEF Rendition, Target
  <2>3. tty \in Terms /\ tty.on = {} /\ (fix_pair0 \/ tty.colors = Original)
    BY <1>1, <1>2, <2>2, TargetFacts, SettingFacts DEF Terms
  <2>4. k.on \in SUBSET Attributes /\ k.pair = p /\ k.t = Rendition(k.on, p)
    <3>1. Writes(k, Attributes, p)
      BY <1>1, <2>3, ClearedRight
    <3> HIDE DEF k
    <3> QED BY <3>1 DEF Writes
  <2> HIDE DEF k
  <2> QED BY <1>3, <2>1, <2>4
<1>6. ASSUME NEW new \in SUBSET Attributes, NEW p \in Pairs,
             NEW left \in SUBSET {"standout", "bold"}, screen_resume(left, new, p)
      PROVE  PenInv'
  <2> DEFINE t == Begin(tty, left)
             u == IF device.sgr0 THEN EndAll(t) ELSE End(t, {"altcharset", "standout", "underline"})
             k == Cleared(u, new, p)
  <2>1. Pen(k) /\ UNCHANGED <<device, setting>> /\ suspended /\ suspended' = FALSE
    BY <1>6 DEF screen_resume
  <2>2. /\ t \in Terms /\ t.colors = Original /\ t.on = left \cap device.can
    <3>1. left \in SUBSET Attributes
      BY DEF Attributes
    <3>2. tty \in Terms /\ tty.on = {} /\ tty.colors = Original
      BY <1>1, <1>2, <2>1 DEF NoAttributes
    <3> QED BY <1>1, <3>1, <3>2, Toggled
  <2> HIDE DEF t
  <2>3. u \in Terms /\ u.on = {} /\ u.colors = Original
    <3>1. CASE device.sgr0
      <4>1. EndAll(t) = [on |-> {}, colors |-> Original]
        BY <2>2 DEF EndAll
      <4> QED BY <1>2, <3>1, <4>1 DEF NoAttributes
    <3>2. CASE ~device.sgr0
      <4>1. {"altcharset", "standout", "underline"} \in SUBSET Attributes
        BY DEF Attributes
      <4>2. t.on \subseteq {"standout"}
        BY <1>1, <2>2, <3>2, DeviceFacts
      <4> QED BY <1>1, <2>2, <3>2, <4>1, <4>2, Toggled
    <3> QED BY <3>1, <3>2
  <2> HIDE DEF u
  <2>4. k.on \in SUBSET Attributes /\ k.pair = p /\ k.t = Rendition(k.on, p)
    <3>1. Writes(k, Attributes, p)
      BY <1>1, <2>3, ClearedRight
    <3> HIDE DEF k
    <3> QED BY <3>1 DEF Writes
  <2> HIDE DEF k
  <2> QED BY <1>3, <2>1, <2>4
<1>7. CASE screen_wrap
  <2> DEFINE k == vidputs(tty, attrs, pair, {}, 0)
             z == IF fix_pair0 THEN [k EXCEPT !.t.colors = Original] ELSE k
  <2>1. Pen(z) /\ UNCHANGED <<device, setting>> /\ ~suspended /\ suspended' = TRUE
    BY <1>7 DEF screen_wrap
  <2>2. k.on = {} /\ k.pair = 0 /\ k.t = Rendition({}, 0)
    <3> DEFINE v == vidputs(Rendition(attrs, pair), attrs, pair, {}, 0)
    <3>1. k = v
      BY <1>1, <2>1
    <3>2. Writes(v, {}, 0)
      BY <1>1, <1>2, VidputsRight
    <3> HIDE DEF k, v
    <3>3. v.on = {}
      BY <3>2 DEF Writes
    <3> QED BY <3>1, <3>2, <3>3 DEF Writes
  <2>3. k = Known(k.t, k.on, k.pair)
    BY DEF vidputs, Known
  <2> HIDE DEF k
  <2>4. k = [t |-> [on |-> {}, colors |-> Target(0, FALSE)], on |-> {}, pair |-> 0]
    BY <2>2, <2>3 DEF Rendition, Target, Known
  <2>5. z = [t |-> NoAttributes, on |-> {}, pair |-> 0]
    <3>1. CASE fix_pair0
      BY <2>4, <3>1 DEF NoAttributes
    <3>2. CASE ~fix_pair0
      BY <1>1, <1>2, <2>4, <3>2, TargetFacts, SettingFacts DEF NoAttributes
    <3> QED BY <3>1, <3>2
  <2> HIDE DEF z
  <2> QED BY <1>1, <1>2, <2>1, <2>5 DEF PenInv, Pen, Chosen, Trusted, PenExact, NoAttributes
<1>8. CASE UNCHANGED vars
  BY <1>8 DEF vars, PenInv, Chosen, Trusted, PenExact, NoAttributes, Rendition, Masked,
     fix_pair0, Assumed, Content, Exchanged
<1> QED BY <1>4, <1>5, <1>6, <1>7, <1>8 DEF Next

(* The terminal writes with the attributes and colours the library believes  *)
(* it writes with, and endwin() leaves it with none.                         *)
THEOREM PenIsExact == Spec => []PenExact
<1>1. PenInv => PenExact
  BY DEF PenInv
<1> QED BY <1>1, PenInitially, PenStep, PTL DEF Spec
=============================================================================
