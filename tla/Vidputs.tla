------------------------------- MODULE Vidputs -------------------------------
(***************************************************************************)
(* Video attributes and colours (lib_vidattr.c, _nc_do_color() in          *)
(* lib_color.c): the library knows what the terminal writes with, and      *)
(* sends what turns it into what is wanted next.  To end an attribute the  *)
(* terminal may have to end them all, and with them, perhaps, its colours. *)
(***************************************************************************)
EXTENDS Integers

CONSTANTS
    Devices,        \* terminals, see Capabilities
    Settings        \* of the application: pairs, their foregrounds and backgrounds;
                    \* fixed, whether pair 0 has colours (_default_color is FALSE)

Attributes == {"standout", "underline", "reverse", "bold", "altcharset", "italic"}
TPARM_ATTR == Attributes \ {"italic"}       \* those that set_attributes has parameters for
Default == -1                               \* COLOR_DEFAULT
Original == <<Default, Default>>
Pairs == 0..2

(* can: the attributes it has; sgr, sgr0: set_attributes,                    *)
(* exit_attribute_mode; exits: the attributes that can be ended alone        *)
(* (_use_rmul, _use_rmso, _use_ritm and exit_alt_charset_mode); resets,      *)
(* resetsAcs: whether to end all of them ends the colours and the alternate  *)
(* characters too; ncv: what colours exclude; ax: whether foreground and     *)
(* background can be reset alone.                                            *)
Capabilities ==
    [can : SUBSET Attributes, sgr : BOOLEAN, sgr0 : BOOLEAN, exits : SUBSET Attributes,
     resets : BOOLEAN, resetsAcs : BOOLEAN, ncv : SUBSET TPARM_ATTR, ax : BOOLEAN]

(* A terminal can end what it can begin.                                     *)
ASSUME DeviceAssumption ==
    /\ Devices \subseteq Capabilities
    /\ \A d \in Devices :
          /\ d.exits \subseteq {"standout", "underline", "italic", "altcharset"} \cap d.can
          /\ {"italic", "altcharset"} \cap d.can \subseteq d.exits
          /\ d.sgr => d.sgr0
          /\ ~d.sgr0 => d.can \subseteq d.exits
(* Pair 0 has two colours or none: one that assume_default_colors(-1, 4)      *)
(* makes half of is not modelled.                                            *)
ASSUME SettingAssumption ==
    \A s \in Settings :
        /\ s.fixed \in BOOLEAN /\ s.pairs \in [Pairs -> Int \X Int]
        /\ IF s.fixed THEN \A i \in 1..2 : s.pairs[0][i] # Default ELSE s.pairs[0] = Original

VARIABLES
    device, setting,
    attrs, pair,    \* SCREEN_ATTRS
    suspended,      \* between endwin() and the next refresh, or before the first
    tty             \* what the terminal writes with: attributes and two colours
vars == <<device, setting, attrs, pair, suspended, tty>>

NoAttributes == [on |-> {}, colors |-> Original]
fix_pair0 == setting.fixed
Content(p) == setting.pairs[p]
Exchanged(c) == <<c[2], c[1]>>
Xor(p, q) == p # q

-----------------------------------------------------------------------------
(* The terminal.                                                             *)
Begin(t, S) == [t EXCEPT !.on = @ \cup (S \cap device.can)]
End(t, S) == [t EXCEPT !.on = @ \ S]
EndAll(t) ==
    [on |-> IF device.resetsAcs THEN {} ELSE t.on \cap {"altcharset"},
     colors |-> IF device.resets THEN Original ELSE t.colors]
SetAttributes(t, S) == Begin([EndAll(t) EXCEPT !.on = {}], S \cap TPARM_ATTR)
SetColors(t, c) ==
    [t EXCEPT !.colors = [i \in 1..2 |-> IF c[i] = Default THEN @[i] ELSE c[i]]]

-----------------------------------------------------------------------------
(* _nc_do_color(): a colour that is to be the default one is reset first; a  *)
(* default that was assumed is set like any other.                           *)
Reset(t, from, to) ==
    IF ~\E i \in 1..2 : to[i] = Default /\ from[i] # Default THEN t
    ELSE IF device.ax /\ from[2] = Default THEN [t EXCEPT !.colors[1] = Default]
    ELSE IF device.ax /\ from[1] = Default THEN [t EXCEPT !.colors[2] = Default]
    ELSE [t EXCEPT !.colors = Original]
Assumed(c) == [i \in 1..2 |-> IF c[i] = Default THEN Content(0)[i] ELSE c[i]]
do_color(t, old, new, reverse) ==
    LET c == IF new = 0 THEN Original ELSE Content(new)
    IN SetColors(Reset(t, Content(old), c),
                 IF reverse THEN Exchanged(Assumed(c)) ELSE Assumed(c))

(* vidputs().  What is known of the terminal goes along in a record: t the   *)
(* terminal, on and pair what PreviousAttr says.                             *)
Known(t, on, p) == [t |-> t, on |-> on, pair |-> p]
Forgotten(k) == [k EXCEPT !.pair = 0]       \* &= ALL_BUT_COLOR
SetColorsIf(why, k, p, reverse) ==
    IF why /\ (p # k.pair \/ (fix_pair0 /\ p = 0) \/ Xor(reverse, "reverse" \in k.on))
    THEN [k EXCEPT !.t = do_color(@, k.pair, p, reverse)]
    ELSE k

(* The last of the colours, unless they were reset at first.                 *)
Coloured_IfNew(k, p, reverse) ==    \* mutant: pair 0 never has colours
    SetColorsIf(p # 0, k, p, reverse)
Coloured(k, p, reverse) == SetColorsIf(p # 0 \/ fix_pair0, k, p, reverse)

(* exit_alt_charset_mode clears the bit; other attributes end together or,   *)
(* for want of that, those that can be ended alone.                          *)
ExitAll(k) ==
    IF k.on = {} /\ k.pair = 0 THEN k
    ELSE Forgotten([k EXCEPT !.t = IF device.sgr0 THEN EndAll(@)
                                   ELSE End(@, (k.on \cap device.exits) \ {"altcharset"})])
ToNormal(k, p, reverse) ==
    LET acs == "altcharset" \in k.on /\ "altcharset" \in device.exits
        ended == [k EXCEPT !.t = End(@, {"altcharset"}), !.on = @ \ {"altcharset"}]
    IN Coloured(ExitAll(IF acs THEN ended ELSE k), p, reverse)

Italicized(t, off, on) ==
    IF "italic" \notin device.exits THEN t
    ELSE IF "italic" \in on THEN Begin(t, {"italic"})
    ELSE IF "italic" \in off THEN End(t, {"italic"}) ELSE t
BySet(k, new, p, off, on, reverse) ==
    LET sent == IF on \cup off = {} THEN k
                ELSE Forgotten([k EXCEPT !.t = SetAttributes(@, new)])
    IN Coloured([sent EXCEPT !.t = Italicized(@, off, on)], p, reverse)

OneByOne(k, new, p, off, on, reverse) ==
    LET ended == [k EXCEPT !.t = End(@, off \cap device.exits)]
        all == off \ device.exits # {} /\ device.sgr0
        exited == IF all THEN Forgotten([ended EXCEPT !.t = EndAll(@)]) ELSE ended
        coloured == Coloured(exited, p, reverse)
    IN [coloured EXCEPT !.t = Begin(@, IF all THEN on \cup new ELSE on)]

Masked(new, p) == IF p # 0 \/ fix_pair0 THEN device.ncv ELSE {}
Changed(k, new, p, reverse) ==
    LET off == k.on \ new
        on == new \ (k.on \cap TPARM_ATTR)
        first == SetColorsIf(p = 0 /\ ~fix_pair0, k, p, reverse)
    IN IF new = {} /\ p = 0 THEN ToNormal(first, p, reverse)
       ELSE IF device.sgr THEN BySet(first, new, p, off, on, reverse)
       ELSE OneByOne(first, new, p, off, on, reverse)
vidputs(t, on, from, new, p) ==
    LET reverse == "reverse" \in new \cap Masked(new, p)
        wanted == new \ Masked(new, p)
        kept == wanted \cup (IF reverse THEN {"reverse"} ELSE {})
    IN IF kept = on /\ p = from THEN Known(t, on, from)
       ELSE Known(Changed(Known(t, on, from), wanted, p, reverse).t, kept, p)

-----------------------------------------------------------------------------
(* Colours that are not fixed are trusted to end with the attributes, and to *)
(* leave reverse video alone: other terminals keep some of them too long.    *)
Trusted == setting.fixed \/ (device.resets /\ "reverse" \notin device.ncv)

Init ==
    /\ device \in Devices /\ setting \in Settings /\ Trusted
    /\ attrs = {} /\ pair = 0 /\ suspended = TRUE /\ tty = NoAttributes

Pen(k) == attrs' = k.on /\ pair' = k.pair /\ tty' = k.t
(* UpdateAttrs(): for a cell, or at the end of an update for none.           *)
UpdateAttrs(new, p) ==
    /\ ~suspended /\ <<new, p>> # <<attrs, pair>>
    /\ Pen(vidputs(tty, attrs, pair, new, p))
    /\ UNCHANGED <<device, setting, suspended>>

(* ClearScreen(), at the beginning of an update, with the blank that stdscr  *)
(* has for its background.                                                   *)
Cleared(t, new, p) ==
    LET u == IF fix_pair0 THEN do_color(t, 0, 0, FALSE) ELSE t
    IN IF new = {} /\ p = 0 THEN Known(u, {}, 0) ELSE vidputs(u, {}, 0, new, p)
ClearScreen(new, p) ==
    /\ ~suspended /\ attrs = {} /\ pair = 0
    /\ Pen(Cleared(tty, new, p))
    /\ UNCHANGED <<device, setting, suspended>>

(* _nc_screen_wrap(), by endwin(); other programs leave their attributes;    *)
(* _nc_screen_resume() with the update that clears the screen after it.      *)
screen_wrap ==
    /\ ~suspended /\ suspended' = TRUE
    /\ LET k == vidputs(tty, attrs, pair, {}, 0)
       IN Pen(IF fix_pair0 THEN [k EXCEPT !.t.colors = Original] ELSE k)
    /\ UNCHANGED <<device, setting>>
screen_resume(left, new, p) ==
    /\ suspended /\ suspended' = FALSE
    /\ LET t == Begin(tty, left)
           u == IF device.sgr0 THEN EndAll(t)
                ELSE End(t, {"altcharset", "standout", "underline"})
       IN Pen(Cleared(u, new, p))
    /\ UNCHANGED <<device, setting>>

Next ==
    \/ screen_wrap
    \/ \E new \in SUBSET Attributes, p \in Pairs :
          \/ UpdateAttrs(new, p) \/ ClearScreen(new, p)
          \/ \E left \in SUBSET {"standout", "bold"} : screen_resume(left, new, p)
Spec == Init /\ [][Next]_vars

-----------------------------------------------------------------------------
(* Whatever the way, the terminal writes with the attributes and colours     *)
(* that SCREEN_ATTRS says, as far as it has them, reverse video in colours   *)
(* that exclude it being an exchange of colours; and endwin() leaves it with *)
(* none.                                                                     *)
Rendition(on, p) ==
    LET exchange == "reverse" \in on \cap Masked(on, p)
    IN [on |-> (IF exchange THEN on \ {"reverse"} ELSE on) \cap device.can,
        colors |-> IF exchange THEN Exchanged(Assumed(Content(p))) ELSE Assumed(Content(p))]
PenExact == tty = IF suspended THEN NoAttributes ELSE Rendition(attrs, pair)
=============================================================================
