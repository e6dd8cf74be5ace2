------------------------------- MODULE KeyTries -------------------------------
(***************************************************************************)
(* The keys a screen knows: the tree of strings through which wgetch()     *)
(* matches its input (_keytry), the tree of the keys that are switched off *)
(* (_key_ok), and the calls that change them: define_key(), keyok() and    *)
(* the filling of the tree from the terminal's description (add_tries.c,   *)
(* tries.c, key_defined.c, define_key.c, keyok.c, init_keytry.c).          *)
(***************************************************************************)
EXTENDS Integers, Sequences, FiniteSets, FiniteSetsExt, SequencesExt

CONSTANTS
    Strings,        \* strings that keys are bound to
    Codes,          \* codes of keys, greater than 0
    Standard,       \* capabilities of the description: <<string, code>>
    Extended,       \* its user-defined capabilities, in their order
    MaxDefines      \* bound on the application's definitions

(* A tree maps its nodes, named by the strings that lead to them, to values; *)
(* a node whose value is 0 is there for those below it, or left over.        *)
Path(s) == Prefixes(s) \ {<<>>}
Nodes == UNION {Path(s) : s \in Strings}
Nothing == [s \in {} |-> 0]

VARIABLES
    keytry,         \* _keytry
    keyOk,          \* _key_ok
    filled,         \* whether the description has been read
    call,           \* the last call
    defines         \* definitions made
vars == <<keytry, keyOk, filled, call, defines>>

Bound(t) == {s \in DOMAIN t : t[s] # 0}
Below(t, s) == {u \in DOMAIN t : u # s /\ IsPrefix(s, u)}
StringsOf(t, c) == {s \in Bound(t) : t[s] = c}

-----------------------------------------------------------------------------
(* The trees.                                                                *)

add_to_try(t, s, c) ==
    [u \in DOMAIN t \cup Path(s) |->
        IF u = s THEN c ELSE IF u \in DOMAIN t THEN t[u] ELSE 0]

Cut(t, s) == [u \in DOMAIN t \ {s} |-> t[u]]
Emptied_WithBelow(t, s) ==      \* mutant: what is below goes too
    [u \in DOMAIN t \ (Below(t, s) \cup {s}) |-> t[u]]
Emptied(t, s) == IF Below(t, s) = {} THEN Cut(t, s) ELSE [t EXCEPT ![s] = 0]

(* _nc_remove_key(), repeated until it finds nothing: the strings of a key   *)
(* go one by one, those below a node before the node.                        *)
RemoveAll(t, c) ==
    LET order == SetToSortSeq(StringsOf(t, c), LAMBDA u, v : Len(u) > Len(v))
    IN FoldLeft(Emptied, t, order)

remove_string(t, s) == IF s \in DOMAIN t /\ Below(t, s) = {} THEN Cut(t, s) ELSE t

(* key_defined(): -1 (ERR) for a string that leads on to others, otherwise   *)
(* the key of the longest string that it begins with, or 0.                  *)
ERR == -1
key_defined(t, s) ==
    IF s \in DOMAIN t /\ Below(t, s) # {} THEN ERR
    ELSE LET known == Path(s) \cap Bound(t)
         IN IF known = {} THEN 0
            ELSE t[CHOOSE u \in known : \A v \in known : Len(v) <= Len(u)]

-----------------------------------------------------------------------------
Init ==
    /\ keytry = Nothing /\ keyOk = Nothing /\ filled = FALSE
    /\ call = <<"newterm">> /\ defines = 0

(* _nc_init_keytry(): user-defined capabilities do not replace a key.        *)
init_keytry ==
    /\ ~filled /\ filled' = TRUE
    /\ LET add(t, k) == add_to_try(t, k[1], k[2])
           addNew(t, k) == IF key_defined(t, k[1]) = 0 THEN add(t, k) ELSE t
       IN keytry' = FoldLeft(addNew, FoldLeft(add, keytry, Standard), Extended)
    /\ call' = <<"init_keytry">>
    /\ UNCHANGED <<keyOk, defines>>

(* define_key(s, c) with a key; what the string stood for is removed first.  *)
Defined(t, s, c) ==
    LET u == remove_string(t, s)
    IN IF key_defined(u, s) = 0 THEN add_to_try(u, s, c) ELSE u
define_key(s, c) ==
    /\ filled /\ defines < MaxDefines /\ defines' = defines + 1
    /\ keytry' = Defined(keytry, s, c)
    /\ call' = <<"define", s, c>>
    /\ UNCHANGED <<keyOk, filled>>
(* define_key(s, 0).                                                         *)
undefine_string(s) ==
    /\ filled
    /\ keytry' = remove_string(keytry, s)
    /\ call' = <<"define", s, 0>>
    /\ UNCHANGED <<keyOk, filled, defines>>
(* define_key(NULL, c).                                                      *)
undefine_key(c) ==
    /\ filled
    /\ keytry' = RemoveAll(keytry, c)
    /\ call' = <<"undefine", c>>
    /\ UNCHANGED <<keyOk, filled, defines>>

(* keyok(): the strings of a key move from one tree to the other.            *)
MovedInto(t, strings, c) ==
    FoldSet(LAMBDA s, u : add_to_try(u, s, c), t, strings)
keyok(c, flag) ==
    /\ filled
    /\ IF flag
       THEN /\ keytry' = MovedInto(keytry, StringsOf(keyOk, c), c)
            /\ keyOk' = RemoveAll(keyOk, c)
       ELSE /\ keyOk' = MovedInto(keyOk, StringsOf(keytry, c), c)
            /\ keytry' = RemoveAll(keytry, c)
    /\ call' = <<"keyok", c, flag>>
    /\ UNCHANGED <<filled, defines>>

Next ==
    \/ init_keytry
    \/ \E s \in Strings : undefine_string(s) \/ \E c \in Codes : define_key(s, c)
    \/ \E c \in Codes : undefine_key(c) \/ keyok(c, TRUE) \/ keyok(c, FALSE)
Spec == Init /\ [][Next]_vars

-----------------------------------------------------------------------------
(* A string keeps its key, switched on or off, until a call names the string *)
(* or its key, though it begins, or is the beginning of, others that come    *)
(* and go; and after a call that takes a key away, or switches it off or on, *)
(* no string of that key is left where it was.                               *)
Key(t, s) == IF s \in DOMAIN t THEN t[s] ELSE 0
Named(s) ==
    CASE call'[1] = "define" -> s = call'[2]
      [] call'[1] = "undefine" -> Key(keytry, s) = call'[2]
      [] call'[1] = "keyok" -> call'[2] \in {Key(keytry, s), Key(keyOk, s)}
      [] OTHER -> TRUE
NothingLeft ==
    CASE call'[1] = "undefine" -> StringsOf(keytry', call'[2]) = {}
      [] call'[1] = "keyok" ->
            /\ StringsOf(IF call'[3] THEN keyOk' ELSE keytry', call'[2]) = {}
            /\ StringsOf(keytry, call'[2]) \cup StringsOf(keyOk, call'[2])
                  = StringsOf(IF call'[3] THEN keytry' ELSE keyOk', call'[2])
      [] OTHER -> TRUE
OnlyNamed ==
    /\ \A s \in Nodes :
          <<Key(keytry, s), Key(keyOk, s)>>' # <<Key(keytry, s), Key(keyOk, s)>> => Named(s)
    /\ NothingLeft
KeysKept == [][OnlyNamed]_vars
=============================================================================
