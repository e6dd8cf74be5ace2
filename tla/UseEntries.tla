------------------------------- MODULE UseEntries -------------------------------
(* The terminfo compiler's use= clauses (tinfo/comp_parse.c, alloc_entry.c,    *)
(* alloc_ttype.c, parse_entry.c).  Entries that were read from a file are      *)
(* completed pass after pass with the entries they use.  Capabilities that are *)
(* not in the standard have arrays of their own, ordered by type and name,     *)
(* which must be brought into line before two entries can be merged; a         *)
(* cancelled name is a string until an entry that is used tells its type.      *)
EXTENDS Integers, Sequences, SequencesExt, FiniteSets, FiniteSetsExt

CONSTANTS
    Files,          \* sequences of [name, own, uses]; own is a function from capabilities
                    \*   to "set", "cancel" and "none"
    Compiled,       \* entries without uses that are on disk already
    Type            \* a function from capabilities, which are ordered, to types

Types == <<"bool", "num", "str">>
Absent == 0
Cancelled == -1

VARIABLES
    source,         \* the file
    entries,        \* [link, nuses, tterm] for each entry of the file and on disk
    qp,             \* the entry that is looked at
    attempts, progress,
    stage           \* "names", "merges", "completed", "unresolved", "loop"
vars == <<source, entries, qp, attempts, progress, stage>>

Count(tp) == tp.num["bool"] + tp.num["num"] + tp.num["str"]     \* NUM_EXT_NAMES
FirstOf(tp, t) ==
    CASE t = "bool" -> 0 [] t = "num" -> tp.num["bool"] [] OTHER -> tp.num["bool"] + tp.num["num"]
NamesOf(tp, t) == {tp.names[FirstOf(tp, t) + i] : i \in 1..tp.num[t]}
(* The place of a name among those of a type, or 0                             *)
Find(tp, name, t) ==
    LET at == {i \in 1..tp.num[t] : tp.names[FirstOf(tp, t) + i] = name}
    IN IF at = {} THEN 0 ELSE Min(at)
Sorted(S) == SetToSortSeq(S, <)

-----------------------------------------------------------------------------
(* An entry as it is read: a cancelled name is taken for a string unless the *)
(* entry has it.                                                             *)
Parsed(id, own) ==
    LET set(t) == {c \in DOMAIN own : own[c] = "set" /\ Type[c] = t}
        off == {c \in DOMAIN own : own[c] = "cancel"}
        strs == Sorted(set("str") \cup off)
    IN [names |-> Sorted(set("bool")) \o Sorted(set("num")) \o strs,
        num |-> [bool |-> Cardinality(set("bool")), num |-> Cardinality(set("num")),
                 str |-> Len(strs)],
        data |-> [bool |-> [i \in 1..Cardinality(set("bool")) |-> 1],
                  num |-> [i \in 1..Cardinality(set("num")) |-> id],
                  str |-> [i \in 1..Len(strs) |-> IF strs[i] \in off THEN Cancelled ELSE id]]]

(* What is behind the end of an array stays where it is.                     *)
Without(s, at, n) == [i \in 1..Len(s) |-> IF i >= at /\ i < n THEN s[i + 1] ELSE s[i]]
DelExtName(tp, name, t) ==
    LET at == Find(tp, name, t)
    IN [names |-> Without(tp.names, FirstOf(tp, t) + at, Count(tp)),
        num |-> [tp.num EXCEPT ![t] = @ - 1],
        data |-> [tp.data EXCEPT ![t] = Without(@, at, tp.num[t])]]
InsExtName(tp, name, t, value) ==
    LET at == 1 + Cardinality({n \in NamesOf(tp, t) : n < name})
    IN IF Find(tp, name, t) # 0 THEN [tp EXCEPT !.data[t][Find(tp, name, t)] = value]
       ELSE [names |-> InsertAt(SubSeq(tp.names, 1, Count(tp)), FirstOf(tp, t) + at, name),
             num |-> [tp.num EXCEPT ![t] = @ + 1],
             data |-> [tp.data EXCEPT ![t] = InsertAt(SubSeq(@, 1, tp.num[t]), at, value)]]

(* A cancelled string becomes what the other entry has under its name.  The  *)
(* loop keeps the bounds it began with while names leave the strings.        *)
OtherTypes(t) ==
    CASE t = "bool" -> <<"str", "num">> [] t = "num" -> <<"str", "bool">>
      [] OTHER -> <<"num", "bool">>
RECURSIVE Cancels(_, _, _, _, _)
Cancels(to, from, first, last, j) ==
    LET at == j - first + 1
        name == to.names[j + 1]
        types == SelectSeq(Types, LAMBDA t : Find(from, name, t) # 0)
        t == types[1]
        has == SelectSeq(OtherTypes(t), LAMBDA u : Find(to, name, u) # 0)
        next == Cancels(to, from, first, last, j + 1)
    IN IF j >= last \/ at > to.num["str"] + 1 THEN to
       ELSE IF to.data["str"][at] # Cancelled \/ types = <<>> THEN next
       ELSE IF has = <<>> THEN next
       ELSE Cancels(InsExtName(DelExtName(to, name, has[1]), name, t, Cancelled),
                    from, first, last, j)
adjust_cancels(to, from) ==
    LET first == FirstOf(to, "str") IN Cancels(to, from, first, first + to.num["str"], first)

-----------------------------------------------------------------------------
merge_names(to, from, t) == Sorted(NamesOf(to, t) \cup NamesOf(from, t))
(* Values move with their names, from the end, into the longer array.        *)
Moved_FromStart(tp, names, t) ==            \* mutant: only the end grows
    [m \in 1..Len(names) |-> IF m <= tp.num[t] THEN tp.data[t][m] ELSE Absent]
Moved(tp, names, t) ==
    [m \in 1..Len(names) |->
        IF names[m] \in NamesOf(tp, t)
        THEN tp.data[t][tp.num[t] - Cardinality({k \in (m + 1)..Len(names) :
                                                    names[k] \in NamesOf(tp, t)})]
        ELSE Absent]
realign_data(tp, lists) ==
    [names |-> lists["bool"] \o lists["num"] \o lists["str"],
     num |-> [t \in DOMAIN lists |-> Len(lists[t])],
     data |-> [t \in DOMAIN lists |->
                  IF Len(lists[t]) = tp.num[t] THEN tp.data[t] ELSE Moved(tp, lists[t], t)]]
SameNames(to, from) ==
    to.num = from.num /\ SubSeq(to.names, 1, Count(to)) = SubSeq(from.names, 1, Count(to))
(* The numbers of names are those before cancelled ones changed their types. *)
_nc_align_termtype(to, from) ==
    LET to1 == IF to.num["str"] > 0 /\ from.num["bool"] + from.num["num"] > 0
               THEN adjust_cancels(to, from) ELSE to
        from1 == IF from.num["str"] > 0 /\ to1.num["bool"] + to1.num["num"] > 0
                 THEN adjust_cancels(from, to1) ELSE from
        lists == [t \in {"bool", "num", "str"} |-> merge_names(to1, from1, t)]
        all == Len(lists["bool"]) + Len(lists["num"]) + Len(lists["str"])
    IN IF SameNames(to, from) THEN [to |-> to, from |-> from]
       ELSE [to |-> IF Count(to) = all THEN to1 ELSE realign_data(to1, lists),
             from |-> IF Count(from) = all THEN from1 ELSE realign_data(from1, lists)]

(* What is merged in wins, but for what the target itself has cancelled.     *)
Merged(to, from) == IF to = Cancelled THEN to ELSE IF from = Cancelled THEN Absent
                    ELSE IF from = Absent THEN to ELSE from
Copy(tp) == [tp EXCEPT !.names = SubSeq(@, 1, Count(tp)),
                       !.data = [t \in DOMAIN @ |-> SubSeq(@[t], 1, tp.num[t])]]
_nc_merge_entry(target, other) ==
    LET r == _nc_align_termtype(target, Copy(other))
    IN [r.to EXCEPT !.data = [t \in DOMAIN @ |-> [i \in DOMAIN @[t] |->
            IF i <= r.from.num[t] /\ i <= r.to.num[t]
            THEN Merged(@[t][i], r.from.data[t][i]) ELSE @[t][i]]]]

(* The entries used are merged from the last to the first, so that the first *)
(* wins, and then the entry itself once more.                                *)
WithUses(e, all) ==
    LET merged == FoldRight(LAMBDA l, tp : _nc_merge_entry(tp, all[l].tterm), e.link, Copy(e.tterm))
    IN [e EXCEPT !.nuses = 0, !.tterm = _nc_merge_entry(merged, e.tterm)]

-----------------------------------------------------------------------------
All == source \o Compiled
Init ==
    /\ source \in Files
    /\ entries = [i \in 1..Len(All) |->
                    [link |-> <<>>, nuses |-> Len(All[i].uses), tterm |-> Parsed(i, All[i].own)]]
    /\ qp = 1 /\ attempts = FALSE /\ progress = FALSE /\ stage = "names"

(* A name stands for the last entry in the file that has it, but for the one *)
(* that uses it, or else for one on disk.                                    *)
Named(i, name) ==
    LET file == {k \in 1..Len(source) : k # i /\ source[k].name = name}
        disk == {k \in (Len(source) + 1)..Len(All) : All[k].name = name}
    IN IF file # {} THEN Max(file) ELSE IF disk # {} THEN Max(disk) ELSE 0
ResolveNames ==
    /\ stage = "names"
    /\ entries' = [i \in DOMAIN entries |-> [entries[i] EXCEPT
                      !.link = [u \in 1..Len(All[i].uses) |-> Named(i, All[i].uses[u])]]]
    /\ stage' = IF \E i \in DOMAIN entries : 0 \in Range(entries'[i].link)
                THEN "unresolved" ELSE "merges"
    /\ UNCHANGED <<source, qp, attempts, progress>>

Incomplete(e) == \E l \in Range(e.link) : entries[l].nuses > 0
Attempt ==
    /\ stage = "merges" /\ qp <= Len(source)
    /\ LET e == entries[qp]
           merges == e.nuses > 0 /\ ~Incomplete(e)
       IN /\ attempts' = (attempts \/ e.nuses > 0)
          /\ progress' = (progress \/ merges)
          /\ entries' = IF merges THEN [entries EXCEPT ![qp] = WithUses(e, entries)] ELSE entries
    /\ qp' = qp + 1
    /\ UNCHANGED <<source, stage>>
(* Passes go on while there was something to merge.                          *)
PassEnds ==
    /\ stage = "merges" /\ qp > Len(source)
    /\ qp' = 1 /\ attempts' = FALSE /\ progress' = FALSE
    /\ stage' = IF ~attempts THEN "completed" ELSE IF ~progress THEN "loop" ELSE "merges"
    /\ UNCHANGED <<source, entries>>
Done == stage \in {"completed", "unresolved", "loop"} /\ UNCHANGED vars

Next == ResolveNames \/ Attempt \/ PassEnds \/ Done
Spec == Init /\ [][Next]_vars

-----------------------------------------------------------------------------
(* tic.1m: an entry has the capabilities of the entries it uses, "excepting  *)
(* those that the current entry explicitly defines"; a capability that one   *)
(* of them cancels counts as cancelled if the entry itself cancels it.  The  *)
(* first of several uses wins, also by what it has cancelled.                *)
RECURSIVE Inherits(_, _)
Inherits(i, c) ==
    LET own == All[i].own[c]
        links == entries[i].link
        tells(l) == Inherits(l, c) # Absent
        first == SelectInSeq(links, tells)
    IN CASE own = "set" -> IF Type[c] = "bool" THEN 1 ELSE i
         [] own = "cancel" -> Cancelled
         [] OTHER -> IF first = 0 \/ Inherits(links[first], c) = Cancelled THEN Absent
                     ELSE Inherits(links[first], c)

(* What an entry holds: the value under a name of the type, or the string    *)
(* that says that it is cancelled.                                           *)
Holds(tp, c) ==
    IF Find(tp, c, Type[c]) # 0 THEN tp.data[Type[c]][Find(tp, c, Type[c])]
    ELSE IF Find(tp, c, "str") # 0 THEN tp.data["str"][Find(tp, c, "str")] ELSE Absent

(* Every entry that has been completed holds what it should, however the     *)
(* entries lie in the file and their names among each other; and the compiler*)
(* gives up only if there is a name that no one has, or a circle of uses.    *)
Uses(S) == S \cup UNION {Range(entries[i].link) : i \in S}
Circle(i) == i \in Uses(Uses(Uses(Range(entries[i].link))))
EntriesTrue ==
    /\ stage = "merges" \/ stage = "completed" =>
          \A i \in DOMAIN entries : entries[i].nuses = 0 =>
             \A c \in DOMAIN Type : Holds(entries[i].tterm, c) = Inherits(i, c)
    /\ stage = "loop" => \E i \in 1..Len(source) : Circle(i)
    /\ stage = "completed" => \A i \in 1..Len(source) : entries[i].nuses = 0
===============================================================================
