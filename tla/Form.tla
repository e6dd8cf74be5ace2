--------------------------------- MODULE Form ---------------------------------
(* The form library (form/*.c): fields on pages, one of them current.  Its    *)
(* text is edited in a window and copied to the field's buffer when a request *)
(* needs it; leaving the field checks it.  A field that has grown beyond its  *)
(* columns is edited in a pad of its own, any other one in a subwindow of the *)
(* form's window, which therefore keeps what was typed.  Fields have one      *)
(* line, are public and not justified; attributes and hooks are left out.     *)
EXTENDS Integers, FiniteSets, SequencesExt

CONSTANTS
    Fields,         \* indices of the fields, 0..n
    PageOf, Place,  \* the page of each, frow and fcol
    Cols, MaxGrow,  \* columns shown, and columns it may grow to
    Owner,          \* link_field(): the field whose buffer it uses
    Edit, Passok, Nullok, Blank, Autoskip,      \* the fields with these options
    Overload,       \* the form has O_NL_OVERLOAD and O_BS_OVERLOAD
    Toggled,        \* the fields whose options the application changes
    Filled,         \* the fields whose buffer it sets
    Letters, Bad,   \* what is typed, and what no field accepts
    ClicksAway      \* KEY_MOUSE reaches the driver while an edit is unchecked

NULL == -1
blank == " "
Pages == {PageOf[f] : f \in Fields}
MaxPage == Cardinality(Pages)

ASSUME FieldsAssumption ==
    /\ Cardinality(Fields) \in Nat \ {0} /\ Fields = 0..(Cardinality(Fields) - 1)
    /\ MaxPage \in Nat /\ Pages = 0..(MaxPage - 1)
    /\ \A f, g \in Fields : f < g => PageOf[f] <= PageOf[g]
    /\ Owner \in [Fields -> Fields] /\ \A f \in Fields : Owner[Owner[f]] = Owner[f]
    /\ \A f \in Fields :
          /\ Cols[f] \in Nat \ {0} /\ Cols[f] = Cols[Owner[f]]
          /\ MaxGrow[f] \in Nat /\ MaxGrow[f] >= Cols[f]
    /\ \A p \in Pages : \E f \in Fields \ Toggled : PageOf[f] = p
    /\ Toggled \subseteq Fields /\ Filled \subseteq Fields
    /\ blank \notin Letters /\ Bad \subseteq Letters /\ Overload \in BOOLEAN
    /\ ClicksAway \in BOOLEAN
(* A linked field that grows does not clear _MAY_GROW of the others.         *)
ASSUME LinkedAssumption ==
    \A f, g \in Fields : f # g /\ Owner[f] = Owner[g] => MaxGrow[f] = Cols[f]

VARIABLES
    form,           \* struct form, with the fields' buffers and the form window
    selectable      \* the fields with O_VISIBLE and O_ACTIVE
vars == <<form, selectable>>

Linked(f) == {g \in Fields : Owner[g] = Owner[f]}
Buffer(F, f) == F.buf[Owner[f]]
Blanks(n) == [i \in 1..n |-> blank]
Smaller(x, y) == IF x < y THEN x ELSE y
Has_Invisible_Parts(F, f) == Len(Buffer(F, f)) > Cols[f]

(* Connected fields, the first one current; nothing is posted.               *)
Init ==
    /\ form = [posted |-> FALSE, current |-> 0, curpage |-> 0,
               curcol |-> 0, begincol |-> 0,
               w |-> <<>>,              \* the text in the window of the field
               modified |-> FALSE,      \* _WINDOW_MODIFIED
               fcheck |-> FALSE,        \* _FCHECK_REQUIRED
               ovlmode |-> FALSE,       \* _OVLMODE
               buf |-> [f \in Fields |-> Blanks(Cols[f])],
               growable |-> {f \in Fields : MaxGrow[f] > Cols[f]},  \* _MAY_GROW
               shown |-> [f \in Fields |-> Blanks(Cols[f])],        \* on the form's window
               typed |-> FALSE]         \* history: edited since it was entered or checked
    /\ selectable = Fields

-----------------------------------------------------------------------------
(* Where the data in a line begin and end, as indices from 0.                *)

After(line) ==
    LET data == {i \in 1..Len(line) : line[i] # blank}
    IN IF data = {} THEN 0 ELSE CHOOSE i \in data : \A j \in data : j <= i
FirstIn(S, otherwise) == IF S = {} THEN otherwise ELSE CHOOSE i \in S : \A j \in S : i <= j
Get_Start_Of_Data(line, from) ==
    FirstIn({i \in from..(Len(line) - 1) : line[i + 1] # blank}, from)
Get_First_Whitespace(line, from) ==
    FirstIn({i \in from..(Len(line) - 1) : line[i + 1] = blank}, from)
After_Last_Whitespace(line, to) ==
    LET blanks == {i \in 1..to : line[i] = blank}
    IN IF blanks = {} THEN 0 ELSE CHOOSE i \in blanks : \A j \in blanks : j <= i

-----------------------------------------------------------------------------
(* The text of the current field: its window, its buffer, the form's window. *)

(* A derived window shares its cells with the form's window.                 *)
Put(F, text) ==
    IF Has_Invisible_Parts(F, F.current) THEN [F EXCEPT !.w = text]
    ELSE [F EXCEPT !.w = text, !.shown[F.current] = text]

First_Column_Late(F) ==                     \* mutant: it scrolls one column late
    IF F.curcol < F.begincol THEN F.curcol
    ELSE IF F.curcol > F.begincol + Cols[F.current] THEN F.curcol - Cols[F.current] + 1
    ELSE F.begincol
First_Column(F) ==
    IF F.curcol < F.begincol THEN F.curcol
    ELSE IF F.curcol >= F.begincol + Cols[F.current] THEN F.curcol - Cols[F.current] + 1
    ELSE F.begincol
Refresh_Current_Field(F) ==
    IF ~Has_Invisible_Parts(F, F.current) THEN F
    ELSE LET begin == First_Column(F)
         IN [F EXCEPT !.begincol = begin,
                      !.shown[F.current] = SubSeq(F.w, begin + 1, begin + Cols[F.current])]

Synchronize_Buffer_Unchecked(F) ==          \* mutant: no check is asked for
    IF F.modified THEN [F EXCEPT !.modified = FALSE, !.buf[Owner[F.current]] = F.w] ELSE F
Synchronize_Buffer(F) ==
    IF F.modified
    THEN [F EXCEPT !.modified = FALSE, !.fcheck = TRUE, !.buf[Owner[F.current]] = F.w]
    ELSE F

(* Field_Grown(): another pad, with the text of the buffer.                  *)
Field_Grown(F) ==
    LET f == F.current
        G == Synchronize_Buffer(F)
        more == Smaller(MaxGrow[f] - Len(Buffer(G, f)), Cols[f])
        text == Buffer(G, f) \o Blanks(more)
    IN [G EXCEPT !.buf[Owner[f]] = text, !.w = text,
                 !.growable = IF Len(text) = MaxGrow[f] THEN @ \ {f} ELSE @]
Growable(F) == F.current \in F.growable

Display_Field(F, f) == [F EXCEPT !.shown[f] = SubSeq(Buffer(F, f), 1, Cols[f])]
Really_Appears(F, f) == F.posted /\ f \in selectable /\ PageOf[f] = F.curpage

Synchronize_Field(F, f) ==
    IF ~Really_Appears(F, f) THEN F
    ELSE IF f # F.current THEN Display_Field(F, f)
    ELSE Refresh_Current_Field(
            Put([F EXCEPT !.curcol = 0, !.begincol = 0, !.typed = FALSE], Buffer(F, f)))
Synchronize_Linked_Fields(F, f) ==
    LET others == Linked(f) \ {f}
        G == IF F.current \in others THEN Synchronize_Field(F, F.current) ELSE F
    IN [G EXCEPT !.shown = [g \in Fields |->
            IF g \in others \ {F.current} /\ Really_Appears(F, g)
            THEN SubSeq(Buffer(F, g), 1, Cols[g]) ELSE G.shown[g]]]

(* Check_Field(): blank fields may be accepted without a look at the type.   *)
Check_Field(f, text) ==
    \/ f \in Nullok /\ After(text) = 0
    \/ \A i \in 1..Len(text) : text[i] \notin Bad

(* _nc_Internal_Validation(), in two parts: what it says, what it leaves.    *)
MustCheck(G) == G.fcheck \/ G.current \notin Passok
Valid(F) ==
    LET G == Synchronize_Buffer(F)
    IN MustCheck(G) => Check_Field(G.current, Buffer(G, G.current))
Validated(F) ==
    LET G == Synchronize_Buffer(F)
    IN IF Valid(F) /\ MustCheck(G)
       THEN Synchronize_Linked_Fields([G EXCEPT !.fcheck = FALSE, !.typed = FALSE], G.current)
       ELSE G

-----------------------------------------------------------------------------
(* Another field becomes the current one.                                    *)

Set_Current_Field(F, f) ==
    LET old == F.current
        G == IF F.w # <<>> /\ old \in selectable /\ PageOf[old] = F.curpage
             THEN Refresh_Current_Field(F) ELSE F
    IN IF f # old \/ ~F.posted
       THEN [G EXCEPT !.current = f, !.modified = FALSE, !.typed = FALSE,
                      !.w = IF Has_Invisible_Parts(G, f) THEN Buffer(G, f) ELSE G.shown[f],
                      !.curcol = 0, !.begincol = 0]
       ELSE [F EXCEPT !.curcol = 0, !.begincol = 0]

(* The fields of a page by index, and by place: a field is put before the    *)
(* first one that is not ahead of it.                                        *)
Ahead(f, g) == \/ Place[f][1] < Place[g][1]
               \/ Place[f][1] = Place[g][1] /\ Place[f][2] < Place[g][2]
Insert_Field_By_Position(order, f) ==
    InsertAt(order, FirstIn({k \in 1..Len(order) : ~Ahead(order[k], f)}, Len(order) + 1), f)
Collect(p, add(_, _)) ==
    LET upto[n \in 0..Cardinality(Fields)] ==
            IF n = 0 THEN <<>>
            ELSE IF PageOf[n - 1] = p THEN add(upto[n - 1], n - 1) ELSE upto[n - 1]
    IN upto[Cardinality(Fields)]
OnPage == [p \in Pages |-> Collect(p, Append)]
Sorted == [p \in Pages |-> Collect(p, Insert_Field_By_Position)]

(* The next field in such an order that can be selected.                     *)
Next_Field(order, f) ==
    LET n == Len(order)
        here == CHOOSE k \in 1..n : order[k] = f
        at(k) == order[((here - 1 + k) % n) + 1]
        hits == {k \in 1..n : at(k) \in selectable}
    IN IF hits = {} THEN f ELSE at(FirstIn(hits, n))
Next_Field_On_Page(f) == Next_Field(OnPage[PageOf[f]], f)
Previous_Field_On_Page(f) == Next_Field(Reverse(OnPage[PageOf[f]]), f)
Sorted_Next_Field(f) == Next_Field(Sorted[PageOf[f]], f)
Sorted_Previous_Field(f) == Next_Field(Reverse(Sorted[PageOf[f]]), f)

(* A step, and more of them until the field reached is one to stop at.       *)
Walk(step(_), f, stop(_)) ==
    LET to[n \in 0..Cardinality(Fields)] ==
            IF n = 0 THEN step(f) ELSE IF stop(to[n - 1]) THEN to[n - 1] ELSE step(to[n - 1])
    IN to[Cardinality(Fields)]
SameLine(f, g) == Place[f][1] = Place[g][1]
Left_Neighbor_Field(f) == Walk(Sorted_Previous_Field, f, LAMBDA g : SameLine(f, g))
Right_Neighbor_Field(f) == Walk(Sorted_Next_Field, f, LAMBDA g : SameLine(f, g))

(* The first field reached in another line, then along that line while it is *)
(* beyond the old one, and one back if the line has ended.                   *)
Neighbor(step(_), back(_), f, beyond(_)) ==
    LET there == Walk(step, f, LAMBDA g : ~SameLine(f, g) \/ Place[f] = Place[g])
        on(g) == IF SameLine(g, there) /\ beyond(g) THEN step(g) ELSE g
        along == Walk(on, there, LAMBDA g : FALSE)
    IN IF SameLine(f, there) THEN there
       ELSE IF SameLine(along, there) THEN along ELSE back(along)
Upper_Neighbor_Field(f) ==
    Neighbor(Sorted_Previous_Field, Sorted_Next_Field, f, LAMBDA g : Place[g][2] > Place[f][2])
Down_Neighbor_Field(f) ==
    Neighbor(Sorted_Next_Field, Sorted_Previous_Field, f, LAMBDA g : Place[g][2] < Place[f][2])

First_Field(p) == Next_Field_On_Page(Last(OnPage[p]))
Last_Field(p) == Previous_Field_On_Page(Head(OnPage[p]))

(* _nc_Set_Form_Page(): every visible field of the page is displayed.        *)
Set_Form_Page(F, page, f) ==
    IF F.curpage = page THEN F
    ELSE Set_Current_Field([F EXCEPT !.curpage = page,
             !.shown = [g \in Fields |-> IF PageOf[g] = page /\ g \in selectable
                                         THEN SubSeq(Buffer(F, g), 1, Cols[g])
                                         ELSE Blanks(Cols[g])]], f)

-----------------------------------------------------------------------------
(* The application's calls.                                                  *)

PostForm ==
    /\ ~form.posted
    /\ form' = [Refresh_Current_Field(
                   Set_Form_Page([form EXCEPT !.curpage = NULL], form.curpage, form.current))
                EXCEPT !.posted = TRUE]
    /\ UNCHANGED selectable

(* The window is erased and deleted; what was typed is not looked at.        *)
UnpostForm ==
    /\ form.posted
    /\ form' = [form EXCEPT !.posted = FALSE, !.w = <<>>,
                            !.shown = [f \in Fields |-> Blanks(Cols[f])]]
    /\ UNCHANGED selectable

SetCurrentField(f) ==
    /\ f \in selectable /\ f # form.current
    /\ IF ~form.posted
       THEN form' = [form EXCEPT !.current = f, !.curpage = PageOf[f], !.typed = FALSE]
       ELSE LET G == Validated(form)
                H == IF PageOf[f] # G.curpage THEN Set_Form_Page(G, PageOf[f], f)
                     ELSE Set_Current_Field(G, f)
            IN form' = IF Valid(form) THEN Refresh_Current_Field(H) ELSE G
    /\ UNCHANGED selectable

SetFormPage(p) ==
    /\ p # form.curpage
    /\ IF ~form.posted
       THEN form' = [form EXCEPT !.current = First_Field(p), !.curpage = p, !.typed = FALSE]
       ELSE LET G == Validated(form)
            IN form' = IF Valid(form)
                       THEN Refresh_Current_Field(Set_Form_Page(G, p, First_Field(p))) ELSE G
    /\ UNCHANGED selectable

(* field_opts_on() and field_opts_off() with O_VISIBLE and O_ACTIVE, which   *)
(* are refused for the current field of a posted form; the application does  *)
(* not try it before it posts the form either, where the code lets it.       *)
SetFieldOpts(f) ==
    /\ f # form.current
    /\ selectable' = IF f \in selectable THEN selectable \ {f} ELSE selectable \cup {f}
    /\ form' = IF ~form.posted \/ PageOf[f] # form.curpage THEN form
               ELSE IF f \in selectable THEN [form EXCEPT !.shown[f] = Blanks(Cols[f])]
               ELSE Display_Field(form, f)

(* set_field_buffer() of buffer 0, with a text no longer than the columns.   *)
SetFieldBuffer(f, text) ==
    /\ form' = LET F == [form EXCEPT !.buf[Owner[f]] =
                             [i \in 1..Len(Buffer(form, f)) |->
                                 IF i <= Len(text) THEN text[i] ELSE blank]]
               IN Synchronize_Linked_Fields(Synchronize_Field(F, f), f)
    /\ UNCHANGED selectable

-----------------------------------------------------------------------------
(* form_driver()                                                             *)

(* Inter_Field_Navigation() and Page_Navigation()                            *)
Goto(F, f) ==
    IF Valid(F) THEN Set_Current_Field(Validated(F), f) ELSE Validated(F)
GotoPage(F, p) ==
    IF Valid(F) THEN Set_Form_Page(Validated(F), p, First_Field(p)) ELSE Validated(F)

Driver(F) == form' = Refresh_Current_Field(F) /\ UNCHANGED selectable

FieldRequests == {"NEXT", "PREV", "FIRST", "LAST", "SNEXT", "SPREV", "SFIRST", "SLAST",
                  "LEFT", "RIGHT", "UP", "DOWN"}
Target(request, f) ==
    LET p == PageOf[f]
    IN CASE request = "NEXT" -> Next_Field_On_Page(f)
         [] request = "PREV" -> Previous_Field_On_Page(f)
         [] request = "FIRST" -> First_Field(p)
         [] request = "LAST" -> Last_Field(p)
         [] request = "SNEXT" -> Sorted_Next_Field(f)
         [] request = "SPREV" -> Sorted_Previous_Field(f)
         [] request = "SFIRST" -> Sorted_Next_Field(Last(Sorted[p]))
         [] request = "SLAST" -> Sorted_Previous_Field(Head(Sorted[p]))
         [] request = "LEFT" -> Left_Neighbor_Field(f)
         [] request = "RIGHT" -> Right_Neighbor_Field(f)
         [] request = "UP" -> Upper_Neighbor_Field(f)
         [] request = "DOWN" -> Down_Neighbor_Field(f)

FieldRequest(request) ==
    /\ form.posted /\ Driver(Goto(form, Target(request, form.current)))
PageRequest(p) ==
    /\ form.posted
    /\ p \in {(form.curpage + 1) % MaxPage, (form.curpage + MaxPage - 1) % MaxPage,
              0, MaxPage - 1}
    /\ Driver(GotoPage(form, p))
ValidationRequest == form.posted /\ Driver(Validated(form))
ModeRequest(ovl) == form.posted /\ Driver([form EXCEPT !.ovlmode = ovl])

(* A click on a field moves there, with no look at the field that is left.   *)
Click(f) ==
    /\ form.posted /\ f \in selectable /\ PageOf[f] = form.curpage
    /\ ClicksAway \/ ~form.typed
    /\ form' = Refresh_Current_Field(Set_Current_Field(form, f))
    /\ UNCHANGED selectable

(* Moving in the field: IFN_... and HSC_...                                  *)
Next_Character(F) ==
    IF F.curcol + 1 < Len(F.w) THEN [F EXCEPT !.curcol = @ + 1]
    ELSE IF Growable(F) THEN [Field_Grown(F) EXCEPT !.curcol = @ + 1]
    ELSE F
CursorRequests == {"NEXT_CHAR", "PREV_CHAR", "NEXT_WORD", "PREV_WORD", "BEG_FIELD", "END_FIELD"}
Moved(F, request) ==
    LET G == Synchronize_Buffer(F)
        line == Buffer(G, G.current)
        back == After(SubSeq(line, 1, G.curcol))
        word == After_Last_Whitespace(line, back)
        to(col) == [G EXCEPT !.curcol = col]
    IN CASE request = "NEXT_CHAR" -> Next_Character(F)
         [] request = "PREV_CHAR" -> [F EXCEPT !.curcol = IF @ = 0 THEN 0 ELSE @ - 1]
         [] request = "NEXT_WORD" ->
                to(Get_Start_Of_Data(line, Get_First_Whitespace(line, G.curcol)))
         [] request = "PREV_WORD" ->
                to(IF back # G.curcol THEN word
                   ELSE After_Last_Whitespace(line, After(SubSeq(line, 1, word))))
         [] request = "BEG_FIELD" -> to(Get_Start_Of_Data(line, 0))
         [] request = "END_FIELD" -> to(Smaller(After(line), Len(line) - 1))
CursorRequest(request) == form.posted /\ Driver(Moved(form, request))

HSC_Generic(F, columns) ==
    LET room == Len(F.w) - Cols[F.current] - F.begincol
        go == IF columns > 0 THEN Smaller(columns, room)
              ELSE -Smaller(-columns, F.begincol)
    IN IF columns > 0 /\ go <= 0 THEN F
       ELSE [F EXCEPT !.curcol = @ + go, !.begincol = @ + go]
ScrollRequest(sign) ==
    /\ form.posted
    /\ \E n \in {1, Cols[form.current], (Cols[form.current] + 1) \div 2} :
          Driver(HSC_Generic(form, sign * n))

-----------------------------------------------------------------------------
(* Editing.                                                                  *)

Edited(F, text) == [Put(F, text) EXCEPT !.modified = TRUE, !.typed = TRUE]
ClearFrom(text, col) == [i \in 1..Len(text) |-> IF i <= col THEN text[i] ELSE blank]
Overlaid(text, col, ch) == [i \in 1..Len(text) |-> IF i = col + 1 THEN ch ELSE text[i]]
Inserted(text, col, ch) == SubSeq(InsertAt(text, col + 1, ch), 1, Len(text))
Deleted(text, col) == Append(RemoveAt(text, col + 1), blank)
First_Position(F) == F.curcol = 0

(* A full line takes a character only if the field can grow.                 *)
Is_There_Room(F) == Last(F.w) = blank
Insert(F, ch) ==
    LET G == IF Is_There_Room(F) THEN F ELSE Field_Grown(F)
    IN IF Is_There_Room(F) \/ Growable(F) THEN Edited(G, Inserted(G.w, G.curcol, ch)) ELSE F

Data_Entry(F, ch) ==
    LET f == F.current
        G == IF f \in Blank /\ First_Position(F) /\ ~F.fcheck /\ ~F.modified
             THEN Put(F, Blanks(Len(F.w))) ELSE F
        H == IF G.ovlmode THEN Edited(G, Overlaid(G.w, G.curcol, ch)) ELSE Insert(G, ch)
        end == H.curcol = Len(H.w) - 1
    IN IF ~G.ovlmode /\ ~Is_There_Room(G) /\ ~Growable(G) THEN G
       ELSE IF end /\ ~Growable(H) /\ f \in Autoskip THEN Goto(H, Next_Field_On_Page(f))
       ELSE Next_Character(IF end /\ Growable(H) THEN Field_Grown(H) ELSE H)
Type(ch) ==
    /\ form.posted /\ form.current \in Edit
    /\ Driver(Data_Entry(form, ch))

Delete_Word(F) ==
    LET G == Synchronize_Buffer(F)
        line == Buffer(G, G.current)
        begin == After_Last_Whitespace(line, G.curcol)
        rest == Get_Start_Of_Data(line, Get_First_Whitespace(line, G.curcol))
        tail == IF rest = G.curcol \/ line[rest + 1] = blank THEN <<>>
                ELSE SubSeq(line, rest + 1, Len(line))
    IN IF line[G.curcol + 1] = blank THEN G
       ELSE [Edited(G, SubSeq(SubSeq(line, 1, begin) \o tail \o Blanks(Len(line)), 1, Len(line)))
            EXCEPT !.curcol = begin]

(* At the first position two requests leave the field; a new line does so    *)
(* elsewhere, too, after it has cleared the rest of the line in overlay mode.*)
EditRequests == {"NEW_LINE", "INS_CHAR", "DEL_CHAR", "DEL_PREV", "DEL_WORD", "CLR_EOL", "CLR_FIELD"}
New_Line(F) ==
    IF ~Overload THEN F
    ELSE Goto(IF F.ovlmode /\ ~First_Position(F) THEN Edited(F, ClearFrom(F.w, F.curcol)) ELSE F,
              Next_Field_On_Page(F.current))
Delete_Previous(F) ==
    IF First_Position(F)
    THEN IF Overload THEN Goto(F, Previous_Field_On_Page(F.current)) ELSE F
    ELSE IF F.current \notin Edit THEN F
    ELSE [Edited(F, Deleted(F.w, F.curcol - 1)) EXCEPT !.curcol = @ - 1]
Field_Editing(F, request) ==
    CASE request = "NEW_LINE" -> New_Line(F)
      [] request = "DEL_PREV" -> Delete_Previous(F)
      [] request \notin {"NEW_LINE", "DEL_PREV"} /\ F.current \notin Edit -> F
      [] request = "INS_CHAR" /\ F.current \in Edit -> Insert(F, blank)
      [] request = "DEL_CHAR" /\ F.current \in Edit -> Edited(F, Deleted(F.w, F.curcol))
      [] request = "DEL_WORD" /\ F.current \in Edit -> Delete_Word(F)
      [] request = "CLR_EOL" /\ F.current \in Edit -> Edited(F, ClearFrom(F.w, F.curcol))
      [] request = "CLR_FIELD" /\ F.current \in Edit ->
            [Edited(F, Blanks(Len(F.w))) EXCEPT !.curcol = 0]
EditRequest(request) == form.posted /\ Driver(Field_Editing(form, request))

Next ==
    \/ PostForm \/ UnpostForm \/ ValidationRequest
    \/ \E f \in Fields : SetCurrentField(f) \/ Click(f)
    \/ \E f \in Toggled : SetFieldOpts(f)
    \/ \E f \in Filled, ch \in Letters \cup {blank} : SetFieldBuffer(f, <<ch>>)
    \/ \E p \in Pages : SetFormPage(p) \/ PageRequest(p)
    \/ \E request \in FieldRequests : FieldRequest(request)
    \/ \E request \in CursorRequests : CursorRequest(request)
    \/ \E request \in EditRequests : EditRequest(request)
    \/ \E sign \in {-1, 1} : ScrollRequest(sign)
    \/ \E ovl \in BOOLEAN : ModeRequest(ovl)
    \/ \E ch \in Letters : Type(ch)
Spec == Init /\ [][Next]_vars

-----------------------------------------------------------------------------
(* "a request attempts to move to a different field ... the move fails if    *)
(* the field is invalid": whenever a field of a posted form is left, by a    *)
(* request, a click or a call, its buffer has exactly the text that was in   *)
(* its window, and the text passes the field's check if the user has edited  *)
(* it since it was last checked, however much moving, growing, overlaying,   *)
(* posting and unposting came between.                                       *)
KeepsEdits ==
    \A f \in Fields :
       form.posted /\ form'.posted /\ form.current = f /\ form'.current # f =>
          LET line == form'.buf[Owner[f]]
              types == \E ch \in Letters : Type(ch)
          IN /\ form.typed \/ types => Check_Field(f, line)
             /\ \/ types \/ EditRequest("NEW_LINE")     \* which change the text first
                \/ line = IF form.modified THEN form.w ELSE Buffer(form, f)
(* Every step keeps what was edited.                                         *)
EditsKept == [][KeepsEdits]_vars

(* What the user sees is what the application reads: each visible field of   *)
(* the page shows a part of its buffer, the current one a part of its window *)
(* from begincol on, and the window agrees with the buffer unless it is      *)
(* marked as modified.  Only fields linked to the one being edited lag.      *)
ShownIsStored ==
    form.posted =>
        LET c == form.current
            lag == IF form.typed THEN Linked(c) ELSE {c}
            part(text, b, f) == SubSeq(text, b + 1, b + Cols[f])
        IN /\ ~form.modified => form.w = Buffer(form, c)
           /\ form.shown[c] = part(form.w, form.begincol, c)
           /\ \A f \in selectable \ lag : PageOf[f] = form.curpage =>
                 \E b \in 0..(Len(Buffer(form, f)) - Cols[f]) :
                    form.shown[f] = part(Buffer(form, f), b, f)

(* The cursor of a posted form is in the visible part of a field that may be *)
(* visited, on the page that is shown, through growth, horizontal scrolling, *)
(* options that come and go, and pages chosen before the form was posted.    *)
CursorShown ==
    form.posted =>
        LET c == form.current
        IN /\ c \in selectable /\ PageOf[c] = form.curpage
           /\ Len(form.w) = Len(Buffer(form, c))
           /\ form.begincol \in 0..(Len(form.w) - Cols[c])
           /\ form.curcol \in form.begincol..(form.begincol + Cols[c] - 1)

(* The current field is in sight, and what is in sight is true.              *)
FieldShown == ShownIsStored /\ CursorShown
===============================================================================
