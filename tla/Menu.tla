--------------------------------- MODULE Menu ---------------------------------
(* The menu library (menu/*.c): items in a grid that is higher than what is   *)
(* shown of it, a current item, and a pattern that typed characters extend.   *)
(* The grid's neighbours are computed once, when the menu is posted or moved  *)
(* in; the items are painted on a pad when the menu is posted, and from then  *)
(* on only the items that change are.  Spacing, descriptions, attributes and  *)
(* the application's hooks are left out.                                      *)
EXTENDS Integers, Sequences, FiniteSets, SequencesExt

CONSTANTS
    MaxItems,       \* items 0..(MaxItems - 1)
    Counts,         \* how many of them the application connects
    Name,           \* the name of each item, a sequence of letters
    Letters,
    Selectable,     \* the items with O_SELECTABLE
    Formats,        \* rows and columns that the application gives set_menu_format()
    OptionSets,     \* the sets of options that the application gives set_menu_opts()
    Toggles,        \* the options it changes while items are connected
    Jumps,          \* whether it goes, from far down, to items between the rows that
                    \* are shown and the last ones
    Tall            \* the menu's window is higher than the rows it shows

Items == 0..(MaxItems - 1)
NULL == -1
Wild == -2          \* what lies behind the array of items
Options == {"onevalue", "rowmajor", "ignorecase", "noncyclic"}

(* What is assumed of the constants; each instance is checked for it.        *)
ItemsAssumption ==
    /\ MaxItems \in Nat /\ Counts \subseteq 1..MaxItems
    /\ Name \in [Items -> Seq(Letters)] /\ \A i \in Items : Name[i] # <<>>
    /\ Selectable \subseteq Items
    /\ Formats \subseteq (Nat \ {0}) \X (Nat \ {0})
    /\ OptionSets \subseteq SUBSET Options /\ Toggles \subseteq Options
    /\ Jumps \in BOOLEAN /\ Tall \in BOOLEAN
ASSUME MenuAssumption == ItemsAssumption

VARIABLES
    opt,            \* the options that are on
    nitems,         \* 0: no items are connected
    format,         \* frows, fcols
    rows, cols, arows,
    toprow, curitem, pattern,
    value,          \* the selected items
    grid,           \* left, right, up, down, y and x of each item
    linkNeeded, posted,     \* flags of the menu's status
    drawn,          \* where each item was painted on the pad, and as what
    hung            \* a call does not return
geometry == <<nitems, format, rows, cols, arows>>
place == <<toprow, curitem, pattern>>
menuVars == <<opt, geometry, place, value, grid, linkNeeded, posted, drawn, hung>>

Connected == 0..(nitems - 1)
Lesser(x, y) == IF x < y THEN x ELSE y
ItemAt(n, k) == IF k < n THEN k ELSE IF k = n THEN NULL ELSE Wild

(* _nc_Link_Items(): the four neighbours and the place of n items.           *)
RowMajor(n, r, c, cycle) ==
    LET row(i) == i \div c
        col(i) == i % c
        lastInRow(i) == row(i) * c + c - 1
        lastInColumn(i) == (r - 1) * c + col(i)
    IN [left |-> [i \in 0..(n - 1) |->
            IF col(i) # 0 THEN i - 1
            ELSE IF cycle THEN Lesser(lastInRow(i), n - 1) ELSE NULL],
        right |-> [i \in 0..(n - 1) |->
            IF col(i) < c - 1 /\ i + 1 < n THEN i + 1
            ELSE IF cycle THEN row(i) * c ELSE NULL],
        up |-> [i \in 0..(n - 1) |->
            IF row(i) # 0 THEN i - c
            ELSE IF cycle THEN Lesser(lastInColumn(i), n - 1) ELSE NULL],
        down |-> [i \in 0..(n - 1) |->
            IF i + c < n THEN i + c
            ELSE IF cycle THEN IF row(i) + 1 < r THEN n - 1 ELSE col(i) ELSE NULL],
        y |-> [i \in 0..(n - 1) |-> row(i)], x |-> [i \in 0..(n - 1) |-> col(i)]]

ColumnMajor(n, r, c, cycle) ==
    LET row(i) == i % r
        col(i) == i \div r
        lastInColumn(i) == (c - 1) * r + row(i)
        lastInRow(i) == col(i) * r + r - 1
    IN [left |-> [i \in 0..(n - 1) |->
            IF col(i) # 0 THEN i - r
            ELSE IF ~cycle THEN NULL
            ELSE ItemAt(n, IF lastInColumn(i) >= n THEN lastInColumn(i) - r
                           ELSE lastInColumn(i))],
        right |-> [i \in 0..(n - 1) |->
            IF i + r < n THEN i + r ELSE IF cycle THEN row(i) ELSE NULL],
        up |-> [i \in 0..(n - 1) |->
            IF row(i) # 0 THEN i - 1
            ELSE IF cycle THEN Lesser(lastInRow(i), n - 1) ELSE NULL],
        down |-> [i \in 0..(n - 1) |->
            IF row(i) < r - 1
            THEN IF i + 1 < n THEN i + 1 ELSE (col(i) - 1) * r + row(i) + 1
            ELSE IF cycle THEN col(i) * r ELSE NULL],
        y |-> [i \in 0..(n - 1) |-> row(i)], x |-> [i \in 0..(n - 1) |-> col(i)]]

_nc_Link_Items ==
    IF "rowmajor" \in opt THEN RowMajor(nitems, rows, cols, "noncyclic" \notin opt)
                          ELSE ColumnMajor(nitems, rows, cols, "noncyclic" \notin opt)
Linked == IF linkNeeded THEN _nc_Link_Items ELSE grid

NoGrid == [left |-> <<>>, right |-> <<>>, up |-> <<>>, down |-> <<>>, y |-> <<>>, x |-> <<>>]

(* new_menu(NULL): all options on, 16 rows and one column.                   *)
MenuInit ==
    /\ opt = Options
    /\ nitems = 0 /\ format = <<16, 1>> /\ rows = 16 /\ cols = 1 /\ arows = 0
    /\ toprow = 0 /\ curitem = NULL /\ pattern = <<>>
    /\ value = {} /\ grid = NoGrid /\ linkNeeded = FALSE
    /\ posted = FALSE /\ drawn = <<>> /\ hung = FALSE

-----------------------------------------------------------------------------
(* Before the menu is posted.                                                *)

(* set_menu_format() of n items, with the options of the menu.               *)
SetFormat(n, f, options) ==
    LET total == (n - 1) \div f[2] + 1
    IN /\ format' = f
       /\ rows' = total
       /\ cols' = (IF "rowmajor" \in options THEN Lesser(n, f[2]) ELSE (n - 1) \div total + 1)
       /\ arows' = Lesser(total, f[1])
       /\ toprow' = 0 /\ curitem' = 0 /\ pattern' = <<>>
       /\ linkNeeded' = TRUE

SetMenuFormat(f) ==
    /\ ~posted /\ nitems # 0
    /\ SetFormat(nitems, f, opt)
    /\ UNCHANGED <<opt, nitems, value, grid, posted, drawn, hung>>

(* set_menu_items(), which disconnects what is connected first.              *)
SetMenuItems(n) ==
    /\ ~posted
    /\ nitems' = n
    /\ value' = IF n # 0 /\ "onevalue" \in opt THEN value \ (0..(n - 1)) ELSE value
    /\ IF n # 0 THEN SetFormat(n, format, opt)
       ELSE pattern' = <<>> /\ UNCHANGED <<format, rows, cols, arows, toprow, curitem, linkNeeded>>
    /\ UNCHANGED <<opt, grid, posted, drawn, hung>>

(* set_menu_opts(): the format is computed before the options change.        *)
SetMenuOpts(options) ==
    /\ ~posted
    /\ nitems = 0 \/ ((opt \ options) \cup (options \ opt)) \subseteq Toggles
    /\ opt' = options
    /\ IF nitems # 0 /\ ("rowmajor" \in opt) # ("rowmajor" \in options)
       THEN SetFormat(nitems, format, opt)
       ELSE UNCHANGED <<format, rows, cols, arows, place, linkNeeded>>
    /\ value' = IF "onevalue" \in options THEN value \ Connected ELSE value
    /\ UNCHANGED <<nitems, grid, posted, drawn, hung>>

-----------------------------------------------------------------------------
(* What is painted: _nc_Draw_Menu() follows the links from the first item,   *)
(* and ends a row or a column at its first item or, if the menu does not     *)
(* cycle, at a null pointer.  More steps than items mean that it never ends. *)

Follow(link, first) ==
    LET stop == IF "noncyclic" \in opt THEN NULL ELSE first
        steps[n \in 0..nitems] ==
            IF n = 0 THEN <<first>>
            ELSE LET next == link[Last(steps[n - 1])]
                 IN IF Len(steps[n - 1]) # n \/ next \in {stop, NULL} THEN steps[n - 1]
                    ELSE Append(steps[n - 1], next)
    IN steps[nitems]
Endless(walk) == Len(walk) > nitems

Look(i, y, x, cur, values) == <<y, x, i = cur, i \in values>>

PostMenu ==
    /\ ~posted /\ nitems # 0
    /\ LET g == Linked
           column == Follow(g.down, 0)
           line(k) == Follow(g.right, column[k])
           values == IF "onevalue" \in opt THEN value ELSE value \ Connected
           at(i) == {p \in (1..Len(column)) \X (1..nitems) :
                        p[2] <= Len(line(p[1])) /\ line(p[1])[p[2]] = i}
       IN /\ grid' = g /\ linkNeeded' = FALSE /\ posted' = TRUE /\ value' = values
          /\ hung' = (Endless(column) \/ \E k \in 1..Len(column) : Endless(line(k)))
          /\ drawn' = IF hung' THEN <<>>
                      ELSE [i \in Connected |->
                              {Look(i, p[1] - 1, p[2] - 1, curitem, values) : p \in at(i)}]
    /\ UNCHANGED <<opt, geometry, place>>

UnpostMenu ==
    /\ posted
    /\ posted' = FALSE /\ drawn' = <<>>
    /\ UNCHANGED <<opt, geometry, place, value, grid, linkNeeded, hung>>

(* Move_And_Post_Item(), if the menu is posted.                              *)
Painted(items, cur, values) ==
    IF ~posted THEN drawn
    ELSE [i \in Connected |->
            IF i \in items THEN {Look(i, grid.y[i], grid.x[i], cur, values)} ELSE drawn[i]]

(* _nc_New_TopRow_and_CurrentItem()                                          *)
NewTopRowAndCurrentItem(top, item) ==
    /\ toprow' = IF rows >= format[1] THEN Lesser(rows - format[1], top) ELSE 0
    /\ curitem' = item
    /\ drawn' = Painted(IF item = curitem THEN {} ELSE {curitem, item}, item, value)

Keep == UNCHANGED <<toprow, curitem, drawn>>

-----------------------------------------------------------------------------
(* The calls that move in the menu, posted or not.                           *)

(* Adjust_Current_Item()                                                     *)
Adjust(g, row, item) ==
    LET y == g.y[item]
        above == IF y < row THEN y ELSE row
    IN IF y < above + arows THEN above
       ELSE IF y < rows - above THEN y ELSE rows - arows

(* The second comparison is with the rows that are above, not with those    *)
(* that are left below.                                                      *)
MayGoTo(g, item) ==
    ~Jumps /\ item # NULL =>
        g.y[item] < toprow + arows \/ g.y[item] < rows - toprow \/ g.y[item] >= rows - arows

SetCurrentItem(item) ==
    /\ item \in Connected /\ item # curitem
    /\ LET g == Linked
       IN /\ MayGoTo(g, item)
          /\ grid' = g /\ linkNeeded' = FALSE
          /\ NewTopRowAndCurrentItem(Adjust(g, toprow, item), item)
    /\ pattern' = <<>>
    /\ UNCHANGED <<opt, geometry, value, posted, hung>>

SetTopRow(row) ==
    /\ nitems # 0 /\ row \in 0..(rows - arows) /\ row # toprow
    /\ grid' = Linked /\ linkNeeded' = FALSE
    /\ NewTopRowAndCurrentItem(row, IF "rowmajor" \in opt THEN row * cols ELSE row)
    /\ pattern' = <<>>
    /\ UNCHANGED <<opt, geometry, value, posted, hung>>

SetItemValue(i, selected) ==
    /\ i \in Selectable /\ ~(i \in Connected /\ "onevalue" \in opt)
    /\ value' = IF selected THEN value \cup {i} ELSE value \ {i}
    /\ drawn' = Painted(IF value' # value /\ i \in Connected THEN {i} ELSE {}, curitem, value')
    /\ UNCHANGED <<opt, geometry, place, grid, linkNeeded, posted, hung>>

(* Is_Sub_String(): without O_IGNORECASE the loop compares the first letter  *)
(* of the pattern with every letter of the name, and then steps once.        *)
Is_Sub_String(part, string) ==
    IF "ignorecase" \in opt THEN IsPrefix(part, string)
    ELSE Len(part) <= 1

(* _nc_Match_Next_Character_In_Item_Name(): the items in the order in which  *)
(* they are looked at, the first of them that matches.                       *)
Order(from, step) == [k \in 1..nitems |-> (from + step * k + nitems * nitems) % nitems]
Match(p, item, order) ==
    LET hits == {k \in 1..nitems : Is_Sub_String(p, Name[order[k]])}
        first == CHOOSE k \in hits : \A m \in hits : k <= m
    IN IF hits = {} \/ (order[first] = item /\ first # 1) THEN NULL ELSE order[first]

(* The character is tried at the current item first.                         *)
MatchTyped_Next(p, item) == Match(p, item, Order(item, 1))    \* mutant: at the next one
MatchTyped(p, item) == Match(p, item, Order(item - 1, 1))
NameLen == LET lengths == {Len(Name[i]) : i \in Connected}
           IN CHOOSE n \in lengths : \A m \in lengths : m <= n

(* The end of menu_driver(): the top row follows the current item.           *)
Shown_Above(top, item) ==                   \* mutant: only if it is above
    IF grid.y[item] < top THEN grid.y[item] ELSE top
Shown(top, item) ==
    IF grid.y[item] < top THEN grid.y[item]
    ELSE IF grid.y[item] >= top + arows THEN grid.y[item] - arows + 1 ELSE top

Driver(top, item) ==
    IF item \in {NULL, Wild} THEN Keep ELSE NewTopRowAndCurrentItem(Shown(top, item), item)
DriverFrame == UNCHANGED <<opt, geometry, value, grid, linkNeeded, posted, hung>>

Type(ch) ==
    /\ posted
    /\ LET longer == Append(pattern, ch)
           item == IF Len(longer) > NameLen THEN NULL ELSE MatchTyped(longer, curitem)
       IN IF item = NULL THEN Keep /\ UNCHANGED pattern
          ELSE Driver(toprow, item) /\ pattern' = longer
    /\ DriverFrame

(* set_menu_pattern() with one character and with two.                       *)
SetMenuPattern(p) ==
    /\ nitems # 0
    /\ LET g == Linked
           try[k \in 0..Len(p)] ==
               IF k = 0 THEN curitem
               ELSE IF try[k - 1] = NULL \/ k > NameLen THEN NULL
               ELSE MatchTyped(SubSeq(p, 1, k), try[k - 1])
           item == try[Len(p)]
       IN /\ grid' = g /\ linkNeeded' = FALSE
          /\ MayGoTo(g, item)
          /\ IF item = NULL THEN pattern' = <<>> /\ Keep
             ELSE pattern' = p /\ NewTopRowAndCurrentItem(Adjust(g, toprow, item), item)
    /\ UNCHANGED <<opt, geometry, value, posted, hung>>

-----------------------------------------------------------------------------
(* menu_driver(): a request gives a top row and an item, or is denied.       *)

Requests == {"LEFT_ITEM", "RIGHT_ITEM", "UP_ITEM", "DOWN_ITEM", "SCR_ULINE", "SCR_DLINE",
             "SCR_DPAGE", "SCR_UPAGE", "FIRST_ITEM", "LAST_ITEM", "NEXT_ITEM", "PREV_ITEM",
             "NEXT_MATCH", "PREV_MATCH"}

After(item) ==
    IF item + 1 < nitems THEN item + 1 ELSE IF "noncyclic" \in opt THEN NULL ELSE 0
Before(item) ==
    IF item > 0 THEN item - 1 ELSE IF "noncyclic" \in opt THEN NULL ELSE nitems - 1

(* A page: as many steps along a link as there are.                          *)
Along(link, count) ==
    LET to[n \in 0..count] ==
            IF n = 0 THEN curitem
            ELSE IF to[n - 1] \in {NULL, Wild} \/ link[to[n - 1]] = NULL THEN to[n - 1]
            ELSE link[to[n - 1]]
    IN to[count]

Answer(request) ==
    LET pageDown == Lesser(rows - (arows + toprow), arows)
        pageUp == Lesser(arows, toprow)
        to(item) == <<toprow, item>>
        denied == <<toprow, NULL>>
    IN CASE request = "LEFT_ITEM" -> to(grid.left[curitem])
         [] request = "RIGHT_ITEM" -> to(grid.right[curitem])
         [] request = "UP_ITEM" -> to(grid.up[curitem])
         [] request = "DOWN_ITEM" -> to(grid.down[curitem])
         [] request = "SCR_ULINE" ->
                IF toprow = 0 THEN denied ELSE <<toprow - 1, grid.up[curitem]>>
         [] request = "SCR_DLINE" ->
                IF toprow + arows >= rows THEN denied ELSE <<toprow + 1, grid.down[curitem]>>
         [] request = "SCR_DPAGE" ->
                IF pageDown <= 0 THEN denied ELSE <<toprow + pageDown, Along(grid.down, pageDown)>>
         [] request = "SCR_UPAGE" ->
                IF pageUp <= 0 THEN denied ELSE <<toprow - pageUp, Along(grid.up, pageUp)>>
         [] request = "FIRST_ITEM" -> to(0)
         [] request = "LAST_ITEM" -> to(nitems - 1)
         [] request = "NEXT_ITEM" -> to(After(curitem))
         [] request = "PREV_ITEM" -> to(Before(curitem))
         [] request = "NEXT_MATCH" ->
                to(IF pattern = <<>> THEN After(curitem)
                   ELSE Match(pattern, curitem, Order(curitem, 1)))
         [] request = "PREV_MATCH" ->
                to(IF pattern = <<>> THEN Before(curitem)
                   ELSE Match(pattern, curitem, Order(curitem, -1)))

Request(request) ==
    /\ posted
    /\ pattern' = IF request \in {"NEXT_MATCH", "PREV_MATCH"} THEN pattern ELSE <<>>
    /\ Driver(Answer(request)[1], Answer(request)[2])
    /\ DriverFrame

ClearPattern ==
    /\ posted /\ pattern' = <<>> /\ Driver(toprow, curitem) /\ DriverFrame
BackPattern ==
    /\ posted /\ pattern # <<>> /\ pattern' = Front(pattern)
    /\ Driver(toprow, curitem) /\ DriverFrame

(* REQ_TOGGLE_ITEM at the given place.                                       *)
Denied(item) == "onevalue" \in opt \/ item \notin Selectable
Toggle(top, item) ==
    LET values == IF Denied(item) THEN value
                  ELSE IF item \in value THEN value \ {item} ELSE value \cup {item}
    IN /\ value' = values /\ toprow' = top /\ curitem' = item
       /\ pattern' = <<>>
       /\ drawn' = Painted((IF item = curitem THEN {} ELSE {curitem, item})
                           \cup (IF values = value THEN {} ELSE {item}), item, values)
       /\ UNCHANGED <<opt, geometry, grid, linkNeeded, posted, hung>>

ToggleItem ==
    /\ posted
    /\ Toggle(IF Denied(curitem) THEN toprow ELSE Shown(toprow, curitem), curitem)

(* KEY_MOUSE on an item: a click moves there, and leaves the pattern; a      *)
(* double click moves there without the top row, and toggles.                *)
UnderMouse(i) ==
    /\ grid.y[i] >= toprow
    /\ Tall \/ grid.y[i] < toprow + arows
Click(i) ==
    /\ posted /\ i \in Connected /\ UnderMouse(i)
    /\ Driver(toprow, i) /\ UNCHANGED pattern /\ DriverFrame
DoubleClick(i) ==
    /\ posted /\ i \in Connected /\ UnderMouse(i)
    /\ Toggle(IF Denied(i) THEN toprow ELSE Shown(toprow, i), i)

MenuNext ==
    /\ ~hung
    /\ \/ \E f \in Formats : SetMenuFormat(f)
       \/ \E n \in Counts \cup {0} : SetMenuItems(n)
       \/ \E options \in OptionSets : SetMenuOpts(options)
       \/ PostMenu \/ UnpostMenu
       \/ \E i \in Items :
             \/ SetCurrentItem(i) \/ SetTopRow(i) \/ Click(i) \/ DoubleClick(i)
             \/ \E selected \in BOOLEAN : SetItemValue(i, selected)
       \/ \E ch \in Letters : Type(ch)
       \/ \E p, q \in Letters : SetMenuPattern(<<p, q>>) \/ SetMenuPattern(<<p>>)
       \/ \E request \in Requests : Request(request)
       \/ ClearPattern \/ BackPattern \/ ToggleItem
MenuSpec == MenuInit /\ [][MenuNext]_menuVars

-----------------------------------------------------------------------------
(* "This macro ensures, that the item becomes visible": in a posted menu the *)
(* current item is in the rows that are shown, which are rows of the menu,   *)
(* however it was reached: by requests, clicks, patterns or set_top_row().   *)
CurrentVisible ==
    posted => /\ toprow \in 0..(rows - arows)
              /\ grid.y[curitem] \in toprow..(toprow + arows - 1)

(* The walk along the links paints every item once, where the items that     *)
(* change later are painted again, and the pad always shows which item is    *)
(* the current one and which are selected.                                   *)
PadTrue ==
    posted => /\ ~hung
              /\ \A i \in Connected :
                    drawn[i] = {Look(i, grid.y[i], grid.x[i], curitem, value)}

(* Both, in a menu that is posted.                                           *)
MenuShown == CurrentVisible /\ PadTrue

(* A typed character leads to an item whose name begins with the pattern, to *)
(* the current one if its name does; if there is none, it is taken back and  *)
(* nothing changes.                                                          *)
TypesMatch ==
    \A ch \in Letters : Type(ch) =>
        LET longer == Append(pattern, ch)
            fits == {i \in Connected : IsPrefix(longer, Name[i])}
        IN IF fits = {} THEN UNCHANGED place
           ELSE /\ pattern' = longer /\ curitem' \in fits
                /\ curitem \in fits => curitem' = curitem
TypedMatches == [][TypesMatch]_menuVars
===============================================================================
