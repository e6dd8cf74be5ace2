------------------------------- MODULE MCForm --------------------------------
(* Two pages.  Field 0 shows two columns and may grow to three; fields 1 and *)
(* 2 share a buffer; field 3 is on the second page.                          *)
EXTENDS Form

FieldsOf == 0..3
PagesOf == [f \in Fields |-> IF f = 3 THEN 1 ELSE 0]
Places == [f \in Fields |-> <<<<0, 4>>, <<0, 0>>, <<1, 2>>, <<0, 0>>>>[f + 1]]
ColsOf == [f \in Fields |-> IF f = 0 THEN 2 ELSE 1]
MaxGrowOf == [f \in Fields |-> IF f = 0 THEN 3 ELSE 1]
OwnerOf == [f \in Fields |-> IF f = 2 THEN 1 ELSE f]
==============================================================================
