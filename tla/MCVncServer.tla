---------------------------- MODULE MCVncServer ----------------------------
EXTENDS VncServer, TLC
CONSTANTS c1, c2

Whole(r) == {Screen(r)}
Wholes == {Screen(0), Screen(90)}
Screen_Asks == (c1 :> Wholes \X BOOLEAN) @@ (c2 :> Whole(0) \X {TRUE})
Upside_Asks == (c1 :> Whole(180) \X {TRUE})
Screen_DrawAt == {<<2, 1>>}
=============================================================================
