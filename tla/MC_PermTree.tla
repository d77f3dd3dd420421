----------------------------- MODULE MC_PermTree -----------------------------
(***************************************************************************)
(* Three points by allperm, and by allperm_derec three points down to one, *)
(* four down to three, and one where three are left to the loop, which it  *)
(* never reaches.                                                          *)
(***************************************************************************)
EXTENDS PermTree

Bytes    == 0 .. 255
MC_Calls == {<<"allperm", 3, 1>>, <<"allperm_derec", 3, 1>>, <<"allperm_derec", 4, 3>>,
             <<"allperm_derec", 1, 3>>}
=============================================================================
