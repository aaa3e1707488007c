------------------------------ MODULE MCTable ------------------------------
(***************************************************************************)
(* Keys for TLC, with three lists: "a", "ac" and "d" share one, where "a"  *)
(* is a prefix of "ac"; "b" has another; and "é" is two bytes above 127 in *)
(* UTF-8, whose index is negative.                                         *)
(***************************************************************************)
EXTENDS Table

AsciiKey == {<<97>>, <<97, 99>>, <<98>>, <<100>>}
Utf8Key == AsciiKey \cup {<<195, 169>>}
=============================================================================
