----------------------------- MODULE MCPatricia -----------------------------
(* Canonical keys as nibbles: the empty key, one byte, two extensions of   *)
(* it, one of which starts with a zero nibble, and another byte.  Callers  *)
(* use a sixth key, which canonize_cb maps to the second.                  *)
EXTENDS Patricia

MCNibbles == << << >>, <<0, 1>>, <<0, 1, 0, 2>>, <<0, 1, 2, 1>>, <<2, 1>> >>

MCCanon == <<1, 2, 3, 4, 5, 2>>
=============================================================================
