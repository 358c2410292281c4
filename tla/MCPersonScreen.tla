--------------------------- MODULE MCPersonScreen ---------------------------
(***************************************************************************)
(* Two persons, photos cut into two images, three faces, two taps.         *)
(***************************************************************************)
EXTENDS PersonScreen

CONSTANTS ann, bob

MCPerson == {ann, bob}
=============================================================================
