--------------------------- MODULE MCGroupScreen ---------------------------
(***************************************************************************)
(* Two groups, two persons, two visits, two adds under way.              *)
(***************************************************************************)
EXTENDS GroupScreen

CONSTANTS cs1, cs2, ann, bob

MCGroup == {cs1, cs2}
MCPerson == {ann, bob}
=============================================================================
