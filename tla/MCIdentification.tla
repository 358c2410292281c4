-------------------------- MODULE MCIdentification --------------------------
(***************************************************************************)
(* Two groups; the only student of the second shares her name with a       *)
(* student of the first.                                                   *)
(***************************************************************************)
EXTENDS IdentificationScreen

CONSTANTS ann, bob, otherAnn, g1, g2

MCPerson == {ann, bob, otherAnn}
MCGroup == {g1, g2}
MCGroupOf == [p \in MCPerson |-> IF p = otherAnn THEN g2 ELSE g1]
MCName == {"ann", "bob"}
MCNameOf == [p \in MCPerson |-> IF p = bob THEN "bob" ELSE "ann"]
=============================================================================
