----------------------------- MODULE MCRollCall -----------------------------
(***************************************************************************)
(* One group of three students, two of them with one name.  Three faces in *)
(* batches of two.  The two namesakes can be swapped in every state.       *)
(***************************************************************************)
EXTENDS IdentificationScreen, TLC

CONSTANTS ann, secondAnn, bob, g1

MCPerson == {ann, secondAnn, bob}
MCGroup == {g1}
MCGroupOf == [p \in MCPerson |-> g1]
MCName == {"ann", "bob"}
MCNameOf == [p \in MCPerson |-> IF p = bob THEN "bob" ELSE "ann"]
MCNamesakes == Permutations({ann, secondAnn})
=============================================================================
