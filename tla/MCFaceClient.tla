---------------------------- MODULE MCFaceClient ----------------------------
(***************************************************************************)
(* Four calls, one for each way an endpoint decodes more than an error,    *)
(* with the decoding the endpoint really has.                              *)
(***************************************************************************)
EXTENDS FaceClient

Api == INSTANCE FaceApi

MCCall == {"identify", "listLargePersonGroups", "verify", "createLargePerson"}
MCKindOf == [c \in MCCall |-> Api!KindOfOp[c]]
=============================================================================
