------------------------------ MODULE FaceApi ------------------------------
(***************************************************************************)
(* The endpoints of MPOFaceServiceClient and how each of them decodes the  *)
(* body of a reply.  The methods differ in little else: they all go        *)
(* through startTaskWithHttpMethod and runCompletionOnMainQueueWithBlock.  *)
(* One record per section of MPOFaceServiceClient.m; methods that only     *)
(* forward to another one with default arguments are not repeated.         *)
(*                                                                         *)
(*   ack           the body is ignored, only the error is passed on        *)
(*   strictList    a JSON array is decoded, anything else gives an empty   *)
(*                 array (isKindOfClass:[NSArray class])                   *)
(*   looseList     the body is enumerated whatever it is                   *)
(*   strictObject  a JSON object is decoded, anything else gives nil       *)
(*   looseObject   the body is handed to initWithDictionary: whatever it is*)
(***************************************************************************)
EXTENDS TLC

\* detect ... group
FaceOps ==
    [detect      |-> "strictList",  verify      |-> "strictObject",
     identify    |-> "strictList",  findSimilar |-> "looseList",
     group       |-> "strictObject"]

PersonGroupOps ==
    [createPersonGroup |-> "ack",   getPersonGroup    |-> "looseObject",
     updatePersonGroup |-> "ack",   deletePersonGroup |-> "ack",
     listPersonGroups  |-> "looseList", trainPersonGroup |-> "ack",
     getPersonGroupTrainingStatus |-> "looseObject"]

LargePersonGroupOps ==
    [createLargePersonGroup |-> "ack", deleteLargePersonGroup |-> "ack",
     updateLargePersonGroup |-> "ack", getLargePersonGroup |-> "looseObject",
     listLargePersonGroups |-> "looseList", trainLargePersonGroup |-> "ack",
     getLargePersonGroupTrainingStatus |-> "looseObject"]

PersonOps ==
    [createPerson |-> "looseObject", getPerson    |-> "looseObject",
     updatePerson |-> "ack",         deletePerson |-> "ack",
     listPersons  |-> "looseList"]

LargePersonOps ==
    [createLargePerson |-> "looseObject", deleteLargePerson |-> "ack",
     updateLargePerson |-> "ack",         getLargePerson |-> "looseObject",
     listLargePersons  |-> "looseList"]

PersonFaceOps ==
    [getPersonFace    |-> "looseObject", updatePersonFace |-> "ack",
     deletePersonFace |-> "ack",         addPersonFace    |-> "looseObject"]

LargePersonFaceOps ==
    [addLargePersonFace    |-> "looseObject", deleteLargePersonFace |-> "ack",
     updateLargePersonFace |-> "ack",         getLargePersonFace |-> "looseObject"]

FaceListOps ==
    [createFaceList |-> "ack",       getFaceList    |-> "looseObject",
     listFaceLists  |-> "looseList", updateFaceList |-> "ack",
     deleteFaceList |-> "ack",       deleteFaceFromFaceList |-> "ack",
     addFaceToFaceList |-> "looseObject"]

LargeFaceListOps ==
    [createLargeFaceList |-> "ack",         deleteLargeFaceList |-> "ack",
     getLargeFaceList    |-> "looseObject", listLargeFaceLists  |-> "looseList",
     updateLargeFaceList |-> "ack",         trainLargeFaceList  |-> "ack",
     getLargeFaceListTrainingStatus |-> "looseObject"]

LargeFaceListFaceOps ==
    [addFaceInLargeFaceList      |-> "looseObject",
     deleteFaceFromLargeFaceList |-> "ack",
     updateFaceInLargeFaceList   |-> "ack",
     getFaceInLargeFaceList      |-> "looseObject",
     listFacesInLargeFaceList    |-> "looseList"]

\* The decoding of every endpoint, by name.
KindOfOp ==
    FaceOps @@ PersonGroupOps @@ LargePersonGroupOps @@ PersonOps
    @@ LargePersonOps @@ PersonFaceOps @@ LargePersonFaceOps @@ FaceListOps
    @@ LargeFaceListOps @@ LargeFaceListFaceOps
=============================================================================
