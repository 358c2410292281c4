---------------------------- MODULE PersonScreen ----------------------------
(***************************************************************************)
(* Enrolling students: MPOPersonFacesController, the screen of one person, *)
(* and MPOAddPersonFaceController, which it pushes to choose among the     *)
(* faces of a photo; below them the screen of the group they are opened    *)
(* from (MPOPersonGroupController).                                        *)
(*                                                                         *)
(* A face is added by one request for each image cut from the photo; the   *)
(* first that succeeds lists the face in the app.  The HUD goes with the   *)
(* first answer of any kind, the other answers come when they come.        *)
(*                                                                         *)
(* A HUD takes the taps, the back button's too, but not the edge swipe,    *)
(* which is a gesture of the navigation controller's view around it.  So a *)
(* screen can be left with its request under way; the HUD stays over the   *)
(* screens below until the answer.                                         *)
(*                                                                         *)
(* Names, HUDs shown for a moment and the photos' contents are left out.   *)
(***************************************************************************)
EXTENDS Integers, Sequences, FiniteSets, SequencesExt

CONSTANTS
    Person,      \* the persons the service may create in the group
    NoPerson,    \* self.person is nil
    Images,      \* images cut from a photo: 5 in the code
    MaxPhotos, MaxFaces, MaxTaps, MaxFacesPerImage   \* bounds of the model

ASSUME PersonAssumption ==
    /\ NoPerson \notin Person
    /\ Images \in Nat \ {0}
    /\ MaxPhotos \in Nat /\ MaxFaces \in Nat /\ MaxTaps \in Nat
    /\ MaxFacesPerImage \in Nat

VARIABLES
    screen,       \* the screen on top
    current,      \* self.person of the latest person's screen
    known,        \* the persons the service has created
    roster,       \* group.people
    listed,       \* listed[p]: the faces of p, objects by number
    faceId,       \* faceId[f]: the persisted id of face object f, 0 is nil
    gone,         \* the ids whose deletion the service has confirmed
    detected,     \* _detectedFaces, shared by both screens
    made,         \* how many faces were ever detected, for fresh objects
    photos,       \* how many photos were picked (bound)
    tiles,        \* detect requests still unanswered
    creating,     \* a createPerson request is under way
    updating,     \* an updatePerson request is under way
    deleting,     \* _selectFaceIndex of the delete request under way, or 0
    deletingFace, \* what it asked for: the face and its id (history)
    alert,        \* _selectedIndex while its alert is up, or 0
    asked,        \* the face that was tapped for it (history)
    adds,         \* the calls of addFace, in order
    given,        \* how many ids the service gave out for listed faces
    late,         \* persons a face was listed for after their screen was left
                  \* (history)
    needTraining, \* *self.needTraining
    crashed

personVars == <<current, known, roster>>
faceVars   == <<listed, faceId, gone>>
photoVars  == <<detected, made, photos, tiles>>
dialogVars == <<creating, updating, deleting, deletingFace, alert, asked>>
vars == <<screen, current, known, roster, listed, faceId, gone, detected,
          made, photos, tiles, creating, updating, deleting, deletingFace,
          alert, asked, adds, given, late, needTraining, crashed>>

FaceObject == 1..MaxFaces
NoFace == [face |-> 0, id |-> 0]

NotAsked == [face |-> 0, alone |-> TRUE]

\* removeObject: of a face; an array of detected faces has none twice.
Without(s, f) ==
    IF f \in ToSet(s) THEN RemoveAt(s, CHOOSE i \in DOMAIN s : s[i] = f) ELSE s

\* The person whose screen is up.
Shown == IF screen = "group" THEN NoPerson ELSE current

\* HUDs over the navigation controller's view, and the alert: no taps.
Blocked ==
    \/ tiles > 0 \/ creating \/ updating \/ deleting # 0 \/ alert # 0
    \/ \E a \in DOMAIN adds : adds[a].hud

Answering == \E a \in DOMAIN adds : adds[a].left > 0

-----------------------------------------------------------------------------
(* The group's screen and the life of a person. *)

\* "Add Person", or a tap on a face of a person: a person has as many cells
\* as faces, so none without.
OpenPerson(p) ==
    /\ ~crashed /\ ~Blocked /\ screen = "group"
    /\ p = NoPerson \/ (p \in roster /\ listed[p] # <<>>)
    /\ screen' = "person"
    /\ current' = p
    /\ detected' = <<>>
    /\ UNCHANGED <<known, roster, faceVars, made, photos, tiles, dialogVars,
                   adds, given, late, needTraining, crashed>>

\* One face is not enough.
DisappearedTwoFaces ==
    IF current # NoPerson /\ Len(listed[current]) > 1
      THEN roster \cup {current} ELSE roster

\* viewDidDisappear of the person's screen.
Disappeared ==
    IF current # NoPerson /\ listed[current] # <<>>
      THEN roster \cup {current} ELSE roster

CreatePerson ==
    /\ ~crashed /\ ~Blocked /\ screen = "person"
    /\ current = NoPerson
    /\ Person \ known # {}
    /\ creating' = TRUE
    /\ UNCHANGED <<screen, personVars, faceVars, photoVars, updating, deleting,
                   deletingFace, alert, asked, adds, given, late, needTraining, crashed>>

\* On failure self.person stays nil; the service may have created a person
\* all the same, whom nobody will ever know.  (Nor one who was created after
\* the screen was left: the screen is gone with its self.person.)
CreateAnswered(p, ok) ==
    /\ ~crashed /\ creating
    /\ p \in Person \ known
    /\ creating' = FALSE
    /\ IF ok THEN current' = p /\ known' = known \cup {p}
             ELSE current' = current /\ known' \in {known, known \cup {p}}
    /\ UNCHANGED <<screen, roster, faceVars, photoVars, updating, deleting,
                   deletingFace, alert, asked, adds, given, late, needTraining, crashed>>

\* "Save" for a person there is: the name is updated (names are left out).
UpdatePerson ==
    /\ ~crashed /\ ~Blocked /\ screen = "person"
    /\ current # NoPerson
    /\ updating' = TRUE
    /\ UNCHANGED <<screen, personVars, faceVars, photoVars, creating, deleting,
                   deletingFace, alert, asked, adds, given, late, needTraining, crashed>>

UpdateAnswered ==
    /\ ~crashed /\ updating
    /\ updating' = FALSE
    /\ UNCHANGED <<screen, personVars, faceVars, photoVars, creating, deleting,
                   deletingFace, alert, asked, adds, given, late, needTraining, crashed>>

\* The back button of either screen, or the edge swipe, which no HUD stops.
Back ==
    /\ ~crashed /\ alert = 0 /\ screen # "group"
    /\ screen' = IF screen = "add" THEN "person" ELSE "group"
    /\ roster' = IF screen = "person" THEN Disappeared ELSE roster
    /\ UNCHANGED <<current, known, faceVars, photoVars, dialogVars, adds, given,
                   late, needTraining, crashed>>

-----------------------------------------------------------------------------
(* The faces of a photo. *)

\* The picker covers the person's screen while it is up (it disappears if
\* the picker is presented full screen), then every image is sent.
PickPhoto ==
    /\ ~crashed /\ ~Blocked /\ screen = "person"
    /\ current # NoPerson
    /\ photos < MaxPhotos
    /\ photos' = photos + 1
    /\ roster' \in {roster, Disappeared}
    /\ detected' = <<>>
    /\ tiles' = Images
    /\ UNCHANGED <<screen, current, known, faceVars, made, dialogVars, adds,
                   given, late, needTraining, crashed>>

LastAnswer == tiles = 1

\* An image is answered with n faces (n = 0: or with an error).  With the
\* last answer the screen to choose from is pushed over this one; a screen
\* that was left has no navigation controller to push with.
TileAnswered(n) ==
    /\ ~crashed /\ tiles > 0
    /\ made + n <= MaxFaces
    /\ detected' = detected \o [i \in 1..n |-> made + i]
    /\ made' = made + n
    /\ tiles' = tiles - 1
    /\ IF LastAnswer /\ screen = "person"
         THEN screen' = "add" /\ roster' = Disappeared
         ELSE UNCHANGED <<screen, roster>>
    /\ UNCHANGED <<current, known, faceVars, photos, dialogVars, adds, given,
                   late, needTraining, crashed>>

-----------------------------------------------------------------------------
(* Choosing and adding a face. *)

\* The alert is shown for the index of an earlier tap.
IndexKept(i) == IF adds = <<>> THEN i ELSE 1
IndexOfTap(i) == i

\* A tap on a face; history: whether all older requests were answered.
SelectFace(i) ==
    /\ ~crashed /\ ~Blocked /\ screen = "add"
    /\ i \in DOMAIN detected
    /\ alert' = IndexOfTap(i)
    /\ asked' = [face |-> detected[i], alone |-> ~Answering]
    /\ UNCHANGED <<screen, personVars, faceVars, photoVars, creating, updating, deleting,
                   deletingFace, adds, given, late, needTraining, crashed>>

DeclineFace ==
    /\ ~crashed /\ alert # 0
    /\ alert' = 0 /\ asked' = NotAsked
    /\ UNCHANGED <<screen, personVars, faceVars, photoVars, creating, updating, deleting,
                   deletingFace, adds, given, late, needTraining, crashed>>

\* "Yes": the index is looked up now, in the array as it is now.
ConfirmFace ==
    /\ ~crashed /\ alert # 0
    /\ Len(adds) < MaxTaps
    /\ alert' = 0 /\ asked' = NotAsked
    /\ IF alert \in DOMAIN detected
         THEN /\ adds' = Append(adds,
                     [person |-> current, photo |-> photos, face |-> detected[alert],
                      asked |-> asked.face, alone |-> asked.alone,
                      left |-> Images, added |-> FALSE, hud |-> TRUE])
              /\ UNCHANGED crashed
         ELSE crashed' = TRUE /\ UNCHANGED adds
    /\ UNCHANGED <<screen, personVars, faceVars, photoVars, creating, updating, deleting,
                   deletingFace, given, late, needTraining>>

\* A completion block that may be run once more after its request is over.
UnansweredOrDone(a) == adds[a].left >= 0
Unanswered(a) == adds[a].left > 0

\* Every answer counts, the flag is never looked at.
ListsAlways(a) == TRUE
ListsFirst(a) == ~adds[a].added

\* The HUD stays up until a request has succeeded.
HudUntilSuccess(a, ok) == adds[a].hud /\ ~ok
HudAfterAnswer(a, ok) == FALSE

\* A request of addFace is answered.  Only the first success is used; the
\* service keeps the faces of the others.
AddAnswered(a, ok) ==
    LET f == adds[a].face
        lists == ok /\ ListsFirst(a)
    IN
    /\ ~crashed
    /\ Unanswered(a)
    /\ adds' = [adds EXCEPT ![a].left = @ - 1,
                            ![a].hud = HudAfterAnswer(a, ok),
                            ![a].added = @ \/ ok]
    /\ IF lists
         THEN /\ given' = given + 1
              /\ faceId' = [faceId EXCEPT ![f] = given + 1]
              /\ listed' = [listed EXCEPT ![adds[a].person] = Append(@, f)]
              /\ detected' = Without(detected, f)
              /\ needTraining' = TRUE
              /\ late' = IF adds[a].person = Shown THEN late
                         ELSE late \cup {adds[a].person}
         ELSE UNCHANGED <<given, faceId, listed, detected, late, needTraining>>
    /\ UNCHANGED <<screen, personVars, gone, made, photos, tiles, dialogVars,
                   crashed>>

\* The Add screen of the call was left.
NoView(a) == screen # "add" \/ adds[a].photo # photos

\* The notices of answers that come after their screen was left (the first
\* success of a tap, a creation, a failed deletion) have no view.  That ends
\* the app in a build with assertions; in another it goes on as ever.
NoticeAsserts ==
    /\ ~crashed
    /\ \/ screen = "group" /\ (creating \/ deleting # 0)
       \/ \E a \in DOMAIN adds : Unanswered(a) /\ ListsFirst(a) /\ NoView(a)
    /\ crashed' = TRUE
    /\ UNCHANGED <<screen, personVars, faceVars, photoVars, dialogVars, adds, given,
                   late, needTraining>>

-----------------------------------------------------------------------------
(* Deleting a face. *)

\* A long press, and "Yes".
DeleteFace(i) ==
    /\ ~crashed /\ ~Blocked /\ screen = "person"
    /\ current # NoPerson
    /\ i \in DOMAIN listed[current]
    /\ deleting' = i
    /\ deletingFace' = [face |-> listed[current][i],
                        id |-> faceId[listed[current][i]]]
    /\ UNCHANGED <<screen, personVars, faceVars, photoVars, creating, updating, alert,
                   asked, adds, given, late, needTraining, crashed>>

\* The newest face, whatever was asked; a neighbour's index.
DeletedNewest == Len(listed[current])
DeletedIndexOff == IF deleting < Len(listed[current]) THEN deleting + 1 ELSE deleting
DeletedIndex == deleting

DeleteAnswered(ok) ==
    /\ ~crashed /\ deleting # 0
    /\ deleting' = 0
    /\ deletingFace' = NoFace
    /\ IF ok THEN /\ listed' = [listed EXCEPT ![current] = RemoveAt(@, DeletedIndex)]
                  /\ gone' = gone \cup {deletingFace.id}
             ELSE UNCHANGED <<listed, gone>>
    /\ UNCHANGED <<screen, personVars, faceId, photoVars, creating, updating, alert,
                   asked, adds, given, late, needTraining, crashed>>

-----------------------------------------------------------------------------
Init ==
    /\ screen = "group"
    /\ current = NoPerson
    /\ known = {}
    /\ roster = {}
    /\ listed = [p \in Person |-> <<>>]
    /\ faceId = [f \in FaceObject |-> 0]
    /\ gone = {}
    /\ detected = <<>>
    /\ made = 0
    /\ photos = 0
    /\ tiles = 0
    /\ creating = FALSE
    /\ updating = FALSE
    /\ deleting = 0
    /\ deletingFace = NoFace
    /\ alert = 0
    /\ asked = NotAsked
    /\ adds = <<>>
    /\ given = 0
    /\ late = {}
    /\ needTraining = FALSE
    /\ crashed = FALSE

Next ==
    \/ \E p \in Person \cup {NoPerson} : OpenPerson(p)
    \/ CreatePerson \/ UpdatePerson \/ UpdateAnswered
    \/ \E p \in Person, ok \in BOOLEAN : CreateAnswered(p, ok)
    \/ Back
    \/ PickPhoto
    \/ \E n \in 0..MaxFacesPerImage : TileAnswered(n)
    \/ \E i \in FaceObject : SelectFace(i)
    \/ DeclineFace \/ ConfirmFace
    \/ \E a \in 1..MaxTaps, ok \in BOOLEAN :
          a \in DOMAIN adds /\ AddAnswered(a, ok)
    \/ NoticeAsserts
    \/ \E i \in 1..MaxTaps : DeleteFace(i)
    \/ \E ok \in BOOLEAN : DeleteAnswered(ok)

Spec == Init /\ [][Next]_vars

\* Every request is answered, and the user answers an alert.
FairSpec ==
    /\ Spec
    /\ WF_vars(\E n \in 0..MaxFacesPerImage : TileAnswered(n))
    /\ WF_vars(\E p \in Person, ok \in BOOLEAN : CreateAnswered(p, ok))
    /\ WF_vars(UpdateAnswered)
    /\ WF_vars(\E ok \in BOOLEAN : DeleteAnswered(ok))
    /\ WF_vars(DeclineFace \/ ConfirmFace)
    /\ \A a \in 1..MaxTaps :
          WF_vars(\E ok \in BOOLEAN : a \in DOMAIN adds /\ AddAnswered(a, ok))

-----------------------------------------------------------------------------
Add == [person : Person, photo : 0..MaxPhotos, face : FaceObject, asked : FaceObject,
        alone : BOOLEAN, left : 0..Images, added : BOOLEAN, hud : BOOLEAN]

\* The variables have the types of the screens' members.
TypeOK ==
    /\ screen \in {"group", "person", "add"}
    /\ current \in Person \cup {NoPerson}
    /\ known \subseteq Person
    /\ roster \subseteq Person
    /\ listed \in [Person -> Seq(FaceObject)]
    /\ faceId \in [FaceObject -> Nat]
    /\ gone \subseteq Nat
    /\ detected \in Seq(FaceObject)
    /\ made \in 0..MaxFaces
    /\ photos \in 0..MaxPhotos
    /\ tiles \in 0..Images
    /\ creating \in BOOLEAN
    /\ updating \in BOOLEAN
    /\ deleting \in Nat
    /\ deletingFace \in [face : 0..MaxFaces, id : Nat]
    /\ alert \in 0..MaxFaces
    /\ asked \in [face : 0..MaxFaces, alone : BOOLEAN]
    /\ adds \in Seq(Add)
    /\ given \in Nat
    /\ late \subseteq Person
    /\ needTraining \in BOOLEAN
    /\ crashed \in BOOLEAN

\* The face that disappears from the list is the one whose deletion was
\* asked for, although it is looked up by its index when the answer comes
\* and adds may be answered meanwhile.
DeleteRemovesAsked ==
    [][ \A p \in Person : Len(listed'[p]) < Len(listed[p]) =>
          \E i \in DOMAIN listed[p] :
              listed'[p] = RemoveAt(listed[p], i) /\ listed[p][i] = deletingFace.face ]_vars

\* A tap lists its face at most once, however many of its requests succeed.
OneEntryPerTap ==
    \A p \in Person :
        Len(listed[p]) <=
            Cardinality({a \in DOMAIN adds : adds[a].person = p /\ adds[a].added})

AddedOnce(f) == Cardinality({a \in DOMAIN adds : adds[a].face = f}) = 1

\* A face whose deletion was confirmed is not listed any more, unless it
\* was added more than once.
DeletedFaceGone ==
    \A p \in Person : \A i \in DOMAIN listed[p] :
        AddedOnce(listed[p][i]) => faceId[listed[p][i]] \notin gone

\* If no older request was under way when a face was tapped, "Yes" adds that
\* face.
UndisturbedTapAdded ==
    \A a \in DOMAIN adds : adds[a].alone => adds[a].face = adds[a].asked

\* Back on the group's screen, a person with faces is on the roster, unless
\* a request for one of them succeeded only after the person's screen was left.
LeftPersonListed ==
    \A p \in Person :
        screen = "group" /\ listed[p] # <<>> /\ p \notin late => p \in roster

WithFace == {p \in Person : listed[p] # <<>>}
PendingAdds ==
    {[tap |-> a, person |-> adds[a].person] :
        a \in {n \in DOMAIN adds : Unanswered(n) /\ ~adds[n].added}}

Waiting == IF creating THEN "person" ELSE IF deleting # 0 THEN "face" ELSE "none"

\* The screens do for the group's screen what module GroupScreen takes from
\* them: however many requests a call of addFace makes, however late they are
\* answered, it lists one face or none, and the rest is as on a roster.
Enrol == INSTANCE Enrolment
    WITH onTop   <- screen # "group",
         person  <- current,
         waiting <- Waiting,
         used    <- known,
         hasFace <- WithFace,
         adds    <- PendingAdds,
         MaxAdds <- MaxTaps

ImplementsEnrolment == Enrol!Spec

\* The screens never stay covered.
Unblocks == Blocked ~> (~Blocked \/ crashed)

\* "Do you want to add this face?" (MPOAddPersonFaceController.m:156): the
\* face that is added is the one that was tapped.
TappedFaceAdded == \A a \in DOMAIN adds : adds[a].face = adds[a].asked
=============================================================================
