---------------------------- MODULE PersonProofs ----------------------------
(***************************************************************************)
(* The screens of a person, for any number of persons, photos, images and  *)
(* taps.                                                                   *)
(*                                                                         *)
(*   DialogInv  says over which screen a request or the alert can be, and  *)
(*              that they exclude each other;                              *)
(*   PlaceInv   keeps the index of a deletion and of a tap on the face it  *)
(*              was made for;                                              *)
(*   LeftInv    keeps everybody with a face on the roster, except for the  *)
(*              person on display and those whose face came late;          *)
(*   FaceInv    counts the entries of the lists against the taps, keeps    *)
(*              the ids apart, and a face that was added once in one place. *)
(***************************************************************************)
EXTENDS PersonScreen, SequenceLemmas, FiniteSetTheorems

DialogInv ==
    /\ screen = "add" => current \in Person
    /\ tiles > 0 => screen # "add" /\ current \in Person /\ deleting = 0
    /\ creating => screen # "add" /\ current = NoPerson
    /\ deleting # 0 => screen # "add" /\ current \in Person
    /\ alert # 0 => screen = "add" /\ asked.face \in FaceObject

PlaceInv ==
    /\ deleting # 0 =>
          /\ deleting \in DOMAIN listed[current]
          /\ listed[current][deleting] = deletingFace.face
    /\ alert # 0 /\ asked.alone =>
          ~Answering /\ alert \in DOMAIN detected /\ detected[alert] = asked.face

LeftInv ==
    \A p \in Person :
        p # Shown /\ listed[p] # <<>> /\ p \notin late => p \in roster

PersonInv == TypeOK /\ DialogInv /\ PlaceInv /\ UndisturbedTapAdded /\ LeftInv

-----------------------------------------------------------------------------
(* Types. *)

LEMMA WithoutType ==
    ASSUME NEW S, NEW s \in Seq(S), NEW f
    PROVE  Without(s, f) \in Seq(S)
<1>1. CASE f \in ToSet(s)
  <2>1. \E i \in DOMAIN s : s[i] = f
    BY <1>1 DEF ToSet
  <2>2. (CHOOSE i \in DOMAIN s : s[i] = f) \in 1..Len(s)
    BY <2>1
  <2> QED
    BY <1>1, <2>2, RemoveAtElements DEF Without
<1>2. CASE f \notin ToSet(s)
  BY <1>2 DEF Without
<1> QED
  BY <1>1, <1>2

LEMMA FaceObjectRange == FaceObject \subseteq 0..MaxFaces
BY PersonAssumption DEF FaceObject

\* The roster a disappearing screen leaves.
LEMMA DisappearedType == TypeOK => Disappeared \subseteq Person
BY DEF TypeOK, Disappeared

LEMMA InitPerson == Init => PersonInv
<1> SUFFICES ASSUME Init PROVE PersonInv
  OBVIOUS
<1>1. TypeOK
  <2>1. faceId \in [FaceObject -> Nat] /\ listed \in [Person -> Seq(FaceObject)]
    BY DEF Init
  <2>2. NoFace \in [face : 0..MaxFaces, id : Nat] /\ asked \in [face : 0..MaxFaces, alone : BOOLEAN]
    BY PersonAssumption DEF Init, NoFace, NotAsked
  <2>3. 0 \in 0..MaxFaces /\ 0 \in 0..MaxPhotos /\ 0 \in 0..Images
    BY PersonAssumption
  <2>4. adds \in Seq(Add) /\ detected \in Seq(FaceObject)
    BY DEF Init
  <2> QED
    BY <2>1, <2>2, <2>3, <2>4 DEF Init, TypeOK
<1>2. DialogInv /\ PlaceInv
  BY DEF Init, DialogInv, PlaceInv
<1>3. UndisturbedTapAdded /\ LeftInv
  BY DEF Init, UndisturbedTapAdded, LeftInv
<1> QED
  BY <1>1, <1>2, <1>3 DEF PersonInv

-----------------------------------------------------------------------------
(* The group's screen and the life of a person. *)

\* The person who was on display is on the roster if he has a face.
LEMMA DisappearedLeft ==
    ASSUME TypeOK, LeftInv, NEW p \in Person, listed[p] # <<>>, p \notin late,
           screen # "group"
    PROVE  p \in Disappeared
BY PersonAssumption DEF TypeOK, LeftInv, Disappeared, Shown

LEMMA OpenPersonInv ==
    ASSUME PersonInv, NEW p \in Person \cup {NoPerson}, OpenPerson(p)
    PROVE  PersonInv'
<1> USE DEF PersonInv
<1>1. /\ screen = "group"
      /\ screen' = "person" /\ current' = p /\ detected' = <<>>
      /\ tiles = 0 /\ ~creating /\ deleting = 0 /\ alert = 0
      /\ UNCHANGED <<known, roster, faceVars, made, photos, tiles, dialogVars,
                     adds, given, late, needTraining, crashed>>
  BY DEF OpenPerson, Blocked, DialogInv, TypeOK
<1>2. TypeOK'
  BY <1>1 DEF TypeOK, faceVars, dialogVars
<1>3. DialogInv' /\ PlaceInv'
  BY <1>1 DEF DialogInv, PlaceInv, dialogVars
<1>4. UndisturbedTapAdded'
  BY <1>1 DEF UndisturbedTapAdded
<1>5. LeftInv'
  BY <1>1, PersonAssumption DEF LeftInv, Shown, faceVars
<1> QED
  BY <1>2, <1>3, <1>4, <1>5

LEMMA CreateInv ==
    ASSUME PersonInv,
           CreatePerson \/ \E p \in Person, ok \in BOOLEAN : CreateAnswered(p, ok)
    PROVE  PersonInv'
<1> USE DEF PersonInv
<1>1. CASE CreatePerson
  <2>1. TypeOK'
    BY <1>1 DEF CreatePerson, TypeOK, personVars, faceVars, photoVars
  <2>2. DialogInv' /\ PlaceInv'
    BY <1>1 DEF CreatePerson, Blocked, DialogInv, PlaceInv, Answering, personVars,
       faceVars, photoVars
  <2>3. UndisturbedTapAdded' /\ LeftInv'
    BY <1>1 DEF CreatePerson, UndisturbedTapAdded, LeftInv, Shown, personVars, faceVars
  <2> QED
    BY <2>1, <2>2, <2>3
<1>2. ASSUME NEW p \in Person, NEW ok \in BOOLEAN, CreateAnswered(p, ok)
      PROVE  PersonInv'
  <2>1. /\ screen # "add" /\ current = NoPerson /\ screen' = screen
        /\ current' \in {NoPerson, p} /\ creating' = FALSE
        /\ known' \subseteq known \cup {p}
        /\ tiles <= 0 /\ deleting = 0 /\ alert = 0
        /\ UNCHANGED <<roster, faceVars, photoVars, deleting, deletingFace,
                       updating, alert, asked, adds, given, late, needTraining,
                       crashed>>
    BY <1>2, PersonAssumption DEF CreateAnswered, DialogInv, TypeOK
  <2>2. TypeOK'
    BY <2>1 DEF TypeOK, faceVars, photoVars
  <2>3. DialogInv' /\ PlaceInv'
    BY <2>1 DEF TypeOK, DialogInv, PlaceInv, photoVars
  <2>4. UndisturbedTapAdded' /\ LeftInv'
    BY <2>1, PersonAssumption DEF UndisturbedTapAdded, LeftInv, Shown, faceVars
  <2> QED
    BY <2>2, <2>3, <2>4
<1> QED
  BY <1>1, <1>2

\* Renaming a person puts up a HUD and takes it down.
LEMMA UpdateInv ==
    ASSUME PersonInv, UpdatePerson \/ UpdateAnswered
    PROVE  PersonInv'
<1> USE DEF PersonInv
<1>1. /\ updating' \in BOOLEAN
      /\ UNCHANGED <<screen, personVars, faceVars, photoVars, creating, deleting,
                     deletingFace, alert, asked, adds, given, late, needTraining,
                     crashed>>
  BY DEF UpdatePerson, UpdateAnswered
<1>2. TypeOK'
  BY <1>1 DEF TypeOK, personVars, faceVars, photoVars
<1>3. DialogInv' /\ PlaceInv'
  BY <1>1 DEF DialogInv, PlaceInv, Answering, personVars, faceVars, photoVars
<1>4. UndisturbedTapAdded' /\ LeftInv'
  BY <1>1 DEF UndisturbedTapAdded, LeftInv, Shown, personVars, faceVars
<1> QED
  BY <1>2, <1>3, <1>4

\* A screen may be left with its requests under way.
LEMMA BackInv ==
    ASSUME PersonInv, Back
    PROVE  PersonInv'
<1> USE DEF PersonInv
<1>1. /\ alert = 0 /\ screen # "group" /\ screen' # "add"
      /\ UNCHANGED <<current, known, faceVars, photoVars, dialogVars, adds, given,
                     late, needTraining, crashed>>
  BY DEF Back
<1>2. DialogInv' /\ PlaceInv'
  BY <1>1 DEF DialogInv, PlaceInv, Answering, faceVars, photoVars, dialogVars
<1>3. CASE screen = "person"
  <2>1. screen' = "group" /\ roster' = Disappeared
    BY <1>3 DEF Back
  <2>2. TypeOK'
    BY <1>1, <2>1, DisappearedType DEF TypeOK, faceVars, photoVars, dialogVars
  <2>3. LeftInv'
    BY <1>1, <2>1, DisappearedLeft DEF LeftInv, faceVars
  <2> QED
    BY <1>1, <1>2, <2>2, <2>3 DEF UndisturbedTapAdded
<1>4. CASE screen = "add"
  <2>1. screen' = "person" /\ UNCHANGED roster
    BY <1>4 DEF Back
  <2>2. TypeOK'
    BY <1>1, <2>1 DEF TypeOK, faceVars, photoVars, dialogVars
  <2> QED
    BY <1>1, <1>2, <1>4, <2>1, <2>2 DEF UndisturbedTapAdded, LeftInv, Shown, faceVars
<1> QED
  BY <1>1, <1>3, <1>4 DEF TypeOK

-----------------------------------------------------------------------------
(* The faces of a photo. *)

LEMMA PickPhotoInv ==
    ASSUME PersonInv, PickPhoto
    PROVE  PersonInv'
<1> USE DEF PersonInv
<1>1. /\ tiles = 0 /\ ~creating /\ deleting = 0 /\ alert = 0
      /\ screen = "person" /\ current \in Person
      /\ photos' = photos + 1 /\ photos' \in 0..MaxPhotos
      /\ detected' = <<>> /\ tiles' = Images /\ Images \in Nat
      /\ roster' \in {roster, Disappeared}
      /\ UNCHANGED <<screen, current, known, faceVars, made, dialogVars, adds,
                     given, late, needTraining, crashed>>
  BY PersonAssumption DEF PickPhoto, Blocked, TypeOK
<1>2. TypeOK'
  BY <1>1, DisappearedType DEF TypeOK, faceVars, dialogVars
<1>3. DialogInv' /\ PlaceInv'
  BY <1>1 DEF DialogInv, PlaceInv, dialogVars
<1>4. LeftInv'
  BY <1>1, DisappearedLeft DEF LeftInv, Shown, faceVars
<1> QED
  BY <1>1, <1>2, <1>3, <1>4 DEF UndisturbedTapAdded

LEMMA TileInv ==
    ASSUME PersonInv, NEW n \in 0..MaxFacesPerImage, TileAnswered(n)
    PROVE  PersonInv'
<1> USE DEF PersonInv
<1>1. /\ tiles > 0 /\ screen # "add" /\ current \in Person
      /\ ~creating /\ deleting = 0 /\ alert = 0
      /\ tiles' = tiles - 1 /\ tiles \in 0..Images
      /\ \/ UNCHANGED <<screen, roster>>
         \/ /\ screen = "person" /\ screen' = "add" /\ tiles' = 0
            /\ roster' = Disappeared
      /\ UNCHANGED <<current, known, faceVars, photos, dialogVars, adds, given,
                     late, needTraining, crashed>>
  BY PersonAssumption DEF TileAnswered, LastAnswer, DialogInv, TypeOK
<1>2. made' \in 0..MaxFaces /\ detected' \in Seq(FaceObject)
  <2> DEFINE new == [i \in 1..n |-> made + i]
  <2>1. /\ made \in Nat /\ n \in Nat /\ made + n <= MaxFaces
        /\ made' = made + n /\ detected' = detected \o new
    BY PersonAssumption DEF TileAnswered, TypeOK
  <2>2. \A i \in 1..n : made + i \in FaceObject
    BY <2>1, PersonAssumption DEF FaceObject
  <2>3. new \in Seq(FaceObject)
    BY <2>1, <2>2
  <2> HIDE DEF new
  <2>4. detected \o new \in Seq(FaceObject)
    BY <2>3 DEF TypeOK
  <2> QED
    BY <2>1, <2>4, PersonAssumption
<1>3. TypeOK'
  <2>1. tiles' \in 0..Images
    BY <1>1, PersonAssumption
  <2> QED
    BY <1>1, <1>2, <2>1, DisappearedType DEF TypeOK, faceVars, dialogVars
<1>4. DialogInv' /\ PlaceInv'
  BY <1>1 DEF DialogInv, PlaceInv, dialogVars
<1>5. LeftInv'
  BY <1>1, DisappearedLeft DEF LeftInv, Shown, faceVars
<1> QED
  BY <1>1, <1>3, <1>4, <1>5 DEF UndisturbedTapAdded
-----------------------------------------------------------------------------
(* Choosing and adding a face. *)

LEMMA SelectFaceInv ==
    ASSUME PersonInv, NEW i \in FaceObject, SelectFace(i)
    PROVE  PersonInv'
<1> USE DEF PersonInv
<1>1. /\ tiles = 0 /\ ~creating /\ deleting = 0 /\ screen = "add"
      /\ i \in DOMAIN detected /\ alert' = i
      /\ asked' = [face |-> detected[i], alone |-> ~Answering]
      /\ UNCHANGED <<screen, personVars, faceVars, photoVars, creating, updating, deleting,
                     deletingFace, adds, given, late, needTraining, crashed>>
  BY DEF SelectFace, IndexOfTap, Blocked, TypeOK
<1>2. detected[i] \in FaceObject /\ FaceObject \subseteq 0..MaxFaces
  <2>1. detected \in Seq(FaceObject)
    BY DEF TypeOK
  <2> QED
    BY <1>1, <2>1, FaceObjectRange
<1>3. /\ asked' \in [face : 0..MaxFaces, alone : BOOLEAN]
      /\ asked'.face = detected[i] /\ (asked'.alone => ~Answering)
  <2> DEFINE quiet == ~Answering
  <2>1. quiet \in BOOLEAN /\ asked' = [face |-> detected[i], alone |-> quiet]
    BY <1>1
  <2>2. quiet => ~Answering
    OBVIOUS
  <2> HIDE DEF quiet
  <2>3. asked' \in [face : 0..MaxFaces, alone : BOOLEAN]
    BY <2>1, <1>2
  <2>4. asked'.face = detected[i] /\ asked'.alone = quiet
    BY <2>1
  <2> QED
    BY <2>2, <2>3, <2>4
<1>4. TypeOK'
  BY <1>1, <1>2, <1>3 DEF TypeOK, personVars, faceVars, photoVars
<1>5. DialogInv'
  BY <1>1, <1>2, <1>3 DEF DialogInv, personVars, photoVars
<1>6. PlaceInv'
  BY <1>1, <1>3 DEF PlaceInv, Answering, personVars, faceVars, photoVars
<1>7. UndisturbedTapAdded' /\ LeftInv'
  BY <1>1 DEF UndisturbedTapAdded, LeftInv, Shown, personVars, faceVars
<1> QED
  BY <1>4, <1>5, <1>6, <1>7

\* The face that is added is the one the alert was shown for, if nothing
\* came in between.
LEMMA AlertInv ==
    ASSUME PersonInv, DeclineFace \/ ConfirmFace
    PROVE  PersonInv'
<1> USE DEF PersonInv
<1>1. /\ alert # 0 /\ alert' = 0 /\ asked' = NotAsked
      /\ UNCHANGED <<screen, personVars, faceVars, photoVars, creating, updating, deleting,
                     deletingFace, given, late, needTraining>>
  BY DEF DeclineFace, ConfirmFace
<1>2. screen = "add" /\ current \in Person /\ asked.face \in FaceObject
      /\ deleting = 0
  BY <1>1 DEF DialogInv
<1>3. /\ adds' \in Seq(Add) /\ crashed' \in BOOLEAN
      /\ UndisturbedTapAdded'
  <2>1. CASE UNCHANGED adds
    BY <2>1 DEF TypeOK, DeclineFace, ConfirmFace, UndisturbedTapAdded
  <2>2. CASE ConfirmFace /\ alert \in DOMAIN detected
    <3> DEFINE new == [person |-> current, photo |-> photos, face |-> detected[alert],
                       asked |-> asked.face, alone |-> asked.alone,
                       left |-> Images, added |-> FALSE, hud |-> TRUE]
    <3>1. adds' = Append(adds, new) /\ UNCHANGED crashed
      BY <2>2 DEF ConfirmFace
    <3>2. detected[alert] \in FaceObject /\ asked.alone \in BOOLEAN
          /\ Images \in 0..Images /\ photos \in 0..MaxPhotos
      BY <2>2, PersonAssumption DEF TypeOK
    <3>3. new \in Add
      BY <1>2, <3>2 DEF Add
    <3>4. new.alone => new.face = new.asked
      BY <1>1 DEF PlaceInv
    <3> HIDE DEF new
    <3>5. adds \in Seq(Add) /\ adds' \in Seq(Add)
      BY <3>1, <3>3 DEF TypeOK
    <3>6. \A a \in DOMAIN adds' :
             (a \in DOMAIN adds /\ adds'[a] = adds[a]) \/ adds'[a] = new
      BY <3>1, <3>3, <3>5
    <3> QED
      BY <3>1, <3>4, <3>5, <3>6 DEF UndisturbedTapAdded, TypeOK
  <2> QED
    BY <2>1, <2>2 DEF DeclineFace, ConfirmFace
<1>4. TypeOK'
  BY <1>1, <1>3, PersonAssumption DEF TypeOK, NotAsked, personVars, faceVars, photoVars
<1>5. DialogInv' /\ PlaceInv'
  BY <1>1, <1>2 DEF DialogInv, PlaceInv, personVars, faceVars, photoVars
<1>6. LeftInv'
  BY <1>1 DEF LeftInv, Shown, personVars, faceVars
<1> QED
  BY <1>3, <1>4, <1>5, <1>6

\* An answer to an add: the other calls stay, and who asked, for what.
LEMMA AddRecord ==
    ASSUME TypeOK, NEW a \in DOMAIN adds, NEW ok \in BOOLEAN, AddAnswered(a, ok)
    PROVE  /\ adds' \in Seq(Add) /\ DOMAIN adds' = DOMAIN adds
           /\ \A b \in DOMAIN adds :
                 /\ adds'[b].person = adds[b].person
                 /\ adds'[b].face = adds[b].face
                 /\ adds'[b].asked = adds[b].asked
                 /\ adds'[b].alone = adds[b].alone
           /\ \A b \in DOMAIN adds : b # a => adds'[b] = adds[b]
           /\ adds'[a].left = adds[a].left - 1
           /\ adds'[a].added = (adds[a].added \/ ok)
<1> DEFINE hud == HudAfterAnswer(a, ok)
           added == adds[a].added \/ ok
           less == adds[a].left - 1
           new == [adds[a] EXCEPT !.left = less, !.hud = hud, !.added = added]
<1>1. adds \in Seq(Add) /\ adds[a] \in Add
  BY DEF TypeOK
<1>2. /\ adds[a].left \in 0..Images /\ adds[a].left > 0
      /\ adds[a].added \in BOOLEAN
  BY <1>1 DEF AddAnswered, Unanswered, Add
<1>3. less \in 0..Images /\ hud \in BOOLEAN /\ added \in BOOLEAN
  BY <1>2, PersonAssumption DEF HudAfterAnswer
<1>4. adds' = [adds EXCEPT ![a].left = less, ![a].hud = hud, ![a].added = added]
  BY DEF AddAnswered
<1> HIDE DEF less, hud, added
<1>5. new \in Add
  BY <1>1, <1>3 DEF Add
<1>6. /\ new.person = adds[a].person /\ new.face = adds[a].face
      /\ new.asked = adds[a].asked /\ new.alone = adds[a].alone
      /\ new.left = less /\ new.added = added
  BY <1>1 DEF Add
<1>7. adds' = [adds EXCEPT ![a] = new]
  BY <1>1, <1>4
<1> HIDE DEF new
<1>8. adds' \in Seq(Add) /\ DOMAIN adds' = DOMAIN adds
  BY <1>1, <1>5, <1>7
<1>9. adds'[a] = new /\ \A b \in DOMAIN adds : b # a => adds'[b] = adds[b]
  BY <1>1, <1>7
<1> QED
  BY <1>6, <1>8, <1>9 DEF less, added

LEMMA AddAnsweredInv ==
    ASSUME PersonInv, NEW a \in DOMAIN adds, NEW ok \in BOOLEAN, AddAnswered(a, ok)
    PROVE  PersonInv'
<1> USE DEF PersonInv
<1> DEFINE f == adds[a].face
           p == adds[a].person
           lists == ok /\ ListsFirst(a)
<1>1. /\ p \in Person /\ f \in FaceObject /\ adds[a].left > 0
      /\ UNCHANGED <<screen, personVars, gone, made, photos, tiles, dialogVars,
                     crashed>>
  <2>1. adds[a] \in Add
    BY DEF TypeOK
  <2> QED
    BY <2>1 DEF AddAnswered, Unanswered, Add
<1>2. Answering
  BY DEF AddAnswered, Answering, Unanswered
<1>3. IF lists
        THEN /\ given' = given + 1
             /\ faceId' = [faceId EXCEPT ![f] = given + 1]
             /\ listed' = [listed EXCEPT ![p] = Append(@, f)]
             /\ detected' = Without(detected, f)
             /\ needTraining' = TRUE
             /\ late' = IF p = Shown THEN late ELSE late \cup {p}
        ELSE UNCHANGED <<given, faceId, listed, detected, late, needTraining>>
  BY DEF AddAnswered
<1> HIDE DEF f, p, lists
<1>4. TypeOK'
  <2>1. /\ given' \in Nat /\ faceId' \in [FaceObject -> Nat]
        /\ listed' \in [Person -> Seq(FaceObject)]
        /\ late' \subseteq Person /\ needTraining' \in BOOLEAN
    <3>1. /\ given \in Nat /\ faceId \in [FaceObject -> Nat]
          /\ listed \in [Person -> Seq(FaceObject)]
          /\ late \subseteq Person /\ needTraining \in BOOLEAN
      BY DEF TypeOK
    <3>2. CASE lists
      <4>1. Append(listed[p], f) \in Seq(FaceObject)
        BY <1>1, <3>1
      <4>2. listed' \in [Person -> Seq(FaceObject)]
        BY <1>3, <3>1, <3>2, <4>1
      <4>3. given' \in Nat /\ faceId' \in [FaceObject -> Nat]
        BY <1>3, <3>1, <3>2
      <4> QED
        BY <1>1, <1>3, <3>1, <3>2, <4>2, <4>3
    <3>3. CASE ~lists
      BY <1>3, <3>1, <3>3
    <3> QED
      BY <3>2, <3>3
  <2>2. detected' \in Seq(FaceObject)
    BY <1>3, WithoutType DEF TypeOK
  <2> QED
    BY <1>1, <2>1, <2>2, AddRecord DEF TypeOK, personVars, dialogVars
<1>5. DialogInv'
  BY <1>1 DEF DialogInv, personVars, dialogVars
<1>6. PlaceInv'
  <2>1. ASSUME deleting # 0
        PROVE  /\ deleting \in DOMAIN listed'[current]
               /\ listed'[current][deleting] = listed[current][deleting]
    <3>1. current \in Person /\ deleting \in DOMAIN listed[current]
      BY <2>1 DEF DialogInv, PlaceInv
    <3>2. listed'[current] = listed[current] \/ listed'[current] = Append(listed[current], f)
      BY <1>3, <3>1 DEF TypeOK
    <3>3. listed[current] \in Seq(FaceObject)
      BY <3>1 DEF TypeOK
    <3> QED
      BY <1>1, <3>1, <3>2, <3>3
  <2>2. alert # 0 => ~asked.alone
    BY <1>2 DEF PlaceInv
  <2> QED
    BY <1>1, <2>1, <2>2 DEF PlaceInv, personVars, dialogVars
<1>7. UndisturbedTapAdded'
  BY AddRecord DEF UndisturbedTapAdded
<1>8. LeftInv'
  <2> SUFFICES ASSUME NEW q \in Person, q # Shown, listed'[q] # <<>>, q \notin late'
               PROVE  q \in roster
    BY <1>1 DEF LeftInv, Shown, personVars
  <2>1. listed'[q] = listed[q] /\ q \notin late
    BY <1>1, <1>3 DEF TypeOK
  <2> QED
    BY <2>1 DEF LeftInv
<1> QED
  BY <1>4, <1>5, <1>6, <1>7, <1>8

-----------------------------------------------------------------------------
(* Deleting a face. *)

LEMMA DeleteFaceInv ==
    ASSUME PersonInv, NEW i \in 1..MaxTaps, DeleteFace(i)
    PROVE  PersonInv'
<1> USE DEF PersonInv
<1>1. /\ tiles = 0 /\ ~creating /\ alert = 0 /\ screen = "person"
      /\ current \in Person /\ i \in DOMAIN listed[current]
      /\ deleting' = i
      /\ deletingFace' = [face |-> listed[current][i],
                          id |-> faceId[listed[current][i]]]
      /\ UNCHANGED <<screen, personVars, faceVars, photoVars, creating, updating, alert,
                     asked, adds, given, late, needTraining, crashed>>
  BY DEF DeleteFace, Blocked, TypeOK
<1>2. listed[current][i] \in FaceObject /\ FaceObject \subseteq 0..MaxFaces
  <2>1. listed[current] \in Seq(FaceObject)
    BY <1>1 DEF TypeOK
  <2> QED
    BY <1>1, <2>1, FaceObjectRange
<1>3. faceId[listed[current][i]] \in Nat /\ i \in Nat
  <2>1. faceId \in [FaceObject -> Nat]
    BY DEF TypeOK
  <2>2. i \in Nat
    BY PersonAssumption
  <2>3. faceId[listed[current][i]] \in Nat
    BY <1>2, <2>1
  <2> QED
    BY <2>2, <2>3
<1>4. TypeOK'
  BY <1>1, <1>2, <1>3 DEF TypeOK, personVars, faceVars, photoVars
<1>5. DialogInv' /\ PlaceInv'
  BY <1>1 DEF DialogInv, PlaceInv, personVars, faceVars, photoVars
<1>6. UndisturbedTapAdded' /\ LeftInv'
  BY <1>1 DEF UndisturbedTapAdded, LeftInv, Shown, personVars, faceVars
<1> QED
  BY <1>4, <1>5, <1>6

\* The index still has the face it was read for: adds append behind it.
LEMMA DeleteAnsweredStep ==
    ASSUME PersonInv, NEW ok \in BOOLEAN, DeleteAnswered(ok)
    PROVE  /\ current \in Person /\ deleting \in 1..Len(listed[current])
           /\ listed[current] \in Seq(FaceObject)
           /\ listed[current][deleting] = deletingFace.face
           /\ \/ listed' = listed
              \/ listed' = [listed EXCEPT ![current] = RemoveAt(@, deleting)]
BY DEF PersonInv, DialogInv, PlaceInv, TypeOK, DeleteAnswered, DeletedIndex

LEMMA DeleteAnsweredInv ==
    ASSUME PersonInv, NEW ok \in BOOLEAN, DeleteAnswered(ok)
    PROVE  PersonInv'
<1> USE DEF PersonInv
<1>1. /\ deleting # 0 /\ deleting' = 0 /\ deletingFace' = NoFace
      /\ gone' = gone \/ gone' = gone \cup {deletingFace.id}
      /\ UNCHANGED <<screen, personVars, faceId, photoVars, creating, updating, alert,
                     asked, adds, given, late, needTraining, crashed>>
  BY DEF DeleteAnswered
<1>2. listed' \in [Person -> Seq(FaceObject)]
  <2>1. listed \in [Person -> Seq(FaceObject)]
    BY DEF TypeOK
  <2>2. RemoveAt(listed[current], deleting) \in Seq(FaceObject)
    BY DeleteAnsweredStep, RemoveAtElements
  <2> QED
    BY <2>1, <2>2, DeleteAnsweredStep
<1>3. deletingFace.id \in Nat /\ NoFace \in [face : 0..MaxFaces, id : Nat]
  BY PersonAssumption DEF TypeOK, NoFace
<1>4. TypeOK'
  BY <1>1, <1>2, <1>3 DEF TypeOK, personVars, photoVars
<1>5. DialogInv' /\ PlaceInv'
  <2>1. alert = 0
    BY <1>1 DEF DialogInv
  <2> QED
    BY <1>1, <2>1 DEF DialogInv, PlaceInv, personVars, photoVars
<1>6. \A p \in Person : p # current => listed'[p] = listed[p]
  BY DeleteAnsweredStep DEF TypeOK
<1>7. listed[current] # <<>> /\ \A p \in Person : listed'[p] # <<>> => listed[p] # <<>>
  BY <1>6, DeleteAnsweredStep
<1>8. UndisturbedTapAdded' /\ LeftInv'
  BY <1>1, <1>7 DEF UndisturbedTapAdded, LeftInv, Shown, personVars
<1> QED
  BY <1>4, <1>5, <1>8

\* The app ends, with everything as it is.
LEMMA AssertsInv ==
    ASSUME PersonInv, NoticeAsserts
    PROVE  PersonInv'
BY DEF NoticeAsserts, PersonInv, TypeOK, DialogInv, PlaceInv, Answering, Shown,
   UndisturbedTapAdded, LeftInv, personVars, faceVars, photoVars, dialogVars

LEMMA NextPerson == PersonInv /\ [Next]_vars => PersonInv'
<1> SUFFICES ASSUME PersonInv, [Next]_vars PROVE PersonInv'
  OBVIOUS
<1>1. CASE UNCHANGED vars
  BY <1>1 DEF vars, PersonInv, TypeOK, DialogInv, PlaceInv, Answering,
     UndisturbedTapAdded, LeftInv, Shown
<1>2. CASE Next
  BY <1>2, OpenPersonInv, CreateInv, UpdateInv, BackInv, PickPhotoInv, TileInv,
     SelectFaceInv, AlertInv, AddAnsweredInv, DeleteFaceInv, DeleteAnsweredInv,
     AssertsInv
  DEF Next
<1> QED
  BY <1>1, <1>2

\* The members keep their types.
THEOREM TypeCorrect == Spec => []TypeOK
<1>1. PersonInv => TypeOK
  BY DEF PersonInv
<1> QED
  BY <1>1, InitPerson, NextPerson, PTL DEF Spec

\* "Yes" adds the face that was tapped if no older request was under way.
THEOREM TapAdded == Spec => []UndisturbedTapAdded
<1>1. PersonInv => UndisturbedTapAdded
  BY DEF PersonInv
<1> QED
  BY <1>1, InitPerson, NextPerson, PTL DEF Spec

\* Nobody with a face is missing from the roster when his screen was left,
\* except by a face that came later.
THEOREM LeftListed == Spec => []LeftPersonListed
<1>1. PersonInv => LeftPersonListed
  BY PersonAssumption DEF PersonInv, LeftInv, Shown, LeftPersonListed
<1> QED
  BY <1>1, InitPerson, NextPerson, PTL DEF Spec
-----------------------------------------------------------------------------
(* What a step does to the lists. *)

\* Only an answer to an add or to a deletion changes a list of faces.
LEMMA ListsChange ==
    ASSUME PersonInv, [Next]_vars, listed' # listed
    PROVE  \/ \E a \in DOMAIN adds, ok \in BOOLEAN : AddAnswered(a, ok)
           \/ \E ok \in BOOLEAN : DeleteAnswered(ok)
BY DEF Next, vars, OpenPerson, CreatePerson, CreateAnswered, UpdatePerson,
   UpdateAnswered, Back, PickPhoto,
   TileAnswered, SelectFace, DeclineFace, ConfirmFace, DeleteFace, NoticeAsserts,
   faceVars

\* An added face makes its list longer.
LEMMA AddGrows ==
    ASSUME PersonInv, NEW a \in DOMAIN adds, NEW ok \in BOOLEAN,
           AddAnswered(a, ok), NEW p \in Person
    PROVE  ~(Len(listed'[p]) < Len(listed[p]))
<1>1. listed[p] \in Seq(FaceObject) /\ listed \in [Person -> Seq(FaceObject)]
  BY DEF PersonInv, TypeOK
<1>2. adds[a].face \in FaceObject
  <2>1. adds[a] \in Add
    BY DEF PersonInv, TypeOK
  <2> QED
    BY <2>1 DEF Add
<1>3. listed'[p] = listed[p] \/ listed'[p] = Append(listed[p], adds[a].face)
  BY <1>1 DEF AddAnswered
<1> QED
  BY <1>1, <1>2, <1>3

LEMMA DeleteStep ==
    ASSUME PersonInv, [Next]_vars, NEW p \in Person,
           Len(listed'[p]) < Len(listed[p])
    PROVE  \E i \in DOMAIN listed[p] :
              listed'[p] = RemoveAt(listed[p], i) /\ listed[p][i] = deletingFace.face
<1>1. listed[p] \in Seq(FaceObject) /\ listed \in [Person -> Seq(FaceObject)]
  BY DEF PersonInv, TypeOK
<1>2. listed'[p] # listed[p]
  BY <1>1
<1>3. PICK ok \in BOOLEAN : DeleteAnswered(ok)
  BY <1>2, ListsChange, AddGrows
<1>4. p = current /\ listed'[p] = RemoveAt(listed[p], deleting)
  BY <1>1, <1>2, <1>3, DeleteAnsweredStep
<1> QED
  BY <1>3, <1>4, DeleteAnsweredStep

\* The face that disappears is the one whose deletion was asked for.
THEOREM RemovesAsked == Spec => DeleteRemovesAsked
<1>1. PersonInv /\ [Next]_vars =>
         [ \A p \in Person : Len(listed'[p]) < Len(listed[p]) =>
             \E i \in DOMAIN listed[p] :
                listed'[p] = RemoveAt(listed[p], i) /\ listed[p][i] = deletingFace.face ]_vars
  BY DeleteStep
<1> QED
  BY <1>1, InitPerson, NextPerson, PTL DEF Spec, DeleteRemovesAsked

-----------------------------------------------------------------------------
(* The entries of the lists, and the ids of deleted faces. *)

TapsListed(p) == {a \in DOMAIN adds : adds[a].person = p /\ adds[a].added}

\* For the calls of addFace so far: a call for face f has succeeded; exactly
\* one was for it.
Added(calls, f) == \E a \in DOMAIN calls : calls[a].face = f /\ calls[a].added
Once(calls, f) == Cardinality({a \in DOMAIN calls : calls[a].face = f}) = 1

\* Ids are given once, to one face; those deleted were given before.
IdsInv ==
    /\ \A f \in FaceObject : faceId[f] \in 0..given
    /\ \A f, g \in FaceObject : faceId[f] = faceId[g] /\ faceId[f] # 0 => f = g
    /\ gone \subseteq 0..given

\* A listed face was added, and one that was added once is listed once.
EntriesInv ==
    /\ \A p \in Person : \A i \in DOMAIN listed[p] :
          faceId[listed[p][i]] # 0 /\ Added(adds, listed[p][i])
    /\ \A p, q \in Person : \A i \in DOMAIN listed[p], j \in DOMAIN listed[q] :
          listed[p][i] = listed[q][j] /\ Once(adds, listed[p][i]) => p = q /\ i = j

\* The id to be deleted belongs to no other face, whatever its face was
\* given since.
DeletionInv ==
    deleting # 0 =>
       /\ deletingFace.id \in 0..given
       /\ \A f \in FaceObject : faceId[f] = deletingFace.id => f = deletingFace.face

\* DeletedFaceGone, said of Once.
GoneInv ==
    \A p \in Person : \A i \in DOMAIN listed[p] :
        Once(adds, listed[p][i]) => faceId[listed[p][i]] \notin gone

FaceInv == OneEntryPerTap /\ IdsInv /\ EntriesInv /\ DeletionInv /\ GoneInv

LEMMA GoneMeans == FaceInv => DeletedFaceGone
BY DEF FaceInv, GoneInv, DeletedFaceGone, AddedOnce, Once

LEMMA PlacesFinite ==
    ASSUME NEW S, NEW s \in Seq(S), NEW T \in SUBSET DOMAIN s
    PROVE  IsFiniteSet(T) /\ Cardinality(T) \in Nat
<1>1. DOMAIN s = 1..Len(s) /\ Len(s) \in Nat
  OBVIOUS
<1>2. IsFiniteSet(DOMAIN s)
  BY <1>1, FS_Interval
<1> QED
  BY <1>2, FS_Subset, FS_CardinalityType

\* Exactly one call of addFace was for the face.
LEMMA OneAdd ==
    ASSUME NEW s \in Seq(Add), NEW f
    PROVE  Once(s, f) <=>
             \E a \in DOMAIN s : {b \in DOMAIN s : s[b].face = f} = {a}
<1> DEFINE A == {b \in DOMAIN s : s[b].face = f}
<1>1. IsFiniteSet(A)
  BY PlacesFinite
<1>2. Once(s, f) <=> \E a : A = {a}
  BY <1>1, FS_Singleton DEF Once
<1> QED
  BY <1>2

LEMMA InitFaces == Init => FaceInv
<1> SUFFICES ASSUME Init PROVE FaceInv
  OBVIOUS
<1>1. /\ adds = <<>> /\ given = 0 /\ gone = {} /\ deleting = 0
      /\ \A p \in Person : listed[p] = <<>>
      /\ \A f \in FaceObject : faceId[f] = 0
  BY DEF Init
<1>2. OneEntryPerTap
  <2> SUFFICES ASSUME NEW p \in Person PROVE Len(listed[p]) <= Cardinality(TapsListed(p))
    BY DEF OneEntryPerTap, TapsListed
  <2>1. TapsListed(p) = {}
    BY <1>1 DEF TapsListed
  <2> QED
    BY <1>1, <2>1, FS_EmptySet
<1>3. IdsInv /\ EntriesInv /\ DeletionInv
  BY <1>1 DEF IdsInv, EntriesInv, DeletionInv
<1>4. GoneInv
  BY <1>1 DEF GoneInv
<1> QED
  BY <1>2, <1>3, <1>4 DEF FaceInv

\* Most steps touch neither lists nor ids.
LEMMA FacesSame ==
    ASSUME FaceInv,
           UNCHANGED <<faceVars, adds, given, deleting, deletingFace>>
    PROVE  FaceInv'
<1> USE DEF FaceInv
<1>2. OneEntryPerTap'
  BY DEF OneEntryPerTap, faceVars
<1>3. IdsInv' /\ DeletionInv'
  BY DEF IdsInv, DeletionInv, faceVars
<1>4. EntriesInv'
  BY DEF EntriesInv, faceVars
<1>5. GoneInv'
  BY DEF GoneInv, faceVars
<1> QED
  BY <1>2, <1>3, <1>4, <1>5

\* A tap is confirmed: no list has its face yet unless an older call of
\* addFace was for it.
LEMMA ConfirmFaces ==
    ASSUME PersonInv, FaceInv, ConfirmFace
    PROVE  FaceInv'
<1> USE DEF PersonInv, FaceInv
<1>1. UNCHANGED <<faceVars, given, deleting, deletingFace>>
  BY DEF ConfirmFace, dialogVars
<1>2. adds \in Seq(Add) /\ adds' \in Seq(Add) /\ listed \in [Person -> Seq(FaceObject)]
  BY AlertInv DEF TypeOK
<1>3. /\ DOMAIN adds \subseteq DOMAIN adds'
      /\ \A a \in DOMAIN adds : adds'[a] = adds[a]
  <2>1. PICK new : adds' = adds \/ adds' = Append(adds, new)
    BY DEF ConfirmFace
  <2>2. adds \in Seq(Add \cup {new}) /\ new \in Add \cup {new}
    BY <1>2
  <2> QED
    BY <2>1, <2>2, AppendProperties
<1>4. OneEntryPerTap'
  <2> SUFFICES ASSUME NEW p \in Person
               PROVE  Len(listed[p]) <= Cardinality(TapsListed(p)')
    BY <1>1 DEF OneEntryPerTap, TapsListed, faceVars
  <2>1. TapsListed(p) \in SUBSET (TapsListed(p)')
    BY <1>3 DEF TapsListed
  <2>2. IsFiniteSet(TapsListed(p)') /\ Cardinality(TapsListed(p)') \in Nat
    <3>1. TapsListed(p)' \in SUBSET DOMAIN adds'
      BY DEF TapsListed
    <3> QED
      BY <1>2, <3>1, PlacesFinite
  <2>3. Cardinality(TapsListed(p)) \in Nat
    <3>1. TapsListed(p) \in SUBSET DOMAIN adds
      BY DEF TapsListed
    <3> QED
      BY <1>2, <3>1, PlacesFinite
  <2>4. Cardinality(TapsListed(p)) <= Cardinality(TapsListed(p)')
    BY <2>1, <2>2, FS_Subset
  <2>5. Len(listed[p]) <= Cardinality(TapsListed(p))
    BY DEF OneEntryPerTap, TapsListed
  <2>6. Len(listed[p]) \in Nat
    BY <1>2
  <2> QED
    BY <2>2, <2>3, <2>4, <2>5, <2>6
<1>5. IdsInv' /\ DeletionInv'
  BY <1>1 DEF IdsInv, DeletionInv, faceVars
\* A face that an older call was for has now more than one, or as many as before.
<1>6. ASSUME NEW f, Added(adds, f), Once(adds', f)
      PROVE  Once(adds, f)
  <2>1. PICK a \in DOMAIN adds : adds[a].face = f
    BY <1>6 DEF Added
  <2>2. PICK b \in DOMAIN adds' : {c \in DOMAIN adds' : adds'[c].face = f} = {b}
    BY <1>2, <1>6, OneAdd
  <2>3. {c \in DOMAIN adds : adds[c].face = f} = {a}
    BY <1>3, <2>1, <2>2
  <2> QED
    BY <1>2, <2>3, OneAdd
<1>7. \A f : Added(adds, f) => Added(adds', f)
  BY <1>3 DEF Added
<1>8. EntriesInv'
  BY <1>1, <1>6, <1>7 DEF EntriesInv, faceVars
<1>9. GoneInv'
  BY <1>1, <1>6 DEF EntriesInv, GoneInv, faceVars
<1> QED
  BY <1>4, <1>5, <1>8, <1>9

\* The id is read while its face has it.
LEMMA DeleteFaceFaces ==
    ASSUME PersonInv, FaceInv, NEW i \in 1..MaxTaps, DeleteFace(i)
    PROVE  FaceInv'
<1> USE DEF PersonInv, FaceInv
<1>1. UNCHANGED <<faceVars, adds, given>>
  BY DEF DeleteFace
<1>2. /\ current \in Person /\ i \in DOMAIN listed[current]
      /\ deletingFace'.face = listed[current][i]
      /\ deletingFace'.id = faceId[listed[current][i]]
  BY DEF DeleteFace, TypeOK
<1>3. listed[current][i] \in FaceObject
  <2>1. listed[current] \in Seq(FaceObject)
    BY <1>2 DEF TypeOK
  <2> QED
    BY <1>2, <2>1
<1>4. faceId[listed[current][i]] # 0
  BY <1>2 DEF EntriesInv
<1>5. DeletionInv'
  BY <1>1, <1>2, <1>3, <1>4 DEF DeletionInv, IdsInv, faceVars
<1>7. OneEntryPerTap' /\ IdsInv'
  BY <1>1 DEF OneEntryPerTap, IdsInv, faceVars
<1>8. EntriesInv' /\ GoneInv'
  BY <1>1 DEF EntriesInv, GoneInv, faceVars
<1> QED
  BY <1>5, <1>7, <1>8

\* The first success of a call lists its face under a new id: a face no
\* other call was for was on no list before.
LEMMA AddFaces ==
    ASSUME PersonInv, FaceInv, NEW a \in DOMAIN adds, NEW ok \in BOOLEAN,
           AddAnswered(a, ok)
    PROVE  FaceInv'
<1> USE DEF PersonInv, FaceInv
<1> DEFINE f == adds[a].face
           who == adds[a].person
<1>1. /\ adds \in Seq(Add) /\ adds' \in Seq(Add) /\ DOMAIN adds' = DOMAIN adds
      /\ \A b \in DOMAIN adds :
            /\ adds'[b].person = adds[b].person
            /\ adds'[b].face = adds[b].face
            /\ adds[b].added => adds'[b].added
      /\ ok => adds'[a].added
      /\ UNCHANGED <<gone, deleting, deletingFace>>
  <2>1. \A b \in DOMAIN adds : b # a => adds'[b] = adds[b]
    BY AddRecord
  <2>2. adds'[a].added = (adds[a].added \/ ok)
    BY AddRecord
  <2>3. \A b \in DOMAIN adds : adds[b].added => adds'[b].added
    BY <2>1, <2>2
  <2>4. ok => adds'[a].added
    BY <2>2
  <2>5. adds \in Seq(Add) /\ UNCHANGED <<gone, deleting, deletingFace>>
    BY DEF TypeOK, AddAnswered, dialogVars
  <2> QED
    BY <2>3, <2>4, <2>5, AddRecord
<1>2. /\ f \in FaceObject /\ who \in Person
      /\ listed \in [Person -> Seq(FaceObject)] /\ faceId \in [FaceObject -> Nat]
      /\ given \in Nat
  <2>1. adds[a] \in Add
    BY <1>1
  <2> QED
    BY <2>1 DEF Add, TypeOK
<1>3. \A g : Once(adds', g) <=> Once(adds, g)
  <2> SUFFICES ASSUME NEW g PROVE Once(adds', g) <=> Once(adds, g)
    OBVIOUS
  <2>1. {b \in DOMAIN adds' : adds'[b].face = g} = {b \in DOMAIN adds : adds[b].face = g}
    BY <1>1
  <2> QED
    BY <2>1 DEF Once
<1>4. \A g : Added(adds, g) => Added(adds', g)
  BY <1>1 DEF Added
<1>5. ASSUME NEW p \in Person
      PROVE  /\ TapsListed(p) \in SUBSET (TapsListed(p)')
             /\ IsFiniteSet(TapsListed(p)') /\ Cardinality(TapsListed(p)') \in Nat
             /\ Cardinality(TapsListed(p)) \in Nat
             /\ Cardinality(TapsListed(p)) <= Cardinality(TapsListed(p)')
             /\ Len(listed[p]) <= Cardinality(TapsListed(p))
             /\ Len(listed[p]) \in Nat
  <2>1. TapsListed(p) \in SUBSET (TapsListed(p)')
    BY <1>1 DEF TapsListed
  <2>2. TapsListed(p)' \in SUBSET DOMAIN adds' /\ TapsListed(p) \in SUBSET DOMAIN adds
    BY DEF TapsListed
  <2>3. IsFiniteSet(TapsListed(p)') /\ Cardinality(TapsListed(p)') \in Nat
    BY <1>1, <2>2, PlacesFinite
  <2>4. Cardinality(TapsListed(p)) \in Nat
    BY <1>1, <2>2, PlacesFinite
  <2>5. Len(listed[p]) <= Cardinality(TapsListed(p)) /\ Len(listed[p]) \in Nat
    BY <1>2 DEF OneEntryPerTap, TapsListed
  <2> QED
    BY <2>1, <2>3, <2>4, <2>5, FS_Subset
<1>6. CASE ~(ok /\ ~adds[a].added)
  <2>1. UNCHANGED <<given, faceId, listed>>
    BY <1>6 DEF AddAnswered, ListsFirst
  <2>2. OneEntryPerTap'
    <3> SUFFICES ASSUME NEW p \in Person
                 PROVE  Len(listed[p]) <= Cardinality(TapsListed(p)')
      BY <2>1 DEF OneEntryPerTap, TapsListed
    <3> QED
      BY <1>5
  <2>3. IdsInv' /\ DeletionInv'
    BY <1>1, <2>1 DEF IdsInv, DeletionInv
  <2>4. EntriesInv' /\ GoneInv'
    BY <1>1, <1>3, <1>4, <2>1 DEF EntriesInv, GoneInv
  <2> QED
    BY <2>2, <2>3, <2>4
<1>7. CASE ok /\ ~adds[a].added
  <2>1. /\ given' = given + 1
        /\ faceId' = [faceId EXCEPT ![f] = given + 1]
        /\ listed' = [listed EXCEPT ![who] = Append(@, f)]
    BY <1>7 DEF AddAnswered, ListsFirst
  <2>2. /\ faceId'[f] = given + 1
        /\ \A g \in FaceObject : g # f => faceId'[g] = faceId[g]
    BY <1>2, <2>1
  <2>3. /\ listed[who] \in Seq(FaceObject) /\ Len(listed[who]) \in Nat
        /\ Len(listed'[who]) = Len(listed[who]) + 1
        /\ listed'[who][Len(listed[who]) + 1] = f
        /\ \A i \in DOMAIN listed[who] : listed'[who][i] = listed[who][i]
        /\ DOMAIN listed'[who] = DOMAIN listed[who] \cup {Len(listed[who]) + 1}
        /\ \A p \in Person : p # who => listed'[p] = listed[p]
    <3>1. listed[who] \in Seq(FaceObject) /\ listed'[who] = Append(listed[who], f)
      BY <1>2, <2>1
    <3>2. \A p \in Person : p # who => listed'[p] = listed[p]
      BY <1>2, <2>1
    <3> HIDE DEF f, who
    <3> QED
      BY <1>2, <3>1, <3>2
  <2> DEFINE end == Len(listed[who]) + 1
  <2>4. OneEntryPerTap'
    <3> SUFFICES ASSUME NEW p \in Person
                 PROVE  Len(listed'[p]) <= Cardinality(TapsListed(p)')
      BY DEF OneEntryPerTap, TapsListed
    <3>1. CASE p # who
      BY <1>5, <2>3, <3>1
    <3>2. CASE p = who
      <4>1. a \in TapsListed(p)' /\ a \notin TapsListed(p)
        BY <1>1, <1>7, <3>2 DEF TapsListed
      <4>2. Cardinality(TapsListed(p)) # Cardinality(TapsListed(p)')
        BY <1>5, <4>1, FS_Subset
      <4> QED
        BY <1>5, <2>3, <3>2, <4>2
    <3> QED
      BY <3>1, <3>2
  <2>5. IdsInv'
    <3>1. \A g \in FaceObject : faceId'[g] \in 0..given + 1
      BY <1>2, <2>2 DEF IdsInv
    <3>2. \A g \in FaceObject : faceId[g] # given + 1
      BY <1>2 DEF IdsInv
    <3>3. \A g, h \in FaceObject : faceId'[g] = faceId'[h] /\ faceId'[g] # 0 => g = h
      BY <2>2, <3>2 DEF IdsInv
    <3>4. gone' \subseteq 0..given'
      BY <1>1, <1>2, <2>1 DEF IdsInv
    <3> QED
      BY <2>1, <3>1, <3>3, <3>4 DEF IdsInv
  <2>6. DeletionInv'
    <3> SUFFICES ASSUME deleting # 0, NEW g \in FaceObject
                 PROVE  /\ deletingFace.id \in 0..given'
                        /\ faceId'[g] = deletingFace.id => g = deletingFace.face
      BY <1>1, <1>2 DEF DeletionInv
    <3>1. /\ deletingFace.id \in 0..given
          /\ faceId[g] = deletingFace.id => g = deletingFace.face
      BY DEF DeletionInv
    <3>2. deletingFace.id # given + 1
      BY <1>2, <3>1
    <3> QED
      BY <1>2, <2>1, <2>2, <3>1, <3>2
  <2>7. Once(adds, f) => \A p \in Person : \A i \in DOMAIN listed[p] : listed[p][i] # f
    <3> SUFFICES ASSUME Once(adds, f), Added(adds, f) PROVE FALSE
      BY DEF EntriesInv
    <3>1. PICK c \in DOMAIN adds : {b \in DOMAIN adds : adds[b].face = f} = {c}
      BY <1>1, OneAdd
    <3>2. a = c
      BY <3>1
    <3> QED
      BY <1>7, <3>1, <3>2 DEF Added
  <2>8. \A p \in Person : \A i \in DOMAIN listed[p] : listed[p][i] \in FaceObject
    BY <1>2
  <2>9. Added(adds', f)
    BY <1>1, <1>7 DEF Added
  <2> HIDE DEF f, who, end
  \* An entry of a list is an old one or the new one.
  <2>10. ASSUME NEW p \in Person, NEW i \in DOMAIN listed'[p]
         PROVE  \/ i \in DOMAIN listed[p] /\ listed'[p][i] = listed[p][i]
                \/ p = who /\ i = end /\ listed'[p][i] = f
    BY <2>3 DEF end
  <2>11. EntriesInv'
    <3>1. ASSUME NEW p \in Person, NEW i \in DOMAIN listed'[p]
          PROVE  faceId'[listed'[p][i]] # 0 /\ Added(adds', listed'[p][i])
      <4>1. CASE i \in DOMAIN listed[p] /\ listed'[p][i] = listed[p][i]
        <5>1. faceId[listed[p][i]] # 0 /\ Added(adds, listed[p][i])
          BY <4>1 DEF EntriesInv
        <5>2. faceId'[listed[p][i]] # 0
          BY <1>2, <2>2, <2>8, <4>1, <5>1
        <5>3. Added(adds', listed[p][i])
          BY <1>4, <5>1
        <5> QED
          BY <4>1, <5>2, <5>3
      <4>2. CASE listed'[p][i] = f
        BY <1>2, <2>2, <2>9, <4>2
      <4> QED
        BY <2>10, <4>1, <4>2
    <3>2. ASSUME NEW p \in Person, NEW q \in Person,
                 NEW i \in DOMAIN listed'[p], NEW j \in DOMAIN listed'[q],
                 listed'[p][i] = listed'[q][j], Once(adds', listed'[p][i])
          PROVE  p = q /\ i = j
      <4>1. Once(adds, listed'[p][i])
        BY <1>3, <3>2
      <4>2. CASE listed'[p][i] = f
        <5>1. Once(adds, f) /\ listed'[q][j] = f
          BY <3>2, <4>1, <4>2
        <5>2. p = who /\ i = end
          BY <2>7, <2>10, <4>2, <5>1
        <5>3. q = who /\ j = end
          BY <2>7, <2>10, <5>1
        <5> QED
          BY <5>2, <5>3
      <4>3. CASE listed'[p][i] # f
        BY <2>10, <3>2, <4>1, <4>3 DEF EntriesInv
      <4> QED
        BY <4>2, <4>3
    <3> QED
      BY <3>1, <3>2 DEF EntriesInv
  <2>12. GoneInv'
    <3> SUFFICES ASSUME NEW p \in Person, NEW i \in DOMAIN listed'[p],
                        Once(adds', listed'[p][i])
                 PROVE  faceId'[listed'[p][i]] \notin gone
      BY <1>1 DEF GoneInv
    <3>1. Once(adds, listed'[p][i])
      BY <1>3
    <3>2. CASE listed'[p][i] = f
      <4>1. given + 1 \notin gone
        BY <1>2 DEF IdsInv
      <4> QED
        BY <2>2, <3>2, <4>1
    <3>3. CASE listed'[p][i] # f
      BY <2>2, <2>8, <2>10, <3>1, <3>3 DEF GoneInv
    <3> QED
      BY <3>2, <3>3
  <2> QED
    BY <2>4, <2>5, <2>6, <2>11, <2>12
<1> QED
  BY <1>6, <1>7

\* The face goes with its id, and a face that was added once has no other
\* place to stay in.
LEMMA DeleteAnsweredFaces ==
    ASSUME PersonInv, FaceInv, NEW ok \in BOOLEAN, DeleteAnswered(ok)
    PROVE  FaceInv'
<1> USE DEF PersonInv, FaceInv
<1>1. /\ deleting # 0 /\ deleting' = 0
      /\ UNCHANGED <<faceId, adds, given>>
  BY DEF DeleteAnswered
<1>2. IdsInv' /\ DeletionInv'
  <2>1. gone' \subseteq gone \cup {deletingFace.id}
    BY DEF DeleteAnswered
  <2>2. gone' \subseteq 0..given
    BY <1>1, <2>1 DEF IdsInv, DeletionInv
  <2> QED
    BY <1>1, <2>2 DEF IdsInv, DeletionInv
<1>3. CASE ~ok
  <2>1. UNCHANGED <<listed, gone>>
    BY <1>3 DEF DeleteAnswered
  <2> QED
    BY <1>1, <1>2, <2>1 DEF OneEntryPerTap, EntriesInv, GoneInv
<1>4. CASE ok
  <2>1. /\ listed' = [listed EXCEPT ![current] = RemoveAt(@, deleting)]
        /\ gone' = gone \cup {deletingFace.id}
    BY <1>4 DEF DeleteAnswered, DeletedIndex
  <2>2. /\ current \in Person /\ deleting \in 1..Len(listed[current])
        /\ listed[current] \in Seq(FaceObject)
        /\ listed[current][deleting] = deletingFace.face
        /\ listed \in [Person -> Seq(FaceObject)]
    BY DeleteAnsweredStep DEF TypeOK
  <2>3. \A p \in Person : p # current => listed'[p] = listed[p]
    BY <2>1, <2>2
  <2>4. /\ listed'[current] \in Seq(FaceObject)
        /\ Len(listed'[current]) = Len(listed[current]) - 1
        /\ \A j \in 1..Len(listed[current]) - 1 :
              listed'[current][j] = IF j < deleting THEN listed[current][j]
                                                    ELSE listed[current][j + 1]
    <3>1. listed'[current] = RemoveAt(listed[current], deleting)
      BY <2>1, <2>2
    <3> QED
      BY <2>2, <3>1, RemoveAtElements
  \* An entry stays where it was or moves up, but it is not the deleted one.
  <2> DEFINE Place(p, i) == IF p = current /\ i >= deleting THEN i + 1 ELSE i
  <2>5. ASSUME NEW p \in Person, NEW i \in DOMAIN listed'[p]
        PROVE  /\ Place(p, i) \in DOMAIN listed[p]
               /\ listed'[p][i] = listed[p][Place(p, i)]
               /\ p = current => Place(p, i) # deleting
               /\ i \in Nat
    <3>1. CASE p # current
      BY <2>2, <2>3, <3>1
    <3>2. CASE p = current
      <4>1. i \in 1..Len(listed[current]) - 1 /\ Len(listed[current]) \in Nat
        BY <2>2, <2>4, <3>2
      <4>2. CASE i < deleting
        BY <2>2, <2>4, <3>2, <4>1, <4>2
      <4>3. CASE i >= deleting
        BY <2>2, <2>4, <3>2, <4>1, <4>3
      <4> QED
        BY <2>2, <4>1, <4>2, <4>3
    <3> QED
      BY <3>1, <3>2
  <2>6. \A p \in Person : \A i, j \in Nat : Place(p, i) = Place(p, j) => i = j
    BY <2>2
  <2> HIDE DEF Place
  <2>7. OneEntryPerTap'
    <3> SUFFICES ASSUME NEW p \in Person
                 PROVE  Len(listed'[p]) <= Cardinality(TapsListed(p))
      BY <1>1 DEF OneEntryPerTap, TapsListed
    <3>1. Len(listed[p]) <= Cardinality(TapsListed(p)) /\ Len(listed[p]) \in Nat
      BY <2>2 DEF OneEntryPerTap, TapsListed
    <3>2. TapsListed(p) \in SUBSET DOMAIN adds /\ adds \in Seq(Add)
      BY DEF TapsListed, TypeOK
    <3>3. Cardinality(TapsListed(p)) \in Nat
      BY <3>2, PlacesFinite
    <3> QED
      BY <2>3, <2>4, <3>1, <3>3
  <2>8. EntriesInv'
    <3>1. ASSUME NEW p \in Person, NEW i \in DOMAIN listed'[p]
          PROVE  faceId[listed'[p][i]] # 0 /\ Added(adds, listed'[p][i])
      BY <2>5 DEF EntriesInv
    <3>2. ASSUME NEW p \in Person, NEW q \in Person,
                 NEW i \in DOMAIN listed'[p], NEW j \in DOMAIN listed'[q],
                 listed'[p][i] = listed'[q][j], Once(adds, listed'[p][i])
          PROVE  p = q /\ i = j
      <4>1. p = q /\ Place(p, i) = Place(q, j)
        BY <2>5, <3>2 DEF EntriesInv
      <4> QED
        BY <2>5, <2>6, <4>1
    <3> QED
      BY <1>1, <3>1, <3>2 DEF EntriesInv
  <2>9. GoneInv'
    <3> SUFFICES ASSUME NEW p \in Person, NEW i \in DOMAIN listed'[p],
                        Once(adds, listed'[p][i])
                 PROVE  faceId[listed'[p][i]] \notin gone \cup {deletingFace.id}
      BY <1>1, <2>1 DEF GoneInv
    <3>1. faceId[listed'[p][i]] \notin gone
      BY <2>5 DEF GoneInv
    <3>2. ASSUME faceId[listed'[p][i]] = deletingFace.id PROVE FALSE
      <4>1. listed'[p][i] \in FaceObject
        BY <2>2, <2>5
      <4>2. listed'[p][i] = deletingFace.face
        BY <1>1, <3>2, <4>1 DEF DeletionInv
      <4>3. p = current /\ Place(p, i) = deleting
        BY <2>2, <2>5, <4>2 DEF EntriesInv
      <4> QED
        BY <2>5, <4>3
    <3> QED
      BY <3>1, <3>2
  <2> QED
    BY <1>2, <2>7, <2>8, <2>9
<1> QED
  BY <1>3, <1>4

LEMMA NextFaces == PersonInv /\ FaceInv /\ [Next]_vars => FaceInv'
<1> SUFFICES ASSUME PersonInv, FaceInv, [Next]_vars PROVE FaceInv'
  OBVIOUS
<1>1. CASE UNCHANGED vars
  BY <1>1, FacesSame DEF vars, faceVars
<1>2. CASE \/ \E p \in Person \cup {NoPerson} : OpenPerson(p)
           \/ CreatePerson \/ UpdatePerson \/ UpdateAnswered
           \/ \E p \in Person, ok \in BOOLEAN : CreateAnswered(p, ok)
           \/ Back \/ PickPhoto
           \/ \E n \in 0..MaxFacesPerImage : TileAnswered(n)
           \/ \E i \in FaceObject : SelectFace(i)
           \/ DeclineFace \/ NoticeAsserts
  BY <1>2, FacesSame
  DEF OpenPerson, CreatePerson, UpdatePerson, UpdateAnswered, CreateAnswered, Back,
      PickPhoto, TileAnswered, SelectFace, DeclineFace, NoticeAsserts, dialogVars
<1> QED
  BY <1>1, <1>2, ConfirmFaces, AddFaces, DeleteFaceFaces, DeleteAnsweredFaces
  DEF Next

\* However many of the requests of a tap succeed, it lists its face at most
\* once: no person has more entries than taps of his succeeded.
THEOREM TapsListOnce == Spec => []OneEntryPerTap
<1>1. FaceInv => OneEntryPerTap
  BY DEF FaceInv
<1> QED
  BY <1>1, InitPerson, NextPerson, InitFaces, NextFaces, PTL DEF Spec

\* A face that was added once is not listed any more when the service has
\* confirmed that it was deleted.
THEOREM GoneStaysGone == Spec => []DeletedFaceGone
BY GoneMeans, InitPerson, NextPerson, InitFaces, NextFaces, PTL DEF Spec

-----------------------------------------------------------------------------
(* The screens implement module Enrolment. *)

\* The screens of the person come and go, and adds and lists stay.
LEMMA EnrolSame ==
    ASSUME UNCHANGED <<listed, adds, needTraining>>
    PROVE  WithFace' = WithFace /\ PendingAdds' = PendingAdds
BY DEF WithFace, PendingAdds, Unanswered

LEMMA DisappearsRefines ==
    ASSUME TypeOK, screen # "group", roster' = Disappeared,
           UNCHANGED <<current, known, listed, adds, needTraining, creating, deleting>>,
           screen' = "group" \/ Waiting = "none"
    PROVE  Enrol!PersonDisappears
<1>1. Disappeared = roster \cup ({current} \cap WithFace)
  BY PersonAssumption DEF Disappeared, WithFace, TypeOK
<1>2. Waiting' = Waiting
  BY DEF Waiting
<1>3. (screen' # "group") = FALSE \/ (screen' # "group") = (screen # "group")
  OBVIOUS
<1>4. (screen' # "group") = FALSE \/ Waiting = "none"
  OBVIOUS
<1> QED
  BY <1>1, <1>2, <1>3, <1>4, EnrolSame DEF Enrol!PersonDisappears

LEMMA EnrolStutters ==
    ASSUME UNCHANGED <<current, known, roster, listed, adds, needTraining, creating,
                       deleting>>,
           screen' = "group" <=> screen = "group"
    PROVE  UNCHANGED Enrol!vars
<1>1. (screen' # "group") = (screen # "group")
  OBVIOUS
<1>2. Waiting' = Waiting
  BY DEF Waiting
<1> QED
  BY <1>1, <1>2, EnrolSame DEF Enrol!vars

LEMMA GroupRefines ==
    ASSUME PersonInv,
           \/ \E p \in Person \cup {NoPerson} : OpenPerson(p)
           \/ CreatePerson
           \/ \E p \in Person, ok \in BOOLEAN : CreateAnswered(p, ok)
    PROVE  Enrol!Next \/ UNCHANGED Enrol!vars
<1>1. ASSUME NEW p \in Person \cup {NoPerson}, OpenPerson(p) PROVE Enrol!Open(p)
  <2>1. Waiting = "none" /\ Waiting' = Waiting
    BY <1>1 DEF OpenPerson, Blocked, Waiting, dialogVars, PersonInv, TypeOK
  <2> QED
    BY <1>1, <2>1, EnrolSame
    DEF OpenPerson, faceVars, Enrol!Open, WithFace, PersonInv, TypeOK
<1>2. CASE CreatePerson
  <2>1. Waiting = "none" /\ Waiting' = "person" /\ screen = "person"
    BY <1>2 DEF CreatePerson, Blocked, Waiting, PersonInv, TypeOK
  <2>2. Enrol!CreatePerson
    BY <1>2, <2>1, EnrolSame DEF CreatePerson, Enrol!CreatePerson, personVars, faceVars
  <2> QED
    BY <2>2 DEF Enrol!Next
<1>3. ASSUME NEW p \in Person, NEW ok \in BOOLEAN, CreateAnswered(p, ok)
      PROVE  Enrol!PersonCreated(p) \/ Enrol!NothingDone
  <2>1. /\ current = NoPerson /\ p \notin known
        /\ UNCHANGED <<screen, roster, listed, adds, needTraining>>
    BY <1>3 DEF CreateAnswered, PersonInv, DialogInv, faceVars
  <2>2. Waiting = "person" /\ Waiting' = "none"
    BY <1>3, PersonAssumption DEF CreateAnswered, Waiting, PersonInv, DialogInv, TypeOK
  <2>3. CASE known' = known \cup {p}
    BY <1>3, <2>1, <2>2, <2>3, EnrolSame DEF CreateAnswered, Enrol!PersonCreated
  <2>4. CASE known' # known \cup {p}
    BY <1>3, <2>1, <2>2, <2>4, EnrolSame DEF CreateAnswered, Enrol!NothingDone
  <2> QED
    BY <2>3, <2>4
<1> QED
  BY <1>1, <1>2, <1>3 DEF Enrol!Next

LEMMA ScreenRefines ==
    ASSUME PersonInv,
           Back \/ PickPhoto \/ \E n \in 0..MaxFacesPerImage : TileAnswered(n)
    PROVE  Enrol!Next \/ UNCHANGED Enrol!vars
<1> USE DEF PersonInv
<1>1. CASE Back
  <2>1. /\ UNCHANGED <<current, known, listed, adds, needTraining, creating, deleting>>
        /\ screen # "group"
    BY <1>1 DEF Back, faceVars, dialogVars
  <2>2. CASE screen = "person"
    BY <1>1, <2>1, <2>2, DisappearsRefines DEF Back, Enrol!Next
  <2>3. CASE screen = "add"
    BY <1>1, <2>1, <2>3, EnrolStutters DEF Back
  <2> QED
    BY <2>1, <2>2, <2>3 DEF TypeOK
<1>2. CASE PickPhoto
  <2>1. Waiting = "none"
    BY <1>2 DEF PickPhoto, Blocked, Waiting
  <2> QED
    BY <1>2, <2>1, DisappearsRefines, EnrolStutters
    DEF PickPhoto, faceVars, dialogVars, Enrol!Next
<1>3. ASSUME NEW n \in 0..MaxFacesPerImage, TileAnswered(n)
      PROVE  Enrol!Next \/ UNCHANGED Enrol!vars
  <2>1. Waiting = "none"
    BY <1>3, PersonAssumption DEF TileAnswered, Waiting, DialogInv
  <2>2. UNCHANGED <<current, known, listed, adds, needTraining, creating, deleting>>
    BY <1>3 DEF TileAnswered, faceVars, dialogVars
  <2>3. CASE screen = "person" /\ screen' = "add" /\ roster' = Disappeared
    BY <2>1, <2>2, <2>3, DisappearsRefines DEF Enrol!Next
  <2>4. CASE UNCHANGED <<screen, roster>>
    BY <2>2, <2>4, EnrolStutters
  <2> QED
    BY <1>3, <2>3, <2>4 DEF TileAnswered
<1> QED
  BY <1>1, <1>2, <1>3

LEMMA ConfirmRefines ==
    ASSUME PersonInv, ConfirmFace
    PROVE  Enrol!Next \/ UNCHANGED Enrol!vars
<1> USE DEF PersonInv
<1> DEFINE n == Len(adds) + 1
           new == [person |-> current, photo |-> photos, face |-> detected[alert],
                   asked |-> asked.face, alone |-> asked.alone,
                   left |-> Images, added |-> FALSE, hud |-> TRUE]
<1>1. /\ UNCHANGED <<screen, personVars, listed, needTraining, creating, deleting>>
      /\ Waiting' = Waiting
      /\ Len(adds) < MaxTaps /\ adds \in Seq(Add)
      /\ screen = "add" /\ current \in Person
  BY DEF ConfirmFace, faceVars, DialogInv, TypeOK, Waiting
<1>2. CASE UNCHANGED adds
  BY <1>1, <1>2, EnrolStutters DEF personVars
<1>3. CASE adds' # adds
  <2>1. adds' = Append(adds, new)
    BY <1>3 DEF ConfirmFace
  <2>2. n \in 1..MaxTaps /\ DOMAIN adds = 1..Len(adds) /\ n \notin DOMAIN adds
    BY <1>1, PersonAssumption
  <2>3. /\ DOMAIN adds' = DOMAIN adds \cup {n} /\ adds'[n] = new
        /\ \A b \in DOMAIN adds : adds'[b] = adds[b]
    BY <1>1, <2>1
  <2>4. new.person = current /\ new.left > 0 /\ ~new.added
    BY PersonAssumption
  <2> HIDE DEF n, new
  <2>5. PendingAdds' = PendingAdds \cup {[tap |-> n, person |-> current]}
    BY <2>2, <2>3, <2>4 DEF PendingAdds, Unanswered
  <2>6. \A a \in PendingAdds : a.tap # n
    BY <2>2 DEF PendingAdds
  <2>7. WithFace' = WithFace
    BY <1>1 DEF WithFace
  <2>8. current # NoPerson
    BY <1>1, PersonAssumption
  <2>9. Enrol!AddFace(n)
    BY <1>1, <2>5, <2>6, <2>7, <2>8 DEF Enrol!AddFace, personVars
  <2> QED
    BY <2>2, <2>9 DEF Enrol!Next
<1> QED
  BY <1>2, <1>3

\* The first success lists the face, the last failure gives it up, and the
\* answers in between and after are not seen.
LEMMA AddRefines ==
    ASSUME PersonInv, NEW a \in DOMAIN adds, NEW ok \in BOOLEAN, AddAnswered(a, ok)
    PROVE  Enrol!Next \/ UNCHANGED Enrol!vars
<1> USE DEF PersonInv
<1> DEFINE rec == [tap |-> a, person |-> adds[a].person]
<1>1. /\ adds[a].left \in Nat /\ adds[a].left > 0 /\ adds[a].added \in BOOLEAN
      /\ adds[a].person \in Person /\ adds[a].face \in FaceObject
  <2>1. adds[a] \in Add
    BY DEF TypeOK
  <2> QED
    BY <2>1, PersonAssumption DEF Add, AddAnswered, Unanswered
<1>2. /\ UNCHANGED <<screen, current, known, roster>> /\ Waiting' = Waiting
      /\ DOMAIN adds' = DOMAIN adds
      /\ \A b \in DOMAIN adds : adds'[b].person = adds[b].person
      /\ \A b \in DOMAIN adds : b # a => adds'[b] = adds[b]
      /\ adds'[a].left = adds[a].left - 1
      /\ adds'[a].added = (adds[a].added \/ ok)
  BY AddRecord DEF AddAnswered, personVars, dialogVars, Waiting
<1>3. CASE adds[a].added
  <2>1. UNCHANGED <<listed, needTraining>>
    BY <1>3 DEF AddAnswered, ListsFirst
  <2>2. PendingAdds' = PendingAdds
    BY <1>2, <1>3 DEF PendingAdds, Unanswered
  <2> QED
    BY <1>2, <2>1, <2>2 DEF Enrol!vars, WithFace
<1>4. CASE ~adds[a].added /\ ~ok /\ adds[a].left > 1
  <2>1. UNCHANGED <<listed, needTraining>>
    BY <1>4 DEF AddAnswered
  <2>2. adds'[a].left > 0 /\ ~adds'[a].added
    BY <1>1, <1>2, <1>4
  <2>3. PendingAdds' = PendingAdds
    BY <1>1, <1>2, <1>4, <2>2 DEF PendingAdds, Unanswered
  <2> QED
    BY <1>2, <2>1, <2>3 DEF Enrol!vars, WithFace
<1>5. CASE ~adds[a].added /\ (ok \/ adds[a].left = 1)
  <2>1. rec \in PendingAdds
    BY <1>1, <1>5 DEF PendingAdds, Unanswered
  <2>2. ~(adds'[a].left > 0 /\ ~adds'[a].added)
    BY <1>1, <1>2, <1>5
  <2>3. PendingAdds' = PendingAdds \ {rec}
    BY <1>2, <2>2 DEF PendingAdds, Unanswered
  <2>4. IF ok THEN WithFace' = WithFace \cup {adds[a].person} /\ needTraining' = TRUE
              ELSE WithFace' = WithFace /\ needTraining' = needTraining
    <3>1. CASE ok
      <4>1. /\ listed' = [listed EXCEPT ![adds[a].person] = Append(@, adds[a].face)]
            /\ needTraining' = TRUE
        BY <1>5, <3>1 DEF AddAnswered, ListsFirst
      <4>2. listed \in [Person -> Seq(FaceObject)]
        BY DEF TypeOK
      <4>3. listed'[adds[a].person] # <<>>
        <5>1. listed[adds[a].person] \in Seq(FaceObject)
          BY <1>1, <4>2
        <5>2. listed'[adds[a].person] = Append(listed[adds[a].person], adds[a].face)
          BY <1>1, <4>1, <4>2
        <5> QED
          BY <1>1, <5>1, <5>2
      <4>4. \A p \in Person : p # adds[a].person => listed'[p] = listed[p]
        BY <4>1, <4>2
      <4>5. WithFace' = WithFace \cup {adds[a].person}
        BY <1>1, <4>3, <4>4 DEF WithFace
      <4> QED
        BY <3>1, <4>1, <4>5
    <3>2. CASE ~ok
      BY <3>2 DEF AddAnswered, WithFace
    <3> QED
      BY <3>1, <3>2
  <2>5. rec.person = adds[a].person
    OBVIOUS
  <2>6. Enrol!AddAnswered(rec, ok)
    BY <1>2, <2>3, <2>4, <2>5 DEF Enrol!AddAnswered
  <2> QED
    BY <2>1, <2>6 DEF Enrol!Next
<1> QED
  BY <1>1, <1>3, <1>4, <1>5

LEMMA DeleteRefines ==
    ASSUME PersonInv, NEW ok \in BOOLEAN, DeleteAnswered(ok)
    PROVE  Enrol!Next \/ UNCHANGED Enrol!vars
<1> USE DEF PersonInv
<1>1. /\ UNCHANGED <<screen, current, known, roster, adds, needTraining>>
      /\ current \in Person /\ Waiting = "face" /\ Waiting' = "none"
      /\ listed \in [Person -> Seq(FaceObject)]
  BY PersonAssumption DEF DeleteAnswered, DialogInv, TypeOK, personVars, Waiting
<1>2. PendingAdds' = PendingAdds
  BY <1>1 DEF PendingAdds, Unanswered
<1>3. \A p \in Person : p # current => listed'[p] = listed[p]
  BY <1>1, DeleteAnsweredStep
<1>4. listed[current] # <<>>
  BY DeleteAnsweredStep
<1>5. CASE listed'[current] # <<>>
  <2>1. WithFace' = WithFace
    BY <1>3, <1>4, <1>5 DEF WithFace
  <2>2. Enrol!NothingDone
    BY <1>1, <1>2, <2>1 DEF Enrol!NothingDone
  <2> QED
    BY <2>2 DEF Enrol!Next
<1>6. CASE listed'[current] = <<>>
  <2>1. WithFace' = WithFace \ {current} /\ current \in WithFace
    BY <1>1, <1>3, <1>4, <1>6 DEF WithFace
  <2>2. Enrol!FacesDeleted
    BY <1>1, <1>2, <2>1 DEF Enrol!FacesDeleted
  <2> QED
    BY <2>2 DEF Enrol!Next
<1> QED
  BY <1>5, <1>6

LEMMA DeleteFaceRefines ==
    ASSUME PersonInv, NEW i \in 1..MaxTaps, DeleteFace(i)
    PROVE  Enrol!DeleteFace
<1>1. /\ Waiting = "none" /\ screen = "person" /\ current \in Person
      /\ listed[current] # <<>>
  BY DEF DeleteFace, Blocked, Waiting, PersonInv, TypeOK
<1>2. Waiting' = "face"
  BY PersonAssumption DEF DeleteFace, Blocked, Waiting, PersonInv, TypeOK
<1> QED
  BY <1>1, <1>2, EnrolSame DEF DeleteFace, Enrol!DeleteFace, WithFace, personVars, faceVars

LEMMA NextEnrols == PersonInv /\ [Next]_vars => [Enrol!Next]_(Enrol!vars)
<1> SUFFICES ASSUME PersonInv, [Next]_vars PROVE Enrol!Next \/ UNCHANGED Enrol!vars
  OBVIOUS
<1>1. CASE UNCHANGED vars
  BY <1>1, EnrolStutters DEF vars
<1>2. CASE \/ \E i \in FaceObject : SelectFace(i)
           \/ DeclineFace \/ UpdatePerson \/ UpdateAnswered \/ NoticeAsserts
  BY <1>2, EnrolStutters
  DEF UpdatePerson, UpdateAnswered, SelectFace, DeclineFace, NoticeAsserts, personVars,
      faceVars, dialogVars
<1>3. CASE \E i \in 1..MaxTaps : DeleteFace(i)
  BY <1>3, DeleteFaceRefines DEF Enrol!Next
<1> QED
  BY <1>1, <1>2, <1>3, GroupRefines, ScreenRefines, ConfirmRefines, AddRefines,
     DeleteRefines DEF Next

LEMMA InitEnrols == Init => Enrol!Init
<1> SUFFICES ASSUME Init PROVE Enrol!Init
  OBVIOUS
<1>1. WithFace = {} /\ PendingAdds = {}
  BY DEF Init, WithFace, PendingAdds
<1>2. (screen # "group") = FALSE /\ Waiting = "none"
  BY DEF Init, Waiting
<1> QED
  BY <1>1, <1>2 DEF Init, Enrol!Init

\* A person's screens are to the group's screen what module Enrolment says.
THEOREM Enrols == Spec => ImplementsEnrolment
BY InitPerson, NextPerson, InitEnrols, NextEnrols, PTL
DEF Spec, ImplementsEnrolment, Enrol!Spec
=============================================================================
